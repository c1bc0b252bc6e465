---------------------------- MODULE SharesProofs ----------------------------
(***************************************************************************)
(* The largest remainders give the whole pool away: the divisions leave    *)
(* fewer credits than there are claimants, and the order in which          *)
(* remainders are served, being strict, has as many first claimants as     *)
(* credits are left.                                                       *)
(***************************************************************************)
EXTENDS Shares, SumTheorems

Ranks(K, rank) ==
  /\ \A k \in K : rank[k] \in Nat
  /\ \A j, k \in K : rank[j] = rank[k] => j = k

(* In a strict order on a finite set, m elements have fewer than m others  *)
(* before them.                                                            *)
LEMMA FirstOnes ==
  ASSUME NEW K, IsFiniteSet(K), NEW before \in [K -> SUBSET K], NEW m \in Nat,
         m =< Cardinality(K),
         \A k \in K : k \notin before[k],
         \A j, k \in K : j # k => j \in before[k] \/ k \in before[j],
         \A j, k \in K : j \in before[k] => before[j] \subseteq before[k]
  PROVE  Cardinality({k \in K : Cardinality(before[k]) < m}) = m
PROOF
  <1> DEFINE n == Cardinality(K)
             place == [k \in K |-> Cardinality(before[k])]
             F == {k \in K : place[k] < m}
             head == [k \in F |-> place[k]]
  <1>1. n \in Nat
    BY FS_CardinalityType
  <1>2. \A k \in K : IsFiniteSet(before[k]) /\ place[k] \in Nat
    BY FS_Subset, FS_CardinalityType
  <1>3. \A j, k \in K : j \in before[k] => place[j] < place[k]
    <2> SUFFICES ASSUME NEW j \in K, NEW k \in K, j \in before[k] PROVE place[j] < place[k]
      OBVIOUS
    <2>1. before[j] \in SUBSET before[k] /\ before[j] # before[k]
      OBVIOUS
    <2>2. /\ Cardinality(before[j]) =< Cardinality(before[k])
          /\ Cardinality(before[k]) # Cardinality(before[j])
      BY <1>2, <2>1, FS_Subset
    <2> QED
      BY <1>2, <2>2
  <1>4. \A k \in K : place[k] \in 0..(n - 1)
    <2> SUFFICES ASSUME NEW k \in K PROVE place[k] \in 0..(n - 1)
      OBVIOUS
    <2>1. before[k] \in SUBSET K /\ before[k] # K
      OBVIOUS
    <2>2. Cardinality(before[k]) =< Cardinality(K) /\ Cardinality(K) # Cardinality(before[k])
      BY <2>1, FS_Subset
    <2> QED
      BY <1>1, <1>2, <2>2
  <1>5. place \in Injection(K, 0..(n - 1))
    <2>1. place \in [K -> 0..(n - 1)]
      BY <1>4
    <2>2. \A j, k \in K : place[j] = place[k] => j = k
      BY <1>2, <1>3
    <2> HIDE DEF place
    <2> QED
      BY <2>1, <2>2 DEF Injection, IsInjective
  <1>6. IsFiniteSet(0..(n - 1)) /\ Cardinality(0..(n - 1)) = n
    <2>1. 0 \in Int /\ n - 1 \in Int /\ (IF 0 > n - 1 THEN 0 ELSE n - 1 - 0 + 1) = n
      BY <1>1
    <2> HIDE DEF n
    <2> QED
      BY <2>1, FS_Interval
  <1>7. place \in Surjection(K, 0..(n - 1))
    BY <1>5, <1>6, FS_Injection
  <1>8. head \in Bijection(F, 0..(m - 1))
    <2>1. head \in [F -> 0..(m - 1)]
      BY <1>2
    <2>2. \A j, k \in F : head[j] = head[k] => j = k
      BY <1>5 DEF Injection, IsInjective
    <2>3. \A i \in 0..(m - 1) : \E k \in F : head[k] = i
      <3> SUFFICES ASSUME NEW i \in 0..(m - 1) PROVE \E k \in F : head[k] = i
        OBVIOUS
      <3>1. i \in 0..(n - 1)
        BY <1>1
      <3>2. PICK k \in K : place[k] = i
        BY <1>7, <3>1 DEF Surjection
      <3> QED
        BY <3>2
    <2> HIDE DEF head, F
    <2> QED
      BY <2>1, <2>2, <2>3 DEF Bijection, Injection, IsInjective, Surjection
  <1>9. IsFiniteSet(F) /\ ExistsBijection(F, 0..(m - 1))
    BY <1>8, FS_Subset DEF ExistsBijection
  <1>10. Cardinality(0..(m - 1)) = m
    BY FS_Interval
  <1>11. Cardinality(F) = m
    BY <1>9, <1>10, FS_Bijection
  <1> QED
    BY <1>11

LEMMA Division ==
  ASSUME NEW a \in Nat, NEW t \in Nat \ {0}
  PROVE  /\ a \div t \in Nat /\ a % t \in 0..(t - 1)
         /\ a = (a \div t) * t + (a % t)
PROOF
  OBVIOUS

LEMMA Cancel ==
  ASSUME NEW r \in Int, NEW n \in Nat, NEW t \in Nat \ {0}, 0 =< r * t, r * t =< n * t
  PROVE  0 =< r /\ r =< n
PROOF
  OBVIOUS

LEMMA ProductType ==
  ASSUME NEW a \in Nat, NEW b \in Nat
  PROVE  a * b \in Nat
PROOF
  OBVIOUS

(* The divisions leave as many credits as claimants, at most, and no less  *)
(* than none.                                                              *)
LEMMA ResidualBound ==
  ASSUME NEW units, IsFiniteSet(DOMAIN units), \A k \in DOMAIN units : units[k] \in Nat,
         NEW pool \in Nat, SumFunction(units) # 0
  PROVE  LET floor == Floor(units, pool, SumFunction(units)) IN
         /\ SumFunction(units) \in Nat
         /\ SumFunction(floor) \in Nat
         /\ pool - SumFunction(floor) \in 0..Cardinality(DOMAIN units)
PROOF
  <1> DEFINE K == DOMAIN units
             T == SumFunction(units)
             floor == Floor(units, pool, T)
             prod == [k \in K |-> units[k] * pool]
             floors == [k \in K |-> floor[k] * T]
             rems == [k \in K |-> prod[k] % T]
             one == [k \in K |-> 1]
             tops == [k \in K |-> 1 * T]
  <1>1. T = Sum(units, K)
    BY DEF SumFunction, Sum
  <1>2. T \in Nat \ {0}
    BY <1>1, SumNat
  <1>3. \A k \in K : prod[k] \in Nat
    BY ProductType
  <1>4. \A k \in K : /\ floor[k] = prod[k] \div T /\ floor[k] \in Nat
                     /\ rems[k] \in 0..(T - 1)
                     /\ prod[k] = floor[k] * T + rems[k]
    <2> SUFFICES ASSUME NEW k \in K
                 PROVE  /\ floor[k] = prod[k] \div T /\ floor[k] \in Nat
                        /\ rems[k] \in 0..(T - 1)
                        /\ prod[k] = floor[k] * T + rems[k]
      OBVIOUS
    <2>1. floor[k] = prod[k] \div T
      BY DEF Floor
    <2>2. rems[k] = prod[k] % T
      OBVIOUS
    <2> HIDE DEF T, floor, prod, rems
    <2>3. prod[k] \in Nat /\ T \in Nat \ {0}
      BY <1>2, <1>3
    <2>4. /\ prod[k] \div T \in Nat /\ prod[k] % T \in 0..(T - 1)
          /\ prod[k] = (prod[k] \div T) * T + (prod[k] % T)
      BY <2>3, Division
    <2> QED
      BY <2>1, <2>2, <2>4, Zenon
  <1>5. DOMAIN floor = K
    BY DEF Floor
  <1>6. SumFunction(floor) = Sum(floor, K)
    BY <1>5 DEF SumFunction, Sum
  <1>7. \A k \in K : floors[k] = floor[k] * T /\ tops[k] = one[k] * T /\ one[k] = 1
    OBVIOUS
  <1>8. \A k \in K : prod[k] = units[k] * pool
    OBVIOUS
  <1> HIDE DEF T, floor, prod, floors, rems, one, tops
  <1>9. \A k \in K : floors[k] \in Nat /\ tops[k] \in Nat /\ rems[k] \in Nat /\ rems[k] =< tops[k]
    <2> SUFFICES ASSUME NEW k \in K
                 PROVE  floors[k] \in Nat /\ tops[k] \in Nat /\ rems[k] \in Nat /\ rems[k] =< tops[k]
      OBVIOUS
    <2>1. tops[k] = T
      BY <1>2, <1>7
    <2>2. floors[k] \in Nat
      BY <1>2, <1>4, <1>7, ProductType
    <2> QED
      BY <1>2, <1>4, <2>1, <2>2
  <1>10. Sum(prod, K) = T * pool
    BY <1>1, <1>8, SumTimes DEF Integral
  <1>11. Sum(floors, K) = Sum(floor, K) * T
    BY <1>2, <1>4, <1>7, SumTimes DEF Integral
  <1>12. Sum(prod, K) = Sum(floors, K) + Sum(rems, K)
    BY <1>4, <1>7, <1>9, SumPlus DEF Integral
  <1>13. Sum(rems, K) \in Nat
    BY <1>9, SumNat
  <1>14. Sum(rems, K) =< Sum(tops, K)
    BY <1>9, SumBound DEF Integral
  <1>15. Sum(tops, K) = Sum(one, K) * T
    BY <1>2, <1>7, SumTimes DEF Integral
  <1>16. Sum(one, K) = Cardinality(K)
    <2>1. {k \in K : one[k] = 1} = K
      BY <1>7
    <2>2. \A k \in K : one[k] \in {0, 1}
      BY <1>7
    <2>3. Sum(one, K) = Cardinality({k \in K : one[k] = 1})
      BY <2>2, SumCounts
    <2> QED
      BY <2>1, <2>3
  <1>17. Sum(floor, K) \in Nat
    BY <1>4, SumNat
  <1> DEFINE R == pool - Sum(floor, K)
  <1>18. R * T = Sum(rems, K)
    <2>1. T * pool = Sum(floor, K) * T + Sum(rems, K)
      BY <1>10, <1>11, <1>12
    <2>2. R * T = T * pool - Sum(floor, K) * T
      BY <1>2, <1>17
    <2>3. Sum(floor, K) * T \in Nat
      BY <1>2, <1>17, ProductType
    <2> QED
      BY <1>13, <2>1, <2>2, <2>3
  <1>19. 0 =< R * T /\ R * T =< Cardinality(K) * T
    BY <1>13, <1>14, <1>15, <1>16, <1>18
  <1>20. R \in Int /\ Cardinality(K) \in Nat
    BY <1>17, FS_CardinalityType
  <1>21. 0 =< R /\ R =< Cardinality(K)
    <2> HIDE DEF R, K
    <2> QED
      BY <1>2, <1>19, <1>20, Cancel
  <1> QED
    BY <1>2, <1>6, <1>17, <1>20, <1>21 DEF T, floor

LEMMA AheadIsStrict ==
  ASSUME NEW units, NEW pool, NEW total, NEW rank, Ranks(DOMAIN units, rank),
         \A k \in DOMAIN units : (units[k] * pool) % total \in Nat
  PROVE  LET K == DOMAIN units
             before(k) == Ahead(k, units, pool, total, rank)
         IN /\ \A k \in K : before(k) \subseteq K /\ k \notin before(k)
            /\ \A j, k \in K : j # k => j \in before(k) \/ k \in before(j)
            /\ \A j, k \in K : j \in before(k) => before(j) \subseteq before(k)
PROOF
  <1> DEFINE K == DOMAIN units
             rem == [k \in K |-> (units[k] * pool) % total]
             before(k) == Ahead(k, units, pool, total, rank)
  <1>1. \A k \in K : before(k) = {j \in K : \/ rem[j] > rem[k]
                                            \/ rem[j] = rem[k] /\ rank[j] < rank[k]}
    BY DEF Ahead
  <1>2. \A k \in K : rem[k] \in Nat /\ rank[k] \in Nat
    BY DEF Ranks
  <1>3. \A j, k \in K : rank[j] = rank[k] => j = k
    BY DEF Ranks
  <1> HIDE DEF K, rem, before
  <1>4. \A k \in K : before(k) \subseteq K /\ k \notin before(k)
    BY <1>1, <1>2
  <1>5. ASSUME NEW j \in K, NEW k \in K, j # k PROVE j \in before(k) \/ k \in before(j)
    <2>1. \/ rem[j] > rem[k] \/ rem[k] > rem[j]
          \/ rem[j] = rem[k] /\ (rank[j] < rank[k] \/ rank[k] < rank[j])
      BY <1>2, <1>3, <1>5
    <2> QED
      BY <1>1, <2>1
  <1>6. ASSUME NEW j \in K, NEW k \in K, j \in before(k), NEW i \in before(j)
        PROVE  i \in before(k)
    <2>1. i \in K
      BY <1>4
    <2>2. rem[j] > rem[k] \/ (rem[j] = rem[k] /\ rank[j] < rank[k])
      BY <1>1, <1>6
    <2>3. rem[i] > rem[j] \/ (rem[i] = rem[j] /\ rank[i] < rank[j])
      BY <1>1
    <2>4. rem[i] > rem[k] \/ (rem[i] = rem[k] /\ rank[i] < rank[k])
      BY <1>2, <2>1, <2>2, <2>3
    <2> QED
      BY <1>1, <2>1, <2>4
  <1> QED
    BY <1>4, <1>5, <1>6 DEF K, before

(* The lines of a statement (computeAttributionStatementLines): unless     *)
(* there is nothing to divide or nobody to divide it by, they add up to    *)
(* the pool, and everybody gets the exact share or one credit more.        *)
THEOREM SharesAddUp ==
  ASSUME NEW units, IsFiniteSet(DOMAIN units), \A k \in DOMAIN units : units[k] \in Nat,
         NEW pool \in Nat, NEW rank, Ranks(DOMAIN units, rank)
  PROVE  LET lines == LargestRemainder(units, pool, rank)
             total == SumFunction(units)
         IN \/ lines = Nobody
            \/ /\ DOMAIN lines = DOMAIN units
               /\ \A k \in DOMAIN units :
                    lines[k] - (units[k] * pool) \div total \in {0, 1}
               /\ SumFunction(lines) = pool
PROOF
  <1> DEFINE K == DOMAIN units
             T == SumFunction(units)
             floor == Floor(units, pool, T)
             R == pool - SumFunction(floor)
             lines == LargestRemainder(units, pool, rank)
             before == [k \in K |-> Ahead(k, units, pool, T, rank)]
             bonus == [k \in K |-> IF Cardinality(before[k]) < R THEN 1 ELSE 0]
  <1>1. CASE T = 0 \/ pool = 0
    BY <1>1 DEF LargestRemainder
  <1>2. CASE T # 0 /\ pool # 0
    <2>1. T \in Nat /\ SumFunction(floor) \in Nat /\ R \in 0..Cardinality(K)
      BY <1>2, ResidualBound
    <2>2. \A k \in K : floor[k] \in Nat /\ (units[k] * pool) % T \in Nat
      <3> SUFFICES ASSUME NEW k \in K PROVE floor[k] \in Nat /\ (units[k] * pool) % T \in Nat
        OBVIOUS
      <3>1. floor[k] = (units[k] * pool) \div T
        BY DEF Floor
      <3>2. units[k] * pool \in Nat
        BY ProductType
      <3> HIDE DEF T, floor
      <3>3. (units[k] * pool) \div T \in Nat /\ (units[k] * pool) % T \in 0..(T - 1)
        BY <1>2, <2>1, <3>2, Division
      <3> QED
        BY <2>1, <3>1, <3>3
    <2>3. lines = [k \in K |-> floor[k] + bonus[k]]
      BY <1>2 DEF LargestRemainder
    <2>4. DOMAIN floor = K /\ DOMAIN lines = K
      BY <2>3 DEF Floor
    <2>5. \A k \in K : lines[k] = floor[k] + bonus[k] /\ bonus[k] \in {0, 1}
      BY <2>3
    <2>6. \A k \in K : bonus[k] = 1 <=> Cardinality(before[k]) < R
      OBVIOUS
    <2>7. /\ before \in [K -> SUBSET K]
          /\ \A k \in K : k \notin before[k]
          /\ \A j, k \in K : j # k => j \in before[k] \/ k \in before[j]
          /\ \A j, k \in K : j \in before[k] => before[j] \subseteq before[k]
      BY <2>2, AheadIsStrict
    <2>8. \A k \in K : floor[k] = (units[k] * pool) \div T
      BY DEF Floor
    <2> HIDE DEF T, floor, R, lines, before, bonus
    <2>9. Cardinality({k \in K : Cardinality(before[k]) < R}) = R
      BY <2>1, <2>7, FirstOnes
    <2>10. {k \in K : bonus[k] = 1} = {k \in K : Cardinality(before[k]) < R}
      BY <2>6
    <2>11. Sum(bonus, K) = R
      <3>1. Sum(bonus, K) = Cardinality({k \in K : bonus[k] = 1})
        BY <2>5, SumCounts
      <3> QED
        BY <2>9, <2>10, <3>1
    <2>12. Sum(lines, K) = Sum(floor, K) + Sum(bonus, K)
      BY <2>2, <2>5, SumPlus DEF Integral
    <2>13. SumFunction(lines) = Sum(lines, K) /\ SumFunction(floor) = Sum(floor, K)
      BY <2>4 DEF SumFunction, Sum
    <2>14. SumFunction(lines) = pool
      BY <2>1, <2>11, <2>12, <2>13 DEF R
    <2>15. \A k \in K : lines[k] - (units[k] * pool) \div T \in {0, 1}
      BY <2>2, <2>5, <2>8
    <2> QED
      BY <2>4, <2>14, <2>15 DEF T, lines
  <1> QED
    BY <1>1, <1>2

(* Nobody's share is negative. *)
LEMMA SharesType ==
  ASSUME NEW units, IsFiniteSet(DOMAIN units), \A k \in DOMAIN units : units[k] \in Nat,
         NEW pool \in Nat, NEW rank, Ranks(DOMAIN units, rank)
  PROVE  LET lines == LargestRemainder(units, pool, rank) IN
         /\ lines = Nobody \/ lines \in [DOMAIN units -> Nat]
         /\ DOMAIN lines = {} \/ SumFunction(lines) = pool
PROOF
  <1> DEFINE K == DOMAIN units
             T == SumFunction(units)
             lines == LargestRemainder(units, pool, rank)
  <1>1. T \in Nat
    BY SumNat DEF SumFunction, Sum
  <1>2. DOMAIN Nobody = {}
    BY DEF Nobody
  <1>3. CASE lines # Nobody
    <2>1. T # 0 /\ lines = [k \in K |-> lines[k]]
      BY <1>3 DEF LargestRemainder
    <2>2. /\ SumFunction(lines) = pool
          /\ \A k \in K : lines[k] - (units[k] * pool) \div T \in {0, 1}
      BY <1>3, SharesAddUp
    <2>3. ASSUME NEW k \in K PROVE (units[k] * pool) \div T \in Nat /\ lines[k] \in Int
      <3>1. units[k] * pool \in Nat
        BY ProductType
      <3> HIDE DEF T
      <3>2. (units[k] * pool) \div T \in Nat
        BY <1>1, <2>1, <3>1, Division
      <3>3. lines[k] \in Int
        <4> DEFINE Bonus == IF Cardinality(Ahead(k, units, pool, T, rank)) < pool - SumFunction(Floor(units, pool, T)) THEN 1 ELSE 0
        <4>1. lines[k] = Floor(units, pool, T)[k] + Bonus
          BY <1>3 DEF LargestRemainder, T
        <4>2. Floor(units, pool, T)[k] = (units[k] * pool) \div T
          BY DEF Floor
        <4>3. Bonus \in {0, 1}
          OBVIOUS
        <4> HIDE DEF Bonus, lines
        <4> QED
          BY <3>2, <4>1, <4>2, <4>3
      <3> QED
        BY <3>2, <3>3
    <2> HIDE DEF T, lines
    <2>4. \A k \in K : lines[k] \in Nat
      BY <2>2, <2>3
    <2>5. lines \in [K -> Nat]
      BY <2>1, <2>4
    <2> QED
      BY <2>2, <2>5 DEF lines
  <1> QED
    BY <1>2, <1>3

=============================================================================
