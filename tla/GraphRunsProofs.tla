-------------------------- MODULE GraphRunsProofs --------------------------
(***************************************************************************)
(* The properties of GraphRuns, for every number of turns, slots, callers, *)
(* deliveries, faults and deaths.                                          *)
(*                                                                         *)
(* Everything rests on what never shrinks (Monotone): threads and streams  *)
(* are only appended to and a claimed hash stays.  What a caller or a      *)
(* handler read before an await then stays true of what is stored:  a      *)
(* thread it loaded is a prefix of the thread, so that a save that finds   *)
(* the loaded length appends to the very thread that was loaded.           *)
(***************************************************************************)
EXTENDS GraphRuns, TLAPS

USE GraphRunsAssumption

-----------------------------------------------------------------------------
(* The inductive invariant *)

\* The messages, or the events, that are there are there still.
Extends(new, old) ==
  /\ Len(old) <= Len(new)
  /\ \A i \in 1..Len(old) : new[i] = old[i]

\* The prompt of a turn is the thread up to the turn, but for what redaction removed.
PromptOf(t, prompt, msgs) ==
  LET n == Len(prompt) IN
    /\ n \in DOMAIN msgs
    /\ msgs[n].role = "user" /\ msgs[n].run = t
    /\ \A i \in 1..n : msgs[i].text = Redact(prompt[i])

\* A message is in the sequence once, and what is stored is redacted.
Once(msgs) ==
  \A i, j \in DOMAIN msgs : msgs[i].role = msgs[j].role /\ msgs[i].run = msgs[j].run => i = j
Redacts(msgs) == \A i \in DOMAIN msgs : msgs[i].text \notin Secrets
ThreadSound(th) == Once(thread[th]) /\ Redacts(thread[th])

Saving == {"save", "resave"}
CallerSound(c) ==
  /\ call[c].pc \in {"load", "reload"} \cup Saving => CallRun[c] \in Turns
  /\ call[c].pc \in Saving =>
       /\ Extends(thread[Chat], call[c].base)
       /\ ~Holds(call[c].base, "user", CallRun[c])
  /\ call[c].pc \in {"check", "insert", "recheck", "start"} /\ CallRun[c] \in Turns =>
       PromptOf(CallRun[c], call[c].prompt, thread[Chat])

\* A delivery that owns the claim of its run.
Working == {"run", "stream", "drain", "load", "save", "publish", "report", "finalize"}
Claimant(h) == hand[h].ran \/ hand[h].pc \in Working

HandlerSound(h) ==
  /\ hand[h].pc # "idle" => hand[h].run \in Runs
  /\ hand[h].pc = "idle" => ~hand[h].ran /\ ~hand[h].ok
  /\ Claimant(h) => /\ request[hand[h].run] # None
                    /\ request[hand[h].run].hash = hand[h].prompt
  /\ hand[h].ok => StreamHolds(hand[h].run, "done")
  /\ hand[h].pc \in {"load", "save"} =>
       hand[h].run \in Stateful /\ hand[h].tries \in 1..MaxPersistAttempts
  /\ hand[h].pc = "save" =>
       /\ Extends(thread[ThreadOf(hand[h].run)], hand[h].base)
       /\ ~Holds(hand[h].base, "assistant", hand[h].run)
  /\ hand[h].pc = "publish" /\ hand[h].run \in Stateful =>
       Holds(thread[ThreadOf(hand[h].run)], "assistant", hand[h].run)
  /\ hand[h].pc # "idle" /\ hand[h].run \in Turns =>
       PromptOf(hand[h].run, hand[h].prompt, thread[Chat])

RunSound(r) ==
  /\ r \in Stateful /\ StreamHolds(r, "done") => Holds(thread[ThreadOf(r)], "assistant", r)
  /\ request[r] # None =>
       /\ request[r].ok = TRUE => StreamHolds(r, "done")
       /\ r \in Turns => PromptOf(r, request[r].hash, thread[Chat])
  /\ r \in Turns /\ workflow[r].state = "running" =>
       PromptOf(r, workflow[r].prompt, thread[Chat])

SlotClaimedOnce ==
  \A g, h \in Handlers :
    Claimant(g) /\ Claimant(h) /\ hand[g].run = hand[h].run /\ hand[g].run \in Slots => g = h

Sound ==
  /\ \A th \in Threads : ThreadSound(th)
  /\ \A c \in Callers : CallerSound(c)
  /\ \A h \in Handlers : HandlerSound(h)
  /\ \A r \in Runs : RunSound(r)
  /\ SlotClaimedOnce

-----------------------------------------------------------------------------
(* Sequences that grow *)

LEMMA ExtendsItself == ASSUME NEW S, NEW s \in Seq(S) PROVE Extends(s, s)
PROOF
  BY DEF Extends

LEMMA ExtendsOn ==
  ASSUME NEW S, NEW s \in Seq(S), NEW t \in Seq(S), NEW u \in Seq(S), Extends(t, s), Extends(u, t)
  PROVE  Extends(u, s)
PROOF
  <1>1. Len(s) \in Nat /\ Len(t) \in Nat /\ Len(u) \in Nat
    OBVIOUS
  <1> QED
    BY <1>1 DEF Extends

LEMMA AppendExtends ==
  ASSUME NEW S, NEW s \in Seq(S), NEW e \in S
  PROVE  /\ Append(s, e) \in Seq(S) /\ Extends(Append(s, e), s)
         /\ Len(Append(s, e)) = Len(s) + 1 /\ Append(s, e)[Len(s) + 1] = e
         /\ DOMAIN Append(s, e) = 1..Len(s) + 1 /\ DOMAIN s = 1..Len(s) /\ Len(s) \in Nat
         /\ \A i \in 1..Len(s) : Append(s, e)[i] = s[i]
PROOF
  BY DEF Extends

LEMMA ExtendsSame ==
  ASSUME NEW S, NEW s \in Seq(S), NEW t \in Seq(S), Extends(t, s), Len(t) = Len(s)
  PROVE  t = s
PROOF
  BY DEF Extends

LEMMA HoldsStill ==
  ASSUME NEW msgs \in Seq(Message), NEW more \in Seq(Message), Extends(more, msgs),
         NEW role, NEW r, Holds(msgs, role, r)
  PROVE  Holds(more, role, r)
PROOF
  <1>1. PICK i \in DOMAIN msgs : msgs[i].role = role /\ msgs[i].run = r
    BY DEF Holds
  <1>2. i \in 1..Len(msgs) /\ Len(msgs) \in Nat /\ Len(more) \in Nat /\ DOMAIN more = 1..Len(more)
    OBVIOUS
  <1>3. i \in DOMAIN more /\ more[i] = msgs[i]
    BY <1>2 DEF Extends
  <1> QED
    BY <1>1, <1>3 DEF Holds

LEMMA PromptStill ==
  ASSUME NEW msgs \in Seq(Message), NEW more \in Seq(Message), Extends(more, msgs),
         NEW t, NEW prompt \in Prompts, PromptOf(t, prompt, msgs)
  PROVE  PromptOf(t, prompt, more)
PROOF
  <1> DEFINE n == Len(prompt)
  <1>1. n \in DOMAIN msgs /\ msgs[n].role = "user" /\ msgs[n].run = t
    BY DEF PromptOf
  <1>2. /\ n \in 1..Len(msgs) /\ Len(msgs) \in Nat /\ Len(more) \in Nat
        /\ DOMAIN more = 1..Len(more)
    BY <1>1
  <1>3. n \in DOMAIN more /\ \A i \in 1..n : more[i] = msgs[i]
    BY <1>2 DEF Extends
  <1>4. more[n] = msgs[n]
    BY <1>2, <1>3
  <1> QED
    BY <1>1, <1>3, <1>4 DEF PromptOf

\* An event that was added stays in the stream.
HasEvent(events, e) == \E i \in DOMAIN events : events[i] = e

LEMMA EventStays ==
  ASSUME NEW s \in Seq(Events), NEW t \in Seq(Events), Extends(t, s), NEW e, HasEvent(s, e)
  PROVE  HasEvent(t, e)
PROOF
  <1>1. PICK i \in DOMAIN s : s[i] = e
    BY DEF HasEvent
  <1>2. i \in 1..Len(s) /\ Len(s) \in Nat /\ Len(t) \in Nat /\ DOMAIN t = 1..Len(t)
    OBVIOUS
  <1>3. i \in DOMAIN t /\ t[i] = s[i]
    BY <1>2 DEF Extends
  <1> QED
    BY <1>1, <1>3 DEF HasEvent

LEMMA EventAdded ==
  ASSUME NEW s \in Seq(Events), NEW e \in Events
  PROVE  \A x : HasEvent(Append(s, e), x) <=> HasEvent(s, x) \/ x = e
PROOF
  <1>1. \A i \in 1..Len(s) + 1 : i \in 1..Len(s) \/ i = Len(s) + 1
    OBVIOUS
  <1>2. Len(s) + 1 \in 1..Len(s) + 1 /\ \A i \in 1..Len(s) : i \in 1..Len(s) + 1
    OBVIOUS
  <1> QED
    BY <1>1, <1>2, AppendExtends DEF HasEvent

LEMMA StreamHas == \A r, e : StreamHolds(r, e) <=> HasEvent(stream[r], e)
PROOF
  BY DEF StreamHolds, HasEvent

-----------------------------------------------------------------------------
(* Messages *)

LEMMA MessageParts ==
  ASSUME NEW m \in Message
  PROVE  /\ m.role \in {"user", "assistant"} /\ m.run \in Runs
         /\ m.text \in Texts \cup {Redacted, Answer} /\ m.digest \in Texts \cup {None}
PROOF
  BY DEF Message

\* What a message is when it is stored.
Stored(m) == [m EXCEPT !.text = Redact(@)]

LEMMA StoredMessage ==
  ASSUME NEW m \in Message
  PROVE  /\ Stored(m) \in Message /\ Stored(m).role = m.role /\ Stored(m).run = m.run
         /\ Stored(m).text = Redact(m.text) /\ Stored(m).text \notin Secrets
         /\ m.text \notin Secrets => Stored(m) = m
PROOF
  <1>1. /\ Stored(m).role = m.role /\ Stored(m).run = m.run /\ Stored(m).digest = m.digest
        /\ Stored(m).text = Redact(m.text)
    BY DEF Stored, Message
  <1>2. Redact(m.text) \in Texts \cup {Redacted, Answer} /\ Redact(m.text) \notin Secrets
    BY MessageParts DEF Redact
  <1>3. Stored(m) \in Message
    BY <1>2 DEF Stored, Message
  <1>4. m.text \notin Secrets => Stored(m) = m
    BY DEF Stored, Redact, Message
  <1> QED
    BY <1>1, <1>2, <1>3, <1>4

\* A thread that is saved with one more message is the thread and the message, redacted.
LEMMA SavedThread ==
  ASSUME NEW msgs \in Seq(Message), Redacts(msgs), NEW m \in Message
  PROVE  RedactAll(Append(msgs, m)) = Append(msgs, Stored(m))
PROOF
  <1> DEFINE with == Append(msgs, m)
             n == Len(msgs)
  <1>1. /\ DOMAIN with = 1..n + 1 /\ n \in Nat /\ with[n + 1] = m
        /\ \A i \in 1..n : with[i] = msgs[i]
        /\ DOMAIN msgs = 1..n
    BY AppendExtends
  <1> HIDE DEF with
  <1>2. RedactAll(with) = [i \in 1..n + 1 |-> Stored(with[i])]
    BY <1>1 DEF RedactAll, Stored
  <1>3. \A i \in 1..n : Stored(with[i]) = msgs[i]
    <2>1. \A i \in 1..n : msgs[i] \in Message /\ msgs[i].text \notin Secrets
      BY <1>1 DEF Redacts
    <2> QED
      BY <1>1, <2>1, StoredMessage
  <1>4. Stored(with[n + 1]) = Stored(m)
    BY <1>1
  <1>5. \A i \in 1..n + 1 : i \in 1..n \/ i = n + 1
    BY <1>1
  <1>6. /\ Append(msgs, Stored(m)) \in Seq(Message) /\ Len(Append(msgs, Stored(m))) = n + 1
        /\ Append(msgs, Stored(m))[n + 1] = Stored(m)
        /\ \A i \in 1..n : Append(msgs, Stored(m))[i] = msgs[i]
    BY StoredMessage, AppendExtends
  <1>7. /\ RedactAll(with) \in Seq(Message) /\ Len(RedactAll(with)) = n + 1
        /\ \A i \in 1..n + 1 : RedactAll(with)[i] = Append(msgs, Stored(m))[i]
    <2>1. n + 1 \in Nat /\ \A i \in 1..n + 1 : Stored(with[i]) \in Message
      BY <1>1, <1>3, <1>4, <1>5, StoredMessage
    <2>2. [i \in 1..n + 1 |-> Stored(with[i])] \in Seq(Message)
      BY <2>1
    <2>3. Len([i \in 1..n + 1 |-> Stored(with[i])]) = n + 1
      BY <2>1
    <2>4. \A i \in 1..n + 1 : RedactAll(with)[i] = Append(msgs, Stored(m))[i]
      BY <1>2, <1>3, <1>4, <1>5, <1>6
    <2> QED
      BY <1>2, <2>2, <2>3, <2>4
  <1> HIDE DEF n
  <1>8. Extends(RedactAll(with), Append(msgs, Stored(m)))
    BY <1>1, <1>6, <1>7 DEF Extends
  <1> QED
    BY <1>6, <1>7, <1>8, ExtendsSame DEF with

LEMMA SavedOnce ==
  ASSUME NEW msgs \in Seq(Message), NEW m \in Message, Once(msgs), Redacts(msgs),
         ~Holds(msgs, m.role, m.run)
  PROVE  Once(Append(msgs, Stored(m))) /\ Redacts(Append(msgs, Stored(m)))
PROOF
  <1> DEFINE more == Append(msgs, Stored(m))
             n == Len(msgs)
  <1>1. /\ Stored(m) \in Message /\ Stored(m).role = m.role /\ Stored(m).run = m.run
        /\ Stored(m).text \notin Secrets
    BY StoredMessage
  <1>2. /\ DOMAIN more = 1..n + 1 /\ n \in Nat /\ more[n + 1] = Stored(m)
        /\ \A i \in 1..n : more[i] = msgs[i]
        /\ DOMAIN msgs = 1..n
    BY <1>1, AppendExtends
  <1>3. \A i \in 1..n + 1 : i \in 1..n \/ i = n + 1
    BY <1>2
  <1>4. \A i \in 1..n : ~(msgs[i].role = m.role /\ msgs[i].run = m.run)
    BY <1>2 DEF Holds
  <1> HIDE DEF more
  <1>5. Once(more)
    BY <1>1, <1>2, <1>3, <1>4 DEF Once
  <1>6. Redacts(more)
    BY <1>1, <1>2, <1>3 DEF Redacts
  <1> QED
    BY <1>5, <1>6 DEF more

LEMMA HoldsAppended ==
  ASSUME NEW msgs \in Seq(Message), NEW m \in Message
  PROVE  \A role, r : Holds(Append(msgs, m), role, r)
                        <=> Holds(msgs, role, r) \/ (role = m.role /\ r = m.run)
PROOF
  <1>1. /\ DOMAIN Append(msgs, m) = 1..Len(msgs) + 1 /\ Len(msgs) \in Nat
        /\ Append(msgs, m)[Len(msgs) + 1] = m
        /\ \A i \in 1..Len(msgs) : Append(msgs, m)[i] = msgs[i]
        /\ DOMAIN msgs = 1..Len(msgs)
    BY AppendExtends
  <1>2. /\ \A i \in 1..Len(msgs) + 1 : i \in 1..Len(msgs) \/ i = Len(msgs) + 1
        /\ \A i \in 1..Len(msgs) : i \in 1..Len(msgs) + 1
        /\ Len(msgs) + 1 \in 1..Len(msgs) + 1
    BY <1>1
  <1> QED
    BY <1>1, <1>2 DEF Holds

\* The prompt of a turn that was stored, or is being.
LEMMA PromptUpToIs ==
  ASSUME NEW msgs \in Seq(Message), NEW t, Holds(msgs, "user", t)
  PROVE  /\ PromptUpTo(msgs, t) \in Prompts
         /\ Len(PromptUpTo(msgs, t)) \in DOMAIN msgs
         /\ msgs[Len(PromptUpTo(msgs, t))].role = "user"
         /\ msgs[Len(PromptUpTo(msgs, t))].run = t
         /\ \A i \in 1..Len(PromptUpTo(msgs, t)) : PromptUpTo(msgs, t)[i] = msgs[i].text
PROOF
  <1> DEFINE n == TurnIndex(msgs, t)
             part == SubSeq(msgs, 1, n)
  <1>1. n \in DOMAIN msgs /\ msgs[n].role = "user" /\ msgs[n].run = t
    BY DEF Holds, TurnIndex
  <1> HIDE DEF n
  <1>2. n \in Nat /\ 1 <= n /\ n <= Len(msgs) /\ DOMAIN msgs = 1..Len(msgs)
    BY <1>1
  <1>3. DOMAIN part = 1..n /\ \A i \in 1..n : part[i] = msgs[i]
    BY <1>2
  <1> HIDE DEF part
  <1>4. PromptUpTo(msgs, t) = [i \in 1..n |-> part[i].text]
    BY <1>3 DEF PromptUpTo, Contents, part, n
  <1>5. \A i \in 1..n : part[i].text = msgs[i].text /\ msgs[i].text \in Texts \cup {Redacted, Answer}
    BY <1>2, <1>3, MessageParts
  <1>6. [i \in 1..n |-> part[i].text] \in Seq(Texts \cup {Redacted, Answer})
    BY <1>2, <1>5
  <1>7. Len([i \in 1..n |-> part[i].text]) = n
    BY <1>2
  <1> QED
    BY <1>1, <1>4, <1>5, <1>6, <1>7 DEF Prompts

LEMMA PromptStored ==
  ASSUME NEW msgs \in Seq(Message), NEW stored \in Seq(Message), Len(stored) = Len(msgs),
         \A i \in DOMAIN msgs : stored[i] = Stored(msgs[i]),
         NEW t, Holds(msgs, "user", t)
  PROVE  PromptOf(t, PromptUpTo(msgs, t), stored)
PROOF
  <1> DEFINE p == PromptUpTo(msgs, t)
  <1>1. /\ Len(p) \in DOMAIN msgs
        /\ msgs[Len(p)].role = "user" /\ msgs[Len(p)].run = t
        /\ \A i \in 1..Len(p) : p[i] = msgs[i].text
    BY PromptUpToIs
  <1> HIDE DEF p
  <1>2. DOMAIN stored = DOMAIN msgs /\ \A i \in 1..Len(p) : i \in DOMAIN msgs
    BY <1>1
  <1>3. \A i \in DOMAIN msgs : /\ stored[i].role = msgs[i].role /\ stored[i].run = msgs[i].run
                              /\ stored[i].text = Redact(msgs[i].text)
    BY StoredMessage
  <1> QED
    BY <1>1, <1>2, <1>3 DEF PromptOf, p

-----------------------------------------------------------------------------
(* Types *)

LEMMA ThreadTyped ==
  ASSUME TypeOK, NEW th \in Threads
  PROVE  thread[th] \in Seq(Message) /\ LoadThread(th) \in Seq(Message)
PROOF
  BY DEF TypeOK, LoadThread

LEMMA ThreadOfRun == \A r \in Stateful : ThreadOf(r) \in Threads
PROOF
  BY DEF ThreadOf, Threads, Stateful

LEMMA CallFields ==
  ASSUME TypeOK, NEW c \in Callers
  PROVE  /\ call[c] \in Call
         /\ call[c].pc \in CallerPCs /\ call[c].base \in Seq(Message)
         /\ call[c].prompt \in Prompts /\ call[c].pos \in Nat
         /\ CallRun[c] \in Runs /\ (CallRun[c] \in Turns => CallRun[c] \in Stateful)
PROOF
  BY DEF TypeOK, Call, Runs, Stateful

LEMMA HandFields ==
  ASSUME TypeOK, NEW h \in Handlers
  PROVE  /\ hand[h] \in Hand
         /\ hand[h].pc \in HandlerPCs /\ hand[h].run \in Runs \cup {None}
         /\ hand[h].prompt \in Prompts /\ hand[h].base \in Seq(Message)
         /\ hand[h].tries \in 0..MaxPersistAttempts + 1
         /\ hand[h].ok \in BOOLEAN /\ hand[h].ran \in BOOLEAN
PROOF
  BY DEF TypeOK, Hand

LEMMA NothingTyped == <<>> \in Seq(Message) /\ <<>> \in Prompts
PROOF
  BY DEF Prompts

LEMMA CallAtTyped ==
  ASSUME NEW pc \in CallerPCs, NEW base \in Seq(Message), NEW prompt \in Prompts, NEW pos \in Nat
  PROVE  /\ CallAt(pc, base, prompt, pos) \in Call
         /\ CallAt(pc, base, prompt, pos).pc = pc /\ CallAt(pc, base, prompt, pos).base = base
         /\ CallAt(pc, base, prompt, pos).prompt = prompt
PROOF
  BY DEF CallAt, Call

\* With nothing loaded, with a prompt or without.
LEMMA CallAtEmpty ==
  ASSUME NEW pc \in CallerPCs, NEW prompt \in Prompts, NEW pos \in Nat
  PROVE  /\ CallAt(pc, <<>>, prompt, pos) \in Call /\ CallAt(pc, <<>>, <<>>, pos) \in Call
         /\ CallAt(pc, <<>>, prompt, pos).pc = pc /\ CallAt(pc, <<>>, <<>>, pos).pc = pc
         /\ CallAt(pc, <<>>, prompt, pos).prompt = prompt
PROOF
  BY NothingTyped DEF CallAt, Call

LEMMA HandAtTyped ==
  ASSUME NEW pc \in HandlerPCs, NEW r \in Runs \cup {None}, NEW prompt \in Prompts,
         NEW base \in Seq(Message), NEW tries \in 0..MaxPersistAttempts + 1,
         NEW ok \in BOOLEAN, NEW ran \in BOOLEAN
  PROVE  LET w == HandAt(pc, r, prompt, base, tries, ok, ran) IN
         /\ w \in Hand /\ w.pc = pc /\ w.run = r /\ w.prompt = prompt /\ w.base = base
         /\ w.tries = tries /\ w.ok = ok /\ w.ran = ran
PROOF
  BY DEF HandAt, Hand

\* A caller that is given a new local state, or only goes on.
LEMMA CallSet ==
  ASSUME TypeOK, NEW c \in Callers, NEW w \in Call, call' = [call EXCEPT ![c] = w]
  PROVE  /\ call' \in [Callers -> Call] /\ call'[c] = w
         /\ \A d \in Callers \ {c} : call'[d] = call[d]
PROOF
  BY DEF TypeOK

LEMMA GotoIs ==
  ASSUME TypeOK, NEW c \in Callers, NEW pc \in CallerPCs, Goto(c, pc)
  PROVE  /\ call' \in [Callers -> Call]
         /\ call'[c].pc = pc /\ call'[c].base = call[c].base /\ call'[c].prompt = call[c].prompt
         /\ \A d \in Callers \ {c} : call'[d] = call[d]
PROOF
  <1>1. call' = [call EXCEPT ![c].pc = pc] /\ call \in [Callers -> Call]
    BY DEF Goto, TypeOK
  <1>2. /\ [call[c] EXCEPT !.pc = pc] \in Call
        /\ [call[c] EXCEPT !.pc = pc].pc = pc
        /\ [call[c] EXCEPT !.pc = pc].base = call[c].base
        /\ [call[c] EXCEPT !.pc = pc].prompt = call[c].prompt
    BY <1>1 DEF Call
  <1> QED
    BY <1>1, <1>2

\* A handler that is given a new local state, or only moves on.
LEMMA HandSet ==
  ASSUME TypeOK, NEW h \in Handlers, NEW w \in Hand, hand' = [hand EXCEPT ![h] = w]
  PROVE  /\ hand' \in [Handlers -> Hand] /\ hand'[h] = w
         /\ \A g \in Handlers \ {h} : hand'[g] = hand[g]
PROOF
  BY DEF TypeOK

LEMMA MoveIs ==
  ASSUME TypeOK, NEW h \in Handlers, NEW pc \in HandlerPCs, Move(h, pc)
  PROVE  /\ hand' \in [Handlers -> Hand]
         /\ hand'[h].pc = pc /\ hand'[h].run = hand[h].run /\ hand'[h].prompt = hand[h].prompt
         /\ hand'[h].base = hand[h].base /\ hand'[h].tries = hand[h].tries
         /\ hand'[h].ok = hand[h].ok /\ hand'[h].ran = hand[h].ran
         /\ \A g \in Handlers \ {h} : hand'[g] = hand[g]
PROOF
  <1> DEFINE w == [hand[h] EXCEPT !.pc = pc]
  <1>1. hand' = [hand EXCEPT ![h].pc = pc] /\ hand \in [Handlers -> Hand]
    BY DEF Move, TypeOK
  <1>2. w \in Hand
    BY <1>1 DEF Hand
  <1>3. /\ w.pc = pc /\ w.run = hand[h].run /\ w.prompt = hand[h].prompt
        /\ w.base = hand[h].base /\ w.tries = hand[h].tries
        /\ w.ok = hand[h].ok /\ w.ran = hand[h].ran
    BY <1>1 DEF Hand
  <1> QED
    BY <1>1, <1>2, <1>3

LEMMA RequestFields ==
  ASSUME TypeOK, NEW r \in Runs, request[r] # None
  PROVE  request[r] \in ExecutionRequest /\ request[r].hash \in Prompts
PROOF
  BY DEF TypeOK, ExecutionRequest

LEMMA WorkflowFields ==
  ASSUME TypeOK, NEW r \in Runs
  PROVE  /\ workflow[r].state \in {"none", "running", "closed"}
         /\ workflow[r].prompt \in Prompts
PROOF
  BY DEF TypeOK, Workflow

-----------------------------------------------------------------------------
(* What never shrinks *)

ThreadsGrow == \A th \in Threads : Extends(thread'[th], thread[th])
StreamsGrow == \A r \in Runs : Extends(stream'[r], stream[r])
ClaimsStay ==
  \A r \in Runs : request[r] # None => request'[r] # None /\ request'[r].hash = request[r].hash
Monotone == ThreadsGrow /\ StreamsGrow /\ ClaimsStay

LEMMA Unmoved ==
  ASSUME TypeOK
  PROVE  /\ thread' = thread => ThreadsGrow
         /\ stream' = stream => StreamsGrow
         /\ request' = request => ClaimsStay
PROOF
  <1>1. \A th \in Threads : Extends(thread[th], thread[th])
    BY ExtendsItself DEF TypeOK
  <1>2. \A r \in Runs : Extends(stream[r], stream[r])
    BY ExtendsItself DEF TypeOK
  <1> QED
    BY <1>1, <1>2 DEF ThreadsGrow, StreamsGrow, ClaimsStay

\* What was read of a thread, a stream or a request stays true of it.
LEMMA StaysTrue ==
  ASSUME TypeOK, TypeOK', Monotone
  PROVE  /\ \A role, r : \A th \in Threads :
              Holds(thread[th], role, r) => Holds(thread'[th], role, r)
         /\ \A th \in Threads, msgs \in Seq(Message) :
              Extends(thread[th], msgs) => Extends(thread'[th], msgs)
         /\ \A t : \A prompt \in Prompts :
              PromptOf(t, prompt, thread[Chat]) => PromptOf(t, prompt, thread'[Chat])
         /\ \A e : \A r \in Runs : HasEvent(stream[r], e) => HasEvent(stream'[r], e)
PROOF
  <1>1. ASSUME NEW th \in Threads
        PROVE  thread[th] \in Seq(Message) /\ thread'[th] \in Seq(Message)
               /\ Extends(thread'[th], thread[th])
    BY DEF TypeOK, Monotone, ThreadsGrow
  <1>2. ASSUME NEW th \in Threads, NEW role, NEW r, Holds(thread[th], role, r)
        PROVE  Holds(thread'[th], role, r)
    <2>1. thread[th] \in Seq(Message) /\ thread'[th] \in Seq(Message)
          /\ Extends(thread'[th], thread[th])
      BY <1>1
    <2> QED
      BY <1>2, <2>1, HoldsStill
  <1>3. ASSUME NEW th \in Threads, NEW msgs \in Seq(Message), Extends(thread[th], msgs)
        PROVE  Extends(thread'[th], msgs)
    <2>1. thread[th] \in Seq(Message) /\ thread'[th] \in Seq(Message)
          /\ Extends(thread'[th], thread[th])
      BY <1>1
    <2> QED
      BY <1>3, <2>1, ExtendsOn
  <1>4. ASSUME NEW t, NEW prompt \in Prompts, PromptOf(t, prompt, thread[Chat])
        PROVE  PromptOf(t, prompt, thread'[Chat])
    <2>1. thread[Chat] \in Seq(Message) /\ thread'[Chat] \in Seq(Message)
          /\ Extends(thread'[Chat], thread[Chat])
      BY <1>1 DEF Threads
    <2> QED
      BY <1>4, <2>1, PromptStill
  <1>5. ASSUME NEW r \in Runs, NEW e, HasEvent(stream[r], e) PROVE HasEvent(stream'[r], e)
    <2>1. stream[r] \in Seq(Events) /\ stream'[r] \in Seq(Events) /\ Extends(stream'[r], stream[r])
      BY DEF TypeOK, Monotone, StreamsGrow
    <2> QED
      BY <1>5, <2>1, EventStays
  <1> QED
    BY <1>2, <1>3, <1>4, <1>5

LEMMA CallerKept ==
  ASSUME TypeOK, TypeOK', Monotone, NEW c \in Callers, CallerSound(c), call'[c] = call[c]
  PROVE  CallerSound(c)'
PROOF
  <1>1. call[c].base \in Seq(Message) /\ call[c].prompt \in Prompts /\ Chat \in Threads
    BY CallFields DEF Threads
  <1> QED
    BY <1>1, StaysTrue DEF CallerSound

LEMMA HandlerKept ==
  ASSUME TypeOK, TypeOK', Monotone, NEW h \in Handlers, HandlerSound(h), hand'[h] = hand[h]
  PROVE  HandlerSound(h)'
PROOF
  <1> DEFINE r == hand[h].run
  <1>1. /\ hand[h].base \in Seq(Message) /\ hand[h].prompt \in Prompts
        /\ hand[h].pc # "idle" => r \in Runs
        /\ r \in Stateful => ThreadOf(r) \in Threads
        /\ Claimant(h) => r \in Runs
        /\ Claimant(h)' <=> Claimant(h)
        /\ hand[h].ok => hand[h].pc # "idle"
    BY HandFields, ThreadOfRun DEF HandlerSound, Claimant, Working
  <1>2. Claimant(h) => request'[r] # None /\ request'[r].hash = hand[h].prompt
    BY <1>1 DEF HandlerSound, Monotone, ClaimsStay
  <1>3. hand[h].ok => StreamHolds(r, "done")'
    <2>1. hand[h].ok => HasEvent(stream[r], "done") /\ r \in Runs
      BY <1>1, StreamHas DEF HandlerSound
    <2> QED
      BY <2>1, StaysTrue DEF StreamHolds, HasEvent
  <1>4. hand[h].pc = "save" =>
          /\ Extends(thread'[ThreadOf(r)], hand[h].base)
          /\ ~Holds(hand[h].base, "assistant", r)
    BY <1>1, StaysTrue DEF HandlerSound
  <1>5. hand[h].pc = "publish" /\ r \in Stateful => Holds(thread'[ThreadOf(r)], "assistant", r)
    BY <1>1, StaysTrue DEF HandlerSound
  <1>6. hand[h].pc # "idle" /\ r \in Turns => PromptOf(r, hand[h].prompt, thread'[Chat])
    BY <1>1, StaysTrue DEF HandlerSound
  <1> QED
    BY <1>1, <1>2, <1>3, <1>4, <1>5, <1>6 DEF HandlerSound

\* A run whose row, workflow and terminal event are as they were.
LEMMA RunKept ==
  ASSUME TypeOK, TypeOK', Monotone, NEW r \in Runs, RunSound(r),
         HasEvent(stream'[r], "done") => HasEvent(stream[r], "done"),
         request'[r] = request[r],
         workflow'[r].state = "running" => workflow'[r] = workflow[r]
  PROVE  RunSound(r)'
PROOF
  <1>1. r \in Stateful /\ StreamHolds(r, "done")' => Holds(thread'[ThreadOf(r)], "assistant", r)
    <2>1. StreamHolds(r, "done")' => HasEvent(stream[r], "done")
      BY DEF StreamHolds, HasEvent
    <2> QED
      BY <2>1, StreamHas, StaysTrue, ThreadOfRun DEF RunSound
  <1>2. request[r] # None =>
          /\ request[r].ok = TRUE => StreamHolds(r, "done")'
          /\ r \in Turns => PromptOf(r, request[r].hash, thread'[Chat])
    <2>1. request[r] # None /\ request[r].ok = TRUE => StreamHolds(r, "done")'
      <3>1. request[r] # None /\ request[r].ok = TRUE => HasEvent(stream[r], "done")
        BY StreamHas DEF RunSound
      <3> QED
        BY <3>1, StaysTrue DEF StreamHolds, HasEvent
    <2>2. request[r] # None /\ r \in Turns => PromptOf(r, request[r].hash, thread'[Chat])
      BY RequestFields, StaysTrue DEF RunSound
    <2> QED
      BY <2>1, <2>2
  <1>3. r \in Turns /\ workflow'[r].state = "running" =>
          PromptOf(r, workflow'[r].prompt, thread'[Chat])
    BY WorkflowFields, StaysTrue DEF RunSound
  <1> QED
    BY <1>1, <1>2, <1>3 DEF RunSound

-----------------------------------------------------------------------------
(* The steps *)

\* A step of one caller, and of the rows it writes.
LEMMA CallerMoves ==
  ASSUME TypeOK, TypeOK', Sound, Monotone, NEW c \in Callers, hand' = hand,
         \A d \in Callers \ {c} : call'[d] = call[d],
         CallerSound(c)', \A th \in Threads : ThreadSound(th)', \A r \in Runs : RunSound(r)'
  PROVE  Sound'
PROOF
  <1>1. ASSUME NEW d \in Callers PROVE CallerSound(d)'
    <2>1. CASE d = c
      BY <2>1
    <2>2. CASE d # c
      BY <2>2, CallerKept DEF Sound
    <2> QED
      BY <2>1, <2>2
  <1>2. ASSUME NEW h \in Handlers PROVE HandlerSound(h)'
    BY HandlerKept DEF Sound
  <1>3. SlotClaimedOnce'
    BY DEF Sound, SlotClaimedOnce, Claimant
  <1> QED
    BY <1>1, <1>2, <1>3 DEF Sound

\* A step of one handler, and of the rows it writes: it claims a slot when nobody has.
LEMMA HandlerMoves ==
  ASSUME TypeOK, TypeOK', Sound, Monotone, NEW h \in Handlers, call' = call,
         \A g \in Handlers \ {h} : hand'[g] = hand[g],
         HandlerSound(h)', \A th \in Threads : ThreadSound(th)', \A r \in Runs : RunSound(r)',
         Claimant(h)' /\ hand'[h].run \in Slots =>
           \/ Claimant(h) /\ hand'[h].run = hand[h].run
           \/ request[hand'[h].run] = None
  PROVE  Sound'
PROOF
  <1>1. ASSUME NEW c \in Callers PROVE CallerSound(c)'
    BY CallerKept DEF Sound
  <1>2. ASSUME NEW g \in Handlers PROVE HandlerSound(g)'
    <2>1. CASE g = h
      BY <2>1
    <2>2. CASE g # h
      BY <2>2, HandlerKept DEF Sound
    <2> QED
      BY <2>1, <2>2
  <1>3. \A g \in Handlers \ {h} : Claimant(g)' <=> Claimant(g)
    BY DEF Claimant
  <1>4. ASSUME NEW g \in Handlers \ {h}, Claimant(g), Claimant(h)',
               hand[g].run = hand'[h].run, hand[g].run \in Slots
        PROVE  FALSE
    <2>1. request[hand[g].run] # None
      BY <1>4 DEF Sound, HandlerSound
    <2>2. Claimant(h) /\ hand[h].run = hand[g].run
      BY <1>4, <2>1
    <2> QED
      BY <1>4, <2>2 DEF Sound, SlotClaimedOnce
  <1>5. SlotClaimedOnce'
    <2> SUFFICES ASSUME NEW f \in Handlers, NEW g \in Handlers, f # g,
                        Claimant(f)', Claimant(g)', hand'[f].run = hand'[g].run,
                        hand'[f].run \in Slots
                 PROVE  FALSE
      BY DEF SlotClaimedOnce
    <2>1. CASE f = h
      BY <1>3, <1>4, <2>1
    <2>2. CASE g = h
      BY <1>3, <1>4, <2>2
    <2>3. CASE f # h /\ g # h
      BY <1>3, <2>3 DEF Sound, SlotClaimedOnce
    <2> QED
      BY <2>1, <2>2, <2>3
  <1> QED
    BY <1>1, <1>2, <1>5 DEF Sound

\* Steps that write no row of a thread, of a request or of a workflow, and no event.
LEMMA RowsKept ==
  ASSUME TypeOK, TypeOK', Sound, UNCHANGED <<thread, request, workflow, stream>>
  PROVE  /\ Monotone
         /\ \A th \in Threads : ThreadSound(th)'
         /\ \A r \in Runs : RunSound(r)'
PROOF
  <1>1. Monotone
    BY Unmoved DEF Monotone
  <1>2. ASSUME NEW th \in Threads PROVE ThreadSound(th)'
    BY DEF Sound, ThreadSound
  <1>3. ASSUME NEW r \in Runs PROVE RunSound(r)'
    BY <1>1, RunKept DEF Sound
  <1> QED
    BY <1>1, <1>2, <1>3

\* A thread that is loaded, by a caller that is to save or to check.
LEMMA LoadedIs ==
  ASSUME TypeOK, Sound, NEW c \in Callers, CallRun[c] \in Turns, NEW next \in Saving,
         Loaded(c, LoadThread(Chat), next)
  PROVE  /\ call' \in [Callers -> Call]
         /\ \A d \in Callers \ {c} : call'[d] = call[d]
         /\ \/ /\ call'[c].pc = next /\ Extends(thread[Chat], call'[c].base)
               /\ ~Holds(call'[c].base, "user", CallRun[c])
            \/ call'[c].pc = "check" /\ PromptOf(CallRun[c], call'[c].prompt, thread[Chat])
            \/ call'[c].pc = "turnMismatch"
PROOF
  <1> DEFINE msgs == LoadThread(Chat)
             t == CallRun[c]
  <1>1. /\ Chat \in Threads /\ msgs \in Seq(Message) /\ thread[Chat] \in Seq(Message)
        /\ next \in CallerPCs /\ "check" \in CallerPCs /\ "turnMismatch" \in CallerPCs
        /\ 0 \in Nat
    BY ThreadTyped DEF Threads, Saving, CallerPCs, CallerEnds
  <1>2. Extends(thread[Chat], msgs)
    <2>1. CASE msgs = <<>>
      BY <1>1, <2>1 DEF Extends
    <2>2. CASE msgs = thread[Chat]
      BY <1>1, <2>2, ExtendsItself
    <2> QED
      BY <2>1, <2>2 DEF LoadThread
  <1>3. CASE ~Holds(msgs, "user", t)
    <2> DEFINE w == CallAt(next, msgs, <<>>, 0)
    <2>1. w \in Call /\ w.pc = next /\ w.base = msgs
      BY <1>1, NothingTyped, CallAtTyped
    <2>2. call' = [call EXCEPT ![c] = w]
      BY <1>3 DEF Loaded
    <2> HIDE DEF w
    <2>3. call' \in [Callers -> Call] /\ call'[c] = w /\ \A d \in Callers \ {c} : call'[d] = call[d]
      BY <2>1, <2>2, CallSet
    <2> QED
      BY <1>2, <1>3, <2>1, <2>3
  <1>4. CASE Holds(msgs, "user", t) /\ SameTurn(msgs, c)
    <2> DEFINE p == PromptUpTo(msgs, t)
               w == CallAt("check", <<>>, p, 0)
    <2>1. p \in Prompts
      BY <1>1, <1>4, PromptUpToIs
    <2>2. PromptOf(t, p, thread[Chat])
      <3>1. msgs = thread[Chat]
        <4>1. ~Holds(<<>>, "user", t)
          BY DEF Holds
        <4> QED
          BY <1>4, <4>1 DEF LoadThread
      <3>2. \A i \in DOMAIN msgs : thread[Chat][i] = Stored(msgs[i])
        <4>1. \A i \in DOMAIN msgs : msgs[i] \in Message /\ msgs[i].text \notin Secrets
          BY <1>1, <3>1 DEF Sound, ThreadSound, Redacts
        <4> QED
          BY <3>1, <4>1, StoredMessage
      <3> HIDE DEF msgs
      <3> QED
        BY <1>1, <1>4, <3>1, <3>2, PromptStored
    <2> HIDE DEF p
    <2>3. w \in Call /\ w.pc = "check" /\ w.prompt = p
      BY <1>1, <2>1, NothingTyped, CallAtEmpty
    <2>4. call' = [call EXCEPT ![c] = w]
      BY <1>4 DEF Loaded, p
    <2> HIDE DEF w
    <2>5. call' \in [Callers -> Call] /\ call'[c] = w /\ \A d \in Callers \ {c} : call'[d] = call[d]
      BY <2>3, <2>4, CallSet
    <2> QED
      BY <2>2, <2>3, <2>5
  <1>5. CASE Holds(msgs, "user", t) /\ ~SameTurn(msgs, c)
    <2> DEFINE w == CallAt("turnMismatch", <<>>, <<>>, 0)
    <2>1. w \in Call /\ w.pc = "turnMismatch"
      BY <1>1, NothingTyped, CallAtEmpty
    <2>2. call' = [call EXCEPT ![c] = w]
      BY <1>5 DEF Loaded
    <2> HIDE DEF w
    <2>3. call' \in [Callers -> Call] /\ call'[c] = w /\ \A d \in Callers \ {c} : call'[d] = call[d]
      BY <2>1, <2>2, CallSet
    <2> QED
      BY <2>1, <2>3
  <1> QED
    BY <1>3, <1>4, <1>5

LEMMA LoadStep ==
  ASSUME TypeOK, Sound, NEW c \in Callers, LoadTurn(c) \/ ReloadTurn(c)
  PROVE  TypeOK' /\ Sound'
PROOF
  <1>1. /\ call[c].pc \in {"load", "reload"}
        /\ UNCHANGED <<thread, deleted, request, granted, workflow, stream, dropped, ttl, hand,
                       faults, crashes>>
        /\ \E next \in Saving : Loaded(c, LoadThread(Chat), next)
    BY DEF LoadTurn, ReloadTurn, CallerOnly, postgres, redis, Saving
  <1>2. CallRun[c] \in Turns
    BY <1>1 DEF Sound, CallerSound
  <1>3. /\ call' \in [Callers -> Call]
        /\ \A d \in Callers \ {c} : call'[d] = call[d]
        /\ \/ /\ call'[c].pc \in Saving /\ Extends(thread[Chat], call'[c].base)
              /\ ~Holds(call'[c].base, "user", CallRun[c])
           \/ call'[c].pc = "check" /\ PromptOf(CallRun[c], call'[c].prompt, thread[Chat])
           \/ call'[c].pc = "turnMismatch"
    BY <1>1, <1>2, LoadedIs
  <1>4. TypeOK'
    BY <1>1, <1>3 DEF TypeOK
  <1>5. CallerSound(c)'
    BY <1>1, <1>2, <1>3 DEF CallerSound, Saving
  <1> QED
    BY <1>1, <1>3, <1>4, <1>5, RowsKept, CallerMoves

\* Steps of a caller that only goes on, with the prompt it has.
LEMMA GoesOn ==
  ASSUME TypeOK, TypeOK', Sound, NEW c \in Callers,
         UNCHANGED <<thread, request, workflow, stream, hand>>,
         \A d \in Callers \ {c} : call'[d] = call[d],
         \/ call'[c].pc \notin {"load", "reload", "check", "insert", "recheck", "start"} \cup Saving
         \/ /\ call[c].pc \in {"check", "insert", "recheck", "start"}
            /\ call'[c].pc \in {"check", "insert", "recheck", "start"}
            /\ call'[c].prompt = call[c].prompt
  PROVE  Sound'
PROOF
  <1>1. CallerSound(c)'
    BY DEF Sound, CallerSound, Saving
  <1> QED
    BY <1>1, RowsKept, CallerMoves

LEMMA CheckStep ==
  ASSUME TypeOK, Sound, NEW c \in Callers, Check(c)
  PROVE  TypeOK' /\ Sound'
PROOF
  <1>1. /\ call[c].pc \in {"check", "recheck"}
        /\ UNCHANGED <<thread, deleted, request, granted, workflow, stream, dropped, ttl, hand,
                       faults, crashes>>
    BY DEF Check, CallerOnly, postgres, redis
  <1> DEFINE told == CheckIdempotency(CallRun[c], call[c].prompt)
             next == CASE told = "new" -> IF call[c].pc = "check" THEN "insert" ELSE "failed"
                       [] told = "mismatch" -> "idempotencyConflict"
                       [] OTHER -> "start"
  <1>2. next \in {"insert", "failed", "idempotencyConflict", "start"}
    <2> HIDE DEF told
    <2>1. CASE told = "new"
      BY <2>1
    <2>2. CASE told = "mismatch"
      BY <2>2
    <2>3. CASE told # "new" /\ told # "mismatch"
      BY <2>3
    <2> QED
      BY <2>1, <2>2, <2>3
  <1>3. Goto(c, next)
    BY DEF Check
  <1> HIDE DEF next
  <1>4. next \in CallerPCs
    BY <1>2 DEF CallerPCs, CallerEnds
  <1>5. /\ call' \in [Callers -> Call] /\ call'[c].pc = next /\ call'[c].prompt = call[c].prompt
        /\ \A d \in Callers \ {c} : call'[d] = call[d]
    BY <1>3, <1>4, GotoIs
  <1>6. TypeOK'
    BY <1>1, <1>5 DEF TypeOK
  <1> QED
    BY <1>1, <1>2, <1>5, <1>6, GoesOn DEF Saving

\* A caller that listens, or gives up.
LEMMA ListenStep ==
  ASSUME TypeOK, Sound, NEW c \in Callers,
         Receive(c) \/ FirstEventTimeout(c) \/ Disconnect(c) \/ CallerDies(c)
  PROVE  TypeOK' /\ Sound'
PROOF
  <1>1. UNCHANGED <<thread, deleted, request, granted, workflow, stream, dropped, ttl, hand,
                    faults>>
    BY DEF Receive, FirstEventTimeout, Disconnect, CallerDies, CallerOnly, postgres, redis
  <1>2. crashes' \in Nat
    BY DEF Receive, FirstEventTimeout, Disconnect, CallerDies, CallerOnly, TypeOK
  <1>3. /\ call' \in [Callers -> Call] /\ call'[c].pc \in {"listen"} \cup CallerEnds
        /\ \A d \in Callers \ {c} : call'[d] = call[d]
    <2>1. CASE Receive(c)
      <3> DEFINE n == NextEntry(c)
                 e == stream[CallRun[c]][n]
                 pc == IF e = "delta" THEN "listen" ELSE e
                 w == CallAt(pc, <<>>, <<>>, n)
      <3>1. CallRun[c] \in Runs /\ n \in Nat /\ 1 <= n
        BY CallFields DEF NextEntry, TypeOK
      <3>2. n <= Len(stream[CallRun[c]]) /\ call' = [call EXCEPT ![c] = w]
        BY <2>1 DEF Receive
      <3> HIDE DEF n
      <3>3. e \in Events
        <4>1. stream[CallRun[c]] \in Seq(Events)
          BY <3>1 DEF TypeOK
        <4> QED
          BY <3>1, <3>2, <4>1
      <3> HIDE DEF e
      <3>4. pc \in CallerPCs /\ pc \in {"listen"} \cup CallerEnds
        BY <3>3 DEF Events, CallerPCs, CallerEnds
      <3> HIDE DEF pc
      <3>5. w \in Call /\ w.pc = pc
        BY <3>1, <3>4, NothingTyped, CallAtEmpty
      <3> HIDE DEF w
      <3> QED
        BY <3>2, <3>4, <3>5, CallSet
    <2>2. CASE FirstEventTimeout(c) \/ Disconnect(c) \/ CallerDies(c)
      <3>1. Goto(c, "timeout") \/ Goto(c, "aborted") \/ Goto(c, "crashed")
        BY <2>2 DEF FirstEventTimeout, Disconnect, CallerDies
      <3> QED
        BY <3>1, GotoIs DEF CallerPCs, CallerEnds
    <2> QED
      BY <2>1, <2>2
  <1>4. TypeOK'
    BY <1>1, <1>2, <1>3 DEF TypeOK
  <1>5. call'[c].pc \notin {"load", "reload", "check", "insert", "recheck", "start"} \cup Saving
    BY <1>3 DEF CallerEnds, Saving
  <1> QED
    BY <1>1, <1>3, <1>4, <1>5, GoesOn

\* A save that finds the length that was loaded appends to the thread that was loaded.
LEMMA ThreadSaved ==
  ASSUME TypeOK, Sound, NEW th \in Threads, NEW base \in Seq(Message), NEW m \in Message,
         Extends(thread[th], base), ~Holds(base, m.role, m.run),
         LengthMatches(th, Len(base)), SaveThread(th, Append(base, m))
  PROVE  /\ thread' \in [Threads -> Seq(Message)] /\ ThreadsGrow
         /\ base = thread[th] /\ Redacts(base) /\ Stored(m) \in Message
         /\ thread'[th] = Append(thread[th], Stored(m))
         /\ thread'[th] = RedactAll(Append(base, m))
         /\ \A x \in Threads \ {th} : thread'[x] = thread[x]
         /\ \A x \in Threads : ThreadSound(x)'
PROOF
  <1>1. thread[th] \in Seq(Message) /\ ThreadSound(th) /\ Stored(m) \in Message
    BY ThreadTyped, StoredMessage DEF Sound
  <1>2. base = thread[th]
    BY <1>1, ExtendsSame DEF LengthMatches
  <1>3. Once(base) /\ Redacts(base)
    BY <1>1, <1>2 DEF ThreadSound
  <1>4. /\ RedactAll(Append(base, m)) = Append(base, Stored(m))
        /\ Once(Append(base, Stored(m))) /\ Redacts(Append(base, Stored(m)))
        /\ Append(base, Stored(m)) \in Seq(Message) /\ Extends(Append(base, Stored(m)), base)
    BY <1>1, <1>3, SavedThread, SavedOnce, AppendExtends
  <1>5. thread' = [thread EXCEPT ![th] = RedactAll(Append(base, m))] /\ thread \in [Threads -> Seq(Message)]
    BY DEF SaveThread, TypeOK
  <1>6. /\ thread'[th] = Append(base, Stored(m))
        /\ \A x \in Threads \ {th} : thread'[x] = thread[x]
        /\ thread' \in [Threads -> Seq(Message)]
    BY <1>4, <1>5
  <1>7. ThreadsGrow
    <2>1. \A x \in Threads : thread[x] \in Seq(Message)
      BY <1>5
    <2> QED
      BY <1>2, <1>4, <1>6, <2>1, ExtendsItself DEF ThreadsGrow
  <1>8. ASSUME NEW x \in Threads PROVE ThreadSound(x)'
    <2>1. CASE x = th
      BY <1>4, <1>6, <2>1 DEF ThreadSound
    <2>2. CASE x # th
      BY <1>6, <2>2 DEF Sound, ThreadSound
    <2> QED
      BY <2>1, <2>2
  <1> QED
    BY <1>1, <1>2, <1>3, <1>4, <1>6, <1>7, <1>8

LEMMA SaveTurnStep ==
  ASSUME TypeOK, Sound, NEW c \in Callers, SaveTurn(c)
  PROVE  TypeOK' /\ Sound'
PROOF
  <1> DEFINE t == CallRun[c]
             base == call[c].base
             m == UserMessage(t, CallText[c])
             with == Append(base, m)
  <1>1. /\ call[c].pc \in Saving
        /\ UNCHANGED <<deleted, request, granted, workflow, stream, dropped, ttl, hand, faults,
                       crashes>>
    BY DEF SaveTurn, redis, Saving
  <1>2. /\ t \in Turns /\ Extends(thread[Chat], base) /\ ~Holds(base, "user", t)
    BY <1>1 DEF Sound, CallerSound
  <1>3. base \in Seq(Message) /\ Chat \in Threads
    BY CallFields DEF Threads
  <1>4. m \in Message /\ m.role = "user" /\ m.run = t
    BY <1>2 DEF UserMessage, Message, Runs
  <1>5. WithTurn(c) = with
    BY DEF WithTurn
  <1>6. ASSUME UNCHANGED thread, NEW pc \in {"failed", "reload", "threadConflict"}, Goto(c, pc)
        PROVE  TypeOK' /\ Sound'
    <2>1. pc \in CallerPCs
      BY <1>6 DEF CallerPCs, CallerEnds
    <2>2. /\ call' \in [Callers -> Call] /\ call'[c].pc = pc
          /\ \A d \in Callers \ {c} : call'[d] = call[d]
      BY <1>6, <2>1, GotoIs
    <2>3. TypeOK'
      BY <1>1, <1>6, <2>2 DEF TypeOK
    <2>4. CallerSound(c)'
      BY <1>2, <1>6, <2>2 DEF CallerSound, Saving
    <2> QED
      BY <1>1, <1>6, <2>2, <2>3, <2>4, RowsKept, CallerMoves
  <1>7. ASSUME LengthMatches(Chat, Len(base)), SaveThread(Chat, with),
               call' = [call EXCEPT ![c] = CallAt("check", <<>>, PromptUpTo(with, t), 0)]
        PROVE  TypeOK' /\ Sound'
    <2>1. /\ thread' \in [Threads -> Seq(Message)] /\ ThreadsGrow
          /\ base = thread[Chat] /\ Redacts(base) /\ Stored(m) \in Message
          /\ thread'[Chat] = Append(thread[Chat], Stored(m))
          /\ thread'[Chat] = RedactAll(with)
          /\ \A x \in Threads : ThreadSound(x)'
      BY <1>2, <1>3, <1>4, <1>7, ThreadSaved
    <2>2. with \in Seq(Message) /\ Holds(with, "user", t)
      BY <1>3, <1>4, AppendExtends, HoldsAppended
    <2>3. PromptOf(t, PromptUpTo(with, t), thread'[Chat])
      <3>1. Len(thread'[Chat]) = Len(with) /\ thread'[Chat] \in Seq(Message)
        <4>1. /\ thread'[Chat] = Append(base, Stored(m)) /\ base \in Seq(Message)
              /\ m \in Message /\ Stored(m) \in Message
          BY <1>3, <1>4, <2>1
        <4>2. \A x, y \in Message : \A s \in Seq(Message) :
                Len(Append(s, x)) = Len(Append(s, y)) /\ Append(s, x) \in Seq(Message)
          BY AppendExtends
        <4> HIDE DEF m, base
        <4> QED
          BY <4>1, <4>2
      <3>2. \A i \in DOMAIN with : thread'[Chat][i] = Stored(with[i])
        <4> HIDE DEF with
        <4> QED
          BY <2>1 DEF RedactAll, Stored
      <3> HIDE DEF with
      <3>3. \A stored \in Seq(Message) : stored = thread'[Chat] => PromptOf(t, PromptUpTo(with, t), stored)
        BY <2>2, <3>1, <3>2, PromptStored
      <3> QED
        BY <3>1, <3>3
    <2> DEFINE p == PromptUpTo(with, t)
               w == CallAt("check", <<>>, p, 0)
    <2>4. p \in Prompts
      <3> HIDE DEF with
      <3> QED
        BY <2>2, PromptUpToIs
    <2> HIDE DEF p
    <2>5. w \in Call /\ w.pc = "check" /\ w.prompt = p
      <3>1. "check" \in CallerPCs /\ 0 \in Nat
        BY DEF CallerPCs
      <3> QED
        BY <2>4, <3>1, CallAtEmpty
    <2>6. call' = [call EXCEPT ![c] = w]
      BY <1>7 DEF p
    <2> HIDE DEF w
    <2>7. call' \in [Callers -> Call] /\ call'[c] = w /\ \A d \in Callers \ {c} : call'[d] = call[d]
      BY <2>5, <2>6, CallSet
    <2>8. TypeOK'
      BY <1>1, <2>1, <2>7 DEF TypeOK
    <2>9. Monotone
      BY <1>1, <2>1, Unmoved DEF Monotone
    <2>10. CallerSound(c)'
      BY <2>3, <2>5, <2>7 DEF CallerSound, Saving, p
    <2>11. ASSUME NEW r \in Runs PROVE RunSound(r)'
      BY <1>1, <2>8, <2>9, RunKept DEF Sound
    <2> QED
      BY <1>1, <2>1, <2>7, <2>8, <2>9, <2>10, <2>11, CallerMoves
  <1> QED
    BY <1>5, <1>6, <1>7 DEF SaveTurn

\* A claim is of the prompt, or another's that was there.
LEMMA ClaimIs ==
  ASSUME TypeOK, NEW r \in Runs, NEW prompt \in Prompts, CreatePending(r, prompt)
  PROVE  /\ request' \in [Runs -> ExecutionRequest \cup {None}]
         /\ ClaimsStay
         /\ request'[r] # None
         /\ request[r] # None => request'[r] = request[r]
         /\ request[r] = None => request'[r].hash = prompt /\ request'[r].ok # TRUE
         /\ \A x \in Runs \ {r} : request'[x] = request[x]
PROOF
  <1>1. Pending(prompt) \in ExecutionRequest /\ Pending(prompt).hash = prompt
        /\ Pending(prompt).ok = None
    BY DEF Pending, ExecutionRequest
  <1>2. Pending(prompt) # None
    BY <1>1
  <1>3. request \in [Runs -> ExecutionRequest \cup {None}]
    BY DEF TypeOK
  <1>4. None # TRUE
    OBVIOUS
  <1>5. /\ request'[r] = IF request[r] = None THEN Pending(prompt) ELSE request[r]
        /\ \A x \in Runs \ {r} : request'[x] = request[x]
        /\ request' \in [Runs -> ExecutionRequest \cup {None}]
    BY <1>1, <1>3 DEF CreatePending
  <1>6. ClaimsStay
    BY <1>5 DEF ClaimsStay
  <1> QED
    BY <1>1, <1>2, <1>4, <1>5, <1>6

LEMMA RunClaimed ==
  ASSUME TypeOK, TypeOK', Sound, Monotone, NEW r \in Runs, NEW prompt \in Prompts,
         CreatePending(r, prompt), UNCHANGED <<thread, workflow, stream>>,
         r \in Turns => PromptOf(r, prompt, thread[Chat])
  PROVE  \A x \in Runs : RunSound(x)'
PROOF
  <1>1. ASSUME NEW x \in Runs, x # r PROVE RunSound(x)'
    <2>1. request'[x] = request[x]
      BY <1>1, ClaimIs
    <2> QED
      BY <2>1, RunKept DEF Sound
  <1>2. RunSound(r)'
    <2>1. CASE request[r] # None
      <3>1. request'[r] = request[r]
        BY <2>1, ClaimIs
      <3> QED
        BY <3>1, RunKept DEF Sound
    <2>2. CASE request[r] = None
      <3>1. request'[r].hash = prompt /\ request'[r].ok # TRUE
        BY <2>2, ClaimIs
      <3>2. RunSound(r)
        BY DEF Sound
      <3>3. StreamHolds(r, "done")' <=> StreamHolds(r, "done")
        BY DEF StreamHolds
      <3> QED
        BY <3>1, <3>2, <3>3 DEF RunSound
    <2> QED
      BY <2>1, <2>2
  <1> QED
    BY <1>1, <1>2

LEMMA InsertStep ==
  ASSUME TypeOK, Sound, NEW c \in Callers, Insert(c)
  PROVE  TypeOK' /\ Sound'
PROOF
  <1> DEFINE r == CallRun[c]
             prompt == call[c].prompt
  <1>1. /\ call[c].pc = "insert" /\ CreatePending(r, prompt) /\ Goto(c, "recheck")
        /\ UNCHANGED <<thread, deleted, granted, workflow, stream, dropped, ttl, hand, faults,
                       crashes>>
    BY DEF Insert, redis
  <1>2. r \in Runs /\ prompt \in Prompts /\ "recheck" \in CallerPCs
    BY CallFields DEF CallerPCs
  <1>3. /\ call' \in [Callers -> Call] /\ call'[c].pc = "recheck" /\ call'[c].prompt = prompt
        /\ \A d \in Callers \ {c} : call'[d] = call[d]
    BY <1>1, <1>2, GotoIs
  <1>4. r \in Turns => PromptOf(r, prompt, thread[Chat])
    BY <1>1 DEF Sound, CallerSound
  <1> HIDE DEF prompt
  <1>5. request' \in [Runs -> ExecutionRequest \cup {None}] /\ ClaimsStay
    BY <1>1, <1>2, ClaimIs
  <1>6. TypeOK'
    BY <1>1, <1>3, <1>5 DEF TypeOK
  <1>7. Monotone
    BY <1>1, <1>5, Unmoved DEF Monotone
  <1>8. CallerSound(c)'
    BY <1>1, <1>3, <1>4 DEF CallerSound, Saving
  <1>9. \A x \in Runs : RunSound(x)'
    BY <1>1, <1>2, <1>4, <1>6, <1>7, RunClaimed
  <1>10. ASSUME NEW th \in Threads PROVE ThreadSound(th)'
    BY <1>1 DEF Sound, ThreadSound
  <1> QED
    BY <1>1, <1>3, <1>6, <1>7, <1>8, <1>9, <1>10, CallerMoves

\* A workflow that is started, unless it runs.
LEMMA WorkflowStarted ==
  ASSUME TypeOK, NEW r \in Runs, NEW prompt \in Prompts, StartWorkflow(r, prompt)
  PROVE  /\ workflow' \in [Runs -> Workflow]
         /\ workflow'[r] = workflow[r] \/ workflow'[r].prompt = prompt
         /\ \A x \in Runs \ {r} : workflow'[x] = workflow[x]
PROOF
  <1>1. [state |-> "running", prompt |-> prompt] \in Workflow
    BY DEF Workflow
  <1> QED
    BY <1>1 DEF StartWorkflow, TypeOK

LEMMA RunStarted ==
  ASSUME TypeOK, TypeOK', Sound, Monotone, NEW r \in Runs, NEW prompt \in Prompts,
         StartWorkflow(r, prompt), UNCHANGED <<thread, request, stream>>,
         r \in Turns => PromptOf(r, prompt, thread[Chat])
  PROVE  \A x \in Runs : RunSound(x)'
PROOF
  <1>1. ASSUME NEW x \in Runs, workflow'[x] = workflow[x] PROVE RunSound(x)'
    BY <1>1, RunKept DEF Sound
  <1>2. workflow'[r].prompt = prompt => RunSound(r)'
    <2>1. RunSound(r)
      BY DEF Sound
    <2>2. StreamHolds(r, "done")' <=> StreamHolds(r, "done")
      BY DEF StreamHolds
    <2> QED
      BY <2>1, <2>2 DEF RunSound
  <1> QED
    BY <1>1, <1>2, WorkflowStarted

LEMMA StartStep ==
  ASSUME TypeOK, Sound, NEW c \in Callers, Start(c)
  PROVE  TypeOK' /\ Sound'
PROOF
  <1> DEFINE r == CallRun[c]
             prompt == call[c].prompt
  <1>1. /\ call[c].pc = "start"
        /\ UNCHANGED <<thread, deleted, request, granted, stream, dropped, ttl, hand, crashes>>
        /\ \/ /\ StartWorkflow(r, prompt) /\ UNCHANGED faults
              /\ call' = [call EXCEPT ![c] = CallAt("listen", <<>>, <<>>, 0)]
           \/ faults' = faults + 1 /\ Goto(c, "failed") /\ UNCHANGED workflow
    BY DEF Start, postgres, redis
  <1>2. /\ r \in Runs /\ prompt \in Prompts
        /\ r \in Turns => PromptOf(r, prompt, thread[Chat])
    BY <1>1, CallFields DEF Sound, CallerSound
  <1>3. CASE Goto(c, "failed") /\ UNCHANGED workflow /\ faults' = faults + 1
    <2>1. "failed" \in CallerPCs
      BY DEF CallerPCs, CallerEnds
    <2>2. /\ call' \in [Callers -> Call] /\ call'[c].pc = "failed"
          /\ \A d \in Callers \ {c} : call'[d] = call[d]
      BY <1>3, <2>1, GotoIs
    <2>3. TypeOK'
      BY <1>1, <1>3, <2>2 DEF TypeOK
    <2> QED
      BY <1>1, <1>3, <2>2, <2>3, GoesOn DEF Saving
  <1>4. CASE /\ StartWorkflow(r, prompt) /\ UNCHANGED faults
             /\ call' = [call EXCEPT ![c] = CallAt("listen", <<>>, <<>>, 0)]
    <2> DEFINE w == CallAt("listen", <<>>, <<>>, 0)
    <2>1. w \in Call /\ w.pc = "listen"
      <3>1. "listen" \in CallerPCs /\ 0 \in Nat
        BY DEF CallerPCs
      <3> QED
        BY <3>1, NothingTyped, CallAtEmpty
    <2> HIDE DEF w
    <2>2. call' \in [Callers -> Call] /\ call'[c] = w /\ \A d \in Callers \ {c} : call'[d] = call[d]
      BY <1>4, <2>1, CallSet DEF w
    <2>3. workflow' \in [Runs -> Workflow]
      BY <1>2, <1>4, WorkflowStarted
    <2>4. TypeOK'
      BY <1>1, <1>4, <2>2, <2>3 DEF TypeOK
    <2>5. Monotone
      BY <1>1, Unmoved DEF Monotone
    <2>6. \A x \in Runs : RunSound(x)'
      <3> HIDE DEF prompt
      <3> QED
        BY <1>1, <1>2, <1>4, <2>4, <2>5, RunStarted
    <2>7. CallerSound(c)'
      BY <2>1, <2>2 DEF CallerSound, Saving
    <2>8. ASSUME NEW th \in Threads PROVE ThreadSound(th)'
      BY <1>1 DEF Sound, ThreadSound
    <2> QED
      BY <1>1, <2>2, <2>4, <2>5, <2>6, <2>7, <2>8, CallerMoves
  <1> QED
    BY <1>1, <1>3, <1>4

\* A handler that only moves on, in no state that speaks of its thread.
Plain == HandlerPCs \ {"idle", "load", "save", "publish"}

LEMMA MoveSound ==
  ASSUME TypeOK, TypeOK', Sound, Monotone, NEW h \in Handlers,
         hand[h].pc # "idle", hand'[h].pc \in Plain,
         hand'[h].run = hand[h].run, hand'[h].prompt = hand[h].prompt, hand'[h].ok = hand[h].ok,
         Claimant(h)' => \/ Claimant(h)
                         \/ /\ request'[hand[h].run] # None
                            /\ request'[hand[h].run].hash = hand[h].prompt
  PROVE  HandlerSound(h)'
PROOF
  <1> DEFINE r == hand[h].run
  <1>1. HandlerSound(h) /\ r \in Runs /\ hand[h].prompt \in Prompts
    BY HandFields DEF Sound, HandlerSound
  <1>2. Claimant(h)' => request'[r] # None /\ request'[r].hash = hand[h].prompt
    BY <1>1 DEF HandlerSound, Monotone, ClaimsStay
  <1>3. hand[h].ok => StreamHolds(r, "done")'
    <2>1. hand[h].ok => HasEvent(stream[r], "done")
      BY <1>1, StreamHas DEF HandlerSound
    <2> QED
      BY <1>1, <2>1, StaysTrue DEF StreamHolds, HasEvent
  <1>4. r \in Turns => PromptOf(r, hand[h].prompt, thread'[Chat])
    BY <1>1, StaysTrue DEF HandlerSound
  <1> QED
    BY <1>1, <1>2, <1>3, <1>4 DEF HandlerSound, Plain

\* A step of one handler that writes no row and no event.
LEMMA HandlerAlone ==
  ASSUME TypeOK, Sound, NEW h \in Handlers,
         UNCHANGED <<thread, deleted, request, granted, workflow, stream, dropped, ttl, call, faults>>,
         crashes' \in Nat, hand' \in [Handlers -> Hand],
         \A g \in Handlers \ {h} : hand'[g] = hand[g],
         Monotone /\ TypeOK' => HandlerSound(h)',
         Claimant(h)' /\ hand'[h].run \in Slots => Claimant(h) /\ hand'[h].run = hand[h].run
  PROVE  TypeOK' /\ Sound'
PROOF
  <1>1. TypeOK'
    BY DEF TypeOK
  <1> QED
    BY <1>1, RowsKept, HandlerMoves

\* A handler that moves on and writes nothing.
LEMMA MovesOn ==
  ASSUME TypeOK, Sound, NEW h \in Handlers, NEW pc \in Plain, Move(h, pc),
         UNCHANGED <<thread, deleted, request, granted, workflow, stream, dropped, ttl, call, faults>>,
         crashes' \in Nat, hand[h].pc # "idle",
         pc \in Working =>
           \/ Claimant(h)
           \/ /\ hand[h].run \notin Slots /\ request[hand[h].run] # None
              /\ request[hand[h].run].hash = hand[h].prompt
  PROVE  TypeOK' /\ Sound'
PROOF
  <1>1. pc \in HandlerPCs
    BY DEF Plain
  <1>2. /\ hand' \in [Handlers -> Hand]
        /\ hand'[h].pc = pc /\ hand'[h].run = hand[h].run /\ hand'[h].prompt = hand[h].prompt
        /\ hand'[h].ok = hand[h].ok /\ hand'[h].ran = hand[h].ran
        /\ \A g \in Handlers \ {h} : hand'[g] = hand[g]
    BY <1>1, MoveIs
  <1>3. Claimant(h)' => Claimant(h) \/ pc \in Working
    BY <1>2 DEF Claimant
  <1>4. Monotone /\ TypeOK' => HandlerSound(h)'
    BY <1>2, <1>3, MoveSound
  <1> QED
    BY <1>2, <1>3, <1>4, HandlerAlone

LEMMA HCheckStep ==
  ASSUME TypeOK, Sound, NEW h \in Handlers, HCheck(h)
  PROVE  TypeOK' /\ Sound'
PROOF
  <1> DEFINE r == hand[h].run
             found == CheckIdempotency(r, hand[h].prompt)
             pc == CheckRequest(h)
  <1>1. /\ hand[h].pc = "check" /\ Move(h, pc)
        /\ UNCHANGED <<thread, deleted, request, granted, workflow, stream, dropped, ttl, call,
                       faults, crashes>>
    BY DEF HCheck, HandlerOnly, postgres, redis
  <1>2. /\ found \in {"new", "mismatch", "pending", "cached"}
        /\ found = "pending" => request[r] # None /\ request[r].hash = hand[h].prompt
    <2>1. CASE request[r] = None
      BY <2>1 DEF CheckIdempotency
    <2>2. CASE request[r] # None /\ request[r].hash # hand[h].prompt
      BY <2>2 DEF CheckIdempotency
    <2>3. CASE request[r] # None /\ request[r].hash = hand[h].prompt /\ request[r].ok = None
      BY <2>3 DEF CheckIdempotency
    <2>4. CASE request[r] # None /\ request[r].hash = hand[h].prompt /\ request[r].ok # None
      BY <2>4 DEF CheckIdempotency
    <2> QED
      BY <2>1, <2>2, <2>3, <2>4
  <1> HIDE DEF found
  <1>3. /\ pc \in {"grant", "run", "refused", "answered"}
        /\ pc = "run" => found = "pending" /\ r \notin Slots
    <2>1. CASE found = "new"
      BY <2>1 DEF CheckRequest, found
    <2>2. CASE found = "pending"
      BY <2>2 DEF CheckRequest, CarriesHash, found
    <2>3. CASE found = "cached"
      BY <2>3 DEF CheckRequest, found
    <2>4. CASE found = "mismatch"
      BY <2>4 DEF CheckRequest, found
    <2> QED
      BY <1>2, <2>1, <2>2, <2>3, <2>4
  <1> HIDE DEF pc
  <1>4. pc \in Plain /\ (pc \in Working => pc = "run")
    BY <1>3 DEF Plain, HandlerPCs, Working
  <1>5. crashes' \in Nat
    BY <1>1 DEF TypeOK
  <1> QED
    BY <1>1, <1>2, <1>3, <1>4, <1>5, MovesOn

LEMMA PlainStep ==
  ASSUME TypeOK, Sound, NEW h \in Handlers,
         HGrant(h) \/ HThrows(h) \/ HandlerDies(h) \/ AnswerLost(h)
  PROVE  TypeOK' /\ Sound'
PROOF
  <1>1. UNCHANGED <<thread, deleted, request, granted, workflow, stream, dropped, ttl, call, faults>>
    BY DEF HGrant, HThrows, HandlerDies, AnswerLost, HandlerOnly, postgres, redis
  <1>2. crashes' \in Nat /\ hand[h].pc # "idle"
    BY DEF HGrant, HThrows, HandlerDies, AnswerLost, HandlerOnly, HandlerEnds, TypeOK
  <1>3. \E pc \in {"refused", "claim", "report", "crashed", "over"} :
          Move(h, pc) /\ (pc = "report" => Claimant(h))
    BY DEF HGrant, HThrows, HandlerDies, AnswerLost, Move, Claimant, Working
  <1>4. ASSUME NEW pc \in {"refused", "claim", "report", "crashed", "over"},
               Move(h, pc), pc = "report" => Claimant(h)
        PROVE  TypeOK' /\ Sound'
    <2>1. pc \in Plain /\ (pc \in Working => pc = "report")
      BY DEF Plain, HandlerPCs, Working
    <2> QED
      BY <1>1, <1>2, <1>4, <2>1, MovesOn
  <1> QED
    BY <1>3, <1>4

LEMMA HRunStep ==
  ASSUME TypeOK, Sound, NEW h \in Handlers, HRun(h)
  PROVE  TypeOK' /\ Sound'
PROOF
  <1>1. /\ hand[h].pc = "run" /\ Claimant(h)
        /\ UNCHANGED <<thread, deleted, request, granted, workflow, stream, dropped, ttl, call,
                       faults, crashes>>
    BY DEF HRun, HandlerOnly, postgres, redis, Claimant, Working
  <1>2. crashes' \in Nat
    BY <1>1 DEF TypeOK
  <1>3. CASE Move(h, "refused")
    <2>1. "refused" \in Plain
      BY DEF Plain, HandlerPCs
    <2> QED
      BY <1>1, <1>2, <1>3, <2>1, MovesOn
  <1>4. CASE hand' = [hand EXCEPT ![h].pc = "stream", ![h].ran = TRUE]
    <2> DEFINE w == [hand[h] EXCEPT !.pc = "stream", !.ran = TRUE]
    <2>1. hand[h] \in Hand /\ hand \in [Handlers -> Hand]
      BY HandFields DEF TypeOK
    <2>2. w \in Hand /\ w.pc = "stream" /\ w.run = hand[h].run /\ w.prompt = hand[h].prompt
          /\ w.ok = hand[h].ok
      BY <2>1 DEF Hand, HandlerPCs
    <2>3. hand' = [hand EXCEPT ![h] = w]
      BY <1>4, <2>1
    <2> HIDE DEF w
    <2>4. /\ hand' \in [Handlers -> Hand] /\ hand'[h] = w
          /\ \A g \in Handlers \ {h} : hand'[g] = hand[g]
      BY <2>2, <2>3, HandSet
    <2>5. hand'[h].pc \in Plain
      BY <2>2, <2>4 DEF Plain, HandlerPCs
    <2>6. Monotone /\ TypeOK' => HandlerSound(h)'
      BY <1>1, <2>2, <2>4, <2>5, MoveSound
    <2> QED
      BY <1>1, <1>2, <2>2, <2>4, <2>6, HandlerAlone
  <1> QED
    BY <1>3, <1>4 DEF HRun

LEMMA HSucceedsStep ==
  ASSUME TypeOK, Sound, NEW h \in Handlers, HSucceeds(h)
  PROVE  TypeOK' /\ Sound'
PROOF
  <1> DEFINE r == hand[h].run
             w == [hand[h] EXCEPT !.pc = AfterStream(r), !.tries = 1]
  <1>1. /\ hand[h].pc = "drain" /\ Claimant(h)
        /\ UNCHANGED <<thread, deleted, request, granted, workflow, stream, dropped, ttl, call,
                       faults, crashes>>
    BY DEF HSucceeds, HandlerOnly, postgres, redis, Claimant, Working
  <1>2. crashes' \in Nat
    BY <1>1 DEF TypeOK
  <1>3. /\ hand[h] \in Hand /\ hand \in [Handlers -> Hand]
        /\ AfterStream(r) \in {"load", "publish"}
        /\ AfterStream(r) = "load" <=> r \in Stateful
        /\ 1 \in 1..MaxPersistAttempts /\ 1 \in 0..MaxPersistAttempts + 1
    BY HandFields DEF TypeOK, AfterStream
  <1>4. /\ w \in Hand /\ w.pc = AfterStream(r) /\ w.tries = 1 /\ w.run = r
        /\ w.prompt = hand[h].prompt /\ w.ok = hand[h].ok /\ w.ran = hand[h].ran
    BY <1>3 DEF Hand, HandlerPCs
  <1>5. hand' = [hand EXCEPT ![h] = w]
    BY <1>3 DEF HSucceeds
  <1> HIDE DEF w
  <1>6. /\ hand' \in [Handlers -> Hand] /\ hand'[h] = w
        /\ \A g \in Handlers \ {h} : hand'[g] = hand[g]
    BY <1>4, <1>5, HandSet
  <1>7. Monotone /\ TypeOK' => HandlerSound(h)'
    <2>1. SUFFICES ASSUME Monotone, TypeOK' PROVE HandlerSound(h)'
      OBVIOUS
    <2>2. HandlerSound(h) /\ r \in Runs /\ hand[h].prompt \in Prompts
      BY <1>1, HandFields DEF Sound, HandlerSound
    <2>3. request'[r] # None /\ request'[r].hash = hand[h].prompt
      BY <1>1, <2>2 DEF HandlerSound
    <2>4. hand[h].ok => StreamHolds(r, "done")'
      BY <1>1, <1>4, <1>6, <2>2 DEF HandlerSound, StreamHolds
    <2>5. r \in Turns => PromptOf(r, hand[h].prompt, thread'[Chat])
      BY <1>1, <2>2 DEF HandlerSound
    <2> QED
      BY <1>3, <1>4, <1>6, <2>2, <2>3, <2>4, <2>5 DEF HandlerSound
  <1> QED
    BY <1>1, <1>2, <1>4, <1>6, <1>7, HandlerAlone

\* A handler with nothing loaded.
LEMMA HandAtEmpty ==
  ASSUME NEW pc \in HandlerPCs, NEW r \in Runs \cup {None}, NEW prompt \in Prompts,
         NEW tries \in 0..MaxPersistAttempts + 1, NEW ok \in BOOLEAN, NEW ran \in BOOLEAN
  PROVE  LET w == HandAt(pc, r, prompt, <<>>, tries, ok, ran) IN
         /\ w \in Hand /\ w.pc = pc /\ w.run = r /\ w.prompt = prompt
         /\ w.tries = tries /\ w.ok = ok /\ w.ran = ran
PROOF
  BY NothingTyped DEF HandAt, Hand

LEMMA HLoadStep ==
  ASSUME TypeOK, Sound, NEW h \in Handlers, HLoad(h)
  PROVE  TypeOK' /\ Sound'
PROOF
  <1> DEFINE r == hand[h].run
             tries == hand[h].tries
             prompt == hand[h].prompt
             th == ThreadOf(r)
             msgs == LoadThread(th)
  <1>1. /\ hand[h].pc = "load" /\ Claimant(h)
        /\ UNCHANGED <<thread, deleted, request, granted, workflow, stream, dropped, ttl, call,
                       faults, crashes>>
    BY DEF HLoad, HandlerOnly, postgres, redis, Claimant, Working
  <1>2. crashes' \in Nat
    BY <1>1 DEF TypeOK
  <1>3. /\ HandlerSound(h) /\ r \in Stateful /\ r \in Runs /\ th \in Threads
        /\ tries \in 1..MaxPersistAttempts /\ tries \in 0..MaxPersistAttempts + 1
        /\ prompt \in Prompts
        /\ msgs \in Seq(Message) /\ thread[th] \in Seq(Message)
        /\ hand \in [Handlers -> Hand]
    <2>1. HandlerSound(h) /\ r \in Stateful /\ r \in Runs /\ tries \in 1..MaxPersistAttempts
      BY <1>1 DEF Sound, HandlerSound
    <2> QED
      BY <2>1, HandFields, ThreadOfRun, ThreadTyped DEF TypeOK
  <1>4. Extends(thread[th], msgs) /\ (Holds(msgs, "assistant", r) => msgs = thread[th])
    <2>1. CASE msgs = <<>>
      BY <1>3, <2>1 DEF Extends, Holds
    <2>2. CASE msgs = thread[th]
      BY <1>3, <2>2, ExtendsItself
    <2> QED
      BY <2>1, <2>2 DEF LoadThread
  <1>5. PICK w : w = IF AlreadyPersisted(msgs, r)
                       THEN HandAt("publish", r, prompt, <<>>, tries, FALSE, TRUE)
                       ELSE HandAt("save", r, prompt, msgs, tries, FALSE, TRUE)
    OBVIOUS
  <1>6. hand' = [hand EXCEPT ![h] = w]
    BY <1>3, <1>5 DEF HLoad
  <1>7. /\ w \in Hand /\ w.run = r /\ w.prompt = prompt /\ w.tries = tries /\ ~w.ok /\ w.ran
        /\ w.pc \in {"publish", "save"}
        /\ w.pc = "publish" => Holds(thread[th], "assistant", r)
        /\ w.pc = "save" => w.base = msgs /\ ~Holds(msgs, "assistant", r)
    <2>1. "publish" \in HandlerPCs /\ "save" \in HandlerPCs /\ r \in Runs \cup {None}
      BY <1>3 DEF HandlerPCs
    <2>2. CASE Holds(msgs, "assistant", r)
      <3>1. w = HandAt("publish", r, prompt, <<>>, tries, FALSE, TRUE)
        BY <1>5, <2>2 DEF AlreadyPersisted
      <3>2. w \in Hand
        BY <1>3, <2>1, <3>1, HandAtEmpty
      <3>3. w.run = r /\ w.prompt = prompt /\ w.tries = tries /\ ~w.ok /\ w.ran /\ w.pc = "publish"
        BY <3>1 DEF HandAt
      <3> QED
        BY <1>4, <2>2, <3>2, <3>3
    <2>3. CASE ~Holds(msgs, "assistant", r)
      <3>1. w = HandAt("save", r, prompt, msgs, tries, FALSE, TRUE)
        BY <1>5, <2>3 DEF AlreadyPersisted
      <3>2. w \in Hand
        BY <1>3, <2>1, <3>1, HandAtTyped
      <3>3. /\ w.run = r /\ w.prompt = prompt /\ w.tries = tries /\ ~w.ok /\ w.ran
            /\ w.pc = "save" /\ w.base = msgs
        BY <3>1 DEF HandAt
      <3> QED
        BY <2>3, <3>2, <3>3
    <2> QED
      BY <2>2, <2>3
  <1>8. /\ hand' \in [Handlers -> Hand] /\ hand'[h] = w
        /\ \A g \in Handlers \ {h} : hand'[g] = hand[g]
    BY <1>6, <1>7, HandSet
  <1>9. HandlerSound(h)'
    <2>1. request'[r] # None /\ request'[r].hash = prompt
      BY <1>1, <1>3 DEF HandlerSound
    <2>2. r \in Turns => PromptOf(r, prompt, thread'[Chat])
      BY <1>1, <1>3 DEF HandlerSound
    <2> QED
      BY <1>1, <1>3, <1>4, <1>7, <1>8, <2>1, <2>2 DEF HandlerSound
  <1> QED
    BY <1>1, <1>2, <1>7, <1>8, <1>9, HandlerAlone

LEMMA DeliverStep ==
  ASSUME TypeOK, Sound, NEW h \in Handlers, NEW r \in Runs, Deliver(h, r)
  PROVE  TypeOK' /\ Sound'
PROOF
  <1>1. /\ hand[h].pc = "idle" /\ workflow[r].state = "running"
        /\ UNCHANGED <<thread, deleted, request, granted, workflow, stream, dropped, ttl, call,
                       faults, crashes>>
    BY DEF Deliver, postgres, redis
  <1>2. PICK w : w = HandAt("check", r, workflow[r].prompt, <<>>, 0, FALSE, FALSE)
    OBVIOUS
  <1>3. hand' = [hand EXCEPT ![h] = w]
    BY <1>2 DEF Deliver
  <1>4. w \in Hand /\ w.pc = "check" /\ w.run = r /\ w.prompt = workflow[r].prompt /\ ~w.ok /\ ~w.ran
    <2>1. "check" \in HandlerPCs /\ 0 \in 0..MaxPersistAttempts + 1 /\ r \in Runs \cup {None}
          /\ workflow[r].prompt \in Prompts
      BY WorkflowFields DEF HandlerPCs
    <2>2. w \in Hand
      BY <1>2, <2>1, HandAtEmpty
    <2>3. w.pc = "check" /\ w.run = r /\ w.prompt = workflow[r].prompt /\ ~w.ok /\ ~w.ran
      BY <1>2 DEF HandAt
    <2> QED
      BY <2>2, <2>3
  <1>5. /\ hand' \in [Handlers -> Hand] /\ hand'[h] = w
        /\ \A g \in Handlers \ {h} : hand'[g] = hand[g]
    BY <1>3, <1>4, HandSet
  <1>6. r \in Turns => PromptOf(r, workflow[r].prompt, thread[Chat])
    BY <1>1 DEF Sound, RunSound
  <1>7. HandlerSound(h)' /\ ~Claimant(h)'
    BY <1>1, <1>4, <1>5, <1>6 DEF HandlerSound, Claimant, Working
  <1>8. crashes' \in Nat
    BY <1>1 DEF TypeOK
  <1> QED
    BY <1>1, <1>5, <1>7, <1>8, HandlerAlone

LEMMA CompletesStep ==
  ASSUME TypeOK, Sound, NEW h \in Handlers, Completes(h)
  PROVE  TypeOK' /\ Sound'
PROOF
  <1> DEFINE r == hand[h].run
  <1>1. /\ hand[h].pc \in {"answered", "refused"} /\ Move(h, "over")
        /\ workflow' = [workflow EXCEPT ![r].state = "closed"]
        /\ UNCHANGED <<thread, deleted, request, granted, stream, dropped, ttl, call, faults,
                       crashes>>
    BY DEF Completes, postgres, redis, Move
  <1>2. r \in Runs
    BY <1>1 DEF Sound, HandlerSound
  <1>3. /\ workflow' \in [Runs -> Workflow] /\ workflow'[r].state = "closed"
        /\ \A x \in Runs \ {r} : workflow'[x] = workflow[x]
    <2>0. workflow[r] \in Workflow /\ workflow \in [Runs -> Workflow]
      BY <1>2 DEF TypeOK
    <2>1. [workflow[r] EXCEPT !.state = "closed"] \in Workflow
          /\ [workflow[r] EXCEPT !.state = "closed"].state = "closed"
      BY <2>0 DEF Workflow
    <2> QED
      BY <1>1, <1>2, <2>0, <2>1
  <1>4. "over" \in HandlerPCs /\ "over" \in Plain
    BY DEF HandlerPCs, Plain
  <1>5. /\ hand' \in [Handlers -> Hand]
        /\ hand'[h].pc = "over" /\ hand'[h].run = r /\ hand'[h].prompt = hand[h].prompt
        /\ hand'[h].ok = hand[h].ok /\ hand'[h].ran = hand[h].ran
        /\ \A g \in Handlers \ {h} : hand'[g] = hand[g]
    BY <1>1, <1>4, MoveIs
  <1>6. TypeOK'
    BY <1>1, <1>3, <1>5 DEF TypeOK
  <1>7. Monotone
    BY <1>1, Unmoved DEF Monotone
  <1>8. Claimant(h)' => Claimant(h)
    BY <1>5 DEF Claimant, Working
  <1>9. HandlerSound(h)'
    BY <1>1, <1>4, <1>5, <1>6, <1>7, <1>8, MoveSound
  <1>10. ASSUME NEW x \in Runs PROVE RunSound(x)'
    <2>1. workflow'[x].state = "running" => workflow'[x] = workflow[x]
      BY <1>3
    <2> QED
      BY <1>1, <1>6, <1>7, <2>1, RunKept DEF Sound
  <1>11. ASSUME NEW th \in Threads PROVE ThreadSound(th)'
    BY <1>1 DEF Sound, ThreadSound
  <1> QED
    BY <1>1, <1>5, <1>6, <1>7, <1>8, <1>9, <1>10, <1>11, HandlerMoves

LEMMA HClaimStep ==
  ASSUME TypeOK, Sound, NEW h \in Handlers, HClaim(h)
  PROVE  TypeOK' /\ Sound'
PROOF
  <1> DEFINE r == hand[h].run
             prompt == hand[h].prompt
             pc == IF request[r] = None THEN "run" ELSE "refused"
  <1>1. /\ hand[h].pc = "claim" /\ CreatePending(r, prompt) /\ Move(h, pc)
        /\ UNCHANGED <<thread, deleted, granted, workflow, stream, dropped, ttl, call, faults,
                       crashes>>
    BY DEF HClaim, redis
  <1>2. /\ HandlerSound(h) /\ r \in Runs /\ prompt \in Prompts
        /\ r \in Turns => PromptOf(r, prompt, thread[Chat])
    BY <1>1, HandFields DEF Sound, HandlerSound
  <1>3. pc \in HandlerPCs /\ pc \in Plain /\ (pc = "run" <=> request[r] = None) /\ pc \in {"run", "refused"}
    BY DEF HandlerPCs, Plain
  <1> HIDE DEF pc
  <1>4. /\ hand' \in [Handlers -> Hand]
        /\ hand'[h].pc = pc /\ hand'[h].run = r /\ hand'[h].prompt = prompt
        /\ hand'[h].ok = hand[h].ok /\ hand'[h].ran = hand[h].ran
        /\ \A g \in Handlers \ {h} : hand'[g] = hand[g]
    BY <1>1, <1>3, MoveIs
  <1> HIDE DEF prompt
  <1>5. /\ request' \in [Runs -> ExecutionRequest \cup {None}] /\ ClaimsStay
        /\ request'[r] # None
        /\ request[r] = None => request'[r].hash = prompt
    BY <1>1, <1>2, ClaimIs
  <1>6. TypeOK'
    BY <1>1, <1>4, <1>5 DEF TypeOK
  <1>7. Monotone
    BY <1>1, <1>5, Unmoved DEF Monotone
  <1>8. Claimant(h)' => Claimant(h) \/ pc = "run"
    BY <1>3, <1>4 DEF Claimant, Working
  <1>9. HandlerSound(h)'
    BY <1>1, <1>3, <1>4, <1>5, <1>6, <1>7, <1>8, MoveSound DEF prompt
  <1>10. \A x \in Runs : RunSound(x)'
    BY <1>1, <1>2, <1>6, <1>7, RunClaimed
  <1>11. ASSUME NEW th \in Threads PROVE ThreadSound(th)'
    BY <1>1 DEF Sound, ThreadSound
  <1> QED
    BY <1>1, <1>3, <1>4, <1>6, <1>7, <1>8, <1>9, <1>10, <1>11, HandlerMoves

LEMMA HSaveStep ==
  ASSUME TypeOK, Sound, NEW h \in Handlers, HSave(h)
  PROVE  TypeOK' /\ Sound'
PROOF
  <1> DEFINE r == hand[h].run
             base == hand[h].base
             tries == hand[h].tries
             th == ThreadOf(r)
             m == AssistantMessage(r)
             with == Append(base, m)
  <1>1. /\ hand[h].pc = "save" /\ Claimant(h)
        /\ UNCHANGED <<deleted, request, granted, workflow, stream, dropped, ttl, call, faults,
                       crashes>>
    BY DEF HSave, redis, Claimant, Working
  <1>2. /\ HandlerSound(h) /\ r \in Runs /\ r \in Stateful /\ tries \in 1..MaxPersistAttempts
        /\ Extends(thread[th], base) /\ ~Holds(base, "assistant", r)
    BY <1>1 DEF Sound, HandlerSound
  <1>3. base \in Seq(Message) /\ th \in Threads
    BY <1>2, HandFields, ThreadOfRun
  <1>4. m \in Message /\ m.role = "assistant" /\ m.run = r
    BY <1>2 DEF AssistantMessage, Message
  <1>5. crashes' \in Nat /\ WithAnswer(h) = with
    BY <1>1 DEF TypeOK, WithAnswer
  <1>6. CASE UNCHANGED thread /\ Move(h, "report")
    <2>1. "report" \in Plain
      BY DEF Plain, HandlerPCs
    <2> QED
      BY <1>1, <1>5, <1>6, <2>1, MovesOn
  <1>7. CASE /\ UNCHANGED thread
             /\ hand' = [hand EXCEPT ![h].pc = AfterConflict(h), ![h].tries = @ + 1]
    <2> DEFINE pc == AfterConflict(h)
               w == [hand[h] EXCEPT !.pc = pc, !.tries = tries + 1]
    <2>1. /\ hand[h] \in Hand /\ hand \in [Handlers -> Hand]
          /\ pc \in {"report", "load"}
          /\ pc = "load" => tries + 1 \in 1..MaxPersistAttempts
          /\ tries + 1 \in 0..MaxPersistAttempts + 1
      BY <1>2, HandFields DEF TypeOK, AfterConflict
    <2>2. hand' = [hand EXCEPT ![h] = w]
      BY <1>7, <2>1
    <2> HIDE DEF pc
    <2>3. /\ w \in Hand /\ w.pc = pc /\ w.tries = tries + 1 /\ w.run = r
          /\ w.prompt = hand[h].prompt /\ w.ok = hand[h].ok /\ w.ran = hand[h].ran
      BY <2>1 DEF Hand, HandlerPCs
    <2> HIDE DEF w
    <2>4. /\ hand' \in [Handlers -> Hand] /\ hand'[h] = w
          /\ \A g \in Handlers \ {h} : hand'[g] = hand[g]
      BY <2>2, <2>3, HandSet
    <2>5. HandlerSound(h)'
      <3>1. request'[r] # None /\ request'[r].hash = hand[h].prompt
        BY <1>1, <1>2 DEF HandlerSound
      <3>2. hand[h].ok => StreamHolds(r, "done")'
        BY <1>1, <1>2, <2>3, <2>4 DEF HandlerSound, StreamHolds
      <3>3. r \in Turns => PromptOf(r, hand[h].prompt, thread'[Chat])
        BY <1>1, <1>2, <1>7 DEF HandlerSound
      <3> QED
        BY <1>2, <2>1, <2>3, <2>4, <3>1, <3>2, <3>3 DEF HandlerSound
    <2> QED
      BY <1>1, <1>5, <1>7, <2>3, <2>4, <2>5, HandlerAlone
  <1>8. CASE LengthMatches(th, Len(base)) /\ SaveThread(th, with) /\ Move(h, "publish")
    <2>1. /\ thread' \in [Threads -> Seq(Message)] /\ ThreadsGrow
          /\ Stored(m) \in Message
          /\ thread'[th] = Append(thread[th], Stored(m))
          /\ \A x \in Threads : ThreadSound(x)'
      BY <1>2, <1>3, <1>4, <1>8, ThreadSaved
    <2>2. "publish" \in HandlerPCs
      BY DEF HandlerPCs
    <2>3. /\ hand' \in [Handlers -> Hand]
          /\ hand'[h].pc = "publish" /\ hand'[h].run = r /\ hand'[h].prompt = hand[h].prompt
          /\ hand'[h].ok = hand[h].ok /\ hand'[h].ran = hand[h].ran
          /\ \A g \in Handlers \ {h} : hand'[g] = hand[g]
      BY <1>8, <2>2, MoveIs
    <2>4. TypeOK'
      BY <1>1, <2>1, <2>3 DEF TypeOK
    <2>5. Monotone
      BY <1>1, <2>1, Unmoved DEF Monotone
    <2>6. Holds(thread'[th], "assistant", r)
      <3>1. thread[th] \in Seq(Message) /\ Stored(m).role = "assistant" /\ Stored(m).run = r
        BY <1>3, <1>4, ThreadTyped, StoredMessage
      <3>2. Holds(Append(thread[th], Stored(m)), "assistant", r)
        <4>1. PICK a \in Message : a = Stored(m)
          BY <2>1
        <4> QED
          BY <3>1, <4>1, HoldsAppended
      <3> QED
        BY <2>1, <3>2
    <2>7. HandlerSound(h)'
      <3>1. request'[r] # None /\ request'[r].hash = hand[h].prompt
        BY <1>1, <1>2 DEF HandlerSound
      <3>2. hand[h].ok => StreamHolds(r, "done")'
        BY <1>1, <1>2, <2>3 DEF HandlerSound, StreamHolds
      <3>3. r \in Turns => PromptOf(r, hand[h].prompt, thread'[Chat])
        <4>1. hand[h].prompt \in Prompts
          BY HandFields
        <4> QED
          BY <1>1, <1>2, <2>4, <2>5, <4>1, StaysTrue DEF HandlerSound
      <3> QED
        BY <1>2, <2>3, <2>6, <3>1, <3>2, <3>3 DEF HandlerSound
    <2>8. ASSUME NEW x \in Runs PROVE RunSound(x)'
      BY <1>1, <2>4, <2>5, RunKept DEF Sound
    <2> QED
      BY <1>1, <2>1, <2>3, <2>4, <2>5, <2>7, <2>8, HandlerMoves
  <1> QED
    BY <1>5, <1>6, <1>7, <1>8 DEF HSave

\* An event that is published, if the command reaches Redis.
LEMMA PublishIs ==
  ASSUME TypeOK, NEW r \in Runs, NEW e \in Events, Published(r, e) \/ PublishFails(r, e)
  PROVE  /\ stream' \in [Runs -> Seq(Events)] /\ StreamsGrow /\ faults' \in Nat
         /\ \A x \in Runs : Len(stream[x]) <= Len(stream'[x])
         /\ \A f : \A x \in Runs : HasEvent(stream'[x], f) =>
                                 HasEvent(stream[x], f) \/ (x = r /\ f = e)
         /\ Published(r, e) => HasEvent(stream'[r], e)
PROOF
  <1> DEFINE more == Append(stream[r], e)
  <1>1. stream \in [Runs -> Seq(Events)] /\ stream[r] \in Seq(Events) /\ faults \in Nat
    BY DEF TypeOK
  <1>2. /\ more \in Seq(Events) /\ Extends(more, stream[r])
        /\ \A f : HasEvent(more, f) <=> HasEvent(stream[r], f) \/ f = e
    BY <1>1, AppendExtends, EventAdded
  <1>3. faults' \in Nat
    BY <1>1 DEF Published, PublishFails
  <1>4. CASE Publish(r, e)
    <2>1. /\ stream'[r] = more /\ \A x \in Runs \ {r} : stream'[x] = stream[x]
          /\ stream' \in [Runs -> Seq(Events)]
      BY <1>1, <1>2, <1>4 DEF Publish
    <2> HIDE DEF more
    <2>2. \A x \in Runs : Extends(stream'[x], stream[x])
      BY <1>1, <1>2, <2>1, ExtendsItself
    <2> QED
      BY <1>2, <1>3, <2>1, <2>2 DEF StreamsGrow, Extends
  <1>5. CASE UNCHANGED stream
    <2>1. Published(r, e) => Publish(r, e)
      BY DEF Published
    <2>2. \A x \in Runs : Extends(stream[x], stream[x])
      BY <1>1, ExtendsItself
    <2> QED
      BY <1>1, <1>3, <1>4, <1>5, <2>1, <2>2 DEF StreamsGrow, Extends
  <1> QED
    BY <1>4, <1>5 DEF Published, PublishFails

\* An event other than the terminal one, that a handler publishes on its way.
LEMMA SpeaksStep ==
  ASSUME TypeOK, Sound, NEW h \in Handlers, HDelta(h) \/ HFails(h) \/ HReport(h)
  PROVE  TypeOK' /\ Sound'
PROOF
  <1> DEFINE r == hand[h].run
  <1>1. /\ hand[h].pc \in {"stream", "drain", "report"} /\ Claimant(h)
        /\ UNCHANGED <<thread, deleted, request, granted, workflow, dropped, call, crashes>>
    BY DEF HDelta, HFails, HReport, postgres, Claimant, Working
  <1>2. PICK pc \in {"drain", "finalize"}, e \in Events :
          e # "done" /\ Move(h, pc) /\ (Published(r, e) \/ PublishFails(r, e))
    BY DEF HDelta, HFails, HReport, Events
  <1>3. HandlerSound(h) /\ r \in Runs
    BY <1>1 DEF Sound, HandlerSound
  <1>4. ttl' \in [Runs -> BOOLEAN]
    BY <1>3 DEF HDelta, HFails, HReport, SetTTL, TypeOK
  <1>5. /\ stream' \in [Runs -> Seq(Events)] /\ StreamsGrow /\ faults' \in Nat
        /\ \A x \in Runs : Len(stream[x]) <= Len(stream'[x])
        /\ \A x \in Runs : HasEvent(stream'[x], "done") => HasEvent(stream[x], "done")
    BY <1>2, <1>3, PublishIs
  <1>6. pc \in HandlerPCs /\ pc \in Plain
    BY DEF HandlerPCs, Plain
  <1>7. /\ hand' \in [Handlers -> Hand]
        /\ hand'[h].pc = pc /\ hand'[h].run = r /\ hand'[h].prompt = hand[h].prompt
        /\ hand'[h].ok = hand[h].ok /\ hand'[h].ran = hand[h].ran
        /\ \A g \in Handlers \ {h} : hand'[g] = hand[g]
    BY <1>2, <1>6, MoveIs
  <1>8. \A x \in Runs : dropped'[x] <= Len(stream'[x])
    <2>1. \A x \in Runs : /\ dropped[x] \in Nat /\ dropped[x] <= Len(stream[x])
                          /\ Len(stream[x]) \in Nat /\ Len(stream'[x]) \in Nat
      BY <1>5 DEF TypeOK
    <2> QED
      BY <1>1, <1>5, <2>1
  <1>9. TypeOK'
    BY <1>1, <1>4, <1>5, <1>7, <1>8 DEF TypeOK
  <1>10. Monotone
    BY <1>1, <1>5, Unmoved DEF Monotone
  <1>11. HandlerSound(h)'
    BY <1>1, <1>6, <1>7, <1>9, <1>10, MoveSound
  <1>12. ASSUME NEW x \in Runs PROVE RunSound(x)'
    BY <1>1, <1>5, <1>9, <1>10, RunKept DEF Sound
  <1>13. ASSUME NEW th \in Threads PROVE ThreadSound(th)'
    BY <1>1 DEF Sound, ThreadSound
  <1> QED
    BY <1>1, <1>7, <1>9, <1>10, <1>11, <1>12, <1>13, HandlerMoves

LEMMA HPublishStep ==
  ASSUME TypeOK, Sound, NEW h \in Handlers, HPublish(h)
  PROVE  TypeOK' /\ Sound'
PROOF
  <1> DEFINE r == hand[h].run
             prompt == hand[h].prompt
  <1>1. /\ hand[h].pc = "publish" /\ Claimant(h)
        /\ UNCHANGED <<thread, deleted, request, granted, workflow, dropped, call, crashes>>
        /\ Published(r, "done") \/ PublishFails(r, "done")
    BY DEF HPublish, postgres, Claimant, Working
  <1>2. /\ HandlerSound(h) /\ r \in Runs /\ prompt \in Prompts
        /\ hand \in [Handlers -> Hand] /\ "done" \in Events
        /\ r \in Stateful => Holds(thread[ThreadOf(r)], "assistant", r)
    BY <1>1, HandFields DEF Sound, HandlerSound, TypeOK, Events
  <1>3. ttl' \in [Runs -> BOOLEAN]
    BY <1>2 DEF HPublish, SetTTL, TypeOK
  <1>4. /\ stream' \in [Runs -> Seq(Events)] /\ StreamsGrow /\ faults' \in Nat
        /\ \A x \in Runs : Len(stream[x]) <= Len(stream'[x])
        /\ \A x \in Runs \ {r} : HasEvent(stream'[x], "done") => HasEvent(stream[x], "done")
        /\ Published(r, "done") => HasEvent(stream'[r], "done")
    BY <1>1, <1>2, PublishIs
  <1>5. \E ok \in BOOLEAN, pc \in {"finalize", "report"} :
          /\ hand' = [hand EXCEPT ![h] = HandAt(pc, r, prompt, <<>>, 0, ok, TRUE)]
          /\ ok => Published(r, "done")
    BY <1>2 DEF HPublish, AfterLostDone
  <1>6. PICK ok \in BOOLEAN, pc \in {"finalize", "report"} :
          /\ hand' = [hand EXCEPT ![h] = HandAt(pc, r, prompt, <<>>, 0, ok, TRUE)]
          /\ ok => Published(r, "done")
    BY <1>5
  <1>7. PICK w : w = HandAt(pc, r, prompt, <<>>, 0, ok, TRUE)
    OBVIOUS
  <1>8. w \in Hand /\ w.pc = pc /\ w.run = r /\ w.prompt = prompt /\ w.ok = ok /\ w.ran
    <2>1. pc \in HandlerPCs /\ r \in Runs \cup {None} /\ 0 \in 0..MaxPersistAttempts + 1
      BY <1>2 DEF HandlerPCs
    <2>2. w \in Hand
      BY <1>2, <1>7, <2>1, HandAtEmpty
    <2>3. w.pc = pc /\ w.run = r /\ w.prompt = prompt /\ w.ok = ok /\ w.ran
      BY <1>7 DEF HandAt
    <2> QED
      BY <2>2, <2>3
  <1>9. /\ hand' \in [Handlers -> Hand] /\ hand'[h] = w
        /\ \A g \in Handlers \ {h} : hand'[g] = hand[g]
    BY <1>6, <1>7, <1>8, HandSet
  <1>10. \A x \in Runs : dropped'[x] <= Len(stream'[x])
    <2>1. \A x \in Runs : /\ dropped[x] \in Nat /\ dropped[x] <= Len(stream[x])
                          /\ Len(stream[x]) \in Nat /\ Len(stream'[x]) \in Nat
      BY <1>4 DEF TypeOK
    <2> QED
      BY <1>1, <1>4, <2>1
  <1>11. TypeOK'
    BY <1>1, <1>3, <1>4, <1>9, <1>10 DEF TypeOK
  <1>12. Monotone
    BY <1>1, <1>4, Unmoved DEF Monotone
  <1>13. HandlerSound(h)'
    <2>1. request'[r] # None /\ request'[r].hash = prompt
      BY <1>1, <1>2 DEF HandlerSound
    <2>2. r \in Turns => PromptOf(r, prompt, thread'[Chat])
      BY <1>1, <1>2 DEF HandlerSound
    <2>3. hand'[h].ok => StreamHolds(hand[h].run, "done")'
      <3>1. hand'[h].run = r /\ hand'[h].ok = ok
        BY <1>8, <1>9
      <3>2. ok => HasEvent(stream'[r], "done")
        BY <1>4, <1>6
      <3>3. ok => HasEvent(stream'[hand'[h].run], "done")
        BY <3>1, <3>2
      <3> QED
        BY <3>1, <3>3 DEF StreamHolds, HasEvent
    <2> QED
      BY <1>2, <1>8, <1>9, <2>1, <2>2, <2>3 DEF HandlerSound
  <1>14. ASSUME NEW x \in Runs PROVE RunSound(x)'
    <2>1. CASE x = r
      <3>1. RunSound(x) /\ (x \in Stateful => Holds(thread'[ThreadOf(x)], "assistant", x))
        BY <1>1, <1>2, <2>1 DEF Sound
      <3>2. StreamHolds(x, "done") => StreamHolds(x, "done")'
        BY <1>11, <1>12, StaysTrue DEF StreamHolds, HasEvent
      <3> QED
        BY <1>1, <3>1, <3>2 DEF RunSound
    <2>2. CASE x # r
      BY <1>1, <1>4, <1>11, <1>12, <2>2, RunKept DEF Sound
    <2> QED
      BY <2>1, <2>2
  <1>15. ASSUME NEW th \in Threads PROVE ThreadSound(th)'
    BY <1>1 DEF Sound, ThreadSound
  <1> QED
    BY <1>1, <1>8, <1>9, <1>11, <1>12, <1>13, <1>14, <1>15, HandlerMoves

LEMMA HFinalizeStep ==
  ASSUME TypeOK, Sound, NEW h \in Handlers, HFinalize(h)
  PROVE  TypeOK' /\ Sound'
PROOF
  <1> DEFINE r == hand[h].run
             row == [request[r] EXCEPT !.ok = hand[h].ok]
  <1>1. /\ hand[h].pc = "finalize" /\ Claimant(h) /\ Move(h, "answered")
        /\ request' = [request EXCEPT ![r].ok = hand[h].ok]
        /\ UNCHANGED <<thread, deleted, granted, workflow, stream, dropped, ttl, call, faults,
                       crashes>>
    BY DEF HFinalize, redis, Claimant, Working
  <1>2. /\ HandlerSound(h) /\ r \in Runs /\ request[r] # None
        /\ hand[h].ok \in BOOLEAN /\ (hand[h].ok => StreamHolds(r, "done"))
    BY <1>1, HandFields DEF Sound, HandlerSound
  <1>3. request \in [Runs -> ExecutionRequest \cup {None}] /\ request[r] \in ExecutionRequest
    BY <1>2, RequestFields DEF TypeOK
  <1>4. row \in ExecutionRequest /\ row.hash = request[r].hash /\ row.ok = hand[h].ok
    BY <1>2, <1>3 DEF ExecutionRequest
  <1>5. request' = [request EXCEPT ![r] = row]
    BY <1>1, <1>3
  <1> HIDE DEF row
  <1>6. /\ request' \in [Runs -> ExecutionRequest \cup {None}]
        /\ request'[r] = row /\ row # None
        /\ \A x \in Runs \ {r} : request'[x] = request[x]
    BY <1>2, <1>3, <1>4, <1>5
  <1>7. ClaimsStay
    BY <1>4, <1>6 DEF ClaimsStay
  <1>8. "answered" \in HandlerPCs /\ "answered" \in Plain
    BY DEF HandlerPCs, Plain
  <1>9. /\ hand' \in [Handlers -> Hand]
        /\ hand'[h].pc = "answered" /\ hand'[h].run = r /\ hand'[h].prompt = hand[h].prompt
        /\ hand'[h].ok = hand[h].ok /\ hand'[h].ran = hand[h].ran
        /\ \A g \in Handlers \ {h} : hand'[g] = hand[g]
    BY <1>1, <1>8, MoveIs
  <1>10. TypeOK'
    BY <1>1, <1>6, <1>9 DEF TypeOK
  <1>11. Monotone
    BY <1>1, <1>7, Unmoved DEF Monotone
  <1>12. HandlerSound(h)'
    BY <1>1, <1>8, <1>9, <1>10, <1>11, MoveSound
  <1>13. ASSUME NEW x \in Runs PROVE RunSound(x)'
    <2>1. CASE x = r
      <3>1. RunSound(x) /\ (StreamHolds(x, "done")' <=> StreamHolds(x, "done"))
        BY <1>1 DEF Sound, StreamHolds
      <3>2. row.ok = TRUE => StreamHolds(x, "done")
        BY <1>2, <1>4, <2>1
      <3> QED
        BY <1>1, <1>2, <1>4, <1>6, <2>1, <3>1, <3>2 DEF RunSound
    <2>2. CASE x # r
      <3>1. request'[x] = request[x]
        BY <1>6, <2>2
      <3> QED
        BY <1>1, <1>10, <1>11, <3>1, RunKept DEF Sound
    <2> QED
      BY <2>1, <2>2
  <1>14. ASSUME NEW th \in Threads PROVE ThreadSound(th)'
    BY <1>1 DEF Sound, ThreadSound
  <1> QED
    BY <1>1, <1>9, <1>10, <1>11, <1>12, <1>13, <1>14, HandlerMoves

\* A step that changes no caller and no handler.
LEMMA NobodyMoves ==
  ASSUME TypeOK, TypeOK', Sound, Monotone, UNCHANGED <<call, hand>>,
         \A th \in Threads : ThreadSound(th)', \A r \in Runs : RunSound(r)'
  PROVE  Sound'
PROOF
  <1>1. ASSUME NEW c \in Callers PROVE CallerSound(c)'
    BY CallerKept DEF Sound
  <1>2. ASSUME NEW h \in Handlers PROVE HandlerSound(h)'
    BY HandlerKept DEF Sound
  <1>3. SlotClaimedOnce'
    BY DEF Sound, SlotClaimedOnce, Claimant
  <1> QED
    BY <1>1, <1>2, <1>3 DEF Sound

LEMMA FireScheduleStep ==
  ASSUME TypeOK, Sound, NEW s \in Slots, FireSchedule(s)
  PROVE  TypeOK' /\ Sound'
PROOF
  <1>1. /\ StartWorkflow(s, SlotPrompt)
        /\ UNCHANGED <<thread, deleted, request, granted, stream, dropped, ttl, call, hand,
                       faults, crashes>>
    BY DEF FireSchedule, postgres, redis
  <1>2. s \in Runs /\ s \notin Turns /\ SlotPrompt \in Prompts
    BY NothingTyped DEF Runs, SlotPrompt
  <1>3. workflow' \in [Runs -> Workflow]
    BY <1>1, <1>2, WorkflowStarted
  <1>4. TypeOK'
    BY <1>1, <1>3 DEF TypeOK
  <1>5. Monotone
    BY <1>1, Unmoved DEF Monotone
  <1>6. \A r \in Runs : RunSound(r)'
    BY <1>1, <1>2, <1>4, <1>5, RunStarted
  <1>7. ASSUME NEW th \in Threads PROVE ThreadSound(th)'
    BY <1>1 DEF Sound, ThreadSound
  <1> QED
    BY <1>1, <1>4, <1>5, <1>6, <1>7, NobodyMoves

\* Steps of users and of Redis that write no message, no claim and no event.
LEMMA QuietStep ==
  ASSUME TypeOK, Sound,
         \/ SoftDelete \/ (\E r \in Runs : StreamExpires(r)) \/ (\E s \in Slots : RevokeGrant(s))
         \/ UNCHANGED vars
  PROVE  TypeOK' /\ Sound'
PROOF
  <1>1. UNCHANGED <<thread, request, workflow, stream, call, hand, faults, crashes>>
    BY DEF SoftDelete, StreamExpires, RevokeGrant, vars, postgres, redis
  <1>2. deleted' \in [Threads -> BOOLEAN]
    BY DEF SoftDelete, StreamExpires, RevokeGrant, vars, postgres, TypeOK, Threads
  <1>3. granted' \in [Slots -> BOOLEAN]
    BY DEF SoftDelete, StreamExpires, RevokeGrant, vars, postgres, TypeOK
  <1>4. ttl' \in [Runs -> BOOLEAN]
    BY DEF SoftDelete, StreamExpires, RevokeGrant, vars, redis, TypeOK
  <1>5. dropped' \in [Runs -> Nat] /\ \A r \in Runs : dropped'[r] <= Len(stream[r])
    <2>1. dropped' = dropped \/ \E r \in Runs : dropped' = [dropped EXCEPT ![r] = Len(stream[r])]
      BY DEF SoftDelete, StreamExpires, RevokeGrant, vars, redis, Expired
    <2>2. /\ dropped \in [Runs -> Nat] /\ \A r \in Runs : dropped[r] <= Len(stream[r])
          /\ \A r \in Runs : Len(stream[r]) \in Nat
      BY DEF TypeOK
    <2> QED
      BY <2>1, <2>2
  <1>6. TypeOK'
    BY <1>1, <1>2, <1>3, <1>4, <1>5 DEF TypeOK
  <1> QED
    BY <1>1, <1>6, RowsKept, NobodyMoves

-----------------------------------------------------------------------------
(* The invariant *)

LEMMA InitSound == Init => TypeOK /\ Sound
PROOF
  <1> SUFFICES ASSUME Init PROVE TypeOK /\ Sound
    OBVIOUS
  <1>1. /\ thread \in [Threads -> Seq(Message)] /\ deleted \in [Threads -> BOOLEAN]
        /\ \A th \in Threads : thread[th] = <<>>
    BY NothingTyped DEF Init
  <1>2. /\ request \in [Runs -> ExecutionRequest \cup {None}] /\ granted \in [Slots -> BOOLEAN]
        /\ \A r \in Runs : request[r] = None
    BY DEF Init
  <1>3. workflow \in [Runs -> Workflow] /\ \A r \in Runs : workflow[r].state # "running"
    BY NothingTyped DEF Init, Workflow
  <1>4. /\ stream \in [Runs -> Seq(Events)] /\ ttl \in [Runs -> BOOLEAN]
        /\ dropped \in [Runs -> Nat] /\ \A r \in Runs : dropped[r] = 0 /\ stream[r] = <<>>
    BY DEF Init
  <1>5. call \in [Callers -> Call]
        /\ \A c \in Callers : /\ call[c].pc = "load" => CallRun[c] \in Turns
                              /\ call[c].pc = "check" => CallRun[c] \notin Turns
                              /\ call[c].pc \in {"load", "check"}
    <2>1. ASSUME NEW c \in Callers
          PROVE  /\ CallAt("load", <<>>, <<>>, 0) \in Call
                 /\ CallAt("check", <<>>, <<CallText[c]>>, 0) \in Call
                 /\ CallAt("load", <<>>, <<>>, 0).pc = "load"
                 /\ CallAt("check", <<>>, <<CallText[c]>>, 0).pc = "check"
      <3>1. "load" \in CallerPCs /\ "check" \in CallerPCs /\ <<CallText[c]>> \in Prompts /\ 0 \in Nat
        BY DEF CallerPCs, Prompts
      <3> QED
        BY <3>1, NothingTyped, CallAtEmpty
    <2> QED
      BY <2>1 DEF Init
  <1>6. hand \in [Handlers -> Hand]
        /\ \A h \in Handlers : hand[h].pc = "idle" /\ ~hand[h].ran /\ ~hand[h].ok
    <2>1. Free \in Hand
      <3>1. "idle" \in HandlerPCs /\ None \in Runs \cup {None} /\ 0 \in 0..MaxPersistAttempts + 1
        BY DEF HandlerPCs
      <3> QED
        BY <3>1, NothingTyped, HandAtEmpty DEF Free
    <2>2. Free.pc = "idle" /\ ~Free.ran /\ ~Free.ok
      BY DEF Free, HandAt
    <2> QED
      BY <2>1, <2>2 DEF Init
  <1>7. TypeOK
    <2>1. faults \in Nat /\ crashes \in Nat /\ \A r \in Runs : dropped[r] <= Len(stream[r])
      BY <1>4 DEF Init
    <2> QED
      BY <1>1, <1>2, <1>3, <1>4, <1>5, <1>6, <2>1 DEF TypeOK
  <1>8. \A th \in Threads : ThreadSound(th)
    BY <1>1 DEF ThreadSound, Once, Redacts
  <1>9. \A c \in Callers : CallerSound(c)
    BY <1>5 DEF CallerSound, Saving
  <1>10. \A h \in Handlers : HandlerSound(h) /\ ~Claimant(h)
    BY <1>6 DEF HandlerSound, Claimant, Working
  <1>11. \A r \in Runs : RunSound(r)
    BY <1>2, <1>3, <1>4 DEF RunSound, StreamHolds
  <1> QED
    BY <1>7, <1>8, <1>9, <1>10, <1>11 DEF Sound, SlotClaimedOnce

LEMMA NextSound == TypeOK /\ Sound /\ [Next]_vars => TypeOK' /\ Sound'
PROOF
  <1> SUFFICES ASSUME TypeOK, Sound, [Next]_vars PROVE TypeOK' /\ Sound'
    OBVIOUS
  <1>1. CASE SoftDelete \/ (\E r \in Runs : StreamExpires(r)) \/ UNCHANGED vars
    BY <1>1, QuietStep
  <1>2. ASSUME NEW s \in Slots, FireSchedule(s) \/ RevokeGrant(s) PROVE TypeOK' /\ Sound'
    BY <1>2, FireScheduleStep, QuietStep
  <1>3. ASSUME NEW c \in Callers, CallerStep(c) \/ Disconnect(c) \/ CallerDies(c)
        PROVE  TypeOK' /\ Sound'
    BY <1>3, LoadStep, SaveTurnStep, CheckStep, InsertStep, StartStep, ListenStep DEF CallerStep
  <1>4. ASSUME NEW h \in Handlers, NEW r \in Runs, Deliver(h, r) PROVE TypeOK' /\ Sound'
    BY <1>4, DeliverStep
  <1>5. ASSUME NEW h \in Handlers, HandlerStep(h) PROVE TypeOK' /\ Sound'
    BY <1>5, HCheckStep, PlainStep, HClaimStep, HRunStep, SpeaksStep, HSucceedsStep, HLoadStep,
       HSaveStep, HPublishStep, HFinalizeStep DEF HandlerStep
  <1>6. ASSUME NEW h \in Handlers, HandlerDies(h) \/ Completes(h) \/ AnswerLost(h)
        PROVE  TypeOK' /\ Sound'
    BY <1>6, PlainStep, CompletesStep
  <1> QED
    BY <1>1, <1>2, <1>3, <1>4, <1>5, <1>6 DEF Next

\* What a caller and a handler know of the rows they read holds through every interleaving.
THEOREM SoundInvariant == Spec => [](TypeOK /\ Sound)
PROOF
  BY InitSound, NextSound, PTL DEF Spec

-----------------------------------------------------------------------------
(* What follows from it *)

\* Every variable keeps its type.
THEOREM TypeCorrect == Spec => []TypeOK
PROOF
  BY SoundInvariant, PTL

\* A stream that shows success belongs to a run whose answer is in its thread.
THEOREM DoneKept == Spec => []DoneIsDurable
PROOF
  <1>1. TypeOK /\ Sound => DoneIsDurable
    BY DEF Sound, RunSound, DoneIsDurable, Stateful, Runs
  <1> QED
    BY <1>1, SoundInvariant, PTL

\* However often a turn is sent and a run is delivered, its messages are stored once.
THEOREM StoredOnce == Spec => []MessagesOnce
PROOF
  <1>1. TypeOK /\ Sound => MessagesOnce
    BY DEF Sound, ThreadSound, Once, MessagesOnce
  <1> QED
    BY <1>1, SoundInvariant, PTL

\* A turn is claimed with the thread up to it, whatever is appended meanwhile.
THEOREM ClaimKept == Spec => []ClaimIsThreadPrefix
PROOF
  <1>1. TypeOK /\ Sound => ClaimIsThreadPrefix
    BY DEF Sound, RunSound, PromptOf, ClaimIsThreadPrefix, Runs
  <1> QED
    BY <1>1, SoundInvariant, PTL

\* Only the payload that claimed a run is ever executed.
THEOREM ClaimedIsRun == Spec => []RunsWhatWasClaimed
PROOF
  <1>1. TypeOK /\ Sound => RunsWhatWasClaimed
    BY DEF Sound, HandlerSound, Claimant, RunsWhatWasClaimed
  <1> QED
    BY <1>1, SoundInvariant, PTL

\* A success is recorded only after the subscribers were told.
THEOREM SuccessAnnounced == Spec => []SuccessWasPublished
PROOF
  <1>1. TypeOK /\ Sound => SuccessWasPublished
    BY DEF Sound, RunSound, SuccessWasPublished
  <1> QED
    BY <1>1, SoundInvariant, PTL

\* However often Temporal delivers a slot, one delivery executes it.
THEOREM SlotOnce == Spec => []SlotRunsOnce
PROOF
  <1>1. TypeOK /\ Sound => SlotRunsOnce
    BY DEF Sound, SlotClaimedOnce, Claimant, SlotRunsOnce
  <1> QED
    BY <1>1, SoundInvariant, PTL

-----------------------------------------------------------------------------
(* What a step does to the threads and to the streams *)

\* A thread gets one message, that it did not hold.
Appends(th, m) ==
  /\ thread' \in [Threads -> Seq(Message)] /\ ThreadsGrow
  /\ thread'[th] = Append(thread[th], m) /\ ~Holds(thread[th], m.role, m.run)
  /\ \A x \in Threads \ {th} : thread'[x] = thread[x]

\* The message is a turn, or the answer of a run in its own thread, to a turn that is stored.
StoresTurn == \E m \in Message : Appends(Chat, m) /\ m.role = "user" /\ m.run \in Turns
StoresAnswer ==
  \E m \in Message :
    /\ Appends(ThreadOf(m.run), m) /\ m.role = "assistant" /\ m.run \in Stateful
    /\ m.run \in Turns => Holds(thread[Chat], "user", m.run)

LEMMA TurnStored ==
  ASSUME TypeOK, Sound, NEW c \in Callers, SaveTurn(c)
  PROVE  UNCHANGED stream /\ (UNCHANGED thread \/ StoresTurn)
PROOF
  <1> DEFINE t == CallRun[c]
             base == call[c].base
             m == UserMessage(t, CallText[c])
  <1>1. call[c].pc \in Saving /\ UNCHANGED stream
    BY DEF SaveTurn, redis, Saving
  <1>2. /\ t \in Turns /\ Extends(thread[Chat], base) /\ ~Holds(base, "user", t)
        /\ base \in Seq(Message) /\ Chat \in Threads
    BY <1>1, CallFields DEF Sound, CallerSound, Threads
  <1>3. m \in Message /\ m.role = "user" /\ m.run = t
    BY <1>2 DEF UserMessage, Message, Runs
  <1>4. CASE LengthMatches(Chat, Len(base)) /\ SaveThread(Chat, Append(base, m))
    <2>1. /\ thread' \in [Threads -> Seq(Message)] /\ ThreadsGrow /\ base = thread[Chat]
          /\ Stored(m) \in Message /\ thread'[Chat] = Append(thread[Chat], Stored(m))
          /\ \A x \in Threads \ {Chat} : thread'[x] = thread[x]
      BY <1>2, <1>3, <1>4, ThreadSaved
    <2>2. Stored(m).role = "user" /\ Stored(m).run = t
      BY <1>3, StoredMessage
    <2> QED
      BY <1>1, <1>2, <2>1, <2>2 DEF StoresTurn, Appends
  <1> QED
    BY <1>1, <1>4 DEF SaveTurn, WithTurn

LEMMA AnswerStored ==
  ASSUME TypeOK, Sound, NEW h \in Handlers, HSave(h)
  PROVE  UNCHANGED stream /\ (UNCHANGED thread \/ StoresAnswer)
PROOF
  <1> DEFINE r == hand[h].run
             base == hand[h].base
             th == ThreadOf(r)
             m == AssistantMessage(r)
  <1>1. hand[h].pc = "save" /\ UNCHANGED stream
    BY DEF HSave, redis
  <1>2. /\ HandlerSound(h) /\ r \in Runs /\ r \in Stateful
        /\ Extends(thread[th], base) /\ ~Holds(base, "assistant", r)
        /\ base \in Seq(Message) /\ th \in Threads
    BY <1>1, HandFields, ThreadOfRun DEF Sound, HandlerSound
  <1>3. m \in Message /\ m.role = "assistant" /\ m.run = r
    BY <1>2 DEF AssistantMessage, Message
  <1>4. r \in Turns => Holds(thread[Chat], "user", r)
    BY <1>1, <1>2 DEF HandlerSound, PromptOf, Holds
  <1>5. CASE LengthMatches(th, Len(base)) /\ SaveThread(th, Append(base, m))
    <2>1. /\ thread' \in [Threads -> Seq(Message)] /\ ThreadsGrow /\ base = thread[th]
          /\ Stored(m) \in Message /\ thread'[th] = Append(thread[th], Stored(m))
          /\ \A x \in Threads \ {th} : thread'[x] = thread[x]
      BY <1>2, <1>3, <1>5, ThreadSaved
    <2>2. Stored(m).role = "assistant" /\ Stored(m).run = r
      BY <1>3, StoredMessage
    <2> QED
      BY <1>1, <1>2, <1>4, <2>1, <2>2 DEF StoresAnswer, Appends
  <1> QED
    BY <1>1, <1>5 DEF HSave, WithAnswer

\* A run is told of its success when its answer, if it has a thread, is stored.
Announces ==
  /\ UNCHANGED thread
  /\ \E r \in Runs :
       /\ r \in Stateful => Holds(thread[ThreadOf(r)], "assistant", r)
       /\ \A x \in Runs \ {r} : HasEvent(stream'[x], "done") <=> HasEvent(stream[x], "done")
       /\ HasEvent(stream[r], "done") => HasEvent(stream'[r], "done")

\* A step that stores nothing announces no run but one whose answer is stored.
StoresNothing ==
  UNCHANGED thread /\ \A r \in Runs : HasEvent(stream'[r], "done") <=> HasEvent(stream[r], "done")

LEMMA EventsOf ==
  ASSUME TypeOK, NEW r \in Runs, NEW e \in Events, Published(r, e) \/ PublishFails(r, e)
  PROVE  \A x \in Runs : /\ HasEvent(stream[x], "done") => HasEvent(stream'[x], "done")
                         /\ x # r \/ e # "done" =>
                              (HasEvent(stream'[x], "done") => HasEvent(stream[x], "done"))
PROOF
  <1>1. /\ stream' \in [Runs -> Seq(Events)] /\ StreamsGrow
        /\ \A x \in Runs : HasEvent(stream'[x], "done") =>
                             HasEvent(stream[x], "done") \/ (x = r /\ "done" = e)
    <2>1. \A f : \A x \in Runs : HasEvent(stream'[x], f) => HasEvent(stream[x], f) \/ (x = r /\ f = e)
      BY PublishIs
    <2>2. stream' \in [Runs -> Seq(Events)] /\ StreamsGrow
      BY PublishIs
    <2> QED
      BY <2>1, <2>2
  <1>2. ASSUME NEW x \in Runs, HasEvent(stream[x], "done") PROVE HasEvent(stream'[x], "done")
    <2>1. stream[x] \in Seq(Events) /\ stream'[x] \in Seq(Events) /\ Extends(stream'[x], stream[x])
      BY <1>1 DEF TypeOK, StreamsGrow
    <2> QED
      BY <1>2, <2>1, EventStays
  <1> QED
    BY <1>1, <1>2

LEMMA StepStores ==
  ASSUME TypeOK, Sound, [Next]_vars
  PROVE  \/ StoresNothing \/ Announces
         \/ UNCHANGED stream /\ (StoresTurn \/ StoresAnswer)
PROOF
  <1>1. ASSUME UNCHANGED <<thread, stream>> PROVE StoresNothing
    BY <1>1 DEF StoresNothing
  <1>2. ASSUME SoftDelete \/ (\E r \in Runs : StreamExpires(r)) \/ UNCHANGED vars
        PROVE  UNCHANGED <<thread, stream>>
    BY <1>2 DEF SoftDelete, StreamExpires, vars, postgres, redis
  <1>3. ASSUME NEW s \in Slots, FireSchedule(s) \/ RevokeGrant(s) PROVE UNCHANGED <<thread, stream>>
    BY <1>3 DEF FireSchedule, RevokeGrant, postgres, redis
  <1>4. ASSUME NEW c \in Callers,
               \/ LoadTurn(c) \/ ReloadTurn(c) \/ Check(c) \/ Insert(c) \/ Start(c)
               \/ Receive(c) \/ FirstEventTimeout(c) \/ Disconnect(c) \/ CallerDies(c)
        PROVE  UNCHANGED <<thread, stream>>
    BY <1>4 DEF LoadTurn, ReloadTurn, Check, Insert, Start, Receive, FirstEventTimeout, Disconnect,
                CallerDies, CallerOnly, postgres, redis
  <1>5. ASSUME NEW h \in Handlers, NEW r \in Runs, Deliver(h, r) PROVE UNCHANGED <<thread, stream>>
    BY <1>5 DEF Deliver, postgres, redis
  <1>6. ASSUME NEW h \in Handlers,
               \/ HCheck(h) \/ HGrant(h) \/ HClaim(h) \/ HRun(h) \/ HThrows(h) \/ HSucceeds(h)
               \/ HLoad(h) \/ HFinalize(h) \/ HandlerDies(h) \/ Completes(h) \/ AnswerLost(h)
        PROVE  UNCHANGED <<thread, stream>>
    BY <1>6 DEF HCheck, HGrant, HClaim, HRun, HThrows, HSucceeds, HLoad, HFinalize, HandlerDies,
                Completes, AnswerLost, HandlerOnly, postgres, redis
  <1>7. ASSUME NEW h \in Handlers, HDelta(h) \/ HFails(h) \/ HReport(h) PROVE StoresNothing
    <2> DEFINE r == hand[h].run
    <2>1. UNCHANGED thread /\ hand[h].pc \in {"stream", "drain", "report"}
      BY <1>7 DEF HDelta, HFails, HReport, postgres
    <2>2. PICK e \in Events : e # "done" /\ (Published(r, e) \/ PublishFails(r, e))
      BY <1>7 DEF HDelta, HFails, HReport, Events
    <2>3. r \in Runs
      BY <2>1 DEF Sound, HandlerSound
    <2> QED
      BY <2>1, <2>2, <2>3, EventsOf DEF StoresNothing
  <1>8. ASSUME NEW h \in Handlers, HPublish(h) PROVE Announces
    <2> DEFINE r == hand[h].run
    <2>1. UNCHANGED thread /\ hand[h].pc = "publish" /\ (Published(r, "done") \/ PublishFails(r, "done"))
      BY <1>8 DEF HPublish, postgres
    <2>2. r \in Runs /\ (r \in Stateful => Holds(thread[ThreadOf(r)], "assistant", r)) /\ "done" \in Events
      BY <2>1 DEF Sound, HandlerSound, Events
    <2>3. \A x \in Runs : /\ HasEvent(stream[x], "done") => HasEvent(stream'[x], "done")
                          /\ x # r => (HasEvent(stream'[x], "done") => HasEvent(stream[x], "done"))
      BY <2>1, <2>2, EventsOf
    <2> QED
      BY <2>1, <2>2, <2>3 DEF Announces
  <1>9. ASSUME NEW c \in Callers, SaveTurn(c)
        PROVE  StoresNothing \/ (UNCHANGED stream /\ StoresTurn)
    BY <1>1, <1>9, TurnStored
  <1>10. ASSUME NEW h \in Handlers, HSave(h)
         PROVE  StoresNothing \/ (UNCHANGED stream /\ StoresAnswer)
    BY <1>1, <1>10, AnswerStored
  <1> QED
    BY <1>1, <1>2, <1>3, <1>4, <1>5, <1>6, <1>7, <1>8, <1>9, <1>10
       DEF Next, CallerStep, HandlerStep

\* A message that is stored is never lost, moved or changed.
THEOREM ThreadGrows == Spec => ThreadOnlyGrows
PROOF
  <1> DEFINE Grown == \A th \in Threads :
               /\ Len(thread[th]) <= Len(thread'[th])
               /\ SubSeq(thread'[th], 1, Len(thread[th])) = thread[th]
  <1>1. ASSUME TypeOK, Sound, [Next]_vars PROVE Grown
    <2>1. thread' \in [Threads -> Seq(Message)] /\ ThreadsGrow
      BY <1>1, StepStores, Unmoved
         DEF StoresNothing, Announces, StoresTurn, StoresAnswer, Appends, TypeOK
    <2>2. \A s, t \in Seq(Message) : Extends(t, s) => Len(s) <= Len(t) /\ SubSeq(t, 1, Len(s)) = s
      BY DEF Extends
    <2> QED
      BY <1>1, <2>1, <2>2 DEF ThreadsGrow, TypeOK
  <1>2. TypeOK /\ Sound /\ [Next]_vars => [Grown]_vars
    BY <1>1
  <1> HIDE DEF Grown
  <1>3. Spec => [][Grown]_vars
    BY <1>2, SoundInvariant, PTL DEF Spec
  <1> QED
    BY <1>3 DEF ThreadOnlyGrows, Grown

-----------------------------------------------------------------------------
(* The chat: what the variables of ChatTurns are here *)

Asked == {t \in Turns : Holds(thread[Chat], "user", t)}
Answered == {t \in Turns : Holds(thread[Chat], "assistant", t)}
Announced == {t \in Turns : StreamHolds(t, "done")}

LEMMA ChatInitIs == Asked = {} /\ Answered = {} /\ Announced = {} => ChatTurnsOf!Init
PROOF
  BY DEF ChatTurnsOf!Init, Asked, Answered, Announced

LEMMA ChatStutters == UNCHANGED <<Asked, Answered, Announced>> => UNCHANGED ChatTurnsOf!vars
PROOF
  BY DEF ChatTurnsOf!vars, Asked, Answered, Announced

LEMMA AskIs ==
  ASSUME NEW t \in Turns, t \notin Asked, Asked' = Asked \cup {t}, UNCHANGED <<Answered, Announced>>
  PROVE  ChatTurnsOf!Next
PROOF
  BY DEF ChatTurnsOf!Next, ChatTurnsOf!Ask, Asked, Answered, Announced

LEMMA AnswerIs ==
  ASSUME NEW t \in Turns, t \in Asked \ Answered, Answered' = Answered \cup {t},
         UNCHANGED <<Asked, Announced>>
  PROVE  ChatTurnsOf!Next
PROOF
  BY DEF ChatTurnsOf!Next, ChatTurnsOf!Answer, Asked, Answered, Announced

LEMMA AnnounceIs ==
  ASSUME NEW t \in Turns, t \in Answered \ Announced, Announced' = Announced \cup {t},
         UNCHANGED <<Asked, Answered>>
  PROVE  ChatTurnsOf!Next
PROOF
  BY DEF ChatTurnsOf!Next, ChatTurnsOf!Announce, Asked, Answered, Announced

LEMMA AnnouncedHas ==
  /\ \A t \in Turns : t \in Announced <=> HasEvent(stream[t], "done")
  /\ \A t \in Turns : t \in Announced' <=> HasEvent(stream'[t], "done")
  /\ Announced \subseteq Turns /\ Announced' \subseteq Turns
PROOF
  BY DEF Announced, StreamHolds, HasEvent

\* What is stored in the thread of the chat is asked, or answered.
LEMMA ChatAppends ==
  ASSUME TypeOK, NEW m \in Message, Appends(Chat, m)
  PROVE  \A role, t : Holds(thread'[Chat], role, t)
                        <=> Holds(thread[Chat], role, t) \/ (role = m.role /\ t = m.run)
PROOF
  <1>1. thread[Chat] \in Seq(Message)
    BY DEF TypeOK, Threads
  <1>2. \A role, t : Holds(Append(thread[Chat], m), role, t)
                       <=> Holds(thread[Chat], role, t) \/ (role = m.role /\ t = m.run)
    BY <1>1, HoldsAppended
  <1> QED
    BY <1>2 DEF Appends

LEMMA ChatStep ==
  ASSUME TypeOK, Sound, [Next]_vars PROVE [ChatTurnsOf!Next]_(ChatTurnsOf!vars)
PROOF
  <1>1. ASSUME UNCHANGED thread PROVE UNCHANGED <<Asked, Answered>>
    BY <1>1 DEF Asked, Answered
  <1>2. ASSUME UNCHANGED stream PROVE UNCHANGED Announced
    BY <1>2 DEF Announced, StreamHolds
  <1>3. CASE StoresNothing
    <2>1. UNCHANGED Announced
      <3>1. \A t \in Turns : HasEvent(stream'[t], "done") <=> HasEvent(stream[t], "done")
        BY <1>3 DEF StoresNothing, Runs
      <3> QED
        BY <3>1, AnnouncedHas
    <2> QED
      BY <1>1, <1>3, <2>1, ChatStutters DEF StoresNothing
  <1>4. CASE Announces
    <2>1. UNCHANGED <<Asked, Answered>>
      BY <1>1, <1>4 DEF Announces
    <2>2. PICK r \in Runs :
            /\ r \in Stateful => Holds(thread[ThreadOf(r)], "assistant", r)
            /\ \A x \in Runs \ {r} : HasEvent(stream'[x], "done") <=> HasEvent(stream[x], "done")
            /\ HasEvent(stream[r], "done") => HasEvent(stream'[r], "done")
      BY <1>4 DEF Announces
    <2>3. CASE r \in Turns /\ HasEvent(stream'[r], "done") /\ ~HasEvent(stream[r], "done")
      <3>1. r \in Answered \ Announced
        BY <2>2, <2>3, AnnouncedHas DEF Answered, Stateful, ThreadOf
      <3>2. Announced' = Announced \cup {r}
        <4>1. \A t \in Turns \ {r} : t \in Announced' <=> t \in Announced
          BY <2>2, AnnouncedHas DEF Runs
        <4>2. r \in Announced'
          BY <2>3, AnnouncedHas
        <4> QED
          BY <2>3, <4>1, <4>2, AnnouncedHas
      <3> QED
        BY <2>1, <2>3, <3>1, <3>2, AnnounceIs
    <2>4. CASE ~(r \in Turns /\ HasEvent(stream'[r], "done") /\ ~HasEvent(stream[r], "done"))
      <3>1. \A t \in Turns : t \in Announced' <=> t \in Announced
        BY <2>2, <2>4, AnnouncedHas DEF Runs
      <3>2. UNCHANGED Announced
        BY <3>1, AnnouncedHas
      <3> QED
        BY <2>1, <3>2, ChatStutters
    <2> QED
      BY <2>3, <2>4
  <1>5. CASE UNCHANGED stream /\ StoresTurn
    <2>1. PICK m \in Message : Appends(Chat, m) /\ m.role = "user" /\ m.run \in Turns
      BY <1>5 DEF StoresTurn
    <2>2. \A role, t : Holds(thread'[Chat], role, t)
                         <=> Holds(thread[Chat], role, t) \/ (role = m.role /\ t = m.run)
      BY <2>1, ChatAppends
    <2>3. PICK t \in Turns : t = m.run
      BY <2>1
    <2>4. t \notin Asked /\ Asked' = Asked \cup {t}
      BY <2>1, <2>2, <2>3 DEF Asked, Appends
    <2>5. UNCHANGED Answered
      BY <2>1, <2>2 DEF Answered
    <2> QED
      BY <1>2, <1>5, <2>4, <2>5, AskIs
  <1>6. CASE UNCHANGED stream /\ StoresAnswer
    <2>1. PICK m \in Message :
            /\ Appends(ThreadOf(m.run), m) /\ m.role = "assistant" /\ m.run \in Stateful
            /\ m.run \in Turns => Holds(thread[Chat], "user", m.run)
      BY <1>6 DEF StoresAnswer
    <2>2. CASE m.run \in Turns
      <3>1. Appends(Chat, m)
        BY <2>1, <2>2 DEF ThreadOf
      <3>2. \A role, t : Holds(thread'[Chat], role, t)
                           <=> Holds(thread[Chat], role, t) \/ (role = m.role /\ t = m.run)
        BY <3>1, ChatAppends
      <3>3. PICK t \in Turns : t = m.run
        BY <2>2
      <3>4. t \in Asked \ Answered /\ Answered' = Answered \cup {t}
        BY <2>1, <3>1, <3>2, <3>3 DEF Asked, Answered, Appends
      <3>5. UNCHANGED Asked
        BY <2>1, <3>2 DEF Asked
      <3> QED
        BY <1>2, <1>6, <3>4, <3>5, AnswerIs
    <2>3. CASE m.run \notin Turns
      <3>1. ThreadOf(m.run) = m.run /\ m.run # Chat /\ Chat \in Threads
        BY <2>1, <2>3 DEF ThreadOf, Stateful, Threads
      <3>2. thread'[Chat] = thread[Chat]
        BY <2>1, <3>1 DEF Appends
      <3>3. UNCHANGED <<Asked, Answered>>
        BY <3>2 DEF Asked, Answered
      <3> QED
        BY <1>2, <1>6, <3>3, ChatStutters
    <2> QED
      BY <2>2, <2>3
  <1> QED
    BY <1>3, <1>4, <1>5, <1>6, StepStores

LEMMA ChatInit == Init => ChatTurnsOf!Init
PROOF
  <1> SUFFICES ASSUME Init PROVE ChatTurnsOf!Init
    OBVIOUS
  <1>1. thread[Chat] = <<>> /\ \A t \in Turns : stream[t] = <<>>
    BY DEF Init, Threads, Runs
  <1>2. Asked = {} /\ Answered = {}
    BY <1>1 DEF Asked, Answered, Holds
  <1>3. Announced = {}
    BY <1>1 DEF Announced, StreamHolds
  <1> QED
    BY <1>2, <1>3, ChatInitIs

\* The threads and the streams keep the order the chat promises: asked, answered, announced.
THEOREM ChatIsOrdered == Spec => ImplementsChatTurns
PROOF
  <1>1. Init => ChatTurnsOf!Init
    BY ChatInit
  <1>2. TypeOK /\ Sound /\ [Next]_vars => [ChatTurnsOf!Next]_(ChatTurnsOf!vars)
    BY ChatStep
  <1>3. Spec => ChatTurnsOf!Spec
    BY <1>1, <1>2, SoundInvariant, PTL DEF Spec, ChatTurnsOf!Spec
  <1> QED
    BY <1>3 DEF ImplementsChatTurns

=============================================================================
