\* Two liabilities of two epochs, two reconcilers, two approvers, one death.
CONSTANTS
  l1 = l1
  l2 = l2
  e1 = e1
  e2 = e2
  u1 = u1
  u2 = u2
  u3 = u3
  i1 = i1
  Liabilities = {l1, l2}
  Epochs = {e1, e2}
  Source <- SourceOf
  Claimant <- ClaimantOf
  Amount <- AmountOwed
  Users = {u1, u2, u3}
  WalletUsers = {u1, u2}
  Identities = {i1}
  Reconcilers = {r1, r2}
  Approvers = {p1, p2}
  MaxAttempts = 2
  MaxDeaths = 1
  None = None
SPECIFICATION CollectingSpec
INVARIANTS
  TypeOK
  LeavesAccountForSettled
  MintedMatchesLiveRoot
PROPERTIES
  LiveRootAdvances
  ImplementsPayouts
  ResolvableSettles
