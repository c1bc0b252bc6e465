\* Ann creates an item, claims it, renews and releases her lease, Bob claims
\* it, with one failure and time to outrun a lease twice.
CONSTANTS
  create = create
  patch = patch
  claim = claim
  renew = renew
  yield = yield
  drop = drop
  steal = steal
  ann = ann
  bob = bob
  r1 = r1
  r2 = r2
  p1 = p1
  p2 = p2
  Ops = {create, claim, renew, yield, steal}
  Kind <- KindOf
  Target <- TargetOf
  Principal <- CallerOf
  RunId <- RunOf
  MaxItem = 2
  LeaseTTL = 1
  None = None
  Processes = {p1, p2}
  MergeRetries = 2
  MaxTime = 2
  MaxFaults = 1
  MaxForeign = 0
SYMMETRY ProcessesAreAlike
SPECIFICATION Spec
INVARIANTS
  AppliedOnce
  NoBranchSweptAway
PROPERTIES
  LiveLeaseIsKept
  ImplementsWorkBoard
CHECK_DEADLOCK FALSE
