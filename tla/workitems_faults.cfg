\* A create, a patch and a delete of one item, with one failure and two
\* writes or merges of others on the same main.
CONSTANTS
  create = create
  patch = patch
  claim = claim
  renew = renew
  yield = yield
  drop = drop
  steal = steal
  ann = ann
  bob = bob
  r1 = r1
  r2 = r2
  p1 = p1
  p2 = p2
  Ops = {create, patch, drop}
  Kind <- KindOf
  Target <- TargetOf
  Principal <- CallerOf
  RunId <- RunOf
  MaxItem = 2
  LeaseTTL = 1
  None = None
  Processes = {p1, p2}
  MergeRetries = 2
  MaxTime = 0
  MaxFaults = 1
  MaxForeign = 2
SPECIFICATION FairSpec
INVARIANTS
  TypeOK
  RefusalLeavesNoTrace
  SuccessIsOnMain
PROPERTIES
  CallsEnd
CHECK_DEADLOCK FALSE
