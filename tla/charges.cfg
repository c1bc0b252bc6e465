\* Three LiteLLM calls and two calls of the user's own provider, two reports at a time,
\* a deposit, and a failed write or transfer or a restart.
CONSTANTS
  p1 = p1
  p2 = p2
  p3 = p3
  b1 = b1
  b2 = b2
  r1 = r1
  r2 = r2
  u1 = u1
  system = system
  d1 = d1
  h1 = h1
  h2 = h2
  Calls = {p1, p2, p3, b1, b2}
  Byo = {b1, b2}
  Runs = {r1, r2}
  RunOf <- RunOfCall
  Account <- AccountOf
  Price <- PriceOf
  Accounts = {u1, system}
  SystemAccount = system
  Deposits = {d1}
  Beneficiary <- Payee
  Amount <- Bought
  Opening = 1
  Handlers = {h1, h2}
  MaxBatch = 2
  MaxReports = 2
  MaxFaults = 1
  None = None
SPECIFICATION Spec
SYMMETRY HandlersAreAlike
INVARIANTS
  LedgerExplainsBalance
  ProcessedIsCharged
  MirrorFollowsReceipts
PROPERTIES
  ImplementsUsageMeter
CHECK_DEADLOCK FALSE
