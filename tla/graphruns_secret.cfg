\* A turn whose text holds a credential, and its exact retry.
CONSTANTS
  c1 = c1
  c2 = c2
  c3 = c3
  h1 = h1
  h2 = h2
  t1 = t1
  t2 = t2
  k1 = k1
  s1 = s1
  Turns = {t1}
  Completions = {}
  Slots = {}
  Callers = {c1, c2}
  CallRun <- OneTurn
  CallText <- SecretText
  Texts = {"hello", "bye", "key"}
  Secrets = {"key"}
  Redacted = "redacted"
  Handlers = {h1, h2}
  MaxPersistAttempts = 2
  MaxThreadMessages = 4
  MaxFaults = 0
  MaxCrashes = 0
  StreamsExpire = FALSE
  ThreadsDeleted = FALSE
  Chat = chat
  None = None
SPECIFICATION Spec
SYMMETRY HandlerSymmetry
INVARIANTS
  ExactRetryIsAccepted
CHECK_DEADLOCK FALSE
