\* A turn, its exact retry and another turn of the thread; one delivery at a time, a process dies.
CONSTANTS
  c1 = c1
  c2 = c2
  c3 = c3
  h1 = h1
  h2 = h2
  t1 = t1
  t2 = t2
  k1 = k1
  s1 = s1
  Turns = {t1, t2}
  Completions = {}
  Slots = {}
  Callers = {c1, c2, c3}
  CallRun <- RetryAndTurn
  CallText <- RetryAndText
  Texts = {"hello", "bye", "key"}
  Secrets = {"key"}
  Redacted = "redacted"
  Handlers = {h1}
  MaxPersistAttempts = 2
  MaxThreadMessages = 4
  MaxFaults = 0
  MaxCrashes = 1
  StreamsExpire = FALSE
  ThreadsDeleted = FALSE
  Chat = chat
  None = None
SPECIFICATION Spec
INVARIANTS
  ClaimIsThreadPrefix
PROPERTIES
  ThreadOnlyGrows
  ImplementsChatTurns
CHECK_DEADLOCK FALSE
