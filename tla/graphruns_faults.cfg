\* A turn and a slot, two deliveries at a time, Redis faults, a death, expiry, a deleted thread.
CONSTANTS
  c1 = c1
  c2 = c2
  c3 = c3
  h1 = h1
  h2 = h2
  t1 = t1
  t2 = t2
  k1 = k1
  s1 = s1
  Turns = {t1}
  Completions = {}
  Slots = {s1}
  Callers = {c1}
  CallRun <- OneCaller
  CallText <- OneText
  Texts = {"hello", "bye", "key"}
  Secrets = {"key"}
  Redacted = "redacted"
  Handlers = {h1, h2}
  MaxPersistAttempts = 2
  MaxThreadMessages = 4
  MaxFaults = 1
  MaxCrashes = 1
  StreamsExpire = TRUE
  ThreadsDeleted = TRUE
  Chat = chat
  None = None
SPECIFICATION Spec
SYMMETRY HandlerSymmetry
INVARIANTS
  TypeOK
  MessagesOnce
  DoneIsDurable
  SuccessWasPublished
  SlotRunsOnce
CHECK_DEADLOCK FALSE
