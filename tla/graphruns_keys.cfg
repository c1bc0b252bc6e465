\* Two completions with one idempotency key and different texts; a process dies, a command is lost.
CONSTANTS
  c1 = c1
  c2 = c2
  c3 = c3
  h1 = h1
  h2 = h2
  t1 = t1
  t2 = t2
  k1 = k1
  s1 = s1
  Turns = {}
  Completions = {k1}
  Slots = {}
  Callers = {c1, c2}
  CallRun <- OneKey
  CallText <- TwoTexts
  Texts = {"hello", "bye", "key"}
  Secrets = {"key"}
  Redacted = "redacted"
  Handlers = {h1, h2}
  MaxPersistAttempts = 2
  MaxThreadMessages = 4
  MaxFaults = 1
  MaxCrashes = 1
  StreamsExpire = FALSE
  ThreadsDeleted = FALSE
  Chat = chat
  None = None
SPECIFICATION DeliveringSpec
INVARIANTS
  RunsWhatWasClaimed
PROPERTIES
  ListenersEnd
CHECK_DEADLOCK FALSE
