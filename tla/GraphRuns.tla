------------------------------ MODULE GraphRuns ------------------------------
(***************************************************************************)
(* Graph runs: how a chat turn, an API completion or a schedule slot is    *)
(* claimed, started as a Temporal workflow, executed by the internal run   *)
(* route, written to its thread and streamed to its subscribers.           *)
(*                                                                         *)
(* A caller is one HTTP request of the chat route or of the completions    *)
(* route; a handler is one delivery of the internal run route by Temporal, *)
(* which delivers at least once.  Each await of either is one action.      *)
(* Postgres holds the threads and the execution requests, Redis the event  *)
(* stream of each run.  Either process may die at any await, and a Redis   *)
(* command may be lost, or applied with its answer lost.                   *)
(***************************************************************************)
EXTENDS Integers, Sequences

CONSTANTS
  Turns,              \* chat turns (message ids) of one thread
  Completions,        \* API completions: idempotency keys with no thread
  Slots,              \* schedule slots (scheduleId:scheduledFor)
  Callers,            \* HTTP requests
  CallRun,            \* the turn or completion each caller asks for
  CallText,           \* the text each caller sends
  Texts,              \* texts of messages
  Secrets,            \* texts that hold a credential
  Redacted,           \* what redaction makes of them
  Handlers,           \* deliveries of the internal run route
  MaxPersistAttempts, \* maxAttempts of persistAssistantThenPublishTerminal
  MaxThreadMessages,  \* MAX_THREAD_MESSAGES
  MaxFaults,          \* bound: faults of Redis and of Temporal's start
  MaxCrashes,         \* bound: deaths of callers and handlers
  StreamsExpire,      \* whether the TTL of a stream may elapse
  ThreadsDeleted,     \* whether a user may delete the thread
  Chat,               \* the thread of the turns
  None                \* SQL NULL

Runs == Turns \cup Completions \cup Slots

(* What the request hash of a run covers, and the row that claims the run. *)
Answer == "answer"
Prompts == Seq(Texts \cup {Redacted, Answer})
ExecutionRequest == [hash: Prompts, ok: BOOLEAN \cup {None}]

ASSUME GraphRunsAssumption ==
  /\ CallRun \in [Callers -> Turns \cup Completions]
  /\ CallText \in [Callers -> Texts]
  /\ Secrets \subseteq Texts /\ Redacted \notin Secrets
  /\ Turns \cap Completions = {} /\ Turns \cap Slots = {}
  /\ Completions \cap Slots = {} /\ Chat \notin Slots
  /\ MaxPersistAttempts \in Nat \ {0} /\ MaxThreadMessages \in Nat
  /\ MaxFaults \in Nat /\ MaxCrashes \in Nat
  /\ StreamsExpire \in BOOLEAN /\ ThreadsDeleted \in BOOLEAN
  /\ None \notin BOOLEAN /\ None \notin ExecutionRequest

VARIABLES
  thread,   \* table ai_threads: messages of each thread
  deleted,  \* ai_threads.deleted_at is set
  request,  \* table execution_requests, by run
  workflow, \* the Temporal workflow of each run
  granted,  \* the execution grant of a slot is valid
  stream,   \* every event ever added to the Redis stream of a run
  dropped,  \* how many of them the TTL has removed
  ttl,      \* the stream has a TTL
  call,     \* the local state of each caller
  hand,     \* the local state of each handler
  faults, crashes

vars == <<thread, deleted, request, workflow, granted, stream, dropped, ttl,
          call, hand, faults, crashes>>
postgres == <<thread, deleted, request, granted>>
redis == <<stream, dropped, ttl>>

-----------------------------------------------------------------------------
(* Data *)

(* A turn is stored in the thread of its state key, a slot in a thread of  *)
(* its own; a completion without a state key has none.                     *)
Stateful == Turns \cup Slots
Threads == {Chat} \cup Slots
ThreadOf(r) == IF r \in Turns THEN Chat ELSE r

Message ==
  [role: {"user", "assistant"}, run: Runs, text: Texts \cup {Redacted, Answer},
   digest: Texts \cup {None}]
UserMessage(t, text) ==
  [role |-> "user", run |-> t, text |-> text, digest |-> text]
AssistantMessage(r) ==
  [role |-> "assistant", run |-> r, text |-> Answer, digest |-> None]

Redact(text) == IF text \in Secrets THEN Redacted ELSE text
RedactAll(msgs) == [i \in DOMAIN msgs |-> [msgs[i] EXCEPT !.text = Redact(@)]]

Holds(msgs, role, r) ==
  \E i \in DOMAIN msgs : msgs[i].role = role /\ msgs[i].run = r
TurnIndex(msgs, t) ==
  CHOOSE i \in DOMAIN msgs : msgs[i].role = "user" /\ msgs[i].run = t
Contents(msgs) == [i \in DOMAIN msgs |-> msgs[i].text]

(* The request hash of a turn covers the thread up to and including the    *)
(* turn, that of a completion its text, that of a slot its fixed input.    *)
PromptUpTo(msgs, t) == Contents(SubSeq(msgs, 1, TurnIndex(msgs, t)))
SlotPrompt == <<>>

Pending(hash) == [hash |-> hash, ok |-> None]

Workflow == [state: {"none", "running", "closed"}, prompt: Prompts]

Events == {"delta", "done", "error"}

CallerEnds == {"done", "error", "timeout", "aborted", "turnMismatch",
               "threadConflict", "idempotencyConflict", "failed", "crashed"}
CallerPCs == {"load", "save", "reload", "resave", "check", "insert",
              "recheck", "start", "listen"} \cup CallerEnds
Call == [pc: CallerPCs, base: Seq(Message), prompt: Prompts, pos: Nat]
CallAt(pc, base, prompt, pos) ==
  [pc |-> pc, base |-> base, prompt |-> prompt, pos |-> pos]

HandlerPCs == {"idle", "check", "grant", "claim", "run", "stream", "drain",
               "load", "save", "publish", "report", "finalize", "answered",
               "refused", "over", "crashed"}
Hand ==
  [pc: HandlerPCs, run: Runs \cup {None}, prompt: Prompts, base: Seq(Message),
   tries: 0 .. MaxPersistAttempts + 1, ok: BOOLEAN, ran: BOOLEAN]
HandAt(pc, r, prompt, base, tries, ok, ran) ==
  [pc |-> pc, run |-> r, prompt |-> prompt, base |-> base, tries |-> tries,
   ok |-> ok, ran |-> ran]
Free == HandAt("idle", None, <<>>, <<>>, 0, FALSE, FALSE)

-----------------------------------------------------------------------------
Init ==
  /\ thread = [th \in Threads |-> <<>>]
  /\ deleted = [th \in Threads |-> FALSE]
  /\ request = [r \in Runs |-> None]
  /\ workflow = [r \in Runs |-> [state |-> "none", prompt |-> <<>>]]
  /\ granted = [s \in Slots |-> TRUE]
  /\ stream = [r \in Runs |-> <<>>]
  /\ dropped = [r \in Runs |-> 0]
  /\ ttl = [r \in Runs |-> FALSE]
  /\ call = [c \in Callers |->
               IF CallRun[c] \in Turns THEN CallAt("load", <<>>, <<>>, 0)
               ELSE CallAt("check", <<>>, <<CallText[c]>>, 0)]
  /\ hand = [h \in Handlers |-> Free]
  /\ faults = 0 /\ crashes = 0

-----------------------------------------------------------------------------
(* Threads: DrizzleThreadPersistenceAdapter *)

LoadThread(th) == IF deleted[th] THEN <<>> ELSE thread[th]

(* The UPDATE applies when the stored length is the one that was loaded;   *)
(* the INSERT of an empty thread conflicts with a row that exists, deleted *)
(* or not.                                                                 *)
LengthMatches_NotChecked(th, n) == ~deleted[th]
LengthMatches(th, n) == ~deleted[th] /\ Len(thread[th]) = n
Fits(msgs) == Len(msgs) <= MaxThreadMessages

SaveThread(th, msgs) == thread' = [thread EXCEPT ![th] = RedactAll(msgs)]

SoftDelete ==
  /\ ThreadsDeleted
  /\ thread[Chat] # <<>> /\ ~deleted[Chat]
  /\ deleted' = [deleted EXCEPT ![Chat] = TRUE]
  /\ UNCHANGED <<thread, request, granted, workflow, redis, call, hand,
                 faults, crashes>>

-----------------------------------------------------------------------------
(* Redis: a command is applied, or fails, applied or not (faults). *)

Publish(r, e) == stream' = [stream EXCEPT ![r] = Append(@, e)]

Published(r, e) ==
  /\ Publish(r, e)
  /\ UNCHANGED faults
PublishFails(r, e) ==
  /\ faults < MaxFaults
  /\ faults' = faults + 1
  /\ \/ Publish(r, e)
     \/ UNCHANGED stream

(* The EXPIRE that follows a terminal event. *)
SetTTL(r) == ttl' = [ttl EXCEPT ![r] = StreamsExpire]

Expired(r) == Len(stream[r])

StreamExpires(r) ==
  /\ ttl[r]
  /\ ttl' = [ttl EXCEPT ![r] = FALSE]
  /\ dropped' = [dropped EXCEPT ![r] = Expired(r)]
  /\ UNCHANGED <<postgres, workflow, stream, call, hand, faults, crashes>>

-----------------------------------------------------------------------------
(* A caller: the chat route up to completionStream *)

Goto(c, pc) == call' = [call EXCEPT ![c].pc = pc]
CallerOnly == UNCHANGED <<postgres, workflow, redis, hand, faults, crashes>>

(* A stored turn must come from the same envelope; the digest is of the    *)
(* original text, so redaction does not hide a changed one.                *)
SameTurn(msgs, c) ==
  \E i \in DOMAIN msgs : /\ msgs[i].role = "user"
                         /\ msgs[i].run = CallRun[c]
                         /\ msgs[i].digest = CallText[c]

(* A turn that is stored is not saved again: the prompt is what the thread *)
(* holds up to it.  A new turn is appended to the thread as loaded.        *)
Loaded_NotSaved(c, msgs, next) ==
  call' = [call EXCEPT ![c] =
    CallAt("check", <<>>, Append(Contents(msgs), CallText[c]), 0)]
Loaded(c, msgs, next) ==
  call' = [call EXCEPT ![c] =
             IF ~Holds(msgs, "user", CallRun[c])
               THEN CallAt(next, msgs, <<>>, 0)
             ELSE IF SameTurn(msgs, c)
               THEN CallAt("check", <<>>, PromptUpTo(msgs, CallRun[c]), 0)
             ELSE CallAt("turnMismatch", <<>>, <<>>, 0)]

LoadTurn(c) ==
  /\ call[c].pc = "load"
  /\ Loaded(c, LoadThread(Chat), "save")
  /\ CallerOnly

ReloadTurn(c) ==
  /\ call[c].pc = "reload"
  /\ Loaded(c, LoadThread(Chat), "resave")
  /\ CallerOnly

WithTurn(c) ==
  Append(call[c].base, UserMessage(CallRun[c], CallText[c]))

SaveTurn(c) ==
  /\ call[c].pc \in {"save", "resave"}
  /\ UNCHANGED <<deleted, request, granted, workflow, redis, hand, faults,
                 crashes>>
  /\ \/ /\ ~Fits(WithTurn(c))
        /\ Goto(c, "failed")
        /\ UNCHANGED thread
     \/ /\ Fits(WithTurn(c)) /\ LengthMatches(Chat, Len(call[c].base))
        /\ SaveThread(Chat, WithTurn(c))
        /\ call' = [call EXCEPT ![c] =
             CallAt("check", <<>>, PromptUpTo(WithTurn(c), CallRun[c]), 0)]
     \/ /\ Fits(WithTurn(c)) /\ ~LengthMatches(Chat, Len(call[c].base))
        /\ Goto(c, IF call[c].pc = "save" THEN "reload" ELSE "threadConflict")
        /\ UNCHANGED thread

-----------------------------------------------------------------------------
(* A caller: completionStream *)

(* checkIdempotency *)
CheckIdempotency_AnyHash(r, hash) ==
  CASE request[r] = None -> "new"
    [] request[r] # None /\ request[r].ok = None -> "pending"
    [] OTHER -> "cached"
CheckIdempotency(r, hash) ==
  CASE request[r] = None -> "new"
    [] request[r] # None /\ request[r].hash # hash -> "mismatch"
    [] request[r] # None /\ request[r].hash = hash /\ request[r].ok = None ->
         "pending"
    [] OTHER -> "cached"

(* createPendingRequest fails when the primary key is taken. *)
CreatePending(r, hash) ==
  request' = [request EXCEPT ![r] = IF @ = None THEN Pending(hash) ELSE @]

Check(c) ==
  /\ call[c].pc \in {"check", "recheck"}
  /\ Goto(c, CASE CheckIdempotency(CallRun[c], call[c].prompt) = "new" ->
                    IF call[c].pc = "check" THEN "insert" ELSE "failed"
               [] CheckIdempotency(CallRun[c], call[c].prompt) = "mismatch" ->
                    "idempotencyConflict"
               [] OTHER -> "start")
  /\ CallerOnly

Insert(c) ==
  /\ call[c].pc = "insert"
  /\ CreatePending(CallRun[c], call[c].prompt)
  /\ Goto(c, "recheck")
  /\ UNCHANGED <<thread, deleted, granted, workflow, redis, hand, faults,
                 crashes>>

(* Temporal starts a workflow unless one of this id is running; a start it *)
(* refuses for that reason is taken as accepted.                           *)
StartWorkflow(r, prompt) ==
  workflow' = [workflow EXCEPT ![r] =
                 IF @.state = "running" THEN @
                 ELSE [state |-> "running", prompt |-> prompt]]

Start(c) ==
  /\ call[c].pc = "start"
  /\ \/ /\ StartWorkflow(CallRun[c], call[c].prompt)
        /\ call' = [call EXCEPT ![c] = CallAt("listen", <<>>, <<>>, 0)]
        /\ UNCHANGED faults
     \/ /\ faults < MaxFaults
        /\ faults' = faults + 1
        /\ Goto(c, "failed")
        /\ UNCHANGED workflow
  /\ UNCHANGED <<postgres, redis, hand, crashes>>

(* The subscription reads the stream from its first entry on. *)
NextEntry(c) ==
  IF call[c].pos < dropped[CallRun[c]] THEN dropped[CallRun[c]] + 1
  ELSE call[c].pos + 1

Receive(c) ==
  /\ call[c].pc = "listen"
  /\ NextEntry(c) <= Len(stream[CallRun[c]])
  /\ LET e == stream[CallRun[c]][NextEntry(c)] IN
       call' = [call EXCEPT ![c] =
                  CallAt(IF e = "delta" THEN "listen" ELSE e, <<>>, <<>>,
                         NextEntry(c))]
  /\ CallerOnly

(* Only the first event has a deadline. *)
FirstEventTimeout(c) ==
  /\ call[c].pc = "listen" /\ call[c].pos = 0
  /\ Goto(c, "timeout")
  /\ CallerOnly

Disconnect(c) ==
  /\ call[c].pc = "listen"
  /\ Goto(c, "aborted")
  /\ CallerOnly

CallerDies(c) ==
  /\ call[c].pc \notin CallerEnds
  /\ crashes < MaxCrashes
  /\ crashes' = crashes + 1
  /\ Goto(c, "crashed")
  /\ UNCHANGED <<postgres, workflow, redis, hand, faults>>

CallerStep(c) ==
  \/ LoadTurn(c) \/ ReloadTurn(c) \/ SaveTurn(c)
  \/ Check(c) \/ Insert(c) \/ Start(c)
  \/ Receive(c) \/ FirstEventTimeout(c)

-----------------------------------------------------------------------------
(* Temporal: it fires schedules and delivers running workflows to the run  *)
(* route until a delivery is answered.                                     *)

FireSchedule(s) ==
  /\ workflow[s].state = "none"
  /\ StartWorkflow(s, SlotPrompt)
  /\ UNCHANGED <<postgres, redis, call, hand, faults, crashes>>

RevokeGrant(s) ==
  /\ granted[s]
  /\ granted' = [granted EXCEPT ![s] = FALSE]
  /\ UNCHANGED <<thread, deleted, request, workflow, redis, call, hand, faults,
                 crashes>>

Deliver(h, r) ==
  /\ hand[h].pc = "idle" /\ workflow[r].state = "running"
  /\ hand' = [hand EXCEPT ![h] =
                HandAt("check", r, workflow[r].prompt, <<>>, 0, FALSE, FALSE)]
  /\ UNCHANGED <<postgres, workflow, redis, call, faults, crashes>>

(* The answer of a delivery reaches Temporal, or it is lost; a refusal may *)
(* be retried or end the workflow.                                         *)
Completes(h) ==
  /\ hand[h].pc \in {"answered", "refused"}
  /\ hand' = [hand EXCEPT ![h].pc = "over"]
  /\ workflow' = [workflow EXCEPT ![hand[h].run].state = "closed"]
  /\ UNCHANGED <<postgres, redis, call, faults, crashes>>

AnswerLost(h) ==
  /\ hand[h].pc \in {"answered", "refused"}
  /\ hand' = [hand EXCEPT ![h].pc = "over"]
  /\ UNCHANGED <<postgres, workflow, redis, call, faults, crashes>>

-----------------------------------------------------------------------------
(* A handler: POST /api/internal/graphs/{graphId}/runs *)

Move(h, pc) == hand' = [hand EXCEPT ![h].pc = pc]
HandlerOnly == UNCHANGED <<postgres, workflow, redis, call, faults, crashes>>

(* A workflow of the facade carries the hash it claimed the run with; the  *)
(* claim it finds pending is its own.  A slot is claimed here, and pending *)
(* means another delivery has it: 409.                                     *)
CarriesHash(r) == r \notin Slots

CheckRequest_SlotsShare(h) ==
  CASE CheckIdempotency(hand[h].run, hand[h].prompt) = "new" -> "grant"
    [] CheckIdempotency(hand[h].run, hand[h].prompt) = "pending" -> "run"
    [] CheckIdempotency(hand[h].run, hand[h].prompt) = "cached" -> "answered"
    [] OTHER -> "refused"
CheckRequest(h) ==
  CASE CheckIdempotency(hand[h].run, hand[h].prompt) = "new" -> "grant"
    [] CheckIdempotency(hand[h].run, hand[h].prompt) = "pending" ->
         IF CarriesHash(hand[h].run) THEN "run" ELSE "refused"
    [] CheckIdempotency(hand[h].run, hand[h].prompt) = "cached" -> "answered"
    [] OTHER -> "refused"

HCheck(h) ==
  /\ hand[h].pc = "check"
  /\ Move(h, CheckRequest(h))
  /\ HandlerOnly

HGrant(h) ==
  /\ hand[h].pc = "grant"
  /\ Move(h, IF hand[h].run \in Slots /\ ~granted[hand[h].run] THEN "refused"
             ELSE "claim")
  /\ HandlerOnly

HClaim(h) ==
  /\ hand[h].pc = "claim"
  /\ CreatePending(hand[h].run, hand[h].prompt)
  /\ Move(h, IF request[hand[h].run] = None THEN "run" ELSE "refused")
  /\ UNCHANGED <<thread, deleted, granted, workflow, redis, call, faults,
                 crashes>>

(* The input of a slot may lack a modelRef: it is refused after the claim. *)
HRun(h) ==
  /\ hand[h].pc = "run"
  /\ \/ hand' = [hand EXCEPT ![h].pc = "stream", ![h].ran = TRUE]
     \/ hand[h].run \in Slots /\ Move(h, "refused")
  /\ HandlerOnly

(* The executor may fail before its first event, or its events are         *)
(* published one by one, a publish that fails being skipped.               *)
HDelta(h) ==
  /\ hand[h].pc = "stream"
  /\ Move(h, "drain")
  /\ Published(hand[h].run, "delta") \/ PublishFails(hand[h].run, "delta")
  /\ UNCHANGED <<postgres, workflow, dropped, ttl, call, crashes>>

HThrows(h) ==
  /\ hand[h].pc \in {"stream", "drain"}
  /\ Move(h, "report")
  /\ HandlerOnly

(* An executor that fails emits an error event, and its final result says  *)
(* so; the terminal done event is only published for a success.            *)
HFails(h) ==
  /\ hand[h].pc \in {"stream", "drain"}
  /\ Move(h, "finalize")
  /\ \/ Published(hand[h].run, "error") /\ SetTTL(hand[h].run)
     \/ PublishFails(hand[h].run, "error") /\ UNCHANGED ttl
  /\ UNCHANGED <<postgres, workflow, dropped, call, crashes>>

AfterStream_PublishFirst(r) == "publish"
AfterStream(r) == IF r \in Stateful THEN "load" ELSE "publish"

HSucceeds(h) ==
  /\ hand[h].pc = "drain"
  /\ hand' = [hand EXCEPT ![h].pc = AfterStream(hand[h].run), ![h].tries = 1]
  /\ HandlerOnly

(* persistAssistantThenPublishTerminal *)
AlreadyPersisted_Never(msgs, r) == FALSE
AlreadyPersisted(msgs, r) == Holds(msgs, "assistant", r)

HLoad(h) ==
  /\ hand[h].pc = "load"
  /\ LET msgs == LoadThread(ThreadOf(hand[h].run)) IN
       hand' = [hand EXCEPT ![h] =
         IF AlreadyPersisted(msgs, @.run)
           THEN HandAt("publish", @.run, @.prompt, <<>>, @.tries, FALSE, TRUE)
           ELSE HandAt("save", @.run, @.prompt, msgs, @.tries, FALSE, TRUE)]
  /\ HandlerOnly

WithAnswer(h) == Append(hand[h].base, AssistantMessage(hand[h].run))

AfterConflict_Forever(h) == "load"
AfterConflict_GivesUp(h) ==
  IF hand[h].tries = MaxPersistAttempts THEN "publish" ELSE "load"
AfterConflict(h) ==
  IF hand[h].tries = MaxPersistAttempts THEN "report" ELSE "load"

HSave(h) ==
  /\ hand[h].pc = "save"
  /\ LET th == ThreadOf(hand[h].run)
         n == Len(hand[h].base) IN
       \/ /\ ~Fits(WithAnswer(h))
          /\ Move(h, "report")
          /\ UNCHANGED thread
       \/ /\ Fits(WithAnswer(h)) /\ LengthMatches(th, n)
          /\ SaveThread(th, WithAnswer(h))
          /\ Move(h, "publish")
       \/ /\ Fits(WithAnswer(h)) /\ ~LengthMatches(th, n)
          /\ hand' = [hand EXCEPT ![h].pc = AfterConflict(h),
                                  ![h].tries = @ + 1]
          /\ UNCHANGED thread
  /\ UNCHANGED <<deleted, request, granted, workflow, redis, call, faults,
                 crashes>>

(* A terminal publication that rejects makes the run a failure. *)
AfterLostDone_Success(h) == HandAt("finalize", hand[h].run, hand[h].prompt,
                                   <<>>, 0, TRUE, TRUE)
AfterLostDone(h) == HandAt("report", hand[h].run, hand[h].prompt, <<>>, 0,
                           FALSE, TRUE)

HPublish(h) ==
  /\ hand[h].pc = "publish"
  /\ \/ /\ Published(hand[h].run, "done")
        /\ SetTTL(hand[h].run)
        /\ hand' = [hand EXCEPT ![h] =
                      HandAt("finalize", @.run, @.prompt, <<>>, 0, TRUE, TRUE)]
     \/ /\ PublishFails(hand[h].run, "done")
        /\ hand' = [hand EXCEPT ![h] = AfterLostDone(h)]
        /\ UNCHANGED ttl
  /\ UNCHANGED <<postgres, workflow, dropped, call, crashes>>

(* The error path: tell the subscribers, then record the failure. *)
HReport_Silent(h) ==
  /\ hand[h].pc = "report"
  /\ Move(h, "finalize")
  /\ UNCHANGED <<postgres, workflow, redis, call, faults, crashes>>
HReport(h) ==
  /\ hand[h].pc = "report"
  /\ Move(h, "finalize")
  /\ \/ Published(hand[h].run, "error") /\ SetTTL(hand[h].run)
     \/ PublishFails(hand[h].run, "error") /\ UNCHANGED ttl
  /\ UNCHANGED <<postgres, workflow, dropped, call, crashes>>

(* finalizeRequest updates the row whatever its outcome was. *)
HFinalize(h) ==
  /\ hand[h].pc = "finalize"
  /\ request' = [request EXCEPT ![hand[h].run].ok = hand[h].ok]
  /\ Move(h, "answered")
  /\ UNCHANGED <<thread, deleted, granted, workflow, redis, call, faults,
                 crashes>>

HandlerEnds == {"idle", "answered", "refused", "over", "crashed"}

HandlerDies(h) ==
  /\ hand[h].pc \notin HandlerEnds
  /\ crashes < MaxCrashes
  /\ crashes' = crashes + 1
  /\ Move(h, "crashed")
  /\ UNCHANGED <<postgres, workflow, redis, call, faults>>

HandlerStep(h) ==
  \/ HCheck(h) \/ HGrant(h) \/ HClaim(h) \/ HRun(h)
  \/ HDelta(h) \/ HThrows(h) \/ HFails(h) \/ HSucceeds(h)
  \/ HLoad(h) \/ HSave(h) \/ HPublish(h) \/ HReport(h) \/ HFinalize(h)

-----------------------------------------------------------------------------
Next ==
  \/ SoftDelete
  \/ \E r \in Runs : StreamExpires(r)
  \/ \E s \in Slots : FireSchedule(s) \/ RevokeGrant(s)
  \/ \E c \in Callers : CallerStep(c) \/ Disconnect(c) \/ CallerDies(c)
  \/ \E h \in Handlers, r \in Runs : Deliver(h, r)
  \/ \E h \in Handlers :
       HandlerStep(h) \/ HandlerDies(h) \/ Completes(h) \/ AnswerLost(h)

Spec == Init /\ [][Next]_vars

-----------------------------------------------------------------------------
(* Properties *)

StreamHolds(r, e) == \E i \in DOMAIN stream[r] : stream[r][i] = e

TypeOK ==
  /\ thread \in [Threads -> Seq(Message)]
  /\ deleted \in [Threads -> BOOLEAN]
  /\ request \in [Runs -> ExecutionRequest \cup {None}]
  /\ workflow \in [Runs -> Workflow]
  /\ granted \in [Slots -> BOOLEAN]
  /\ stream \in [Runs -> Seq(Events)]
  /\ dropped \in [Runs -> Nat]
  /\ \A r \in Runs : dropped[r] <= Len(stream[r])
  /\ ttl \in [Runs -> BOOLEAN]
  /\ call \in [Callers -> Call]
  /\ hand \in [Handlers -> Hand]
  /\ faults \in Nat /\ crashes \in Nat

(* A stream that shows success belongs to a run whose answer is in its     *)
(* thread, whatever conflicts, duplicate deliveries and deaths came between.*)
DoneIsDurable ==
  \A r \in Stateful :
    StreamHolds(r, "done") => Holds(thread[ThreadOf(r)], "assistant", r)

(* Retried requests and redelivered runs store a turn, and its answer, once.*)
MessagesOnce ==
  \A th \in Threads : \A i, j \in DOMAIN thread[th] :
    /\ thread[th][i].role = thread[th][j].role
    /\ thread[th][i].run = thread[th][j].run
    => i = j

(* Optimistic appends never lose or change what another request stored.    *)
ThreadOnlyGrows ==
  [][\A th \in Threads :
       /\ Len(thread[th]) <= Len(thread'[th])
       /\ SubSeq(thread'[th], 1, Len(thread[th])) = thread[th]]_vars

(* The prompt a turn is claimed with is the thread up to that turn, but    *)
(* for what redaction removed, although other turns append concurrently.   *)
ClaimIsThreadPrefix ==
  \A t \in Turns : request[t] # None =>
    LET n == Len(request[t].hash) IN
      /\ n \in DOMAIN thread[Chat]
      /\ thread[Chat][n].role = "user" /\ thread[Chat][n].run = t
      /\ \A i \in 1 .. n : thread[Chat][i].text = Redact(request[t].hash[i])

(* Two callers with one idempotency key and different payloads: only the   *)
(* claimed payload is ever executed.                                       *)
RunsWhatWasClaimed ==
  \A h \in Handlers : hand[h].ran =>
    /\ request[hand[h].run] # None
    /\ request[hand[h].run].hash = hand[h].prompt

(* A recorded success was announced to the subscribers of the run.         *)
SuccessWasPublished ==
  \A r \in Runs : request[r] # None =>
    (request[r].ok = TRUE => StreamHolds(r, "done"))

(* A schedule slot is executed once, however often Temporal delivers it.   *)
SlotRunsOnce ==
  \A g, h \in Handlers :
    hand[g].ran /\ hand[h].ran /\ hand[g].run = hand[h].run
      /\ hand[g].run \in Slots => g = h

(* The threads and streams implement the order a chat promises. *)
ChatTurnsOf == INSTANCE ChatTurns WITH
  asked <- {t \in Turns : Holds(thread[Chat], "user", t)},
  answered <- {t \in Turns : Holds(thread[Chat], "assistant", t)},
  announced <- {t \in Turns : StreamHolds(t, "done")}
ImplementsChatTurns == ChatTurnsOf!Spec

(* Only the first event of a subscription has a deadline, so a listener     *)
(* depends on a terminal event.  It gets one, whatever dies, fails or loses *)
(* its claim, and a lost done is made up for by an error; only a run whose  *)
(* failure was recorded after its announcement was lost leaves it waiting.  *)
TerminalLost(r) ==
  /\ faults > 0
  /\ request[r] # None /\ request[r].ok = FALSE
  /\ ~StreamHolds(r, "done") /\ ~StreamHolds(r, "error")

ListenersEnd ==
  \A c \in Callers :
    call[c].pc = "listen" ~> call[c].pc \in CallerEnds \/ TerminalLost(CallRun[c])

(* The processes run, and Temporal delivers a running workflow.            *)
DeliveringSpec ==
  /\ Spec
  /\ \A c \in Callers : WF_vars(CallerStep(c))
  /\ \A h \in Handlers : WF_vars(HandlerStep(h))
  /\ \A r \in Runs : WF_vars(\E h \in Handlers : Deliver(h, r))

-----------------------------------------------------------------------------
(* A claim of the repository that the code does not keep *)

(* An exact retry of a stored turn is accepted (the contract test of the   *)
(* chat route retries a message that holds a credential and expects 200).  *)
ExactRetryIsAccepted ==
  \A c \in Callers :
    CallRun[c] \in Turns /\ SameTurn(thread[Chat], c) =>
      call[c].pc # "idempotencyConflict"

=============================================================================
