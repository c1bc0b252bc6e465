------------------------------ MODULE PaymentFlow ------------------------------
(***************************************************************************)
(* The purchase as the user sees it: usePaymentFlow.ts, the hook that       *)
(* creates an attempt, waits for the wallet's receipt, submits the hash     *)
(* once and then polls until an answer ends it, composed with the handlers  *)
(* it calls.  Its phase lives in the browser's memory: it stops for good at *)
(* the first call that fails, and a reload loses it.                        *)
(***************************************************************************)
EXTENDS Payments

CONSTANT Browser  \* the requests the hook sends; the rest are other clients'

ASSUME PaymentFlowAssumption == Browser \subseteq Requests

VARIABLE flow     \* the hook's phase, per attempt

flowVars == <<now, attempts, chain, minedAt, height, ledger, balance, funding,
              tb, req, flow>>

(* "paying" is the wallet's part: signature, transfer and receipt. *)
Waiting == {"submitting", "polling"}
Ended == {"success", "error", "closed"}
Phases == {"none", "paying"} \cup Waiting \cup Ended

FlowInit == Init /\ flow = [a \in Attempts |-> "none"]

SetPhase(a, phase) == flow' = [flow EXCEPT ![a] = phase]

-----------------------------------------------------------------------------
(* The hook's calls *)

StartPayment(a, account, cents) ==
  CreateIntent(a, account, cents) /\ SetPhase(a, "paying")

(* The submit effect runs once, when the wallet has seen a receipt.  No hash *)
(* is submitted so late that its timeout lies beyond MaxTime.               *)
SubmitHash(r, a, tx) ==
  /\ flow[a] = "paying"
  /\ minedAt[tx] # {}
  /\ now + PendingTTL < MaxTime
  /\ Submit(r, a, tx)
  /\ SetPhase(a, "submitting")

(* The polling effect: a poll that has something to write or verify runs    *)
(* the handler, any other just reads the row.                               *)
PollStatus(r, a) ==
  flow[a] = "polling" /\ Poll(r, a) /\ UNCHANGED flow

PhaseOf(status) ==
  CASE status = "CREDITED"               -> "success"
    [] status \in {"REJECTED", "FAILED"} -> "error"
    [] OTHER                             -> "polling"

ReadStatus(a) ==
  /\ flow[a] = "polling"
  /\ IsTerminalState(attempts[a].status)
  /\ SetPhase(a, PhaseOf(attempts[a].status))
  /\ UNCHANGED vars

(* What the handler's answer says: a refused bind is an error response, the *)
(* error of a settlement is swallowed, else the answer is the local copy's  *)
(* status.                                                                  *)
Answer(r) ==
  CASE req[r].pc = "bind"                 -> "error"
    [] req[r].pc \in {"settle", "coWrite"} -> "success"
    [] OTHER                              -> PhaseOf(req[r].status)

(* The reducer takes a final answer in any phase, so a slow poll's answer   *)
(* may replace an earlier one; a pending one only starts the polling.  What *)
(* comes after the hook has moved on (attemptIdRef) is ignored.             *)
Receive(a, phase) ==
  IF flow[a] \in {"none", "closed"} \/ (phase = "polling" /\ flow[a] # "submitting")
  THEN UNCHANGED flow
  ELSE SetPhase(a, phase)

-----------------------------------------------------------------------------
(* Steps of the handlers, with the answers that reach the hook *)

Handle(r) ==
  /\ Process(r)
  /\ IF r \in Browser /\ req'[r].pc = "idle"
     THEN Receive(req[r].attempt, Answer(r)) ELSE UNCHANGED flow

Lose(r) ==
  /\ Fail(r)
  /\ IF r \in Browser THEN Receive(req[r].attempt, "error") ELSE UNCHANGED flow

(* The wallet refuses or the transfer reverts. *)
WalletError(a) ==
  flow[a] = "paying" /\ SetPhase(a, "error") /\ UNCHANGED vars

(* reset(), a reload or a closed tab. *)
Leave(a) ==
  /\ flow[a] \in {"paying"} \cup Waiting
  /\ SetPhase(a, "closed") /\ UNCHANGED vars

Clock == Tick /\ UNCHANGED flow

FlowNext ==
  \/ Clock
  \/ NewBlock /\ UNCHANGED flow
  \/ \E tx \in Txs : ChainStep(tx) /\ UNCHANGED flow
  \/ \E a \in Attempts :
       \/ WalletError(a) \/ Leave(a) \/ ReadStatus(a)
       \/ \E account \in Accounts, cents \in Amounts :
            StartPayment(a, account, cents)
       \/ \E r \in Browser :
            PollStatus(r, a) \/ \E tx \in Txs : SubmitHash(r, a, tx)
       \/ \E r \in Requests \ Browser : Poll(r, a) /\ UNCHANGED flow
  \/ \E r \in Requests : Handle(r) \/ Lose(r)

(***************************************************************************)
(* Fairness: the clock advances, an awaited call of a handler is answered   *)
(* or fails, and the interval timer of a hook that is still polling polls.  *)
(* Nothing is assumed of the chain, the RPC node, the user or a client that *)
(* has stopped, and nothing more than weak fairness of anyone.              *)
(***************************************************************************)
FlowSpec ==
  /\ FlowInit /\ [][FlowNext]_flowVars
  /\ WF_flowVars(Clock)
  /\ \A r \in Requests : WF_flowVars(Handle(r))
  /\ \A a \in Attempts :
       WF_flowVars(ReadStatus(a) \/ \E r \in Browser : PollStatus(r, a))

-----------------------------------------------------------------------------
(* Nobody waits for ever before "verifying": a purchase whose hash was sent  *)
(* ends in success, an error or a closed page, though the RPC node may fail *)
(* every verification and the transfer may never be confirmed.  It is the   *)
(* timeout of the attempt that ends it, at a poll.                          *)
FlowEnds == \A a \in Attempts : flow[a] \in Waiting ~> flow[a] \in Ended
=============================================================================
