------------------------------ MODULE Gateway ------------------------------
(***************************************************************************)
(* The daemon around the request manager: the frame handler that admits    *)
(* cloud requests, one dispatcher goroutine per transaction                *)
(* (cmd/ucentral-client/handler.go), the NATS client's start-up, and the   *)
(* two goroutines that apply device results, the worker behind the bounded *)
(* result queue and the subscriber callback that takes over when the queue *)
(* is full (main.go).  RequestManager is the component they all call: its  *)
(* actions happen here only when one of these goroutines makes the call.   *)
(***************************************************************************)
EXTENDS RequestManager, Sequences

CONSTANTS
  dispatchCapacity,   \* capacity of handler.dispatchBuffer
  resultCapacity,     \* cfg.Queues.CommandResultCapacity
  MaxResults          \* bound: results the device publishes per command

ASSUME GatewayConstants ==
  /\ dispatchCapacity \in Nat
  /\ resultCapacity \in Nat
  /\ MaxResults \in Nat

VARIABLES
  frame,          \* what HandleFrame did with the frame that r stands for
  handlerPushes,  \* responses HandleFrame itself pushed for it
  exec,           \* program counter of executeTransaction
  published,      \* commands that reached the broker
  resultsSent,    \* results the device has published for a command
  resultQueue,    \* the channel between subscriber and worker
  applier,        \* what "worker" and "subscriber" are doing with a result
  natsLink,       \* systemStateManager.natsLink
  natsPc          \* NATS start-up: natsClient is set when "up"

handlerVars == <<frame, handlerPushes>>
natsVars    == <<natsLink, natsPc>>
resultVars  == <<resultsSent, resultQueue, applier>>
gatewayVars == <<handlerVars, exec, published, resultVars, natsVars>>
allVars     == <<vars, gatewayVars>>

Goroutines == {"worker", "subscriber"}
Result     == [rpc : RPC, ok : BOOLEAN]
Idle       == [pc |-> "idle"]
ApplierState ==
  {Idle} \cup [pc : {"apply", "failing"}, result : Result]
         \cup [pc : {"retaining"}, result : Result, op : Op]
Verdicts   == {"silent", "malformed", "refused", "valid"}
HoldsSlot  == {"prepare", "pending", "publish", "mark", "failing"}
ExecStates == {"none", "start", "overflow", "done"} \cup HoldsSlot

GatewayTypeOK ==
  /\ TypeOK
  /\ frame \in [RPC -> {"new", "rejected", "admitted"}]
  /\ handlerPushes \in [RPC -> 0..1]
  /\ exec \in [RPC -> ExecStates]
  /\ published \subseteq RPC
  /\ resultsSent \in [RPC -> 0..MaxResults]
  /\ resultQueue \in Seq(Result) /\ Len(resultQueue) <= resultCapacity
  /\ applier \in [Goroutines -> ApplierState]
  /\ natsLink \in {"connecting", "connected"}
  /\ natsPc \in {"down", "subscribing", "up"}

(* The NATS client is created before the WebSocket loop starts.  At boot it
   may fail to connect, or connect and fail to subscribe, which closes it but
   leaves the link state that NewNATSClient reported. *)
GatewayInit ==
  /\ Init
  /\ frame = [r \in RPC |-> "new"]
  /\ handlerPushes = [r \in RPC |-> 0]
  /\ exec = [r \in RPC |-> "none"]
  /\ published = {}
  /\ resultsSent = [r \in RPC |-> 0]
  /\ resultQueue = <<>>
  /\ applier = [g \in Goroutines |-> Idle]
  /\ natsLink \in {"connecting", "connected"}
  /\ natsPc \in IF natsLink = "connected" THEN {"up", "down"} ELSE {"down"}
-----------------------------------------------------------------------------
(* GetSystemState.  HandleFrame runs only while the cloud link is connected. *)
DeriveConnectionState(cloud, nats) ==
  CASE cloud = "connecting" /\ nats = "connecting" -> "connecting"
    [] cloud = "connecting" /\ nats = "connected"  -> "cloud_degraded"
    [] cloud = "connected"  /\ nats = "connecting" -> "nats_degraded"
    [] OTHER                                       -> "operational"

(* The checks of HandleFrame in their order.  The verdict stands for the size,
   parse, structure, method and parameter checks: "silent" frames exceed the
   absolute limit and are dropped unread, "malformed" ones are always answered,
   "refused" ones are answered if they carry an identifier.  A notification of
   a state-changing method is dropped; so is one of rtty. *)
FrameOutcome(request, verdict) ==
  IF verdict # "valid" THEN verdict
  ELSE IF ~request[2] /\ IsStateChanging(request[3]) THEN "silent"
  ELSE IF DeriveConnectionState("connected", natsLink) = "nats_degraded" THEN "refused"
  ELSE Admission(request[1], request[2], request[3])

(* Whether HandleFrame pushes a response itself: a replay, or an error. *)
HandlerAnswers(request, outcome) ==
  \/ outcome \in {"malformed", "CachedResponse"}
  \/ outcome # "silent" /\ request[2]

RejectFrame(r, request, verdict) ==
  /\ frame[r] = "new"
  /\ LET outcome == FrameOutcome(request, verdict)
     IN  /\ outcome # "ok"
         /\ handlerPushes' = [handlerPushes EXCEPT ![r] = IF HandlerAnswers(request, outcome) THEN 1 ELSE 0]
  /\ frame' = [frame EXCEPT ![r] = "rejected"]
  /\ UNCHANGED <<vars, exec, published, resultVars, natsVars>>

(* CreateTransaction, then go executeTransaction. *)
AdmitFrame(r, request) ==
  /\ frame[r] = "new"
  /\ FrameOutcome(request, "valid") = "ok"
  /\ CreateTransaction(r, request[1], request[2], request[3])
  /\ frame' = [frame EXCEPT ![r] = "admitted"]
  /\ exec' = [exec EXCEPT ![r] = "start"]
  /\ UNCHANGED <<handlerPushes, published, resultVars, natsVars>>
-----------------------------------------------------------------------------
(* executeTransaction.  Its slot of the dispatch buffer is held from the first
   step until it returns; without a slot the transaction fails. *)
ExecGoes(r, to) == exec' = [exec EXCEPT ![r] = to]

SlotsInUse == {r \in RPC : exec[r] \in HoldsSlot}

(* Faulty variant: no return after the buffer was found full. *)
ExecAcquireNoReturn(r) ==
  /\ exec[r] = "start"
  /\ IF Cardinality(SlotsInUse) < dispatchCapacity THEN UNCHANGED vars ELSE Fail(r)
  /\ ExecGoes(r, "prepare")
  /\ UNCHANGED <<handlerVars, published, resultVars, natsVars>>

ExecAcquire(r) ==
  /\ exec[r] = "start"
  /\ ExecGoes(r, IF Cardinality(SlotsInUse) < dispatchCapacity THEN "prepare" ELSE "overflow")
  /\ UNCHANGED <<vars, handlerVars, published, resultVars, natsVars>>

(* The error branches of these two calls are not taken: see DispatcherInStep. *)
ExecPrepare(r) ==
  /\ exec[r] = "prepare"
  /\ MarkPreparingDispatch(r)
  /\ ExecGoes(r, "pending")
  /\ UNCHANGED <<handlerVars, published, resultVars, natsVars>>

ExecPending(r) ==
  /\ exec[r] = "pending"
  /\ MarkPendingPublish(r)
  /\ ExecGoes(r, "publish")
  /\ UNCHANGED <<handlerVars, published, resultVars, natsVars>>

(* Faulty variant: a dispatch error is only logged. *)
ExecPublishLogsError(r) ==
  /\ exec[r] = "publish"
  /\ \/ natsPc = "up" /\ ExecGoes(r, "mark") /\ published' = published \cup {r}
     \/ ExecGoes(r, "done") /\ UNCHANGED published
  /\ UNCHANGED <<vars, handlerVars, resultVars, natsVars>>

(* SubmitConfigure or ExecuteAction under the dispatch timeout.  A publish that
   reports an error may still have reached the broker. *)
ExecPublish(r) ==
  /\ exec[r] = "publish"
  /\ \/ natsPc = "up" /\ ExecGoes(r, "mark") /\ published' = published \cup {r}
     \/ natsPc = "up" /\ ExecGoes(r, "failing") /\ published' = published \cup {r}
     \/ ExecGoes(r, "failing") /\ UNCHANGED published
  /\ UNCHANGED <<vars, handlerVars, resultVars, natsVars>>

ExecMark(r) ==
  /\ exec[r] = "mark"
  /\ IF validateTransition(txState[r], "TxInFlight") THEN MarkInFlight(r) ELSE UNCHANGED vars
  /\ ExecGoes(r, "done")
  /\ UNCHANGED <<handlerVars, published, resultVars, natsVars>>

(* Faulty variant: the failure is answered although Fail was refused. *)
ExecFailAnswers(r) ==
  /\ exec[r] \in {"failing", "overflow"}
  /\ IF Live(r) THEN Fail(r) ELSE UNCHANGED vars
  /\ handlerPushes' = [handlerPushes EXCEPT ![r] = IF Live(r) THEN @ ELSE 1]
  /\ ExecGoes(r, "done")
  /\ UNCHANGED <<frame, published, resultVars, natsVars>>

(* failTransactionWithCode: an error of Fail is only logged. *)
ExecFail(r) ==
  /\ exec[r] \in {"failing", "overflow"}
  /\ IF Live(r) THEN Fail(r) ELSE UNCHANGED vars
  /\ ExecGoes(r, "done")
  /\ UNCHANGED <<handlerVars, published, resultVars, natsVars>>
-----------------------------------------------------------------------------
(* Faulty variant: a result that does not fit is dropped. *)
DeviceResultDropped(r, ok) ==
  /\ r \in published
  /\ resultsSent[r] < MaxResults
  /\ resultsSent' = [resultsSent EXCEPT ![r] = @ + 1]
  /\ resultQueue' = IF Len(resultQueue) < resultCapacity
                      THEN Append(resultQueue, [rpc |-> r, ok |-> ok]) ELSE resultQueue
  /\ UNCHANGED <<vars, handlerVars, exec, published, applier, natsVars>>

(* handleNATSResult, called by the subscription with one result at a time.
   The device may answer twice, or not at all. *)
DeviceResult(r, ok) ==
  /\ r \in published
  /\ applier["subscriber"] = Idle
  /\ resultsSent[r] < MaxResults
  /\ resultsSent' = [resultsSent EXCEPT ![r] = @ + 1]
  /\ LET res == [rpc |-> r, ok |-> ok]
     IN  IF Len(resultQueue) < resultCapacity
           THEN resultQueue' = Append(resultQueue, res) /\ UNCHANGED applier
           ELSE /\ applier' = [applier EXCEPT !["subscriber"] = [pc |-> "apply", result |-> res]]
                /\ UNCHANGED resultQueue
  /\ UNCHANGED <<vars, handlerVars, exec, published, natsVars>>

WorkerReceive ==
  /\ applier["worker"] = Idle
  /\ resultQueue # <<>>
  /\ applier' = [applier EXCEPT !["worker"] = [pc |-> "apply", result |-> Head(resultQueue)]]
  /\ resultQueue' = Tail(resultQueue)
  /\ UNCHANGED <<vars, handlerVars, exec, published, resultsSent, natsVars>>

Applying(g) == applier[g].pc = "apply"
Becomes(g, state) == applier' = [applier EXCEPT ![g] = state]

(* processNATSResult and the overflow branch of handleNATSResult make the same
   calls.  Everything but an accepted upgrade is one call: a result for an
   unknown transaction, a second reply and a second acceptance are dropped. *)
ApplyResult(g) ==
  /\ Applying(g)
  /\ LET r == applier[g].result.rpc
     IN  \/ /\ \/ ~Live(r)
               \/ txMethod[r] # "upgrade" /\ txState[r] \in PreFlight /\ pendingReplies[r] # None
               \/ applier[g].result.ok /\ handoffInProgress[r] /\ activeStateTx = r
            /\ UNCHANGED vars
         \/ txMethod[r] # "upgrade" /\ Complete(r)
         \/ Live(r) /\ txMethod[r] = "upgrade" /\ ~applier[g].result.ok /\ Fail(r)
  /\ Becomes(g, Idle)
  /\ UNCHANGED <<handlerVars, exec, published, resultsSent, resultQueue, natsVars>>

(* RespondAndRetain is a synchronous call: the goroutine waits for its
   critical sections (RetainStep) to be over. *)
ApplyAcceptance(g) ==
  /\ Applying(g)
  /\ applier[g].result.ok
  /\ \E o \in Op : opRPC[o] = None
  /\ LET r  == applier[g].result.rpc
         op == CHOOSE o \in Op : opRPC[o] = None
     IN  /\ RespondAndRetain(r, op)
         /\ Becomes(g, [pc |-> "retaining", result |-> applier[g].result, op |-> op])
  /\ UNCHANGED <<handlerVars, exec, published, resultsSent, resultQueue, natsVars>>

(* While a hand-over is being undone the request no longer owns the lock, and
   a second acceptance is refused with an error other than
   ErrHandoffInProgress. *)
ApplyRefused(g) ==
  /\ Applying(g)
  /\ applier[g].result.ok
  /\ LET r == applier[g].result.rpc
     IN  Live(r) /\ txMethod[r] = "upgrade" /\ activeStateTx # r
  /\ Becomes(g, [pc |-> "failing", result |-> applier[g].result])
  /\ UNCHANGED <<vars, handlerVars, exec, published, resultsSent, resultQueue, natsVars>>

RetainReturns(g) ==
  /\ applier[g].pc = "retaining"
  /\ retainOp[applier[g].result.rpc] # applier[g].op
  /\ Becomes(g, [pc |-> "failing", result |-> applier[g].result])
  /\ UNCHANGED <<vars, handlerVars, exec, published, resultsSent, resultQueue, natsVars>>

(* After a call that succeeded there is no transaction left to fail. *)
FailAfterRetain(g) ==
  /\ applier[g].pc = "failing"
  /\ IF Live(applier[g].result.rpc) THEN Fail(applier[g].result.rpc) ELSE UNCHANGED vars
  /\ Becomes(g, Idle)
  /\ UNCHANGED <<handlerVars, exec, published, resultsSent, resultQueue, natsVars>>
-----------------------------------------------------------------------------
(* The retry loop of main: NewNATSClient reports the link before the results
   are subscribed to, and a failed subscription does not take it back. *)
NATSConnect ==
  /\ natsPc = "down"
  /\ natsPc' = "subscribing"
  /\ natsLink' = "connected"
  /\ UNCHANGED <<vars, handlerVars, exec, published, resultVars>>

NATSSubscribe ==
  /\ natsPc = "subscribing"
  /\ natsPc' \in {"up", "down"}
  /\ UNCHANGED <<vars, handlerVars, exec, published, resultVars, natsLink>>

(* Steps of the manager that no goroutine above calls: timers, the critical
   sections of RespondAndRetain in progress, cache expiry, and the end of an
   operation. *)
ManagerTimer(r) == ResponseTimerFires(r) \/ Timeout(r)

ManagerAlone ==
  /\ \/ \E r \in RPC : ManagerTimer(r) \/ RetainStep(r)
     \/ \E op \in Op : ReleaseOperationLock(op) \/ ReleaseDelete(op)
     \/ \E k \in Key : CacheExpire(k)
  /\ UNCHANGED gatewayVars

HandleFrame(r) ==
  \E request \in Requests :
    \/ AdmitFrame(r, request)
    \/ \E verdict \in Verdicts : RejectFrame(r, request, verdict)

ExecuteTransaction(r) ==
  ExecAcquire(r) \/ ExecPrepare(r) \/ ExecPending(r) \/ ExecPublish(r) \/ ExecMark(r) \/ ExecFail(r)

ApplyStep(g) ==
  ApplyResult(g) \/ ApplyAcceptance(g) \/ ApplyRefused(g) \/ RetainReturns(g) \/ FailAfterRetain(g)

GatewayNext ==
  \/ \E r \in RPC : HandleFrame(r) \/ ExecuteTransaction(r)
  \/ \E r \in RPC, ok \in BOOLEAN : DeviceResult(r, ok)
  \/ WorkerReceive
  \/ \E g \in Goroutines : ApplyStep(g)
  \/ NATSConnect
  \/ NATSSubscribe
  \/ ManagerAlone

GatewaySpec == GatewayInit /\ [][GatewayNext]_allVars

(* Every goroutine that can go on does: dispatchers and appliers never block
   for good (publish runs under a timeout, disk calls return), the worker
   drains its queue, and armed timers fire.  The device owes nothing. *)
GatewayFairness ==
  /\ \A r \in RPC : WF_allVars(ExecuteTransaction(r))
  /\ \A r \in RPC : WF_allVars(ManagerTimer(r) /\ UNCHANGED gatewayVars)
  /\ \A r \in RPC : WF_allVars(RetainStep(r) /\ UNCHANGED gatewayVars)
  /\ \A op \in Op : WF_allVars(ReleaseDelete(op) /\ UNCHANGED gatewayVars)
  /\ \A g \in Goroutines : WF_allVars(ApplyStep(g))
  /\ WF_allVars(WorkerReceive)

FairGatewaySpec == GatewaySpec /\ GatewayFairness
-----------------------------------------------------------------------------
(* The dispatcher and the transaction stay in step: until the command has been
   handed to the broker nothing else can end the transaction or move it on, so
   MarkPreparingDispatch and MarkPendingPublish never fail, and a command is
   published only for a live transaction in TxPendingPublish, as the comment on
   DispatchItem asks of the consumer (executeTransaction does not check it). *)
DispatcherInStep ==
  \A r \in RPC :
    /\ exec[r] \in {"start", "overflow", "prepare"} => txState[r] = "TxCreated"
    /\ exec[r] = "pending" => txState[r] = "TxPreparingDispatch"
    /\ exec[r] = "publish" => txState[r] = "TxPendingPublish"

(* No cloud frame is answered twice, and a notification is answered only when
   it is malformed: the handler's own answers (errors, cache replays) and the
   manager's terminal responses exclude each other (HandleFrame,
   terminalTransition). *)
AnsweredAtMostOnce ==
  \A r \in RPC :
    /\ handlerPushes[r] + pushes[r] <= 1
    /\ frame[r] = "admitted" /\ ~txRespond[r] => handlerPushes[r] + pushes[r] = 0

(* A device result that arrives is never lost to the bounded queue: when a
   transaction is still waiting for the device, every result already received
   for it is queued or being applied (handleNATSResult's overflow branch). *)
ReceivedResultNotLost ==
  \A r \in RPC :
    txState[r] = "TxInFlight" /\ resultsSent[r] > 0 =>
      \/ \E i \in 1..Len(resultQueue) : resultQueue[i].rpc = r
      \/ \E g \in Goroutines : applier[g] # Idle /\ applier[g].result.rpc = r

(* No live transaction is forgotten: its dispatcher is still running, its timer
   or Timeout callback is going to end it, or a goroutine is inside the
   RespondAndRetain call for it (executeTransaction, handleNATSResult).  This is
   what EveryRequestAnswered rests on: whoever has the transaction goes on. *)
TransactionInHand ==
  \A r \in RPC : Live(r) =>
    \/ exec[r] \notin {"none", "done"}
    \/ responseTimer[r] \/ timeoutCall[r]
    \/ /\ retainPc[r] # "idle"
       /\ \E g \in Goroutines :
            applier[g].pc = "retaining" /\ applier[g].result.rpc = r /\ applier[g].op = retainOp[r]

(* Every admitted request is answered: whatever the device does, whatever
   publishing returns and however results, timers and the upgrade hand-over
   interleave, the transaction ends and its response is pushed. *)
EveryRequestAnswered ==
  \A r \in RPC : frame[r] = "admitted" ~> (txState[r] \in FinalStates /\ (txRespond[r] => pushes[r] = 1))

(* A request is admitted only while there is a NATS client to dispatch it with:
   HandleFrame rejects "with Service Unavailable if NATS is down (REQ-002)".
   The code does not guarantee this: the link state says connected from the
   moment NewNATSClient returns, also when the subscription then fails. *)
AdmissionNeedsClient ==
  [][\A r \in RPC : frame[r] = "new" /\ frame'[r] = "admitted" => natsPc = "up"]_allVars
=============================================================================
