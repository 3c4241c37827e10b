---------------------------- MODULE GatewayProofs ----------------------------
(***************************************************************************)
(* The daemon implements the open request manager: each step of the        *)
(* gateway is a call of the manager or leaves it alone.  So everything     *)
(* proved of the manager for arbitrary callers holds of the daemon.  On    *)
(* top of that, the dispatcher of a transaction and the transaction        *)
(* itself stay in step, no received result is lost on its way through the  *)
(* result queue and the workers, and no frame is answered twice.           *)
(***************************************************************************)
EXTENDS Gateway, ResponseProofs, ReservationProofs

(* The results in the daemon are about commands that were published. *)
ResultInv ==
  /\ published \subseteq RPC
  /\ resultQueue \in Seq(Result)
  /\ \A i \in 1..Len(resultQueue) : resultQueue[i].rpc \in published
  /\ applier \in [Goroutines -> ApplierState]
  /\ \A g \in Goroutines : applier[g].pc # "idle" => applier[g].result.rpc \in published

(* Appliers keep the result they were given. *)
LEMMA ApplyKeepsResults ==
  ASSUME ResultInv, NEW g \in Goroutines, ApplyStep(g)
  PROVE  ResultInv'
<1> USE DEF ResultInv, Becomes, ApplierState, Idle, natsVars, handlerVars
<1>1. CASE ApplyResult(g)
  BY <1>1 DEF ApplyResult
<1>2. CASE ApplyAcceptance(g)
  <2>1. (CHOOSE o \in Op : opRPC[o] = None) \in Op
    BY <1>2 DEF ApplyAcceptance
  <2> QED
    BY <1>2, <2>1 DEF ApplyAcceptance, Applying
<1>3. CASE ApplyRefused(g)
  BY <1>3 DEF ApplyRefused, Applying
<1>4. CASE RetainReturns(g)
  BY <1>4 DEF RetainReturns
<1>5. CASE FailAfterRetain(g)
  BY <1>5 DEF FailAfterRetain
<1> QED
  BY <1>1, <1>2, <1>3, <1>4, <1>5, ZenonT(40) DEF ApplyStep

(* Every other step that touches results does. *)
LEMMA ResultInvPreserves ==
  ASSUME ResultInv, [GatewayNext]_allVars
  PROVE  ResultInv'
<1> USE DEF ResultInv
<1>1. CASE UNCHANGED <<published, resultVars>>
  BY <1>1 DEF resultVars
<1>2. ASSUME NEW r \in RPC, ExecPublish(r)
      PROVE  ResultInv'
  BY <1>2 DEF ExecPublish, resultVars
<1>3. ASSUME NEW r \in RPC, NEW ok \in BOOLEAN, DeviceResult(r, ok)
      PROVE  ResultInv'
  <2>1. [rpc |-> r, ok |-> ok] \in Result /\ r \in published
    BY <1>3 DEF DeviceResult, Result
  <2>2. CASE Len(resultQueue) < resultCapacity
    <3>1. /\ resultQueue' = Append(resultQueue, [rpc |-> r, ok |-> ok])
          /\ UNCHANGED <<published, applier>>
      BY <1>3, <2>2 DEF DeviceResult
    <3>2. resultQueue' \in Seq(Result) /\ Len(resultQueue') = Len(resultQueue) + 1
      BY <2>1, <3>1
    <3>3. ASSUME NEW i \in 1..Len(resultQueue') PROVE resultQueue'[i].rpc \in published
      <4>1. CASE i \in 1..Len(resultQueue)
        BY <3>1, <4>1
      <4>2. CASE i = Len(resultQueue) + 1
        BY <2>1, <3>1, <4>2
      <4> QED
        BY <3>2, <4>1, <4>2
    <3> QED
      BY <3>1, <3>2, <3>3
  <2>3. CASE ~(Len(resultQueue) < resultCapacity)
    <3> DEFINE busy == [pc |-> "apply", result |-> [rpc |-> r, ok |-> ok]]
    <3>1. busy \in ApplierState /\ busy.result.rpc \in published
      BY <2>1 DEF ApplierState
    <3>2. applier' = [applier EXCEPT !["subscriber"] = busy]
      BY <1>3, <2>3 DEF DeviceResult
    <3>3. UNCHANGED <<published, resultQueue>>
      BY <1>3, <2>3 DEF DeviceResult
    <3> QED
      BY <3>1, <3>2, <3>3, Zenon
  <2> QED
    BY <2>2, <2>3
<1>4. CASE WorkerReceive
  <2>1. /\ Head(resultQueue) \in Result /\ Head(resultQueue).rpc \in published
        /\ Tail(resultQueue) \in Seq(Result)
        /\ \A i \in 1..Len(Tail(resultQueue)) : Tail(resultQueue)[i].rpc \in published
    BY <1>4 DEF WorkerReceive
  <2> QED
    BY <1>4, <2>1, Zenon DEF WorkerReceive, ApplierState
<1>5. ASSUME NEW g \in Goroutines, ApplyStep(g)
      PROVE  ResultInv'
  BY <1>5, ApplyKeepsResults
<1>6. CASE ManagerAlone \/ NATSConnect \/ NATSSubscribe
  BY <1>1, <1>6 DEF ManagerAlone, NATSConnect, NATSSubscribe, gatewayVars
<1>7. ASSUME NEW r \in RPC, HandleFrame(r)
      PROVE  UNCHANGED <<published, resultVars>>
  BY <1>7 DEF HandleFrame, AdmitFrame, RejectFrame
<1>8. ASSUME NEW r \in RPC, ExecAcquire(r) \/ ExecPrepare(r) \/ ExecPending(r) \/ ExecMark(r) \/ ExecFail(r)
      PROVE  UNCHANGED <<published, resultVars>>
  BY <1>8 DEF ExecAcquire, ExecPrepare, ExecPending, ExecMark, ExecFail
<1>9. CASE UNCHANGED allVars
  BY <1>1, <1>9 DEF allVars, gatewayVars
<1> QED
  BY <1>1, <1>2, <1>3, <1>4, <1>5, <1>6, <1>7, <1>8, <1>9, ZenonT(40) DEF GatewayNext, ExecuteTransaction
-----------------------------------------------------------------------------
(* What goroutines do to the manager, apart from creating transactions. *)
ManagerProceeds ==
  \/ \E r \in RPC : Proceeds(r)
  \/ \E op \in Op : ReleaseOperationLock(op) \/ ReleaseDelete(op)
  \/ \E k \in Key : CacheExpire(k)

(* A frame is admitted or rejected, or else a goroutine works on transactions
   that exist, or none is touched. *)
LEMMA GatewayStepSplit ==
  ASSUME ResultInv, [GatewayNext]_allVars
  PROVE  \/ \E r \in RPC, request \in Requests : AdmitFrame(r, request)
         \/ \E r \in RPC, request \in Requests, verdict \in Verdicts : RejectFrame(r, request, verdict)
         \/ UNCHANGED handlerVars /\ (UNCHANGED vars \/ ManagerProceeds)
<1> DEFINE Works == UNCHANGED handlerVars /\ (UNCHANGED vars \/ ManagerProceeds)
<1>1. CASE UNCHANGED allVars
  BY <1>1 DEF allVars, gatewayVars
<1>2. ASSUME NEW r \in RPC, ExecuteTransaction(r)
      PROVE  Works
  <2>1. UNCHANGED handlerVars
    BY <1>2, Zenon DEF ExecuteTransaction, ExecAcquire, ExecPrepare, ExecPending, ExecPublish, ExecMark, ExecFail
  <2>2. UNCHANGED vars \/ Proceeds(r)
    BY <1>2, Zenon DEF ExecuteTransaction, ExecAcquire, ExecPrepare, ExecPending, ExecPublish, ExecMark, ExecFail, Proceeds
  <2> QED
    BY <2>1, <2>2 DEF ManagerProceeds
<1>3. ASSUME NEW r \in RPC, NEW ok \in BOOLEAN, DeviceResult(r, ok)
      PROVE  Works
  BY <1>3 DEF DeviceResult
<1>4. CASE WorkerReceive \/ NATSConnect \/ NATSSubscribe
  BY <1>4 DEF WorkerReceive, NATSConnect, NATSSubscribe
<1>5. CASE ManagerAlone
  BY <1>5 DEF ManagerAlone, ManagerTimer, Proceeds, ManagerProceeds, gatewayVars
<1>6. ASSUME NEW g \in Goroutines, ApplyStep(g)
      PROVE  Works
  <2> DEFINE r == applier[g].result.rpc
  <2>1. UNCHANGED handlerVars
    BY <1>6, Zenon DEF ApplyStep, ApplyResult, ApplyAcceptance, ApplyRefused, RetainReturns, FailAfterRetain
  <2>2. ASSUME applier[g].pc # "idle" PROVE r \in RPC
    BY <2>2, Zenon DEF ResultInv
  <2>3. CASE ApplyResult(g)
    BY <2>1, <2>2, <2>3, ZenonT(40) DEF ApplyResult, Applying, Proceeds, ManagerProceeds
  <2>4. CASE ApplyAcceptance(g)
    <3>1. (CHOOSE o \in Op : opRPC[o] = None) \in Op
      BY <2>4 DEF ApplyAcceptance
    <3> QED
      BY <2>1, <2>2, <2>4, <3>1 DEF ApplyAcceptance, Applying, Proceeds, ManagerProceeds
  <2>5. CASE ApplyRefused(g) \/ RetainReturns(g)
    BY <2>1, <2>5, ZenonT(40) DEF ApplyRefused, RetainReturns
  <2>6. CASE FailAfterRetain(g)
    BY <2>1, <2>2, <2>6 DEF FailAfterRetain, Proceeds, ManagerProceeds
  <2> QED
    BY <1>6, <2>3, <2>4, <2>5, <2>6 DEF ApplyStep
<1> QED
  BY <1>1, <1>2, <1>3, <1>4, <1>5, <1>6 DEF GatewayNext, HandleFrame

(* A step of the gateway is a step of the manager, or does not touch it. *)
LEMMA GatewayStepIsManagerStep ==
  ASSUME ResultInv, [GatewayNext]_allVars
  PROVE  [ManagerNext]_vars
<1>1. ASSUME NEW r \in RPC, NEW request \in Requests, AdmitFrame(r, request)
      PROVE  ManagerNext
  BY <1>1 DEF AdmitFrame, TransactionStep, ManagerNext
<1>2. ASSUME NEW r \in RPC, NEW request \in Requests, NEW verdict \in Verdicts,
             RejectFrame(r, request, verdict)
      PROVE  UNCHANGED vars
  BY <1>2 DEF RejectFrame
<1>3. ManagerProceeds => ManagerNext
  BY Zenon DEF ManagerProceeds, Proceeds, ManagerNext, TransactionStep
<1> QED
  BY <1>1, <1>2, <1>3, GatewayStepSplit
-----------------------------------------------------------------------------
Dispatched == {"mark", "failing", "done"}

(* What ties a dispatcher to its transaction: until the command has been handed
   to the broker no result about it can exist, and no hand-over can have
   begun. *)
DispatchInv ==
  /\ frame \in [RPC -> {"new", "rejected", "admitted"}]
  /\ exec \in [RPC -> ExecStates]
  /\ DispatcherInStep
  /\ published \subseteq RPC
  /\ \A r \in published : exec[r] \in Dispatched
  /\ \A r \in RPC : exec[r] \notin Dispatched => retainPc[r] = "idle"
  /\ \A r \in RPC : frame[r] = "new" => exec[r] = "none"

(* A step of a transaction whose command was handed over disturbs nothing. *)
LEMMA DispatchedStepPreserves ==
  ASSUME TypeOK, DispatchInv, NEW r \in RPC, TransactionStep(r) \/ RetainStep(r),
         exec[r] \in Dispatched, UNCHANGED <<frame, published>>,
         exec' \in {exec, [exec EXCEPT ![r] = "done"]}
  PROVE  DispatchInv'
<1>1. \A p \in RPC \ {r} : txState'[p] = txState[p] /\ retainPc'[p] = retainPc[p]
  BY OwnStep, OwnRetain
<1>2. exec'[r] \in Dispatched /\ \A p \in RPC \ {r} : exec'[p] = exec[p]
  BY DEF DispatchInv, Dispatched
<1>3. exec' \in [RPC -> ExecStates]
  BY DEF DispatchInv, ExecStates
<1>4. DispatcherInStep'
  BY <1>1, <1>2 DEF DispatchInv, DispatcherInStep, Dispatched
<1>5. \A p \in RPC : exec'[p] \notin Dispatched => retainPc'[p] = "idle"
  BY <1>1, <1>2 DEF DispatchInv
<1>6. \A p \in RPC : frame[p] = "new" => exec'[p] = "none"
  BY <1>2 DEF DispatchInv, Dispatched
<1>7. \A p \in published : exec'[p] \in Dispatched
  BY <1>2 DEF DispatchInv, Dispatched
<1> QED
  BY <1>3, <1>4, <1>5, <1>6, <1>7 DEF DispatchInv

(* Steps that touch neither transactions nor dispatchers. *)
LEMMA DispatchUnchanged ==
  ASSUME DispatchInv, UNCHANGED <<txState, retainPc, frame, exec, published>>
  PROVE  DispatchInv'
  BY DEF DispatchInv, DispatcherInStep

(* A dispatcher that moves on, together with its transaction. *)
LEMMA DispatcherMoves ==
  ASSUME TypeOK, DispatchInv, NEW r \in RPC, exec[r] # "none", exec[r] \notin Dispatched,
         NEW to \in ExecStates \ {"none"}, exec' = [exec EXCEPT ![r] = to],
         \A p \in RPC \ {r} : txState'[p] = txState[p],
         UNCHANGED <<retainPc, frame>>,
         published' \in {published, published \cup {r}},
         published' # published => to \in Dispatched,
         to \in {"start", "overflow", "prepare"} => txState'[r] = "TxCreated",
         to = "pending" => txState'[r] = "TxPreparingDispatch",
         to = "publish" => txState'[r] = "TxPendingPublish"
  PROVE  DispatchInv'
<1>1. exec'[r] = to /\ \A p \in RPC \ {r} : exec'[p] = exec[p]
  BY DEF DispatchInv
<1>2. exec' \in [RPC -> ExecStates]
  BY DEF DispatchInv
<1>3. DispatcherInStep'
  BY <1>1 DEF DispatchInv, DispatcherInStep
<1>4. \A p \in RPC : exec'[p] \notin Dispatched => retainPc[p] = "idle"
  BY <1>1 DEF DispatchInv
<1>5. \A p \in RPC : frame[p] = "new" => exec'[p] = "none"
  BY <1>1 DEF DispatchInv
<1>6. published' \subseteq RPC /\ \A p \in published' : exec'[p] \in Dispatched
  BY <1>1 DEF DispatchInv
<1> QED
  BY <1>2, <1>3, <1>4, <1>5, <1>6, ZenonT(40) DEF DispatchInv

(* The dispatcher's own steps. *)
LEMMA ExecutePreserves ==
  ASSUME ManagerInv, DispatchInv, NEW r \in RPC, ExecuteTransaction(r)
  PROVE  DispatchInv'
<1>0. TypeOK
  BY DEF ManagerInv
<1> USE DEF ExecGoes, handlerVars, retainVars, Dispatched, ExecStates, HoldsSlot
<1>1. CASE ExecAcquire(r)
  <2>1. UNCHANGED <<txState, retainPc>>
    BY <1>1 DEF ExecAcquire, vars, managerVars
  <2>2. txState[r] = "TxCreated"
    BY <1>1 DEF ExecAcquire, DispatchInv, DispatcherInStep
  <2> QED
    BY <1>0, <1>1, <2>1, <2>2, DispatcherMoves, Zenon DEF ExecAcquire
<1>2. CASE ExecPrepare(r)
  BY <1>0, <1>2, DispatcherMoves, Zenon DEF ExecPrepare, MarkPreparingDispatch, Advance, TypeOK
<1>3. CASE ExecPending(r)
  BY <1>0, <1>3, DispatcherMoves, ZenonT(40) DEF ExecPending, MarkPendingPublish, Advance, TypeOK
<1>4. CASE ExecPublish(r)
  <2>1. UNCHANGED <<txState, retainPc>>
    BY <1>4 DEF ExecPublish, vars, managerVars
  <2> QED
    BY <1>0, <1>4, <2>1, DispatcherMoves, ZenonT(40) DEF ExecPublish
<1>5. CASE ExecMark(r)
  <2>1. CASE MarkInFlight(r)
    BY <1>0, <1>5, <2>1, DispatchedStepPreserves, ZenonT(40) DEF ExecMark, TransactionStep
  <2>2. CASE UNCHANGED vars
    BY <1>5, <2>2 DEF ExecMark, DispatchInv, DispatcherInStep, vars, managerVars
  <2> QED
    BY <1>5, <2>1, <2>2 DEF ExecMark
<1>6. CASE ExecFail(r)
  <2>1. CASE exec[r] = "failing" /\ Fail(r)
    BY <1>0, <1>6, <2>1, DispatchedStepPreserves, ZenonT(40) DEF ExecFail, TransactionStep
  <2>2. CASE UNCHANGED vars
    BY <1>6, <2>2 DEF ExecFail, DispatchInv, DispatcherInStep, vars, managerVars
  <2>3. CASE exec[r] = "overflow" /\ Fail(r)
    <3>1. \A p \in RPC \ {r} : txState'[p] = txState[p]
      BY <1>0, <2>3, OwnStep, Zenon DEF TransactionStep
    <3>2. UNCHANGED retainPc
      BY <2>3 DEF Fail
    <3> QED
      BY <1>0, <1>6, <2>3, <3>1, <3>2, DispatcherMoves, Zenon DEF ExecFail
  <2> QED
    BY <1>6, <2>1, <2>2, <2>3 DEF ExecFail
<1> QED
  BY <1>1, <1>2, <1>3, <1>4, <1>5, <1>6 DEF ExecuteTransaction

(* The appliers: their result is about a command that was handed over. *)
LEMMA ApplyPreserves ==
  ASSUME ManagerInv, ResultInv, DispatchInv, NEW g \in Goroutines, ApplyStep(g)
  PROVE  DispatchInv'
<1> DEFINE r == applier[g].result.rpc
<1>0. TypeOK
  BY DEF ManagerInv
<1>1. UNCHANGED <<frame, exec, published>>
  BY ZenonT(40) DEF ApplyStep, ApplyResult, ApplyAcceptance, ApplyRefused, RetainReturns, FailAfterRetain, handlerVars
<1>2. ASSUME applier[g].pc # "idle" PROVE r \in RPC /\ exec[r] \in Dispatched
  BY <1>2 DEF ResultInv, DispatchInv
<1>3. CASE UNCHANGED vars
  BY <1>1, <1>3, DispatchUnchanged DEF vars, managerVars, retainVars
<1>4. CASE r \in RPC /\ exec[r] \in Dispatched /\ TransactionStep(r)
  BY <1>0, <1>1, <1>4, DispatchedStepPreserves
<1>5. CASE ApplyResult(g)
  BY <1>2, <1>3, <1>4, <1>5, Zenon DEF ApplyResult, Applying, TransactionStep
<1>6. CASE ApplyAcceptance(g)
  <2>1. (CHOOSE o \in Op : opRPC[o] = None) \in Op
    BY <1>6 DEF ApplyAcceptance
  <2> QED
    BY <1>2, <1>4, <1>6, <2>1, Zenon DEF ApplyAcceptance, Applying, TransactionStep
<1>7. CASE ApplyRefused(g) \/ RetainReturns(g)
  BY <1>3, <1>7, ZenonT(40) DEF ApplyRefused, RetainReturns
<1>8. CASE FailAfterRetain(g)
  BY <1>2, <1>3, <1>4, <1>8, ZenonT(40) DEF FailAfterRetain, TransactionStep
<1> QED
  BY <1>5, <1>6, <1>7, <1>8 DEF ApplyStep

(* Timers, hand-overs in progress, cache and operations: a timeout callback is
   never about a transaction that has not been published. *)
LEMMA AlonePreserves ==
  ASSUME ManagerInv, DispatchInv, ManagerAlone
  PROVE  DispatchInv'
<1>0. TypeOK
  BY DEF ManagerInv
<1>1. UNCHANGED <<frame, exec, published>>
  BY DEF ManagerAlone, gatewayVars, handlerVars
<1>2. ASSUME NEW r \in RPC, ResponseTimerFires(r)
      PROVE  DispatchInv'
  BY <1>1, <1>2, DispatchUnchanged DEF ResponseTimerFires, retainVars
<1>3. ASSUME NEW r \in RPC, Timeout(r)
      PROVE  DispatchInv'
  <2>1. CASE exec[r] \in Dispatched
    BY <1>0, <1>1, <1>3, <2>1, DispatchedStepPreserves, Zenon DEF TransactionStep
  <2>2. CASE exec[r] \notin Dispatched
    <3>1. txState[r] \notin PreFlight
      BY <1>3 DEF Timeout, ManagerInv, TimerInv
    <3>2. exec[r] = "none"
      BY <2>2, <3>1, ZenonT(40) DEF DispatchInv, DispatcherInStep, PreFlight, Dispatched, ExecStates, HoldsSlot
    <3>3. \A p \in RPC \ {r} : txState'[p] = txState[p]
      BY <1>0, <1>3, OwnStep DEF TransactionStep
    <3>4. UNCHANGED retainPc
      BY <1>3 DEF Timeout, retainVars
    <3> QED
      BY <1>1, <3>2, <3>3, <3>4, ZenonT(40) DEF DispatchInv, DispatcherInStep
  <2> QED
    BY <2>1, <2>2
<1>4. ASSUME NEW r \in RPC, RetainStep(r)
      PROVE  DispatchInv'
  <2>1. retainPc[r] # "idle"
    BY <1>4, Zenon DEF RetainStep, RetainStamp, RetainSave, RetainFailed, RetainCommitted, RetainRelease, RetainFinish
  <2>2. exec[r] \in Dispatched
    BY <2>1 DEF DispatchInv
  <2> QED
    BY <1>0, <1>1, <1>4, <2>2, DispatchedStepPreserves
<1>5. ASSUME NEW op \in Op, ReleaseOperationLock(op) \/ ReleaseDelete(op)
      PROVE  DispatchInv'
  BY <1>1, <1>5, DispatchUnchanged DEF ReleaseOperationLock, ReleaseDelete, retainVars
<1>6. ASSUME NEW k \in Key, CacheExpire(k)
      PROVE  DispatchInv'
  BY <1>1, <1>6, DispatchUnchanged DEF CacheExpire, retainVars
<1> QED
  BY <1>2, <1>3, <1>4, <1>5, <1>6 DEF ManagerAlone, ManagerTimer

(* A new frame has no dispatcher yet, and its transaction no history. *)
LEMMA HandleFramePreserves ==
  ASSUME ManagerInv, DispatchInv, NEW r \in RPC, HandleFrame(r)
  PROVE  DispatchInv'
<1>1. ASSUME NEW request \in Requests, AdmitFrame(r, request)
      PROVE  DispatchInv'
  <2>1. exec[r] = "none" /\ retainPc[r] = "idle"
    BY <1>1 DEF AdmitFrame, DispatchInv, Dispatched
  <2>2. /\ txState' = [txState EXCEPT ![r] = "TxCreated"]
        /\ UNCHANGED retainPc
    BY <1>1, Zenon DEF AdmitFrame, CreateTransaction, retainVars
  <2>3. txState'[r] = "TxCreated" /\ \A p \in RPC \ {r} : txState'[p] = txState[p]
    BY <2>2 DEF ManagerInv, TypeOK
  <2>4. exec' = [exec EXCEPT ![r] = "start"] /\ frame' = [frame EXCEPT ![r] = "admitted"] /\ UNCHANGED published
    BY <1>1 DEF AdmitFrame
  <2>5. r \notin published
    BY <2>1 DEF DispatchInv, Dispatched
  <2> QED
    BY <2>1, <2>2, <2>3, <2>4, <2>5, ZenonT(40) DEF DispatchInv, DispatcherInStep, Dispatched, ExecStates
<1>2. ASSUME NEW request \in Requests, NEW verdict \in Verdicts, RejectFrame(r, request, verdict)
      PROVE  DispatchInv'
  <2>1. frame' = [frame EXCEPT ![r] = "rejected"] /\ UNCHANGED <<exec, published>>
    BY <1>2 DEF RejectFrame
  <2>2. UNCHANGED <<txState, retainPc>>
    BY <1>2 DEF RejectFrame, vars, managerVars, retainVars
  <2> QED
    BY <2>1, <2>2, Zenon DEF DispatchInv, DispatcherInStep
<1> QED
  BY <1>1, <1>2, Zenon DEF HandleFrame

(* The dispatcher invariant is inductive, given those of manager and results. *)
LEMMA DispatchPreserves ==
  ManagerInv /\ ResultInv /\ DispatchInv /\ [GatewayNext]_allVars => DispatchInv'
<1> SUFFICES ASSUME ManagerInv, ResultInv, DispatchInv, [GatewayNext]_allVars
             PROVE  DispatchInv'
  OBVIOUS
<1>1. ASSUME UNCHANGED <<vars, frame, exec, published>> PROVE DispatchInv'
  BY <1>1, DispatchUnchanged DEF vars, managerVars, retainVars
<1>2. CASE UNCHANGED allVars
  BY <1>1, <1>2, Zenon DEF allVars, gatewayVars, handlerVars
<1>3. CASE \E r \in RPC, ok \in BOOLEAN : DeviceResult(r, ok)
  BY <1>1, <1>3, ZenonT(40) DEF DeviceResult, handlerVars
<1>4. CASE WorkerReceive \/ NATSConnect \/ NATSSubscribe
  BY <1>1, <1>4 DEF WorkerReceive, NATSConnect, NATSSubscribe, handlerVars
<1> QED
  BY <1>2, <1>3, <1>4, HandleFramePreserves, ExecutePreserves, ApplyPreserves, AlonePreserves DEF GatewayNext
-----------------------------------------------------------------------------
(* HandleFrame answers a frame itself only when it rejects it, and a frame it
   has not admitted has no transaction. *)
FrameInv ==
  /\ frame \in [RPC -> {"new", "rejected", "admitted"}]
  /\ handlerPushes \in [RPC -> 0..1]
  /\ \A r \in RPC : handlerPushes[r] # 0 => frame[r] = "rejected"
  /\ \A r \in RPC : frame[r] # "admitted" => txState[r] = "unused"

(* Only HandleFrame creates transactions, for the frame it admits. *)
LEMMA FramePreserves ==
  ASSUME ManagerInv, ResultInv, FrameInv, [GatewayNext]_allVars
  PROVE  FrameInv'
<1>0. TypeOK
  BY ZenonT(40) DEF ManagerInv
<1>1. ASSUME NEW r \in RPC, NEW request \in Requests, AdmitFrame(r, request)
      PROVE  FrameInv'
  <2>1. txState' = [txState EXCEPT ![r] = "TxCreated"]
    BY <1>1, Zenon DEF AdmitFrame, CreateTransaction
  <2>2. frame[r] = "new" /\ frame' = [frame EXCEPT ![r] = "admitted"] /\ UNCHANGED handlerPushes
    BY <1>1 DEF AdmitFrame
  <2> QED
    BY <1>0, <2>1, <2>2 DEF FrameInv, TypeOK
<1>2. ASSUME NEW r \in RPC, NEW request \in Requests, NEW verdict \in Verdicts,
             RejectFrame(r, request, verdict)
      PROVE  FrameInv'
  <2> DEFINE n == IF HandlerAnswers(request, FrameOutcome(request, verdict)) THEN 1 ELSE 0
  <2>1. n \in 0..1 /\ handlerPushes' = [handlerPushes EXCEPT ![r] = n]
    BY <1>2 DEF RejectFrame
  <2> HIDE DEF n
  <2>2. frame[r] = "new" /\ frame' = [frame EXCEPT ![r] = "rejected"] /\ UNCHANGED txState
    BY <1>2, ZenonT(40) DEF RejectFrame, vars, managerVars
  <2> QED
    BY <2>1, <2>2, ZenonT(40) DEF FrameInv
<1>3. ASSUME UNCHANGED handlerVars, \A r \in RPC : txState[r] = "unused" => txState'[r] = "unused"
      PROVE  FrameInv'
  BY <1>3 DEF FrameInv, handlerVars
<1>4. CASE UNCHANGED handlerVars /\ UNCHANGED vars
  BY <1>3, <1>4, ZenonT(40) DEF vars, managerVars
<1>5. CASE UNCHANGED handlerVars /\ ManagerProceeds
  <2>1. ASSUME NEW r \in RPC, Proceeds(r)
        PROVE  \A p \in RPC : txState[p] = "unused" => txState'[p] = "unused"
    <3>1. \A p \in RPC \ {r} : txState'[p] = txState[p]
      BY <1>0, <2>1, OwnStep, Zenon DEF Proceeds, TransactionStep
    <3> QED
      BY <2>1, <3>1, UnusedStays
  <2>2. CASE ~ \E r \in RPC : Proceeds(r)
    BY <1>3, <1>5, <2>2, ZenonT(40) DEF ManagerProceeds, ReleaseOperationLock, ReleaseDelete, CacheExpire
  <2> QED
    BY <1>3, <1>5, <2>1, <2>2
<1> QED
  BY <1>1, <1>2, <1>4, <1>5, GatewayStepSplit
-----------------------------------------------------------------------------
Busy(g, r) == applier[g] # Idle /\ applier[g].result.rpc = r

Covered(r) ==
  \/ \E i \in 1..Len(resultQueue) : resultQueue[i].rpc = r
  \/ \E g \in Goroutines : Busy(g, r)

(* The goroutine waiting in the RespondAndRetain call in progress for r. *)
Retaining(g, r) ==
  applier[g].pc = "retaining" /\ applier[g].result.rpc = r /\ applier[g].op = retainOp[r]

(* Where every received result is: queued, being applied, or no longer needed.
   A hand-over in progress always has the goroutine that began it waiting. *)
ReceivedInv ==
  \A r \in RPC :
    /\ resultsSent[r] > 0 => r \in published
    /\ Live(r) /\ retainPc[r] # "idle" => \E g \in Goroutines : Retaining(g, r)
    /\ resultsSent[r] > 0 => Covered(r) \/ Settled(r)

(* A goroutine waiting for a hand-over is busy with its result. *)
LEMMA RetainingIsBusy ==
  ASSUME NEW g \in Goroutines, NEW r \in RPC, Retaining(g, r)
  PROVE  Busy(g, r)
  BY SMTT(40) DEF Retaining, Busy, Idle

(* Work of dispatchers, timers and hand-overs loses no result. *)
LEMMA ReceivedProceeds ==
  ASSUME ManagerInv, ReceivedInv, NEW r \in RPC, Proceeds(r),
         RetainStep(r) \/ UNCHANGED retainVars, UNCHANGED <<published, resultVars>>
  PROVE  ReceivedInv'
<1>0. TypeOK
  BY DEF ManagerInv
<1>1. UNCHANGED <<published, resultsSent, resultQueue, applier>>
  BY DEF resultVars
<1>2. Live(r)' => Live(r)
  BY DeadStays, ZenonT(40) DEF Live
<1>3. retainPc'[r] # "idle" => retainPc[r] # "idle" /\ retainOp'[r] = retainOp[r]
  <2> USE <1>0 DEF TypeOK, retainVars
  <2>1. CASE RetainStep(r)
    BY <2>1, Zenon DEF RetainStep, RetainStamp, RetainSave, RetainFailed, RetainCommitted, RetainRelease, RetainFinish
  <2>2. CASE UNCHANGED retainVars
    BY <2>2, Zenon
  <2> QED
    BY <2>1, <2>2
<1>4. ASSUME NEW p \in RPC
      PROVE  /\ Live(p)' /\ retainPc'[p] # "idle" =>
                  Live(p) /\ retainPc[p] # "idle" /\ retainOp'[p] = retainOp[p]
             /\ Settled(p) /\ (Live(p) => retainPc[p] = "idle") => Settled(p)'
  <2>1. CASE p = r
    BY <1>2, <1>3, <2>1, SettledStays, ZenonT(40)
  <2>2. CASE p # r
    BY <1>0, <2>2, OthersUndisturbed, ZenonT(40) DEF Live, Settled
  <2> QED
    BY <2>1, <2>2, Zenon
<1>5. ASSUME NEW p \in RPC, Live(p)', retainPc'[p] # "idle"
      PROVE  \E g \in Goroutines : Retaining(g, p)'
  <2>1. PICK g \in Goroutines : Retaining(g, p)
    BY <1>4, <1>5, Zenon DEF ReceivedInv
  <2>2. Retaining(g, p)'
    BY <1>1, <1>4, <1>5, <2>1, Zenon DEF Retaining
  <2> QED
    BY <2>2, Zenon
<1>6. ASSUME NEW p \in RPC, resultsSent'[p] > 0, ~Covered(p)'
      PROVE  Settled(p)'
  <2>1. ~Covered(p) /\ Settled(p)
    <3>1. ~Covered(p)
      BY <1>1, <1>6, Zenon DEF Covered, Busy
    <3>2. resultsSent[p] > 0
      BY <1>1, <1>6, Zenon
    <3> QED
      BY <3>1, <3>2, Zenon DEF ReceivedInv
  <2>2. Live(p) => retainPc[p] = "idle"
    BY <2>1, RetainingIsBusy, ZenonT(40) DEF ReceivedInv, Covered
  <2> QED
    BY <1>4, <2>1, <2>2, Zenon
<1> QED
  BY <1>1, <1>5, <1>6, ZenonT(40) DEF ReceivedInv

(* Neither do steps that touch no transaction and no result. *)
LEMMA ReceivedUnchanged ==
  ASSUME ReceivedInv, UNCHANGED <<txState, pendingReplies, retainVars, resultVars>>,
         published \subseteq published'
  PROVE  ReceivedInv'
  BY ZenonT(40) DEF ReceivedInv, Covered, Busy, Retaining, Settled, Live, retainVars, resultVars

(* A result that is queued leaves those before it where they are. *)
LEMMA AppendKeeps ==
  ASSUME NEW S, NEW s \in Seq(S), NEW e
  PROVE  /\ Len(Append(s, e)) = Len(s) + 1
         /\ Len(s) + 1 \in 1..Len(Append(s, e)) /\ Append(s, e)[Len(s) + 1] = e
         /\ \A i \in 1..Len(s) : i \in 1..Len(Append(s, e)) /\ Append(s, e)[i] = s[i]
  OBVIOUS

(* A result that arrives is queued, or the subscriber applies it itself. *)
LEMMA ReceivedDeviceResult ==
  ASSUME ReceivedInv, ResultInv, resultsSent \in [RPC -> Nat],
         NEW r \in RPC, NEW ok \in BOOLEAN, DeviceResult(r, ok)
  PROVE  ReceivedInv'
<1> DEFINE res == [rpc |-> r, ok |-> ok]
<1>1. UNCHANGED <<txState, pendingReplies, retainPc, retainOp, published>>
  BY Zenon DEF DeviceResult, vars, managerVars, retainVars
<1>2. \A p \in RPC : p # r => resultsSent'[p] = resultsSent[p]
  BY Zenon DEF DeviceResult
<1>3. r \in published /\ applier["subscriber"] = Idle
  BY Zenon DEF DeviceResult
<1>4. CASE Len(resultQueue) < resultCapacity
  <2>1. resultQueue' = Append(resultQueue, res) /\ UNCHANGED applier /\ resultQueue \in Seq(Result)
    BY <1>4, ZenonT(40) DEF DeviceResult, ResultInv
  <2>2. res.rpc = r
    BY Zenon
  <2> HIDE DEF res
  <2>a. /\ Len(resultQueue) + 1 \in 1..Len(resultQueue') /\ resultQueue'[Len(resultQueue) + 1] = res
        /\ \A i \in 1..Len(resultQueue) : i \in 1..Len(resultQueue') /\ resultQueue'[i] = resultQueue[i]
    BY <2>1, AppendKeeps
  <2>3. Covered(r)'
    BY <2>2, <2>a, ZenonT(40) DEF Covered
  <2>4. ASSUME NEW p \in RPC, Covered(p)
        PROVE  Covered(p)'
    <3>1. CASE \E g \in Goroutines : Busy(g, p)
      BY <2>1, <3>1, Zenon DEF Covered, Busy
    <3>2. ASSUME NEW i \in 1..Len(resultQueue), resultQueue[i].rpc = p
          PROVE  Covered(p)'
      <4>1. i \in 1..Len(resultQueue') /\ resultQueue'[i] = resultQueue[i]
        BY <2>a, Zenon
      <4> QED
        BY <3>2, <4>1, ZenonT(40) DEF Covered
    <3> QED
      BY <2>4, <3>1, <3>2, Zenon DEF Covered
  <2> QED
    BY <1>1, <1>2, <1>3, <2>1, <2>3, <2>4, ZenonT(40) DEF ReceivedInv, Retaining, Settled, Live
<1>5. CASE ~(Len(resultQueue) < resultCapacity)
  <2> DEFINE busy == [pc |-> "apply", result |-> res]
  <2>1. /\ applier' = [applier EXCEPT !["subscriber"] = busy]
        /\ UNCHANGED resultQueue
        /\ "subscriber" \in Goroutines /\ applier \in [Goroutines -> ApplierState]
    BY <1>5, ZenonT(40) DEF DeviceResult, ResultInv, Goroutines
  <2>2. busy # Idle /\ busy.result.rpc = r /\ Idle.pc = "idle"
    BY ZenonT(40) DEF Idle
  <2> HIDE DEF busy
  <2>3. applier'["subscriber"] = busy /\ \A g \in Goroutines : g # "subscriber" => applier'[g] = applier[g]
    BY <2>1, Zenon
  <2>4. Covered(r)'
    BY <2>1, <2>2, <2>3, Zenon DEF Covered, Busy
  <2>5. \A p \in RPC : Covered(p) => Covered(p)'
    BY <1>3, <2>1, <2>3, ZenonT(40) DEF Covered, Busy
  <2>6. \A p \in RPC, g \in Goroutines : Retaining(g, p) => Retaining(g, p)'
    BY <1>1, <1>3, <2>2, <2>3, SMTT(40) DEF Retaining
  <2> QED
    BY <1>1, <1>2, <1>3, <2>4, <2>5, <2>6, ZenonT(40) DEF ReceivedInv, Settled, Live
<1> QED
  BY <1>4, <1>5, Zenon

(* The worker takes the oldest result over. *)
LEMMA ReceivedWorker ==
  ASSUME ReceivedInv, ResultInv, WorkerReceive
  PROVE  ReceivedInv'
<1> DEFINE busy == [pc |-> "apply", result |-> Head(resultQueue)]
<1>1. UNCHANGED <<txState, pendingReplies, retainPc, retainOp, published, resultsSent>>
  BY Zenon DEF WorkerReceive, vars, managerVars, retainVars
<1>2. /\ applier' = [applier EXCEPT !["worker"] = busy]
      /\ "worker" \in Goroutines /\ applier \in [Goroutines -> ApplierState]
      /\ applier["worker"] = Idle
      /\ resultQueue \in Seq(Result) /\ resultQueue # <<>> /\ resultQueue' = Tail(resultQueue)
  BY ZenonT(40) DEF WorkerReceive, ResultInv, Goroutines
<1>3. busy # Idle /\ busy.result = Head(resultQueue) /\ Idle.pc = "idle"
  BY DEF Idle
<1> HIDE DEF busy
<1>4. applier'["worker"] = busy /\ \A g \in Goroutines : g # "worker" => applier'[g] = applier[g]
  BY <1>2, ZenonT(40)
<1>5. ASSUME NEW p \in RPC, Covered(p)
      PROVE  Covered(p)'
  <2>1. CASE \E g \in Goroutines : Busy(g, p)
    BY <1>2, <1>4, <2>1 DEF Covered, Busy
  <2>2. ASSUME NEW i \in 1..Len(resultQueue), resultQueue[i].rpc = p
        PROVE  Covered(p)'
    <3>1. CASE i = 1
      BY <1>2, <1>3, <1>4, <2>2, <3>1 DEF Covered, Busy
    <3>2. CASE i # 1
      <4>1. i - 1 \in 1..Len(resultQueue') /\ resultQueue'[i - 1] = resultQueue[i]
        BY <1>2, <3>2
      <4> QED
        BY <2>2, <4>1 DEF Covered
    <3> QED
      BY <3>1, <3>2, ZenonT(40)
  <2> QED
    BY <1>5, <2>1, <2>2, ZenonT(40) DEF Covered
<1>6. \A p \in RPC, g \in Goroutines : Retaining(g, p) => Retaining(g, p)'
  BY <1>1, <1>2, <1>3, <1>4, Zenon DEF Retaining
<1> QED
  BY <1>1, <1>5, <1>6, ZenonT(40) DEF ReceivedInv, Settled, Live

(* A goroutine that moves on disturbs only the transaction of its result. *)
LEMMA ApplierMoves ==
  ASSUME ResultInv, NEW g \in Goroutines, NEW state, applier[g].pc # "idle",
         applier' = [applier EXCEPT ![g] = state], UNCHANGED <<resultQueue>>
  PROVE  /\ applier'[g] = state
         /\ \A h \in Goroutines, p \in RPC : h # g /\ Busy(h, p) => Busy(h, p)'
         /\ \A p \in RPC : p # applier[g].result.rpc /\ Covered(p) => Covered(p)'
<1>1. applier'[g] = state /\ \A h \in Goroutines : h # g => applier'[h] = applier[h]
  BY DEF ResultInv
<1>2. \A h \in Goroutines, p \in RPC : h # g /\ Busy(h, p) => Busy(h, p)'
  BY <1>1, Zenon DEF Busy
<1>3. ASSUME NEW p \in RPC, p # applier[g].result.rpc, Covered(p)
      PROVE  Covered(p)'
  BY <1>2, <1>3, Zenon DEF Covered, Busy
<1> QED
  BY <1>1, <1>2, <1>3, Zenon

(* Applying a result for one transaction keeps track of the results for the
   others. *)
LEMMA OthersReceived ==
  ASSUME TypeOK, ReceivedInv, ResultInv, NEW g \in Goroutines, NEW r \in RPC, r = applier[g].result.rpc,
         applier[g].pc # "idle", UNCHANGED <<resultsSent, published, resultQueue>>,
         NEW state, applier' = [applier EXCEPT ![g] = state],
         Proceeds(r) \/ UNCHANGED vars,
         Live(r)' /\ retainPc'[r] # "idle" => \E h \in Goroutines : Retaining(h, r)',
         resultsSent[r] > 0 => Covered(r)' \/ Settled(r)'
  PROVE  ReceivedInv'
<1>1. ASSUME NEW p \in RPC, p # r
      PROVE  /\ txState'[p] = txState[p] /\ pendingReplies'[p] = pendingReplies[p]
             /\ retainPc'[p] = retainPc[p] /\ retainOp'[p] = retainOp[p]
  <2>1. CASE Proceeds(r)
    BY <1>1, <2>1, OthersUndisturbed, Zenon
  <2>2. CASE UNCHANGED vars
    BY <2>2, Zenon DEF vars, managerVars, retainVars
  <2> QED
    BY <2>1, <2>2, Zenon
<1>2. ASSUME NEW p \in RPC, p # r, NEW h \in Goroutines, Retaining(h, p)
      PROVE  Retaining(h, p)'
  <2>1. h # g
    BY <1>2, ZenonT(40) DEF Retaining
  <2>2. applier'[h] = applier[h]
    BY <2>1 DEF ResultInv
  <2> QED
    BY <1>1, <1>2, <2>2, Zenon DEF Retaining
<1>3. ASSUME NEW p \in RPC, p # r
      PROVE  Covered(p) => Covered(p)'
  BY <1>3, ApplierMoves, Zenon
<1>4. ASSUME NEW p \in RPC, p # r
      PROVE  Settled(p) => Settled(p)'
  BY <1>1, <1>4, Zenon DEF Settled, Live
<1>5. ASSUME NEW p \in RPC, p # r, Live(p)', retainPc'[p] # "idle"
      PROVE  \E h \in Goroutines : Retaining(h, p)'
  BY <1>1, <1>2, <1>5, Zenon DEF ReceivedInv, Live
<1>6. SUFFICES ASSUME NEW p \in RPC
               PROVE  /\ resultsSent[p] > 0 => p \in published
                      /\ Live(p)' /\ retainPc'[p] # "idle" => \E h \in Goroutines : Retaining(h, p)'
                      /\ resultsSent[p] > 0 => Covered(p)' \/ Settled(p)'
  BY <1>6, Zenon DEF ReceivedInv
<1>7. CASE p = r
  BY <1>7, Zenon DEF ReceivedInv
<1>8. CASE p # r
  BY <1>3, <1>4, <1>5, <1>8, Zenon DEF ReceivedInv
<1> QED
  BY <1>7, <1>8, Zenon

(* If the transaction is in a hand-over that another goroutine waits for, that
   goroutine still waits, and still has a result of it. *)
LEMMA OtherStillRetaining ==
  ASSUME ReceivedInv, ResultInv, NEW g \in Goroutines, NEW r \in RPC,
         NEW state, applier' = [applier EXCEPT ![g] = state], ~Retaining(g, r),
         retainOp'[r] = retainOp[r], Live(r), retainPc[r] # "idle"
  PROVE  (\E h \in Goroutines : Retaining(h, r)') /\ Covered(r)'
<1>1. PICK h \in Goroutines : Retaining(h, r)
  BY Zenon DEF ReceivedInv
<1>2. h # g
  BY <1>1, Zenon
<1>3. applier'[h] = applier[h]
  BY <1>2 DEF ResultInv
<1>4. Busy(h, r)
  BY <1>1, RetainingIsBusy, Zenon
<1>5. Retaining(h, r)' /\ Busy(h, r)'
  BY <1>1, <1>3, <1>4, ZenonT(40) DEF Retaining, Busy
<1> QED
  BY <1>5, Zenon DEF Covered

(* Complete and Fail settle the transaction, unless it is in a hand-over. *)
LEMMA OutcomeReceived ==
  ASSUME ManagerInv, ReceivedInv, ResultInv, NEW g \in Goroutines, NEW r \in RPC, r = applier[g].result.rpc,
         applier[g].pc # "idle", UNCHANGED <<resultsSent, published, resultQueue>>,
         applier' = [applier EXCEPT ![g] = Idle], ~Retaining(g, r), Complete(r) \/ Fail(r)
  PROVE  ReceivedInv'
<1>0. TypeOK
  BY Zenon DEF ManagerInv
<1>1. UNCHANGED <<retainPc, retainOp>> /\ Live(r) /\ Proceeds(r)
  BY Zenon DEF Complete, Fail, retainVars, Proceeds
<1>2. CASE retainPc[r] # "idle"
  <2>1. (\E h \in Goroutines : Retaining(h, r)') /\ Covered(r)'
    BY <1>1, <1>2, OtherStillRetaining, Zenon
  <2> QED
    BY <1>0, <1>1, <2>1, OthersReceived, Zenon
<1>3. CASE retainPc[r] = "idle"
  <2>1. ~handoffInProgress[r]
    BY <1>1, <1>3, ZenonT(40) DEF ManagerInv, HandoffInv
  <2>2. Settled(r)'
    BY <1>1, <2>1, ApplySettles, Zenon
  <2> QED
    BY <1>0, <1>1, <1>3, <2>2, OthersReceived, ZenonT(40)
<1> QED
  BY <1>2, <1>3

(* A result that changes nothing is kept, or it was not needed. *)
LEMMA IdleReceived ==
  ASSUME ManagerInv, ReceivedInv, ResultInv, NEW g \in Goroutines, NEW r \in RPC, r = applier[g].result.rpc,
         applier[g].pc # "idle", UNCHANGED <<resultsSent, published, resultQueue>>,
         UNCHANGED vars, NEW state, applier' = [applier EXCEPT ![g] = state], ~Retaining(g, r),
         \/ Settled(r)
         \/ Live(r) /\ retainPc[r] # "idle"
         \/ state # Idle /\ state.result.rpc = r
  PROVE  ReceivedInv'
<1>0. TypeOK
  BY Zenon DEF ManagerInv
<1>1. UNCHANGED <<txState, pendingReplies, retainPc, retainOp>>
  BY Zenon DEF vars, managerVars, retainVars
<1>2. state # Idle /\ state.result.rpc = r => Covered(r)'
  <2>1. applier'[g] = state
    BY ApplierMoves, ZenonT(40)
  <2> QED
    BY <2>1, ZenonT(40) DEF Covered, Busy
<1>3. Live(r) /\ retainPc[r] # "idle" => (\E h \in Goroutines : Retaining(h, r)') /\ Covered(r)'
  BY <1>1, OtherStillRetaining, Zenon
<1>4. Live(r)' /\ retainPc'[r] # "idle" => \E h \in Goroutines : Retaining(h, r)'
  BY <1>1, <1>3, Zenon DEF Live
<1>5. Covered(r)' \/ Settled(r)'
  BY <1>1, <1>2, <1>3, Zenon DEF Settled, Live
<1> QED
  BY <1>0, <1>4, <1>5, OthersReceived, Zenon

(* A result that has been applied is no longer needed, or its transaction is
   being handed over by the other goroutine. *)
LEMMA ReceivedApply ==
  ASSUME ManagerInv, ReceivedInv, ResultInv, NEW g \in Goroutines, ApplyStep(g)
  PROVE  ReceivedInv'
<1>0. TypeOK
  BY Zenon DEF ManagerInv
<1>1. UNCHANGED <<resultsSent, published, resultQueue>>
  BY Zenon DEF ApplyStep, ApplyResult, ApplyAcceptance, ApplyRefused, RetainReturns, FailAfterRetain
<1>2. applier[g].pc # "idle"
  BY ZenonT(40) DEF ApplyStep, ApplyResult, ApplyAcceptance, ApplyRefused, RetainReturns, FailAfterRetain, Applying
<1>3. PICK r \in RPC : r = applier[g].result.rpc
  BY <1>2, Zenon DEF ResultInv
<1>4. CASE ApplyResult(g)
  <2>1. applier' = [applier EXCEPT ![g] = Idle] /\ ~Retaining(g, r)
    BY <1>4, ZenonT(40) DEF ApplyResult, Becomes, Applying, Retaining
  <2>2. \/ Complete(r) \/ Fail(r)
        \/ UNCHANGED vars /\ (Settled(r) \/ (handoffInProgress[r] /\ activeStateTx = r))
    BY <1>3, <1>4, Zenon DEF ApplyResult, Settled
  <2>3. handoffInProgress[r] /\ activeStateTx = r => Live(r) /\ retainPc[r] # "idle"
    BY Zenon DEF ManagerInv, StateLockConsistent, HandoffInv
  <2>4. CASE Complete(r) \/ Fail(r)
    BY <1>1, <1>2, <1>3, <2>1, <2>4, OutcomeReceived, Zenon
  <2> QED
    BY <1>1, <1>2, <1>3, <2>1, <2>2, <2>3, <2>4, IdleReceived, ZenonT(40)
<1>5. CASE ApplyAcceptance(g)
  <2> DEFINE op == CHOOSE o \in Op : opRPC[o] = None
             state == [pc |-> "retaining", result |-> applier[g].result, op |-> op]
  <2>1. op \in Op /\ RespondAndRetain(r, op) /\ applier' = [applier EXCEPT ![g] = state]
    BY <1>3, <1>5, ZenonT(40) DEF ApplyAcceptance, Becomes
  <2>2. state.pc = "retaining" /\ state # Idle /\ state.result.rpc = r /\ state.op = op
    BY <1>3 DEF Idle
  <2> HIDE DEF op, state
  <2>3. applier'[g] = state
    BY <1>1, <1>2, <2>1, ApplierMoves, ZenonT(40)
  <2>4. retainOp'[r] = op
    BY <1>0, <1>3, <2>1, ZenonT(40) DEF RespondAndRetain, TypeOK
  <2>5. Retaining(g, r)' /\ Covered(r)'
    BY <2>2, <2>3, <2>4 DEF Retaining, Covered, Busy
  <2>6. Proceeds(r)
    BY <2>1, Zenon DEF Proceeds
  <2> QED
    BY <1>0, <1>1, <1>2, <1>3, <2>1, <2>5, <2>6, OthersReceived, ZenonT(40)
<1>6. CASE ApplyRefused(g) \/ RetainReturns(g)
  <2> DEFINE state == [pc |-> "failing", result |-> applier[g].result]
  <2>1. applier' = [applier EXCEPT ![g] = state] /\ UNCHANGED vars
    BY <1>6, ZenonT(40) DEF ApplyRefused, RetainReturns, Becomes
  <2>2. ~Retaining(g, r)
    BY <1>3, <1>6, ZenonT(40) DEF ApplyRefused, RetainReturns, Applying, Retaining
  <2>3. state # Idle /\ state.result.rpc = r
    BY <1>3 DEF Idle
  <2> HIDE DEF state
  <2> QED
    BY <1>1, <1>2, <1>3, <2>1, <2>2, <2>3, IdleReceived, ZenonT(40)
<1>7. CASE FailAfterRetain(g)
  <2>1. applier' = [applier EXCEPT ![g] = Idle] /\ ~Retaining(g, r)
    BY <1>7, ZenonT(40) DEF FailAfterRetain, Becomes, Retaining
  <2>2. Fail(r) \/ (UNCHANGED vars /\ Settled(r))
    BY <1>3, <1>7, Zenon DEF FailAfterRetain, Settled
  <2> QED
    BY <1>1, <1>2, <1>3, <2>1, <2>2, IdleReceived, OutcomeReceived, ZenonT(40)
<1> QED
  BY <1>4, <1>5, <1>6, <1>7, Zenon DEF ApplyStep

(* Received results are accounted for after every step. *)
LEMMA ReceivedPreserves ==
  ASSUME ManagerInv, ResultInv, DispatchInv, ReceivedInv, resultsSent \in [RPC -> Nat],
         [GatewayNext]_allVars
  PROVE  ReceivedInv'
<1>0. TypeOK
  BY DEF ManagerInv
<1>1. ASSUME UNCHANGED <<vars, resultVars>>, published \subseteq published'
      PROVE  ReceivedInv'
  BY <1>1, ReceivedUnchanged, Zenon DEF vars, managerVars
<1>2. CASE UNCHANGED allVars \/ NATSConnect \/ NATSSubscribe
  BY <1>1, <1>2, Zenon DEF allVars, gatewayVars, NATSConnect, NATSSubscribe
<1>3. ASSUME NEW r \in RPC, HandleFrame(r)
      PROVE  ReceivedInv'
  <2>1. ASSUME NEW request \in Requests, AdmitFrame(r, request)
        PROVE  ReceivedInv'
    <3>1. txState' = [txState EXCEPT ![r] = "TxCreated"] /\ UNCHANGED <<pendingReplies, retainPc, retainOp>>
      BY <2>1, Zenon DEF AdmitFrame, CreateTransaction, retainVars
    <3>2. UNCHANGED <<published, resultsSent, resultQueue, applier>>
      BY <2>1, Zenon DEF AdmitFrame, resultVars
    <3>3. retainPc[r] = "idle" /\ r \notin published
      BY <2>1, Zenon DEF AdmitFrame, DispatchInv, Dispatched
    <3>4. \A p \in RPC \ {r} : txState'[p] = txState[p]
      BY <1>0, <3>1, ZenonT(40) DEF TypeOK
    <3>5. ASSUME NEW p \in RPC \ {r}
          PROVE  (Settled(p) <=> Settled(p)') /\ (Live(p) <=> Live(p)')
      BY <3>1, <3>4, SMTT(40) DEF Settled, Live
    <3>6. ASSUME NEW p \in RPC
          PROVE  (Covered(p) <=> Covered(p)') /\ \A g \in Goroutines : Retaining(g, p) <=> Retaining(g, p)'
      BY <3>1, <3>2, ZenonT(40) DEF Covered, Busy, Retaining
    <3> QED
      BY <3>1, <3>2, <3>3, <3>5, <3>6 DEF ReceivedInv
  <2>2. ASSUME NEW request \in Requests, NEW verdict \in Verdicts, RejectFrame(r, request, verdict)
        PROVE  ReceivedInv'
    BY <1>1, <2>2 DEF RejectFrame
  <2> QED
    BY <1>3, <2>1, <2>2, ZenonT(40) DEF HandleFrame
<1>4. ASSUME NEW r \in RPC, ExecuteTransaction(r)
      PROVE  ReceivedInv'
  <2>1. CASE ExecPublish(r)
    BY <1>1, <2>1 DEF ExecPublish
  <2>2. CASE ~ExecPublish(r)
    <3>1. UNCHANGED <<published, resultVars>>
      BY <1>4, <2>2, Zenon DEF ExecuteTransaction, ExecAcquire, ExecPrepare, ExecPending, ExecMark, ExecFail
    <3>2. UNCHANGED vars \/ (Proceeds(r) /\ UNCHANGED retainVars)
      BY <1>4, <2>2, Zenon DEF ExecuteTransaction, ExecAcquire, ExecPrepare, ExecPending, ExecMark, ExecFail, Proceeds,
         MarkPreparingDispatch, MarkPendingPublish, Advance, MarkInFlight, Fail
    <3> QED
      BY <1>1, <3>1, <3>2, ReceivedProceeds
  <2> QED
    BY <2>1, <2>2, ZenonT(40)
<1>5. ASSUME NEW r \in RPC, NEW ok \in BOOLEAN, DeviceResult(r, ok)
      PROVE  ReceivedInv'
  BY <1>5, ReceivedDeviceResult
<1>6. CASE ManagerAlone
  <2>1. UNCHANGED <<published, resultVars>>
    BY <1>6 DEF ManagerAlone, gatewayVars
  <2>2. ASSUME NEW r \in RPC, ManagerTimer(r) \/ RetainStep(r)
        PROVE  ReceivedInv'
    <3>1. Proceeds(r) /\ (RetainStep(r) \/ UNCHANGED retainVars)
      BY <2>2 DEF ManagerTimer, Proceeds, ResponseTimerFires, Timeout
    <3> QED
      BY <2>1, <3>1, ReceivedProceeds, ZenonT(40)
  <2>3. CASE ~ \E r \in RPC : ManagerTimer(r) \/ RetainStep(r)
    <3>1. UNCHANGED <<txState, pendingReplies, retainVars>>
      BY <1>6, <2>3, Zenon DEF ManagerAlone, ReleaseOperationLock, ReleaseDelete, CacheExpire
    <3> QED
      BY <2>1, <3>1, ReceivedUnchanged
  <2> QED
    BY <2>2, <2>3
<1> QED
  BY <1>2, <1>3, <1>4, <1>5, <1>6, ReceivedWorker, ReceivedApply, ZenonT(40) DEF GatewayNext

(* The bounds of the result path, and the NATS client's start-up. *)
BoundsInv ==
  /\ resultsSent \in [RPC -> 0..MaxResults]
  /\ Len(resultQueue) <= resultCapacity
  /\ natsLink \in {"connecting", "connected"}
  /\ natsPc \in {"down", "subscribing", "up"}

(* A result is queued only when there is room for it. *)
LEMMA BoundsPreserved ==
  ASSUME ResultInv, BoundsInv, [GatewayNext]_allVars
  PROVE  BoundsInv'
<1>1. CASE UNCHANGED <<resultsSent, resultQueue, natsLink, natsPc>>
  BY <1>1, ZenonT(40) DEF BoundsInv
<1>2. ASSUME NEW r \in RPC, NEW ok \in BOOLEAN, DeviceResult(r, ok)
      PROVE  BoundsInv'
  <2>1. /\ resultsSent[r] < MaxResults /\ resultsSent' = [resultsSent EXCEPT ![r] = @ + 1]
        /\ UNCHANGED natsVars
        /\ \/ /\ Len(resultQueue) < resultCapacity
              /\ resultQueue' = Append(resultQueue, [rpc |-> r, ok |-> ok])
           \/ UNCHANGED resultQueue
    BY <1>2, Zenon DEF DeviceResult
  <2>2. resultsSent' \in [RPC -> 0..MaxResults]
    <3>1. resultsSent \in [RPC -> 0..MaxResults] /\ resultsSent[r] + 1 \in 0..MaxResults
      BY <2>1, GatewayConstants DEF BoundsInv
    <3> QED
      BY <2>1, <3>1, Zenon
  <2>3. Len(resultQueue') <= resultCapacity
    <3>1. Len(resultQueue) <= resultCapacity /\ resultQueue \in Seq(Result)
      BY Zenon DEF BoundsInv, ResultInv
    <3> QED
      BY <2>1, <3>1, GatewayConstants
  <2> QED
    BY <2>1, <2>2, <2>3, ZenonT(40) DEF BoundsInv, natsVars
<1>3. CASE WorkerReceive
  <2>1. Len(Tail(resultQueue)) <= resultCapacity
    BY <1>3, GatewayConstants DEF WorkerReceive, BoundsInv, ResultInv
  <2> QED
    BY <1>3, <2>1, Zenon DEF WorkerReceive, BoundsInv, natsVars
<1>4. CASE NATSConnect \/ NATSSubscribe
  BY <1>4 DEF NATSConnect, NATSSubscribe, BoundsInv, resultVars
<1>5. ASSUME NEW r \in RPC, HandleFrame(r) \/ ExecuteTransaction(r)
      PROVE  UNCHANGED <<resultVars, natsVars>>
  BY <1>5, Zenon DEF HandleFrame, AdmitFrame, RejectFrame, ExecuteTransaction, ExecAcquire, ExecPrepare, ExecPending,
     ExecPublish, ExecMark, ExecFail
<1>6. ASSUME NEW g \in Goroutines, ApplyStep(g)
      PROVE  UNCHANGED <<resultsSent, resultQueue, natsVars>>
  BY <1>6, Zenon DEF ApplyStep, ApplyResult, ApplyAcceptance, ApplyRefused, RetainReturns, FailAfterRetain
<1>7. CASE ManagerAlone \/ UNCHANGED allVars
  BY <1>1, <1>7 DEF ManagerAlone, allVars, gatewayVars, resultVars, natsVars
<1> QED
  BY <1>1, <1>2, <1>3, <1>4, <1>5, <1>6, <1>7, ZenonT(40) DEF GatewayNext, resultVars, natsVars
-----------------------------------------------------------------------------
(* Nothing is published or received when the daemon starts. *)
LEMMA InitEstablishesDispatch ==
  GatewayInit => Init /\ ResultInv /\ DispatchInv /\ FrameInv /\ ReceivedInv /\ BoundsInv
<1> SUFFICES ASSUME GatewayInit PROVE ResultInv /\ DispatchInv /\ FrameInv /\ ReceivedInv /\ BoundsInv
  BY ZenonT(40) DEF GatewayInit
<1>1. ResultInv
  BY DEF GatewayInit, ResultInv, ApplierState, Idle
<1>2. DispatchInv
  BY ZenonT(40) DEF GatewayInit, DispatchInv, DispatcherInStep, ExecStates, Init, ManagerInit
<1>3. FrameInv
  BY DEF GatewayInit, FrameInv, Init, ManagerInit
<1>4. ReceivedInv
  BY DEF GatewayInit, ReceivedInv, Init, ManagerInit
<1>5. BoundsInv
  BY GatewayConstants DEF GatewayInit, BoundsInv
<1> QED
  BY <1>1, <1>2, <1>3, <1>4, <1>5, ZenonT(40)

(* Results are about published commands in every reachable state. *)
LEMMA ResultInvariance == GatewaySpec => []ResultInv
<1>1. ResultInv /\ [GatewayNext]_allVars => ResultInv'
  BY ResultInvPreserves
<1> QED
  BY <1>1, InitEstablishesDispatch, PTL DEF GatewaySpec

(* The daemon implements the open request manager: its goroutines only ever
   take the manager's steps (main.go and handler.go call nothing else). *)
THEOREM GatewayImplementsManager == GatewaySpec => Spec
<1>1. ResultInv /\ [GatewayNext]_allVars => [ManagerNext]_vars
  BY GatewayStepIsManagerStep
<1> QED
  BY <1>1, InitEstablishesDispatch, ResultInvariance, PTL DEF GatewaySpec, Spec

(* What the goroutines of the daemon know about each other: dispatchers,
   frames and results. *)
GatewayInv == ResultInv /\ DispatchInv /\ FrameInv /\ ReceivedInv /\ BoundsInv

(* It is inductive, given the invariant of the manager they call. *)
LEMMA GatewayInvariance == GatewaySpec => [](ManagerInv /\ GatewayInv)
<1>1. ManagerInv /\ GatewayInv /\ [GatewayNext]_allVars => GatewayInv'
  <2> SUFFICES ASSUME ManagerInv, GatewayInv, [GatewayNext]_allVars PROVE GatewayInv'
    OBVIOUS
  <2>1. resultsSent \in [RPC -> Nat]
    BY GatewayConstants DEF GatewayInv, BoundsInv
  <2> QED
    BY <2>1, ResultInvPreserves, DispatchPreserves, FramePreserves, ReceivedPreserves, BoundsPreserved, Zenon DEF GatewayInv
<1>2. GatewayInit => GatewayInv
  BY InitEstablishesDispatch DEF GatewayInv
<1> QED
  BY <1>1, <1>2, GatewayImplementsManager, ManagerInvariance, PTL DEF GatewaySpec

(* The dispatcher and its transaction stay in step for every number of requests,
   whatever dispatchers, appliers, timers and hand-overs do: executeTransaction
   publishes only for a live transaction in TxPendingPublish. *)
THEOREM DispatcherStaysInStep == GatewaySpec => []DispatcherInStep
<1>1. GatewayInv => DispatcherInStep
  BY ZenonT(40) DEF GatewayInv, DispatchInv
<1> QED
  BY <1>1, GatewayInvariance, PTL

(* No device result is lost to the bounded queue, for every capacity, number of
   requests and number of results: while a transaction waits for the device,
   every result received for it is queued or being applied (handleNATSResult,
   processNATSResult). *)
THEOREM NoResultLost == GatewaySpec => []ReceivedResultNotLost
<1>1. GatewayInv => ReceivedResultNotLost
  <2> SUFFICES ASSUME GatewayInv, NEW r \in RPC, txState[r] = "TxInFlight", resultsSent[r] > 0
               PROVE  Covered(r)
    BY ZenonT(40) DEF ReceivedResultNotLost, Covered, Busy
  <2>1. Live(r) /\ txState[r] \notin PreFlight
    BY DEF Live, LiveStates, PreFlight
  <2> QED
    BY <2>1, Zenon DEF GatewayInv, ReceivedInv, Settled
<1> QED
  BY <1>1, GatewayInvariance, PTL

(* A transaction that has not reached the device is in the hands of its
   dispatcher, or of a hand-over that has an event to end it with; and the
   dispatcher marks in flight only what it has published. *)
Owed(r) ==
  /\ exec[r] = "mark" => txState[r] \notin {"TxCreated", "TxPreparingDispatch"}
  /\ txState[r] \in PreFlight =>
       \/ exec[r] \notin {"none", "done"}
       \/ retainPc[r] # "idle" /\ pendingReplies[r] # None

OwedInv == \A r \in RPC : Owed(r)

(* Whoever works on a transaction while its dispatcher stands still. *)
LEMMA OwedProceeds ==
  ASSUME ManagerInv, NEW r \in RPC, Owed(r), Proceeds(r), exec'[r] = exec[r]
  PROVE  Owed(r)'
<1>1. exec'[r] = "mark" => txState'[r] \notin {"TxCreated", "TxPreparingDispatch"}
  BY NeverBack, Zenon DEF Owed
<1>2. ASSUME txState'[r] \in PreFlight, exec[r] \in {"none", "done"}
      PROVE  retainPc'[r] # "idle" /\ pendingReplies'[r] # None
  <2>1. txState[r] \in PreFlight
    BY <1>2, NeverBack, Zenon
  <2> QED
    BY <1>2, <2>1, BufferedHandOverEnds, Zenon DEF Owed
<1> QED
  BY <1>1, <1>2, Zenon DEF Owed

(* The dispatcher's own steps: it lets a transaction go only in flight, ended,
   or with the failure left to the hand-over. *)
LEMMA OwedDispatch ==
  ASSUME ManagerInv, DispatchInv, NEW r \in RPC, Owed(r), ExecuteTransaction(r)
  PROVE  Owed(r)'
<1> USE DEF ExecGoes
<1>0. exec \in [RPC -> ExecStates] /\ TypeOK
  BY Zenon DEF DispatchInv, ManagerInv
<1>1. CASE ExecAcquire(r)
  <2>1. exec'[r] \in {"prepare", "overflow"}
    BY <1>0, <1>1, ZenonT(40) DEF ExecAcquire
  <2> QED
    BY <2>1, Zenon DEF Owed
<1>2. CASE ExecPrepare(r) \/ ExecPending(r)
  <2>1. exec'[r] \in {"pending", "publish"}
    BY <1>0, <1>2, ZenonT(40) DEF ExecPrepare, ExecPending
  <2> QED
    BY <2>1, Zenon DEF Owed
<1>3. CASE ExecPublish(r)
  <2>1. exec'[r] \in {"mark", "failing"}
    BY <1>0, <1>3, ZenonT(40) DEF ExecPublish
  <2>2. txState'[r] = "TxPendingPublish"
    BY <1>3, Zenon DEF ExecPublish, DispatchInv, DispatcherInStep, vars, managerVars
  <2> QED
    BY <2>1, <2>2, Zenon DEF Owed
<1>4. CASE ExecMark(r)
  <2>1. exec[r] = "mark" /\ exec'[r] = "done"
    BY <1>0, <1>4, ZenonT(40) DEF ExecMark
  <2>2. txState'[r] \notin PreFlight
    <3>1. CASE MarkInFlight(r)
      BY <3>1, MarkLeavesPreFlight, Zenon
    <3>2. CASE UNCHANGED vars /\ ~validateTransition(txState[r], "TxInFlight")
      <4>1. txState'[r] = txState[r] /\ txState[r] # "TxPendingPublish"
        BY <3>2, Zenon DEF vars, managerVars, validateTransition
      <4> QED
        BY <2>1, <4>1, Zenon DEF Owed, PreFlight
    <3> QED
      BY <1>4, <3>1, <3>2, Zenon DEF ExecMark
  <2> QED
    BY <2>1, <2>2, Zenon DEF Owed
<1>5. CASE ExecFail(r)
  <2>1. exec'[r] = "done"
    BY <1>0, <1>5, ZenonT(40) DEF ExecFail
  <2>2. ASSUME txState'[r] \in PreFlight
        PROVE  retainPc'[r] # "idle" /\ pendingReplies'[r] # None
    <3>1. CASE Fail(r)
      BY <2>2, <3>1, FailLeavesPreFlight, Zenon
    <3>2. CASE UNCHANGED vars /\ ~Live(r)
      BY <2>2, <3>2, Zenon DEF vars, managerVars, Live, LiveStates
    <3> QED
      BY <1>5, <3>1, <3>2, Zenon DEF ExecFail
  <2> QED
    BY <2>1, <2>2, Zenon DEF Owed
<1> QED
  BY <1>1, <1>2, <1>3, <1>4, <1>5, Zenon DEF ExecuteTransaction

(* Every step of the daemon keeps every transaction owed. *)
LEMMA OwedPreserves ==
  ASSUME ManagerInv, ResultInv, DispatchInv, OwedInv, [GatewayNext]_allVars
  PROVE  OwedInv'
<1>0. TypeOK /\ exec \in [RPC -> ExecStates]
  BY Zenon DEF ManagerInv, DispatchInv
<1>1. ASSUME NEW p \in RPC, txState'[p] = txState[p], retainPc'[p] = retainPc[p],
             pendingReplies'[p] = pendingReplies[p], exec'[p] = exec[p]
      PROVE  Owed(p)'
  BY <1>1, Zenon DEF OwedInv, Owed
<1>2. ASSUME UNCHANGED <<txState, retainPc, pendingReplies, exec>> PROVE OwedInv'
  BY <1>1, <1>2, Zenon DEF OwedInv
<1>3. ASSUME NEW r \in RPC, Owed(r)', Proceeds(r), \A p \in RPC \ {r} : exec'[p] = exec[p]
      PROVE  OwedInv'
  <2> SUFFICES ASSUME NEW p \in RPC, p # r PROVE Owed(p)'
    BY <1>3, Zenon DEF OwedInv
  <2> QED
    BY <1>0, <1>1, <1>3, OthersUndisturbed, Zenon
<1>4. ASSUME NEW r \in RPC, NEW request \in Requests, AdmitFrame(r, request)
      PROVE  OwedInv'
  <2>1. /\ txState' = [txState EXCEPT ![r] = "TxCreated"] /\ exec' = [exec EXCEPT ![r] = "start"]
        /\ UNCHANGED <<retainPc, pendingReplies>>
    BY <1>4, Zenon DEF AdmitFrame, CreateTransaction, retainVars
  <2>2. exec'[r] = "start" /\ \A p \in RPC \ {r} : txState'[p] = txState[p] /\ exec'[p] = exec[p]
    BY <1>0, <2>1, Zenon DEF TypeOK
  <2>3. Owed(r)'
    BY <2>2, Zenon DEF Owed
  <2> QED
    BY <1>1, <2>1, <2>2, <2>3, Zenon DEF OwedInv
<1>5. ASSUME NEW r \in RPC, ExecuteTransaction(r)
      PROVE  OwedInv'
  <2>1. Owed(r)'
    BY <1>5, OwedDispatch, Zenon DEF OwedInv
  <2>2. \A p \in RPC \ {r} : exec'[p] = exec[p]
    BY <1>0, <1>5, Zenon DEF ExecuteTransaction, ExecAcquire, ExecPrepare, ExecPending, ExecPublish, ExecMark, ExecFail,
       ExecGoes
  <2>3. CASE Proceeds(r)
    BY <1>3, <2>1, <2>2, <2>3, Zenon
  <2>4. CASE UNCHANGED vars
    <3> SUFFICES ASSUME NEW p \in RPC, p # r PROVE Owed(p)'
      BY <2>1, Zenon DEF OwedInv
    <3> QED
      BY <1>1, <2>2, <2>4, Zenon DEF vars, managerVars, retainVars
  <2> QED
    BY <1>5, <2>3, <2>4, Zenon DEF ExecuteTransaction, ExecAcquire, ExecPrepare, ExecPending, ExecPublish, ExecMark,
       ExecFail, Proceeds
<1>6. CASE UNCHANGED exec /\ (UNCHANGED vars \/ ManagerProceeds)
  <2>1. CASE UNCHANGED vars
    BY <1>2, <1>6, <2>1, Zenon DEF vars, managerVars, retainVars
  <2>2. ASSUME NEW r \in RPC, Proceeds(r) PROVE OwedInv'
    BY <1>3, <1>6, <2>2, OwedProceeds, Zenon DEF OwedInv
  <2>3. CASE \/ \E op \in Op : ReleaseOperationLock(op) \/ ReleaseDelete(op)
             \/ \E k \in Key : CacheExpire(k)
    BY <1>2, <1>6, <2>3, Zenon DEF ReleaseOperationLock, ReleaseDelete, CacheExpire, retainVars
  <2> QED
    BY <1>6, <2>1, <2>2, <2>3, Zenon DEF ManagerProceeds
<1>7. \/ UNCHANGED exec
      \/ \E r \in RPC : ExecuteTransaction(r)
      \/ \E r \in RPC, request \in Requests : AdmitFrame(r, request)
  BY ZenonT(40) DEF GatewayNext, HandleFrame, RejectFrame, DeviceResult, WorkerReceive, ApplyStep, ApplyResult, ApplyAcceptance,
     ApplyRefused, RetainReturns, FailAfterRetain, NATSConnect, NATSSubscribe, ManagerAlone, gatewayVars, allVars
<1>8. ASSUME NEW r \in RPC, NEW request \in Requests, NEW verdict \in Verdicts, RejectFrame(r, request, verdict)
      PROVE  UNCHANGED vars
  BY <1>8, Zenon DEF RejectFrame
<1> QED
  BY <1>4, <1>5, <1>6, <1>7, <1>8, GatewayStepSplit, ZenonT(40)

(* No live transaction is ever forgotten, for every number of requests and
   results, capacity and fault: it is with its dispatcher, its timer or timeout
   callback, or a goroutine inside the RespondAndRetain call for it
   (executeTransaction, handleNATSResult).  With the fairness of the goroutines
   this is why every request is answered. *)
THEOREM NoTransactionForgotten == GatewaySpec => []TransactionInHand
<1>1. GatewaySpec => []OwedInv
  <2>1. GatewayInit => OwedInv
    BY Zenon DEF GatewayInit, Init, ManagerInit, OwedInv, Owed, PreFlight
  <2>2. ManagerInv /\ GatewayInv /\ OwedInv /\ [GatewayNext]_allVars => OwedInv'
    BY OwedPreserves, Zenon DEF GatewayInv
  <2> QED
    BY <2>1, <2>2, GatewayInvariance, PTL DEF GatewaySpec
<1>2. GatewayInv /\ OwedInv /\ InFlightHasDeadline => TransactionInHand
  <2> SUFFICES ASSUME GatewayInv, OwedInv, InFlightHasDeadline, NEW r \in RPC, Live(r),
                      exec[r] \in {"none", "done"}, ~responseTimer[r], ~timeoutCall[r]
               PROVE  retainPc[r] # "idle" /\ \E g \in Goroutines : Retaining(g, r)
    BY Zenon DEF TransactionInHand, Retaining
  <2>1. retainPc[r] # "idle"
    BY Zenon DEF OwedInv, Owed, InFlightHasDeadline, Live, LiveStates
  <2> QED
    BY <2>1, Zenon DEF GatewayInv, ReceivedInv
<1> QED
  BY <1>1, <1>2, GatewayInvariance, GatewayImplementsManager, InFlightNeverHangs, PTL

(* No cloud frame is answered twice, whichever of the handler, the dispatcher,
   the appliers and the timer answers first, and an admitted notification never
   is (HandleFrame, terminalTransition). *)
THEOREM FramesAnsweredAtMostOnce == GatewaySpec => []AnsweredAtMostOnce
<1>1. GatewayInv /\ ExactlyOneResponse => AnsweredAtMostOnce
  <2> SUFFICES ASSUME GatewayInv, ExactlyOneResponse, NEW r \in RPC
               PROVE  /\ handlerPushes[r] + pushes[r] <= 1
                      /\ frame[r] = "admitted" /\ ~txRespond[r] => handlerPushes[r] + pushes[r] = 0
    BY DEF AnsweredAtMostOnce
  <2>1. handlerPushes[r] \in 0..1 /\ (frame[r] = "admitted" => handlerPushes[r] = 0)
    BY ZenonT(40) DEF GatewayInv, FrameInv
  <2>2. pushes[r] \in 0..1 /\ (frame[r] # "admitted" => pushes[r] = 0) /\ (~txRespond[r] => pushes[r] = 0)
    BY DEF GatewayInv, FrameInv, ExactlyOneResponse, FinalStates
  <2> QED
    BY <2>1, <2>2
<1> QED
  BY <1>1, GatewayInvariance, GatewayImplementsManager, OneResponse, PTL

(* Every variable of the daemon keeps its type, and the result queue never
   exceeds its capacity. *)
THEOREM GatewayTypesCorrect == GatewaySpec => []GatewayTypeOK
<1>1. ManagerInv /\ GatewayInv => GatewayTypeOK
  BY DEF ManagerInv, GatewayInv, ResultInv, DispatchInv, FrameInv, BoundsInv, GatewayTypeOK
<1> QED
  BY <1>1, GatewayInvariance, PTL

(* What the manager guarantees to arbitrary callers holds of the daemon: the
   state lock is held by the command that changes the device and two such
   commands overlap only while a hand-over is being undone; one response, deduplication, a consumer for every buffered reply,
   a deadline for every transaction in flight, legal transitions only, and the
   first event wins. *)
THEOREM DaemonInheritsSafety ==
  GatewaySpec =>
    /\ [](/\ StateChangeExclusion /\ OverlapOnlyWhileUndone
          /\ StateLockConsistent /\ ExactlyOneResponse
          /\ DeduplicationConsistent /\ BufferedReplyHasConsumer /\ InFlightHasDeadline)
    /\ TransitionsLegal
    /\ FirstEventWins
  BY GatewayImplementsManager, Exclusion, LockConsistency, OneResponse, Deduplication, NoStrandedReply,
     InFlightNeverHangs, OnlyLegalTransitions, FirstEvent, PTL

(* So does the reservation of the device: in the daemon, with its dispatchers,
   appliers and timers, a device passes from a request to its operation without
   ever being free. *)
THEOREM DaemonImplementsReservation == GatewaySpec => ImplementsReservation
  BY GatewayImplementsManager, ManagerImplementsReservation, PTL
=============================================================================
