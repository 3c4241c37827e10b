--------------------------- MODULE RequestManager ---------------------------
(***************************************************************************)
(* The request manager (pkg/reqmgr/manager.go, transaction.go, cache.go):  *)
(* the table of live transactions, the deduplication index and response    *)
(* cache, the single device state lock, and the hand-over of that lock     *)
(* from an upgrade request to a persistent background operation.           *)
(*                                                                         *)
(* The module is open: any caller may invoke any method at any time, as    *)
(* the goroutines of the daemon do.  A method that runs under m.mu is one  *)
(* action.  RespondAndRetain and ReleaseOperationLock drop m.mu around     *)
(* disk I/O and are one action per critical section.  A call that returns  *)
(* an error without changing state is not an action: its condition is the  *)
(* negation of the action's guard.                                         *)
(***************************************************************************)
EXTENDS OperationStore

CONSTANTS
  Key,                   \* canonical request keys (session:type:id)
  NoKey,                 \* the empty key of a notification
  Requests,              \* the <<key, respondToCloud, method>> callers may ask for
  maxConcurrentRequests  \* bound on live transactions

(* The methods, as far as the manager tells them apart: state-changing or not,
   and "upgrade", which must be state-changing. *)
Methods == {"query", "configure", "upgrade"}

IsStateChanging(method) == method # "query"

FinalStates == {"TxCompleted", "TxFailed", "TxTimedOut"}

ASSUME ManagerConstants ==
  /\ None \notin FinalStates
  /\ NoKey \notin Key
  /\ None \notin Key
  /\ Requests \subseteq (Key \cup {NoKey}) \X BOOLEAN \X Methods
  /\ maxConcurrentRequests \in Nat

VARIABLES
  txState,              \* lifecycle state; "unused" before the id is issued,
                        \* a final state once the entry is deleted, "lost" after a crash
  txMethod, txKey, txRespond,
  handoffInProgress,    \* Transaction.HandoffInProgress
  responseTimer,        \* the ResponseTimer is armed
  timeoutCall,          \* a Timeout callback is on its way and Stop no longer cancels it
  pendingReplies,       \* buffered terminal event, or None
  activeCloudRequests,  \* request key -> live transaction
  cache,                \* request key -> transaction whose response is cached
  stateLock, activeStateTx, activeStateOwner, releasingOperationID,
  deleteCalls,          \* ReleaseOperationLock calls between their two critical sections
  retainPc, retainOp,   \* progress of the RespondAndRetain call of each transaction
  pushes,               \* terminal responses pushed to the scheduler
  now,                  \* wall clock, in seconds
  bootID                \* host boot identifier, 0 if it cannot be read

requestVars == <<txMethod, txKey, txRespond>>
timerVars   == <<responseTimer, timeoutCall>>
indexVars   == <<activeCloudRequests, cache, pushes>>
lockVars    == <<stateLock, activeStateTx, activeStateOwner>>
releaseVars == <<releasingOperationID, deleteCalls>>
retainVars  == <<retainPc, retainOp>>
hostVars    == <<now, bootID>>

managerVars ==
  <<txState, requestVars, handoffInProgress, timerVars, pendingReplies,
    indexVars, lockVars, releaseVars, retainVars>>

vars == <<managerVars, hostVars, storeVars>>

PreFlight   == {"TxCreated", "TxPreparingDispatch", "TxPendingPublish"}
LiveStates  == PreFlight \cup {"TxInFlight"}
TransactionStates == {"unused", "lost"} \cup LiveStates \cup FinalStates

Live(r) == txState[r] \in LiveStates

(* The critical sections of RespondAndRetain: Saving covers the disk write,
   Releasing the window in which a buffered event undoes the hand-over. *)
Saving    == {"stamp", "save", "visible"}
Releasing == {"release", "deleting", "finish"}

TypeOK ==
  /\ StoreTypeOK
  /\ txState \in [RPC -> TransactionStates]
  /\ txMethod \in [RPC -> Methods]
  /\ txKey \in [RPC -> Key \cup {NoKey}]
  /\ txRespond \in [RPC -> BOOLEAN]
  /\ handoffInProgress \in [RPC -> BOOLEAN]
  /\ responseTimer \in [RPC -> BOOLEAN]
  /\ timeoutCall \in [RPC -> BOOLEAN]
  /\ pendingReplies \in [RPC -> FinalStates \cup {None}]
  /\ activeCloudRequests \in [Key -> RPC \cup {None}]
  /\ cache \in [Key -> RPC \cup {None}]
  /\ stateLock \in BOOLEAN
  /\ activeStateTx \in RPC \cup Op \cup {None}
  /\ activeStateOwner \in {"LockNone", "LockOwnedByRPC", "LockTransferPending", "LockOwnedByOperation"}
  /\ releasingOperationID \in Op \cup {None}
  /\ deleteCalls \subseteq Op
  /\ retainPc \in [RPC -> {"idle"} \cup Saving \cup Releasing]
  /\ retainOp \in [RPC -> Op \cup {None}]
  /\ pushes \in [RPC -> Nat]
  /\ now \in Nat
  /\ bootID \in Nat
-----------------------------------------------------------------------------
(* The in-memory state of a new process. *)
ManagerInit ==
  /\ txState = [r \in RPC |-> "unused"]
  /\ txMethod = [r \in RPC |-> "query"]
  /\ txKey = [r \in RPC |-> NoKey]
  /\ txRespond = [r \in RPC |-> FALSE]
  /\ handoffInProgress = [r \in RPC |-> FALSE]
  /\ responseTimer = [r \in RPC |-> FALSE]
  /\ timeoutCall = [r \in RPC |-> FALSE]
  /\ pendingReplies = [r \in RPC |-> None]
  /\ activeCloudRequests = [k \in Key |-> None]
  /\ cache = [k \in Key |-> None]
  /\ stateLock = FALSE
  /\ activeStateTx = None
  /\ activeStateOwner = "LockNone"
  /\ releasingOperationID = None
  /\ deleteCalls = {}
  /\ retainPc = [r \in RPC |-> "idle"]
  /\ retainOp = [r \in RPC |-> None]
  /\ pushes = [r \in RPC |-> 0]

Init ==
  /\ ManagerInit
  /\ StoreInit
  /\ now = 0
  /\ bootID = 1
-----------------------------------------------------------------------------
validateTransition(from, to) ==
  \/ from = "TxCreated" /\ to \in {"TxPreparingDispatch", "TxFailed"}
  \/ from = "TxPreparingDispatch" /\ to \in {"TxPendingPublish", "TxFailed"}
  \/ from = "TxPendingPublish" /\ to \in {"TxInFlight", "TxFailed", "TxCompleted"}
  \/ from = "TxInFlight" /\ to \in {"TxCompleted", "TxFailed", "TxTimedOut"}

(* Faulty variants: the response cache is not consulted; a state-changing
   command does not wait for the state mutex. *)
AdmissionNoCache(key, respond, method) ==
  IF key = NoKey /\ respond THEN "invalid"
  ELSE IF key # NoKey /\ activeCloudRequests[key] # None THEN "ErrDuplicateRequest"
  ELSE IF Cardinality({r \in RPC : Live(r)}) >= maxConcurrentRequests THEN "ErrCapacityExceeded"
  ELSE IF IsStateChanging(method) /\ (~respond \/ stateLock) THEN "busy"
  ELSE "ok"

AdmissionNoTryLock(key, respond, method) ==
  IF key = NoKey /\ respond THEN "invalid"
  ELSE IF key # NoKey /\ cache[key] # None THEN "CachedResponse"
  ELSE IF key # NoKey /\ activeCloudRequests[key] # None THEN "ErrDuplicateRequest"
  ELSE IF Cardinality({r \in RPC : Live(r)}) >= maxConcurrentRequests THEN "ErrCapacityExceeded"
  ELSE IF IsStateChanging(method) /\ ~respond THEN "invalid"
  ELSE "ok"

(* The outcome of CreateTransaction's checks, in the order it makes them. *)
Admission(key, respond, method) ==
  IF key = NoKey /\ respond THEN "invalid"
  ELSE IF key # NoKey /\ cache[key] # None THEN "CachedResponse"
  ELSE IF key # NoKey /\ activeCloudRequests[key] # None THEN "ErrDuplicateRequest"
  ELSE IF Cardinality({r \in RPC : Live(r)}) >= maxConcurrentRequests THEN "ErrCapacityExceeded"
  ELSE IF IsStateChanging(method) /\ ~respond THEN "invalid"
  ELSE IF IsStateChanging(method) /\ stateLock THEN "ErrStateLockBusy"
  ELSE "ok"

CreateTransaction(r, key, respond, method) ==
  /\ txState[r] = "unused"
  /\ Admission(key, respond, method) = "ok"
  /\ txState' = [txState EXCEPT ![r] = "TxCreated"]
  /\ txMethod' = [txMethod EXCEPT ![r] = method]
  /\ txKey' = [txKey EXCEPT ![r] = key]
  /\ txRespond' = [txRespond EXCEPT ![r] = respond]
  /\ activeCloudRequests' = [k \in Key |-> IF k = key THEN r ELSE activeCloudRequests[k]]
  /\ IF IsStateChanging(method)
       THEN /\ stateLock' = TRUE
            /\ activeStateTx' = r
            /\ activeStateOwner' = "LockOwnedByRPC"
       ELSE UNCHANGED lockVars
  /\ UNCHANGED <<handoffInProgress, timerVars, pendingReplies, cache, pushes,
                 releaseVars, retainVars, hostVars, storeVars>>

(* MarkPreparingDispatch and MarkPendingPublish. *)
Advance(r, to) ==
  /\ validateTransition(txState[r], to)
  /\ txState' = [txState EXCEPT ![r] = to]
  /\ UNCHANGED <<requestVars, handoffInProgress, timerVars, pendingReplies,
                 indexVars, lockVars, releaseVars, retainVars, hostVars, storeVars>>

MarkPreparingDispatch(r) == Advance(r, "TxPreparingDispatch")
MarkPendingPublish(r)    == Advance(r, "TxPendingPublish")
-----------------------------------------------------------------------------
(* Faulty variant: RespondToCloud is not consulted before the push. *)
RetireAlwaysPushes(r, final) ==
  /\ txState' = [txState EXCEPT ![r] = final]
  /\ cache' = [k \in Key |-> IF final = "TxCompleted" /\ txRespond[r] /\ k = txKey[r]
                               THEN r ELSE cache[k]]
  /\ responseTimer' = [responseTimer EXCEPT ![r] = FALSE]
  /\ pendingReplies' = [pendingReplies EXCEPT ![r] = None]
  /\ activeCloudRequests' = [k \in Key |-> IF k = txKey[r] THEN None ELSE activeCloudRequests[k]]
  /\ pushes' = [pushes EXCEPT ![r] = @ + 1]

(* terminalTransition, except for the state lock: cache a successful response,
   stop the timer, drop the buffered event and the index entries, push the
   response. *)
Retire(r, final) ==
  /\ txState' = [txState EXCEPT ![r] = final]
  /\ cache' = [k \in Key |-> IF final = "TxCompleted" /\ txRespond[r] /\ k = txKey[r]
                               THEN r ELSE cache[k]]
  /\ responseTimer' = [responseTimer EXCEPT ![r] = FALSE]
  /\ pendingReplies' = [pendingReplies EXCEPT ![r] = None]
  /\ activeCloudRequests' = [k \in Key |-> IF k = txKey[r] THEN None ELSE activeCloudRequests[k]]
  /\ pushes' = [pushes EXCEPT ![r] = IF txRespond[r] THEN @ + 1 ELSE @]

(* Faulty variant: activeStateOwner is not reset. *)
ReleaseStateLockKeepsOwner(r) ==
  IF activeStateTx = r
    THEN stateLock' = FALSE /\ activeStateTx' = None /\ UNCHANGED activeStateOwner
    ELSE UNCHANGED lockVars

(* Faulty variant: whoever ends unlocks the mutex. *)
ReleaseStateLockAlways(r) ==
  /\ stateLock' = FALSE
  /\ activeStateTx' = None
  /\ activeStateOwner' = "LockNone"

(* The end of terminalTransition's hold on the state lock. *)
ReleaseStateLock(r) ==
  IF activeStateTx = r
    THEN /\ stateLock' = FALSE
         /\ activeStateTx' = None
         /\ activeStateOwner' = "LockNone"
    ELSE UNCHANGED lockVars

(* terminalTransition of a transaction that the caller has brought to state
   "from".  Every caller has removed the buffered event before an illegal
   transition is refused. *)
terminalTransition(r, from, final) ==
  IF validateTransition(from, final)
    THEN Retire(r, final) /\ ReleaseStateLock(r)
    ELSE /\ txState' = [txState EXCEPT ![r] = from]
         /\ pendingReplies' = [pendingReplies EXCEPT ![r] = None]
         /\ UNCHANGED <<responseTimer, indexVars, lockVars>>

BufferReply(r, event) ==
  /\ pendingReplies' = [pendingReplies EXCEPT ![r] = event]
  /\ UNCHANGED <<txState, responseTimer, indexVars, lockVars>>

(* Faulty variant: the buffered reply is not looked up. *)
MarkInFlightIgnoresReply(r) ==
  /\ validateTransition(txState[r], "TxInFlight")
  /\ txState' = [txState EXCEPT ![r] = "TxInFlight"]
  /\ responseTimer' = [responseTimer EXCEPT ![r] = TRUE]
  /\ UNCHANGED <<pendingReplies, indexVars, lockVars, requestVars, handoffInProgress, timeoutCall,
                 releaseVars, retainVars, hostVars, storeVars>>

(* MarkInFlight: a reply that was buffered before publication finishes the
   transaction at once; otherwise the response timer is armed. *)
MarkInFlight(r) ==
  /\ validateTransition(txState[r], "TxInFlight")
  /\ IF pendingReplies[r] # None
       THEN terminalTransition(r, "TxInFlight", pendingReplies[r])
       ELSE /\ txState' = [txState EXCEPT ![r] = "TxInFlight"]
            /\ responseTimer' = [responseTimer EXCEPT ![r] = TRUE]
            /\ UNCHANGED <<pendingReplies, indexVars, lockVars>>
  /\ UNCHANGED <<requestVars, handoffInProgress, timeoutCall, releaseVars,
                 retainVars, hostVars, storeVars>>

Complete(r) ==
  /\ Live(r)
  /\ IF txState[r] \in PreFlight \/ handoffInProgress[r]
       THEN pendingReplies[r] = None /\ BufferReply(r, "TxCompleted")
       ELSE terminalTransition(r, txState[r], "TxCompleted")
  /\ UNCHANGED <<requestVars, handoffInProgress, timeoutCall, releaseVars,
                 retainVars, hostVars, storeVars>>

(* Faulty variant: no recoverToInFlight, the late event overrides the reply. *)
FailOrTimeoutOverrides(r, event) ==
  IF handoffInProgress[r]
    THEN IF pendingReplies[r] = None
           THEN BufferReply(r, event)
           ELSE UNCHANGED <<txState, responseTimer, pendingReplies, indexVars, lockVars>>
    ELSE terminalTransition(r, txState[r], event)

(* The common body of Fail and Timeout.  A buffered reply proves that the
   command was published: it wins if the transaction can be recovered to
   TxInFlight, and is discarded otherwise. *)
FailOrTimeout(r, event) ==
  IF handoffInProgress[r]
    THEN IF pendingReplies[r] = None
           THEN BufferReply(r, event)
           ELSE UNCHANGED <<txState, responseTimer, pendingReplies, indexVars, lockVars>>
    ELSE IF pendingReplies[r] # None /\ validateTransition(txState[r], "TxInFlight")
           THEN terminalTransition(r, "TxInFlight", pendingReplies[r])
           ELSE terminalTransition(r, txState[r], event)

Fail(r) ==
  /\ Live(r)
  /\ FailOrTimeout(r, "TxFailed")
  /\ UNCHANGED <<requestVars, handoffInProgress, timeoutCall, releaseVars,
                 retainVars, hostVars, storeVars>>

(* time.AfterFunc expires: its callback goroutine starts. *)
ResponseTimerFires(r) ==
  /\ responseTimer[r]
  /\ responseTimer' = [responseTimer EXCEPT ![r] = FALSE]
  /\ timeoutCall' = [timeoutCall EXCEPT ![r] = TRUE]
  /\ UNCHANGED <<txState, requestVars, handoffInProgress, pendingReplies,
                 indexVars, lockVars, releaseVars, retainVars, hostVars, storeVars>>

Timeout(r) ==
  /\ timeoutCall[r]
  /\ timeoutCall' = [timeoutCall EXCEPT ![r] = FALSE]
  /\ IF Live(r)
       THEN FailOrTimeout(r, "TxTimedOut")
       ELSE UNCHANGED <<txState, responseTimer, pendingReplies, indexVars, lockVars>>
  /\ UNCHANGED <<requestVars, handoffInProgress, releaseVars, retainVars,
                 hostVars, storeVars>>

(* A cache entry reaches its TTL: Get no longer returns it, and sweepCache
   deletes it. *)
CacheExpire(k) ==
  /\ cache[k] # None
  /\ cache' = [cache EXCEPT ![k] = None]
  /\ UNCHANGED <<txState, requestVars, handoffInProgress, timerVars, pendingReplies,
                 activeCloudRequests, pushes, lockVars, releaseVars, retainVars,
                 hostVars, storeVars>>
-----------------------------------------------------------------------------
(* RespondAndRetain, first critical section: pause the timer, mark the
   hand-over, issue an operation identifier. *)
RespondAndRetain(r, op) ==
  /\ txState[r] \in {"TxInFlight", "TxPendingPublish"}
  /\ txMethod[r] = "upgrade"
  /\ activeStateTx = r
  /\ ~handoffInProgress[r]
  /\ opRPC[op] = None
  /\ opRPC' = [opRPC EXCEPT ![op] = r]
  /\ responseTimer' = [responseTimer EXCEPT ![r] = FALSE]
  /\ handoffInProgress' = [handoffInProgress EXCEPT ![r] = TRUE]
  /\ activeStateOwner' = "LockTransferPending"
  /\ retainPc' = [retainPc EXCEPT ![r] = "stamp"]
  /\ retainOp' = [retainOp EXCEPT ![r] = op]
  /\ UNCHANGED <<txState, requestVars, timeoutCall, pendingReplies, indexVars,
                 stateLock, activeStateTx, releaseVars, hostVars,
                 onDisk, opUpdatedAt, opBootID>>

(* The record is built outside m.mu, with the clock of that moment. *)
RetainStamp(r) ==
  /\ retainPc[r] = "stamp"
  /\ retainPc' = [retainPc EXCEPT ![r] = "save"]
  /\ opUpdatedAt' = [opUpdatedAt EXCEPT ![retainOp[r]] = now]
  /\ opBootID' = [opBootID EXCEPT ![retainOp[r]] = bootID]
  /\ UNCHANGED <<txState, requestVars, handoffInProgress, timerVars, pendingReplies,
                 indexVars, lockVars, releaseVars, retainOp, hostVars, onDisk, opRPC>>

RetainSave(r) ==
  /\ retainPc[r] = "save"
  /\ retainPc' = [retainPc EXCEPT ![r] = "visible"]
  /\ SaveRename(retainOp[r])
  /\ UNCHANGED <<txState, requestVars, handoffInProgress, timerVars, pendingReplies,
                 indexVars, lockVars, releaseVars, retainOp, hostVars,
                 opRPC, opUpdatedAt, opBootID>>

(* Faulty variant: the timer stays stopped after a failed Save. *)
RearmTimerForgotten(r) == UNCHANGED timerVars

(* Re-arm the response timer for what is left of the deadline.  A timer that
   MarkInFlight armed during the hand-over is overwritten, not stopped. *)
RearmTimer(r) ==
  /\ responseTimer' = [responseTimer EXCEPT ![r] = TRUE]
  /\ timeoutCall' = [timeoutCall EXCEPT ![r] = @ \/ responseTimer[r]]

(* What a failed Save finds: a buffered event, or else a deadline that has
   passed or (None) has not.  Before MarkInFlight the deadline is the zero
   time, which has passed. *)
EventsAfterFailedSave(r) ==
  IF pendingReplies[r] # None THEN {pendingReplies[r]}
  ELSE IF txState[r] = "TxInFlight" THEN {"TxTimedOut", None}
  ELSE {"TxTimedOut"}

(* RespondAndRetain, second critical section after a failed Save: the lock
   goes back to the request, then the event finishes it.  A timeout of a
   TxPendingPublish transaction is refused and the error ignored. *)
RetainFailed(r) ==
  /\ "save" \in Faults
  /\ retainPc[r] \in {"save", "visible"}
  /\ retainPc' = [retainPc EXCEPT ![r] = "idle"]
  /\ handoffInProgress' = [handoffInProgress EXCEPT ![r] = FALSE]
  /\ IF ~Live(r)
       THEN UNCHANGED <<txState, timerVars, pendingReplies, indexVars, lockVars>>
       ELSE \E event \in EventsAfterFailedSave(r) :
              IF event # None /\ validateTransition(txState[r], event)
                THEN /\ terminalTransition(r, txState[r], event)
                     /\ UNCHANGED timeoutCall
                ELSE /\ pendingReplies' = [pendingReplies EXCEPT ![r] = None]
                     /\ activeStateOwner' = IF activeStateTx = r THEN "LockOwnedByRPC" ELSE activeStateOwner
                     /\ IF event = None THEN RearmTimer(r) ELSE UNCHANGED timerVars
                     /\ UNCHANGED <<txState, indexVars, stateLock, activeStateTx>>
  /\ retainOp' = [retainOp EXCEPT ![r] = None]
  /\ UNCHANGED <<requestVars, releaseVars, hostVars, storeVars>>

(* RespondAndRetain, second critical section after a successful Save: the
   operation takes the lock over and the request completes, unless a terminal
   event was buffered meanwhile, which the Releasing steps then apply. *)
RetainCommitted(r) ==
  /\ retainPc[r] = "visible"
  /\ IF activeStateTx = r
       THEN /\ activeStateTx' = retainOp[r]
            /\ activeStateOwner' = "LockOwnedByOperation"
       ELSE UNCHANGED <<activeStateTx, activeStateOwner>>
  /\ IF pendingReplies[r] # None
       THEN /\ retainPc' = [retainPc EXCEPT ![r] = "release"]
            /\ UNCHANGED <<txState, responseTimer, pendingReplies, indexVars, retainOp>>
       ELSE /\ retainPc' = [retainPc EXCEPT ![r] = "idle"]
            /\ retainOp' = [retainOp EXCEPT ![r] = None]
            /\ IF Live(r)
                 THEN Retire(r, "TxCompleted")
                 ELSE UNCHANGED <<txState, responseTimer, pendingReplies, indexVars>>
  /\ UNCHANGED <<requestVars, handoffInProgress, timeoutCall, stateLock, releaseVars,
                 hostVars, storeVars>>
-----------------------------------------------------------------------------
(* ReleaseOperationLock: the checks and the in-memory release. *)
CanRelease(op) ==
  /\ releasingOperationID # op
  /\ activeStateTx = op
  /\ activeStateOwner = "LockOwnedByOperation"

BeginRelease(op) ==
  /\ releasingOperationID' = op
  /\ deleteCalls' = deleteCalls \cup {op}
  /\ stateLock' = FALSE
  /\ activeStateTx' = None
  /\ activeStateOwner' = "LockNone"

ReleaseOperationLock(op) ==
  /\ CanRelease(op)
  /\ BeginRelease(op)
  /\ UNCHANGED <<txState, requestVars, handoffInProgress, timerVars, pendingReplies,
                 indexVars, retainVars, hostVars, storeVars>>

(* Its store.Delete, outside m.mu, and the second critical section. *)
ReleaseDelete(op) ==
  /\ op \in deleteCalls
  /\ Delete(op)
  /\ deleteCalls' = deleteCalls \ {op}
  /\ releasingOperationID' = IF releasingOperationID = op THEN None ELSE releasingOperationID
  /\ UNCHANGED <<txState, requestVars, handoffInProgress, timerVars, pendingReplies,
                 indexVars, lockVars, retainVars, hostVars, opRPC, opUpdatedAt, opBootID>>

(* RespondAndRetain calls ReleaseOperationLock for the operation it has just
   given the lock to ... *)
RetainRelease(r) ==
  /\ retainPc[r] = "release"
  /\ IF CanRelease(retainOp[r])
       THEN /\ BeginRelease(retainOp[r])
            /\ retainPc' = [retainPc EXCEPT ![r] = "deleting"]
       ELSE /\ retainPc' = [retainPc EXCEPT ![r] = "finish"]
            /\ UNCHANGED <<lockVars, releaseVars>>
  /\ UNCHANGED <<txState, requestVars, handoffInProgress, timerVars, pendingReplies,
                 indexVars, retainOp, hostVars, storeVars>>

(* ... and applies the buffered event when the call returns. *)
RetainFinish(r) ==
  /\ \/ retainPc[r] = "finish"
     \/ retainPc[r] = "deleting" /\ retainOp[r] \notin deleteCalls
  /\ retainPc' = [retainPc EXCEPT ![r] = "idle"]
  /\ retainOp' = [retainOp EXCEPT ![r] = None]
  /\ IF Live(r)
       THEN terminalTransition(r, txState[r], pendingReplies[r])
       ELSE UNCHANGED <<txState, responseTimer, pendingReplies, indexVars, lockVars>>
  /\ UNCHANGED <<requestVars, handoffInProgress, timeoutCall, releaseVars,
                 hostVars, storeVars>>
-----------------------------------------------------------------------------
RetainStep(r) ==
  \/ RetainStamp(r)
  \/ RetainSave(r)
  \/ RetainFailed(r)
  \/ RetainCommitted(r)
  \/ RetainRelease(r)
  \/ RetainFinish(r)

TransactionStep(r) ==
  \/ \E q \in Requests : CreateTransaction(r, q[1], q[2], q[3])
  \/ MarkPreparingDispatch(r)
  \/ MarkPendingPublish(r)
  \/ MarkInFlight(r)
  \/ Complete(r)
  \/ Fail(r)
  \/ ResponseTimerFires(r)
  \/ Timeout(r)
  \/ \E op \in Op : RespondAndRetain(r, op)

ManagerNext ==
  \/ \E r \in RPC : TransactionStep(r)
  \/ \E r \in RPC : RetainStep(r)
  \/ \E op \in Op : ReleaseOperationLock(op)
  \/ \E op \in Op : ReleaseDelete(op)
  \/ \E k \in Key : CacheExpire(k)

Spec == Init /\ [][ManagerNext]_vars
-----------------------------------------------------------------------------
(* The reservation of the device that the fields of the manager stand for: a
   transaction is running while it is live, and a RespondAndRetain call whose
   Save is in progress offers the device to its operation. *)
phaseOf(r) ==
  IF txState[r] = "unused" THEN "new" ELSE IF Live(r) THEN "running" ELSE "over"

offerOf(r) == IF Live(r) /\ retainPc[r] \in Saving THEN retainOp[r] ELSE None

Reservation ==
  INSTANCE DeviceReservation WITH
    phase  <- [r \in RPC |-> phaseOf(r)],
    holder <- activeStateTx,
    offer  <- [r \in RPC |-> offerOf(r)],
    used   <- {op \in Op : opRPC[op] # None}

(* The manager implements the reservation: every step of its locking and of
   the hand-over in RespondAndRetain is a step of DeviceReservation or leaves
   the reservation alone, so the device passes from request to operation
   without being free, to an operation that never had it before, and is given
   back only by its holder. *)
ImplementsReservation == Reservation!Spec

(* The device state mutex, the identifier of its holder and the recorded kind
   of ownership always agree (manager.go activeStateTx, activeStateOwner), and
   a request that holds it is live: so stateLock.Unlock is never called on an
   unlocked mutex, which would panic, and the mutex is never left locked with
   nobody recorded to unlock it. *)
StateLockConsistent ==
  /\ stateLock <=> activeStateTx # None
  /\ activeStateOwner = "LockNone" <=> activeStateTx = None
  /\ activeStateOwner = "LockOwnedByOperation" <=> activeStateTx \in Op
  /\ activeStateTx \in RPC =>
       /\ Live(activeStateTx)
       /\ activeStateOwner = "LockTransferPending" <=> handoffInProgress[activeStateTx]

(* A live state-changing transaction holds the state lock from its admission
   until its terminal transition, or until its own hand-over succeeded and is
   being undone by a buffered event: RespondAndRetain then frees the lock before
   it ends the transaction (CreateTransaction, RespondAndRetain,
   terminalTransition). *)
StateChangeExclusion ==
  \A r \in RPC :
    Live(r) /\ IsStateChanging(txMethod[r]) /\ retainPc[r] \notin Releasing
      => activeStateTx = r

(* Two state-changing transactions are live together only while one of them is
   an upgrade whose hand-over is being undone.  It has let go of the lock, and
   the event that will end it is already buffered: nothing else can become of it
   (RespondAndRetain, ReleaseOperationLock). *)
OverlapOnlyWhileUndone ==
  \A r, s \in RPC :
    /\ r # s
    /\ Live(r) /\ IsStateChanging(txMethod[r])
    /\ Live(s) /\ IsStateChanging(txMethod[s])
    => \E q \in {r, s} :
         retainPc[q] \in Releasing /\ pendingReplies[q] # None /\ activeStateTx # q

(* The deduplication index lists exactly the live transactions, and a request
   whose response is cached has no live transaction: one cloud request is
   never executed twice while its answer is still known. *)
DeduplicationConsistent ==
  /\ \A r \in RPC : Live(r) /\ txKey[r] # NoKey => activeCloudRequests[txKey[r]] = r
  /\ \A k \in Key : activeCloudRequests[k] # None =>
       /\ Live(activeCloudRequests[k])
       /\ txKey[activeCloudRequests[k]] = k
       /\ cache[k] = None

(* Each transaction that owes a response pushes exactly one, at its terminal
   transition, however its reply, its timeout, a local failure and the
   hand-over race (terminalTransition is the only place that pushes). *)
ExactlyOneResponse ==
  \A r \in RPC : pushes[r] = IF txRespond[r] /\ txState[r] \in FinalStates THEN 1 ELSE 0

(* A buffered terminal event always has somebody who will apply it: the
   dispatcher before MarkInFlight, or the RespondAndRetain call in progress.
   It never stays behind on a transaction that only its timer would end. *)
BufferedReplyHasConsumer ==
  \A r \in RPC : pendingReplies[r] # None =>
    /\ Live(r)
    /\ txState[r] \in PreFlight \/ retainPc[r] # "idle"

(* A transaction in flight cannot hang: its response timer is armed, the
   Timeout callback is on its way, or the RespondAndRetain call that stopped the
   timer is still in progress and will end it or arm the timer again
   (MarkInFlight, RespondAndRetain). *)
InFlightHasDeadline ==
  \A r \in RPC : txState[r] = "TxInFlight" =>
    responseTimer[r] \/ timeoutCall[r] \/ retainPc[r] # "idle"

(* Every state change of a transaction is one that validateTransition allows,
   also where MarkInFlight or recoverToInFlight passes through TxInFlight and
   where RespondAndRetain completes the request itself: a final
   state is never left, and nothing but an in-flight transaction times out. *)
TransitionsLegal ==
  [][\A r \in RPC : txState'[r] # txState[r] =>
       \/ txState[r] = "unused" /\ txState'[r] = "TxCreated"
       \/ validateTransition(txState[r], txState'[r])]_vars

(* First event wins: a transaction that ends while a terminal event is
   buffered ends with that event, except that a local failure before the
   command could have been published discards it (Fail, recoverToInFlight). *)
FirstEventWins ==
  [][\A r \in RPC :
       pendingReplies[r] # None /\ Live(r) /\ txState'[r] \in FinalStates =>
         \/ txState'[r] = pendingReplies[r]
         \/ txState[r] \in {"TxCreated", "TxPreparingDispatch"} /\ txState'[r] = "TxFailed"]_vars

(* An upgrade whose record was saved is not ended by its response timer, which
   RespondAndRetain stops first "to prevent timeouts during disk I/O".  The
   code does not guarantee this: a Timeout callback that has already started,
   or a timer that MarkInFlight arms during the hand-over, is buffered and
   applied after the Save. *)
AcceptedUpgradeNotTimedOut ==
  [][\A r \in RPC : Live(r) /\ retainPc[r] \in Releasing => txState'[r] # "TxTimedOut"]_vars

(* REQ-011 asks that the operation record be stored before the upgrade command
   is dispatched.  The code stores it when the device has accepted. *)
DispatchedUpgradeRecorded ==
  \A r \in RPC : txState[r] = "TxInFlight" /\ txMethod[r] = "upgrade" =>
    \E o \in onDisk : opRPC[o] = r
-----------------------------------------------------------------------------
(* The strengthening that makes the invariants above inductive: where each
   RespondAndRetain call stands determines who holds the lock and who consumes
   a buffered event. *)
HandoffInv ==
  \A r \in RPC :
    /\ txState[r] = "unused" =>
         ~handoffInProgress[r] /\ ~responseTimer[r] /\ ~timeoutCall[r] /\ retainPc[r] = "idle"
    /\ retainPc[r] # "idle" => retainOp[r] \in Op /\ opRPC[retainOp[r]] = r
    /\ Live(r) /\ handoffInProgress[r] => retainPc[r] # "idle"
    /\ Live(r) /\ retainPc[r] # "idle" =>
         /\ handoffInProgress[r]
         /\ txState[r] \in {"TxPendingPublish", "TxInFlight"}
         /\ txMethod[r] = "upgrade"
    /\ Live(r) /\ retainPc[r] \in Releasing => pendingReplies[r] # None /\ activeStateTx # r

HolderInv ==
  activeStateTx \in RPC => IsStateChanging(txMethod[activeStateTx])

TimerInv ==
  \A r \in RPC :
    /\ responseTimer[r] => txState[r] = "TxInFlight"
    /\ timeoutCall[r] => txState[r] \notin PreFlight
    /\ pendingReplies[r] = "TxTimedOut" => txState[r] = "TxInFlight"

ManagerInv ==
  /\ TypeOK
  /\ StateLockConsistent
  /\ StateChangeExclusion
  /\ BufferedReplyHasConsumer
  /\ HandoffInv
  /\ HolderInv
  /\ TimerInv
=============================================================================
