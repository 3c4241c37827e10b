------------------------ MODULE RequestManagerProofs ------------------------
(***************************************************************************)
(* Proofs about RequestManager: ManagerInv is inductive, and the type      *)
(* invariant, the lock invariants and BufferedReplyHasConsumer follow from *)
(* it for every set of requests, operations, keys and storage faults.      *)
(*                                                                         *)
(* ManagerInv strengthens StateLockConsistent and StateChangeExclusion by  *)
(* what RespondAndRetain's critical sections leave behind: HandoffInv      *)
(* relates its program counter to handoffInProgress and to the operation   *)
(* it has issued, HolderInv says that a request which holds the lock is    *)
(* state-changing, and TimerInv in which states a timer or a timeout is    *)
(* possible at all.                                                        *)
(***************************************************************************)
EXTENDS TransactionProofs

(* The first critical section of RespondAndRetain keeps the invariant: the lock holder
   is marked as handing over. *)
LEMMA RespondAndRetainPreserves ==
  ASSUME ManagerInv, NEW r \in RPC, NEW op \in Op, RespondAndRetain(r, op)
  PROVE  ManagerInv'
<1> USE StoreConstants, ManagerConstants
    DEF ManagerInv, RespondAndRetain, requestVars, timerVars, indexVars, lockVars,
        releaseVars, retainVars, hostVars, storeVars, Live, LiveStates, PreFlight
<1>0. /\ responseTimer \in [RPC -> BOOLEAN]
      /\ handoffInProgress \in [RPC -> BOOLEAN]
      /\ retainPc \in [RPC -> {"idle"} \cup Saving \cup Releasing]
      /\ retainOp \in [RPC -> Op \cup {None}]
      /\ opRPC \in [Op -> RPC \cup {None}]
  BY DEF TypeOK, StoreTypeOK
<1>1. TypeOK'
  BY DEF TypeOK, StoreTypeOK, Saving, Releasing, HandoffInv
<1>2. StateLockConsistent'
  BY <1>0 DEF StateLockConsistent
<1>3. StateChangeExclusion'
  BY <1>0 DEF StateChangeExclusion, Saving, Releasing
<1>4. BufferedReplyHasConsumer'
  BY <1>0 DEF BufferedReplyHasConsumer
<1>5. HandoffInv'
  BY <1>0 DEF HandoffInv, Saving, Releasing
<1>6. HolderInv'
  BY <1>0 DEF HolderInv
<1>7. TimerInv'
  BY <1>0 DEF TimerInv
<1>8. QED
  BY <1>1, <1>2, <1>3, <1>4, <1>5, <1>6, <1>7, Zenon DEF ManagerInv

(* Building the record outside the mutex in RespondAndRetain keeps the invariant. *)
LEMMA RetainStampPreserves ==
  ASSUME ManagerInv, NEW r \in RPC, RetainStamp(r)
  PROVE  ManagerInv'
<1> USE StoreConstants, ManagerConstants
    DEF ManagerInv, RetainStamp, requestVars, timerVars, indexVars, lockVars,
        releaseVars, retainVars, hostVars, storeVars, Live, LiveStates, PreFlight
<1>0. retainPc \in [RPC -> {"idle"} \cup Saving \cup Releasing]
  BY DEF TypeOK
<1>1. TypeOK'
  BY DEF TypeOK, StoreTypeOK, Saving, Releasing, HandoffInv
<1>2. StateLockConsistent'
  BY <1>0 DEF StateLockConsistent
<1>3. StateChangeExclusion'
  BY <1>0 DEF StateChangeExclusion, Saving, Releasing
<1>4. BufferedReplyHasConsumer'
  BY <1>0 DEF BufferedReplyHasConsumer
<1>5. HandoffInv'
  BY <1>0 DEF HandoffInv, Saving, Releasing
<1>6. HolderInv'
  BY <1>0 DEF HolderInv
<1>7. TimerInv'
  BY <1>0 DEF TimerInv
<1>8. QED
  BY <1>1, <1>2, <1>3, <1>4, <1>5, <1>6, <1>7, Zenon DEF ManagerInv

(* The rename that publishes the record (Save in RespondAndRetain) keeps the invariant. *)
LEMMA RetainSavePreserves ==
  ASSUME ManagerInv, NEW r \in RPC, RetainSave(r)
  PROVE  ManagerInv'
<1> USE StoreConstants, ManagerConstants
    DEF ManagerInv, RetainSave, SaveRename, requestVars, timerVars, indexVars, lockVars,
        releaseVars, retainVars, hostVars, storeVars, Live, LiveStates, PreFlight
<1>0. retainPc \in [RPC -> {"idle"} \cup Saving \cup Releasing]
  BY DEF TypeOK
<1>1. TypeOK'
  BY DEF TypeOK, StoreTypeOK, Saving, Releasing, HandoffInv
<1>2. StateLockConsistent'
  BY <1>0 DEF StateLockConsistent
<1>3. StateChangeExclusion'
  BY <1>0 DEF StateChangeExclusion, Saving, Releasing
<1>4. BufferedReplyHasConsumer'
  BY <1>0 DEF BufferedReplyHasConsumer
<1>5. HandoffInv'
  BY <1>0 DEF HandoffInv, Saving, Releasing
<1>6. HolderInv'
  BY <1>0 DEF HolderInv
<1>7. TimerInv'
  BY <1>0 DEF TimerInv
<1>8. QED
  BY <1>1, <1>2, <1>3, <1>4, <1>5, <1>6, <1>7, Zenon DEF ManagerInv

(* The first critical section of ReleaseOperationLock keeps the invariant: it unlocks
   the mutex only when the operation is recorded as its holder. *)
LEMMA ReleasePreserves ==
  ASSUME ManagerInv, NEW op \in Op, ReleaseOperationLock(op)
  PROVE  ManagerInv'
<1> USE StoreConstants, ManagerConstants
    DEF ManagerInv, ReleaseOperationLock, CanRelease, BeginRelease, requestVars, timerVars, indexVars, lockVars,
        releaseVars, retainVars, hostVars, storeVars, Live, LiveStates, PreFlight
<1>1. TypeOK'
  BY Zenon DEF TypeOK, StoreTypeOK, TransactionStates, Saving, Releasing
<1>2. StateLockConsistent'
  BY DEF StateLockConsistent
<1>3. StateChangeExclusion'
  BY DEF StateChangeExclusion
<1>4. BufferedReplyHasConsumer'
  BY DEF BufferedReplyHasConsumer
<1>5. HandoffInv'
  BY DEF HandoffInv
<1>6. HolderInv'
  BY DEF HolderInv
<1>7. TimerInv'
  BY DEF TimerInv
<1>8. QED
  BY <1>1, <1>2, <1>3, <1>4, <1>5, <1>6, <1>7, Zenon DEF ManagerInv

(* The Delete and the second critical section of ReleaseOperationLock keep the invariant. *)
LEMMA ReleaseDeletePreserves ==
  ASSUME ManagerInv, NEW op \in Op, ReleaseDelete(op)
  PROVE  ManagerInv'
<1> USE StoreConstants, ManagerConstants
    DEF ManagerInv, ReleaseDelete, Delete, requestVars, timerVars, indexVars, lockVars,
        releaseVars, retainVars, hostVars, storeVars, Live, LiveStates, PreFlight
<1>1. TypeOK'
  BY Zenon DEF TypeOK, StoreTypeOK, TransactionStates, Saving, Releasing
<1>2. StateLockConsistent'
  BY DEF StateLockConsistent
<1>3. StateChangeExclusion'
  BY DEF StateChangeExclusion
<1>4. BufferedReplyHasConsumer'
  BY DEF BufferedReplyHasConsumer
<1>5. HandoffInv'
  BY DEF HandoffInv
<1>6. HolderInv'
  BY Zenon DEF HolderInv
<1>7. TimerInv'
  BY DEF TimerInv
<1>8. QED
  BY <1>1, <1>2, <1>3, <1>4, <1>5, <1>6, <1>7, Zenon DEF ManagerInv

(* RespondAndRetain's own call of ReleaseOperationLock keeps the invariant: the
   call stays between Save and the buffered event, and an unlocked mutex has no holder. *)
LEMMA RetainReleasePreserves ==
  ASSUME ManagerInv, NEW r \in RPC, RetainRelease(r)
  PROVE  ManagerInv'
<1> USE StoreConstants, ManagerConstants
<1>0. /\ retainPc \in [RPC -> {"idle"} \cup Saving \cup Releasing]
      /\ deleteCalls \subseteq Op
      /\ retainPc[r] = "release"
      /\ retainOp[r] \in Op
  BY Zenon DEF ManagerInv, TypeOK, HandoffInv, RetainRelease
<1>1. \/ UNCHANGED <<lockVars, releaseVars>>
      \/ /\ activeStateTx \in Op
         /\ stateLock' = FALSE /\ activeStateTx' = None /\ activeStateOwner' = "LockNone"
         /\ releasingOperationID' \in Op /\ deleteCalls' \subseteq Op
  BY <1>0 DEF RetainRelease, CanRelease, BeginRelease
<1>2. PICK pc \in {"deleting", "finish"} : retainPc' = [retainPc EXCEPT ![r] = pc]
  BY DEF RetainRelease
<1>3. UNCHANGED <<txState, requestVars, handoffInProgress, timerVars, pendingReplies,
                  indexVars, retainOp, hostVars, storeVars>>
  BY DEF RetainRelease
<1> USE <1>0, <1>1, <1>2, <1>3
    DEF ManagerInv, requestVars, timerVars, indexVars, lockVars, releaseVars, hostVars, storeVars, Live
<1>4. TypeOK'
  <2>1. (retainPc \in [RPC -> {"idle"} \cup Saving \cup Releasing])'
    BY DEF Saving, Releasing
  <2>2. /\ (stateLock \in BOOLEAN)'
        /\ (activeStateTx \in RPC \cup Op \cup {None})'
        /\ (activeStateOwner \in {"LockNone", "LockOwnedByRPC", "LockTransferPending", "LockOwnedByOperation"})'
        /\ (releasingOperationID \in Op \cup {None})'
        /\ (deleteCalls \subseteq Op)'
    BY Zenon DEF TypeOK
  <2> QED
    BY <2>1, <2>2, Zenon DEF TypeOK, StoreTypeOK
<1>5. StateLockConsistent' /\ HolderInv'
  BY DEF StateLockConsistent, HolderInv
<1>6. StateChangeExclusion' /\ BufferedReplyHasConsumer'
  BY ZenonT(40) DEF StateChangeExclusion, BufferedReplyHasConsumer, Releasing
<1>7. HandoffInv'
  BY DEF HandoffInv, Releasing
<1>8. TimerInv'
  BY DEF TimerInv
<1> QED
  BY <1>4, <1>5, <1>6, <1>7, <1>8, Zenon

(* The last critical section of RespondAndRetain, which applies the buffered event after
   the hand-over was undone, keeps the invariant. *)
LEMMA RetainFinishPreserves ==
  ASSUME ManagerInv, NEW r \in RPC, RetainFinish(r)
  PROVE  ManagerInv'
<1> USE StoreConstants, ManagerConstants
<1>0. retainPc[r] \in Releasing
  BY DEF RetainFinish, Releasing
<1>1. CASE Live(r)
  <2>1. /\ pendingReplies[r] \in FinalStates
        /\ txState[r] \in {"TxPendingPublish", "TxInFlight"}
        /\ pendingReplies[r] = "TxTimedOut" => txState[r] = "TxInFlight"
    BY <1>0, <1>1 DEF ManagerInv, TypeOK, HandoffInv, TimerInv, Releasing
  <2>2. validateTransition(txState[r], pendingReplies[r])
    BY <2>1 DEF validateTransition, FinalStates
  <2>3. Retire(r, pendingReplies[r]) /\ ReleaseStateLock(r)
    BY <1>1, <2>2 DEF RetainFinish, terminalTransition
  <2> QED
    BY <1>1, <2>1, <2>3, TerminalPreserves, Zenon
    DEF RetainFinish, requestVars, releaseVars, retainVars, hostVars, storeVars
<1>2. CASE ~Live(r)
  BY <1>2, QuietPreserves, Zenon DEF RetainFinish, timerVars
<1> QED
  BY <1>1, <1>2

(* Giving the lock back to a request whose Save failed, with its timer as it was or
   armed again, keeps the invariant. *)
LEMMA HandBackPreserves ==
  ASSUME ManagerInv, NEW r \in RPC,
         activeStateTx = r, txState[r] \in {"TxPendingPublish", "TxInFlight"},
         retainPc' = [retainPc EXCEPT ![r] = "idle"],
         retainOp' = [retainOp EXCEPT ![r] = None],
         handoffInProgress' = [handoffInProgress EXCEPT ![r] = FALSE],
         pendingReplies' = [pendingReplies EXCEPT ![r] = None],
         activeStateOwner' = "LockOwnedByRPC",
         \/ UNCHANGED timerVars
         \/ /\ txState[r] = "TxInFlight"
            /\ responseTimer' = [responseTimer EXCEPT ![r] = TRUE]
            /\ \E b \in BOOLEAN : timeoutCall' = [timeoutCall EXCEPT ![r] = b],
         UNCHANGED <<txState, indexVars, stateLock, activeStateTx, requestVars, releaseVars,
                     hostVars, storeVars>>
  PROVE  ManagerInv'
<1>0. /\ responseTimer \in [RPC -> BOOLEAN]
      /\ timeoutCall \in [RPC -> BOOLEAN]
      /\ handoffInProgress \in [RPC -> BOOLEAN]
      /\ pendingReplies \in [RPC -> FinalStates \cup {None}]
      /\ retainPc \in [RPC -> {"idle"} \cup Saving \cup Releasing]
      /\ retainOp \in [RPC -> Op \cup {None}]
  BY DEF ManagerInv, TypeOK
<1>1. /\ (responseTimer \in [RPC -> BOOLEAN])'
      /\ (timeoutCall \in [RPC -> BOOLEAN])'
      /\ (handoffInProgress \in [RPC -> BOOLEAN])'
  BY <1>0, ExceptType, Zenon DEF timerVars
<1>2. /\ (pendingReplies \in [RPC -> FinalStates \cup {None}])'
      /\ (retainPc \in [RPC -> {"idle"} \cup Saving \cup Releasing])'
      /\ (retainOp \in [RPC -> Op \cup {None}])'
  BY <1>0
<1> USE StoreConstants, ManagerConstants
    DEF ManagerInv, requestVars, timerVars, indexVars, releaseVars, hostVars, storeVars, Live
<1>3. TypeOK'
  BY <1>1, <1>2, Zenon DEF TypeOK, StoreTypeOK
<1>4. StateLockConsistent' /\ HolderInv'
  BY <1>0, Zenon DEF StateLockConsistent, HolderInv
<1>5. StateChangeExclusion' /\ BufferedReplyHasConsumer'
  BY <1>0, ZenonT(40) DEF StateChangeExclusion, BufferedReplyHasConsumer, StateLockConsistent
<1>6. HandoffInv'
  BY <1>0 DEF HandoffInv, LiveStates, PreFlight, Releasing
<1>7. TimerInv'
  BY <1>0, ZenonT(40) DEF TimerInv, PreFlight, FinalStates
<1> QED
  BY <1>3, <1>4, <1>5, <1>6, <1>7, Zenon

(* The second critical section of RespondAndRetain after a failed Save keeps the
   invariant: the lock goes back to the request or is released with it. *)
LEMMA RetainFailedPreserves ==
  ASSUME ManagerInv, NEW r \in RPC, RetainFailed(r)
  PROVE  ManagerInv'
<1> USE StoreConstants, ManagerConstants
<1>0. retainPc[r] # "idle" /\ retainPc[r] \notin Releasing
  BY DEF RetainFailed, Releasing
<1>1. CASE Live(r)
  <2>0. /\ activeStateTx = r
        /\ txState[r] \in {"TxPendingPublish", "TxInFlight"}
    BY <1>0, <1>1, ZenonT(40) DEF ManagerInv, HandoffInv, StateChangeExclusion, IsStateChanging
  <2>1. PICK event \in EventsAfterFailedSave(r) :
          IF event # None /\ validateTransition(txState[r], event)
            THEN terminalTransition(r, txState[r], event) /\ UNCHANGED timeoutCall
            ELSE /\ pendingReplies' = [pendingReplies EXCEPT ![r] = None]
                 /\ activeStateOwner' = IF activeStateTx = r THEN "LockOwnedByRPC" ELSE activeStateOwner
                 /\ IF event = None THEN RearmTimer(r) ELSE UNCHANGED timerVars
                 /\ UNCHANGED <<txState, indexVars, stateLock, activeStateTx>>
    BY <1>1 DEF RetainFailed
  <2>2. event \in FinalStates \cup {None}
    BY DEF EventsAfterFailedSave, ManagerInv, TypeOK, FinalStates
  <2>3. CASE event # None /\ validateTransition(txState[r], event)
    <3>1. Retire(r, event) /\ ReleaseStateLock(r)
      BY <2>1, <2>3 DEF terminalTransition
    <3> QED
      BY <1>1, <2>1, <2>2, <2>3, <3>1, TerminalPreserves, Zenon
      DEF RetainFailed, requestVars, releaseVars, retainVars, hostVars, storeVars
  <2>4. CASE ~(event # None /\ validateTransition(txState[r], event))
    <3>1. event = None => txState[r] = "TxInFlight"
      BY <2>1 DEF EventsAfterFailedSave, FinalStates
    <3>2. \/ UNCHANGED timerVars
          \/ /\ txState[r] = "TxInFlight"
             /\ responseTimer' = [responseTimer EXCEPT ![r] = TRUE]
             /\ \E b \in BOOLEAN : timeoutCall' = [timeoutCall EXCEPT ![r] = b]
      BY <2>1, <2>4, <3>1, Zenon DEF RearmTimer
    <3>3. /\ pendingReplies' = [pendingReplies EXCEPT ![r] = None]
          /\ activeStateOwner' = "LockOwnedByRPC"
          /\ UNCHANGED <<txState, indexVars, stateLock, activeStateTx>>
      BY <2>0, <2>1, <2>4, Zenon
    <3> QED
      BY <2>0, <3>2, <3>3, HandBackPreserves, Zenon DEF RetainFailed
  <2> QED
    BY <2>3, <2>4, Zenon
<1>2. CASE ~Live(r)
  BY <1>2, QuietPreserves, Zenon DEF RetainFailed, timerVars
<1> QED
  BY <1>1, <1>2

(* The second critical section of RespondAndRetain after a successful Save keeps the
   invariant: the operation takes the lock over without unlocking it. *)
LEMMA RetainCommittedPreserves ==
  ASSUME ManagerInv, NEW r \in RPC, RetainCommitted(r)
  PROVE  ManagerInv'
<1> USE StoreConstants, ManagerConstants
<1>0. /\ retainPc[r] = "visible" /\ retainPc[r] \notin Releasing
      /\ retainOp[r] \in Op /\ retainOp[r] \notin RPC /\ retainOp[r] # None
  BY DEF RetainCommitted, Releasing, ManagerInv, HandoffInv
<1>1. Live(r) <=> activeStateTx = r
  BY <1>0 DEF ManagerInv, HandoffInv, StateChangeExclusion, IsStateChanging, StateLockConsistent
<1>2. pendingReplies[r] # None => Live(r)
  BY Zenon DEF ManagerInv, BufferedReplyHasConsumer
<1>3. /\ txState \in [RPC -> TransactionStates]
      /\ pendingReplies \in [RPC -> FinalStates \cup {None}]
      /\ responseTimer \in [RPC -> BOOLEAN]
      /\ retainPc \in [RPC -> {"idle"} \cup Saving \cup Releasing]
      /\ retainOp \in [RPC -> Op \cup {None}]
      /\ activeCloudRequests \in [Key -> RPC \cup {None}]
      /\ cache \in [Key -> RPC \cup {None}]
      /\ pushes \in [RPC -> Nat]
  BY ZenonT(40) DEF ManagerInv, TypeOK
<1>4. UNCHANGED <<requestVars, handoffInProgress, timeoutCall, stateLock, releaseVars, hostVars, storeVars>>
  BY DEF RetainCommitted
<1>5. CASE pendingReplies[r] # None
  <2>1. /\ activeStateTx = r /\ activeStateTx' = retainOp[r]
        /\ activeStateOwner' = "LockOwnedByOperation"
        /\ retainPc' = [retainPc EXCEPT ![r] = "release"]
        /\ UNCHANGED <<txState, responseTimer, pendingReplies, indexVars, retainOp>>
    BY <1>1, <1>2, <1>5 DEF RetainCommitted
  <2> USE <1>0, <1>3, <1>4, <1>5, <2>1
      DEF ManagerInv, requestVars, indexVars, releaseVars, hostVars, storeVars, Live
  <2>2. TypeOK'
    <3>1. (retainPc \in [RPC -> {"idle"} \cup Saving \cup Releasing])'
      BY Zenon DEF Releasing
    <3> QED
      BY <3>1, Zenon DEF TypeOK, StoreTypeOK
  <2>3. StateLockConsistent' /\ HolderInv'
    BY Zenon DEF StateLockConsistent, HolderInv
  <2>4. StateChangeExclusion' /\ BufferedReplyHasConsumer'
    BY ZenonT(40) DEF StateChangeExclusion, BufferedReplyHasConsumer, Releasing
  <2>5. HandoffInv'
    BY DEF HandoffInv, Releasing
  <2>6. TimerInv'
    BY DEF TimerInv
  <2> QED
    BY <2>2, <2>3, <2>4, <2>5, <2>6, Zenon
<1>6. CASE pendingReplies[r] = None /\ Live(r)
  <2>1. /\ activeStateTx = r /\ activeStateTx' = retainOp[r]
        /\ activeStateOwner' = "LockOwnedByOperation"
        /\ retainPc' = [retainPc EXCEPT ![r] = "idle"]
        /\ retainOp' = [retainOp EXCEPT ![r] = None]
        /\ Retire(r, "TxCompleted")
    BY <1>1, <1>6, Zenon DEF RetainCommitted
  <2>2. /\ (txState \in [RPC -> TransactionStates])'
        /\ (pendingReplies \in [RPC -> FinalStates \cup {None}])'
        /\ (retainPc \in [RPC -> {"idle"} \cup Saving \cup Releasing])'
        /\ (retainOp \in [RPC -> Op \cup {None}])'
        /\ (activeCloudRequests \in [Key -> RPC \cup {None}])'
        /\ (cache \in [Key -> RPC \cup {None}])'
    BY <1>3, <2>1 DEF Retire, TransactionStates, FinalStates
  <2>3. (responseTimer \in [RPC -> BOOLEAN])'
    BY <1>3, <2>1, ExceptType, Zenon DEF Retire
  <2>4. (pushes \in [RPC -> Nat])'
    BY <1>3, <2>1 DEF Retire
  <2>5. /\ txState' = [txState EXCEPT ![r] = "TxCompleted"]
        /\ responseTimer' = [responseTimer EXCEPT ![r] = FALSE]
        /\ pendingReplies' = [pendingReplies EXCEPT ![r] = None]
    BY <2>1 DEF Retire
  <2>6. TimerInv'
    <3>1. TimerInv /\ timeoutCall' = timeoutCall
      BY <1>4 DEF ManagerInv
    <3> QED
      BY <1>3, <2>5, <3>1, ZenonT(40) DEF TimerInv, PreFlight, FinalStates
  <2> USE <1>0, <1>3, <1>4, <1>6, <2>1, <2>5
      DEF ManagerInv, requestVars, releaseVars, hostVars, storeVars, Live, LiveStates, PreFlight
  <2>7. TypeOK'
    BY <2>2, <2>3, <2>4, Zenon DEF TypeOK, StoreTypeOK
  <2>8. StateLockConsistent' /\ HolderInv'
    BY Zenon DEF StateLockConsistent, HolderInv
  <2>9. StateChangeExclusion' /\ BufferedReplyHasConsumer'
    BY ZenonT(40) DEF StateChangeExclusion, BufferedReplyHasConsumer, StateLockConsistent, Releasing
  <2>10. HandoffInv'
    BY DEF HandoffInv, Releasing
  <2> QED
    BY <2>6, <2>7, <2>8, <2>9, <2>10, Zenon
<1>7. CASE ~Live(r)
  <2>1. /\ retainPc' = [retainPc EXCEPT ![r] = "idle"]
        /\ retainOp' = [retainOp EXCEPT ![r] = None]
        /\ UNCHANGED <<txState, responseTimer, pendingReplies, indexVars, activeStateTx, activeStateOwner>>
    BY <1>1, <1>2, <1>7 DEF RetainCommitted
  <2> QED
    BY <1>4, <1>7, <2>1, QuietPreserves, Zenon DEF lockVars
<1> QED
  BY <1>5, <1>6, <1>7, ZenonT(40)
-----------------------------------------------------------------------------

(* The invariant is inductive: no action of any caller, timer or RespondAndRetain
   call breaks it. *)
LEMMA NextPreserves ==
  ManagerInv /\ [ManagerNext]_vars => ManagerInv'
<1> SUFFICES ASSUME ManagerInv, [ManagerNext]_vars PROVE ManagerInv'
  OBVIOUS
<1>1. CASE UNCHANGED vars
  <2> USE <1>1
      DEF vars, managerVars, requestVars, timerVars, indexVars, lockVars, releaseVars, retainVars,
          hostVars, storeVars, ManagerInv, Live
  <2>1. TypeOK'
    BY DEF TypeOK, StoreTypeOK
  <2>2. StateLockConsistent' /\ StateChangeExclusion' /\ BufferedReplyHasConsumer'
    BY Zenon DEF StateLockConsistent, StateChangeExclusion, BufferedReplyHasConsumer
  <2>3. HandoffInv' /\ HolderInv' /\ TimerInv'
    BY Zenon DEF HandoffInv, HolderInv, TimerInv
  <2> QED
    BY <2>1, <2>2, <2>3, ZenonT(40)
<1>2. CASE \E r \in RPC : TransactionStep(r)
  <2> PICK r \in RPC : TransactionStep(r)
    BY <1>2
  <2>1. CASE \E q \in Requests : CreateTransaction(r, q[1], q[2], q[3])
    BY <2>1, CreatePreserves
  <2>2. CASE MarkPreparingDispatch(r)
    BY <2>2, AdvancePreserves DEF MarkPreparingDispatch
  <2>3. CASE MarkPendingPublish(r)
    BY <2>3, AdvancePreserves DEF MarkPendingPublish
  <2>4. CASE MarkInFlight(r)
    BY <2>4, MarkInFlightPreserves
  <2>5. CASE Complete(r)
    BY <2>5, CompletePreserves
  <2>6. CASE Fail(r)
    BY <2>6, FailPreserves
  <2>7. CASE ResponseTimerFires(r)
    BY <2>7, TimerFiresPreserves
  <2>8. CASE Timeout(r)
    BY <2>8, TimeoutPreserves
  <2>9. CASE \E op \in Op : RespondAndRetain(r, op)
    BY <2>9, RespondAndRetainPreserves
  <2> QED
    BY <2>1, <2>2, <2>3, <2>4, <2>5, <2>6, <2>7, <2>8, <2>9 DEF TransactionStep
<1>3. CASE \E r \in RPC : RetainStep(r)
  BY <1>3, RetainStampPreserves, RetainSavePreserves, RetainFailedPreserves, RetainCommittedPreserves,
     RetainReleasePreserves, RetainFinishPreserves
  DEF RetainStep
<1>4. CASE \E op \in Op : ReleaseOperationLock(op)
  BY <1>4, ReleasePreserves
<1>5. CASE \E op \in Op : ReleaseDelete(op)
  BY <1>5, ReleaseDeletePreserves
<1>6. CASE \E k \in Key : CacheExpire(k)
  BY <1>6, CacheExpirePreserves
<1> QED
  BY <1>1, <1>2, <1>3, <1>4, <1>5, <1>6 DEF ManagerNext

(* The strengthened invariant holds in every reachable state of the request
   manager, for any number of requests, operations and keys. *)
THEOREM ManagerInvariance == Spec => []ManagerInv
<1>1. Init => ManagerInv
  BY InitEstablishesInv
<1>2. ManagerInv /\ [ManagerNext]_vars => ManagerInv'
  BY NextPreserves
<1> QED
  BY <1>1, <1>2, PTL DEF Spec

(* Type correctness of the request manager's state. *)
THEOREM TypeCorrectness == Spec => []TypeOK
  BY ManagerInvariance, PTL DEF ManagerInv

(* The state mutex, its recorded holder and the kind of ownership agree in every
   reachable state, so terminalTransition and ReleaseOperationLock never unlock
   an unlocked mutex and no lock is left without a holder to release it. *)
THEOREM LockConsistency == Spec => []StateLockConsistent
  BY ManagerInvariance, PTL DEF ManagerInv

(* A live state-changing request holds the state lock, unless its own hand-over
   is being undone.  So of two that are live together one is an upgrade in that
   window, which has let go of the lock and is bound to the buffered event that
   ends it (CreateTransaction, RespondAndRetain). *)
THEOREM Exclusion == Spec => [](StateChangeExclusion /\ OverlapOnlyWhileUndone)
<1>1. ManagerInv => StateChangeExclusion /\ OverlapOnlyWhileUndone
  <2>1. SUFFICES ASSUME ManagerInv, NEW r \in RPC, NEW s \in RPC, r # s,
                        Live(r), IsStateChanging(txMethod[r]),
                        Live(s), IsStateChanging(txMethod[s])
                 PROVE  \E q \in {r, s} :
                          retainPc[q] \in Releasing /\ pendingReplies[q] # None /\ activeStateTx # q
    BY Zenon DEF OverlapOnlyWhileUndone, ManagerInv
  <2>2. retainPc[r] \in Releasing \/ retainPc[s] \in Releasing
    BY <2>1 DEF ManagerInv, StateChangeExclusion
  <2>3. \A q \in {r, s} : retainPc[q] \in Releasing => pendingReplies[q] # None /\ activeStateTx # q
    BY <2>1, Zenon DEF ManagerInv, HandoffInv
  <2> QED
    BY <2>2, <2>3, Zenon
<1> QED
  BY <1>1, ManagerInvariance, PTL

(* No buffered terminal event is stranded: MarkInFlight, Fail or the
   RespondAndRetain call in progress is still to consume it. *)
THEOREM NoStrandedReply == Spec => []BufferedReplyHasConsumer
  BY ManagerInvariance, PTL DEF ManagerInv
=============================================================================
