--------------------------- MODULE TransactionProofs ---------------------------
(***************************************************************************)
(* The methods of the request manager that run in one critical section     *)
(* keep ManagerInv, the inductive invariant of RequestManager: admission,  *)
(* the state changes of a transaction up to its end, timers and the cache. *)
(* RequestManagerProofs adds the hand-over of the lock to an operation and *)
(* states the theorems.                                                    *)
(***************************************************************************)
EXTENDS RequestManager, TLAPS

(* Overwriting one value of a function by a value of its range keeps its type. *)
LEMMA ExceptType ==
  ASSUME NEW S, NEW T, NEW f \in [S -> T], NEW x, NEW y \in T
  PROVE  [f EXCEPT ![x] = y] \in [S -> T]
BY Zenon

(* A new process (NewRequestManager on an empty store) satisfies the invariant. *)
LEMMA InitEstablishesInv == Init => ManagerInv
<1> SUFFICES ASSUME Init PROVE ManagerInv
  OBVIOUS
<1> USE StoreConstants, ManagerConstants DEF Init, ManagerInit, StoreInit
<1>1. TypeOK
  BY Zenon DEF TypeOK, StoreTypeOK, TransactionStates, Methods, FinalStates, LiveStates, Saving, Releasing
<1>2. StateLockConsistent
  BY DEF StateLockConsistent
<1>3. StateChangeExclusion
  BY DEF StateChangeExclusion, Live, LiveStates, PreFlight
<1>4. BufferedReplyHasConsumer
  BY DEF BufferedReplyHasConsumer
<1>5. HandoffInv
  BY DEF HandoffInv, Live, LiveStates, PreFlight
<1>6. HolderInv /\ TimerInv
  BY DEF HolderInv, TimerInv, FinalStates
<1>7. QED
  BY <1>1, <1>2, <1>3, <1>4, <1>5, <1>6 DEF ManagerInv

(* CreateTransaction keeps the invariant: a state-changing request is admitted only
   when TryLock succeeds, so nobody else holds the lock. *)
LEMMA CreatePreserves ==
  ASSUME ManagerInv, NEW r \in RPC, NEW q \in Requests,
         CreateTransaction(r, q[1], q[2], q[3])
  PROVE  ManagerInv'
<1> USE StoreConstants, ManagerConstants DEF ManagerInv
<1>0. q[1] \in Key \cup {NoKey} /\ q[2] \in BOOLEAN /\ q[3] \in Methods
  OBVIOUS
<1> USE <1>0 DEF CreateTransaction, requestVars, timerVars, lockVars, releaseVars, retainVars, hostVars, storeVars
<1>1. TypeOK'
  BY Zenon DEF TypeOK, StoreTypeOK, TransactionStates, LiveStates, PreFlight
<1>2. StateLockConsistent'
  BY DEF TypeOK, StateLockConsistent, Live, LiveStates, PreFlight, Admission, HandoffInv, IsStateChanging
<1>3. StateChangeExclusion'
  <2>1. IsStateChanging(q[3]) => activeStateTx = None
    BY DEF Admission, StateLockConsistent
  <2> SUFFICES ASSUME NEW s \in RPC, Live(s)', IsStateChanging(txMethod[s])', retainPc'[s] \notin Releasing
               PROVE  activeStateTx' = s
    BY DEF StateChangeExclusion
  <2>2. CASE s = r
    BY <2>2 DEF TypeOK
  <2>3. CASE s # r
    BY <2>1, <2>3 DEF TypeOK, StateChangeExclusion, Live
  <2> QED
    BY <2>2, <2>3
<1>4. BufferedReplyHasConsumer'
  BY DEF TypeOK, BufferedReplyHasConsumer, Live, LiveStates, PreFlight
<1>5. HandoffInv'
  BY DEF TypeOK, HandoffInv, Live, LiveStates, PreFlight, Releasing, IsStateChanging, BufferedReplyHasConsumer
<1>6. HolderInv'
  BY DEF TypeOK, HolderInv, StateLockConsistent, Live, LiveStates, PreFlight
<1>7. TimerInv'
  BY DEF TypeOK, TimerInv, HandoffInv, BufferedReplyHasConsumer, Live, LiveStates, PreFlight
<1>8. QED
  BY <1>1, <1>2, <1>3, <1>4, <1>5, <1>6, <1>7 DEF ManagerInv

(* The body of terminalTransition keeps the invariant, whichever method calls it:
   the request leaves the table, and the lock is unlocked exactly when it held it. *)
LEMMA TerminalPreserves ==
  ASSUME ManagerInv, NEW r \in RPC, Live(r), NEW final \in FinalStates,
         Retire(r, final), ReleaseStateLock(r),
         UNCHANGED <<requestVars, releaseVars, hostVars, storeVars>>,
         timeoutCall' \in {timeoutCall, [timeoutCall EXCEPT ![r] = FALSE]},
         handoffInProgress' \in {handoffInProgress, [handoffInProgress EXCEPT ![r] = FALSE]},
         \/ UNCHANGED retainVars
         \/ /\ retainPc' = [retainPc EXCEPT ![r] = "idle"]
            /\ retainOp' = [retainOp EXCEPT ![r] = None]
  PROVE  ManagerInv'
<1> USE StoreConstants, ManagerConstants
    DEF ManagerInv, Retire, ReleaseStateLock, requestVars, retainVars, lockVars, releaseVars,
        hostVars, storeVars, Live, LiveStates, PreFlight, FinalStates
<1>0. /\ txState \in [RPC -> TransactionStates]
      /\ pendingReplies \in [RPC -> FinalStates \cup {None}]
      /\ responseTimer \in [RPC -> BOOLEAN]
      /\ timeoutCall \in [RPC -> BOOLEAN]
      /\ handoffInProgress \in [RPC -> BOOLEAN]
      /\ retainPc \in [RPC -> {"idle"} \cup Saving \cup Releasing]
      /\ retainOp \in [RPC -> Op \cup {None}]
  BY DEF TypeOK
<1>1. TypeOK'
  <2> USE DEF TypeOK
  <2>1. StoreTypeOK' /\ (now \in Nat)' /\ (bootID \in Nat)'
    BY DEF StoreTypeOK
  <2>2. /\ (txState \in [RPC -> TransactionStates])'
        /\ (pendingReplies \in [RPC -> FinalStates \cup {None}])'
    BY DEF TransactionStates
  <2>2a. /\ (responseTimer \in [RPC -> BOOLEAN])'
         /\ (timeoutCall \in [RPC -> BOOLEAN])'
         /\ (handoffInProgress \in [RPC -> BOOLEAN])'
    BY ExceptType, Zenon
  <2>3. /\ (activeCloudRequests \in [Key -> RPC \cup {None}])'
        /\ (cache \in [Key -> RPC \cup {None}])'
    OBVIOUS
  <2>4. (pushes \in [RPC -> Nat])'
    OBVIOUS
  <2>5. /\ (retainPc \in [RPC -> {"idle"} \cup Saving \cup Releasing])'
        /\ (retainOp \in [RPC -> Op \cup {None}])'
    BY Zenon
  <2> QED
    BY <2>1, <2>2, <2>2a, <2>3, <2>4, <2>5, Zenon
<1>2. StateLockConsistent'
  BY <1>0 DEF StateLockConsistent
<1>3. StateChangeExclusion'
  BY <1>0 DEF StateChangeExclusion
<1>4. BufferedReplyHasConsumer'
  BY <1>0 DEF BufferedReplyHasConsumer
<1>5. HandoffInv'
  BY <1>0 DEF HandoffInv
<1>6. HolderInv'
  BY <1>0 DEF HolderInv
<1>7. TimerInv'
  BY <1>0 DEF TimerInv
<1>8. QED
  BY <1>1, <1>2, <1>3, <1>4, <1>5, <1>6, <1>7, Zenon DEF ManagerInv

(* Storing a terminal event in pendingReplies keeps the invariant: the transaction is
   before MarkInFlight or inside RespondAndRetain, so the event has a consumer. *)
LEMMA BufferPreserves ==
  ASSUME ManagerInv, NEW r \in RPC, Live(r), NEW event \in FinalStates,
         BufferReply(r, event),
         txState[r] \in PreFlight \/ handoffInProgress[r],
         event = "TxTimedOut" => txState[r] = "TxInFlight",
         timeoutCall' \in {timeoutCall, [timeoutCall EXCEPT ![r] = FALSE]},
         UNCHANGED <<requestVars, handoffInProgress, releaseVars, retainVars, hostVars, storeVars>>
  PROVE  ManagerInv'
<1> USE StoreConstants, ManagerConstants
    DEF ManagerInv, BufferReply, requestVars, retainVars, lockVars, releaseVars, indexVars,
        hostVars, storeVars, Live
<1>0. /\ pendingReplies \in [RPC -> FinalStates \cup {None}]
      /\ timeoutCall \in [RPC -> BOOLEAN]
  BY DEF TypeOK
<1>1. TypeOK'
  BY ZenonT(30) DEF TypeOK, StoreTypeOK
<1>2. StateLockConsistent' /\ StateChangeExclusion' /\ HolderInv'
  BY <1>0 DEF StateLockConsistent, StateChangeExclusion, HolderInv
<1>3. BufferedReplyHasConsumer'
  BY <1>0 DEF BufferedReplyHasConsumer, HandoffInv
<1>4. HandoffInv'
  BY <1>0 DEF HandoffInv
<1>5. TimerInv'
  BY <1>0 DEF TimerInv
<1>6. QED
  BY <1>1, <1>2, <1>3, <1>4, <1>5, Zenon DEF ManagerInv

(* A step that only ends a Timeout callback, or the RespondAndRetain call of a
   transaction that is no longer live, keeps the invariant. *)
LEMMA QuietPreserves ==
  ASSUME ManagerInv, NEW r \in RPC,
         UNCHANGED <<txState, responseTimer, pendingReplies, indexVars, lockVars, requestVars,
                     releaseVars, hostVars, storeVars>>,
         timeoutCall' \in {timeoutCall, [timeoutCall EXCEPT ![r] = FALSE]},
         \/ UNCHANGED <<handoffInProgress, retainVars>>
         \/ /\ ~Live(r)
            /\ handoffInProgress' \in {handoffInProgress, [handoffInProgress EXCEPT ![r] = FALSE]}
            /\ retainPc' = [retainPc EXCEPT ![r] = "idle"]
            /\ retainOp' = [retainOp EXCEPT ![r] = None]
  PROVE  ManagerInv'
<1>0. /\ timeoutCall \in [RPC -> BOOLEAN]
      /\ handoffInProgress \in [RPC -> BOOLEAN]
      /\ retainPc \in [RPC -> {"idle"} \cup Saving \cup Releasing]
      /\ retainOp \in [RPC -> Op \cup {None}]
  BY DEF ManagerInv, TypeOK
<1>1. /\ (timeoutCall \in [RPC -> BOOLEAN])'
      /\ (handoffInProgress \in [RPC -> BOOLEAN])'
  BY <1>0, ExceptType, Zenon
<1>2. /\ (retainPc \in [RPC -> {"idle"} \cup Saving \cup Releasing])'
      /\ (retainOp \in [RPC -> Op \cup {None}])'
  BY <1>0 DEF retainVars
<1> USE StoreConstants, ManagerConstants
    DEF ManagerInv, requestVars, indexVars, lockVars, releaseVars, retainVars, hostVars, storeVars,
        Live
<1>3. TypeOK'
  BY <1>1, <1>2, Zenon DEF TypeOK, StoreTypeOK
<1>4. StateLockConsistent' /\ HolderInv'
  BY <1>0 DEF StateLockConsistent, HolderInv
<1>5. StateChangeExclusion' /\ BufferedReplyHasConsumer'
  BY <1>0 DEF StateChangeExclusion, BufferedReplyHasConsumer
<1>6. HandoffInv'
  BY <1>0 DEF HandoffInv
<1>7. TimerInv'
  BY <1>0 DEF TimerInv
<1> QED
  BY <1>3, <1>4, <1>5, <1>6, <1>7, Zenon

(* Arming the response timer of a published command keeps the invariant. *)
LEMMA ArmPreserves ==
  ASSUME ManagerInv, NEW r \in RPC,
         txState[r] = "TxPendingPublish", pendingReplies[r] = None,
         txState' = [txState EXCEPT ![r] = "TxInFlight"],
         responseTimer' = [responseTimer EXCEPT ![r] = TRUE],
         UNCHANGED <<pendingReplies, indexVars, lockVars, requestVars, handoffInProgress,
                     timeoutCall, releaseVars, retainVars, hostVars, storeVars>>
  PROVE  ManagerInv'
<1>0. /\ txState \in [RPC -> TransactionStates]
      /\ responseTimer \in [RPC -> BOOLEAN]
  BY DEF ManagerInv, TypeOK
<1>1. /\ (txState \in [RPC -> TransactionStates])'
      /\ (responseTimer \in [RPC -> BOOLEAN])'
  BY <1>0, ExceptType, Zenon DEF TransactionStates, LiveStates
<1> USE StoreConstants, ManagerConstants
    DEF ManagerInv, requestVars, indexVars, lockVars, releaseVars, retainVars, hostVars, storeVars,
        Live, LiveStates, PreFlight
<1>2. TypeOK'
  BY <1>1, Zenon DEF TypeOK, StoreTypeOK
<1>3. StateLockConsistent' /\ HolderInv'
  BY <1>0 DEF StateLockConsistent, HolderInv
<1>4. StateChangeExclusion' /\ BufferedReplyHasConsumer'
  BY <1>0, Zenon DEF StateChangeExclusion, BufferedReplyHasConsumer
<1>5. HandoffInv'
  BY <1>0 DEF HandoffInv
<1>6. TimerInv'
  BY <1>0 DEF TimerInv
<1> QED
  BY <1>2, <1>3, <1>4, <1>5, <1>6, Zenon

(* MarkPreparingDispatch and MarkPendingPublish keep the invariant. *)
LEMMA AdvancePreserves ==
  ASSUME ManagerInv, NEW r \in RPC,
         NEW to \in {"TxPreparingDispatch", "TxPendingPublish"}, Advance(r, to)
  PROVE  ManagerInv'
<1> USE StoreConstants, ManagerConstants
    DEF ManagerInv, Advance, validateTransition, requestVars, timerVars, indexVars, lockVars,
        releaseVars, retainVars, hostVars, storeVars, Live, LiveStates, PreFlight
<1>0. txState \in [RPC -> TransactionStates]
  BY Zenon DEF TypeOK
<1>1. TypeOK'
  BY ZenonT(40) DEF TypeOK, StoreTypeOK, TransactionStates, Saving, Releasing
<1>2. StateLockConsistent'
  BY <1>0 DEF StateLockConsistent
<1>3. StateChangeExclusion'
  BY <1>0 DEF StateChangeExclusion
<1>4. BufferedReplyHasConsumer'
  BY <1>0 DEF BufferedReplyHasConsumer
<1>5. HandoffInv'
  BY <1>0 DEF HandoffInv
<1>6. HolderInv'
  BY <1>0, Zenon DEF HolderInv
<1>7. TimerInv'
  BY <1>0 DEF TimerInv
<1>8. QED
  BY <1>1, <1>2, <1>3, <1>4, <1>5, <1>6, <1>7, Zenon DEF ManagerInv

(* The expiry of a response timer, which starts a Timeout callback, keeps the invariant. *)
LEMMA TimerFiresPreserves ==
  ASSUME ManagerInv, NEW r \in RPC, ResponseTimerFires(r)
  PROVE  ManagerInv'
<1> USE StoreConstants, ManagerConstants
    DEF ManagerInv, ResponseTimerFires, requestVars, timerVars, indexVars, lockVars,
        releaseVars, retainVars, hostVars, storeVars, Live, LiveStates, PreFlight
<1>0. /\ responseTimer \in [RPC -> BOOLEAN]
      /\ timeoutCall \in [RPC -> BOOLEAN]
  BY Zenon DEF TypeOK
<1>1. TypeOK'
  BY ZenonT(40) DEF TypeOK, StoreTypeOK, TransactionStates, Saving, Releasing
<1>2. StateLockConsistent'
  BY <1>0, Zenon DEF StateLockConsistent
<1>3. StateChangeExclusion'
  BY <1>0, ZenonT(40) DEF StateChangeExclusion
<1>4. BufferedReplyHasConsumer'
  BY <1>0, Zenon DEF BufferedReplyHasConsumer
<1>5. HandoffInv'
  BY <1>0 DEF HandoffInv
<1>6. HolderInv'
  BY <1>0 DEF HolderInv
<1>7. TimerInv'
  BY <1>0 DEF TimerInv
<1>8. QED
  BY <1>1, <1>2, <1>3, <1>4, <1>5, <1>6, <1>7, Zenon DEF ManagerInv

(* The expiry of a cached response (cache.Get, sweepCache) keeps the invariant. *)
LEMMA CacheExpirePreserves ==
  ASSUME ManagerInv, NEW k \in Key, CacheExpire(k)
  PROVE  ManagerInv'
<1> USE StoreConstants, ManagerConstants
    DEF ManagerInv, CacheExpire, requestVars, timerVars, indexVars, lockVars,
        releaseVars, retainVars, hostVars, storeVars, Live, LiveStates, PreFlight
<1>1. TypeOK'
  BY DEF TypeOK, StoreTypeOK, TransactionStates, Saving, Releasing
<1>2. StateLockConsistent'
  BY DEF StateLockConsistent
<1>3. StateChangeExclusion'
  BY DEF StateChangeExclusion
<1>4. BufferedReplyHasConsumer'
  BY Zenon DEF BufferedReplyHasConsumer
<1>5. HandoffInv'
  BY DEF HandoffInv
<1>6. HolderInv'
  BY DEF HolderInv
<1>7. TimerInv'
  BY DEF TimerInv
<1>8. QED
  BY <1>1, <1>2, <1>3, <1>4, <1>5, <1>6, <1>7, Zenon DEF ManagerInv

(* MarkInFlight keeps the invariant, with or without a buffered reply to apply. *)
LEMMA MarkInFlightPreserves ==
  ASSUME ManagerInv, NEW r \in RPC, MarkInFlight(r)
  PROVE  ManagerInv'
<1> USE StoreConstants, ManagerConstants
<1>0. txState[r] = "TxPendingPublish" /\ Live(r)
  BY Zenon DEF MarkInFlight, validateTransition, Live, LiveStates, PreFlight
<1>1. CASE pendingReplies[r] # None
  <2>1. pendingReplies[r] \in FinalStates
    BY <1>1, Zenon DEF ManagerInv, TypeOK
  <2>2. Retire(r, pendingReplies[r]) /\ ReleaseStateLock(r)
    BY <1>1, <2>1, Zenon DEF MarkInFlight, terminalTransition, validateTransition, FinalStates
  <2> QED
    BY <1>0, <2>1, <2>2, TerminalPreserves, Zenon
    DEF MarkInFlight, requestVars, releaseVars, retainVars, hostVars, storeVars
<1>2. CASE pendingReplies[r] = None
  BY <1>0, <1>2, ArmPreserves, Zenon DEF MarkInFlight
<1> QED
  BY <1>1, <1>2

(* Complete keeps the invariant, whether it buffers the reply or applies it. *)
LEMMA CompletePreserves ==
  ASSUME ManagerInv, NEW r \in RPC, Complete(r)
  PROVE  ManagerInv'
<1>0. Live(r) /\ "TxCompleted" \in FinalStates
  BY DEF Complete, FinalStates
<1>1. CASE txState[r] \in PreFlight \/ handoffInProgress[r]
  BY <1>0, <1>1, BufferPreserves, ZenonT(40) DEF Complete
<1>2. CASE ~(txState[r] \in PreFlight \/ handoffInProgress[r])
  <2>1. Retire(r, "TxCompleted") /\ ReleaseStateLock(r)
    BY <1>0, <1>2 DEF Complete, terminalTransition, validateTransition, Live, LiveStates
  <2> QED
    BY <1>0, <2>1, TerminalPreserves
    DEF Complete, requestVars, releaseVars, retainVars, hostVars, storeVars
<1> QED
  BY <1>1, <1>2, Zenon

(* The common body of Fail and Timeout, for an event that is a legal end of
   the transaction's present state. *)
LEMMA FailOrTimeoutPreserves ==
  ASSUME ManagerInv, NEW r \in RPC, Live(r), NEW event \in {"TxFailed", "TxTimedOut"},
         event = "TxTimedOut" => txState[r] = "TxInFlight",
         FailOrTimeout(r, event),
         timeoutCall' \in {timeoutCall, [timeoutCall EXCEPT ![r] = FALSE]},
         UNCHANGED <<requestVars, handoffInProgress, releaseVars, retainVars, hostVars, storeVars>>
  PROVE  ManagerInv'
<1> USE StoreConstants, ManagerConstants
<1>0. event \in FinalStates
  BY Zenon DEF FinalStates
<1>1. CASE handoffInProgress[r] /\ pendingReplies[r] = None
  BY <1>0, <1>1, BufferPreserves, ZenonT(40) DEF FailOrTimeout
<1>2. CASE handoffInProgress[r] /\ pendingReplies[r] # None
  BY <1>2, QuietPreserves DEF FailOrTimeout
<1>3. CASE /\ ~handoffInProgress[r] /\ pendingReplies[r] # None
           /\ validateTransition(txState[r], "TxInFlight")
  <2>1. pendingReplies[r] \in FinalStates
    BY <1>3, Zenon DEF ManagerInv, TypeOK
  <2>2. Retire(r, pendingReplies[r]) /\ ReleaseStateLock(r)
    BY <1>3, <2>1 DEF FailOrTimeout, terminalTransition, validateTransition, FinalStates
  <2> QED
    BY <2>1, <2>2, TerminalPreserves, Zenon
    DEF requestVars, releaseVars, retainVars, hostVars, storeVars
<1>4. CASE /\ ~handoffInProgress[r]
           /\ ~(pendingReplies[r] # None /\ validateTransition(txState[r], "TxInFlight"))
  <2>1. validateTransition(txState[r], event)
    BY DEF validateTransition, Live, LiveStates, PreFlight
  <2>2. Retire(r, event) /\ ReleaseStateLock(r)
    BY <1>4, <2>1 DEF FailOrTimeout, terminalTransition
  <2> QED
    BY <1>0, <2>2, TerminalPreserves, Zenon
    DEF requestVars, releaseVars, retainVars, hostVars, storeVars
<1> QED
  BY <1>1, <1>2, <1>3, <1>4

(* Fail keeps the invariant. *)
LEMMA FailPreserves ==
  ASSUME ManagerInv, NEW r \in RPC, Fail(r)
  PROVE  ManagerInv'
BY FailOrTimeoutPreserves DEF Fail, requestVars, releaseVars, retainVars, hostVars, storeVars

(* The Timeout callback keeps the invariant, even when it arrives after the transaction ended. *)
LEMMA TimeoutPreserves ==
  ASSUME ManagerInv, NEW r \in RPC, Timeout(r)
  PROVE  ManagerInv'
<1>1. CASE Live(r)
  <2>1. txState[r] = "TxInFlight"
    BY <1>1 DEF ManagerInv, TimerInv, Timeout, Live, LiveStates
  <2> QED
    BY <1>1, <2>1, FailOrTimeoutPreserves, ZenonT(30)
    DEF Timeout, requestVars, releaseVars, retainVars, hostVars, storeVars
<1>2. CASE ~Live(r)
  BY <1>2, QuietPreserves, Zenon DEF Timeout
<1> QED
  BY <1>1, <1>2
=============================================================================
