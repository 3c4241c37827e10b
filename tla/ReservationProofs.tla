-------------------------- MODULE ReservationProofs --------------------------
(***************************************************************************)
(* RequestManager implements DeviceReservation, for every set of requests, *)
(* operations, keys and storage faults.  The proof needs ManagerInv: only  *)
(* an invariant says that a free mutex means a free device, that a request *)
(* in its hand-over holds the device while it is live, and that one which  *)
(* is not handing over makes no offer.                                     *)
(***************************************************************************)
EXTENDS RequestManagerProofs

Phases == [p \in RPC |-> phaseOf(p)]
Offers == [p \in RPC |-> offerOf(p)]
Used   == {op \in Op : opRPC[op] # None}

(* A step that changes neither the holder, nor the life of a transaction, nor
   an offer, stutters. *)
LEMMA Stutters ==
  ASSUME UNCHANGED <<activeStateTx, opRPC>>,
         \A p \in RPC : phaseOf(p)' = phaseOf(p) /\ offerOf(p)' = offerOf(p)
  PROVE  UNCHANGED Reservation!reservationVars
  BY DEF Reservation!reservationVars

(* The lives of the transactions after a step of one of them. *)
LEMMA PhaseChange ==
  ASSUME NEW r \in RPC, \A p \in RPC \ {r} : txState'[p] = txState[p]
  PROVE  Phases' = [Phases EXCEPT ![r] = phaseOf(r)']
  BY Zenon DEF Phases, phaseOf, Live

(* The offers after a step of one transaction. *)
LEMMA OfferChange ==
  ASSUME NEW r \in RPC,
         \A p \in RPC \ {r} : txState'[p] = txState[p] /\ retainPc'[p] = retainPc[p] /\ retainOp'[p] = retainOp[p]
  PROVE  Offers' = [Offers EXCEPT ![r] = offerOf(r)']
  BY Zenon DEF Offers, offerOf, Live

(* terminalTransition of a live transaction, whatever the RespondAndRetain call
   does in the same critical section: the request finishes, or the transition
   is refused and the transaction stays live. *)
LEMMA TerminalFinishes ==
  ASSUME TypeOK, NEW r \in RPC, Live(r), NEW final \in FinalStates,
         Retire(r, final), ReleaseStateLock(r), UNCHANGED opRPC,
         \A p \in RPC \ {r} : retainPc'[p] = retainPc[p] /\ retainOp'[p] = retainOp[p]
  PROVE  Reservation!Finish(r)
<1>1. txState'[r] = final /\ \A p \in RPC \ {r} : txState'[p] = txState[p]
  BY DEF Retire, TypeOK
<1>2. phaseOf(r) = "running" /\ phaseOf(r)' = "over" /\ offerOf(r)' = None
  BY <1>1 DEF phaseOf, offerOf, Live, LiveStates, PreFlight, FinalStates
<1>3. Phases' = [Phases EXCEPT ![r] = "over"] /\ Offers' = [Offers EXCEPT ![r] = None]
  BY <1>1, <1>2, PhaseChange, OfferChange
<1>4. activeStateTx' = IF activeStateTx = r THEN None ELSE activeStateTx
  BY DEF ReleaseStateLock, lockVars
<1> QED
  BY <1>2, <1>3, <1>4 DEF Reservation!Finish, Phases, Offers

(* terminalTransition from a live state, with the RespondAndRetain call at rest. *)
LEMMA TerminalStep ==
  ASSUME TypeOK, NEW r \in RPC, Live(r), NEW final \in FinalStates, NEW from \in LiveStates,
         terminalTransition(r, from, final), UNCHANGED <<opRPC, retainPc, retainOp>>
  PROVE  [Reservation!Next]_(Reservation!reservationVars)
<1>1. CASE validateTransition(from, final)
  BY <1>1, TerminalFinishes, Zenon DEF terminalTransition, Reservation!Next
<1>2. CASE ~validateTransition(from, final)
  <2>1. txState' = [txState EXCEPT ![r] = from] /\ UNCHANGED activeStateTx
    BY <1>2, Zenon DEF terminalTransition, lockVars
  <2>2. \A p \in RPC : phaseOf(p)' = phaseOf(p) /\ offerOf(p)' = offerOf(p)
    BY <2>1 DEF phaseOf, offerOf, Live, LiveStates, PreFlight, TypeOK
  <2> QED
    BY <2>1, <2>2, Stutters
<1> QED
  BY <1>1, <1>2
-----------------------------------------------------------------------------
(* CreateTransaction begins a request; a state-changing one reserves the
   device, which TryLock has found free. *)
LEMMA CreateRefines ==
  ASSUME ManagerInv, NEW r \in RPC, NEW q \in Requests, CreateTransaction(r, q[1], q[2], q[3])
  PROVE  [Reservation!Next]_(Reservation!reservationVars)
<1>0. TypeOK /\ txState[r] = "unused" /\ retainPc[r] = "idle"
  BY DEF ManagerInv, CreateTransaction, HandoffInv
<1>1. txState' = [txState EXCEPT ![r] = "TxCreated"] /\ UNCHANGED <<retainPc, retainOp, opRPC>>
  BY DEF CreateTransaction, retainVars, storeVars
<1>2. txState'[r] = "TxCreated" /\ \A p \in RPC \ {r} : txState'[p] = txState[p]
  BY <1>0, <1>1 DEF TypeOK
<1>3. phaseOf(r) = "new" /\ phaseOf(r)' = "running" /\ offerOf(r) = None /\ offerOf(r)' = None
  BY <1>0, <1>1, <1>2 DEF phaseOf, offerOf, Live, LiveStates, PreFlight, Saving
<1>4. Phases' = [Phases EXCEPT ![r] = "running"] /\ Offers' = [Offers EXCEPT ![r] = None]
  BY <1>1, <1>2, <1>3, PhaseChange, OfferChange
<1>5. Offers' = Offers
  BY <1>3, <1>4, Zenon DEF Offers
<1>6. CASE IsStateChanging(q[3])
  <2>1. activeStateTx' = r
    BY <1>6 DEF CreateTransaction
  <2>2. activeStateTx = None
    BY <1>6 DEF CreateTransaction, Admission, ManagerInv, StateLockConsistent
  <2> QED
    BY <1>1, <1>3, <1>4, <1>5, <2>1, <2>2, Zenon DEF Reservation!Next, Reservation!Reserve, Phases, Offers
<1>7. CASE ~IsStateChanging(q[3])
  <2>1. UNCHANGED activeStateTx
    BY <1>7 DEF CreateTransaction, lockVars
  <2> QED
    BY <1>1, <1>3, <1>4, <1>5, <2>1, Zenon DEF Reservation!Next, Reservation!Begin, Phases, Offers
<1> QED
  BY <1>6, <1>7

(* The Mark... methods, without a buffered reply, and the buffering of one leave
   the reservation alone. *)
LEMMA LiveStutters ==
  ASSUME TypeOK, NEW r \in RPC, Live(r), NEW to \in LiveStates,
         txState' = [txState EXCEPT ![r] = to],
         UNCHANGED <<activeStateTx, opRPC, retainPc, retainOp>>
  PROVE  UNCHANGED Reservation!reservationVars
<1>1. \A p \in RPC : phaseOf(p)' = phaseOf(p) /\ offerOf(p)' = offerOf(p)
  BY DEF phaseOf, offerOf, Live, LiveStates, PreFlight, TypeOK
<1> QED
  BY <1>1, Stutters

(* So does a step that changes no transaction's state at all and no hand-over. *)
LEMMA QuietStutters ==
  ASSUME UNCHANGED <<txState, activeStateTx, opRPC, retainPc, retainOp>>
  PROVE  UNCHANGED Reservation!reservationVars
<1>1. \A p \in RPC : phaseOf(p)' = phaseOf(p) /\ offerOf(p)' = offerOf(p)
  BY DEF phaseOf, offerOf, Live
<1> QED
  BY <1>1, Stutters

(* Fail and Timeout of a live transaction. *)
LEMMA FailOrTimeoutRefines ==
  ASSUME TypeOK, NEW r \in RPC, Live(r), NEW event \in FinalStates, FailOrTimeout(r, event),
         UNCHANGED <<opRPC, retainPc, retainOp>>
  PROVE  [Reservation!Next]_(Reservation!reservationVars)
<1>1. CASE UNCHANGED <<txState, activeStateTx>>
  BY <1>1, QuietStutters
<1>2. CASE terminalTransition(r, txState[r], event)
  BY <1>2, TerminalStep DEF Live
<1>3. CASE pendingReplies[r] # None /\ terminalTransition(r, "TxInFlight", pendingReplies[r])
  <2>1. pendingReplies[r] \in FinalStates /\ "TxInFlight" \in LiveStates
    BY <1>3 DEF TypeOK, LiveStates
  <2> QED
    BY <1>3, <2>1, TerminalStep
<1> QED
  BY <1>1, <1>2, <1>3, Zenon DEF FailOrTimeout, BufferReply, lockVars

(* Every method of a transaction except CreateTransaction and RespondAndRetain. *)
LEMMA MethodRefines ==
  ASSUME TypeOK, NEW r \in RPC,
         \/ MarkPreparingDispatch(r) \/ MarkPendingPublish(r) \/ MarkInFlight(r) \/ Complete(r)
         \/ Fail(r) \/ ResponseTimerFires(r) \/ Timeout(r)
  PROVE  [Reservation!Next]_(Reservation!reservationVars)
<1>1. UNCHANGED <<opRPC, retainPc, retainOp>>
  BY Zenon DEF MarkPreparingDispatch, MarkPendingPublish, Advance, MarkInFlight, Complete, Fail,
               ResponseTimerFires, Timeout, retainVars, storeVars
<1>2. ASSUME NEW to \in {"TxPreparingDispatch", "TxPendingPublish"}, Advance(r, to)
      PROVE  UNCHANGED Reservation!reservationVars
  <2>1. Live(r) /\ to \in LiveStates
    BY <1>2 DEF Advance, validateTransition, Live, LiveStates, PreFlight
  <2>2. UNCHANGED activeStateTx /\ txState' = [txState EXCEPT ![r] = to]
    BY <1>2 DEF Advance, lockVars
  <2> QED
    BY <1>1, <2>1, <2>2, LiveStutters, Zenon
<1>3. CASE MarkInFlight(r)
  <2>1. Live(r) /\ "TxInFlight" \in LiveStates
    BY <1>3 DEF MarkInFlight, validateTransition, Live, LiveStates, PreFlight
  <2>2. CASE pendingReplies[r] # None
    <3>1. pendingReplies[r] \in FinalStates /\ terminalTransition(r, "TxInFlight", pendingReplies[r])
      BY <1>3, <2>2 DEF MarkInFlight, TypeOK
    <3> QED
      BY <1>1, <2>1, <3>1, TerminalStep
  <2>3. CASE pendingReplies[r] = None
    <3>1. UNCHANGED activeStateTx /\ txState' = [txState EXCEPT ![r] = "TxInFlight"]
      BY <1>3, <2>3 DEF MarkInFlight, lockVars
    <3> QED
      BY <1>1, <2>1, <3>1, LiveStutters, Zenon
  <2> QED
    BY <2>2, <2>3
<1>4. CASE Complete(r)
  <2>1. CASE BufferReply(r, "TxCompleted")
    BY <1>1, <2>1, QuietStutters DEF BufferReply, lockVars
  <2>2. CASE terminalTransition(r, txState[r], "TxCompleted")
    BY <1>1, <1>4, <2>2, TerminalStep DEF Complete, Live, FinalStates
  <2> QED
    BY <1>4, <2>1, <2>2 DEF Complete
<1>5. CASE Fail(r)
  BY <1>1, <1>5, FailOrTimeoutRefines DEF Fail, FinalStates
<1>6. CASE ResponseTimerFires(r)
  BY <1>1, <1>6, QuietStutters DEF ResponseTimerFires, lockVars
<1>7. CASE Timeout(r)
  <2>1. CASE Live(r)
    BY <1>1, <1>7, <2>1, FailOrTimeoutRefines DEF Timeout, FinalStates
  <2>2. CASE ~Live(r)
    BY <1>1, <1>7, <2>2, QuietStutters DEF Timeout, lockVars
  <2> QED
    BY <2>1, <2>2
<1> QED
  BY <1>2, <1>3, <1>4, <1>5, <1>6, <1>7 DEF MarkPreparingDispatch, MarkPendingPublish
-----------------------------------------------------------------------------
(* The first critical section of RespondAndRetain offers the device to an
   operation that has never had it. *)
LEMMA RespondAndRetainRefines ==
  ASSUME ManagerInv, NEW r \in RPC, NEW op \in Op, RespondAndRetain(r, op)
  PROVE  Reservation!Offer(r, op)
<1>0. TypeOK /\ Live(r) /\ retainPc[r] = "idle" /\ activeStateTx = r
  <2>1. txState[r] \in {"TxInFlight", "TxPendingPublish"} /\ ~handoffInProgress[r] /\ activeStateTx = r
    BY Zenon DEF RespondAndRetain
  <2>2. Live(r)
    BY <2>1 DEF Live, LiveStates, PreFlight
  <2>3. TypeOK /\ HandoffInv
    BY DEF ManagerInv
  <2> QED
    BY <2>1, <2>2, <2>3, Zenon DEF HandoffInv
<1>1. /\ retainPc' = [retainPc EXCEPT ![r] = "stamp"]
      /\ retainOp' = [retainOp EXCEPT ![r] = op]
      /\ opRPC' = [opRPC EXCEPT ![op] = r]
      /\ opRPC[op] = None
      /\ UNCHANGED <<txState, activeStateTx>>
  BY DEF RespondAndRetain
<1>2. /\ retainPc'[r] = "stamp" /\ retainOp'[r] = op
      /\ \A p \in RPC \ {r} : retainPc'[p] = retainPc[p] /\ retainOp'[p] = retainOp[p]
  BY <1>0, <1>1 DEF TypeOK
<1>3. phaseOf(r) = "running" /\ offerOf(r) = None /\ offerOf(r)' = op
  BY <1>0, <1>1, <1>2 DEF phaseOf, offerOf, Live, LiveStates, PreFlight, Saving
<1>4. Offers' = [Offers EXCEPT ![r] = op]
  BY <1>1, <1>2, <1>3, OfferChange
<1>5. Phases' = Phases
  BY <1>1 DEF Phases, phaseOf, Live
<1>6. Used' = Used \cup {op} /\ op \notin Used
  BY <1>0, <1>1, StoreConstants DEF Used, TypeOK, StoreTypeOK
<1> QED
  BY <1>0, <1>1, <1>3, <1>4, <1>5, <1>6 DEF Reservation!Offer, Phases, Offers, Used

(* Building and publishing the record leaves the offer standing. *)
LEMMA SavingStutters ==
  ASSUME TypeOK, NEW r \in RPC, RetainStamp(r) \/ RetainSave(r)
  PROVE  UNCHANGED Reservation!reservationVars
<1>1. /\ retainPc[r] \in Saving
      /\ \E pc \in Saving : retainPc' = [retainPc EXCEPT ![r] = pc]
      /\ UNCHANGED <<txState, activeStateTx, opRPC, retainOp>>
  BY DEF RetainStamp, RetainSave, Saving, lockVars
<1>2. \A p \in RPC : phaseOf(p)' = phaseOf(p) /\ offerOf(p)' = offerOf(p)
  BY <1>1 DEF phaseOf, offerOf, Live, TypeOK
<1> QED
  BY <1>1, <1>2, Stutters, ZenonT(40)

(* The end of a RespondAndRetain call whose transaction is over already. *)
LEMMA OverStutters ==
  ASSUME TypeOK, NEW r \in RPC, ~Live(r), UNCHANGED <<txState, activeStateTx, opRPC>>,
         retainPc' = [retainPc EXCEPT ![r] = "idle"],
         retainOp' = [retainOp EXCEPT ![r] = None]
  PROVE  UNCHANGED Reservation!reservationVars
<1>1. \A p \in RPC : phaseOf(p)' = phaseOf(p) /\ offerOf(p)' = offerOf(p)
  BY DEF phaseOf, offerOf, Live, TypeOK
<1> QED
  BY <1>1, Stutters

(* After a failed Save the request withdraws its offer, or finishes. *)
LEMMA RetainFailedRefines ==
  ASSUME ManagerInv, NEW r \in RPC, RetainFailed(r)
  PROVE  [Reservation!Next]_(Reservation!reservationVars)
<1>0. /\ TypeOK /\ retainPc[r] \in Saving /\ retainOp[r] \in Op
      /\ retainPc' = [retainPc EXCEPT ![r] = "idle"]
      /\ retainOp' = [retainOp EXCEPT ![r] = None]
      /\ UNCHANGED opRPC
  BY DEF ManagerInv, RetainFailed, HandoffInv, Saving, storeVars
<1>1. /\ retainPc'[r] = "idle"
      /\ \A p \in RPC \ {r} : retainPc'[p] = retainPc[p] /\ retainOp'[p] = retainOp[p]
  BY <1>0 DEF TypeOK
<1>2. CASE ~Live(r)
  BY <1>0, <1>2, OverStutters, Zenon DEF RetainFailed, lockVars
<1>3. CASE Live(r)
  <2>1. PICK event \in EventsAfterFailedSave(r) :
          IF event # None /\ validateTransition(txState[r], event)
            THEN terminalTransition(r, txState[r], event)
            ELSE UNCHANGED <<txState, activeStateTx>>
    BY <1>3, Zenon DEF RetainFailed
  <2>2. event \in FinalStates \cup {None}
    BY <1>0 DEF EventsAfterFailedSave, TypeOK, FinalStates
  <2>3. CASE event # None /\ validateTransition(txState[r], event)
    <3>1. Retire(r, event) /\ ReleaseStateLock(r) /\ event \in FinalStates
      BY <2>1, <2>2, <2>3 DEF terminalTransition
    <3> QED
      BY <1>0, <1>1, <1>3, <3>1, TerminalFinishes, Zenon DEF Reservation!Next
  <2>4. CASE ~(event # None /\ validateTransition(txState[r], event))
    <3>1. UNCHANGED <<txState, activeStateTx>>
      BY <2>1, <2>4
    <3>2. offerOf(r) # None /\ offerOf(r)' = None
      BY <1>0, <1>1, <1>3, <3>1, StoreConstants DEF offerOf, Saving
    <3>3. Offers' = [Offers EXCEPT ![r] = None]
      BY <1>1, <3>1, <3>2, OfferChange
    <3>4. Phases' = Phases
      BY <3>1 DEF Phases, phaseOf, Live
    <3> QED
      BY <1>0, <3>1, <3>2, <3>3, <3>4, Zenon DEF Reservation!Next, Reservation!Withdraw, Phases, Offers
  <2> QED
    BY <2>3, <2>4
<1> QED
  BY <1>2, <1>3, ZenonT(40)

(* After a successful Save the operation has the device, in one step. *)
LEMMA RetainCommittedRefines ==
  ASSUME ManagerInv, NEW r \in RPC, RetainCommitted(r)
  PROVE  [Reservation!Next]_(Reservation!reservationVars)
<1> USE StoreConstants, ManagerConstants
<1>0. /\ TypeOK /\ retainPc[r] = "visible" /\ retainOp[r] \in Op
      /\ UNCHANGED opRPC
  BY ZenonT(40) DEF ManagerInv, RetainCommitted, HandoffInv, storeVars
<1>1. Live(r) <=> activeStateTx = r
  BY <1>0 DEF ManagerInv, HandoffInv, StateChangeExclusion, IsStateChanging, StateLockConsistent, Releasing
<1>2. pendingReplies[r] # None => Live(r)
  BY DEF ManagerInv, BufferedReplyHasConsumer
<1>3. CASE ~Live(r)
  <2>1. /\ retainPc' = [retainPc EXCEPT ![r] = "idle"]
        /\ retainOp' = [retainOp EXCEPT ![r] = None]
        /\ UNCHANGED <<txState, activeStateTx>>
    BY <1>1, <1>2, <1>3 DEF RetainCommitted
  <2> QED
    BY <1>0, <1>3, <2>1, OverStutters, Zenon
<1>4. CASE Live(r)
  <2>1. activeStateTx = r /\ activeStateTx' = retainOp[r]
    BY <1>1, <1>4, ZenonT(40) DEF RetainCommitted
  <2>2. /\ retainPc'[r] \notin Saving
        /\ \A p \in RPC \ {r} : retainPc'[p] = retainPc[p] /\ retainOp'[p] = retainOp[p]
    BY <1>0 DEF RetainCommitted, TypeOK, Saving
  <2>3. \/ txState' = txState
        \/ txState' = [txState EXCEPT ![r] = "TxCompleted"]
    BY <1>4 DEF RetainCommitted, Retire
  <2>4. \A p \in RPC \ {r} : txState'[p] = txState[p]
    BY <1>0, <2>3, Zenon DEF TypeOK
  <2>5. /\ phaseOf(r) = "running" /\ phaseOf(r)' \in {"running", "over"}
        /\ offerOf(r) = retainOp[r] /\ offerOf(r)' = None /\ retainOp[r] # None
    BY <1>0, <1>4, <2>2, <2>3, ZenonT(40) DEF phaseOf, offerOf, Live, LiveStates, PreFlight, Saving, TypeOK
  <2>6. Phases' = [Phases EXCEPT ![r] = phaseOf(r)'] /\ Offers' = [Offers EXCEPT ![r] = None]
    BY <2>2, <2>4, <2>5, PhaseChange, OfferChange
  <2>7. Reservation!HandOver(r)
    BY <1>0, <2>1, <2>5, <2>6, Zenon DEF Reservation!HandOver, Phases, Offers
  <2> QED
    BY <2>7 DEF Reservation!Next
<1> QED
  BY <1>3, <1>4, Zenon

(* ReleaseOperationLock gives the device back, also when RespondAndRetain calls
   it for the operation it has just handed the device to. *)
LEMMA ReleaseRefines ==
  ASSUME NEW op \in Op, CanRelease(op), BeginRelease(op), UNCHANGED <<txState, opRPC, retainOp>>,
         \A p \in RPC : offerOf(p)' = offerOf(p)
  PROVE  Reservation!Next
<1>1. Phases' = Phases /\ Offers' = Offers
  BY DEF Phases, Offers, phaseOf, Live
<1>2. activeStateTx = op /\ activeStateTx' = None
  BY DEF CanRelease, BeginRelease
<1>3. Reservation!Release(op)
  BY <1>1, <1>2 DEF Reservation!Release, Phases, Offers
<1> QED
  BY <1>3 DEF Reservation!Next

(* The undoing of a hand-over: the operation releases the device, then the
   request finishes with the buffered event. *)
LEMMA UndoRefines ==
  ASSUME ManagerInv, NEW r \in RPC, RetainRelease(r) \/ RetainFinish(r)
  PROVE  [Reservation!Next]_(Reservation!reservationVars)
<1>0. TypeOK /\ retainPc[r] \in Releasing /\ retainOp[r] \in Op
  BY DEF ManagerInv, HandoffInv, RetainRelease, RetainFinish, Releasing
<1>1. CASE RetainRelease(r)
  <2>1. UNCHANGED <<txState, retainOp, opRPC>>
    BY <1>1, ZenonT(30) DEF RetainRelease, storeVars
  <2>2. \E pc \in Releasing : retainPc' = [retainPc EXCEPT ![r] = pc]
    BY <1>1 DEF RetainRelease, Releasing
  <2>3. \A p \in RPC : offerOf(p)' = offerOf(p)
    BY <1>0, <2>1, <2>2 DEF offerOf, Live, TypeOK, Saving, Releasing
  <2>4. CASE CanRelease(retainOp[r])
    BY <1>0, <1>1, <2>1, <2>3, <2>4, ReleaseRefines, Zenon DEF RetainRelease
  <2>5. CASE ~CanRelease(retainOp[r])
    <3>1. UNCHANGED activeStateTx
      BY <1>1, <2>5, Zenon DEF RetainRelease, lockVars
    <3>2. \A p \in RPC : phaseOf(p)' = phaseOf(p)
      BY <2>1 DEF phaseOf, Live
    <3> QED
      BY <2>1, <2>3, <3>1, <3>2, Stutters
  <2> QED
    BY <2>4, <2>5
<1>2. CASE RetainFinish(r)
  <2>0. /\ retainPc' = [retainPc EXCEPT ![r] = "idle"]
        /\ retainOp' = [retainOp EXCEPT ![r] = None]
        /\ UNCHANGED opRPC
    BY <1>2, Zenon DEF RetainFinish, storeVars
  <2>1. \A p \in RPC \ {r} : retainPc'[p] = retainPc[p] /\ retainOp'[p] = retainOp[p]
    BY <1>0, <2>0 DEF TypeOK
  <2>2. CASE ~Live(r)
    BY <1>0, <1>2, <2>0, <2>2, OverStutters, Zenon DEF RetainFinish, lockVars
  <2>3. CASE Live(r)
    <3>1. /\ pendingReplies[r] \in FinalStates
          /\ txState[r] \in {"TxPendingPublish", "TxInFlight"}
          /\ pendingReplies[r] = "TxTimedOut" => txState[r] = "TxInFlight"
      BY <1>0, <2>3 DEF ManagerInv, TypeOK, HandoffInv, TimerInv, Releasing
    <3>2. validateTransition(txState[r], pendingReplies[r])
      BY <3>1, Zenon DEF validateTransition, FinalStates
    <3>3. Retire(r, pendingReplies[r]) /\ ReleaseStateLock(r)
      BY <1>2, <2>3, <3>2 DEF RetainFinish, terminalTransition
    <3> QED
      BY <1>0, <2>0, <2>1, <2>3, <3>1, <3>3, TerminalFinishes, ZenonT(40) DEF Reservation!Next
  <2> QED
    BY <2>2, <2>3
<1> QED
  BY <1>1, <1>2, ZenonT(40)
-----------------------------------------------------------------------------
(* Every step of the manager is a step of the reservation or a stutter. *)
LEMMA StepRefines ==
  ManagerInv /\ [ManagerNext]_vars => [Reservation!Next]_(Reservation!reservationVars)
<1> SUFFICES ASSUME ManagerInv, [ManagerNext]_vars
             PROVE  [Reservation!Next]_(Reservation!reservationVars)
  OBVIOUS
<1>0. TypeOK
  BY DEF ManagerInv
<1>1. CASE UNCHANGED vars
  BY <1>1, QuietStutters DEF vars, managerVars, lockVars, retainVars, storeVars
<1>2. ASSUME NEW r \in RPC, TransactionStep(r)
      PROVE  [Reservation!Next]_(Reservation!reservationVars)
  <2>1. CASE \E q \in Requests : CreateTransaction(r, q[1], q[2], q[3])
    BY <2>1, CreateRefines, Zenon
  <2>2. CASE \E op \in Op : RespondAndRetain(r, op)
    BY <2>2, RespondAndRetainRefines, Zenon DEF Reservation!Next
  <2> QED
    BY <1>0, <1>2, <2>1, <2>2, MethodRefines, Zenon DEF TransactionStep
<1>3. ASSUME NEW r \in RPC, RetainStep(r)
      PROVE  [Reservation!Next]_(Reservation!reservationVars)
  BY <1>0, <1>3, SavingStutters, RetainFailedRefines, RetainCommittedRefines, UndoRefines, Zenon DEF RetainStep
<1>4. ASSUME NEW op \in Op, ReleaseOperationLock(op)
      PROVE  Reservation!Next
  <2>1. CanRelease(op) /\ BeginRelease(op) /\ UNCHANGED <<txState, opRPC, retainPc, retainOp>>
    BY <1>4, Zenon DEF ReleaseOperationLock, retainVars, storeVars
  <2>2. \A p \in RPC : offerOf(p)' = offerOf(p)
    BY <2>1 DEF offerOf, Live
  <2> QED
    BY <2>1, <2>2, ReleaseRefines, Zenon
<1>5. ASSUME NEW op \in Op, ReleaseDelete(op)
      PROVE  UNCHANGED Reservation!reservationVars
  BY <1>5, QuietStutters, Zenon DEF ReleaseDelete, lockVars, retainVars
<1>6. ASSUME NEW k \in Key, CacheExpire(k)
      PROVE  UNCHANGED Reservation!reservationVars
  BY <1>6, QuietStutters, Zenon DEF CacheExpire, lockVars, retainVars, storeVars
<1> QED
  BY <1>1, <1>2, <1>3, <1>4, <1>5, <1>6, Zenon DEF ManagerNext

(* The request manager implements the reservation of the device, whatever its
   callers do: RespondAndRetain passes the device from a request to an operation
   in one step of DeviceReservation, and no other step takes it from its
   holder. *)
THEOREM ManagerImplementsReservation == Spec => ImplementsReservation
<1>1. Init => Reservation!Init
  BY DEF Init, ManagerInit, StoreInit, Reservation!Init, phaseOf, offerOf, Live, LiveStates, PreFlight
<1>2. ManagerInv /\ [ManagerNext]_vars => [Reservation!Next]_(Reservation!reservationVars)
  BY StepRefines
<1> QED
  BY <1>1, <1>2, ManagerInvariance, PTL DEF Spec, ImplementsReservation, Reservation!Spec
=============================================================================
