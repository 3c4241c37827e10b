--------------------------- MODULE ResponseProofs ---------------------------
(***************************************************************************)
(* Proofs about what the cloud sees of the request manager: one response   *)
(* per request, a deduplication index that matches the live transactions,  *)
(* and the first terminal event winning.  They rest on ManagerInv, whose   *)
(* invariance RequestManagerProofs establishes.  The lemmas at the end say *)
(* what a call for one transaction does to it and to the others; the       *)
(* proofs about the daemon need them.                                      *)
(***************************************************************************)
EXTENDS RequestManagerProofs

IndexInv == DeduplicationConsistent /\ ExactlyOneResponse

(* Steps that touch neither the transactions' states nor the index keep it. *)
LEMMA IndexUnchanged ==
  ASSUME IndexInv, UNCHANGED <<txState, requestVars, indexVars>>
  PROVE  IndexInv'
  BY DEF IndexInv, DeduplicationConsistent, ExactlyOneResponse, requestVars, indexVars, Live

(* A live transaction that moves to another live state (Mark... methods) stays indexed. *)
LEMMA IndexMoves ==
  ASSUME IndexInv, TypeOK, NEW r \in RPC, Live(r), NEW to \in LiveStates,
         txState' = [txState EXCEPT ![r] = to], UNCHANGED <<requestVars, indexVars>>
  PROVE  IndexInv'
<1> USE ManagerConstants DEF IndexInv, TypeOK, requestVars, indexVars, Live
<1>1. DeduplicationConsistent'
  BY DEF DeduplicationConsistent
<1>2. ExactlyOneResponse'
  BY DEF ExactlyOneResponse, LiveStates, PreFlight, FinalStates
<1> QED
  BY <1>1, <1>2

(* terminalTransition removes the transaction's index entry, caches a successful
   response under the same key, and pushes the one response it owes. *)
LEMMA IndexRetire ==
  ASSUME IndexInv, TypeOK, NEW r \in RPC, Live(r), NEW final \in FinalStates,
         Retire(r, final), UNCHANGED requestVars
  PROVE  IndexInv'
<1> USE StoreConstants, ManagerConstants DEF IndexInv, TypeOK, requestVars, Retire
<1>0. txState'[r] \notin LiveStates /\ \A p \in RPC \ {r} : txState'[p] \in LiveStates <=> Live(p)
  BY DEF Live, LiveStates, PreFlight, FinalStates
<1>1. DeduplicationConsistent'
  <2>1. ASSUME NEW p \in RPC, txState'[p] \in LiveStates, txKey[p] # NoKey
        PROVE  activeCloudRequests'[txKey[p]] = p
    <3>1. p # r /\ Live(p) /\ txKey[p] \in Key
      BY <1>0, <2>1
    <3>2. activeCloudRequests[txKey[p]] = p
      BY <2>1, <3>1 DEF DeduplicationConsistent
    <3>3. txKey[p] # txKey[r]
      BY <2>1, <3>1, <3>2 DEF DeduplicationConsistent
    <3> QED
      BY <3>1, <3>2, <3>3
  <2>2. ASSUME NEW k \in Key, activeCloudRequests'[k] # None
        PROVE  /\ txState'[activeCloudRequests'[k]] \in LiveStates
               /\ txKey[activeCloudRequests'[k]] = k
               /\ cache'[k] = None
    <3>1. k # txKey[r] /\ activeCloudRequests'[k] = activeCloudRequests[k]
      BY <2>2
    <3>2. /\ activeCloudRequests[k] \in RPC
          /\ Live(activeCloudRequests[k])
          /\ txKey[activeCloudRequests[k]] = k
          /\ cache[k] = None
      BY <2>2, <3>1 DEF DeduplicationConsistent
    <3> QED
      BY <1>0, <3>1, <3>2
  <2> QED
    BY <2>1, <2>2, Zenon DEF DeduplicationConsistent, Live
<1>2. ExactlyOneResponse'
  <2>1. pushes[r] = 0
    BY DEF ExactlyOneResponse, Live, LiveStates, PreFlight, FinalStates
  <2> QED
    BY <2>1 DEF ExactlyOneResponse
<1> QED
  BY <1>1, <1>2

(* terminalTransition keeps the index whether it is accepted or refused. *)
LEMMA IndexTerminal ==
  ASSUME IndexInv, TypeOK, NEW r \in RPC, Live(r), NEW from \in LiveStates, NEW final \in FinalStates,
         terminalTransition(r, from, final), UNCHANGED requestVars
  PROVE  IndexInv'
<1>1. CASE validateTransition(from, final)
  BY <1>1, IndexRetire DEF terminalTransition
<1>2. CASE ~validateTransition(from, final)
  BY <1>2, IndexMoves DEF terminalTransition
<1> QED
  BY <1>1, <1>2

(* Admission refuses a key that is cached or live, so a new entry never replaces one. *)
LEMMA IndexCreate ==
  ASSUME IndexInv, TypeOK, NEW r \in RPC, NEW q \in Requests,
         CreateTransaction(r, q[1], q[2], q[3])
  PROVE  IndexInv'
<1> USE StoreConstants, ManagerConstants DEF IndexInv, TypeOK, CreateTransaction
<1>0. /\ q[1] \in Key \cup {NoKey}
      /\ q[1] # NoKey => cache[q[1]] = None /\ activeCloudRequests[q[1]] = None
      /\ ~Live(r) /\ txState[r] \notin FinalStates
      /\ txState'[r] \in LiveStates \ FinalStates
      /\ txKey'[r] = q[1]
      /\ \A p \in RPC \ {r} : txState'[p] = txState[p] /\ txKey'[p] = txKey[p]
  BY DEF Admission, Live, LiveStates, PreFlight, FinalStates
<1>1. DeduplicationConsistent'
  <2>1. ASSUME NEW p \in RPC, txState'[p] \in LiveStates, txKey'[p] # NoKey
        PROVE  activeCloudRequests'[txKey'[p]] = p
    <3>1. CASE p = r
      BY <1>0, <2>1, <3>1
    <3>2. CASE p # r
      <4>1. Live(p) /\ txKey[p] \in Key /\ activeCloudRequests[txKey[p]] = p
        BY <1>0, <2>1, <3>2 DEF DeduplicationConsistent, Live
      <4> QED
        BY <1>0, <3>2, <4>1
    <3> QED
      BY <3>1, <3>2
  <2>2. ASSUME NEW k \in Key, activeCloudRequests'[k] # None
        PROVE  /\ txState'[activeCloudRequests'[k]] \in LiveStates
               /\ txKey'[activeCloudRequests'[k]] = k
               /\ cache'[k] = None
    <3>1. CASE k = q[1]
      BY <1>0, <3>1
    <3>2. CASE k # q[1]
      <4>1. activeCloudRequests'[k] = activeCloudRequests[k] /\ activeCloudRequests[k] \in RPC
        BY <2>2, <3>2
      <4>2. Live(activeCloudRequests[k]) /\ txKey[activeCloudRequests[k]] = k /\ cache[k] = None
        BY <2>2, <4>1 DEF DeduplicationConsistent
      <4> QED
        BY <1>0, <4>1, <4>2 DEF Live
    <3> QED
      BY <3>1, <3>2
  <2> QED
    BY <2>1, <2>2 DEF DeduplicationConsistent, Live
<1>2. ExactlyOneResponse'
  BY <1>0 DEF ExactlyOneResponse
<1> QED
  BY <1>1, <1>2

(* The cloud-visible bookkeeping is inductive relative to ManagerInv: every action
   of the manager keeps the index and the response counts right. *)
LEMMA IndexPreserves ==
  ManagerInv /\ IndexInv /\ [ManagerNext]_vars => IndexInv'
<1> SUFFICES ASSUME ManagerInv, IndexInv, [ManagerNext]_vars PROVE IndexInv'
  OBVIOUS
<1>0. TypeOK
  BY DEF ManagerInv
<1>1. CASE UNCHANGED vars
  BY <1>1, IndexUnchanged DEF vars, managerVars
<1>2. CASE \E r \in RPC : TransactionStep(r)
  <2> PICK r \in RPC : TransactionStep(r)
    BY <1>2
  <2>1. CASE \E q \in Requests : CreateTransaction(r, q[1], q[2], q[3])
    BY <1>0, <2>1, IndexCreate
  <2>2. CASE MarkPreparingDispatch(r) \/ MarkPendingPublish(r)
    BY <1>0, <2>2, IndexMoves
    DEF MarkPreparingDispatch, MarkPendingPublish, Advance, validateTransition, Live, LiveStates, PreFlight
  <2>3. CASE MarkInFlight(r)
    <3>1. Live(r) /\ "TxInFlight" \in LiveStates
      BY <2>3 DEF MarkInFlight, validateTransition, Live, LiveStates, PreFlight
    <3>2. CASE pendingReplies[r] # None
      BY <1>0, <2>3, <3>1, <3>2, IndexTerminal DEF MarkInFlight, TypeOK
    <3>3. CASE pendingReplies[r] = None
      BY <1>0, <2>3, <3>1, <3>3, IndexMoves, Zenon DEF MarkInFlight
    <3> QED
      BY <3>2, <3>3
  <2>4. CASE Complete(r)
    BY <1>0, <2>4, IndexUnchanged, IndexTerminal, ZenonT(40) DEF Complete, BufferReply, Live, FinalStates
  <2>5. ASSUME NEW event \in FinalStates, Live(r), FailOrTimeout(r, event), UNCHANGED requestVars
        PROVE  IndexInv'
    <3>1. CASE handoffInProgress[r]
      BY <2>5, <3>1, IndexUnchanged DEF FailOrTimeout, BufferReply
    <3>2. CASE ~handoffInProgress[r] /\ pendingReplies[r] # None /\ validateTransition(txState[r], "TxInFlight")
      BY <1>0, <2>5, <3>2, IndexTerminal, Zenon DEF FailOrTimeout, TypeOK, LiveStates
    <3>3. CASE ~handoffInProgress[r] /\ ~(pendingReplies[r] # None /\ validateTransition(txState[r], "TxInFlight"))
      BY <1>0, <2>5, <3>3, IndexTerminal DEF FailOrTimeout, Live
    <3> QED
      BY <3>1, <3>2, <3>3
  <2>6. CASE Fail(r)
    BY <2>5, <2>6 DEF Fail, FinalStates
  <2>7. CASE ResponseTimerFires(r)
    BY <2>7, IndexUnchanged DEF ResponseTimerFires
  <2>8. CASE Timeout(r)
    BY <2>5, <2>8, IndexUnchanged DEF Timeout, FinalStates
  <2>9. CASE \E op \in Op : RespondAndRetain(r, op)
    BY <2>9, IndexUnchanged DEF RespondAndRetain
  <2> QED
    BY <2>1, <2>2, <2>3, <2>4, <2>6, <2>7, <2>8, <2>9 DEF TransactionStep
<1>3. CASE \E r \in RPC : RetainStep(r)
  <2> PICK r \in RPC : RetainStep(r)
    BY <1>3
  <2>1. CASE RetainStamp(r) \/ RetainSave(r) \/ RetainRelease(r)
    BY <2>1, IndexUnchanged DEF RetainStamp, RetainSave, RetainRelease
  <2>2. CASE RetainFailed(r)
    <3>1. CASE ~Live(r)
      BY <2>2, <3>1, IndexUnchanged DEF RetainFailed
    <3>2. CASE Live(r)
      <4>1. PICK event \in EventsAfterFailedSave(r) :
              IF event # None /\ validateTransition(txState[r], event)
                THEN terminalTransition(r, txState[r], event)
                ELSE UNCHANGED <<txState, indexVars>>
        BY <2>2, <3>2 DEF RetainFailed
      <4>2. event # None => event \in FinalStates
        BY <1>0 DEF EventsAfterFailedSave, TypeOK, FinalStates
      <4>3. CASE event # None /\ validateTransition(txState[r], event)
        BY <1>0, <2>2, <3>2, <4>1, <4>2, <4>3, IndexTerminal DEF RetainFailed, Live
      <4>4. CASE ~(event # None /\ validateTransition(txState[r], event))
        BY <2>2, <4>1, <4>4, IndexUnchanged DEF RetainFailed
      <4> QED
        BY <4>3, <4>4
    <3> QED
      BY <3>1, <3>2
  <2>3. CASE RetainCommitted(r)
    <3>1. CASE pendingReplies[r] # None \/ ~Live(r)
      BY <2>3, <3>1, IndexUnchanged DEF RetainCommitted
    <3>2. CASE pendingReplies[r] = None /\ Live(r)
      BY <1>0, <2>3, <3>2, IndexRetire DEF RetainCommitted, FinalStates
    <3> QED
      BY <3>1, <3>2, ZenonT(40)
  <2>4. CASE RetainFinish(r)
    <3>1. CASE Live(r)
      <4>1. pendingReplies[r] \in FinalStates
        <5>1. retainPc[r] \in Releasing
          BY <2>4, Zenon DEF RetainFinish, Releasing
        <5>2. pendingReplies[r] # None
          BY <3>1, <5>1, Zenon DEF ManagerInv, HandoffInv
        <5>3. pendingReplies \in [RPC -> FinalStates \cup {None}]
          BY <1>0, Zenon DEF TypeOK
        <5> QED
          BY <5>2, <5>3, Zenon
      <4> QED
        BY <1>0, <2>4, <3>1, <4>1, IndexTerminal, ZenonT(40) DEF RetainFinish, Live
    <3>2. CASE ~Live(r)
      BY <2>4, <3>2, IndexUnchanged, Zenon DEF RetainFinish
    <3> QED
      BY <3>1, <3>2
  <2> QED
    BY <2>1, <2>2, <2>3, <2>4 DEF RetainStep
<1>4. CASE \E op \in Op : ReleaseOperationLock(op) \/ ReleaseDelete(op)
  BY <1>4, IndexUnchanged DEF ReleaseOperationLock, ReleaseDelete
<1>5. CASE \E k \in Key : CacheExpire(k)
  BY <1>0, <1>5
  DEF CacheExpire, IndexInv, DeduplicationConsistent, ExactlyOneResponse, requestVars, TypeOK, Live
<1> QED
  BY <1>1, <1>2, <1>3, <1>4, <1>5 DEF ManagerNext

(* A new process has no transactions, no index entries and no responses. *)
LEMMA InitEstablishesIndex == Init => IndexInv
  BY StoreConstants, ManagerConstants
  DEF Init, ManagerInit, IndexInv, DeduplicationConsistent, ExactlyOneResponse, Live, LiveStates,
      PreFlight, FinalStates

(* Index and response counts are right in every reachable state. *)
LEMMA IndexInvariance == Spec => []IndexInv
<1>1. Init => IndexInv
  BY InitEstablishesIndex
<1>2. ManagerInv /\ IndexInv /\ [ManagerNext]_vars => IndexInv'
  BY IndexPreserves
<1> QED
  BY <1>1, <1>2, ManagerInvariance, PTL DEF Spec

(* The deduplication index lists exactly the live transactions and never one whose
   response is cached (CreateTransaction, terminalTransition). *)
THEOREM Deduplication == Spec => []DeduplicationConsistent
  BY IndexInvariance, PTL DEF IndexInv

(* A request that owes a response has pushed exactly one once it has ended and none
   before, whatever the order of replies, timeouts, failures and hand-overs. *)
THEOREM OneResponse == Spec => []ExactlyOneResponse
  BY IndexInvariance, PTL DEF IndexInv
-----------------------------------------------------------------------------
(* What FirstEventWins demands of a step for one transaction. *)
Wins(r) ==
  pendingReplies[r] # None /\ Live(r) /\ txState'[r] \in FinalStates =>
    \/ txState'[r] = pendingReplies[r]
    \/ txState[r] \in {"TxCreated", "TxPreparingDispatch"} /\ txState'[r] = "TxFailed"

(* A step that leaves a transaction's state alone cannot end it. *)
LEMMA WinsUnchanged ==
  ASSUME NEW r \in RPC, txState'[r] = txState[r]
  PROVE  Wins(r)
  BY DEF Wins, Live, LiveStates, PreFlight, FinalStates

(* terminalTransition with the buffered event, or of a transaction without one, obeys
   the rule. *)
LEMMA WinsTerminal ==
  ASSUME TypeOK, NEW r \in RPC, NEW from \in LiveStates, NEW final \in FinalStates,
         terminalTransition(r, from, final), pendingReplies[r] \in {None, final}
  PROVE  Wins(r)
<1>1. txState'[r] \in {from, final}
  BY ZenonT(40) DEF terminalTransition, Retire, TypeOK
<1> QED
  BY <1>1, Zenon DEF Wins, LiveStates, PreFlight, FinalStates

(* Only a transaction's own steps change its state. *)
LEMMA OwnStep ==
  ASSUME TypeOK, NEW r \in RPC, TransactionStep(r) \/ RetainStep(r)
  PROVE  \A p \in RPC \ {r} : txState'[p] = txState[p]
<1>1. ASSUME NEW from, NEW final, terminalTransition(r, from, final)
      PROVE  \A p \in RPC \ {r} : txState'[p] = txState[p]
  BY <1>1, ZenonT(40) DEF terminalTransition, Retire, TypeOK
<1>2. ASSUME NEW event, FailOrTimeout(r, event)
      PROVE  \A p \in RPC \ {r} : txState'[p] = txState[p]
  BY <1>1, <1>2 DEF FailOrTimeout, BufferReply
<1>3. CASE \/ MarkPreparingDispatch(r) \/ MarkPendingPublish(r)
           \/ \E q \in Requests : CreateTransaction(r, q[1], q[2], q[3])
  BY <1>3 DEF CreateTransaction, MarkPreparingDispatch, MarkPendingPublish, Advance, TypeOK
<1>4. CASE MarkInFlight(r)
  BY <1>1, <1>4 DEF MarkInFlight, TypeOK
<1>5. CASE Complete(r) \/ Fail(r) \/ Timeout(r) \/ ResponseTimerFires(r)
  BY <1>1, <1>2, <1>5, Zenon DEF Complete, BufferReply, Fail, Timeout, ResponseTimerFires
<1>6. CASE RetainFailed(r) \/ RetainFinish(r)
  BY <1>1, <1>6, Zenon DEF RetainFailed, RetainFinish
<1>7. CASE RetainCommitted(r)
  BY <1>7 DEF RetainCommitted, Retire, TypeOK
<1>8. CASE \/ RetainStamp(r) \/ RetainSave(r) \/ RetainRelease(r)
           \/ \E op \in Op : RespondAndRetain(r, op)
  BY <1>8, Zenon DEF RetainStamp, RetainSave, RetainRelease, RespondAndRetain
<1> QED
  BY <1>3, <1>4, <1>5, <1>6, <1>7, <1>8, Zenon DEF TransactionStep, RetainStep

(* Every step of a transaction obeys the rule that the first event wins. *)
LEMMA WinsOwnStep ==
  ASSUME ManagerInv, NEW r \in RPC, TransactionStep(r) \/ RetainStep(r)
  PROVE  Wins(r)
<1>0. TypeOK
  BY ZenonT(40) DEF ManagerInv
<1> USE StoreConstants, ManagerConstants
<1>1. CASE ~Live(r) \/ pendingReplies[r] = None
  BY <1>1 DEF Wins
<1>2. CASE Live(r) /\ pendingReplies[r] # None
  <2>0. /\ pendingReplies[r] \in FinalStates
        /\ txState[r] \in LiveStates /\ "TxInFlight" \in LiveStates
        /\ txState[r] \notin PreFlight => handoffInProgress[r]
    BY <1>0, <1>2 DEF TypeOK, ManagerInv, BufferedReplyHasConsumer, HandoffInv, Live, LiveStates
  <2>1. CASE \E q \in Requests : CreateTransaction(r, q[1], q[2], q[3])
    BY <1>2, <2>1, Zenon DEF CreateTransaction, Live, LiveStates, PreFlight
  <2>2. CASE MarkPreparingDispatch(r) \/ MarkPendingPublish(r)
    BY <1>0, <2>2, ZenonT(40) DEF MarkPreparingDispatch, MarkPendingPublish, Advance, TypeOK, Wins, FinalStates
  <2>3. CASE MarkInFlight(r)
    BY <1>0, <1>2, <2>0, <2>3, WinsTerminal, Zenon DEF MarkInFlight
  <2>4. CASE Complete(r)
    BY <1>2, <2>0, <2>4, ZenonT(40) DEF Complete
  <2>5. ASSUME NEW event \in {"TxFailed", "TxTimedOut"}, FailOrTimeout(r, event),
               event = "TxTimedOut" => txState[r] \notin PreFlight
        PROVE  Wins(r)
    <3>1. CASE handoffInProgress[r]
      BY <1>2, <2>5, <3>1, WinsUnchanged, Zenon DEF FailOrTimeout
    <3>2. CASE ~handoffInProgress[r] /\ validateTransition(txState[r], "TxInFlight")
      BY <1>0, <1>2, <2>0, <2>5, <3>2, WinsTerminal, Zenon DEF FailOrTimeout
    <3>3. CASE ~handoffInProgress[r] /\ ~validateTransition(txState[r], "TxInFlight")
      <4>1. terminalTransition(r, txState[r], event) /\ event = "TxFailed"
        BY <2>0, <2>5, <3>3, Zenon DEF FailOrTimeout
      <4>2. txState[r] \in {"TxCreated", "TxPreparingDispatch"}
        BY <2>0, <3>3, Zenon DEF validateTransition, PreFlight
      <4>3. txState'[r] = "TxFailed"
        BY <1>0, <4>1, <4>2, ZenonT(40) DEF terminalTransition, Retire, validateTransition, TypeOK
      <4> QED
        BY <4>2, <4>3 DEF Wins
    <3> QED
      BY <3>1, <3>2, <3>3
  <2>6. CASE Fail(r)
    BY <2>5, <2>6 DEF Fail
  <2>7. CASE ResponseTimerFires(r)
    BY <2>7, WinsUnchanged, Zenon DEF ResponseTimerFires
  <2>8. CASE Timeout(r)
    BY <1>2, <2>5, <2>8, Zenon DEF Timeout, ManagerInv, TimerInv
  <2>9. CASE \E op \in Op : RespondAndRetain(r, op)
    BY <2>9, WinsUnchanged, Zenon DEF RespondAndRetain
  <2>10. CASE RetainStamp(r) \/ RetainSave(r) \/ RetainRelease(r)
    BY <2>10, WinsUnchanged DEF RetainStamp, RetainSave, RetainRelease
  <2>11. CASE RetainFailed(r)
    <3>1. \/ terminalTransition(r, txState[r], pendingReplies[r])
          \/ UNCHANGED txState
      BY <1>2, <2>11, Zenon DEF RetainFailed, EventsAfterFailedSave
    <3> QED
      BY <1>0, <2>0, <3>1, WinsTerminal, WinsUnchanged, Zenon
  <2>12. CASE RetainCommitted(r)
    BY <1>2, <2>12, WinsUnchanged, ZenonT(40) DEF RetainCommitted
  <2>13. CASE RetainFinish(r)
    BY <1>0, <1>2, <2>0, <2>13, WinsTerminal, ZenonT(40) DEF RetainFinish
  <2> QED
    BY <2>1, <2>2, <2>3, <2>4, <2>6, <2>7, <2>8, <2>9, <2>10, <2>11, <2>12, <2>13, ZenonT(40)
    DEF TransactionStep, RetainStep
<1> QED
  BY <1>1, <1>2

(* Every step of the manager obeys it. *)
LEMMA FirstEventStep ==
  ASSUME ManagerInv, ManagerNext
  PROVE  \A r \in RPC : Wins(r)
<1> SUFFICES ASSUME NEW r \in RPC PROVE Wins(r)
  BY Zenon
<1>1. CASE \E p \in RPC : TransactionStep(p) \/ RetainStep(p)
  <2> PICK p \in RPC : TransactionStep(p) \/ RetainStep(p)
    BY <1>1
  <2> QED
    BY OwnStep, WinsOwnStep, WinsUnchanged DEF ManagerInv
<1>2. CASE ~ \E p \in RPC : TransactionStep(p) \/ RetainStep(p)
  BY <1>2, WinsUnchanged DEF ManagerNext, ReleaseOperationLock, ReleaseDelete, CacheExpire
<1> QED
  BY <1>1, <1>2

(* A transaction that ends while a terminal event is buffered ends with that event,
   except for a local failure before publication (Fail, recoverToInFlight). *)
THEOREM FirstEvent == Spec => FirstEventWins
<1>1. ManagerInv /\ [ManagerNext]_vars => [\A r \in RPC : Wins(r)]_vars
  BY FirstEventStep, Zenon
<1> QED
  BY <1>1, ManagerInvariance, PTL DEF Spec, FirstEventWins, Wins
-----------------------------------------------------------------------------
(* What goroutines do to a transaction that exists. *)
Proceeds(r) ==
  \/ MarkPreparingDispatch(r) \/ MarkPendingPublish(r) \/ MarkInFlight(r)
  \/ Complete(r) \/ Fail(r) \/ ResponseTimerFires(r) \/ Timeout(r)
  \/ \E op \in Op : RespondAndRetain(r, op)
  \/ RetainStep(r)

(* A step of one transaction leaves the others' hand-overs alone. *)
LEMMA OwnRetain ==
  ASSUME TypeOK, NEW r \in RPC, TransactionStep(r) \/ RetainStep(r)
  PROVE  \A p \in RPC \ {r} : retainPc'[p] = retainPc[p]
<1> USE DEF TypeOK, retainVars
<1>1. CASE TransactionStep(r)
  BY <1>1, ZenonT(30) DEF TransactionStep, CreateTransaction, MarkPreparingDispatch, MarkPendingPublish, Advance,
              MarkInFlight, Complete, Fail, ResponseTimerFires, Timeout, RespondAndRetain
<1>2. CASE RetainStep(r)
  BY <1>2, Zenon DEF RetainStep, RetainStamp, RetainSave, RetainFailed, RetainCommitted, RetainRelease, RetainFinish
<1> QED
  BY <1>1, <1>2

(* A transaction that was never created is not touched by work on transactions:
   it has no timer, no hand-over and no legal transition. *)
LEMMA UnusedStays ==
  ASSUME ManagerInv, NEW r \in RPC, Proceeds(r), txState[r] = "unused"
  PROVE  UNCHANGED txState
<1>1. ~Live(r) /\ ~handoffInProgress[r] /\ ~timeoutCall[r] /\ retainPc[r] = "idle"
  BY ZenonT(40) DEF ManagerInv, HandoffInv, Live, LiveStates, PreFlight
<1>2. ~(MarkPreparingDispatch(r) \/ MarkPendingPublish(r) \/ MarkInFlight(r))
  BY SMTT(40) DEF MarkPreparingDispatch, MarkPendingPublish, Advance, MarkInFlight, validateTransition
<1>3. ~(Complete(r) \/ Fail(r) \/ Timeout(r))
  BY <1>1, ZenonT(40) DEF Complete, Fail, Timeout
<1>4. ~RetainStep(r)
  BY <1>1, ZenonT(40) DEF RetainStep, RetainStamp, RetainSave, RetainFailed, RetainCommitted, RetainRelease, RetainFinish
<1>5. CASE ResponseTimerFires(r) \/ \E op \in Op : RespondAndRetain(r, op)
  BY <1>5, ZenonT(40) DEF ResponseTimerFires, RespondAndRetain
<1> QED
  BY <1>2, <1>3, <1>4, <1>5, Zenon DEF Proceeds

(* A transaction has no use for another result: it is over, or its dispatcher
   will find the outcome that is buffered for it. *)
Settled(r) == Live(r) => txState[r] \in PreFlight /\ pendingReplies[r] # None

(* Work on one transaction leaves the buffered replies and the hand-overs of
   the others alone. *)
LEMMA OthersUndisturbed ==
  ASSUME TypeOK, NEW r \in RPC, Proceeds(r), NEW p \in RPC, p # r
  PROVE  /\ txState'[p] = txState[p] /\ pendingReplies'[p] = pendingReplies[p]
         /\ retainPc'[p] = retainPc[p] /\ retainOp'[p] = retainOp[p]
<1>1. txState'[p] = txState[p]
  BY OwnStep, Zenon DEF Proceeds, TransactionStep
<1>2. retainPc'[p] = retainPc[p] /\ retainOp'[p] = retainOp[p]
  <2> USE DEF TypeOK, retainVars
  <2>1. CASE RetainStep(r)
    BY <2>1, Zenon DEF RetainStep, RetainStamp, RetainSave, RetainFailed, RetainCommitted, RetainRelease, RetainFinish
  <2>2. CASE \E op \in Op : RespondAndRetain(r, op)
    BY <2>2, ZenonT(40) DEF RespondAndRetain
  <2>3. CASE UNCHANGED retainVars
    BY <2>3
  <2>4. \/ RetainStep(r) \/ UNCHANGED retainVars
        \/ \E op \in Op : RespondAndRetain(r, op)
    BY Zenon DEF Proceeds, MarkPreparingDispatch, MarkPendingPublish, Advance, MarkInFlight, Complete, Fail,
                 ResponseTimerFires, Timeout
  <2> QED
    BY <2>1, <2>2, <2>3, <2>4
<1>3. pendingReplies'[p] = pendingReplies[p]
  <2> USE DEF TypeOK
  <2>1. ASSUME NEW from, NEW final, terminalTransition(r, from, final)
        PROVE  pendingReplies'[p] = pendingReplies[p]
    BY <2>1, Zenon DEF terminalTransition, Retire
  <2>2. ASSUME NEW event, FailOrTimeout(r, event)
        PROVE  pendingReplies'[p] = pendingReplies[p]
    BY <2>1, <2>2 DEF FailOrTimeout, BufferReply
  <2>3. CASE MarkPreparingDispatch(r) \/ MarkPendingPublish(r) \/ MarkInFlight(r)
    BY <2>1, <2>3, Zenon DEF MarkPreparingDispatch, MarkPendingPublish, Advance, MarkInFlight
  <2>4. CASE Complete(r)
    BY <2>1, <2>4 DEF Complete, BufferReply
  <2>5. CASE Fail(r) \/ Timeout(r) \/ ResponseTimerFires(r)
    BY <2>2, <2>5, Zenon DEF Fail, Timeout, ResponseTimerFires
  <2>6. CASE RetainFailed(r) \/ RetainFinish(r)
    BY <2>1, <2>6, ZenonT(40) DEF RetainFailed, RetainFinish
  <2>7. CASE RetainCommitted(r)
    BY <2>7 DEF RetainCommitted, Retire
  <2>8. CASE \/ RetainStamp(r) \/ RetainSave(r) \/ RetainRelease(r)
             \/ \E op \in Op : RespondAndRetain(r, op)
    BY <2>8, Zenon DEF RetainStamp, RetainSave, RetainRelease, RespondAndRetain
  <2> QED
    BY <2>3, <2>4, <2>5, <2>6, <2>7, <2>8, ZenonT(40) DEF Proceeds, RetainStep
<1> QED
  BY <1>1, <1>2, <1>3

(* Work on a transaction that is not live does not revive it. *)
LEMMA DeadStays ==
  ASSUME NEW r \in RPC, Proceeds(r), ~Live(r)
  PROVE  UNCHANGED txState
<1> USE DEF Live, LiveStates, PreFlight
<1>1. ~(MarkPreparingDispatch(r) \/ MarkPendingPublish(r) \/ MarkInFlight(r))
  BY ZenonT(40) DEF MarkPreparingDispatch, MarkPendingPublish, Advance, MarkInFlight, validateTransition
<1>2. ~(Complete(r) \/ Fail(r))
  BY Zenon DEF Complete, Fail
<1>3. CASE Timeout(r) \/ ResponseTimerFires(r) \/ \E op \in Op : RespondAndRetain(r, op)
  BY <1>3, Zenon DEF Timeout, ResponseTimerFires, RespondAndRetain
<1>4. CASE RetainStep(r)
  BY <1>4, Zenon DEF RetainStep, RetainStamp, RetainSave, RetainFailed, RetainCommitted, RetainRelease, RetainFinish
<1> QED
  BY <1>1, <1>2, <1>3, <1>4, Zenon DEF Proceeds

(* A legal terminal transition ends the transaction. *)
LEMMA TerminalSettles ==
  ASSUME TypeOK, NEW r \in RPC, NEW from, NEW final \in FinalStates,
         validateTransition(from, final), terminalTransition(r, from, final)
  PROVE  Settled(r)'
  BY DEF terminalTransition, Retire, TypeOK, Settled, Live, LiveStates, PreFlight, FinalStates

(* Applying a result outside a hand-over ends the transaction, or buffers the
   outcome for the dispatcher. *)
LEMMA ApplySettles ==
  ASSUME ManagerInv, NEW r \in RPC, Live(r), ~handoffInProgress[r], Complete(r) \/ Fail(r)
  PROVE  Settled(r)'
<1>0. TypeOK /\ pendingReplies \in [RPC -> FinalStates \cup {None}]
  BY Zenon DEF ManagerInv, TypeOK
<1>1. CASE Complete(r) /\ txState[r] \in PreFlight
  <2>1. pendingReplies'[r] = "TxCompleted" /\ UNCHANGED txState
    <3>1. BufferReply(r, "TxCompleted")
      BY <1>1, Zenon DEF Complete
    <3> QED
      BY <1>0, <3>1, ZenonT(40) DEF BufferReply
  <2> QED
    BY <1>1, <2>1, StoreConstants, ManagerConstants, ZenonT(40) DEF Settled, FinalStates
<1>2. CASE Complete(r) /\ txState[r] \notin PreFlight
  <2>1. txState[r] = "TxInFlight"
    BY <1>2, ZenonT(40) DEF Live, LiveStates
  <2> QED
    BY <1>0, <1>2, <2>1, TerminalSettles, ZenonT(40) DEF Complete, validateTransition, FinalStates
<1>3. CASE Fail(r)
  <2>1. CASE pendingReplies[r] # None /\ validateTransition(txState[r], "TxInFlight")
    <3>1. pendingReplies[r] \in FinalStates
      BY <1>0, <2>1, Zenon
    <3> QED
      BY <1>0, <1>3, <2>1, <3>1, TerminalSettles, ZenonT(40) DEF Fail, FailOrTimeout, validateTransition, FinalStates
  <2>2. CASE ~(pendingReplies[r] # None /\ validateTransition(txState[r], "TxInFlight"))
    <3>1. validateTransition(txState[r], "TxFailed")
      BY DEF Live, LiveStates, PreFlight, validateTransition
    <3> QED
      BY <1>0, <1>3, <2>2, <3>1, TerminalSettles, ZenonT(40) DEF Fail, FailOrTimeout, FinalStates
  <2> QED
    BY <2>1, <2>2, Zenon
<1> QED
  BY <1>1, <1>2, <1>3, Zenon

(* A buffered outcome is not discarded: MarkInFlight and Fail end the
   transaction with it, and no timeout comes before publication. *)
LEMMA SettledStays ==
  ASSUME ManagerInv, NEW r \in RPC, Proceeds(r), Settled(r), Live(r) => retainPc[r] = "idle"
  PROVE  Settled(r)'
<1>0. TypeOK
  BY DEF ManagerInv
<1>1. CASE ~Live(r)
  BY <1>1, DeadStays DEF Settled, Live
<1>2. CASE Live(r)
  <2>0. /\ txState[r] \in PreFlight /\ pendingReplies[r] # None /\ retainPc[r] = "idle"
        /\ pendingReplies[r] \in FinalStates /\ ~handoffInProgress[r]
    BY <1>2, ZenonT(40) DEF Settled, ManagerInv, TypeOK, HandoffInv
  <2>1. CASE MarkPreparingDispatch(r) \/ MarkPendingPublish(r)
    BY <1>0, <2>0, <2>1, SMTT(40) DEF MarkPreparingDispatch, MarkPendingPublish, Advance, TypeOK, Settled, PreFlight
  <2>2. CASE MarkInFlight(r)
    BY <1>0, <2>0, <2>2, TerminalSettles, ZenonT(40) DEF MarkInFlight, validateTransition, FinalStates
  <2>3. CASE Complete(r) \/ Fail(r)
    BY <1>2, <2>0, <2>3, ApplySettles, ZenonT(40)
  <2>4. ~(Timeout(r) \/ ResponseTimerFires(r))
    <3>1. ~timeoutCall[r] /\ (responseTimer[r] => txState[r] = "TxInFlight")
      BY <2>0, ZenonT(40) DEF ManagerInv, TimerInv
    <3>2. ~responseTimer[r]
      BY <2>0, <3>1, ZenonT(40) DEF PreFlight
    <3> QED
      BY <3>1, <3>2, ZenonT(40) DEF Timeout, ResponseTimerFires
  <2>5. CASE \E op \in Op : RespondAndRetain(r, op)
    BY <2>0, <2>5, ZenonT(40) DEF RespondAndRetain, Settled
  <2>6. ~RetainStep(r)
    BY <2>0, ZenonT(40) DEF RetainStep, RetainStamp, RetainSave, RetainFailed, RetainCommitted, RetainRelease, RetainFinish
  <2> QED
    BY <2>1, <2>2, <2>3, <2>4, <2>5, <2>6, Zenon DEF Proceeds
<1> QED
  BY <1>1, <1>2
-----------------------------------------------------------------------------
(* What InFlightHasDeadline demands of one transaction. *)
Timed(r) ==
  txState[r] = "TxInFlight" => responseTimer[r] \/ timeoutCall[r] \/ retainPc[r] # "idle"

(* terminalTransition never leaves a transaction in flight: from there every
   terminal event is legal. *)
LEMMA TerminalLeavesFlight ==
  ASSUME TypeOK, NEW r \in RPC, NEW from, NEW final \in FinalStates, terminalTransition(r, from, final)
  PROVE  txState'[r] # "TxInFlight"
<1>1. CASE validateTransition(from, final)
  <2>1. txState'[r] = final
    BY <1>1, ZenonT(40) DEF terminalTransition, Retire, TypeOK
  <2> QED
    BY <2>1, Zenon DEF FinalStates
<1>2. CASE ~validateTransition(from, final)
  <2>1. txState'[r] = from
    BY <1>2, Zenon DEF terminalTransition, TypeOK
  <2>2. from # "TxInFlight"
    BY <1>2, Zenon DEF validateTransition, FinalStates
  <2> QED
    BY <2>1, <2>2, Zenon
<1> QED
  BY <1>1, <1>2, Zenon

(* Fail and Timeout end a transaction in flight, or buffer their event for the
   hand-over in progress. *)
LEMMA FailLeavesFlight ==
  ASSUME TypeOK, NEW r \in RPC, NEW event \in FinalStates, FailOrTimeout(r, event), ~handoffInProgress[r]
  PROVE  txState'[r] # "TxInFlight"
<1>1. CASE pendingReplies[r] # None /\ validateTransition(txState[r], "TxInFlight")
  <2>1. pendingReplies[r] \in FinalStates
    BY <1>1, Zenon DEF TypeOK
  <2> QED
    BY <1>1, <2>1, TerminalLeavesFlight, Zenon DEF FailOrTimeout
<1>2. CASE ~(pendingReplies[r] # None /\ validateTransition(txState[r], "TxInFlight"))
  BY <1>2, TerminalLeavesFlight, Zenon DEF FailOrTimeout
<1> QED
  BY <1>1, <1>2, Zenon

(* Work on one transaction leaves the timers of the others alone. *)
LEMMA TimersOfOthers ==
  ASSUME TypeOK, NEW r \in RPC, TransactionStep(r) \/ RetainStep(r), NEW p \in RPC, p # r
  PROVE  responseTimer'[p] = responseTimer[p] /\ timeoutCall'[p] = timeoutCall[p]
<1> USE DEF TypeOK, timerVars
<1>1. ASSUME NEW from, NEW final, terminalTransition(r, from, final)
      PROVE  responseTimer'[p] = responseTimer[p]
  BY <1>1, Zenon DEF terminalTransition, Retire
<1>2. ASSUME NEW event, FailOrTimeout(r, event)
      PROVE  responseTimer'[p] = responseTimer[p]
  BY <1>1, <1>2, Zenon DEF FailOrTimeout, BufferReply
<1>3. CASE \/ MarkPreparingDispatch(r) \/ MarkPendingPublish(r)
           \/ \E q \in Requests : CreateTransaction(r, q[1], q[2], q[3])
  BY <1>3, Zenon DEF CreateTransaction, MarkPreparingDispatch, MarkPendingPublish, Advance
<1>4. CASE MarkInFlight(r)
  BY <1>1, <1>4, ZenonT(40) DEF MarkInFlight
<1>5. CASE Complete(r)
  BY <1>1, <1>5, Zenon DEF Complete, BufferReply
<1>6. CASE Fail(r)
  BY <1>2, <1>6, Zenon DEF Fail
<1>7. CASE ResponseTimerFires(r)
  BY <1>7, ZenonT(40) DEF ResponseTimerFires
<1>8. CASE Timeout(r)
  BY <1>2, <1>8, ZenonT(40) DEF Timeout
<1>9. CASE \E op \in Op : RespondAndRetain(r, op)
  BY <1>9, ZenonT(40) DEF RespondAndRetain
<1>10. CASE RetainFailed(r)
  <2>1. CASE ~Live(r)
    BY <1>10, <2>1, Zenon DEF RetainFailed
  <2>2. CASE Live(r)
    <3>1. PICK event \in EventsAfterFailedSave(r) :
            \/ terminalTransition(r, txState[r], event) /\ UNCHANGED timeoutCall
            \/ RearmTimer(r)
            \/ UNCHANGED timerVars
      BY <1>10, <2>2, ZenonT(40) DEF RetainFailed
    <3> QED
      BY <1>1, <3>1, ZenonT(40) DEF RearmTimer
  <2> QED
    BY <2>1, <2>2, Zenon
<1>11. CASE RetainCommitted(r)
  <2>1. (Retire(r, "TxCompleted") \/ UNCHANGED responseTimer) /\ UNCHANGED timeoutCall
    BY <1>11, ZenonT(40) DEF RetainCommitted
  <2> QED
    BY <2>1, ZenonT(40) DEF Retire
<1>12. CASE RetainStamp(r) \/ RetainSave(r) \/ RetainRelease(r)
  BY <1>12, Zenon DEF RetainStamp, RetainSave, RetainRelease
<1>13. CASE RetainFinish(r)
  BY <1>1, <1>13, ZenonT(40) DEF RetainFinish
<1> QED
  BY <1>3, <1>4, <1>5, <1>6, <1>7, <1>8, <1>9, <1>10, <1>11, <1>12, <1>13, Zenon DEF TransactionStep, RetainStep

(* Whatever is done to a transaction in flight ends it, leaves it its timer or
   its timeout callback, or is a hand-over that has one of these to come. *)
LEMMA TimedOwnStep ==
  ASSUME ManagerInv, NEW r \in RPC, Timed(r), TransactionStep(r) \/ RetainStep(r)
  PROVE  Timed(r)'
<1>0. TypeOK /\ (Live(r) /\ handoffInProgress[r] => retainPc[r] # "idle")
  BY Zenon DEF ManagerInv, HandoffInv
<1>1. ASSUME UNCHANGED <<txState, timerVars, retainVars>> PROVE Timed(r)'
  BY <1>1, Zenon DEF Timed, timerVars, retainVars
<1>2. ASSUME txState'[r] # "TxInFlight" PROVE Timed(r)'
  BY <1>2, Zenon DEF Timed
<1>3. ASSUME NEW event \in FinalStates, FailOrTimeout(r, event), Live(r),
             UNCHANGED retainVars, handoffInProgress[r] => retainPc[r] # "idle"
      PROVE  Timed(r)'
  <2>1. CASE handoffInProgress[r]
    BY <1>3, <2>1, Zenon DEF Timed, retainVars
  <2>2. CASE ~handoffInProgress[r]
    BY <1>0, <1>2, <1>3, <2>2, FailLeavesFlight, Zenon
  <2> QED
    BY <2>1, <2>2, Zenon
<1>4. CASE \/ MarkPreparingDispatch(r) \/ MarkPendingPublish(r)
           \/ \E q \in Requests : CreateTransaction(r, q[1], q[2], q[3])
  <2>1. txState'[r] \in {"TxPreparingDispatch", "TxPendingPublish", "TxCreated"}
    BY <1>0, <1>4, ZenonT(40) DEF CreateTransaction, MarkPreparingDispatch, MarkPendingPublish, Advance, TypeOK
  <2> QED
    BY <1>2, <2>1, Zenon
<1>5. CASE MarkInFlight(r)
  <2>1. CASE pendingReplies[r] # None
    <3>1. pendingReplies[r] \in FinalStates
      BY <1>0, <2>1, Zenon DEF TypeOK
    <3> QED
      BY <1>0, <1>2, <1>5, <2>1, <3>1, TerminalLeavesFlight, Zenon DEF MarkInFlight
  <2>2. CASE pendingReplies[r] = None
    BY <1>0, <1>5, <2>2, ZenonT(40) DEF MarkInFlight, Timed, TypeOK
  <2> QED
    BY <2>1, <2>2, Zenon
<1>6. CASE Complete(r)
  <2>1. CASE txState[r] \in PreFlight \/ handoffInProgress[r]
    BY <1>1, <1>6, <2>1, ZenonT(40) DEF Complete, BufferReply, timerVars
  <2>2. CASE ~(txState[r] \in PreFlight \/ handoffInProgress[r])
    BY <1>0, <1>2, <1>6, <2>2, TerminalLeavesFlight, Zenon DEF Complete, FinalStates
  <2> QED
    BY <2>1, <2>2, Zenon
<1>7. CASE Fail(r)
  BY <1>0, <1>3, <1>7, Zenon DEF Fail, FinalStates
<1>8. CASE ResponseTimerFires(r)
  BY <1>0, <1>8, ZenonT(40) DEF ResponseTimerFires, Timed, TypeOK
<1>9. CASE Timeout(r)
  <2>1. CASE Live(r)
    BY <1>0, <1>3, <1>9, <2>1, Zenon DEF Timeout, FinalStates
  <2>2. CASE ~Live(r)
    BY <1>2, <1>9, <2>2, Zenon DEF Timeout, Live, LiveStates
  <2> QED
    BY <2>1, <2>2, Zenon
<1>10. CASE \E op \in Op : RespondAndRetain(r, op)
  BY <1>0, <1>10, ZenonT(40) DEF RespondAndRetain, Timed, TypeOK
<1>11. CASE RetainStamp(r) \/ RetainSave(r) \/ RetainRelease(r)
  <2>1. retainPc'[r] \in {"save", "visible", "deleting", "finish"}
    BY <1>0, <1>11, ZenonT(40) DEF RetainStamp, RetainSave, RetainRelease, TypeOK
  <2> QED
    BY <2>1, Zenon DEF Timed
<1>12. CASE RetainFailed(r)
  <2>1. CASE ~Live(r)
    BY <1>2, <1>12, <2>1, Zenon DEF RetainFailed, Live, LiveStates
  <2>2. CASE Live(r)
    <3>1. PICK event \in EventsAfterFailedSave(r) :
            IF event # None /\ validateTransition(txState[r], event)
              THEN terminalTransition(r, txState[r], event)
              ELSE UNCHANGED txState /\ (event = None => RearmTimer(r))
      BY <1>12, <2>2, ZenonT(40) DEF RetainFailed
    <3>2. event # None => event \in FinalStates
      BY <1>0 DEF EventsAfterFailedSave, TypeOK, FinalStates
    <3>3. CASE event # None /\ validateTransition(txState[r], event)
      BY <1>0, <1>2, <3>1, <3>2, <3>3, TerminalLeavesFlight, Zenon
    <3>4. CASE event # None /\ ~validateTransition(txState[r], event)
      BY <1>2, <3>1, <3>2, <3>4, Zenon DEF validateTransition, FinalStates
    <3>5. CASE event = None
      BY <1>0, <3>1, <3>5, Zenon DEF RearmTimer, Timed, TypeOK
    <3> QED
      BY <3>3, <3>4, <3>5, Zenon
  <2> QED
    BY <2>1, <2>2, Zenon
<1>13. CASE RetainCommitted(r)
  <2>1. CASE pendingReplies[r] # None
    BY <1>0, <1>13, <2>1, ZenonT(40) DEF RetainCommitted, Timed, TypeOK
  <2>2. CASE pendingReplies[r] = None /\ Live(r)
    <3>1. txState'[r] = "TxCompleted"
      <4>1. Retire(r, "TxCompleted")
        BY <1>13, <2>2, ZenonT(40) DEF RetainCommitted
      <4> QED
        BY <1>0, <4>1, ZenonT(40) DEF Retire, TypeOK
    <3> QED
      BY <1>2, <3>1, Zenon
  <2>3. CASE pendingReplies[r] = None /\ ~Live(r)
    BY <1>2, <1>13, <2>3, ZenonT(40) DEF RetainCommitted, Live, LiveStates
  <2> QED
    BY <2>1, <2>2, <2>3, Zenon
<1>14. CASE RetainFinish(r)
  <2>1. CASE Live(r)
    <3>1. pendingReplies[r] # None
      BY <1>14, <2>1, Zenon DEF RetainFinish, ManagerInv, HandoffInv, Releasing
    <3>2. pendingReplies[r] \in FinalStates
      BY <1>0, <3>1, Zenon DEF TypeOK
    <3> QED
      BY <1>0, <1>2, <1>14, <2>1, <3>2, TerminalLeavesFlight, Zenon DEF RetainFinish
  <2>2. CASE ~Live(r)
    BY <1>2, <1>14, <2>2, Zenon DEF RetainFinish, Live, LiveStates
  <2> QED
    BY <2>1, <2>2, Zenon
<1> QED
  BY <1>4, <1>5, <1>6, <1>7, <1>8, <1>9, <1>10, <1>11, <1>12, <1>13, <1>14, Zenon DEF TransactionStep, RetainStep

(* Every step of the manager keeps the deadlines. *)
LEMMA DeadlinePreserves ==
  ASSUME ManagerInv, InFlightHasDeadline, [ManagerNext]_vars
  PROVE  InFlightHasDeadline'
<1>0. TypeOK
  BY Zenon DEF ManagerInv
<1>1. ASSUME NEW r \in RPC, TransactionStep(r) \/ RetainStep(r)
      PROVE  InFlightHasDeadline'
  <2> SUFFICES ASSUME NEW p \in RPC PROVE Timed(p)'
    BY Zenon DEF InFlightHasDeadline, Timed
  <2>1. Timed(p)
    BY Zenon DEF InFlightHasDeadline, Timed
  <2>2. CASE p = r
    BY <1>1, <2>1, <2>2, TimedOwnStep, Zenon
  <2>3. CASE p # r
    <3>1. txState'[p] = txState[p] /\ retainPc'[p] = retainPc[p]
      BY <1>0, <1>1, <2>3, OwnStep, OwnRetain, Zenon
    <3>2. responseTimer'[p] = responseTimer[p] /\ timeoutCall'[p] = timeoutCall[p]
      BY <1>0, <1>1, <2>3, TimersOfOthers, Zenon
    <3> QED
      BY <2>1, <3>1, <3>2, Zenon DEF Timed
  <2> QED
    BY <2>2, <2>3, Zenon
<1>2. ASSUME UNCHANGED <<txState, timerVars, retainVars>>
      PROVE  InFlightHasDeadline'
  BY <1>2, Zenon DEF InFlightHasDeadline, timerVars, retainVars
<1>3. CASE UNCHANGED vars
  BY <1>2, <1>3, Zenon DEF vars, managerVars
<1>4. CASE \/ \E op \in Op : ReleaseOperationLock(op) \/ ReleaseDelete(op)
           \/ \E k \in Key : CacheExpire(k)
  BY <1>2, <1>4, Zenon DEF ReleaseOperationLock, ReleaseDelete, CacheExpire
<1> QED
  BY <1>1, <1>3, <1>4, Zenon DEF ManagerNext

(* No transaction in flight is ever left without timer, timeout callback or
   hand-over in progress, whoever calls the manager in whatever order: a device
   that stays silent cannot make a request hang (MarkInFlight, RespondAndRetain). *)
THEOREM InFlightNeverHangs == Spec => []InFlightHasDeadline
<1>1. Init => InFlightHasDeadline
  BY Zenon DEF Init, ManagerInit, InFlightHasDeadline
<1>2. ManagerInv /\ InFlightHasDeadline /\ [ManagerNext]_vars => InFlightHasDeadline'
  BY DeadlinePreserves
<1> QED
  BY <1>1, <1>2, ManagerInvariance, PTL DEF Spec
-----------------------------------------------------------------------------
(* What TransitionsLegal demands of a step for one transaction. *)
Legal(r) ==
  \/ txState'[r] = txState[r]
  \/ txState[r] = "unused" /\ txState'[r] = "TxCreated"
  \/ validateTransition(txState[r], txState'[r])

(* The state that terminalTransition leaves. *)
LEMMA TerminalState ==
  ASSUME TypeOK, NEW r \in RPC, NEW from, NEW final, terminalTransition(r, from, final)
  PROVE  \/ validateTransition(from, final) /\ txState'[r] = final
         \/ ~validateTransition(from, final) /\ txState'[r] = from
  BY ZenonT(40) DEF terminalTransition, Retire, TypeOK

(* A reply that is applied by way of TxInFlight could have been applied without
   it: no timeout is buffered before the transaction is in flight. *)
LEMMA RecoverLegal ==
  ASSUME ManagerInv, NEW r \in RPC, pendingReplies[r] # None, validateTransition(txState[r], "TxInFlight"),
         terminalTransition(r, "TxInFlight", pendingReplies[r])
  PROVE  txState'[r] \in FinalStates /\ validateTransition(txState[r], txState'[r])
<1>1. txState[r] = "TxPendingPublish"
  BY Zenon DEF validateTransition
<1>2. TypeOK /\ pendingReplies[r] \in FinalStates /\ pendingReplies[r] # "TxTimedOut"
  BY <1>1, Zenon DEF ManagerInv, TypeOK, TimerInv
<1>3. pendingReplies[r] \in {"TxCompleted", "TxFailed"}
  BY <1>2, Zenon DEF FinalStates
<1>4. txState'[r] = pendingReplies[r]
  <2>1. validateTransition("TxInFlight", pendingReplies[r])
    BY <1>3, Zenon DEF validateTransition
  <2> QED
    BY <1>2, <2>1, TerminalState, Zenon
<1> QED
  BY <1>1, <1>2, <1>3, <1>4, Zenon DEF validateTransition

(* Every call of the manager makes a legal transition or none. *)
LEMMA LegalOwnStep ==
  ASSUME ManagerInv, NEW r \in RPC, TransactionStep(r) \/ RetainStep(r)
  PROVE  Legal(r)
<1>0. TypeOK
  BY Zenon DEF ManagerInv
<1>1. ASSUME NEW final, terminalTransition(r, txState[r], final) PROVE Legal(r)
  BY <1>0, <1>1, TerminalState, Zenon DEF Legal
<1>2. ASSUME NEW event, FailOrTimeout(r, event) PROVE Legal(r)
  <2>1. CASE handoffInProgress[r]
    BY <1>2, <2>1, Zenon DEF FailOrTimeout, BufferReply, Legal
  <2>2. CASE ~handoffInProgress[r]
    BY <1>1, <1>2, <2>2, RecoverLegal, Zenon DEF FailOrTimeout, Legal
  <2> QED
    BY <2>1, <2>2, Zenon
<1>3. CASE UNCHANGED txState
  BY <1>3, Zenon DEF Legal
<1>4. CASE \E q \in Requests : CreateTransaction(r, q[1], q[2], q[3])
  BY <1>0, <1>4, ZenonT(40) DEF CreateTransaction, TypeOK, Legal
<1>5. CASE MarkPreparingDispatch(r) \/ MarkPendingPublish(r)
  BY <1>0, <1>5, ZenonT(40) DEF MarkPreparingDispatch, MarkPendingPublish, Advance, TypeOK, Legal
<1>6. CASE MarkInFlight(r)
  <2>1. CASE pendingReplies[r] # None
    BY <1>6, <2>1, RecoverLegal, Zenon DEF MarkInFlight, Legal
  <2>2. CASE pendingReplies[r] = None
    BY <1>0, <1>6, <2>2, ZenonT(40) DEF MarkInFlight, TypeOK, Legal
  <2> QED
    BY <2>1, <2>2, Zenon
<1>7. CASE Complete(r)
  BY <1>1, <1>3, <1>7, Zenon DEF Complete, BufferReply
<1>8. CASE Fail(r) \/ Timeout(r)
  BY <1>2, <1>3, <1>8, Zenon DEF Fail, Timeout
<1>9. CASE ResponseTimerFires(r) \/ \E op \in Op : RespondAndRetain(r, op)
  BY <1>3, <1>9, Zenon DEF ResponseTimerFires, RespondAndRetain
<1>10. CASE RetainStamp(r) \/ RetainSave(r) \/ RetainRelease(r)
  BY <1>3, <1>10, Zenon DEF RetainStamp, RetainSave, RetainRelease
<1>11. CASE RetainFailed(r)
  BY <1>1, <1>3, <1>11, ZenonT(40) DEF RetainFailed
<1>12. CASE RetainCommitted(r)
  <2>1. UNCHANGED txState \/ (Live(r) /\ retainPc[r] = "visible" /\ Retire(r, "TxCompleted"))
    BY <1>12, ZenonT(40) DEF RetainCommitted
  <2>2. ASSUME Live(r), retainPc[r] = "visible", Retire(r, "TxCompleted") PROVE Legal(r)
    <3>1. txState'[r] = "TxCompleted"
      BY <1>0, <2>2, Zenon DEF Retire, TypeOK
    <3>2. txState[r] \in {"TxPendingPublish", "TxInFlight"}
      BY <2>2, Zenon DEF ManagerInv, HandoffInv
    <3> QED
      BY <3>1, <3>2, Zenon DEF Legal, validateTransition
  <2> QED
    BY <1>3, <2>1, <2>2, Zenon
<1>13. CASE RetainFinish(r)
  BY <1>1, <1>3, <1>13, ZenonT(40) DEF RetainFinish
<1> QED
  BY <1>4, <1>5, <1>6, <1>7, <1>8, <1>9, <1>10, <1>11, <1>12, <1>13, Zenon DEF TransactionStep, RetainStep

(* Transactions only ever make the transitions of validateTransition, whoever
   calls the manager in whatever order and however replies, timeouts, failures
   and hand-overs race. *)
THEOREM OnlyLegalTransitions == Spec => TransitionsLegal
<1>1. ManagerInv /\ [ManagerNext]_vars =>
        [\A r \in RPC : txState'[r] # txState[r] =>
           \/ txState[r] = "unused" /\ txState'[r] = "TxCreated"
           \/ validateTransition(txState[r], txState'[r])]_vars
  <2> SUFFICES ASSUME ManagerInv, ManagerNext, NEW p \in RPC PROVE Legal(p)
    BY Zenon DEF Legal
  <2>0. TypeOK
    BY Zenon DEF ManagerInv
  <2>1. ASSUME NEW r \in RPC, TransactionStep(r) \/ RetainStep(r) PROVE Legal(p)
    <3>1. CASE p = r
      BY <2>1, <3>1, LegalOwnStep, Zenon
    <3>2. CASE p # r
      BY <2>0, <2>1, <3>2, OwnStep, Zenon DEF Legal
    <3> QED
      BY <3>1, <3>2, Zenon
  <2>2. CASE \/ \E op \in Op : ReleaseOperationLock(op) \/ ReleaseDelete(op)
             \/ \E k \in Key : CacheExpire(k)
    BY <2>2, Zenon DEF ReleaseOperationLock, ReleaseDelete, CacheExpire, Legal
  <2> QED
    BY <2>1, <2>2, Zenon DEF ManagerNext
<1> QED
  BY <1>1, ManagerInvariance, PTL DEF Spec, TransitionsLegal
-----------------------------------------------------------------------------
(* Work on a transaction never takes it back: once it has left the dispatcher's
   first states, or all states before flight, it does not return. *)
LEMMA NeverBack ==
  ASSUME ManagerInv, NEW r \in RPC, Proceeds(r)
  PROVE  /\ txState[r] \notin PreFlight => txState'[r] \notin PreFlight
         /\ txState[r] \notin {"TxCreated", "TxPreparingDispatch"} =>
              txState'[r] \notin {"TxCreated", "TxPreparingDispatch"}
<1>1. Legal(r)
  BY LegalOwnStep, Zenon DEF Proceeds, TransactionStep
<1>2. txState[r] = "unused" => txState'[r] = "unused"
  BY UnusedStays, Zenon
<1>3. CASE txState'[r] = txState[r]
  BY <1>3, Zenon
<1>4. CASE validateTransition(txState[r], txState'[r])
  BY <1>4 DEF validateTransition, PreFlight
<1> QED
  BY <1>1, <1>2, <1>3, <1>4, Zenon DEF Legal

(* MarkInFlight always takes the transaction out of the states before flight. *)
LEMMA MarkLeavesPreFlight ==
  ASSUME ManagerInv, NEW r \in RPC, MarkInFlight(r)
  PROVE  txState'[r] \notin PreFlight
<1>1. CASE pendingReplies[r] # None
  <2>1. txState'[r] \in FinalStates
    BY <1>1, RecoverLegal, Zenon DEF MarkInFlight
  <2> QED
    BY <2>1, Zenon DEF FinalStates, PreFlight
<1>2. CASE pendingReplies[r] = None
  <2>1. txState'[r] = "TxInFlight"
    BY <1>2, ZenonT(40) DEF MarkInFlight, ManagerInv, TypeOK
  <2> QED
    BY <2>1, Zenon DEF PreFlight
<1> QED
  BY <1>1, <1>2, Zenon

(* Fail does too, or its event is buffered for the hand-over in progress, which
   may have one already. *)
LEMMA FailLeavesPreFlight ==
  ASSUME ManagerInv, NEW r \in RPC, Fail(r), txState'[r] \in PreFlight
  PROVE  retainPc'[r] # "idle" /\ pendingReplies'[r] # None
<1>0. TypeOK /\ Live(r) /\ FailOrTimeout(r, "TxFailed") /\ UNCHANGED retainPc
  BY Zenon DEF ManagerInv, Fail, retainVars
<1>1. CASE handoffInProgress[r]
  <2>1. retainPc[r] # "idle"
    BY <1>0, <1>1, Zenon DEF ManagerInv, HandoffInv
  <2>2. CASE pendingReplies[r] # None
    BY <1>0, <1>1, <2>1, <2>2, Zenon DEF FailOrTimeout
  <2>3. CASE pendingReplies[r] = None
    <3>1. pendingReplies' = [pendingReplies EXCEPT ![r] = "TxFailed"]
      BY <1>0, <1>1, <2>3, Zenon DEF FailOrTimeout, BufferReply
    <3>2. pendingReplies'[r] = "TxFailed"
      BY <1>0, <3>1, Zenon DEF TypeOK
    <3> QED
      BY <1>0, <2>1, <3>2, ManagerConstants DEF FinalStates
  <2> QED
    BY <2>2, <2>3, Zenon
<1>2. CASE ~handoffInProgress[r]
  <2>1. ASSUME txState'[r] \in FinalStates PROVE FALSE
    BY <2>1, Zenon DEF FinalStates, PreFlight
  <2>2. CASE pendingReplies[r] # None /\ validateTransition(txState[r], "TxInFlight")
    BY <1>0, <1>2, <2>1, <2>2, RecoverLegal, Zenon DEF FailOrTimeout
  <2>3. CASE ~(pendingReplies[r] # None /\ validateTransition(txState[r], "TxInFlight"))
    <3>1. terminalTransition(r, txState[r], "TxFailed")
      BY <1>0, <1>2, <2>3, Zenon DEF FailOrTimeout
    <3>2. validateTransition(txState[r], "TxFailed")
      BY <1>0, Zenon DEF Live, LiveStates, PreFlight, validateTransition
    <3> QED
      BY <1>0, <2>1, <3>1, <3>2, TerminalState, Zenon DEF FinalStates
  <2> QED
    BY <2>2, <2>3, Zenon
<1> QED
  BY <1>1, <1>2, Zenon

(* A hand-over with a buffered event keeps the event until it ends the
   transaction with it: every such event is legal, the timeout excepted, and
   no timeout is buffered before flight. *)
LEMMA BufferedHandOverEnds ==
  ASSUME ManagerInv, NEW r \in RPC, Proceeds(r), txState[r] \in PreFlight, retainPc[r] # "idle",
         pendingReplies[r] # None, txState'[r] \in PreFlight
  PROVE  retainPc'[r] # "idle" /\ pendingReplies'[r] # None
<1>0. TypeOK /\ Live(r)
  BY Zenon DEF ManagerInv, Live, LiveStates
<1>1. handoffInProgress[r] /\ txState[r] = "TxPendingPublish"
  BY <1>0, ZenonT(40) DEF ManagerInv, HandoffInv, PreFlight
<1>2. pendingReplies[r] \in {"TxCompleted", "TxFailed"}
  BY <1>0, <1>1 DEF ManagerInv, TimerInv, TypeOK, FinalStates
<1>3. CASE UNCHANGED <<retainPc, pendingReplies>>
  BY <1>3, Zenon
<1>4. CASE terminalTransition(r, txState[r], pendingReplies[r])
  <2>1. validateTransition(txState[r], pendingReplies[r])
    BY <1>1, <1>2, Zenon DEF validateTransition
  <2>2. txState'[r] = pendingReplies[r]
    BY <1>0, <1>4, <2>1, TerminalState, Zenon
  <2> QED
    BY <1>2, <2>2, Zenon DEF PreFlight
<1>5. CASE MarkPreparingDispatch(r) \/ MarkPendingPublish(r)
  BY <1>3, <1>5, Zenon DEF MarkPreparingDispatch, MarkPendingPublish, Advance, retainVars
<1>6. CASE MarkInFlight(r)
  BY <1>6, MarkLeavesPreFlight, Zenon
<1>7. ~Complete(r) /\ ~ \E op \in Op : RespondAndRetain(r, op)
  BY <1>1, Zenon DEF Complete, RespondAndRetain
<1>8. CASE Fail(r)
  BY <1>8, FailLeavesPreFlight, Zenon
<1>9. CASE ResponseTimerFires(r)
  BY <1>3, <1>9, Zenon DEF ResponseTimerFires, retainVars
<1>10. CASE Timeout(r)
  BY <1>0, <1>1, <1>3, <1>10, Zenon DEF Timeout, FailOrTimeout, retainVars
<1>11. CASE RetainStamp(r) \/ RetainSave(r) \/ RetainRelease(r)
  <2>1. retainPc'[r] \in {"save", "visible", "deleting", "finish"}
    BY <1>0, <1>11, ZenonT(40) DEF RetainStamp, RetainSave, RetainRelease, TypeOK
  <2>2. UNCHANGED pendingReplies
    BY <1>11, Zenon DEF RetainStamp, RetainSave, RetainRelease
  <2> QED
    BY <2>1, <2>2, Zenon
<1>12. CASE RetainFailed(r)
  <2>1. PICK event \in EventsAfterFailedSave(r) :
          event # None /\ validateTransition(txState[r], event) => terminalTransition(r, txState[r], event)
    BY <1>0, <1>12, ZenonT(40) DEF RetainFailed
  <2>2. event = pendingReplies[r]
    BY <2>1, Zenon DEF EventsAfterFailedSave
  <2>3. validateTransition(txState[r], event)
    BY <1>1, <1>2, <2>2, Zenon DEF validateTransition
  <2> QED
    BY <1>4, <2>1, <2>2, <2>3, Zenon
<1>13. CASE RetainCommitted(r)
  BY <1>0, <1>13, ZenonT(40) DEF RetainCommitted, TypeOK
<1>14. CASE RetainFinish(r)
  BY <1>0, <1>4, <1>14, Zenon DEF RetainFinish
<1> QED
  BY <1>5, <1>6, <1>7, <1>8, <1>9, <1>10, <1>11, <1>12, <1>13, <1>14, Zenon DEF Proceeds, RetainStep
=============================================================================
