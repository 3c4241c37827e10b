--------------------------- MODULE RecoveryProofs ---------------------------
(***************************************************************************)
(* The durability of a running upgrade for every number of requests,       *)
(* operations, crashes and reboots and every combination of storage        *)
(* faults: its record stays on disk while the operation holds the lock,    *)
(* and the lock is never restored for an operation of an earlier boot.  If *)
(* Start can read the directory, the device also stays locked for it       *)
(* through every crash of the daemon.                                      *)
(***************************************************************************)
EXTENDS OperationRecovery, ResponseProofs, FiniteSetTheorems

(* While the daemon is down or inside Start no caller and no sweeper runs. *)
QuietInv ==
  /\ daemon # "up" =>
       /\ \A r \in RPC : ~Live(r) /\ retainPc[r] = "idle"
       /\ deleteCalls = {}
       /\ sweepPc = "scan" /\ sweepLeft = {}
  /\ daemon = "down" => activeStateTx = None
  /\ daemon # "starting" => staleBootOps = {}

(* The operations somebody has met as a visible record. *)
Met ==
  onDisk \cup sweepLeft \cup deleteCalls \cup {activeStateTx}
    \cup IF sweepPc = "scan" THEN {} ELSE {sweepOp}

(* Only issued operations are met, and not before their Save. *)
MetInv ==
  /\ \A o \in Op : o \in Met => opRPC[o] # None
  /\ \A r \in RPC : retainPc[r] \in {"stamp", "save"} => retainOp[r] \notin Met

(* The holder and the operation being saved are of this boot; what Start is
   deleting is not. *)
BootInv ==
  /\ NoHolderFromEarlierBoot
  /\ \A r \in RPC : retainPc[r] \in {"save", "visible"} => opBootID[retainOp[r]] = bootID
  /\ \A o \in staleBootOps : StaleBoot(o, bootID)

(* The operation that holds the lock, or that the holder's RespondAndRetain is
   about to give it to. *)
Entrusted(o) ==
  \/ activeStateTx = o
  \/ \E r \in RPC : activeStateTx = r /\ retainPc[r] = "visible" /\ retainOp[r] = o

(* The records that ReleaseOperationLock or the sweeper has decided to delete. *)
Doomed ==
  deleteCalls \cup IF sweepPc = "delete" THEN {sweepOp} ELSE {}

(* No Save outlasts the TTL, so the sweeper cannot take the record of a
   hand-over in progress for an expired one. *)
DurableInv ==
  /\ \A o \in Op : Entrusted(o) => o \in onDisk /\ o \notin Doomed
  /\ sweepNow <= now
  /\ \A r \in RPC : retainPc[r] \in {"save", "visible"} => ~IsExpired(retainOp[r], now)

RecoveryInv ==
  /\ ManagerInv
  /\ RecoveryTypeOK
  /\ QuietInv
  /\ MetInv
  /\ BootInv
  /\ ~ClockMayJump => DurableInv
-----------------------------------------------------------------------------
(* What the manager's invariant says about the calls of RespondAndRetain and
   about the kind of the lock's holder. *)
LEMMA HandoffFacts ==
  ASSUME ManagerInv
  PROVE  /\ \A r \in RPC : retainPc[r] # "idle" => retainOp[r] \in Op /\ opRPC[retainOp[r]] = r
         /\ activeStateOwner = "LockOwnedByOperation" <=> activeStateTx \in Op
         /\ \A r \in RPC : activeStateTx = r /\ retainPc[r] = "visible"
                             => activeStateOwner = "LockTransferPending"
         /\ activeStateTx \in RPC \cup Op \cup {None}
  BY Zenon DEF ManagerInv, TypeOK, HandoffInv, StateLockConsistent

(* The store and the clock enter the manager's invariant through their types
   alone. *)
LEMMA StoreAndClockPreserve ==
  ASSUME ManagerInv, UNCHANGED <<managerVars, bootID, opRPC, opUpdatedAt, opBootID>>,
         onDisk' \subseteq Op, now' \in Nat
  PROVE  ManagerInv'
<1>1. TypeOK'
  BY Zenon DEF ManagerInv, TypeOK, StoreTypeOK, managerVars, requestVars, timerVars, indexVars,
         lockVars, releaseVars, retainVars
<1>2. /\ StateLockConsistent' /\ StateChangeExclusion'
      /\ BufferedReplyHasConsumer' /\ HolderInv' /\ TimerInv'
  BY Zenon DEF ManagerInv, StateLockConsistent, StateChangeExclusion, BufferedReplyHasConsumer,
         HolderInv, TimerInv, Live, managerVars, requestVars, timerVars, indexVars,
         lockVars, releaseVars, retainVars
<1>3. HandoffInv'
  BY Zenon DEF ManagerInv, HandoffInv, Live, managerVars, requestVars, timerVars, indexVars,
         lockVars, releaseVars, retainVars
<1> QED
  BY <1>1, <1>2, <1>3, Zenon DEF ManagerInv

(* A step that hands nothing over and dooms nothing: the hand-overs in progress
   afterwards were in progress before, and the lock stays with its holder, or
   becomes free, or goes to a request. *)
LEMMA RecedingStep ==
  ASSUME RecoveryInv, ManagerInv',
         UNCHANGED <<deleteCalls, storeVars, hostVars, sweepVars, staleBootOps>>,
         \A q \in RPC : retainPc'[q] \in Saving
                          => retainPc[q] = retainPc'[q] /\ retainOp[q] = retainOp'[q],
         activeStateTx' # activeStateTx =>
           /\ activeStateTx' \notin Op
           /\ \A q \in RPC : activeStateTx' = q => retainPc'[q] # "visible"
  PROVE  /\ MetInv'
         /\ BootInv'
         /\ ~ClockMayJump => DurableInv'
<1> USE StoreConstants DEF RecoveryInv, storeVars, hostVars, sweepVars, Saving
<1>0. /\ \A r \in RPC : retainPc[r] # "idle" => retainOp[r] \in Op
      /\ \A r \in RPC : (retainPc[r] # "idle" => retainOp[r] \in Op)'
      /\ activeStateOwner = "LockOwnedByOperation" <=> activeStateTx \in Op
      /\ (activeStateOwner = "LockOwnedByOperation" <=> activeStateTx \in Op)'
  BY Zenon DEF ManagerInv, TypeOK, HandoffInv, StateLockConsistent
<1>1. MetInv'
  BY <1>0 DEF MetInv, Met
<1>2. BootInv'
  BY <1>0, Zenon DEF BootInv, NoHolderFromEarlierBoot, StaleBoot
<1>3. ASSUME ~ClockMayJump PROVE DurableInv'
  BY <1>0, <1>3, Zenon DEF DurableInv, Entrusted, Doomed, IsExpired
<1> QED
  BY <1>1, <1>2, <1>3, Zenon
(* ReleaseOperationLock, called by anybody: the record is doomed in the step
   that takes the lock from its operation. *)
LEMMA ReleasingStep ==
  ASSUME RecoveryInv, ManagerInv', NEW op \in Op, CanRelease(op), BeginRelease(op),
         UNCHANGED <<retainOp, storeVars, hostVars, sweepLeft, sweepOp, sweepNow, staleBootOps>>,
         sweepPc' = sweepPc \/ (sweepPc # "scan" /\ sweepPc' = "wait"),
         \A q \in RPC : retainPc'[q] \in Saving => retainPc[q] = retainPc'[q]
  PROVE  /\ MetInv'
         /\ BootInv'
         /\ ~ClockMayJump => DurableInv'
<1> USE StoreConstants DEF RecoveryInv, CanRelease, BeginRelease, storeVars, hostVars, Saving
<1>0. \A r \in RPC : retainPc[r] # "idle" => retainOp[r] \in Op
  BY HandoffFacts, Zenon
<1>1. MetInv'
  BY <1>0 DEF MetInv, Met
<1>2. BootInv'
  BY <1>0, Zenon DEF BootInv, NoHolderFromEarlierBoot, StaleBoot
<1>3. ASSUME ~ClockMayJump PROVE DurableInv'
  BY <1>0, <1>3, Zenon DEF DurableInv, Entrusted, Doomed, IsExpired
<1> QED
  BY <1>1, <1>2, <1>3, Zenon

(* RespondAndRetain issues an operation nobody has met. *)
LEMMA IssueStep ==
  ASSUME RecoveryInv, ManagerInv', NEW r \in RPC, NEW op \in Op, RespondAndRetain(r, op),
         UNCHANGED <<sweepVars, staleBootOps>>
  PROVE  /\ MetInv'
         /\ BootInv'
         /\ ~ClockMayJump => DurableInv'
<1> USE StoreConstants
    DEF RecoveryInv, RespondAndRetain, releaseVars, hostVars, sweepVars
<1>0. /\ \A q \in RPC : retainPc[q] # "idle" => retainOp[q] \in Op /\ opRPC[retainOp[q]] = q
      /\ retainPc \in [RPC -> {"idle"} \cup Saving \cup Releasing]
      /\ retainOp \in [RPC -> Op \cup {None}]
      /\ opRPC \in [Op -> RPC \cup {None}]
  BY Zenon DEF ManagerInv, TypeOK, StoreTypeOK, HandoffInv
<1>1. MetInv'
  BY <1>0 DEF MetInv, Met
<1>2. BootInv'
  BY <1>0 DEF BootInv, NoHolderFromEarlierBoot, StaleBoot
<1>3. ASSUME ~ClockMayJump PROVE DurableInv'
  BY <1>0, <1>3 DEF DurableInv, Entrusted, Doomed, IsExpired
<1> QED
  BY <1>1, <1>2, <1>3, Zenon

(* The record is stamped with the boot and the second of that moment. *)
LEMMA StampStep ==
  ASSUME RecoveryInv, ManagerInv', NEW r \in RPC, RetainStamp(r),
         UNCHANGED <<sweepVars, staleBootOps>>
  PROVE  /\ MetInv'
         /\ BootInv'
         /\ ~ClockMayJump => DurableInv'
<1> USE StoreConstants, RecoveryConstants
    DEF RecoveryInv, RetainStamp, lockVars, releaseVars, hostVars, sweepVars
<1>0. /\ \A q \in RPC : retainPc[q] # "idle" => retainOp[q] \in Op /\ opRPC[retainOp[q]] = q
      /\ retainPc \in [RPC -> {"idle"} \cup Saving \cup Releasing]
      /\ opUpdatedAt \in [Op -> Nat]
      /\ opBootID \in [Op -> Nat]
      /\ now \in Nat /\ bootID \in Nat
  BY Zenon DEF ManagerInv, TypeOK, StoreTypeOK, HandoffInv
<1>1. MetInv'
  BY <1>0 DEF MetInv, Met
<1>2. BootInv'
  <2>1. activeStateTx # retainOp[r] /\ (daemon = "up" \/ retainPc[r] = "idle")
    BY Zenon DEF MetInv, Met, QuietInv
  <2>2. staleBootOps = {}
    BY <2>1, Zenon DEF QuietInv
  <2>3. activeStateOwner = "LockOwnedByOperation" => activeStateTx \in Op
    BY HandoffFacts, Zenon
  <2> QED
    BY <1>0, <2>1, <2>2, <2>3 DEF BootInv, NoHolderFromEarlierBoot, StaleBoot
<1>3. ASSUME ~ClockMayJump PROVE DurableInv'
  BY <1>0, <1>3 DEF DurableInv, Entrusted, Doomed, IsExpired
<1> QED
  BY <1>1, <1>2, <1>3, Zenon

(* The rename makes the record visible before anybody could have decided to
   delete it. *)
LEMMA SaveStep ==
  ASSUME RecoveryInv, ManagerInv', NEW r \in RPC, RetainSave(r),
         UNCHANGED <<sweepVars, staleBootOps>>
  PROVE  /\ MetInv'
         /\ BootInv'
         /\ ~ClockMayJump => DurableInv'
<1> USE StoreConstants
    DEF RecoveryInv, RetainSave, SaveRename, lockVars, releaseVars, hostVars, sweepVars
<1>0. /\ \A q \in RPC : retainPc[q] # "idle" => retainOp[q] \in Op /\ opRPC[retainOp[q]] = q
      /\ retainPc \in [RPC -> {"idle"} \cup Saving \cup Releasing]
  BY Zenon DEF ManagerInv, TypeOK, HandoffInv
<1>1. MetInv'
  BY <1>0 DEF MetInv, Met
<1>2. BootInv'
  BY <1>0, Zenon DEF BootInv, NoHolderFromEarlierBoot, StaleBoot
<1>3. ASSUME ~ClockMayJump PROVE DurableInv'
  BY <1>0, <1>3 DEF DurableInv, MetInv, Met, Entrusted, Doomed, IsExpired
<1> QED
  BY <1>1, <1>2, <1>3, Zenon

(* The lock passes to the operation it was promised to. *)
LEMMA CommitStep ==
  ASSUME RecoveryInv, ManagerInv', NEW r \in RPC, RetainCommitted(r),
         UNCHANGED <<sweepVars, staleBootOps>>
  PROVE  /\ MetInv'
         /\ BootInv'
         /\ ~ClockMayJump => DurableInv'
<1> USE StoreConstants
    DEF RecoveryInv, storeVars, releaseVars, hostVars, sweepVars
<1>0. /\ \A q \in RPC : retainPc[q] # "idle" => retainOp[q] \in Op /\ opRPC[retainOp[q]] = q
      /\ retainPc \in [RPC -> {"idle"} \cup Saving \cup Releasing]
      /\ retainOp \in [RPC -> Op \cup {None}]
  BY Zenon DEF ManagerInv, TypeOK, HandoffInv
<1>a. /\ retainPc[r] = "visible"
      /\ UNCHANGED <<deleteCalls, storeVars, hostVars>>
      /\ \A q \in RPC : retainPc'[q] \in Saving
                          => q # r /\ retainPc[q] = retainPc'[q] /\ retainOp[q] = retainOp'[q]
  BY <1>0 DEF RetainCommitted, Saving
<1>1. CASE activeStateTx = r
  <2>1. activeStateTx' = retainOp[r]
    BY <1>1, Zenon DEF RetainCommitted
  <2>2. MetInv'
    BY <1>0, <1>a, <2>1 DEF MetInv, Met, Saving
  <2>3. BootInv'
    BY <1>0, <1>a, <2>1, Zenon DEF BootInv, NoHolderFromEarlierBoot, StaleBoot, Saving
  <2>4. ASSUME ~ClockMayJump PROVE DurableInv'
    BY <1>0, <1>1, <1>a, <2>1, <2>4 DEF DurableInv, Entrusted, Doomed, IsExpired, Saving
  <2> QED
    BY <2>2, <2>3, <2>4, Zenon
<1>2. CASE activeStateTx # r
  <2>1. activeStateTx' = activeStateTx
    BY <1>2, Zenon DEF RetainCommitted
  <2> QED
    BY <1>a, <2>1, RecedingStep, Zenon DEF Saving
<1> QED
  BY <1>1, <1>2, Zenon

(* The Delete of a ReleaseOperationLock call hits a doomed record. *)
LEMMA DeleteStep ==
  ASSUME RecoveryInv, ManagerInv', NEW op \in Op, ReleaseDelete(op),
         UNCHANGED <<sweepVars, staleBootOps>>
  PROVE  /\ MetInv'
         /\ BootInv'
         /\ ~ClockMayJump => DurableInv'
<1> USE StoreConstants
    DEF RecoveryInv, ReleaseDelete, Delete, lockVars, retainVars, hostVars, sweepVars
<1>1. MetInv'
  BY Zenon DEF MetInv, Met
<1>2. BootInv'
  BY Zenon DEF BootInv, NoHolderFromEarlierBoot, StaleBoot
<1>3. ASSUME ~ClockMayJump PROVE DurableInv'
  BY <1>3, Zenon DEF DurableInv, Entrusted, Doomed, IsExpired
<1> QED
  BY <1>1, <1>2, <1>3, Zenon
(* The steps of a transaction other than RespondAndRetain take, keep or free the
   lock and touch neither the store nor a hand-over. *)
LEMMA TransactionRecedes ==
  ASSUME RecoveryInv, ManagerInv', NEW r \in RPC, TransactionStep(r),
         \A op \in Op : ~RespondAndRetain(r, op),
         UNCHANGED <<sweepVars, staleBootOps>>
  PROVE  /\ MetInv'
         /\ BootInv'
         /\ ~ClockMayJump => DurableInv'
<1> USE StoreConstants
    DEF storeVars, hostVars, releaseVars, retainVars, lockVars, terminalTransition, ReleaseStateLock
<1>1. UNCHANGED <<deleteCalls, retainVars, storeVars, hostVars>>
  BY Zenon DEF TransactionStep, CreateTransaction, MarkPreparingDispatch, MarkPendingPublish, Advance,
         MarkInFlight, Complete, Fail, ResponseTimerFires, Timeout
<1>2. ASSUME activeStateTx' # activeStateTx
      PROVE  activeStateTx' = None \/ (activeStateTx' = r /\ retainPc[r] = "idle")
  <2>1. CASE \E q \in Requests : CreateTransaction(r, q[1], q[2], q[3])
    <3>1. retainPc[r] = "idle"
      BY <2>1, Zenon DEF CreateTransaction, RecoveryInv, ManagerInv, HandoffInv
    <3> QED
      BY <1>2, <2>1, <3>1, Zenon DEF CreateTransaction
  <2>2. CASE MarkPreparingDispatch(r) \/ MarkPendingPublish(r) \/ ResponseTimerFires(r)
    BY <1>2, <2>2, Zenon DEF MarkPreparingDispatch, MarkPendingPublish, Advance, ResponseTimerFires
  <2>3. CASE MarkInFlight(r) \/ Complete(r)
    BY <1>2, <2>3, Zenon DEF MarkInFlight, Complete, BufferReply
  <2>4. CASE Fail(r) \/ Timeout(r)
    BY <1>2, <2>4, Zenon DEF Fail, Timeout, FailOrTimeout, BufferReply
  <2> QED
    BY <2>1, <2>2, <2>3, <2>4, Zenon DEF TransactionStep
<1> QED
  BY <1>1, <1>2, RecedingStep, Zenon

(* A call of RespondAndRetain, after its first critical section. *)
LEMMA RetainKeeps ==
  ASSUME RecoveryInv, ManagerInv', NEW r \in RPC, RetainStep(r),
         UNCHANGED <<sweepVars, staleBootOps>>
  PROVE  /\ MetInv'
         /\ BootInv'
         /\ ~ClockMayJump => DurableInv'
<1> USE StoreConstants DEF storeVars, hostVars, releaseVars, lockVars, Saving
<1>0. /\ retainPc \in [RPC -> {"idle"} \cup Saving \cup Releasing]
      /\ retainOp \in [RPC -> Op \cup {None}]
      /\ retainPc[r] # "idle" => retainOp[r] \in Op
  BY Zenon DEF RecoveryInv, ManagerInv, TypeOK, HandoffInv
<1>1. CASE RetainStamp(r)
  BY <1>1, StampStep, Zenon
<1>2. CASE RetainSave(r)
  BY <1>2, SaveStep, Zenon
<1>3. CASE RetainCommitted(r)
  BY <1>3, CommitStep, Zenon
<1>4. CASE RetainFailed(r)
  <2>1. /\ UNCHANGED <<deleteCalls, storeVars, hostVars>>
        /\ retainPc' = [retainPc EXCEPT ![r] = "idle"]
        /\ retainOp' = [retainOp EXCEPT ![r] = None]
        /\ activeStateTx' = activeStateTx \/ activeStateTx' = None
    BY <1>4, Zenon DEF RetainFailed, terminalTransition, ReleaseStateLock
  <2> QED
    BY <1>0, <2>1, RecedingStep, Zenon
<1>5. CASE RetainFinish(r)
  <2>1. /\ UNCHANGED <<deleteCalls, storeVars, hostVars>>
        /\ retainPc' = [retainPc EXCEPT ![r] = "idle"]
        /\ retainOp' = [retainOp EXCEPT ![r] = None]
        /\ activeStateTx' = activeStateTx \/ activeStateTx' = None
    BY <1>5, Zenon DEF RetainFinish, terminalTransition, ReleaseStateLock
  <2> QED
    BY <1>0, <2>1, RecedingStep, Zenon
<1>6. CASE RetainRelease(r)
  <2>1. /\ retainPc[r] = "release"
        /\ UNCHANGED <<retainOp, storeVars, hostVars>>
        /\ \A q \in RPC : retainPc'[q] \in Saving => retainPc[q] = retainPc'[q]
    BY <1>0, <1>6, Zenon DEF RetainRelease
  <2>2. CASE CanRelease(retainOp[r])
    <3>1. BeginRelease(retainOp[r])
      BY <1>6, <2>2, Zenon DEF RetainRelease
    <3> QED
      BY <1>0, <2>1, <2>2, <3>1, ReleasingStep, Zenon DEF sweepVars
  <2>3. CASE ~CanRelease(retainOp[r])
    <3>1. UNCHANGED <<activeStateTx, deleteCalls>>
      BY <1>6, <2>3, Zenon DEF RetainRelease
    <3> QED
      BY <2>1, <3>1, RecedingStep, Zenon
  <2> QED
    BY <2>2, <2>3, Zenon
<1> QED
  BY <1>1, <1>2, <1>3, <1>4, <1>5, <1>6, ZenonT(40) DEF RetainStep

(* Whatever the callers of the manager do. *)
LEMMA CallPreserves ==
  ASSUME RecoveryInv, Call
  PROVE  RecoveryInv'
<1> USE StoreConstants DEF Call, sweepVars
<1>1. ManagerInv'
  BY NextPreserves, Zenon DEF RecoveryInv
<1>2. protected' \in Op \cup {None}
  BY <1>1, Zenon DEF FollowLock, RecoveryInv, RecoveryTypeOK, ManagerInv, StateLockConsistent
<1>3. RecoveryTypeOK' /\ QuietInv'
  BY <1>1, <1>2, Zenon DEF RecoveryInv, RecoveryTypeOK, ManagerInv, QuietInv
<1>4. MetInv' /\ BootInv' /\ (~ClockMayJump => DurableInv')
  <2>1. CASE \E r \in RPC : TransactionStep(r)
    BY <1>1, <2>1, TransactionRecedes, IssueStep, Zenon
  <2>2. CASE \E r \in RPC : RetainStep(r)
    BY <1>1, <2>2, RetainKeeps, Zenon
  <2>3. CASE \E op \in Op : ReleaseOperationLock(op)
    <3>1. PICK op \in Op : ReleaseOperationLock(op)
      BY <2>3, Zenon
    <3> QED
      BY <1>1, <3>1, ReleasingStep, Zenon DEF ReleaseOperationLock, retainVars
  <2>4. CASE \E op \in Op : ReleaseDelete(op)
    BY <1>1, <2>4, DeleteStep, Zenon
  <2>5. CASE \E k \in Key : CacheExpire(k)
    <3>1. UNCHANGED <<deleteCalls, storeVars, hostVars, retainPc, retainOp, activeStateTx>>
      BY <2>5, Zenon DEF CacheExpire, lockVars, releaseVars, retainVars
    <3> QED
      BY <1>1, <3>1, RecedingStep, Zenon
  <2> QED
    BY <2>1, <2>2, <2>3, <2>4, <2>5, Zenon DEF ManagerNext
<1> QED
  BY <1>1, <1>3, <1>4, Zenon DEF RecoveryInv
-----------------------------------------------------------------------------
(* The sweeper never decides to delete the record of the operation that holds
   the lock or is being given it. *)
LEMMA SweepSpares ==
  ASSUME RecoveryInv, ~ClockMayJump, NEW op \in Op, SweepDecision(op) = "delete"
  PROVE  ~Entrusted(op)
<1> USE DEF RecoveryInv
<1>0. /\ activeStateOwner = "LockOwnedByOperation" <=> activeStateTx \in Op
      /\ \A r \in RPC : activeStateTx = r /\ retainPc[r] = "visible"
                          => activeStateOwner = "LockTransferPending" /\ retainOp[r] \in Op
  BY HandoffFacts, Zenon
<1>1. activeStateTx # op
  BY <1>0, Zenon DEF SweepDecision, BootInv, NoHolderFromEarlierBoot
<1>2. ASSUME NEW r \in RPC, activeStateTx = r, retainPc[r] = "visible"
      PROVE  retainOp[r] # op
  <2>1. ~StaleBoot(retainOp[r], bootID)
    BY <1>2, Zenon DEF BootInv, StaleBoot
  <2>2. /\ now \in Nat /\ sweepNow \in Nat /\ sweepNow <= now
        /\ opUpdatedAt[retainOp[r]] \in Nat
        /\ ~IsExpired(retainOp[r], now)
    BY <1>0, <1>2, ZenonT(40) DEF ManagerInv, TypeOK, StoreTypeOK, RecoveryTypeOK, DurableInv
  <2>3. ~IsExpired(retainOp[r], sweepNow)
    BY <2>2, RecoveryConstants DEF IsExpired
  <2> QED
    BY <1>0, <1>2, <2>1, <2>3, Zenon DEF SweepDecision
<1> QED
  BY <1>1, <1>2, Zenon DEF Entrusted

(* Truncated and faulty reads of the directory return records that are there. *)
LEMMA ReadsAreOnDisk ==
  ASSUME NEW ops \in GetActive
  PROVE  ops \subseteq onDisk
  BY DEF GetActive, Truncated

(* A pass of the sweeper. *)
LEMMA SweeperPreserves ==
  ASSUME RecoveryInv, Sweeper
  PROVE  RecoveryInv'
<1> USE StoreConstants DEF RecoveryInv
<1>1. CASE SweepBegin
  <2> USE DEF SweepBegin
  <2>1. ManagerInv'
    BY <1>1, NextPreserves, Zenon
  <2>2. sweepLeft' \subseteq onDisk
    BY <1>1, ReadsAreOnDisk, Zenon
  <2>3. RecoveryTypeOK' /\ QuietInv'
    BY <1>1, <2>1, <2>2, ZenonT(40) DEF RecoveryTypeOK, ManagerInv, TypeOK, StoreTypeOK, QuietInv, vars, hostVars, storeVars
  <2>4. MetInv'
    BY <1>1, <2>2, Zenon DEF MetInv, Met, vars, managerVars, lockVars, releaseVars, retainVars, storeVars
  <2>5. BootInv'
    BY <1>1, ZenonT(40) DEF BootInv, NoHolderFromEarlierBoot, StaleBoot, vars, managerVars, lockVars, retainVars, hostVars, storeVars
  <2>6. ASSUME ~ClockMayJump PROVE DurableInv'
    BY <1>1, <2>6 DEF DurableInv, Entrusted, Doomed, IsExpired, ManagerInv, TypeOK,
                      vars, managerVars, lockVars, releaseVars, retainVars, hostVars, storeVars
  <2> QED
    BY <2>1, <2>3, <2>4, <2>5, <2>6, Zenon
<1>2. ASSUME NEW op \in Op, SweepCheck(op) PROVE RecoveryInv'
  <2> USE <1>2 DEF SweepCheck
  <2>1. ManagerInv'
    BY NextPreserves, Zenon
  <2>2. op \in sweepLeft /\ SweepDecision(op) \in {"scan", "delete", "release"}
    BY Zenon DEF NewestOf, SweepDecision
  <2>3. RecoveryTypeOK' /\ QuietInv'
    BY <2>1, <2>2, ZenonT(40) DEF RecoveryTypeOK, ManagerInv, QuietInv
  <2>4. MetInv'
    BY <2>2 DEF MetInv, Met, vars, managerVars, lockVars, releaseVars, retainVars, storeVars
  <2>5. BootInv'
    BY Zenon DEF BootInv, NoHolderFromEarlierBoot, StaleBoot, vars, managerVars, lockVars, retainVars, hostVars, storeVars
  <2>6. ASSUME ~ClockMayJump PROVE DurableInv'
    <3>1. SweepDecision(op) = "delete" => ~Entrusted(op)
      BY <2>6, SweepSpares, ZenonT(40)
    <3> QED
      BY <2>2, <2>6, <3>1, Zenon DEF DurableInv, Entrusted, Doomed, IsExpired,
                      vars, managerVars, lockVars, releaseVars, retainVars, hostVars, storeVars
  <2> QED
    BY <2>1, <2>3, <2>4, <2>5, <2>6, ZenonT(40)
<1>3. CASE SweepDelete
  <2> USE DEF SweepDelete, Delete
  <2>1. ManagerInv'
    <3>1. onDisk' \subseteq Op /\ now' \in Nat
      BY <1>3, Zenon DEF ManagerInv, TypeOK, StoreTypeOK, hostVars
    <3> QED
      BY <1>3, <3>1, StoreAndClockPreserve, Zenon DEF hostVars
  <2>3. RecoveryTypeOK' /\ QuietInv'
    BY <1>3, <2>1, Zenon DEF RecoveryTypeOK, ManagerInv, QuietInv
  <2>4. MetInv'
    BY <1>3, Zenon DEF MetInv, Met, managerVars, lockVars, releaseVars, retainVars
  <2>5. BootInv'
    BY <1>3, Zenon DEF BootInv, NoHolderFromEarlierBoot, StaleBoot, managerVars, lockVars, retainVars, hostVars
  <2>6. ASSUME ~ClockMayJump PROVE DurableInv'
    BY <1>3, <2>6, Zenon DEF DurableInv, Entrusted, Doomed, IsExpired,
                      managerVars, lockVars, releaseVars, retainVars, hostVars
  <2> QED
    BY <2>1, <2>3, <2>4, <2>5, <2>6, Zenon
<1>4. CASE SweepRelease
  <2>1. CASE CanRelease(sweepOp)
    <3>1. sweepOp \in Op
      BY <2>1, HandoffFacts, Zenon DEF CanRelease
    <3>2. ReleaseOperationLock(sweepOp)
      BY <1>4, <2>1, Zenon DEF SweepRelease, ReleaseOperationLock
    <3>3. ManagerInv'
      BY <3>1, <3>2, ReleasePreserves, Zenon
    <3>4. RecoveryTypeOK' /\ QuietInv'
      BY <1>4, <2>1, <3>1, <3>3, Zenon
         DEF SweepRelease, BeginRelease, FollowLock, RecoveryTypeOK, ManagerInv, QuietInv
    <3>5. MetInv' /\ BootInv' /\ (~ClockMayJump => DurableInv')
      BY <1>4, <2>1, <3>1, <3>3, ReleasingStep, Zenon DEF SweepRelease, retainVars
    <3> QED
      BY <3>3, <3>4, <3>5, Zenon
  <2>2. CASE ~CanRelease(sweepOp)
    <3>0. UNCHANGED vars /\ sweepPc' = "scan" /\ sweepOp' = None
      BY <1>4, <2>2, Zenon DEF SweepRelease, vars, managerVars
    <3>1. ManagerInv'
      BY <3>0, NextPreserves, Zenon
    <3>2. RecoveryTypeOK' /\ QuietInv'
      BY <1>4, <3>0, <3>1, ZenonT(40) DEF SweepRelease, FollowLock, RecoveryTypeOK, ManagerInv,
         StateLockConsistent, QuietInv
    <3>3. MetInv' /\ BootInv'
      BY <1>4, <3>0, Zenon DEF SweepRelease, MetInv, Met, BootInv, NoHolderFromEarlierBoot, StaleBoot,
         vars, managerVars, lockVars, releaseVars, retainVars, hostVars, storeVars
    <3>4. ASSUME ~ClockMayJump PROVE DurableInv'
      BY <1>4, <3>0, <3>4, ZenonT(40) DEF SweepRelease, DurableInv, Entrusted, Doomed, IsExpired,
         vars, managerVars, lockVars, releaseVars, retainVars, hostVars, storeVars
    <3> QED
      BY <3>1, <3>2, <3>3, <3>4, Zenon
  <2> QED
    BY <2>1, <2>2, Zenon
<1>5. CASE SweepReleased
  <2> USE DEF SweepReleased
  <2>1. ManagerInv'
    BY <1>5, NextPreserves, Zenon
  <2>2. RecoveryTypeOK' /\ QuietInv'
    BY <1>5, <2>1, Zenon DEF RecoveryTypeOK, ManagerInv, QuietInv
  <2>3. MetInv' /\ BootInv'
    BY <1>5, Zenon DEF MetInv, Met, BootInv, NoHolderFromEarlierBoot, StaleBoot,
       vars, managerVars, lockVars, releaseVars, retainVars, hostVars, storeVars
  <2>4. ASSUME ~ClockMayJump PROVE DurableInv'
    BY <1>5, <2>4, Zenon DEF DurableInv, Entrusted, Doomed, IsExpired,
       vars, managerVars, lockVars, releaseVars, retainVars, hostVars, storeVars
  <2> QED
    BY <2>1, <2>2, <2>3, <2>4, Zenon
<1> QED
  BY <1>1, <1>2, <1>3, <1>4, <1>5, Zenon DEF Sweeper
(* Start gives the lock to a record of this boot and deletes only others. *)
LEMMA StartingPreserves ==
  ASSUME RecoveryInv, Starting
  PROVE  RecoveryInv'
<1> USE StoreConstants DEF RecoveryInv
<1>1. CASE Start
  <2> USE <1>1
  <2>0. PICK ops \in GetActive, boot \in BootIDs :
          /\ bootID' = boot
          /\ staleBootOps' = {o \in ops : StaleBoot(o, boot)}
          /\ IF Recoverable(ops, boot) = {}
               THEN UNCHANGED lockVars
               ELSE \E o \in Recoverable(ops, boot) :
                      /\ stateLock' = TRUE
                      /\ activeStateTx' = o
                      /\ activeStateOwner' = "LockOwnedByOperation"
          /\ protected' = IF protected # None /\ (StaleBoot(protected, boot) \/ IsExpired(protected, now))
                            THEN None ELSE protected
    BY Zenon DEF Start
  <2>1. /\ ops \subseteq onDisk
        /\ onDisk \subseteq Op
        /\ boot \in Nat
        /\ Recoverable(ops, boot) \subseteq {o \in ops : ~StaleBoot(o, boot)}
    BY ReadsAreOnDisk DEF RecoveryTypeOK, TypeOK, StoreTypeOK, BootIDs, Recoverable, NewestOf
  <2>2. \/ UNCHANGED lockVars
        \/ /\ stateLock' = TRUE
           /\ activeStateTx' \in onDisk
           /\ activeStateOwner' = "LockOwnedByOperation"
           /\ ~StaleBoot(activeStateTx', boot)
    BY <2>0, <2>1, Zenon
  <2>3. /\ UNCHANGED <<txState, txMethod, txKey, txRespond, handoffInProgress, responseTimer, timeoutCall,
                       pendingReplies, activeCloudRequests, cache, pushes, releasingOperationID,
                       deleteCalls, retainPc, retainOp, now, onDisk, opRPC, opUpdatedAt, opBootID,
                       hostBoot, crashes, sweepPc, sweepLeft, sweepOp, sweepNow>>
        /\ daemon = "down" /\ daemon' = "starting"
    BY Zenon DEF Start, requestVars, timerVars, indexVars, releaseVars, retainVars, storeVars, sweepVars
  <2>4. /\ \A r \in RPC : ~Live(r) /\ retainPc[r] = "idle"
        /\ activeStateTx = None
        /\ deleteCalls = {} /\ sweepPc = "scan" /\ sweepLeft = {}
    BY <2>3, ZenonT(40) DEF QuietInv
  <2>5. activeStateOwner = "LockNone" /\ stateLock = FALSE
    BY <2>4, ZenonT(40) DEF ManagerInv, StateLockConsistent, TypeOK
  <2>6. TypeOK'
    BY <2>0, <2>1, <2>2, <2>3, ZenonT(40) DEF ManagerInv, TypeOK, StoreTypeOK, lockVars
  <2>7. StateLockConsistent'
    BY <2>1, <2>2, <2>4, <2>5, ZenonT(40) DEF StateLockConsistent, lockVars
  <2>8. /\ StateChangeExclusion' /\ BufferedReplyHasConsumer' /\ HandoffInv' /\ TimerInv'
    BY <2>3, <2>4, ZenonT(40) DEF ManagerInv, StateChangeExclusion, BufferedReplyHasConsumer, HandoffInv, TimerInv, Live
  <2>9. HolderInv'
    BY <2>1, <2>2, <2>4, Zenon DEF HolderInv, lockVars
  <2>10. ManagerInv'
    BY <2>6, <2>7, <2>8, <2>9, Zenon DEF ManagerInv
  <2>11. RecoveryTypeOK'
    BY <2>0, <2>1, <2>3, <2>6, Zenon DEF RecoveryTypeOK
  <2>12. QuietInv'
    BY <2>3, <2>4, Zenon DEF QuietInv, Live
  <2>13. MetInv'
    BY <2>1, <2>2, <2>3, <2>4, ZenonT(40) DEF MetInv, Met, lockVars
  <2>14. BootInv'
    BY <2>0, <2>2, <2>3, <2>4, <2>5, ZenonT(40) DEF BootInv, NoHolderFromEarlierBoot, StaleBoot, lockVars
  <2>15. ASSUME ~ClockMayJump PROVE DurableInv'
    BY <2>1, <2>2, <2>3, <2>4, <2>15, ZenonT(40) DEF DurableInv, Entrusted, Doomed, IsExpired, lockVars
  <2> QED
    BY <2>10, <2>11, <2>12, <2>13, <2>14, <2>15, ZenonT(40)
<1>2. ASSUME NEW op \in Op, StartDeletesStale(op) PROVE RecoveryInv'
  <2> USE <1>2 DEF StartDeletesStale, Delete
  <2>1. ManagerInv'
    <3>1. onDisk' \subseteq Op /\ now' \in Nat
      BY Zenon DEF ManagerInv, TypeOK, StoreTypeOK, hostVars
    <3> QED
      BY <3>1, StoreAndClockPreserve, Zenon DEF hostVars
  <2>2. RecoveryTypeOK' /\ QuietInv'
    BY <2>1, Zenon DEF RecoveryTypeOK, ManagerInv, QuietInv, Live, managerVars, lockVars, releaseVars, retainVars, sweepVars
  <2>3. MetInv'
    BY Zenon DEF MetInv, Met, managerVars, lockVars, releaseVars, retainVars, sweepVars
  <2>4. BootInv'
    BY Zenon DEF BootInv, NoHolderFromEarlierBoot, StaleBoot, managerVars, lockVars, retainVars, hostVars
  <2>5. ASSUME ~ClockMayJump PROVE DurableInv'
    <3>1. activeStateTx # op /\ \A r \in RPC : retainPc[r] = "idle"
      BY HandoffFacts DEF BootInv, NoHolderFromEarlierBoot, QuietInv
    <3> QED
      BY <2>5, <3>1, ZenonT(40) DEF DurableInv, Entrusted, Doomed, IsExpired,
                   managerVars, lockVars, releaseVars, retainVars, hostVars, sweepVars
  <2> QED
    BY <2>1, <2>2, <2>3, <2>4, <2>5, ZenonT(40)
<1>3. CASE StartReturns
  <2> USE <1>3 DEF StartReturns, sweepVars
  <2>1. ManagerInv'
    BY NextPreserves, Zenon
  <2>2. RecoveryTypeOK' /\ QuietInv'
    BY <2>1, Zenon DEF RecoveryTypeOK, ManagerInv, QuietInv
  <2>3. MetInv' /\ BootInv'
    BY Zenon DEF MetInv, Met, BootInv, NoHolderFromEarlierBoot, StaleBoot,
       vars, managerVars, lockVars, releaseVars, retainVars, hostVars, storeVars
  <2>4. ASSUME ~ClockMayJump PROVE DurableInv'
    BY <2>4, Zenon DEF DurableInv, Entrusted, Doomed, IsExpired,
       vars, managerVars, lockVars, releaseVars, retainVars, hostVars, storeVars
  <2> QED
    BY <2>1, <2>2, <2>3, <2>4, Zenon
<1> QED
  BY <1>1, <1>2, <1>3, Zenon DEF Starting

(* After a crash or a reboot nothing is held and nothing is in progress. *)
LEMMA MemoryLossPreserves ==
  ASSUME RecoveryInv, LoseMemory, onDisk' \subseteq onDisk, now' \in Nat,
         hostBoot' \in Nat, crashes' \in Nat, protected' \in Op \cup {None}
  PROVE  RecoveryInv'
<1> USE StoreConstants, ManagerConstants DEF RecoveryInv, LoseMemory, requestVars
<1>1. TypeOK'
  BY Zenon DEF ManagerInv, TypeOK, StoreTypeOK, TransactionStates, LiveStates, PreFlight, FinalStates, Live
<1>2. \A r \in RPC : /\ retainPc'[r] = "idle" /\ ~responseTimer'[r] /\ ~timeoutCall'[r]
                     /\ ~handoffInProgress'[r] /\ pendingReplies'[r] = None
  BY Zenon
<1>3. \A r \in RPC : ~Live(r)'
  BY Zenon DEF Live, LiveStates, PreFlight, FinalStates
<1>4. ManagerInv'
  BY <1>1, <1>2, <1>3, ZenonT(40) DEF ManagerInv, StateLockConsistent, StateChangeExclusion, BufferedReplyHasConsumer,
     HandoffInv, HolderInv, TimerInv, FinalStates
<1>5. RecoveryTypeOK' /\ QuietInv'
  BY <1>1, <1>3, Zenon DEF RecoveryTypeOK, QuietInv
<1>6. MetInv' /\ BootInv'
  BY ZenonT(40) DEF MetInv, Met, BootInv, NoHolderFromEarlierBoot, StaleBoot
<1>7. ASSUME ~ClockMayJump PROVE DurableInv'
  BY <1>7 DEF DurableInv, Entrusted, Doomed, IsExpired
<1> QED
  BY <1>4, <1>5, <1>6, <1>7, ZenonT(40)

(* The clock: no Save outlasts the TTL. *)
LEMMA TickPreserves ==
  ASSUME RecoveryInv, Tick
  PROVE  RecoveryInv'
<1> USE StoreConstants DEF RecoveryInv, Tick
<1>0. now \in Nat /\ now' = now + 1 /\ onDisk \subseteq Op
  BY Zenon DEF ManagerInv, TypeOK, StoreTypeOK
<1>1. ManagerInv'
  BY <1>0, StoreAndClockPreserve DEF storeVars
<1>2. RecoveryTypeOK' /\ QuietInv'
  BY <1>1, Zenon DEF RecoveryTypeOK, ManagerInv, QuietInv, Live, recoveryVars, sweepVars,
              managerVars, lockVars, releaseVars, retainVars
<1>3. MetInv' /\ BootInv'
  BY Zenon DEF MetInv, Met, BootInv, NoHolderFromEarlierBoot, StaleBoot,
     managerVars, lockVars, releaseVars, retainVars, storeVars, recoveryVars, sweepVars
<1>4. ASSUME ~ClockMayJump PROVE DurableInv'
  BY <1>0, <1>4 DEF DurableInv, Entrusted, Doomed, IsExpired, RecoveryTypeOK,
     managerVars, lockVars, releaseVars, retainVars, storeVars, recoveryVars, sweepVars
<1> QED
  BY <1>1, <1>2, <1>3, <1>4, ZenonT(40)
-----------------------------------------------------------------------------
(* RecoveryInv holds through every crash, reboot, restart and sweep. *)
LEMMA RecoveryInvariance == RecoverySpec => []RecoveryInv
<1>1. RecoveryInit => RecoveryInv
  <2> SUFFICES ASSUME RecoveryInit PROVE RecoveryInv
    BY Zenon
  <2> USE StoreConstants DEF RecoveryInit, Init, ManagerInit, StoreInit
  <2>1. ManagerInv
    BY InitEstablishesInv, Zenon
  <2>2. RecoveryTypeOK /\ QuietInv
    BY <2>1, Zenon DEF RecoveryTypeOK, ManagerInv, QuietInv, Live, LiveStates, PreFlight
  <2>3. MetInv /\ BootInv /\ DurableInv
    BY DEF MetInv, Met, BootInv, NoHolderFromEarlierBoot, DurableInv, Entrusted, Doomed
  <2> QED
    BY <2>1, <2>2, <2>3, Zenon DEF RecoveryInv
<1>2. RecoveryInv /\ [RecoveryNext]_allVars => RecoveryInv'
  <2> SUFFICES ASSUME RecoveryInv, [RecoveryNext]_allVars PROVE RecoveryInv'
    BY Zenon
  <2>1. CASE Call
    BY <2>1, CallPreserves, Zenon
  <2>2. CASE Sweeper
    BY <2>2, SweeperPreserves, ZenonT(40)
  <2>3. CASE Starting
    BY <2>3, StartingPreserves, Zenon
  <2>4. CASE Crash
    <3>1. /\ LoseMemory /\ onDisk' \subseteq onDisk
          /\ now' \in Nat /\ hostBoot' \in Nat /\ protected' \in Op \cup {None}
      BY <2>4, Zenon DEF Crash, RecoveryInv, RecoveryTypeOK, TypeOK
    <3>2. crashes' \in Nat
      BY <2>4 DEF Crash, RecoveryInv, RecoveryTypeOK
    <3> QED
      BY <3>1, <3>2, MemoryLossPreserves, Zenon
  <2>5. CASE Reboot
    <3>1. LoseMemory /\ onDisk' \subseteq onDisk /\ protected' \in Op \cup {None}
      BY <2>5, Zenon DEF Reboot
    <3>2. now' = now + 1 /\ hostBoot' = hostBoot + 1 /\ crashes' = crashes + 1
      BY <2>5, Zenon DEF Reboot
    <3>3. now \in Nat /\ hostBoot \in Nat /\ crashes \in Nat
      BY Zenon DEF RecoveryInv, RecoveryTypeOK, TypeOK
    <3>4. now' \in Nat /\ hostBoot' \in Nat /\ crashes' \in Nat
      BY <3>2, <3>3
    <3> QED
      BY <3>1, <3>4, MemoryLossPreserves, Zenon
  <2>6. CASE Tick
    BY <2>6, TickPreserves, Zenon
  <2>7. CASE UNCHANGED allVars
    <3> USE <2>7 DEF allVars, recoveryVars, sweepVars, RecoveryInv
    <3>1. ManagerInv'
      BY NextPreserves, Zenon
    <3>2. RecoveryTypeOK' /\ QuietInv'
      BY <3>1, Zenon DEF RecoveryTypeOK, ManagerInv, QuietInv, Live,
         vars, managerVars, lockVars, releaseVars, retainVars
    <3>3. MetInv' /\ BootInv'
      BY Zenon DEF MetInv, Met, BootInv, NoHolderFromEarlierBoot, StaleBoot,
         vars, managerVars, lockVars, releaseVars, retainVars, hostVars, storeVars
    <3>4. ASSUME ~ClockMayJump PROVE DurableInv'
      BY <3>4, Zenon DEF DurableInv, Entrusted, Doomed, IsExpired,
         vars, managerVars, lockVars, releaseVars, retainVars, hostVars, storeVars
    <3> QED
      BY <3>1, <3>2, <3>3, <3>4, ZenonT(40)
  <2> QED
    BY <2>1, <2>2, <2>3, <2>4, <2>5, <2>6, <2>7, ZenonT(40) DEF RecoveryNext
<1> QED
  BY <1>1, <1>2, PTL DEF RecoverySpec
-----------------------------------------------------------------------------
(* A nonempty set of naturals has a least element. *)
LEMMA LeastExists ==
  ASSUME NEW T, T \subseteq Nat, T # {}
  PROVE  \E x \in T : \A y \in T : x <= y
<1>1. \A x, y \in Nat : <<x, y>> \in OpToRel(<, Nat) <=> x < y
  BY DEF OpToRel
<1>2. PICK x \in T : \A y \in T : ~ (<<y, x>> \in OpToRel(<, Nat))
  BY NatLessThanWellFounded, WFMin, Zenon
<1>3. x \in Nat /\ T \subseteq Nat
  OBVIOUS
<1>4. \A y \in T : ~(y < x)
  BY <1>1, <1>2, <1>3, Zenon
<1> QED
  BY <1>3, <1>4

(* Among records that are not from the future there is a newest one. *)
LEMMA NewestExists ==
  ASSUME opUpdatedAt \in [Op -> Nat], now \in Nat, NEW S, S \subseteq Op, S # {},
         \A o \in S : opUpdatedAt[o] <= now
  PROVE  NewestOf(S) # {}
<1> DEFINE T == {now - opUpdatedAt[o] : o \in S}
<1>1. T \subseteq Nat /\ T # {}
  OBVIOUS
<1>2. PICK x \in T : \A y \in T : x <= y
  <2> HIDE DEF T
  <2> QED
    BY <1>1, LeastExists, ZenonT(40)
<1>3. PICK o \in S : x = now - opUpdatedAt[o]
  OBVIOUS
<1>4. ASSUME NEW p \in S PROVE opUpdatedAt[p] <= opUpdatedAt[o]
  <2>1. now - opUpdatedAt[p] \in T
    OBVIOUS
  <2>2. now - opUpdatedAt[o] <= now - opUpdatedAt[p]
    BY <1>2, <1>3, <2>1
  <2>3. opUpdatedAt[p] \in Nat /\ opUpdatedAt[o] \in Nat
    OBVIOUS
  <2> QED
    BY <2>2, <2>3
<1> QED
  BY <1>4 DEF NewestOf

(* A read of the directory that finds every file keeps, of any record, it or
   one that is at least as new. *)
LEMMA ReadKeepsNewer ==
  ASSUME "read" \notin Faults, opUpdatedAt \in [Op -> Nat], onDisk \subseteq Op,
         NEW ops \in GetActive, NEW w \in onDisk
  PROVE  \E o \in ops : opUpdatedAt[w] <= opUpdatedAt[o]
<1>0. opUpdatedAt[w] \in Nat
  OBVIOUS
<1>1. ops \in Truncated(onDisk)
  BY DEF GetActive
<1>2. CASE w \in ops
  BY <1>0, <1>2
<1>3. CASE w \notin ops
  <2>1. /\ activeRecordLimit # 0 /\ Cardinality(ops) = activeRecordLimit
        /\ \A o \in ops, p \in onDisk \ ops : opUpdatedAt[p] <= opUpdatedAt[o]
    BY <1>1, <1>3 DEF Truncated
  <2>2. ops # {}
    BY <2>1, FS_EmptySet, Zenon
  <2> QED
    BY <1>3, <2>1, <2>2, ZenonT(40)
<1> QED
  BY <1>2, <1>3

(* Boots follow each other in time: a record of an earlier boot is older than
   this second, and than every record that names this boot. *)
AgeInv ==
  /\ hostBoot # 0
  /\ daemon # "down" => bootID \in {0, hostBoot}
  /\ daemon # "down" /\ "bootid" \notin Faults => bootID # 0
  /\ \A o \in Op : opUpdatedAt[o] <= now
  /\ \A o \in Op : opBootID[o] \notin {0, hostBoot} => opUpdatedAt[o] < now
  /\ \A o, p \in Op : opBootID[p] = hostBoot /\ opBootID[o] \notin {0, hostBoot}
                        => opUpdatedAt[o] < opUpdatedAt[p]
  /\ \A o \in Op : opBootID[o] <= hostBoot
  /\ "bootid" \notin Faults => \A o \in onDisk : opBootID[o] # 0

(* The protected operation is never stamped again. *)
ProtectedInv ==
  protected # None =>
    /\ opRPC[protected] # None
    /\ \A r \in RPC : retainPc[r] = "stamp" => retainOp[r] # protected
    /\ "bootid" \notin Faults => opBootID[protected] # 0

(* While the daemon is down, a record that is at least as new stands for the
   protected operation. *)
GuardInv ==
  protected # None /\ opBootID[protected] # 0 =>
    IF daemon = "down"
      THEN \E w \in onDisk : opUpdatedAt[protected] <= opUpdatedAt[w]
      ELSE activeStateOwner = "LockOwnedByOperation" /\ opUpdatedAt[protected] <= opUpdatedAt[activeStateTx]

RestartInv == AgeInv /\ ProtectedInv /\ GuardInv

(* What a caller of the manager does to the store and the clock. *)
LEMMA CallOnStore ==
  ASSUME ManagerNext
  PROVE  /\ UNCHANGED hostVars
         /\ \/ \E r \in RPC : RetainStamp(r)
            \/ /\ UNCHANGED <<opUpdatedAt, opBootID>>
               /\ onDisk' \subseteq onDisk \/ \E r \in RPC : RetainSave(r)
<1> USE DEF storeVars, hostVars
<1>1. CASE \E r \in RPC : TransactionStep(r)
  BY <1>1, Zenon DEF TransactionStep, CreateTransaction, MarkPreparingDispatch, MarkPendingPublish, Advance,
         MarkInFlight, Complete, Fail, ResponseTimerFires, Timeout, RespondAndRetain
<1>2. CASE \E r \in RPC : RetainStep(r)
  BY <1>2, Zenon DEF RetainStep, RetainStamp, RetainSave, RetainFailed, RetainCommitted, RetainRelease, RetainFinish
<1>3. CASE \E op \in Op : ReleaseOperationLock(op) \/ ReleaseDelete(op)
  BY <1>3, Zenon DEF ReleaseOperationLock, ReleaseDelete, Delete
<1>4. CASE \E k \in Key : CacheExpire(k)
  BY <1>4, Zenon DEF CacheExpire
<1> QED
  BY <1>1, <1>2, <1>3, <1>4, ZenonT(40) DEF ManagerNext

(* A record is stamped with this boot and this second before it is saved. *)
LEMMA AgeCall ==
  ASSUME RecoveryInv, AgeInv, Call
  PROVE  AgeInv'
<1>0. /\ opUpdatedAt \in [Op -> Nat] /\ opBootID \in [Op -> Nat] /\ now \in Nat /\ hostBoot \in Nat
      /\ \A r \in RPC : retainPc[r] # "idle" => retainOp[r] \in Op
      /\ bootID \in {0, hostBoot} /\ ("bootid" \notin Faults => bootID # 0) /\ onDisk \subseteq Op
  BY Zenon DEF RecoveryInv, ManagerInv, TypeOK, StoreTypeOK, RecoveryTypeOK, HandoffInv, Call, AgeInv
<1>1. UNCHANGED <<now, bootID, hostBoot, daemon>>
  BY CallOnStore, Zenon DEF Call, hostVars
<1>2. ASSUME NEW r \in RPC, RetainStamp(r) PROVE AgeInv'
  <2>1. /\ opUpdatedAt' = [opUpdatedAt EXCEPT ![retainOp[r]] = now]
        /\ opBootID' = [opBootID EXCEPT ![retainOp[r]] = bootID]
        /\ onDisk' = onDisk /\ retainOp[r] \in Op
    BY <1>0, <1>2, Zenon DEF RetainStamp
  <2> QED
    BY <1>0, <1>1, <2>1 DEF AgeInv
<1>3. CASE UNCHANGED <<opUpdatedAt, opBootID>> /\ onDisk' \subseteq onDisk
  BY <1>1, <1>3, Zenon DEF AgeInv
<1>4. ASSUME NEW r \in RPC, RetainSave(r), UNCHANGED <<opUpdatedAt, opBootID>> PROVE AgeInv'
  <2>1. onDisk' = onDisk \cup {retainOp[r]} /\ opBootID[retainOp[r]] = bootID
    BY <1>4, Zenon DEF RetainSave, SaveRename, RecoveryInv, BootInv
  <2> QED
    BY <1>0, <1>1, <1>4, <2>1, ZenonT(40) DEF AgeInv
<1> QED
  BY <1>2, <1>3, <1>4, CallOnStore, ZenonT(40) DEF Call

(* The protected operation was met before it was protected, and it is on disk
   at that moment. *)
LEMMA ProtectedFollows ==
  ASSUME RecoveryInv, RecoveryInv', AgeInv', ProtectedInv, ~ClockMayJump, FollowLock,
         \/ ManagerNext
         \/ UNCHANGED <<opRPC, opBootID, retainVars>>
  PROVE  ProtectedInv'
<1> USE StoreConstants DEF RecoveryInv, retainVars
<1>1. CASE activeStateOwner' = "LockOwnedByOperation"
  <2>1. activeStateTx' \in Op /\ protected' = activeStateTx'
    BY <1>1, Zenon DEF FollowLock, ManagerInv, StateLockConsistent
  <2>2. activeStateTx' \in onDisk'
    BY <2>1, Zenon DEF DurableInv, Entrusted
  <2>3. activeStateTx' \in Met'
    BY DEF Met
  <2> QED
    BY <2>1, <2>2, <2>3, Zenon DEF ProtectedInv, MetInv, AgeInv
<1>2. CASE activeStateOwner' # "LockOwnedByOperation" /\ protected' # None
  <2>0. protected' = protected /\ protected \in Op
    BY <1>2, Zenon DEF FollowLock, RecoveryTypeOK
  <2>1. CASE UNCHANGED <<opRPC, opBootID, retainVars>>
    BY <1>2, <2>0, <2>1, ZenonT(40) DEF ProtectedInv
  <2>2. CASE \E r \in RPC, op \in Op : RespondAndRetain(r, op)
    <3>1. PICK r \in RPC, op \in Op : RespondAndRetain(r, op)
      BY <2>2, Zenon
    <3>2. /\ opRPC' = [opRPC EXCEPT ![op] = r] /\ opRPC[op] = None /\ opBootID' = opBootID
          /\ retainPc' = [retainPc EXCEPT ![r] = "stamp"] /\ retainOp' = [retainOp EXCEPT ![r] = op]
      BY <3>1, ZenonT(40) DEF RespondAndRetain
    <3>3. retainPc \in [RPC -> {"idle"} \cup Saving \cup Releasing] /\ retainOp \in [RPC -> Op \cup {None}]
          /\ opRPC \in [Op -> RPC \cup {None}]
      BY Zenon DEF ManagerInv, TypeOK, StoreTypeOK
    <3> QED
      BY <1>2, <2>0, <3>2, <3>3 DEF ProtectedInv
  <2>3. CASE \E r \in RPC : RetainStep(r)
    <3>1. PICK r \in RPC : RetainStep(r)
      BY <2>3, Zenon
    <3>2. /\ opRPC' = opRPC
          /\ \/ opBootID' = opBootID
             \/ RetainStamp(r)
      BY <3>1, Zenon DEF RetainStep, RetainStamp, RetainSave, RetainFailed, RetainCommitted, RetainRelease,
         RetainFinish, storeVars
    <3>3. \A q \in RPC : retainPc'[q] = "stamp" => retainPc[q] = "stamp" /\ retainOp'[q] = retainOp[q]
      <4>1. retainPc \in [RPC -> {"idle"} \cup Saving \cup Releasing] /\ retainOp \in [RPC -> Op \cup {None}]
        BY Zenon DEF ManagerInv, TypeOK
      <4>2. \E pc \in {"idle", "save", "visible", "release", "deleting", "finish"} :
              retainPc' = [retainPc EXCEPT ![r] = pc]
        BY <3>1, Zenon DEF RetainStep, RetainStamp, RetainSave, RetainFailed, RetainCommitted, RetainRelease, RetainFinish
      <4>3. retainOp' = retainOp \/ retainOp' = [retainOp EXCEPT ![r] = None]
        BY <3>1, Zenon DEF RetainStep, RetainStamp, RetainSave, RetainFailed, RetainCommitted, RetainRelease, RetainFinish
      <4> QED
        BY <4>1, <4>2, <4>3, ZenonT(40)
    <3>4. opBootID'[protected] = opBootID[protected]
      <4>1. CASE RetainStamp(r)
        <5>1. retainOp[r] # protected
          BY <1>2, <2>0, <4>1, ZenonT(40) DEF RetainStamp, ProtectedInv
        <5>2. opBootID \in [Op -> Nat] /\ opBootID' = [opBootID EXCEPT ![retainOp[r]] = bootID]
          BY <4>1, ZenonT(40) DEF RetainStamp, ManagerInv, TypeOK, StoreTypeOK
        <5> QED
          BY <2>0, <5>1, <5>2
      <4> QED
        BY <3>2, <4>1, Zenon
    <3> QED
      BY <1>2, <2>0, <3>2, <3>3, <3>4, ZenonT(40) DEF ProtectedInv
  <2>4. CASE /\ ManagerNext
             /\ ~\E r \in RPC, op \in Op : RespondAndRetain(r, op)
             /\ ~\E r \in RPC : RetainStep(r)
    <3>1. UNCHANGED <<opRPC, opBootID, retainVars>>
      BY <2>4, ZenonT(40) DEF ManagerNext, TransactionStep, CreateTransaction, MarkPreparingDispatch, MarkPendingPublish,
         Advance, MarkInFlight, Complete, Fail, ResponseTimerFires, Timeout, ReleaseOperationLock, ReleaseDelete,
         CacheExpire, storeVars
    <3> QED
      BY <2>1, <3>1
  <2> QED
    BY <2>1, <2>2, <2>3, <2>4, ZenonT(40)
<1> QED
  BY <1>1, <1>2, Zenon DEF ProtectedInv

(* The history variable follows the lock while callers and the sweeper run. *)
LEMMA GuardFollows ==
  ASSUME RecoveryInv, ManagerInv', ProtectedInv, GuardInv, daemon = "up", UNCHANGED daemon, FollowLock,
         \/ \E r \in RPC : RetainStamp(r)
         \/ UNCHANGED <<opUpdatedAt, opBootID>>
  PROVE  GuardInv'
<1>1. CASE activeStateOwner' = "LockOwnedByOperation"
  <2>1. activeStateTx' \in Op /\ opUpdatedAt' \in [Op -> Nat] /\ protected' = activeStateTx'
    BY <1>1, ZenonT(40) DEF FollowLock, ManagerInv, StateLockConsistent, TypeOK, StoreTypeOK
  <2>2. opUpdatedAt'[protected'] <= opUpdatedAt'[activeStateTx']
    BY <2>1
  <2> QED
    BY <1>1, <2>2, ZenonT(40) DEF GuardInv
<1>2. CASE activeStateOwner' # "LockOwnedByOperation" /\ protected' # None
  <2>1. activeStateOwner # "LockOwnedByOperation" /\ protected' = protected /\ protected \in Op
    BY <1>2, Zenon DEF FollowLock, RecoveryInv, RecoveryTypeOK
  <2>2. opBootID[protected] = 0
    BY <1>2, <2>1, Zenon DEF GuardInv
  <2>3. opBootID'[protected] = opBootID[protected]
    <3>1. ASSUME NEW r \in RPC, RetainStamp(r) PROVE opBootID'[protected] = opBootID[protected]
      <4>1. retainOp[r] # protected
        BY <1>2, <2>1, <3>1, ZenonT(40) DEF RetainStamp, ProtectedInv
      <4>2. opBootID \in [Op -> Nat] /\ opBootID' = [opBootID EXCEPT ![retainOp[r]] = bootID]
        BY <3>1, ZenonT(40) DEF RetainStamp, RecoveryInv, ManagerInv, TypeOK, StoreTypeOK
      <4> QED
        BY <2>1, <4>1, <4>2, ZenonT(40)
    <3> QED
      BY <3>1, Zenon
  <2> QED
    BY <2>1, <2>2, <2>3, ZenonT(40) DEF GuardInv
<1> QED
  BY <1>1, <1>2, Zenon DEF GuardInv

(* Start finds a record that is at least as new as the protected one.  Unless
   the protection ends, that record is of this boot or the boot is not known,
   and it has not expired; so Start takes the lock for one that is at least as
   new. *)
LEMMA GuardStart ==
  ASSUME RecoveryInv, AgeInv, GuardInv, "read" \notin Faults, Start
  PROVE  GuardInv'
<1>0. /\ opUpdatedAt \in [Op -> Nat] /\ opBootID \in [Op -> Nat] /\ now \in Nat /\ hostBoot \in Nat
      /\ onDisk \subseteq Op /\ protected \in Op \cup {None} /\ daemon = "down"
      /\ UNCHANGED <<opUpdatedAt, opBootID, now, hostBoot>> /\ daemon' = "starting"
  BY Zenon DEF RecoveryInv, ManagerInv, TypeOK, StoreTypeOK, RecoveryTypeOK, Start, storeVars
<1>1. PICK ops \in GetActive, boot \in BootIDs :
        /\ IF Recoverable(ops, boot) = {}
             THEN UNCHANGED lockVars
             ELSE \E o \in Recoverable(ops, boot) :
                    /\ stateLock' = TRUE
                    /\ activeStateTx' = o
                    /\ activeStateOwner' = "LockOwnedByOperation"
        /\ protected' = IF protected # None /\ (StaleBoot(protected, boot) \/ IsExpired(protected, now))
                          THEN None ELSE protected
  BY Zenon DEF Start
<1> SUFFICES ASSUME protected' # None, opBootID'[protected'] # 0
             PROVE  /\ activeStateOwner' = "LockOwnedByOperation"
                    /\ opUpdatedAt'[protected'] <= opUpdatedAt'[activeStateTx']
  BY <1>0, Zenon DEF GuardInv
<1>2. /\ protected \in Op /\ protected' = protected
      /\ ~StaleBoot(protected, boot) /\ ~IsExpired(protected, now)
      /\ boot \in {0, hostBoot} /\ ops \subseteq onDisk
  BY <1>0, <1>1, ReadsAreOnDisk DEF BootIDs
<1>3. PICK w \in onDisk : opUpdatedAt[protected] <= opUpdatedAt[w]
  BY <1>0, <1>2, Zenon DEF GuardInv
<1>4. PICK v \in ops : opUpdatedAt[w] <= opUpdatedAt[v]
  BY <1>0, <1>2, ReadKeepsNewer, ZenonT(40)
<1>5. v \in Op /\ w \in Op /\ protected \in Op
  BY <1>0, <1>2, <1>4
<1>6. ~StaleBoot(v, boot)
  <2>1. CASE boot = 0
    BY <2>1 DEF StaleBoot
  <2>2. CASE boot = hostBoot
    <3>1. opBootID[protected] = hostBoot
      BY <1>0, <1>2, <2>2 DEF StaleBoot, AgeInv
    <3>2. opBootID[v] \in {0, hostBoot}
      BY <1>0, <1>3, <1>4, <1>5, <3>1 DEF AgeInv
    <3> QED
      BY <2>2, <3>2 DEF StaleBoot
  <2> QED
    BY <1>2, <2>1, <2>2
<1>7. ~IsExpired(v, now) /\ opUpdatedAt[protected] <= opUpdatedAt[v]
  BY <1>0, <1>2, <1>3, <1>4, <1>5, RecoveryConstants DEF IsExpired
<1> DEFINE S == {o \in ops : ~StaleBoot(o, boot) /\ ~IsExpired(o, now)}
<1>8. v \in S /\ S \subseteq Op
  BY <1>0, <1>2, <1>6, <1>7, ZenonT(40)
<1>9. NewestOf(S) # {}
  <2>1. \A o \in S : opUpdatedAt[o] <= now
    BY <1>8 DEF AgeInv
  <2> HIDE DEF S
  <2> QED
    BY <1>0, <1>8, <2>1, NewestExists, ZenonT(40)
<1>10. /\ activeStateTx' \in NewestOf(S)
       /\ activeStateOwner' = "LockOwnedByOperation"
  BY <1>1, <1>9, Zenon DEF Recoverable
<1>11. activeStateTx' \in Op /\ opUpdatedAt[v] <= opUpdatedAt[activeStateTx']
  <2> HIDE DEF S
  <2> QED
    BY <1>8, <1>10 DEF NewestOf
<1>12. /\ opUpdatedAt[protected] \in Nat /\ opUpdatedAt[v] \in Nat /\ opUpdatedAt[activeStateTx'] \in Nat
       /\ opUpdatedAt' = opUpdatedAt /\ protected' = protected
  <2> HIDE DEF S
  <2> QED
    BY <1>0, <1>2, <1>5, <1>11, ZenonT(40)
<1>13. opUpdatedAt[protected] <= opUpdatedAt[activeStateTx']
  BY <1>7, <1>11, <1>12
<1> QED
  BY <1>10, <1>12, <1>13, Zenon

(* AgeInv is about the host, the clock and the stamps: a step that changes
   none of them, and adds no record, keeps it. *)
LEMMA AgeUnchanged ==
  ASSUME AgeInv, UNCHANGED <<opUpdatedAt, opBootID, now, bootID, hostBoot>>, onDisk' \subseteq onDisk,
         daemon' # "down" => daemon # "down"
  PROVE  AgeInv'
  BY Zenon DEF AgeInv

(* Neither ProtectedInv nor GuardInv is about more than these variables. *)
LEMMA ProtectedUnchanged ==
  ASSUME ProtectedInv, GuardInv, daemon # "down", daemon' # "down",
         UNCHANGED <<protected, activeStateOwner, activeStateTx, opRPC, opUpdatedAt, opBootID, retainVars>>
  PROVE  ProtectedInv' /\ GuardInv'
  BY Zenon DEF ProtectedInv, GuardInv, retainVars

(* A caller. *)
LEMMA RestartCall ==
  ASSUME RecoveryInv, RecoveryInv', RestartInv, ~ClockMayJump, Call
  PROVE  RestartInv'
<1>1. AgeInv'
  BY AgeCall, Zenon DEF RestartInv
<1>2. ProtectedInv'
  BY <1>1, ProtectedFollows, Zenon DEF RestartInv, Call
<1>3. (\E r \in RPC : RetainStamp(r)) \/ UNCHANGED <<opUpdatedAt, opBootID>>
  BY CallOnStore, Zenon DEF Call
<1>4. GuardInv'
  BY <1>3, GuardFollows, Zenon DEF RestartInv, RecoveryInv, Call
<1> QED
  BY <1>1, <1>2, <1>4, Zenon DEF RestartInv

(* A sweep only deletes records; when it takes the lock from an expired
   operation it ends the protection. *)
LEMMA RestartSweeper ==
  ASSUME RecoveryInv, RecoveryInv', RestartInv, ~ClockMayJump, Sweeper
  PROVE  RestartInv'
<1>1. AgeInv'
  <2>1. /\ UNCHANGED <<opUpdatedAt, opBootID, now, bootID, hostBoot, daemon>>
        /\ onDisk' \subseteq onDisk
    BY Zenon DEF Sweeper, SweepBegin, SweepCheck, SweepDelete, SweepRelease, SweepReleased, Delete,
                 vars, hostVars, storeVars
  <2> QED
    BY <2>1, AgeUnchanged, Zenon DEF RestartInv
<1>2. CASE SweepRelease
  <2>1. /\ daemon = "up" /\ UNCHANGED daemon /\ FollowLock /\ ManagerInv'
        /\ UNCHANGED <<opRPC, opUpdatedAt, opBootID, retainVars>>
    BY <1>2, Zenon DEF SweepRelease, storeVars, RecoveryInv
  <2> QED
    BY <1>1, <2>1, GuardFollows, ProtectedFollows, ZenonT(40) DEF RestartInv
<1>3. CASE SweepBegin \/ (\E op \in Op : SweepCheck(op)) \/ SweepDelete \/ SweepReleased
  <2>1. /\ daemon = "up" /\ daemon' = "up"
        /\ UNCHANGED <<protected, activeStateOwner, activeStateTx, opRPC, opUpdatedAt, opBootID, retainVars>>
    BY <1>3, Zenon DEF SweepBegin, SweepCheck, SweepDelete, SweepReleased, vars, managerVars, lockVars, storeVars
  <2> QED
    BY <1>1, <2>1, ProtectedUnchanged, Zenon DEF RestartInv
<1> QED
  BY <1>2, <1>3, Zenon DEF Sweeper

(* Start reads the boot identifier of the host, if it can, and deletes only
   records. *)
LEMMA RestartStarting ==
  ASSUME RecoveryInv, RestartInv, "read" \notin Faults, Starting
  PROVE  RestartInv'
<1> USE DEF RestartInv
<1>1. CASE Start
  <2>1. /\ UNCHANGED <<opRPC, opUpdatedAt, opBootID, now, hostBoot, onDisk, retainVars>>
        /\ protected' \in {protected, None}
    BY <1>1, ZenonT(40) DEF Start, storeVars
  <2>2. bootID' \in {0, hostBoot} /\ ("bootid" \notin Faults => bootID' = hostBoot)
    BY <1>1 DEF Start, BootIDs
  <2>3. AgeInv'
    BY <2>1, <2>2, Zenon DEF AgeInv
  <2>4. ProtectedInv'
    BY <2>1, Zenon DEF ProtectedInv, retainVars
  <2> QED
    BY <1>1, <2>3, <2>4, GuardStart, ZenonT(40)
<1>2. CASE StartReturns \/ \E op \in Op : StartDeletesStale(op)
  <2>1. /\ UNCHANGED <<protected, activeStateOwner, activeStateTx, opRPC, opUpdatedAt, opBootID, retainVars>>
        /\ UNCHANGED <<now, bootID, hostBoot>>
        /\ onDisk' \subseteq onDisk /\ daemon # "down" /\ daemon' # "down"
    BY <1>2 DEF StartReturns, StartDeletesStale, Delete, vars, managerVars, lockVars, hostVars, storeVars
  <2> QED
    BY <2>1, AgeUnchanged, ProtectedUnchanged, ZenonT(40)
<1> QED
  BY <1>1, <1>2 DEF Starting

(* The record of the holder survives the crash; a reboot takes at least a
   second and ends the protection. *)
LEMMA RestartCrash ==
  ASSUME RecoveryInv, RestartInv, ~ClockMayJump, Crash \/ Reboot
  PROVE  RestartInv'
<1> USE DEF RestartInv
<1>0. /\ opUpdatedAt \in [Op -> Nat] /\ opBootID \in [Op -> Nat] /\ now \in Nat /\ hostBoot \in Nat
      /\ onDisk \subseteq Op
  BY Zenon DEF RecoveryInv, ManagerInv, TypeOK, StoreTypeOK, RecoveryTypeOK
<1>1. /\ daemon # "down" /\ daemon' = "down" /\ UNCHANGED <<bootID, opRPC, opUpdatedAt, opBootID>>
      /\ \A r \in RPC : retainPc'[r] = "idle"
  BY Zenon DEF Crash, Reboot, LoseMemory
<1>2. CASE Crash
  <2>1. UNCHANGED <<onDisk, now, hostBoot, protected>>
    BY <1>2, Zenon DEF Crash
  <2>2. AgeInv'
    BY <1>1, <2>1, AgeUnchanged, ZenonT(40)
  <2>3. ProtectedInv'
    BY <1>1, <2>1 DEF ProtectedInv
  <2>4. ASSUME protected # None, opBootID[protected] # 0
        PROVE  activeStateTx \in onDisk /\ opUpdatedAt[protected] <= opUpdatedAt[activeStateTx]
    <3>1. /\ activeStateOwner = "LockOwnedByOperation"
          /\ opUpdatedAt[protected] <= opUpdatedAt[activeStateTx]
      BY <1>1, <2>4, Zenon DEF GuardInv
    <3>2. activeStateTx \in onDisk
      BY <3>1, HandoffFacts, Zenon DEF RecoveryInv, DurableInv, Entrusted
    <3> QED
      BY <3>1, <3>2, Zenon
  <2>5. GuardInv'
    BY <1>1, <2>1, <2>4, Zenon DEF GuardInv
  <2> QED
    BY <2>2, <2>3, <2>5
<1>3. CASE Reboot
  <2>1. /\ hostBoot' = hostBoot + 1 /\ now' = now + 1 /\ protected' = None
        /\ onDisk' \subseteq onDisk
    BY <1>3 DEF Reboot
  <2>2. AgeInv'
    BY <1>0, <1>1, <2>1 DEF AgeInv
  <2> QED
    BY <2>1, <2>2, Zenon DEF ProtectedInv, GuardInv
<1> QED
  BY <1>2, <1>3, ZenonT(40)

(* The records age, the order of their stamps stays. *)
LEMMA RestartTick ==
  ASSUME RecoveryInv, RestartInv, Tick
  PROVE  RestartInv'
<1> USE DEF RestartInv
<1>0. /\ opUpdatedAt \in [Op -> Nat] /\ now \in Nat
  BY Zenon DEF RecoveryInv, ManagerInv, TypeOK, StoreTypeOK
<1>1. /\ UNCHANGED <<opRPC, opUpdatedAt, opBootID, onDisk, bootID, hostBoot, daemon, protected>>
      /\ UNCHANGED <<activeStateOwner, activeStateTx, retainPc, retainOp>>
      /\ now' = now + 1
  BY Zenon DEF Tick, storeVars, recoveryVars, managerVars, lockVars, retainVars
<1>2. AgeInv'
  BY <1>0, <1>1 DEF AgeInv
<1>3. ProtectedInv' /\ GuardInv'
  BY <1>1, Zenon DEF ProtectedInv, GuardInv
<1> QED
  BY <1>2, <1>3

(* With a readable directory and Saves shorter than the TTL, RestartInv holds
   as well. *)
LEMMA RestartInvariance ==
  RecoverySpec => [](RecoveryInv /\ (~ClockMayJump /\ "read" \notin Faults => RestartInv))
<1>1. RecoveryInit => RestartInv
  <2> SUFFICES ASSUME RecoveryInit PROVE RestartInv
    OBVIOUS
  <2>1. ProtectedInv /\ GuardInv
    BY Zenon DEF RecoveryInit, ProtectedInv, GuardInv
  <2>2. AgeInv
    BY DEF RecoveryInit, Init, StoreInit, AgeInv
  <2> QED
    BY <2>1, <2>2 DEF RestartInv
<1>2. ASSUME RecoveryInv, RecoveryInv', [RecoveryNext]_allVars, RestartInv,
             ~ClockMayJump, "read" \notin Faults
      PROVE  RestartInv'
  <2>1. CASE Call
    BY <1>2, <2>1, RestartCall, Zenon
  <2>2. CASE Sweeper
    BY <1>2, <2>2, RestartSweeper, Zenon
  <2>3. CASE Starting
    BY <1>2, <2>3, RestartStarting, Zenon
  <2>4. CASE Crash \/ Reboot
    BY <1>2, <2>4, RestartCrash, Zenon
  <2>5. CASE Tick
    BY <1>2, <2>5, RestartTick, Zenon
  <2>6. CASE UNCHANGED allVars
    BY <1>2, <2>6, Zenon DEF allVars, vars, managerVars, lockVars, retainVars, hostVars, storeVars, recoveryVars,
       RestartInv, AgeInv, ProtectedInv, GuardInv
  <2> QED
    BY <1>2, <2>1, <2>2, <2>3, <2>4, <2>5, <2>6, ZenonT(40) DEF RecoveryNext
<1>3. RecoverySpec => [](~ClockMayJump /\ "read" \notin Faults => RestartInv)
  <2>1. /\ RecoveryInv /\ RecoveryInv' /\ [RecoveryNext]_allVars
        /\ (~ClockMayJump /\ "read" \notin Faults => RestartInv)
        => (~ClockMayJump /\ "read" \notin Faults => RestartInv)'
    BY <1>2, Zenon
  <2> QED
    BY <1>1, <2>1, RecoveryInvariance, PTL DEF RecoverySpec
<1> QED
  BY <1>3, RecoveryInvariance, PTL

(* The record of the operation that holds the lock is on disk at every moment,
   for any number of crashes and any storage faults, provided that no Save
   outlasts the TTL: a restart can always restore the lock, and neither the
   sweeper nor a slow ReleaseOperationLock deletes the record under it. *)
THEOREM UpgradeRecordDurable == RecoverySpec => [](~ClockMayJump => ActiveOperationDurable)
<1>1. RecoveryInv => (~ClockMayJump => ActiveOperationDurable)
  BY HandoffFacts, Zenon DEF RecoveryInv, DurableInv, Entrusted, ActiveOperationDurable
<1> QED
  BY <1>1, RecoveryInvariance, PTL

(* The lock is never held for an operation of an earlier boot when both boot
   identifiers could be read (Start's comparison, the BootID that
   RespondAndRetain stamps). *)
THEOREM LockIsOfThisBoot == RecoverySpec => []NoHolderFromEarlierBoot
<1>1. RecoveryInv => NoHolderFromEarlierBoot
  BY Zenon DEF RecoveryInv, BootInv
<1> QED
  BY <1>1, RecoveryInvariance, PTL

(* The lock stays consistent with its recorded holder through crashes, restarts
   and the sweeper's forced releases, so no Unlock of an unlocked mutex is ever
   reached from them. *)
THEOREM LockConsistentAcrossRestarts == RecoverySpec => [](RecoveryTypeOK /\ StateLockConsistent)
<1>1. RecoveryInv => RecoveryTypeOK /\ StateLockConsistent
  BY Zenon DEF RecoveryInv, ManagerInv
<1> QED
  BY <1>1, RecoveryInvariance, PTL

(* The record of the protected operation names its boot, where there may be
   records that do not. *)
BootKnown == "bootid" \in Faults /\ protected # None => opBootID[protected] # 0

(* An upgrade that was handed the lock keeps the device locked through any
   number of crashes of the daemon, whatever the store's writes and deletes do
   and however many records it holds, until it is released or reaches its TTL or
   the host reboots; provided that Start can read the directory and no Save
   outlasts the TTL.  Where the boot identifier may be unreadable, this holds of
   the operations whose record names their boot. *)
THEOREM UpgradeSurvivesRestart ==
  RecoverySpec => [](~ClockMayJump /\ "read" \notin Faults /\ BootKnown => UpgradeProtectedAcrossRestart)
<1>1. ASSUME RecoveryInv, RestartInv, BootKnown PROVE UpgradeProtectedAcrossRestart
  <2> SUFFICES ASSUME daemon # "down", protected # None
               PROVE  /\ activeStateOwner = "LockOwnedByOperation"
                      /\ opUpdatedAt[activeStateTx] >= opUpdatedAt[protected]
    BY DEF UpgradeProtectedAcrossRestart
  <2>1. /\ activeStateOwner = "LockOwnedByOperation"
        /\ opUpdatedAt[protected] <= opUpdatedAt[activeStateTx]
    BY <1>1, ZenonT(40) DEF BootKnown, RestartInv, ProtectedInv, GuardInv
  <2>2. opUpdatedAt \in [Op -> Nat] /\ protected \in Op /\ activeStateTx \in Op
    BY <1>1, <2>1, HandoffFacts, ZenonT(40) DEF RecoveryInv, ManagerInv, TypeOK, StoreTypeOK, RecoveryTypeOK
  <2> QED
    BY <2>1, <2>2, ZenonT(40)
<1>2. RecoveryInv /\ (~ClockMayJump /\ "read" \notin Faults => RestartInv)
        => (~ClockMayJump /\ "read" \notin Faults /\ BootKnown => UpgradeProtectedAcrossRestart)
  BY <1>1, Zenon
<1> QED
  BY <1>2, RestartInvariance, PTL
-----------------------------------------------------------------------------
(* What the calls promise about transactions, while processes come and go. *)
PromiseInv == IndexInv /\ InFlightHasDeadline

(* Start, the sweeper and the clock leave the transactions, the indexes and the
   timers alone. *)
LEMMA OnlyCallsMoveTransactions ==
  ASSUME Sweeper \/ Starting \/ Tick
  PROVE  UNCHANGED <<txState, requestVars, indexVars, timerVars, retainVars>>
<1>1. CASE Sweeper
  BY <1>1, Zenon
  DEF Sweeper, SweepBegin, SweepCheck, SweepDelete, SweepRelease, SweepReleased, vars, managerVars
<1>2. CASE Starting
  BY <1>2, Zenon DEF Starting, Start, StartDeletesStale, StartReturns, vars, managerVars
<1>3. CASE Tick
  BY <1>3, Zenon DEF Tick, managerVars
<1> QED
  BY <1>1, <1>2, <1>3, Zenon

(* A crash takes the index, the cache and every live transaction with it, and
   leaves the responses that were already queued. *)
LEMMA MemoryLossKeepsPromises ==
  ASSUME ManagerInv, PromiseInv, LoseMemory
  PROVE  PromiseInv' /\ \A r \in RPC : Wins(r)
<1>1. ASSUME NEW r \in RPC
      PROVE  /\ txState'[r] = IF Live(r) THEN "lost" ELSE txState[r]
             /\ txState'[r] \notin LiveStates
             /\ txState'[r] \in FinalStates <=> txState[r] \in FinalStates
  <2>1. txState'[r] = IF Live(r) THEN "lost" ELSE txState[r]
    BY Zenon DEF LoseMemory
  <2>2. "lost" \notin LiveStates /\ "lost" \notin FinalStates
    BY Zenon DEF LiveStates, PreFlight, FinalStates
  <2>3. Live(r) => txState[r] \notin FinalStates
    BY Zenon DEF Live, LiveStates, PreFlight, FinalStates
  <2> QED
    BY <2>1, <2>2, <2>3, Zenon DEF Live
<1>2. DeduplicationConsistent'
  <2>1. \A k \in Key : activeCloudRequests'[k] = None
    BY Zenon DEF LoseMemory
  <2>2. \A r \in RPC : ~Live(r)'
    BY <1>1, Zenon DEF Live
  <2> QED
    BY <2>1, <2>2, Zenon DEF DeduplicationConsistent
<1>3. ExactlyOneResponse'
  <2>1. UNCHANGED <<txRespond, pushes>>
    BY Zenon DEF LoseMemory, requestVars
  <2> QED
    BY <1>1, <2>1, ZenonT(40) DEF ExactlyOneResponse, PromiseInv, IndexInv
<1>4. InFlightHasDeadline'
  <2>1. "TxInFlight" \in LiveStates
    BY Zenon DEF LiveStates
  <2> QED
    BY <1>1, <2>1, Zenon DEF InFlightHasDeadline
<1>5. \A r \in RPC : Wins(r)
  <2>1. \A r \in RPC : Live(r) => txState[r] \notin FinalStates
    BY Zenon DEF Live, LiveStates, PreFlight, FinalStates
  <2> QED
    BY <1>1, <2>1, Zenon DEF Wins
<1> QED
  BY <1>2, <1>3, <1>4, <1>5, ZenonT(40) DEF PromiseInv, IndexInv

(* Every step keeps the promises. *)
LEMMA PromisesPreserved ==
  ASSUME RecoveryInv, PromiseInv, [RecoveryNext]_allVars
  PROVE  PromiseInv' /\ [\A r \in RPC : Wins(r)]_vars
<1>0. ManagerInv
  BY Zenon DEF RecoveryInv
<1>1. CASE Call
  <2>1. ManagerNext
    BY <1>1, Zenon DEF Call
  <2>2. IndexInv' /\ InFlightHasDeadline'
    BY <1>0, <2>1, IndexPreserves, DeadlinePreserves, ZenonT(40) DEF PromiseInv
  <2> QED
    BY <1>0, <2>1, <2>2, FirstEventStep, Zenon DEF PromiseInv
<1>2. ASSUME UNCHANGED <<txState, requestVars, indexVars, timerVars, retainVars>>
      PROVE  PromiseInv' /\ [\A r \in RPC : Wins(r)]_vars
  <2>1. IndexInv'
    BY <1>2, IndexUnchanged, Zenon DEF PromiseInv
  <2>2. InFlightHasDeadline'
    BY <1>2, Zenon DEF PromiseInv, InFlightHasDeadline, timerVars, retainVars
  <2>3. \A r \in RPC : Wins(r)
    BY <1>2, WinsUnchanged, Zenon
  <2> QED
    BY <2>1, <2>2, <2>3, Zenon DEF PromiseInv
<1>3. CASE Sweeper \/ Starting \/ Tick
  BY <1>2, <1>3, OnlyCallsMoveTransactions, Zenon
<1>4. CASE Crash \/ Reboot
  BY <1>0, <1>4, MemoryLossKeepsPromises, Zenon DEF Crash, Reboot
<1>5. CASE UNCHANGED allVars
  BY <1>2, <1>5, Zenon DEF allVars, vars, managerVars
<1> QED
  BY <1>1, <1>3, <1>4, <1>5, ZenonT(40) DEF RecoveryNext

(* What the manager guarantees its callers survives any number of crashes,
   reboots, restarts and forced releases: a state-changing request holds the
   state lock unless its hand-over is being undone, a request is answered at most once, the duplicate index names exactly the
   live requests, no buffered answer is stranded, every request in flight has a
   deadline, and of two racing events the first decides. *)
THEOREM GuaranteesSurviveRestarts ==
  RecoverySpec => /\ [](/\ StateChangeExclusion /\ ExactlyOneResponse
                        /\ DeduplicationConsistent /\ BufferedReplyHasConsumer
                        /\ InFlightHasDeadline)
                  /\ FirstEventWins
<1>1. RecoveryInit => PromiseInv
  BY InitEstablishesIndex, Zenon
  DEF RecoveryInit, Init, ManagerInit, InFlightHasDeadline, PromiseInv
<1>2. RecoveryInv /\ PromiseInv /\ [RecoveryNext]_allVars =>
        PromiseInv' /\ [\A r \in RPC : Wins(r)]_vars
  BY PromisesPreserved, Zenon
<1>3. RecoveryInv /\ PromiseInv =>
        /\ StateChangeExclusion /\ ExactlyOneResponse /\ DeduplicationConsistent
        /\ BufferedReplyHasConsumer /\ InFlightHasDeadline
  BY Zenon DEF RecoveryInv, ManagerInv, PromiseInv, IndexInv
<1> QED
  BY <1>1, <1>2, <1>3, RecoveryInvariance, PTL DEF RecoverySpec, FirstEventWins, Wins
=============================================================================
