-------------------------- MODULE OperationRecovery --------------------------
(***************************************************************************)
(* The life of the request manager across crashes: Start restores the      *)
(* state lock from the operation store, the sweeper reconciles the store   *)
(* with the lock, and the wall clock ages the records                      *)
(* (manager.go Start, sweepOrphanedOperations; main.go's start order).     *)
(*                                                                         *)
(* The sweeper runs concurrently with every method of RequestManager.  It  *)
(* reads the directory and the clock once, then for each record inspects   *)
(* the lock under m.mu and acts on what it saw after releasing m.mu.       *)
(***************************************************************************)
EXTENDS RequestManager

CONSTANTS
  sweeperTTL,     \* maximum age of an operation, in clock units
  MaxTime,        \* bound on the clock
  MaxCrashes,     \* bound on crashes
  ClockMayJump    \* the clock may run past sweeperTTL during one Save

ASSUME RecoveryConstants ==
  /\ sweeperTTL \in Nat
  /\ MaxTime \in Nat
  /\ MaxCrashes \in Nat
  /\ ClockMayJump \in BOOLEAN

VARIABLES
  daemon,        \* "down", "starting" (inside Start) or "up"
  hostBoot,      \* the host's real boot number
  crashes,
  staleBootOps,  \* records Start still has to delete
  sweepPc, sweepLeft, sweepOp, sweepNow,  \* the sweeper goroutine
  protected      \* history: the operation the device was last known to run, until
                 \* it is released, expires before a restart, or the host reboots

sweepVars    == <<sweepPc, sweepLeft, sweepOp, sweepNow>>
recoveryVars == <<daemon, hostBoot, crashes, staleBootOps, sweepVars, protected>>
allVars      == <<vars, recoveryVars>>

RecoveryTypeOK ==
  /\ TypeOK
  /\ daemon \in {"down", "starting", "up"}
  /\ hostBoot \in Nat
  /\ crashes \in Nat
  /\ staleBootOps \subseteq Op
  /\ sweepPc \in {"scan", "delete", "release", "wait"}
  /\ sweepLeft \subseteq Op
  /\ sweepOp \in Op \cup {None}
  /\ sweepNow \in Nat
  /\ protected \in Op \cup {None}

RecoveryInit ==
  /\ Init
  /\ daemon = "down"
  /\ hostBoot = 1
  /\ crashes = 0
  /\ staleBootOps = {}
  /\ sweepPc = "scan"
  /\ sweepLeft = {}
  /\ sweepOp = None
  /\ sweepNow = 0
  /\ protected = None
-----------------------------------------------------------------------------
(* Written under another boot, both identifiers being known. *)
StaleBoot(op, boot) ==
  boot # 0 /\ opBootID[op] # 0 /\ opBootID[op] # boot

IsExpired(op, t) ==
  t - opUpdatedAt[op] > sweeperTTL

(* getSystemBootID, called by NewRequestManager. *)
BootIDs == {hostBoot} \cup (IF "bootid" \in Faults THEN {0} ELSE {})

(* Faulty variants: the boot identifiers are not compared; the expiry test is
   off by one. *)
RecoverableAnyBoot(ops, boot) ==
  NewestOf({o \in ops : ~IsExpired(o, now)})

RecoverableExpiresEarly(ops, boot) ==
  NewestOf({o \in ops : ~StaleBoot(o, boot) /\ ~IsExpired(o, now + 1)})

(* The operations Start may give the lock to: the first, newest first, that is
   neither of another boot nor expired. *)
Recoverable(ops, boot) ==
  NewestOf({o \in ops : ~StaleBoot(o, boot) /\ ~IsExpired(o, now)})

Start ==
  /\ daemon = "down"
  /\ daemon' = "starting"
  /\ \E ops \in GetActive, boot \in BootIDs :
       /\ bootID' = boot
       /\ staleBootOps' = {o \in ops : StaleBoot(o, boot)}
       /\ IF Recoverable(ops, boot) = {}
            THEN UNCHANGED lockVars
            ELSE \E o \in Recoverable(ops, boot) :
                   /\ stateLock' = TRUE
                   /\ activeStateTx' = o
                   /\ activeStateOwner' = "LockOwnedByOperation"
       /\ protected' = IF protected # None /\ (StaleBoot(protected, boot) \/ IsExpired(protected, now))
                         THEN None ELSE protected
  /\ UNCHANGED <<txState, requestVars, handoffInProgress, timerVars, pendingReplies,
                 indexVars, releaseVars, retainVars, now, storeVars,
                 hostBoot, crashes, sweepVars>>

(* The rest of Start: delete the records of earlier boots, then return, which
   lets main launch the sweeper and the callers. *)
StartDeletesStale(op) ==
  /\ daemon = "starting"
  /\ op \in staleBootOps
  /\ staleBootOps' = staleBootOps \ {op}
  /\ Delete(op)
  /\ UNCHANGED <<managerVars, hostVars, opRPC, opUpdatedAt, opBootID,
                 daemon, hostBoot, crashes, sweepVars, protected>>

StartReturns ==
  /\ daemon = "starting"
  /\ staleBootOps = {}
  /\ daemon' = "up"
  /\ UNCHANGED <<vars, hostBoot, crashes, staleBootOps, sweepVars, protected>>

(* The process dies at any point: its memory and goroutines are gone, the
   directory stays. *)
LoseMemory ==
  /\ txState' = [r \in RPC |-> IF Live(r) THEN "lost" ELSE txState[r]]
  /\ handoffInProgress' = [r \in RPC |-> FALSE]
  /\ responseTimer' = [r \in RPC |-> FALSE]
  /\ timeoutCall' = [r \in RPC |-> FALSE]
  /\ pendingReplies' = [r \in RPC |-> None]
  /\ activeCloudRequests' = [k \in Key |-> None]
  /\ cache' = [k \in Key |-> None]
  /\ stateLock' = FALSE
  /\ activeStateTx' = None
  /\ activeStateOwner' = "LockNone"
  /\ releasingOperationID' = None
  /\ deleteCalls' = {}
  /\ retainPc' = [r \in RPC |-> "idle"]
  /\ retainOp' = [r \in RPC |-> None]
  /\ daemon' = "down"
  /\ staleBootOps' = {}
  /\ sweepPc' = "scan"
  /\ sweepLeft' = {}
  /\ sweepOp' = None
  /\ sweepNow' = 0
  /\ UNCHANGED <<requestVars, pushes, bootID, opRPC, opUpdatedAt, opBootID>>

Crash ==
  /\ daemon # "down"
  /\ crashes < MaxCrashes
  /\ crashes' = crashes + 1
  /\ LoseMemory
  /\ UNCHANGED <<onDisk, now, hostBoot, protected>>

(* The host reboots: a rename whose directory sync has not returned may be
   undone.  No boot is over within the second in which the last one ended. *)
Reboot ==
  /\ daemon # "down"
  /\ crashes < MaxCrashes
  /\ now < MaxTime
  /\ now' = now + 1
  /\ crashes' = crashes + 1
  /\ LoseMemory
  /\ \E undone \in SUBSET {retainOp[r] : r \in {q \in RPC : retainPc[q] = "visible"}} :
       onDisk' = onDisk \ undone
  /\ hostBoot' = hostBoot + 1
  /\ protected' = None
-----------------------------------------------------------------------------
SweepBegin ==
  /\ daemon = "up"
  /\ sweepPc = "scan" /\ sweepLeft = {}
  /\ \E ops \in GetActive : ops # {} /\ sweepLeft' = ops
  /\ sweepNow' = now
  /\ UNCHANGED <<vars, daemon, hostBoot, crashes, staleBootOps, sweepPc, sweepOp, protected>>

(* Faulty variants: the hand-over in progress is not looked at; an expired
   operation that holds the lock is left alone; an unexpired orphan is left
   alone. *)
SweepDecisionNoHandoffCheck(op) ==
  IF StaleBoot(op, bootID) THEN "delete"
  ELSE IF IsExpired(op, sweepNow) THEN (IF activeStateTx = op THEN "release" ELSE "delete")
  ELSE IF activeStateTx # op THEN "delete"
  ELSE "scan"

SweepDecisionNoForcedRelease(op) ==
  IF StaleBoot(op, bootID) THEN "delete"
  ELSE IF activeStateTx = op \/ activeStateOwner = "LockTransferPending" THEN "scan"
  ELSE "delete"

SweepDecisionKeepsOrphans(op) ==
  IF StaleBoot(op, bootID) THEN "delete"
  ELSE IF IsExpired(op, sweepNow) /\ activeStateTx = op THEN "release"
  ELSE "scan"

(* What the sweeper decides about a record, from the lock as it is now. *)
SweepDecision(op) ==
  IF StaleBoot(op, bootID) THEN "delete"
  ELSE IF IsExpired(op, sweepNow) THEN (IF activeStateTx = op THEN "release" ELSE "delete")
  ELSE IF activeStateOwner = "LockTransferPending" THEN "scan"
  ELSE IF activeStateTx # op THEN "delete"
  ELSE "scan"

SweepCheck(op) ==
  /\ daemon = "up"
  /\ sweepPc = "scan"
  /\ op \in NewestOf(sweepLeft)
  /\ sweepLeft' = sweepLeft \ {op}
  /\ sweepPc' = SweepDecision(op)
  /\ sweepOp' = IF sweepPc' = "scan" THEN None ELSE op
  /\ UNCHANGED <<vars, daemon, hostBoot, crashes, staleBootOps, sweepNow, protected>>

SweepDelete ==
  /\ daemon = "up"
  /\ sweepPc = "delete"
  /\ sweepPc' = "scan" /\ sweepOp' = None
  /\ Delete(sweepOp)
  /\ UNCHANGED <<managerVars, hostVars, opRPC, opUpdatedAt, opBootID,
                 daemon, hostBoot, crashes, staleBootOps, sweepLeft, sweepNow, protected>>

(* The history variable follows the lock: an operation that is handed the lock
   is protected until ReleaseOperationLock takes the lock away again. *)
FollowLock ==
  protected' = IF activeStateOwner' = "LockOwnedByOperation" THEN activeStateTx'
               ELSE IF activeStateOwner = "LockOwnedByOperation" THEN None
               ELSE protected

SweepRelease ==
  /\ daemon = "up"
  /\ sweepPc = "release"
  /\ IF CanRelease(sweepOp)
       THEN BeginRelease(sweepOp) /\ sweepPc' = "wait" /\ UNCHANGED sweepOp
       ELSE UNCHANGED <<lockVars, releaseVars>> /\ sweepPc' = "scan" /\ sweepOp' = None
  /\ FollowLock
  /\ UNCHANGED <<txState, requestVars, handoffInProgress, timerVars, pendingReplies,
                 indexVars, retainVars, hostVars, storeVars,
                 daemon, hostBoot, crashes, staleBootOps, sweepLeft, sweepNow>>

SweepReleased ==
  /\ daemon = "up"
  /\ sweepPc = "wait"
  /\ sweepOp \notin deleteCalls
  /\ sweepPc' = "scan" /\ sweepOp' = None
  /\ UNCHANGED <<vars, daemon, hostBoot, crashes, staleBootOps, sweepLeft, sweepNow, protected>>

(* The wall clock.  Unless ClockMayJump, no Save takes longer than the TTL (its
   context allows five seconds, the TTL is minutes or hours). *)
Tick ==
  /\ now < MaxTime
  /\ ClockMayJump \/ \A r \in RPC : retainPc[r] \in {"save", "visible"} => ~IsExpired(retainOp[r], now + 1)
  /\ now' = now + 1
  /\ UNCHANGED <<managerVars, bootID, storeVars, recoveryVars>>

Call ==
  /\ daemon = "up"
  /\ ManagerNext
  /\ FollowLock
  /\ UNCHANGED <<daemon, hostBoot, crashes, staleBootOps, sweepVars>>

Sweeper ==
  \/ SweepBegin
  \/ \E op \in Op : SweepCheck(op)
  \/ SweepDelete
  \/ SweepRelease
  \/ SweepReleased

Starting ==
  \/ Start
  \/ \E op \in Op : StartDeletesStale(op)
  \/ StartReturns

RecoveryNext ==
  \/ Call
  \/ Sweeper
  \/ Starting
  \/ Crash
  \/ Reboot
  \/ Tick

(* Goroutines that are running, and the clock, get their turn: the sweeper's
   ticker fires every minute, Start returns, and a RespondAndRetain or
   ReleaseOperationLock call in progress continues.  Nothing obliges a caller
   to start a new call. *)
RetainCall(r) ==
  /\ daemon = "up"
  /\ RetainStep(r)
  /\ FollowLock
  /\ UNCHANGED <<daemon, hostBoot, crashes, staleBootOps, sweepVars>>

DeleteCall(op) ==
  /\ daemon = "up"
  /\ ReleaseDelete(op)
  /\ FollowLock
  /\ UNCHANGED <<daemon, hostBoot, crashes, staleBootOps, sweepVars>>

Fairness ==
  /\ WF_allVars(Sweeper)
  /\ WF_allVars(Starting)
  /\ WF_allVars(Tick)
  /\ \A r \in RPC : WF_allVars(RetainCall(r))
  /\ \A op \in Op : WF_allVars(DeleteCall(op))

RecoverySpec == RecoveryInit /\ [][RecoveryNext]_allVars

FairRecoverySpec == RecoverySpec /\ Fairness
-----------------------------------------------------------------------------
(* While a background operation holds the state lock its record is on disk, so
   a crash at any moment can restore the lock and the sweeper can find the
   operation to expire it: neither the sweeper's stale decisions, nor a slow
   ReleaseOperationLock, nor Start's clean-up ever deletes the record of the
   operation that holds, or is about to hold, the lock. *)
ActiveOperationDurable ==
  activeStateOwner = "LockOwnedByOperation" => activeStateTx \in onDisk

(* An operation that was handed the lock keeps the device locked through any
   number of crashes of the daemon, until it is released or reaches its TTL or
   the host reboots.  After a restart the lock may be in the name of another
   record of the same second or later (Start takes the newest), which holds it
   at least as long. *)
UpgradeProtectedAcrossRestart ==
  daemon # "down" /\ protected # None =>
    /\ activeStateOwner = "LockOwnedByOperation"
    /\ opUpdatedAt[activeStateTx] >= opUpdatedAt[protected]

(* The lock is never held for an operation of an earlier boot when both boots
   are known: after the reboot that ends an upgrade the device accepts
   commands again at once (Start, REQ-011). *)
NoHolderFromEarlierBoot ==
  activeStateOwner = "LockOwnedByOperation" => ~StaleBoot(activeStateTx, bootID)

(* The clock of the model still reaches the expiry of the operation. *)
WillExpire(op) == opUpdatedAt[op] + sweeperTTL < MaxTime

(* The device is never locked for good: an operation that holds the lock loses
   it once its TTL has passed, through any crash and restart (the sweeper's
   forced release, Start's expiry check). *)
LockEventuallyReleased ==
  \A op \in Op : activeStateTx = op /\ WillExpire(op) ~> activeStateTx # op

(* A record that does not hold the lock, left by a failed Save, a crash or an
   earlier boot, is eventually removed, unless a restart gives it the lock. *)
OrphanReconciled ==
  \A op \in Op : op \in onDisk /\ activeStateTx # op ~> op \notin onDisk \/ activeStateTx = op
=============================================================================
