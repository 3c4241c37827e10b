--------------------------- MODULE StateCoalescer ---------------------------
(***************************************************************************)
(* StateCoalescer (pkg/queues/coalescer.go): one slot for the newest state *)
(* report.  A flusher takes a snapshot with Peek, sends it, and then       *)
(* removes it with Commit, while reports keep coming and other flushers do *)
(* the same.  Each method runs under c.mu and is one action; what happens  *)
(* between a flusher's Peek and its Commit is left open, and so is whether *)
(* it commits at all, or more than once.                                   *)
(*                                                                         *)
(* A report is known by its number: the n-th Update brings report n.       *)
(***************************************************************************)
EXTENDS Naturals, Sequences

CONSTANTS
  Flusher,      \* goroutines that flush
  MaxReports    \* bound on the reports

ASSUME CoalescerConstants == MaxReports \in Nat

NoReport   == 0
NoSnapshot == [payload |-> NoReport, generation |-> 0]

VARIABLES
  latestState, stateGeneration, hasState,
  snapshot,     \* what each flusher got from its last Peek
  reports,      \* history: the reports so far
  committed     \* history: the reports that flushers were told to have flushed, in order

coalescerVars == <<latestState, stateGeneration, hasState, snapshot, reports, committed>>

CoalescerInit ==
  /\ latestState = NoReport
  /\ stateGeneration = 0
  /\ hasState = FALSE
  /\ snapshot = [f \in Flusher |-> NoSnapshot]
  /\ reports = 0
  /\ committed = <<>>

Update ==
  /\ reports < MaxReports
  /\ reports' = reports + 1
  /\ latestState' = reports'
  /\ stateGeneration' = stateGeneration + 1
  /\ hasState' = TRUE
  /\ UNCHANGED <<snapshot, committed>>

Peek(f) ==
  /\ hasState
  /\ snapshot' = [snapshot EXCEPT ![f] = [payload |-> latestState, generation |-> stateGeneration]]
  /\ UNCHANGED <<latestState, stateGeneration, hasState, reports, committed>>

(* Faulty variants: any snapshot may be committed; a snapshot may be committed
   twice. *)
CommitsAny(f) ==
  /\ snapshot[f] # NoSnapshot
  /\ IF hasState
       THEN /\ latestState' = NoReport
            /\ hasState' = FALSE
            /\ committed' = Append(committed, snapshot[f].payload)
       ELSE UNCHANGED <<latestState, hasState, committed>>
  /\ UNCHANGED <<stateGeneration, snapshot, reports>>

CommitsTwice(f) ==
  /\ snapshot[f] # NoSnapshot
  /\ IF stateGeneration = snapshot[f].generation
       THEN /\ latestState' = NoReport
            /\ hasState' = FALSE
            /\ committed' = Append(committed, snapshot[f].payload)
       ELSE UNCHANGED <<latestState, hasState, committed>>
  /\ UNCHANGED <<stateGeneration, snapshot, reports>>

(* Commit of the generation the flusher has peeked, which succeeds if nothing
   newer has come and nobody else was faster. *)
Commit(f) ==
  /\ snapshot[f] # NoSnapshot
  /\ IF hasState /\ stateGeneration = snapshot[f].generation
       THEN /\ latestState' = NoReport
            /\ hasState' = FALSE
            /\ committed' = Append(committed, snapshot[f].payload)
       ELSE UNCHANGED <<latestState, hasState, committed>>
  /\ UNCHANGED <<stateGeneration, snapshot, reports>>

CoalescerNext ==
  \/ Update
  \/ \E f \in Flusher : Peek(f) \/ Commit(f)

CoalescerSpec == CoalescerInit /\ [][CoalescerNext]_coalescerVars
-----------------------------------------------------------------------------
(* The newest report is never lost: it is still there for the next Peek, or a
   flusher that held exactly this report was told that its flush succeeded,
   however Updates and the calls of several flushers interleave (Commit's
   comparison of generations). *)
NewestReportKept ==
  reports # 0 =>
    \/ hasState /\ latestState = reports
    \/ \E i \in 1..Len(committed) : committed[i] = reports

(* Of the flushers that hold the same report only one is told that its flush
   succeeded, and successes follow the order of the reports (Commit returns
   false when the state is gone or newer). *)
CommittedInOrder ==
  \A i, j \in 1..Len(committed) : i < j => committed[i] < committed[j]
=============================================================================
