------------------------------ MODULE MCQueues ------------------------------
(* The queue types of pkg/queues side by side.  They share no state, so one of
   them, the subject, is explored in each behaviour and the others stay in
   their initial states.  The scheduler has one producer of each priority;
   messages of one priority are indistinguishable here. *)
EXTENDS PriorityScheduler, TelemetryRing, StateCoalescer, Backpressure

CONSTANT MaxP0  \* bound: priority-0 messages since the last lower one

OnePerPriority == [priority : 0..3]

VARIABLE subject

schedulerOnly    == <<ringVars, coalescerVars, backpressureVars, subject>>
ringOnly         == <<schedulerVars, coalescerVars, backpressureVars, subject>>
coalescerOnly    == <<schedulerVars, ringVars, backpressureVars, subject>>
backpressureOnly == <<schedulerVars, ringVars, coalescerVars, subject>>

QueuesInit ==
  /\ subject \in {"scheduler", "ring", "coalescer", "backpressure"}
  /\ SchedulerInit
  /\ RingInit
  /\ CoalescerInit
  /\ BackpressureInit

BoundedPush ==
  \E m \in Message :
    /\ m.priority = 0 => consecutiveP0 + Len(queues[0]) < MaxP0
    /\ Push(m)

BoundedSchedulerNext ==
  \/ BoundedPush
  \/ \E p \in Priority : Dequeue(p)
  \/ Poll

QueuesNext ==
  \/ subject = "scheduler" /\ BoundedSchedulerNext /\ UNCHANGED schedulerOnly
  \/ subject = "ring" /\ RingNext /\ UNCHANGED ringOnly
  \/ subject = "coalescer" /\ CoalescerNext /\ UNCHANGED coalescerOnly
  \/ subject = "backpressure" /\ BackpressureNext /\ UNCHANGED backpressureOnly

(* The bounded queues never hold more than their capacities, and everything has
   its type (NewPriorityScheduler, NewCommandResultQueue). *)
QueuesTypeOK == SchedulerTypeOK /\ BackpressureTypeOK

QueuesSpec ==
  QueuesInit /\ [][QueuesNext]_<<schedulerVars, ringVars, coalescerVars, backpressureVars, subject>>
=============================================================================
