------------------------- MODULE PriorityScheduler -------------------------
(***************************************************************************)
(* The outbound scheduler (pkg/queues/scheduler.go): one bounded queue per *)
(* priority, priority 0 first, and after a burst of priority-0 messages    *)
(* one message of a lower priority, taken from the three lower queues in   *)
(* rotation.  Push and tryDequeue run under s.mu and are one action each;  *)
(* Next is a tryDequeue that finds a message.                              *)
(***************************************************************************)
EXTENDS Integers, Sequences

CONSTANTS
  Message,        \* outbound messages; m.priority is their priority
  capacity,       \* bound of the queues of priority 1, 2 and 3
  emergencyCap,   \* bound of the priority-0 queue
  BurstLimit      \* consecutive priority-0 messages before a yield (10 in the code)

Lower    == 1..3
Priority == 0..3

ASSUME SchedulerConstants ==
  /\ \A m \in Message : m.priority \in Priority
  /\ capacity \in Nat \ {0}
  /\ emergencyCap \in Nat \ {0}
  /\ BurstLimit \in Nat \ {0}

VARIABLES
  queues,         \* priority -> messages, oldest first
  consecutiveP0,
  lastYield,
  bypassed,       \* history: priority-0 messages dequeued in a row past a waiting lower one
  passedOver      \* history: yields to other queues since this one had messages waiting

queueVars     == <<queues, consecutiveP0, lastYield>>
schedulerVars == <<queueVars, bypassed, passedOver>>

Cap(p) == IF p = 0 THEN emergencyCap ELSE capacity

SchedulerTypeOK ==
  /\ queues \in [Priority -> Seq(Message)]
  /\ \A p \in Priority : \A i \in 1..Len(queues[p]) : queues[p][i].priority = p
  /\ \A p \in Priority : Len(queues[p]) <= Cap(p)
  /\ consecutiveP0 \in Nat
  /\ lastYield \in Priority
  /\ bypassed \in Nat
  /\ passedOver \in [Lower -> Nat]

SchedulerInit ==
  /\ queues = [p \in Priority |-> <<>>]
  /\ consecutiveP0 = 0
  /\ lastYield = 0
  /\ bypassed = 0
  /\ passedOver = [p \in Lower |-> 0]
-----------------------------------------------------------------------------
(* Faulty variant: off by one. *)
isFullOffByOne(p) == Len(queues[p]) > Cap(p)

isFull(p) == Len(queues[p]) >= Cap(p)

Push(m) ==
  /\ ~isFull(m.priority)
  /\ queues' = [queues EXCEPT ![m.priority] = Append(@, m)]
  /\ UNCHANGED <<consecutiveP0, lastYield, bypassed, passedOver>>

Waiting(p)   == queues[p] # <<>>
LowerWaiting == \E p \in Lower : Waiting(p)

(* The queue that the round-robin loop tries at its i-th iteration. *)
RoundRobin(i) == ((lastYield + i - 1) % 3) + 1

(* Faulty variant: the rotation starts over at priority 1. *)
YieldIterationFromFirst(p) == Waiting(p) /\ \A q \in 1..(p - 1) : ~Waiting(q)

(* p is the first queue the loop finds a message in. *)
YieldIteration(p) ==
  \E i \in Lower : p = RoundRobin(i) /\ Waiting(p) /\ \A j \in 1..(i - 1) : ~Waiting(RoundRobin(j))

MustYield == consecutiveP0 >= BurstLimit /\ LowerWaiting

Pop(p) == queues' = [queues EXCEPT ![p] = Tail(@)]

(* The anti-starvation branch of tryDequeue. *)
Yield(p) ==
  /\ MustYield
  /\ YieldIteration(p)
  /\ Pop(p)
  /\ lastYield' = p
  /\ consecutiveP0' = 0
  /\ bypassed' = 0
  /\ passedOver' = [q \in Lower |-> IF q = p \/ ~Waiting(q) THEN 0 ELSE passedOver[q] + 1]

(* Faulty variant: any dequeue ends the burst. *)
SelectResets(p) ==
  /\ ~MustYield
  /\ Waiting(p) /\ \A q \in 0..(p - 1) : ~Waiting(q)
  /\ Pop(p)
  /\ consecutiveP0' = 0
  /\ bypassed' = IF p = 0 /\ LowerWaiting THEN bypassed + 1 ELSE 0
  /\ passedOver' = [q \in Lower |-> IF q = p \/ ~Waiting(q) THEN 0 ELSE passedOver[q]]
  /\ UNCHANGED lastYield

(* A round-robin loop that finds nothing goes once around: lastYield is what
   it was, or 3 if it was 0. *)
LoopedAround == IF consecutiveP0 >= BurstLimit /\ lastYield = 0 THEN 3 ELSE lastYield

(* The normal selection: the most urgent queue with a message. *)
Select(p) ==
  /\ ~MustYield
  /\ Waiting(p) /\ \A q \in 0..(p - 1) : ~Waiting(q)
  /\ Pop(p)
  /\ lastYield' = LoopedAround
  /\ consecutiveP0' = IF p = 0 THEN consecutiveP0 + 1 ELSE 0
  /\ bypassed' = IF p = 0 /\ LowerWaiting THEN bypassed + 1 ELSE 0
  /\ passedOver' = [q \in Lower |-> IF q = p \/ ~Waiting(q) THEN 0 ELSE passedOver[q]]

(* A tryDequeue that finds nothing, before Next waits. *)
Poll ==
  /\ \A p \in Priority : ~Waiting(p)
  /\ lastYield' = LoopedAround
  /\ UNCHANGED <<queues, consecutiveP0, bypassed, passedOver>>

Dequeue(p) == (p \in Lower /\ Yield(p)) \/ Select(p)

SchedulerNext ==
  \/ \E m \in Message : Push(m)
  \/ \E p \in Priority : Dequeue(p)
  \/ Poll

SchedulerSpec == SchedulerInit /\ [][SchedulerNext]_schedulerVars
-----------------------------------------------------------------------------
(* REQ-014: while a message of a lower priority waits, at most BurstLimit
   priority-0 messages are dequeued before a lower one is.  The counter is
   shared by all queues and outlives idle periods, so this is a matter of all
   three dequeue paths and of when the lower message arrived. *)
BurstBounded == bypassed <= BurstLimit

(* The forced yields rotate: a lower queue with messages is passed over by at
   most two yields in a row, although the rotation skips empty queues and
   normal selections come in between (tryDequeue, lastYield). *)
YieldRotates == \A p \in Lower : passedOver[p] <= 2
=============================================================================
