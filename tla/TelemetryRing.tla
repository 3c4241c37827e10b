--------------------------- MODULE TelemetryRing ---------------------------
(***************************************************************************)
(* TelemetryRingBuffer (pkg/queues/buffer.go): a fixed array of slots with *)
(* the indices of its oldest element and of its next free slot, which      *)
(* wrap around, and the number of elements, which tells a full ring from   *)
(* an empty one.  Push and Pop run under b.mu and are one action each.     *)
(***************************************************************************)
EXTENDS Naturals, Sequences

CONSTANTS
  Payload,     \* telemetry payloads
  Nil,         \* an empty slot
  ringCapacity \* number of slots

ASSUME RingConstants ==
  /\ ringCapacity \in Nat \ {0}
  /\ Nil \notin Payload

VARIABLES
  buffer, head, tail, size,
  returned     \* what the last call returned

ringVars == <<buffer, head, tail, size, returned>>

Slots == 0..(ringCapacity - 1)

(* NewTelemetryRingBuffer. *)
RingInit ==
  /\ buffer = [i \in Slots |-> Nil]
  /\ head = 0
  /\ tail = 0
  /\ size = 0
  /\ returned = <<>>

NextSlot(i) == (i + 1) % ringCapacity

(* Faulty variant: the oldest element is overwritten but stays the oldest. *)
RingPushKeepsHead(x) ==
  IF size = ringCapacity
    THEN /\ buffer' = [buffer EXCEPT ![head] = x]
         /\ tail' = NextSlot(tail)
         /\ returned' = <<TRUE>>
         /\ UNCHANGED <<head, size>>
    ELSE /\ buffer' = [buffer EXCEPT ![tail] = x]
         /\ tail' = NextSlot(tail)
         /\ size' = size + 1
         /\ returned' = <<FALSE>>
         /\ UNCHANGED head

(* Faulty variant: a full ring drops the payload that comes in. *)
RingPushDropsNewest(x) ==
  IF size = ringCapacity
    THEN /\ returned' = <<TRUE>>
         /\ UNCHANGED <<buffer, head, tail, size>>
    ELSE /\ buffer' = [buffer EXCEPT ![tail] = x]
         /\ tail' = NextSlot(tail)
         /\ size' = size + 1
         /\ returned' = <<FALSE>>
         /\ UNCHANGED head

RingPush(x) ==
  IF size = ringCapacity
    THEN /\ buffer' = [buffer EXCEPT ![head] = x]
         /\ head' = NextSlot(head)
         /\ tail' = NextSlot(tail)
         /\ returned' = <<TRUE>>
         /\ UNCHANGED size
    ELSE /\ buffer' = [buffer EXCEPT ![tail] = x]
         /\ tail' = NextSlot(tail)
         /\ size' = size + 1
         /\ returned' = <<FALSE>>
         /\ UNCHANGED head

RingPop ==
  IF size = 0
    THEN /\ returned' = <<FALSE>>
         /\ UNCHANGED <<buffer, head, tail, size>>
    ELSE /\ returned' = <<buffer[head], TRUE>>
         /\ buffer' = [buffer EXCEPT ![head] = Nil]
         /\ head' = NextSlot(head)
         /\ size' = size - 1
         /\ UNCHANGED tail

RingNext ==
  \/ \E x \in Payload : RingPush(x)
  \/ RingPop

RingSpec == RingInit /\ [][RingNext]_ringVars
-----------------------------------------------------------------------------
(* The slot of the i-th oldest element. *)
SlotOf(i) == IF head + i - 1 < ringCapacity THEN head + i - 1 ELSE head + i - 1 - ringCapacity

Contents == [i \in 1..size |-> buffer[SlotOf(i)]]

FIFO == INSTANCE DropOldestQueue WITH items <- Contents, capacity <- ringCapacity

(* The ring is a queue that drops its oldest payload when it is full: through
   every wrap-around of its indices Push and Pop return what the queue would,
   and Push says TRUE exactly when a payload was lost (buffer.go Push, Pop). *)
RingIsQueue == FIFO!Spec

(* The indices and the count agree, and the slots outside the queue are empty:
   an element that was handed out is not kept alive by the ring (Pop "avoid
   memory leak"). *)
RingInv ==
  /\ buffer \in [Slots -> Payload \cup {Nil}]
  /\ head \in Slots /\ tail \in Slots
  /\ size \in 0..ringCapacity
  /\ tail = IF head + size < ringCapacity THEN head + size ELSE head + size - ringCapacity
  /\ \A i \in 1..size : buffer[SlotOf(i)] \in Payload
  /\ \A i \in (size + 1)..ringCapacity : buffer[SlotOf(i)] = Nil
=============================================================================
