---------------------------- MODULE Backpressure ----------------------------
(***************************************************************************)
(* CommandResultQueue (pkg/queues/results.go) watched by a                 *)
(* HysteresisMonitor (pkg/queues/hysteresis.go).  The monitor reads the    *)
(* utilization under its own mutex and the queue's, but decides when the   *)
(* queue's has been released: pushes and pops may come between.            *)
(*                                                                         *)
(* A utilization n/queueCapacity is compared with a threshold by comparing *)
(* 100 * n with percent * queueCapacity.                                   *)
(***************************************************************************)
EXTENDS Integers, Sequences

CONSTANTS
  ResultPayload,
  queueCapacity,
  upperPercent, lowerPercent

(* The arguments that NewCommandResultQueue and NewHysteresisMonitor accept. *)
ASSUME BackpressureConstants ==
  /\ queueCapacity \in Nat \ {0}
  /\ upperPercent \in 0..100 /\ lowerPercent \in 0..100
  /\ lowerPercent < upperPercent

VARIABLES
  results,      \* the queue's items, oldest first
  isThrottled,
  sampled,      \* length seen by the IsThrottled call in progress; -1 if there is none
  flippedAt     \* history: length seen by the call that changed isThrottled last

backpressureVars == <<results, isThrottled, sampled, flippedAt>>

BackpressureInit ==
  /\ results = <<>>
  /\ isThrottled = FALSE
  /\ sampled = -1
  /\ flippedAt = 0

(* Push; it returns ErrQueueFull otherwise. *)
ResultPush(x) ==
  /\ Len(results) < queueCapacity
  /\ results' = Append(results, x)
  /\ UNCHANGED <<isThrottled, sampled, flippedAt>>

ResultPop ==
  /\ results # <<>>
  /\ results' = Tail(results)
  /\ UNCHANGED <<isThrottled, sampled, flippedAt>>

(* IsThrottled reads Utilization() ... *)
ReadUtilization ==
  /\ sampled = -1
  /\ sampled' = Len(results)
  /\ UNCHANGED <<results, isThrottled, flippedAt>>

AtOrBelow(n, percent) == 100 * n <= percent * queueCapacity
AtOrAbove(n, percent) == 100 * n >= percent * queueCapacity

(* Faulty variant: one threshold for both directions. *)
DecideNoBand ==
  /\ sampled # -1
  /\ isThrottled' = AtOrAbove(sampled, upperPercent)
  /\ flippedAt' = IF isThrottled' # isThrottled THEN sampled ELSE flippedAt
  /\ sampled' = -1
  /\ UNCHANGED results

(* ... and applies the threshold of the direction it may flip to. *)
Decide ==
  /\ sampled # -1
  /\ isThrottled' = IF isThrottled
                      THEN ~AtOrBelow(sampled, lowerPercent)
                      ELSE AtOrAbove(sampled, upperPercent)
  /\ flippedAt' = IF isThrottled' # isThrottled THEN sampled ELSE flippedAt
  /\ sampled' = -1
  /\ UNCHANGED results

BackpressureNext ==
  \/ \E x \in ResultPayload : ResultPush(x)
  \/ ResultPop
  \/ ReadUtilization
  \/ Decide

BackpressureSpec == BackpressureInit /\ [][BackpressureNext]_backpressureVars
-----------------------------------------------------------------------------
(* The queue never holds more than its capacity, and neither does what a caller
   of IsThrottled saw of it (CommandResultQueue, HysteresisMonitor). *)
BackpressureTypeOK ==
  /\ results \in Seq(ResultPayload)
  /\ Len(results) <= queueCapacity
  /\ isThrottled \in BOOLEAN
  /\ sampled \in -1..queueCapacity
  /\ flippedAt \in 0..queueCapacity

(* The monitor does not flap: the queue lengths that two successive changes of
   isThrottled rest on are the whole band between the thresholds apart, in the
   direction of the change, although each was out of date when it was used
   (IsThrottled "flipping only when thresholds are crossed"). *)
FlipsAcrossBand ==
  [][isThrottled' # isThrottled =>
       LET crossed == IF isThrottled' THEN sampled - flippedAt ELSE flippedAt - sampled
           band    == (upperPercent - lowerPercent) * queueCapacity
       IN  100 * crossed >= band]_backpressureVars
=============================================================================
