-------------------------- MODULE DropOldestQueue --------------------------
(***************************************************************************)
(* What a telemetry buffer promises (REQ-015): a queue of bounded length   *)
(* that gives back payloads in the order they came and, when it is full,   *)
(* makes room by dropping the oldest one and says so.                      *)
(***************************************************************************)
EXTENDS Naturals, Sequences

CONSTANTS
  Payload,
  capacity

VARIABLES
  items,     \* what is in the queue, oldest first
  returned   \* what the last call returned

fifoVars == <<items, returned>>

Init ==
  /\ items = <<>>
  /\ returned = <<>>

Push(x) ==
  /\ Len(items) < capacity
  /\ items' = Append(items, x)
  /\ returned' = <<FALSE>>

PushDropping(x) ==
  /\ Len(items) = capacity
  /\ items' = Append(Tail(items), x)
  /\ returned' = <<TRUE>>

Pop ==
  /\ items # <<>>
  /\ items' = Tail(items)
  /\ returned' = <<Head(items), TRUE>>

PopEmpty ==
  /\ items = <<>>
  /\ returned' = <<FALSE>>
  /\ UNCHANGED items

Next ==
  \/ \E x \in Payload : Push(x) \/ PushDropping(x)
  \/ Pop
  \/ PopEmpty

Spec == Init /\ [][Next]_fifoVars
=============================================================================
