-------------------------- MODULE DeviceReservation --------------------------
(***************************************************************************)
(* What the request manager promises about the device, without saying how: *)
(* the device is free, reserved by one running request, or reserved by one *)
(* background operation.  An operation gets it only from the request that  *)
(* offered it, in one step and once in its life, so the device is never    *)
(* free, and open to another command, between the two.                     *)
(* RequestManager implements this with a mutex, two fields beside it and a *)
(* hand-over in several critical sections.                                 *)
(***************************************************************************)
CONSTANTS RPC, Op, None

VARIABLES
  phase,   \* "new", "running" or "over" for each request
  holder,  \* who has the device; None if it is free
  offer,   \* the operation a request is preparing to hand the device to
  used     \* the operations that have been offered the device

reservationVars == <<phase, holder, offer, used>>

Init ==
  /\ phase = [r \in RPC |-> "new"]
  /\ holder = None
  /\ offer = [r \in RPC |-> None]
  /\ used = {}

(* A request that leaves the state of the device alone needs no reservation. *)
Begin(r) ==
  /\ UNCHANGED <<holder, used>>
  /\ phase[r] = "new"
  /\ phase' = [phase EXCEPT ![r] = "running"]
  /\ UNCHANGED offer

Reserve(r) ==
  /\ holder = None
  /\ holder' = r
  /\ phase[r] = "new"
  /\ phase' = [phase EXCEPT ![r] = "running"]
  /\ UNCHANGED <<offer, used>>

(* A request ends; the device is free if it was the one to hold it. *)
Finish(r) ==
  /\ holder' = IF holder = r THEN None ELSE holder
  /\ phase[r] = "running"
  /\ phase' = [phase EXCEPT ![r] = "over"]
  /\ offer' = [offer EXCEPT ![r] = None]
  /\ UNCHANGED used

Offer(r, op) ==
  /\ holder = r
  /\ UNCHANGED holder
  /\ op \notin used
  /\ used' = used \cup {op}
  /\ phase[r] = "running"
  /\ offer[r] = None
  /\ offer' = [offer EXCEPT ![r] = op]
  /\ UNCHANGED phase

Withdraw(r) ==
  /\ UNCHANGED <<holder, used>>
  /\ offer[r] # None
  /\ offer' = [offer EXCEPT ![r] = None]
  /\ UNCHANGED phase

(* The request may be over with this step, or still report how it ended. *)
HandOver(r) ==
  /\ holder = r
  /\ phase[r] = "running"
  /\ offer[r] # None
  /\ holder' = offer[r]
  /\ offer' = [offer EXCEPT ![r] = None]
  /\ \E p \in {"running", "over"} : phase' = [phase EXCEPT ![r] = p]
  /\ UNCHANGED used

Release(op) ==
  /\ holder = op
  /\ holder' = None
  /\ UNCHANGED <<phase, offer, used>>

Next ==
  \/ \E r \in RPC : Begin(r) \/ Reserve(r) \/ Finish(r) \/ Withdraw(r) \/ HandOver(r)
  \/ \E r \in RPC, op \in Op : Offer(r, op)
  \/ \E op \in Op : Release(op)

Spec == Init /\ [][Next]_reservationVars
=============================================================================
