------------------------------ MODULE WSProofs ------------------------------
(***************************************************************************)
(* Proofs about the WebSocket client and the scheduler it empties, for any *)
(* number of sessions, messages and capacities: a response is written only *)
(* on its own session, a response is dropped only when its session is      *)
(* over, and a message of lower priority is lost only if a pump outlives   *)
(* its session.                                                            *)
(***************************************************************************)
EXTENDS WSClient, TLAPS

(* Steps of the scheduler keep the queues within their capacities, and each
   message in the queue of its priority. *)
Queued(m) == \E i \in 1..Len(queues[m.priority]) : queues[m.priority][i] = m

LEMMA PushKeepsTypes ==
  ASSUME SchedulerTypeOK, NEW m \in Message, Push(m)
  PROVE  /\ SchedulerTypeOK'
         /\ Queued(m)'
         /\ \A x \in Message : Queued(x) => Queued(x)'
         /\ \A i \in 1..Len(queues'[0]) :
              \/ i \in 1..Len(queues[0]) /\ queues'[0][i] = queues[0][i]
              \/ m.priority = 0 /\ queues'[0][i] = m
<1> DEFINE p == m.priority
<1>1. p \in Priority
  BY SchedulerConstants
<1>2. /\ queues' = [queues EXCEPT ![p] = Append(queues[p], m)]
      /\ Len(queues[p]) < Cap(p)
      /\ UNCHANGED <<consecutiveP0, lastYield, bypassed, passedOver>>
  <2>1. Len(queues[p]) \in Nat /\ Cap(p) \in Nat
    BY <1>1, SchedulerConstants DEF SchedulerTypeOK, Cap
  <2> QED
    BY <2>1 DEF Push, isFull
<1>3. /\ queues[p] \in Seq(Message)
      /\ Append(queues[p], m) \in Seq(Message)
      /\ Len(Append(queues[p], m)) = Len(queues[p]) + 1
      /\ Len(queues[p]) \in Nat
      /\ \A i \in 1..Len(queues[p]) : Append(queues[p], m)[i] = queues[p][i]
      /\ Append(queues[p], m)[Len(queues[p]) + 1] = m
  BY <1>1 DEF SchedulerTypeOK
<1>4. queues' \in [Priority -> Seq(Message)] /\ queues'[p] = Append(queues[p], m)
  BY <1>1, <1>2, <1>3 DEF SchedulerTypeOK
<1>5. \A q \in Priority : q # p => queues'[q] = queues[q]
  BY <1>2 DEF SchedulerTypeOK
<1>6. \A q \in Priority : Len(queues'[q]) <= Cap(q)
  <2>1. Len(queues'[p]) <= Cap(p)
    BY <1>1, <1>2, <1>3, <1>4, SchedulerConstants DEF Cap
  <2> QED
    BY <1>5, <2>1, Zenon DEF SchedulerTypeOK
<1>7. \A i \in 1..Len(queues'[p]) : i \in 1..Len(queues[p]) \/ i = Len(queues[p]) + 1
  BY <1>3, <1>4
<1>8. \A q \in Priority : \A i \in 1..Len(queues'[q]) : queues'[q][i].priority = q
  <2>1. \A i \in 1..Len(queues'[p]) : queues'[p][i].priority = p
    BY <1>1, <1>3, <1>4, <1>7 DEF SchedulerTypeOK
  <2> QED
    BY <1>5, <2>1 DEF SchedulerTypeOK
<1>9. SchedulerTypeOK'
  BY <1>2, <1>4, <1>6, <1>8 DEF SchedulerTypeOK
<1>10. Queued(m)'
  <2>1. Len(queues[p]) + 1 \in 1..Len(queues'[p])
    BY <1>3, <1>4
  <2> QED
    BY <1>3, <1>4, <2>1 DEF Queued
<1>11. ASSUME NEW x \in Message, Queued(x) PROVE Queued(x)'
  <2>1. PICK i \in 1..Len(queues[x.priority]) : queues[x.priority][i] = x
    BY <1>11 DEF Queued
  <2>2. CASE x.priority = p
    <3>1. i \in 1..Len(queues'[p]) /\ queues'[p][i] = x
      BY <1>3, <1>4, <2>1, <2>2
    <3> QED
      BY <2>2, <3>1 DEF Queued
  <2>3. CASE x.priority # p
    BY <1>5, <1>11, <2>3, SchedulerConstants DEF Queued
  <2> QED
    BY <2>2, <2>3
<1>12. \A i \in 1..Len(queues'[0]) :
         \/ i \in 1..Len(queues[0]) /\ queues'[0][i] = queues[0][i]
         \/ m.priority = 0 /\ queues'[0][i] = m
  <2>1. CASE p = 0
    BY <1>3, <1>4, <1>7, <2>1
  <2>2. CASE p # 0
    BY <1>5, <2>2 DEF Priority
  <2> QED
    BY <2>1, <2>2
<1> QED
  BY <1>9, <1>10, <1>11, <1>12

LEMMA DequeueKeepsTypes ==
  ASSUME SchedulerTypeOK, NEW p \in Priority, Dequeue(p)
  PROVE  /\ SchedulerTypeOK'
         /\ Head(queues[p]) \in Message
         /\ Head(queues[p]).priority = p
         /\ p = 0 => 1 \in 1..Len(queues[0]) /\ Head(queues[0]) = queues[0][1]
         /\ \A x \in Message : Queued(x) => Queued(x)' \/ x = Head(queues[p])
         /\ \A i \in 1..Len(queues'[0]) :
              \E j \in 1..Len(queues[0]) : queues'[0][i] = queues[0][j]
<1>1. /\ queues' = [queues EXCEPT ![p] = Tail(queues[p])]
      /\ queues[p] # <<>>
  BY DEF Dequeue, Yield, YieldIteration, Select, Pop, Waiting
<1>2. /\ queues[p] \in Seq(Message)
      /\ Len(queues[p]) \in Nat /\ Len(queues[p]) > 0
      /\ Head(queues[p]) \in Message
      /\ Head(queues[p]) = queues[p][1]
      /\ Tail(queues[p]) \in Seq(Message)
      /\ Len(Tail(queues[p])) = Len(queues[p]) - 1
      /\ \A i \in 1..Len(Tail(queues[p])) : Tail(queues[p])[i] = queues[p][i + 1]
  BY <1>1 DEF SchedulerTypeOK
<1>3. queues' \in [Priority -> Seq(Message)] /\ queues'[p] = Tail(queues[p])
  BY <1>1, <1>2 DEF SchedulerTypeOK
<1>4. \A q \in Priority : q # p => queues'[q] = queues[q]
  BY <1>1 DEF SchedulerTypeOK
<1>5. \A i \in 1..Len(queues'[p]) : i + 1 \in 1..Len(queues[p]) /\ queues'[p][i] = queues[p][i + 1]
  BY <1>2, <1>3
<1>6. \A q \in Priority : \A i \in 1..Len(queues'[q]) : queues'[q][i].priority = q
  <2>1. \A j \in 1..Len(queues[p]) : queues[p][j].priority = p
    BY DEF SchedulerTypeOK
  <2>2. \A i \in 1..Len(queues'[p]) : queues'[p][i].priority = p
    BY <1>5, <2>1
  <2> QED
    BY <1>4, <2>2, ZenonT(40) DEF SchedulerTypeOK
<1>7. \A q \in Priority : Len(queues'[q]) <= Cap(q)
  <2>1. Len(queues'[p]) <= Cap(p)
    BY <1>2, <1>3, SchedulerConstants DEF SchedulerTypeOK, Cap
  <2> QED
    BY <1>4, <2>1 DEF SchedulerTypeOK
<1>8. /\ consecutiveP0' \in Nat /\ lastYield' \in Priority /\ bypassed' \in Nat
      /\ passedOver' \in [Lower -> Nat]
  <2>1. CASE p \in Lower /\ Yield(p)
    BY <2>1 DEF Yield, SchedulerTypeOK
  <2>2. CASE Select(p)
    <3>1. LoopedAround \in Priority
      BY DEF LoopedAround, SchedulerTypeOK, Priority
    <3> QED
      BY <2>2, <3>1 DEF Select, SchedulerTypeOK
  <2> QED
    BY <2>1, <2>2 DEF Dequeue
<1>9. SchedulerTypeOK'
  BY <1>3, <1>6, <1>7, <1>8 DEF SchedulerTypeOK
<1>10. Head(queues[p]).priority = p
  BY <1>2 DEF SchedulerTypeOK
<1>11. ASSUME NEW x \in Message, Queued(x), x # Head(queues[p]) PROVE Queued(x)'
  <2>1. PICK i \in 1..Len(queues[x.priority]) : queues[x.priority][i] = x
    BY <1>11 DEF Queued
  <2>2. CASE x.priority = p
    <3>1. i # 1 /\ i \in Nat /\ i >= 1 /\ i <= Len(queues[p])
      BY <1>2, <1>11, <2>1, <2>2
    <3>2. i - 1 \in 1..Len(Tail(queues[p]))
      BY <1>2, <3>1
    <3>3. Tail(queues[p])[i - 1] = queues[p][i]
      BY <1>2, <3>1, <3>2
    <3> QED
      BY <1>3, <2>1, <2>2, <3>2, <3>3, ZenonT(40) DEF Queued
  <2>3. CASE x.priority # p
    BY <1>4, <1>11, <2>3, SchedulerConstants DEF Queued
  <2> QED
    BY <2>2, <2>3
<1>12. \A i \in 1..Len(queues'[0]) : \E j \in 1..Len(queues[0]) : queues'[0][i] = queues[0][j]
  <2>1. CASE p = 0
    BY <1>5, <2>1
  <2>2. CASE p # 0
    BY <1>4, <2>2 DEF Priority
  <2> QED
    BY <2>1, <2>2
<1> QED
  BY <1>2, <1>9, <1>10, <1>11, <1>12

(* A tryDequeue that finds nothing changes no queue. *)
LEMMA PollKeepsTypes ==
  ASSUME SchedulerTypeOK, Poll
  PROVE  SchedulerTypeOK'
<1>1. LoopedAround \in Priority
  BY DEF LoopedAround, SchedulerTypeOK, Priority
<1> QED
  BY <1>1 DEF SchedulerTypeOK, Poll

(* The queues are empty and within their capacities at the start. *)
LEMMA SchedulerInitTypes == SchedulerInit => SchedulerTypeOK
<1> SUFFICES ASSUME SchedulerInit PROVE SchedulerTypeOK
  OBVIOUS
<1>1. queues \in [Priority -> Seq(Message)] /\ \A p \in Priority : queues[p] = <<>>
  BY DEF SchedulerInit
<1>2. \A p \in Priority : Len(queues[p]) = 0
  BY <1>1
<1>3. \A p \in Priority : \A i \in 1..Len(queues[p]) : queues[p][i].priority = p
  BY <1>2
<1>4. \A p \in Priority : Len(queues[p]) <= Cap(p)
  BY <1>2, SchedulerConstants DEF Cap
<1> QED
  BY <1>1, <1>3, <1>4 DEF SchedulerInit, SchedulerTypeOK, Priority
-----------------------------------------------------------------------------
(* What the goroutines of the client know of each other.  Reader and writer run
   only in a session, and a session whose reader or writer is gone is
   cancelled; a pump that was started is the current session's or sees a
   cancelled context, and none of a session in its handshake was. *)
SessionInv ==
  /\ loopPc # "session" => readerPc = "off" /\ writerPc = "off"
  /\ loopPc \in {"handshake", "session"} => generation \in Sessions
  /\ loopPc = "handshake" => pumpPc[generation] = "none"
  /\ loopPc = "session" /\ (readerPc = "off" \/ writerPc = "off") => generation \in cancelled
  /\ \A g \in Sessions : pumpPc[g] # "none" =>
       g <= generation /\ (g \in cancelled \/ (g = generation /\ loopPc = "session"))

(* Who holds a message, and whose responses: a queued response is of a session
   that has been up, the one a pump holds is of its own session or of one that
   is over, the one being written of the current session. *)
CarrierInv ==
  /\ \A g \in Sessions : pumpMsg[g] # None <=> pumpPc[g] \in Offering
  /\ writerMsg # None <=> writerPc = "writing"
  /\ \A i \in 1..Len(queues[0]) : pumpPc[queues[0][i].session] # "none"
  /\ \A g \in Sessions : pumpMsg[g] # None /\ pumpMsg[g].priority = 0 =>
       pumpMsg[g].session = g \/ pumpMsg[g].session \in cancelled
  /\ writerMsg # None /\ writerMsg.priority = 0 => writerMsg.session = generation

Active(g) == pumpPc[g] \notin {"none", "exited"}

(* When pumps do not outlive their session there is one message in transit:
   only one pump runs, it waits while the writer writes, and a message in the
   slot means that none is in the hands of a pump or the writer. *)
SlotInv ==
  /\ \A g, h \in Sessions : Active(g) /\ Active(h) => g = h
  /\ loopPc = "session" => \A g \in Sessions : Active(g) => g = generation
  /\ writerPc = "writing" => pumpPc[generation] \in {"awaitAck", "exited"}
  /\ pendingMsg # None =>
       /\ writerPc # "writing"
       /\ \A g \in Sessions : pumpPc[g] \notin Offering
       /\ \A g \in Sessions : pumpPc[g] \in {"next", "awaitAck"} => g \in cancelled

WSInv ==
  /\ WSTypeOK
  /\ SessionInv
  /\ CarrierInv
  /\ ResponseOnOwnSession
  /\ OnlyStaleResponsesDropped
  /\ ~PumpsOutlive => SlotInv /\ LowerPriorityRetained

(* Facts on the constants, in the form the steps below use. *)
LEMMA MessageFacts ==
  /\ \A m \in Message : m.priority \in Priority /\ m # None
  /\ \A m \in Message : m.priority = 0 => m.session \in Sessions
  BY SchedulerConstants, ClientConstants

(* Every step keeps the types (WSTypeOK). *)
LEMMA WSTypesPreserved ==
  ASSUME WSTypeOK, SessionInv, CarrierInv, WSNext
  PROVE  WSTypeOK'
<1> USE DEF Offering
<1>1. ASSUME NEW m \in Message, Produce(m) PROVE WSTypeOK'
  BY <1>1, PushKeepsTypes DEF WSTypeOK, Produce, loopVars, writerVars, pumpVars
<1>2. CASE Dial
  BY <1>2, ClientConstants
  DEF WSTypeOK, SchedulerTypeOK, Dial, LoopGoes, schedulerVars, queueVars, writerVars, pumpVars
<1>3. CASE HandshakeAccepted
  BY <1>3, ZenonT(40)
  DEF WSTypeOK, SchedulerTypeOK, HandshakeAccepted, LoopGoes, schedulerVars, queueVars
<1>4. CASE HandshakeFails \/ EndSession \/ WaitForRetry
  BY <1>4
  DEF WSTypeOK, SchedulerTypeOK, HandshakeFails, EndSession, WaitForRetry, LoopGoes,
      schedulerVars, queueVars, writerVars, pumpVars
<1>5. CASE ReaderReturns
  BY <1>5
  DEF WSTypeOK, SchedulerTypeOK, ReaderReturns, schedulerVars, queueVars, loopVars, writerVars,
      pumpVars
<1>6. CASE WriterReturns
  BY <1>6
  DEF WSTypeOK, SchedulerTypeOK, WriterReturns, WriterStops, schedulerVars, queueVars, loopVars,
      pumpVars
<1>7. CASE WriterReceives
  <2>1. generation \in Sessions
    BY <1>7 DEF SessionInv, WriterReceives
  <2> QED
    BY <1>7, <2>1
    DEF WSTypeOK, SchedulerTypeOK, WriterReceives, schedulerVars, queueVars, loopVars, writerVars
<1>8. ASSUME writerPc = "writing" PROVE <<writerMsg, generation>> \in Message \X Sessions
  BY <1>8 DEF WSTypeOK, SessionInv, CarrierInv
<1>9. CASE WriteSucceeds
  BY <1>8, <1>9
  DEF WSTypeOK, SchedulerTypeOK, WriteSucceeds, schedulerVars, queueVars, loopVars, pumpVars
<1>10. CASE WriteFails
  BY <1>8, <1>10
  DEF WSTypeOK, SchedulerTypeOK, WriteFails, WriterStops, Retain, schedulerVars, queueVars,
      loopVars, pumpVars
<1>11. CASE Acknowledge
  BY <1>11, ZenonT(40)
  DEF WSTypeOK, SchedulerTypeOK, Acknowledge, schedulerVars, queueVars, loopVars
<1>12. ASSUME NEW g \in Sessions, PumpDrain(g) PROVE WSTypeOK'
  BY <1>12
  DEF WSTypeOK, SchedulerTypeOK, PumpDrain, schedulerVars, queueVars, loopVars, writerVars
<1>13. ASSUME NEW g \in Sessions, PumpNext(g) PROVE WSTypeOK'
  BY <1>13, DequeueKeepsTypes DEF WSTypeOK, PumpNext, loopVars, writerVars
<1>14. ASSUME NEW g \in Sessions, PumpPolls(g) PROVE WSTypeOK'
  BY <1>14, PollKeepsTypes
  DEF WSTypeOK, PumpPolls, clientVars, loopVars, writerVars, pumpVars
<1>15. ASSUME NEW g \in Sessions, PumpExits(g) PROVE WSTypeOK'
  <2>1. pumpPc[g] \in Offering => pumpMsg[g] \in Message
    BY DEF WSTypeOK, CarrierInv
  <2> QED
    BY <1>15, <2>1
    DEF WSTypeOK, SchedulerTypeOK, PumpExits, Retain, schedulerVars, queueVars, loopVars, writerVars
<1> QED
  BY <1>1, <1>2, <1>3, <1>4, <1>5, <1>6, <1>7, <1>9, <1>10, <1>11, <1>12, <1>13, <1>14, <1>15
  DEF WSNext, Loop, Writer, Pump

(* Every step keeps what the goroutines know of each other (SessionInv). *)
LEMMA SessionPreserved ==
  ASSUME WSTypeOK, SessionInv, WSNext
  PROVE  SessionInv'
<1> USE DEF Offering
<1>1. ASSUME NEW m \in Message, Produce(m) PROVE SessionInv'
  BY <1>1 DEF SessionInv, Produce, loopVars, writerVars, pumpVars
<1>2. CASE Dial
  BY <1>2, ClientConstants DEF WSTypeOK, SessionInv, Dial, LoopGoes, writerVars, pumpVars, Sessions
<1>3. CASE HandshakeAccepted
  BY <1>3, ClientConstants
  DEF WSTypeOK, SessionInv, HandshakeAccepted, LoopGoes, Sessions
<1>4. CASE HandshakeFails \/ EndSession \/ WaitForRetry
  BY <1>4
  DEF WSTypeOK, SessionInv, HandshakeFails, EndSession, WaitForRetry, LoopGoes, writerVars, pumpVars
<1>5. CASE ReaderReturns
  BY <1>5 DEF SessionInv, ReaderReturns, loopVars, writerVars, pumpVars
<1>6. CASE WriterReturns
  BY <1>6 DEF SessionInv, WriterReturns, WriterStops, loopVars, pumpVars
<1>7. CASE WriterReceives
  BY <1>7 DEF WSTypeOK, SessionInv, WriterReceives, loopVars, writerVars
<1>9. CASE WriteSucceeds
  BY <1>9 DEF SessionInv, WriteSucceeds, loopVars, pumpVars
<1>10. CASE WriteFails
  BY <1>10 DEF SessionInv, WriteFails, WriterStops, loopVars, pumpVars
<1>11. CASE Acknowledge
  BY <1>11 DEF WSTypeOK, SessionInv, Acknowledge, loopVars
<1>12. ASSUME NEW g \in Sessions, PumpDrain(g) PROVE SessionInv'
  BY <1>12 DEF WSTypeOK, SessionInv, PumpDrain, loopVars, writerVars
<1>13. ASSUME NEW g \in Sessions, PumpNext(g) PROVE SessionInv'
  BY <1>13 DEF WSTypeOK, SessionInv, PumpNext, loopVars, writerVars
<1>14. ASSUME NEW g \in Sessions, PumpPolls(g) PROVE SessionInv'
  BY <1>14 DEF SessionInv, PumpPolls, clientVars, loopVars, writerVars, pumpVars
<1>15. ASSUME NEW g \in Sessions, PumpExits(g) PROVE SessionInv'
  BY <1>15 DEF WSTypeOK, SessionInv, PumpExits, loopVars, writerVars
<1> QED
  BY <1>1, <1>2, <1>3, <1>4, <1>5, <1>6, <1>7, <1>9, <1>10, <1>11, <1>12, <1>13, <1>14, <1>15
  DEF WSNext, Loop, Writer, Pump

(* Every step keeps the account of who holds which response (CarrierInv). *)
LEMMA CarrierPreserved ==
  ASSUME WSTypeOK, SessionInv, CarrierInv, WSNext
  PROVE  CarrierInv'
<1> USE DEF Offering
<1>0. /\ 0 \in Priority
      /\ queues[0] \in Seq(Message)
      /\ \A i \in 1..Len(queues[0]) : queues[0][i] \in Message /\ queues[0][i].session \in Sessions
  <2>1. 0 \in Priority /\ queues[0] \in Seq(Message)
    BY DEF WSTypeOK, SchedulerTypeOK, Priority
  <2>2. \A i \in 1..Len(queues[0]) : queues[0][i] \in Message /\ queues[0][i].priority = 0
    BY <2>1 DEF WSTypeOK, SchedulerTypeOK
  <2> QED
    BY <2>1, <2>2, MessageFacts
<1>a. ASSUME UNCHANGED schedulerVars,
             \A g \in Sessions : pumpPc[g] # "none" => pumpPc'[g] # "none"
      PROVE  \A i \in 1..Len(queues'[0]) : pumpPc'[queues'[0][i].session] # "none"
  BY <1>0, <1>a DEF CarrierInv, schedulerVars, queueVars
<1>1. ASSUME NEW m \in Message, Produce(m) PROVE CarrierInv'
  <2>1. UNCHANGED <<loopVars, cancelled, readerPc, writerVars, pumpVars, pendingMsg, written>>
    BY <1>1 DEF Produce
  <2>2. \A i \in 1..Len(queues'[0]) : pumpPc'[queues'[0][i].session] # "none"
    <3>1. \A i \in 1..Len(queues'[0]) :
            \/ i \in 1..Len(queues[0]) /\ queues'[0][i] = queues[0][i]
            \/ m.priority = 0 /\ queues'[0][i] = m
      BY <1>1, PushKeepsTypes DEF Produce, WSTypeOK
    <3>2. m.priority = 0 => pumpPc[m.session] # "none"
      BY <1>1 DEF Produce
    <3> QED
      BY <2>1, <3>1, <3>2, Zenon DEF CarrierInv, pumpVars
  <2> QED
    BY <2>1, <2>2 DEF CarrierInv, loopVars, writerVars, pumpVars
<1>2. CASE Dial \/ HandshakeFails \/ EndSession \/ WaitForRetry
  <2>1. /\ UNCHANGED <<schedulerVars, cancelled, readerPc, writerVars, pumpVars>>
        /\ writerPc = "off"
    BY <1>2
    DEF Dial, HandshakeFails, EndSession, WaitForRetry, LoopGoes, SessionInv, writerVars
  <2>2. \A i \in 1..Len(queues'[0]) : pumpPc'[queues'[0][i].session] # "none"
    BY <2>1, <1>a DEF pumpVars
  <2> QED
    BY <2>1, <2>2 DEF CarrierInv, writerVars, pumpVars
<1>3. CASE HandshakeAccepted
  <2>1. \A i \in 1..Len(queues'[0]) : pumpPc'[queues'[0][i].session] # "none"
    BY <1>3, <1>a DEF HandshakeAccepted, LoopGoes, WSTypeOK
  <2>2. generation \in Sessions /\ pumpPc[generation] \notin Offering
    BY <1>3, Zenon DEF HandshakeAccepted, SessionInv
  <2> QED
    BY <1>3, <2>1, <2>2 DEF CarrierInv, WSTypeOK, HandshakeAccepted, LoopGoes, SessionInv
<1>5. CASE ReaderReturns
  <2>1. \A i \in 1..Len(queues'[0]) : pumpPc'[queues'[0][i].session] # "none"
    BY <1>5, <1>a DEF ReaderReturns, pumpVars
  <2> QED
    BY <1>5, <2>1 DEF CarrierInv, ReaderReturns, loopVars, writerVars, pumpVars
<1>6. CASE WriterReturns
  <2>1. \A i \in 1..Len(queues'[0]) : pumpPc'[queues'[0][i].session] # "none"
    BY <1>6, <1>a DEF WriterReturns, pumpVars
  <2> QED
    BY <1>6, <2>1 DEF CarrierInv, WriterReturns, WriterStops, loopVars, pumpVars
<1>7. CASE WriterReceives
  <2>1. \A i \in 1..Len(queues'[0]) : pumpPc'[queues'[0][i].session] # "none"
    BY <1>7, <1>a DEF WriterReceives, WSTypeOK
  <2>2. generation \in Sessions
    BY <1>7 DEF WriterReceives, SessionInv
  <2> QED
    BY <1>7, <2>1, <2>2 DEF CarrierInv, WSTypeOK, WriterReceives, Stale, loopVars, writerVars
<1>9. CASE WriteSucceeds
  <2>1. \A i \in 1..Len(queues'[0]) : pumpPc'[queues'[0][i].session] # "none"
    BY <1>9, <1>a DEF WriteSucceeds, pumpVars
  <2> QED
    BY <1>9, <2>1 DEF CarrierInv, WriteSucceeds, loopVars, pumpVars
<1>10. CASE WriteFails
  <2>1. \A i \in 1..Len(queues'[0]) : pumpPc'[queues'[0][i].session] # "none"
    BY <1>10, <1>a DEF WriteFails, pumpVars
  <2> QED
    BY <1>10, <2>1 DEF CarrierInv, WriteFails, WriterStops, loopVars, pumpVars
<1>11. CASE Acknowledge
  <2>1. \A i \in 1..Len(queues'[0]) : pumpPc'[queues'[0][i].session] # "none"
    BY <1>11, <1>a DEF Acknowledge, WSTypeOK
  <2> QED
    BY <1>11, <2>1, Zenon DEF CarrierInv, WSTypeOK, Acknowledge, loopVars
<1>12. ASSUME NEW g \in Sessions, PumpDrain(g) PROVE CarrierInv'
  <2>1. \A i \in 1..Len(queues'[0]) : pumpPc'[queues'[0][i].session] # "none"
    BY <1>12, <1>a DEF PumpDrain, WSTypeOK
  <2> QED
    BY <1>12, <2>1, MessageFacts DEF CarrierInv, WSTypeOK, PumpDrain, loopVars, writerVars
<1>13. ASSUME NEW g \in Sessions, PumpNext(g) PROVE CarrierInv'
  <2>1. PICK p \in Priority : Dequeue(p) /\ pumpMsg' = [pumpMsg EXCEPT ![g] = Head(queues[p])]
    BY <1>13, ZenonT(40) DEF PumpNext
  <2> DEFINE m == Head(queues[p])
  <2>2. /\ m \in Message /\ m # None /\ m.priority = p
        /\ p = 0 => pumpPc[m.session] # "none" /\ m.session \in Sessions
        /\ \A i \in 1..Len(queues'[0]) :
             \E j \in 1..Len(queues[0]) : queues'[0][i] = queues[0][j]
    BY <2>1, <1>0, DequeueKeepsTypes, MessageFacts DEF WSTypeOK, CarrierInv
  <2> HIDE DEF m
  <2>3. /\ pumpPc' = [pumpPc EXCEPT ![g] = "offer"] /\ pumpMsg' = [pumpMsg EXCEPT ![g] = m]
        /\ g \notin cancelled /\ pumpPc[g] = "next"
        /\ UNCHANGED <<loopVars, cancelled, readerPc, writerVars, pendingMsg, pushed, written>>
    BY <1>13, <2>1, ZenonT(40) DEF PumpNext, m
  <2>4. p = 0 => m.session = g \/ m.session \in cancelled
    BY <2>2, <2>3 DEF SessionInv
  <2>5. \A i \in 1..Len(queues'[0]) : pumpPc'[queues'[0][i].session] # "none"
    BY <1>0, <2>2, <2>3, ZenonT(40) DEF CarrierInv, WSTypeOK
  <2> QED
    BY <2>2, <2>3, <2>4, <2>5 DEF CarrierInv, WSTypeOK, loopVars, writerVars
<1>14. ASSUME NEW g \in Sessions, PumpPolls(g) PROVE CarrierInv'
  BY <1>14 DEF CarrierInv, PumpPolls, Poll, clientVars, loopVars, writerVars, pumpVars
<1>15. ASSUME NEW g \in Sessions, PumpExits(g) PROVE CarrierInv'
  <2>1. \A i \in 1..Len(queues'[0]) : pumpPc'[queues'[0][i].session] # "none"
    BY <1>15, <1>a DEF PumpExits, WSTypeOK
  <2> QED
    BY <1>15, <2>1 DEF CarrierInv, WSTypeOK, PumpExits, loopVars, writerVars
<1> QED
  BY <1>1, <1>2, <1>3, <1>5, <1>6, <1>7, <1>9, <1>10, <1>11, <1>12, <1>13, <1>14, <1>15
  DEF WSNext, Loop, Writer, Pump

(* Every step keeps at most one message in transit if pumps do not outlive
   their session (SlotInv). *)
LEMMA SlotPreserved ==
  ASSUME WSTypeOK, SessionInv, CarrierInv, ~PumpsOutlive, SlotInv, WSNext
  PROVE  SlotInv'
<1> USE DEF Offering, Active
<1>1. ASSUME NEW m \in Message, Produce(m) PROVE SlotInv'
  BY <1>1 DEF SlotInv, Produce, loopVars, writerVars, pumpVars
<1>2. CASE Dial \/ HandshakeFails \/ EndSession \/ WaitForRetry
  BY <1>2
  DEF SlotInv, SessionInv, Dial, HandshakeFails, EndSession, WaitForRetry, LoopGoes, writerVars,
      pumpVars
<1>3. CASE HandshakeAccepted
  <2>1. generation \in Sessions /\ \A g \in Sessions : g # generation => ~Active(g)
    BY <1>3 DEF HandshakeAccepted, SessionInv, WSTypeOK, Sessions
  <2> QED
    BY <1>3, <2>1 DEF SlotInv, WSTypeOK, HandshakeAccepted, LoopGoes
<1>5. CASE ReaderReturns
  BY <1>5 DEF SlotInv, ReaderReturns, loopVars, writerVars, pumpVars
<1>6. CASE WriterReturns
  BY <1>6 DEF SlotInv, WriterReturns, WriterStops, loopVars, pumpVars
<1>7. CASE WriterReceives
  <2>1. generation \in Sessions
    BY <1>7 DEF WriterReceives, SessionInv
  <2> QED
    BY <1>7, <2>1 DEF SlotInv, WSTypeOK, WriterReceives, loopVars, writerVars
<1>9. CASE WriteSucceeds
  BY <1>9 DEF SlotInv, WriteSucceeds, loopVars, pumpVars
<1>10. CASE WriteFails
  <2>1. loopPc = "session" /\ generation \in Sessions
    BY <1>10 DEF WriteFails, SessionInv
  <2> QED
    BY <1>10, <2>1 DEF SlotInv, WSTypeOK, WriteFails, WriterStops, Retain, loopVars, pumpVars
<1>11. CASE Acknowledge
  <2>1. generation \in Sessions
    BY <1>11 DEF Acknowledge, SessionInv
  <2> QED
    BY <1>11, <2>1 DEF SlotInv, WSTypeOK, Acknowledge, loopVars
<1>12. ASSUME NEW g \in Sessions, PumpDrain(g) PROVE SlotInv'
  BY <1>12 DEF SlotInv, SessionInv, WSTypeOK, PumpDrain, loopVars, writerVars
<1>13. ASSUME NEW g \in Sessions, PumpNext(g) PROVE SlotInv'
  BY <1>13 DEF SlotInv, SessionInv, WSTypeOK, PumpNext, loopVars, writerVars
<1>14. ASSUME NEW g \in Sessions, PumpPolls(g) PROVE SlotInv'
  BY <1>14 DEF SlotInv, PumpPolls, clientVars, loopVars, writerVars, pumpVars
<1>15. ASSUME NEW g \in Sessions, PumpExits(g) PROVE SlotInv'
  <2>1. pumpPc[g] \in Offering => writerPc # "writing"
    BY <1>15 DEF SlotInv, SessionInv
  <2>2. \A h \in Sessions : h # g => ~Active(h)
    BY <1>15 DEF SlotInv, PumpExits
  <2> QED
    BY <1>15, <2>1, <2>2 DEF SlotInv, SessionInv, WSTypeOK, PumpExits, Retain, loopVars, writerVars
<1> QED
  BY <1>1, <1>2, <1>3, <1>5, <1>6, <1>7, <1>9, <1>10, <1>11, <1>12, <1>13, <1>14, <1>15
  DEF WSNext, Loop, Writer, Pump

Kept(m) == InHand(m) \/ Delivered(m)

(* The only ways a step can lose a message: a response whose session is over,
   or a message of lower priority that finds the slot taken. *)
LEMMA MessagesKept ==
  ASSUME WSTypeOK, SessionInv, CarrierInv, WSNext, NEW m \in Message, Kept(m)
  PROVE  \/ Kept(m)'
         \/ m.priority = 0 /\ m.session \in cancelled'
         \/ /\ m.priority # 0 /\ pendingMsg # None
            /\ writerPc = "writing" \/ \E g \in Sessions : pumpPc[g] \in Offering
<1> DEFINE carried == (\E g \in Sessions : pumpMsg[g] = m) \/ m \in {writerMsg, pendingMsg}
<1>0. /\ m # None
      /\ Kept(m) <=> Queued(m) \/ carried \/ Delivered(m)
      /\ Kept(m)' <=> Queued(m)' \/ carried' \/ Delivered(m)'
  BY MessageFacts DEF Kept, InHand, Queued
<1>1. UNCHANGED schedulerVars /\ Queued(m) => Queued(m)'
  BY DEF schedulerVars, queueVars, Queued
<1>2. written \subseteq written' /\ Delivered(m) => Delivered(m)'
  BY DEF Delivered
<1> HIDE DEF carried
<1>3. ASSUME NEW x \in Message, Produce(x) PROVE Kept(m)'
  <2>1. Queued(m) => Queued(m)'
    BY <1>3, PushKeepsTypes DEF Produce, WSTypeOK
  <2> QED
    BY <1>0, <1>2, <1>3, <2>1 DEF carried, Produce, loopVars, writerVars, pumpVars
<1>4. CASE Loop \/ ReaderReturns
  <2>1. UNCHANGED <<schedulerVars, pumpMsg, writerMsg, pendingMsg, written>>
    BY <1>4, Zenon
    DEF Loop, Dial, HandshakeAccepted, HandshakeFails, EndSession, WaitForRetry, LoopGoes,
        ReaderReturns, writerVars, pumpVars
  <2> QED
    BY <1>0, <1>1, <1>2, <2>1 DEF carried
<1>6. CASE WriterReturns \/ Acknowledge
  <2>1. UNCHANGED <<schedulerVars, pumpMsg, pendingMsg, written>> /\ writerMsg = None
    BY <1>6, Zenon DEF WriterReturns, Acknowledge, pumpVars, CarrierInv
  <2> QED
    BY <1>0, <1>1, <1>2, <2>1, Zenon DEF carried
<1>7. CASE WriterReceives
  <2>1. generation \in Sessions /\ UNCHANGED <<schedulerVars, pendingMsg, written, cancelled>>
    BY <1>7 DEF WriterReceives, SessionInv
  <2>2. writerMsg = None
    BY <1>7 DEF WriterReceives, CarrierInv
  <2>3. CASE m # pumpMsg[generation]
    <3>1. carried => carried'
      BY <1>0, <1>7, <2>1, <2>2, <2>3, Zenon DEF carried, WriterReceives, WSTypeOK
    <3> QED
      BY <1>0, <1>1, <1>2, <2>1, <3>1, Zenon
  <2>4. CASE m = pumpMsg[generation] /\ ~Stale(m)
    BY <1>0, <1>7, <2>4, Zenon DEF carried, WriterReceives
  <2>5. CASE m = pumpMsg[generation] /\ Stale(m)
    BY <1>0, <2>1, <2>5, ZenonT(40) DEF CarrierInv, Stale
  <2> QED
    BY <2>3, <2>4, <2>5
<1>9. CASE WriteSucceeds
  <2>1. UNCHANGED <<schedulerVars, pumpMsg, pendingMsg>> /\ generation \in Sessions
    BY <1>9 DEF WriteSucceeds, pumpVars, SessionInv
  <2>2. written \subseteq written' /\ <<writerMsg, generation>> \in written'
    BY <1>9 DEF WriteSucceeds
  <2>3. m = writerMsg => Delivered(m)'
    BY <2>1, <2>2 DEF Delivered
  <2> QED
    BY <1>0, <1>1, <1>2, <2>1, <2>2, <2>3 DEF carried
<1>10. CASE WriteFails
  <2>1. UNCHANGED <<schedulerVars, pumpMsg>> /\ written \subseteq written'
    BY <1>10 DEF WriteFails, pumpVars
  <2>2. generation \in cancelled' /\ Retain(writerMsg) /\ writerPc = "writing"
    BY <1>10 DEF WriteFails, WriterStops
  <2>3. CASE m # writerMsg
    <3>1. carried => carried'
      BY <1>0, <2>1, <2>2, <2>3, Zenon DEF carried, Retain
    <3> QED
      BY <1>0, <1>1, <1>2, <2>1, <3>1
  <2>4. CASE m = writerMsg /\ m.priority = 0
    BY <1>0, <2>2, <2>4, ZenonT(40) DEF CarrierInv
  <2>5. CASE m = writerMsg /\ m.priority # 0
    BY <1>0, <2>2, <2>5 DEF carried, Retain
  <2> QED
    BY <2>3, <2>4, <2>5
<1>12. ASSUME NEW g \in Sessions, PumpDrain(g) PROVE Kept(m)'
  <2>1. UNCHANGED <<schedulerVars, writerMsg, written>> /\ pumpMsg[g] = None
    BY <1>12 DEF PumpDrain, writerVars, CarrierInv, Offering
  <2>2. carried => carried'
    BY <1>0, <1>12, <2>1 DEF carried, PumpDrain, WSTypeOK
  <2> QED
    BY <1>0, <1>1, <1>2, <2>1, <2>2
<1>13. ASSUME NEW g \in Sessions, PumpNext(g) PROVE Kept(m)'
  <2>1. PICK p \in Priority : Dequeue(p) /\ pumpMsg' = [pumpMsg EXCEPT ![g] = Head(queues[p])]
    BY <1>13, ZenonT(40) DEF PumpNext
  <2>2. UNCHANGED <<writerMsg, pendingMsg, written>> /\ pumpMsg[g] = None
    BY <1>13, ZenonT(40) DEF PumpNext, writerVars, CarrierInv, Offering
  <2>3. Queued(m) => Queued(m)' \/ m = Head(queues[p])
    BY <2>1, DequeueKeepsTypes DEF WSTypeOK
  <2>4. carried \/ m = Head(queues[p]) => carried'
    BY <1>0, <2>1, <2>2 DEF carried, WSTypeOK
  <2> QED
    BY <1>0, <1>2, <2>2, <2>3, <2>4
<1>14. ASSUME NEW g \in Sessions, PumpPolls(g) PROVE Kept(m)'
  <2>1. UNCHANGED <<queues, pumpMsg, writerMsg, pendingMsg, written>>
    BY <1>14 DEF PumpPolls, Poll, clientVars, writerVars, pumpVars
  <2> QED
    BY <1>0, <1>2, <2>1 DEF carried, Queued
<1>15. ASSUME NEW g \in Sessions, PumpExits(g)
       PROVE  \/ Kept(m)'
              \/ m.priority = 0 /\ m.session \in cancelled'
              \/ m.priority # 0 /\ pendingMsg # None /\ pumpPc[g] \in Offering
  <2>1. /\ UNCHANGED <<schedulerVars, writerMsg, written, cancelled>> /\ g \in cancelled
        /\ pumpMsg' = [pumpMsg EXCEPT ![g] = None]
    BY <1>15 DEF PumpExits, writerVars
  <2>2. IF pumpPc[g] \in Offering THEN Retain(pumpMsg[g]) ELSE UNCHANGED pendingMsg
    BY <1>15, Zenon DEF PumpExits
  <2>3. CASE m # pumpMsg[g]
    <3>1. carried => carried'
      BY <1>0, <2>1, <2>2, <2>3, Zenon DEF carried, Retain, WSTypeOK
    <3> QED
      BY <1>0, <1>1, <1>2, <2>1, <3>1
  <2>4. CASE m = pumpMsg[g] /\ m.priority = 0
    BY <1>0, <2>1, <2>4, Zenon DEF CarrierInv
  <2>5. CASE m = pumpMsg[g] /\ m.priority # 0
    <3>1. pumpPc[g] \in Offering
      BY <1>0, <2>5 DEF CarrierInv
    <3> QED
      BY <1>0, <2>2, <2>5, <3>1, ZenonT(40) DEF carried, Retain
  <2> QED
    BY <2>3, <2>4, <2>5
<1> QED
  BY <1>3, <1>4, <1>6, <1>7, <1>9, <1>10, <1>12, <1>13, <1>14, <1>15 DEF WSNext, Writer, Pump

(* What a step adds to the histories: a pushed message is queued, and a message
   is written by the writer, on the current session. *)
LEMMA HistorySteps ==
  ASSUME WSTypeOK, WSNext
  PROVE  /\ \A m \in pushed' : m \in pushed \/ (m \in Message /\ Queued(m)')
         /\ \/ written' = written
            \/ writerPc = "writing" /\ written' = written \cup {<<writerMsg, generation>>}
         /\ cancelled \subseteq cancelled'
<1>1. ASSUME NEW x \in Message, Produce(x)
      PROVE  pushed' = pushed \cup {x} /\ Queued(x)' /\ UNCHANGED <<written, cancelled>>
  BY <1>1, PushKeepsTypes DEF Produce, WSTypeOK
<1>2. CASE Loop \/ ReaderReturns
  BY <1>2
  DEF Loop, Dial, HandshakeAccepted, HandshakeFails, EndSession, WaitForRetry, LoopGoes,
      ReaderReturns
<1>3. CASE Writer
  BY <1>3
  DEF Writer, WriterReturns, WriterReceives, WriteSucceeds, WriteFails, Acknowledge, WriterStops
<1>4. ASSUME NEW g \in Sessions, Pump(g) PROVE UNCHANGED <<pushed, written, cancelled>>
  BY <1>4 DEF Pump, PumpDrain, PumpNext, PumpPolls, PumpExits, clientVars
<1> QED
  BY <1>1, <1>2, <1>3, <1>4 DEF WSNext

(* Each step of the client preserves the invariant. *)
LEMMA WSPreserves ==
  ASSUME WSInv, [WSNext]_wsVars
  PROVE  WSInv'
<1>1. CASE UNCHANGED wsVars
  BY <1>1, ZenonT(40)
  DEF WSInv, wsVars, schedulerVars, queueVars, clientVars, loopVars, writerVars, pumpVars,
      WSTypeOK, SchedulerTypeOK, SessionInv, CarrierInv, SlotInv, Active, ResponseOnOwnSession,
      OnlyStaleResponsesDropped, LowerPriorityRetained, InHand, Delivered
<1>2. CASE WSNext
  <2>1. WSTypeOK' /\ SessionInv' /\ CarrierInv'
    BY <1>2, WSTypesPreserved, SessionPreserved, CarrierPreserved DEF WSInv
  <2>2. ~PumpsOutlive => SlotInv'
    BY <1>2, SlotPreserved DEF WSInv
  <2>3. ResponseOnOwnSession'
    <3>1. writerPc = "writing" => /\ writerMsg # None
                                  /\ writerMsg.priority = 0 => writerMsg.session = generation
      BY DEF WSInv, CarrierInv
    <3>2. \/ written' = written
          \/ writerPc = "writing" /\ written' = written \cup {<<writerMsg, generation>>}
      BY <1>2, HistorySteps DEF WSInv
    <3> QED
      BY <3>1, <3>2 DEF WSInv, ResponseOnOwnSession
  <2>4. ASSUME NEW m \in pushed' PROVE m \in Message /\ (m \in pushed \/ Kept(m)')
    <3>1. m \in pushed \/ (m \in Message /\ Queued(m)')
      BY <1>2, <2>4, HistorySteps DEF WSInv
    <3> QED
      BY <3>1 DEF WSInv, WSTypeOK, Kept, InHand, Queued
  <2>5. OnlyStaleResponsesDropped'
    <3>1. SUFFICES ASSUME NEW m \in pushed', m.priority = 0, m.session \notin cancelled'
                   PROVE  Kept(m)'
      BY DEF OnlyStaleResponsesDropped, Kept
    <3>2. m \in pushed => Kept(m)
      BY <1>2, <3>1, HistorySteps DEF WSInv, OnlyStaleResponsesDropped, Kept
    <3> QED
      BY <1>2, <2>4, <3>1, <3>2, MessagesKept DEF WSInv
  <2>6. ~PumpsOutlive => LowerPriorityRetained'
    <3>1. SUFFICES ASSUME ~PumpsOutlive, NEW m \in pushed', m.priority # 0
                   PROVE  Kept(m)'
      BY DEF LowerPriorityRetained, Kept
    <3>2. m \in pushed => Kept(m)
      BY <3>1 DEF WSInv, LowerPriorityRetained, Kept
    <3>3. pendingMsg # None => writerPc # "writing" /\ \A g \in Sessions : pumpPc[g] \notin Offering
      BY <3>1 DEF WSInv, SlotInv
    <3> QED
      BY <1>2, <2>4, <3>1, <3>2, <3>3, MessagesKept DEF WSInv
  <2> QED
    BY <2>1, <2>2, <2>3, <2>5, <2>6 DEF WSInv
<1> QED
  BY <1>1, <1>2, SMTT(40)

(* The invariant holds of every behaviour of the client. *)
LEMMA WSInvariance == WSSpec => []WSInv
<1>1. WSInit => WSInv
  <2> SUFFICES ASSUME WSInit PROVE WSInv
    OBVIOUS
  <2>1. SchedulerTypeOK /\ Len(queues[0]) = 0
    BY SchedulerInitTypes DEF WSInit, SchedulerInit, Priority
  <2>2. WSTypeOK
    BY <2>1, ClientConstants DEF WSInit, WSTypeOK
  <2>3. SessionInv
    BY ZenonT(40) DEF WSInit, SessionInv
  <2>4. CarrierInv
    BY <2>1 DEF WSInit, CarrierInv, Offering
  <2>5. SlotInv
    BY DEF WSInit, SlotInv, Active
  <2>6. ResponseOnOwnSession /\ OnlyStaleResponsesDropped /\ LowerPriorityRetained
    BY DEF WSInit, ResponseOnOwnSession, OnlyStaleResponsesDropped, LowerPriorityRetained
  <2> QED
    BY <2>2, <2>3, <2>4, <2>5, <2>6 DEF WSInv
<1> QED
  BY <1>1, WSPreserves, PTL DEF WSSpec

(* However often connections break, and however many pumps of old sessions are
   still running, a response is only ever written on its own session
   (startWriterLoop's stale check). *)
THEOREM ResponsesStayOnSession == WSSpec => []ResponseOnOwnSession
<1>1. WSInv => ResponseOnOwnSession
  BY DEF WSInv
<1> QED
  BY <1>1, WSInvariance, PTL

(* However pumps, writer and reconnects interleave, the client drops no response
   whose session is alive (startWriterLoop). *)
THEOREM LiveResponsesKept == WSSpec => []OnlyStaleResponsesDropped
<1>1. WSInv => OnlyStaleResponsesDropped
  BY DEF WSInv
<1> QED
  BY <1>1, WSInvariance, PTL

(* If every pump has exited before the next session starts, the single slot for
   a message that could not be written is never needed twice, and no message of
   lower priority is lost (pendingMsg). *)
THEOREM LowerPriorityKept == WSSpec => [](~PumpsOutlive => LowerPriorityRetained)
<1>1. WSInv => (~PumpsOutlive => LowerPriorityRetained)
  BY DEF WSInv
<1> QED
  BY <1>1, WSInvariance, PTL

(* The client's variables keep their types; the pump's slot only ever holds
   messages that are not responses, and only unstable sessions are cancelled. *)
THEOREM WSTypesCorrect == WSSpec => []WSTypeOK
<1>1. WSInv => WSTypeOK
  BY DEF WSInv
<1> QED
  BY <1>1, WSInvariance, PTL
-----------------------------------------------------------------------------
(* Pump and writer of a live session are in step after every step. *)
LEMMA InStepPreserved ==
  ASSUME WSTypeOK, SessionInv, PumpAndWriterInStep, [WSNext]_wsVars
  PROVE  PumpAndWriterInStep'
<1> SUFFICES ASSUME loopPc' = "session", generation' \notin cancelled'
             PROVE  /\ pumpPc'[generation'] \notin {"none", "exited"}
                    /\ pumpPc'[generation'] = "awaitAck" <=> writerPc' \in {"writing", "ack"}
  BY Zenon DEF PumpAndWriterInStep
<1> USE DEF PumpAndWriterInStep
<1>0. pumpPc \in [Sessions -> {"none", "drain", "next", "awaitAck", "exited"} \cup Offering]
  BY Zenon DEF WSTypeOK
<1>1. CASE UNCHANGED <<loopPc, generation, cancelled, pumpPc, writerPc>>
  BY <1>1, Zenon
<1>2. CASE (\E m \in Message : Produce(m)) \/ (\E g \in Sessions : PumpPolls(g)) \/ UNCHANGED wsVars
  BY <1>1, <1>2, Zenon DEF Produce, PumpPolls, wsVars, clientVars, loopVars, writerVars, pumpVars
<1>3. CASE Dial \/ HandshakeFails \/ EndSession \/ WaitForRetry
  BY <1>3, Zenon DEF Dial, HandshakeFails, EndSession, WaitForRetry, LoopGoes
<1>4. CASE HandshakeAccepted
  <2>1. generation \in Sessions
    BY <1>4, Zenon DEF HandshakeAccepted, SessionInv
  <2>2. pumpPc'[generation'] = "drain" /\ writerPc' = "select"
    BY <1>0, <1>4, <2>1, Zenon DEF HandshakeAccepted
  <2> QED
    BY <2>2, Zenon
<1>5. CASE ReaderReturns \/ WriterReturns \/ WriteFails
  BY <1>5, Zenon DEF ReaderReturns, WriterReturns, WriteFails, WriterStops, loopVars
<1>6. loopPc = "session" => generation \in Sessions
  BY Zenon DEF SessionInv
<1>7. CASE WriterReceives
  <2>1. pumpPc'[generation'] = "awaitAck" /\ writerPc' \in {"ack", "writing"}
    BY <1>0, <1>6, <1>7, Zenon DEF WriterReceives, loopVars
  <2> QED
    BY <2>1, Zenon
<1>8. CASE WriteSucceeds
  BY <1>8, Zenon DEF WriteSucceeds, loopVars, pumpVars
<1>9. CASE Acknowledge
  <2>1. pumpPc'[generation'] = "next" /\ writerPc' = "select"
    BY <1>0, <1>6, <1>9, Zenon DEF Acknowledge, loopVars
  <2> QED
    BY <2>1, Zenon
<1>10. ASSUME NEW g \in Sessions, PumpDrain(g) \/ PumpNext(g) \/ PumpExits(g)
       PROVE  /\ pumpPc'[generation'] \notin {"none", "exited"}
              /\ pumpPc'[generation'] = "awaitAck" <=> writerPc' \in {"writing", "ack"}
  <2>1. UNCHANGED <<loopPc, generation, cancelled, writerPc>>
    BY <1>10, Zenon DEF PumpDrain, PumpNext, PumpExits, loopVars, writerVars
  <2>2. CASE g = generation
    <3>1. ~PumpExits(g)
      BY <2>1, <2>2, Zenon DEF PumpExits
    <3>2. pumpPc[g] \in {"drain", "next"} /\ pumpPc'[g] \in {"next", "offer", "offerPending"}
      BY <1>0, <1>10, <3>1, Zenon DEF PumpDrain, PumpNext
    <3> QED
      BY <2>1, <2>2, <3>2, Zenon
  <2>3. CASE g # generation
    <3>1. pumpPc'[generation] = pumpPc[generation]
      BY <1>0, <1>6, <1>10, <2>1, <2>3, Zenon DEF PumpDrain, PumpNext, PumpExits
    <3> QED
      BY <2>1, <3>1, Zenon
  <2> QED
    BY <2>2, <2>3, Zenon
<1> QED
  BY <1>2, <1>3, <1>4, <1>5, <1>7, <1>8, <1>9, <1>10, Zenon DEF WSNext, Loop, Writer, Pump

(* In every session, for any number of them, pump and writer keep step until the
   session is cancelled: neither waits for a message or an acknowledgement that
   the other does not owe (startWriterLoop's msgCh and ackCh). *)
THEOREM PumpWriterHandshake == WSSpec => []PumpAndWriterInStep
<1>1. WSInit => PumpAndWriterInStep
  BY Zenon DEF WSInit, PumpAndWriterInStep
<1>2. WSInv /\ PumpAndWriterInStep /\ [WSNext]_wsVars => PumpAndWriterInStep'
  BY InStepPreserved, Zenon DEF WSInv
<1> QED
  BY <1>1, <1>2, WSInvariance, PTL DEF WSSpec
-----------------------------------------------------------------------------
(* A message is in at most one place: once in its queue, or with one pump, or
   with the writer, or in the slot. *)
Carried(m) == (\E g \in Sessions : pumpMsg[g] = m) \/ m \in {writerMsg, pendingMsg}

QueuedOnce ==
  \A p \in Priority : \A i, j \in 1..Len(queues[p]) : queues[p][i] = queues[p][j] => i = j

InOnePlace(m) ==
  /\ Queued(m) => ~Carried(m)
  /\ \A g, h \in Sessions : pumpMsg[g] = m /\ pumpMsg[h] = m => g = h
  /\ \A g \in Sessions : pumpMsg[g] = m => m \notin {writerMsg, pendingMsg}
  /\ ~(writerMsg = m /\ pendingMsg = m)
  /\ InHand(m) => m \in pushed

HeldInv == QueuedOnce /\ \A m \in Message : InOnePlace(m)

(* A push adds its message at the end of its queue and nothing anywhere else. *)
LEMMA PushAddsOne ==
  ASSUME SchedulerTypeOK, QueuedOnce, NEW m \in Message, Push(m), ~Queued(m)
  PROVE  /\ QueuedOnce'
         /\ \A x \in Message : Queued(x)' => Queued(x) \/ x = m
<1> DEFINE p == m.priority
<1>1. p \in Priority /\ queues' = [queues EXCEPT ![p] = Append(queues[p], m)]
  <2>1. p \in Priority
    BY SchedulerConstants
  <2> QED
    BY <2>1 DEF Push
<1>2. /\ Len(queues[p]) \in Nat
      /\ Len(Append(queues[p], m)) = Len(queues[p]) + 1
      /\ \A i \in 1..Len(queues[p]) : Append(queues[p], m)[i] = queues[p][i]
      /\ Append(queues[p], m)[Len(queues[p]) + 1] = m
  BY <1>1 DEF SchedulerTypeOK
<1>3. /\ queues'[p] = Append(queues[p], m)
      /\ \A q \in Priority : q # p => queues'[q] = queues[q]
  BY <1>1, Zenon DEF SchedulerTypeOK
<1>4. \A i \in 1..Len(queues'[p]) :
        \/ i \in 1..Len(queues[p]) /\ queues'[p][i] = queues[p][i]
        \/ i = Len(queues[p]) + 1 /\ queues'[p][i] = m
  BY <1>2, <1>3
<1>5. \A i \in 1..Len(queues[p]) : queues[p][i] # m
  BY Zenon DEF Queued
<1>6. \A i, j \in 1..Len(queues'[p]) : queues'[p][i] = queues'[p][j] => i = j
  <2> SUFFICES ASSUME NEW i \in 1..Len(queues'[p]), NEW j \in 1..Len(queues'[p]),
                      queues'[p][i] = queues'[p][j]
               PROVE  i = j
    BY Zenon
  <2>1. CASE queues'[p][i] = m
    BY <1>4, <1>5, <2>1, Zenon
  <2>2. CASE queues'[p][i] # m
    <3>1. /\ i \in 1..Len(queues[p]) /\ j \in 1..Len(queues[p])
          /\ queues[p][i] = queues[p][j]
      BY <1>4, <2>2, Zenon
    <3> QED
      BY <1>1, <3>1, Zenon DEF QueuedOnce
  <2> QED
    BY <2>1, <2>2, Zenon
<1>7. QueuedOnce'
  BY <1>3, <1>6, Zenon DEF QueuedOnce
<1>8. ASSUME NEW x \in Message, Queued(x)' PROVE Queued(x) \/ x = m
  <2>1. x.priority \in Priority
    BY SchedulerConstants
  <2>2. PICK i \in 1..Len(queues'[x.priority]) : queues'[x.priority][i] = x
    BY <1>8, Zenon DEF Queued
  <2>3. CASE x.priority = p
    BY <1>4, <2>2, <2>3, Zenon DEF Queued
  <2>4. CASE x.priority # p
    BY <1>3, <2>1, <2>2, <2>4, Zenon DEF Queued
  <2> QED
    BY <2>3, <2>4, Zenon
<1> QED
  BY <1>7, <1>8, Zenon

(* Next takes the message at the head of a queue out of it. *)
LEMMA DequeueTakesOne ==
  ASSUME SchedulerTypeOK, QueuedOnce, NEW p \in Priority, Dequeue(p)
  PROVE  /\ QueuedOnce'
         /\ \A x \in Message : Queued(x)' => Queued(x) /\ x # Head(queues[p])
         /\ Head(queues[p]) \in Message /\ Queued(Head(queues[p]))
<1>1. queues' = [queues EXCEPT ![p] = Tail(queues[p])] /\ queues[p] # <<>>
  BY DEF Dequeue, Yield, YieldIteration, Select, Pop, Waiting
<1>2. /\ queues[p] \in Seq(Message) /\ Len(queues[p]) \in Nat /\ Len(queues[p]) > 0
      /\ Head(queues[p]) = queues[p][1]
      /\ Len(Tail(queues[p])) = Len(queues[p]) - 1
      /\ \A i \in 1..Len(Tail(queues[p])) : Tail(queues[p])[i] = queues[p][i + 1]
  BY <1>1 DEF SchedulerTypeOK
<1>3. /\ queues'[p] = Tail(queues[p])
      /\ \A q \in Priority : q # p => queues'[q] = queues[q]
  BY <1>1, Zenon DEF SchedulerTypeOK
<1>4. /\ 1 \in 1..Len(queues[p])
      /\ \A i \in 1..Len(queues'[p]) :
           i + 1 \in 1..Len(queues[p]) /\ i + 1 # 1 /\ queues'[p][i] = queues[p][i + 1]
  BY <1>2, <1>3
<1>5. \A i, j \in 1..Len(queues'[p]) : queues'[p][i] = queues'[p][j] => i = j
  <2> SUFFICES ASSUME NEW i \in 1..Len(queues'[p]), NEW j \in 1..Len(queues'[p]),
                      queues'[p][i] = queues'[p][j]
               PROVE  i = j
    BY Zenon
  <2>1. i + 1 = j + 1
    BY <1>4, ZenonT(40) DEF QueuedOnce
  <2> QED
    BY <2>1, SMT
<1>6. QueuedOnce'
  BY <1>3, <1>5, Zenon DEF QueuedOnce
<1>7. Head(queues[p]) \in Message /\ Head(queues[p]).priority = p
  BY DequeueKeepsTypes, Zenon
<1>8. Queued(Head(queues[p]))
  BY <1>2, <1>4, <1>7, Zenon DEF Queued
<1>9. ASSUME NEW x \in Message, Queued(x)' PROVE Queued(x) /\ x # Head(queues[p])
  <2>1. x.priority \in Priority
    BY SchedulerConstants
  <2>2. PICK i \in 1..Len(queues'[x.priority]) : queues'[x.priority][i] = x
    BY <1>9, Zenon DEF Queued
  <2>3. CASE x.priority = p
    <3>1. i + 1 \in 1..Len(queues[p]) /\ i + 1 # 1 /\ queues[p][i + 1] = x
      BY <1>4, <2>2, <2>3, Zenon
    <3>2. queues[p][i + 1] # queues[p][1]
      BY <1>4, <3>1, Zenon DEF QueuedOnce
    <3> QED
      BY <1>2, <2>3, <3>1, <3>2, Zenon DEF Queued
  <2>4. CASE x.priority # p
    BY <1>3, <1>7, <2>1, <2>2, <2>4, Zenon DEF Queued
  <2> QED
    BY <2>3, <2>4, Zenon
<1> QED
  BY <1>6, <1>7, <1>8, <1>9, Zenon

(* Every step moves a message from one place to another, or lets it go; only a
   push of a new message brings one in. *)
LEMMA HeldStep ==
  ASSUME WSTypeOK, SessionInv, CarrierInv, HeldInv, WSNext
  PROVE  /\ HeldInv'
         /\ \A m \in Message : InHand(m)' => InHand(m) \/ m \notin pushed
<1> DEFINE Fine(m) == InOnePlace(m)' /\ (InHand(m)' => InHand(m) \/ m \notin pushed)
<1> SUFFICES QueuedOnce' /\ \A m \in Message : Fine(m)
  BY Zenon DEF HeldInv
<1>0. \A m \in Message : /\ m # None
                         /\ InHand(m) <=> Queued(m) \/ Carried(m)
                         /\ InHand(m)' <=> Queued(m)' \/ Carried(m)'
  BY MessageFacts, Zenon DEF InHand, Queued, Carried
<1>1. UNCHANGED queues => QueuedOnce' /\ \A m \in Message : Queued(m)' <=> Queued(m)
  BY Zenon DEF HeldInv, QueuedOnce, Queued
<1>2. pumpMsg \in [Sessions -> Message \cup {None}]
  BY Zenon DEF WSTypeOK
<1>3. UNCHANGED schedulerVars => UNCHANGED queues
  BY Zenon DEF schedulerVars, queueVars
<1>4. ASSUME NEW x \in Message, Produce(x) PROVE QueuedOnce' /\ \A m \in Message : Fine(m)
  <2>1. /\ UNCHANGED <<pumpMsg, writerMsg, pendingMsg>>
        /\ x \notin pushed /\ pushed' = pushed \cup {x} /\ Push(x)
    BY <1>4, Zenon DEF Produce, pumpVars, writerVars
  <2>2. ~Queued(x) /\ ~Carried(x)
    BY <1>0, <2>1, Zenon DEF HeldInv, InOnePlace
  <2>3. QueuedOnce' /\ \A m \in Message : Queued(m)' => Queued(m) \/ m = x
    BY <2>1, <2>2, PushAddsOne, Zenon DEF HeldInv, WSTypeOK
  <2>4. \A m \in Message : Carried(m)' <=> Carried(m)
    BY <2>1, Zenon DEF Carried
  <2>5. ASSUME NEW m \in Message PROVE Fine(m)
    <3>1. InHand(m)' => InHand(m) \/ m = x
      BY <1>0, <2>3, <2>4, Zenon
    <3>2. InOnePlace(m)
      BY Zenon DEF HeldInv
    <3>3. InHand(m)' => m \in pushed'
      BY <2>1, <3>1, <3>2, Zenon DEF InOnePlace
    <3>4. Queued(m)' => ~Carried(m)'
      BY <2>2, <2>3, <2>4, <3>2, Zenon DEF InOnePlace
    <3> QED
      BY <2>1, <3>1, <3>2, <3>3, <3>4, Zenon DEF InOnePlace
  <2> QED
    BY <2>3, <2>5, Zenon
<1>5. ASSUME UNCHANGED queues, UNCHANGED pushed, UNCHANGED pumpMsg,
             writerMsg' \in {writerMsg, None},
             pendingMsg' = pendingMsg \/ (writerMsg' = None /\ pendingMsg' = writerMsg)
      PROVE  QueuedOnce' /\ \A m \in Message : Fine(m)
  <2>1. ASSUME NEW m \in Message PROVE Fine(m)
    <3>1. InOnePlace(m) /\ m # None /\ (Queued(m)' <=> Queued(m))
      BY <1>0, <1>1, <1>5, Zenon DEF HeldInv
    <3>2. Carried(m)' => Carried(m)
      BY <1>5, <3>1, Zenon DEF Carried
    <3>3. InHand(m)' => InHand(m)
      BY <1>0, <3>1, <3>2, Zenon
    <3> QED
      BY <1>5, <3>1, <3>2, <3>3, Zenon DEF InOnePlace
  <2> QED
    BY <1>1, <1>5, <2>1, Zenon
<1>6. CASE Loop \/ ReaderReturns \/ WriterReturns \/ Acknowledge \/ WriteSucceeds
  <2>1. UNCHANGED <<schedulerVars, pushed, pumpMsg, pendingMsg>> /\ writerMsg' \in {writerMsg, None}
    BY <1>6, Zenon
    DEF Loop, Dial, HandshakeAccepted, HandshakeFails, EndSession, WaitForRetry, LoopGoes,
        ReaderReturns, WriterReturns, WriterStops, Acknowledge, WriteSucceeds, writerVars, pumpVars
  <2> QED
    BY <1>3, <1>5, <2>1, Zenon
<1>7. CASE WriteFails
  <2>1. UNCHANGED <<schedulerVars, pushed, pumpMsg>> /\ writerMsg' = None /\ Retain(writerMsg)
    BY <1>7, Zenon DEF WriteFails, WriterStops, pumpVars
  <2>2. pendingMsg' = pendingMsg \/ pendingMsg' = writerMsg
    BY <2>1, Zenon DEF Retain
  <2> QED
    BY <1>3, <1>5, <2>1, <2>2, Zenon
<1>8. CASE WriterReceives
  <2>1. /\ generation \in Sessions /\ writerMsg = None
        /\ UNCHANGED <<schedulerVars, pushed, pendingMsg>>
        /\ pumpMsg' = [pumpMsg EXCEPT ![generation] = None]
        /\ writerMsg' = writerMsg \/ writerMsg' = pumpMsg[generation]
    BY <1>8, Zenon DEF WriterReceives, SessionInv, CarrierInv
  <2>2. /\ pumpMsg'[generation] = None
        /\ \A g \in Sessions : g # generation => pumpMsg'[g] = pumpMsg[g]
    BY <1>2, <2>1, Zenon
  <2>3. ASSUME NEW m \in Message PROVE Fine(m)
    <3>1. InOnePlace(m) /\ m # None /\ (Queued(m)' <=> Queued(m))
      BY <1>0, <1>1, <1>3, <2>1, Zenon DEF HeldInv
    <3>2. /\ \A g \in Sessions : pumpMsg'[g] = m => g # generation /\ pumpMsg[g] = m
          /\ writerMsg' = m => pumpMsg[generation] = m
      BY <2>1, <2>2, <3>1, Zenon
    <3>3. Carried(m)' => Carried(m)
      BY <2>1, <3>2, Zenon DEF Carried
    <3>4. InHand(m)' => InHand(m)
      BY <1>0, <3>1, <3>3, Zenon
    <3> QED
      BY <2>1, <3>1, <3>2, <3>3, <3>4, Zenon DEF InOnePlace
  <2> QED
    BY <1>1, <1>3, <2>1, <2>3, Zenon
<1>9. ASSUME NEW g \in Sessions, PumpDrain(g) PROVE QueuedOnce' /\ \A m \in Message : Fine(m)
  <2>1. /\ UNCHANGED <<schedulerVars, pushed, writerMsg>>
        /\ pumpMsg' = [pumpMsg EXCEPT ![g] = pendingMsg]
        /\ pendingMsg' = None
    BY <1>9, Zenon DEF PumpDrain, writerVars
  <2>2. /\ pumpMsg'[g] = pendingMsg
        /\ \A h \in Sessions : h # g => pumpMsg'[h] = pumpMsg[h]
    BY <1>2, <2>1, Zenon
  <2>3. ASSUME NEW m \in Message PROVE Fine(m)
    <3>1. InOnePlace(m) /\ m # None /\ (Queued(m)' <=> Queued(m))
      BY <1>0, <1>1, <1>3, <2>1, Zenon DEF HeldInv
    <3>2. \A h \in Sessions : pumpMsg'[h] = m =>
            \/ h = g /\ pendingMsg = m
            \/ h # g /\ pumpMsg[h] = m
      BY <2>2, Zenon
    <3>3. Carried(m)' => Carried(m)
      BY <2>1, <3>1, <3>2, Zenon DEF Carried
    <3>4. InHand(m)' => InHand(m)
      BY <1>0, <3>1, <3>3, Zenon
    <3> QED
      BY <2>1, <3>1, <3>2, <3>3, <3>4, Zenon DEF InOnePlace
  <2> QED
    BY <1>1, <1>3, <2>1, <2>3, Zenon
<1>10. ASSUME NEW g \in Sessions, PumpNext(g) PROVE QueuedOnce' /\ \A m \in Message : Fine(m)
  <2>1. PICK p \in Priority : Dequeue(p) /\ pumpMsg' = [pumpMsg EXCEPT ![g] = Head(queues[p])]
    BY <1>10, Zenon DEF PumpNext
  <2>2. UNCHANGED <<pushed, writerMsg, pendingMsg>>
    BY <1>10, Zenon DEF PumpNext, writerVars
  <2> DEFINE x == Head(queues[p])
  <2>3. /\ QueuedOnce' /\ x \in Message /\ Queued(x)
        /\ \A m \in Message : Queued(m)' => Queued(m) /\ m # x
    BY <2>1, DequeueTakesOne, Zenon DEF HeldInv, WSTypeOK
  <2>4. /\ pumpMsg'[g] = x
        /\ \A h \in Sessions : h # g => pumpMsg'[h] = pumpMsg[h]
    BY <1>2, <2>1, Zenon
  <2> HIDE DEF x
  <2>5. ~Carried(x)
    BY <2>3, Zenon DEF HeldInv, InOnePlace
  <2>6. ASSUME NEW m \in Message PROVE Fine(m)
    <3>1. InOnePlace(m)
      BY Zenon DEF HeldInv
    <3>2. \A h \in Sessions : pumpMsg'[h] = m =>
            \/ h = g /\ m = x
            \/ h # g /\ pumpMsg[h] = m
      BY <2>4, Zenon
    <3>3. Carried(m)' => Carried(m) \/ m = x
      BY <2>2, <3>2, Zenon DEF Carried
    <3>4. InHand(m)' => InHand(m)
      BY <1>0, <2>3, <3>3, Zenon
    <3>5. Queued(m)' => ~Carried(m)'
      BY <2>3, <3>1, <3>3, Zenon DEF InOnePlace
    <3>6. m = x => m \notin {writerMsg, pendingMsg} /\ \A h \in Sessions : pumpMsg[h] # m
      BY <2>5, Zenon DEF Carried
    <3> QED
      BY <2>2, <3>1, <3>2, <3>4, <3>5, <3>6, Zenon DEF InOnePlace
  <2> QED
    BY <2>3, <2>6, Zenon
<1>11. ASSUME NEW g \in Sessions, PumpPolls(g) PROVE QueuedOnce' /\ \A m \in Message : Fine(m)
  <2>1. UNCHANGED <<queues, pushed, pumpMsg, writerMsg, pendingMsg>>
    BY <1>11, Zenon DEF PumpPolls, Poll, clientVars, writerVars, pumpVars
  <2> QED
    BY <1>5, <2>1, Zenon
<1>12. ASSUME NEW g \in Sessions, PumpExits(g) PROVE QueuedOnce' /\ \A m \in Message : Fine(m)
  <2>1. /\ UNCHANGED <<schedulerVars, pushed, writerMsg>>
        /\ pumpMsg' = [pumpMsg EXCEPT ![g] = None]
        /\ pendingMsg' = pendingMsg \/ pendingMsg' = pumpMsg[g]
    BY <1>12, Zenon DEF PumpExits, Retain, writerVars
  <2>2. /\ pumpMsg'[g] = None
        /\ \A h \in Sessions : h # g => pumpMsg'[h] = pumpMsg[h]
    BY <1>2, <2>1, Zenon
  <2>3. ASSUME NEW m \in Message PROVE Fine(m)
    <3>1. InOnePlace(m) /\ m # None /\ (Queued(m)' <=> Queued(m))
      BY <1>0, <1>1, <1>3, <2>1, Zenon DEF HeldInv
    <3>2. /\ \A h \in Sessions : pumpMsg'[h] = m => h # g /\ pumpMsg[h] = m
          /\ pendingMsg' = m => pendingMsg = m \/ pumpMsg[g] = m
      BY <2>1, <2>2, <3>1, Zenon
    <3>3. Carried(m)' => Carried(m)
      BY <2>1, <3>2, Zenon DEF Carried
    <3>4. InHand(m)' => InHand(m)
      BY <1>0, <3>1, <3>3, Zenon
    <3> QED
      BY <2>1, <3>1, <3>2, <3>3, <3>4, Zenon DEF InOnePlace
  <2> QED
    BY <1>1, <1>3, <2>1, <2>3, Zenon
<1> HIDE DEF Fine
<1> QED
  BY <1>4, <1>6, <1>7, <1>8, <1>9, <1>10, <1>11, <1>12, Zenon DEF WSNext, Writer, Pump

(* A message that has left the client's hands never comes back to them, and a
   message written without an error leaves them: no reconnect, and no pump that
   outlives its session, writes it a second time (the slot pendingMsg is only
   filled by a failed write or an interrupted pump). *)
THEOREM NoWriteAfterSuccess == WSSpec => SuccessfulWriteIsFinal
<1>1. WSInit => HeldInv
  <2> SUFFICES ASSUME WSInit PROVE HeldInv
    OBVIOUS
  <2>1. queues = [p \in Priority |-> <<>>]
    BY Zenon DEF WSInit, SchedulerInit
  <2>2. \A p \in Priority : 1..Len(queues[p]) = {}
    BY <2>1
  <2>3. QueuedOnce
    BY <2>2, Zenon DEF QueuedOnce
  <2>4. ASSUME NEW m \in Message PROVE ~InHand(m) /\ ~Queued(m) /\ ~Carried(m)
    <3>1. m # None /\ m.priority \in Priority
      BY MessageFacts, Zenon
    <3>2. ~Queued(m)
      BY <2>2, <3>1, Zenon DEF Queued
    <3>3. ~Carried(m)
      BY <3>1, Zenon DEF Carried, WSInit
    <3> QED
      BY <3>2, <3>3, Zenon DEF InHand, Queued, Carried
  <2> QED
    BY <2>3, <2>4, Zenon DEF HeldInv, InOnePlace, Carried
<1>2. WSInv /\ HeldInv /\ [WSNext]_wsVars => HeldInv'
  <2>1. HeldInv /\ UNCHANGED wsVars => HeldInv'
    BY Zenon
    DEF HeldInv, QueuedOnce, InOnePlace, InHand, Queued, Carried, wsVars, clientVars,
        schedulerVars, queueVars, writerVars, pumpVars
  <2> QED
    BY <2>1, HeldStep, Zenon DEF WSInv
<1> DEFINE Final == /\ \A m \in pushed : ~InHand(m) => ~InHand(m)'
                    /\ \A m \in Message : writerMsg = m /\ writerPc' = "ack" => ~InHand(m)'
<1>3. WSInv /\ HeldInv /\ [WSNext]_wsVars => [Final]_wsVars
  <2> SUFFICES ASSUME WSInv, HeldInv, WSNext PROVE Final
    BY Zenon
  <2>1. ASSUME NEW m \in pushed, ~InHand(m) PROVE ~InHand(m)'
    BY <2>1, HeldStep, Zenon DEF WSInv, WSTypeOK
  <2>2. ASSUME NEW m \in Message, writerMsg = m, writerPc' = "ack" PROVE ~InHand(m)'
    <3>1. m # None /\ writerPc = "writing"
      BY <2>2, MessageFacts, Zenon DEF WSInv, CarrierInv
    <3>2. UNCHANGED <<queues, pumpMsg, pendingMsg>> /\ writerMsg' = None
      <4>1. WriteSucceeds
        BY <2>2, <3>1, Zenon
        DEF WSNext, Produce, Loop, Dial, HandshakeAccepted, HandshakeFails, EndSession,
            WaitForRetry, ReaderReturns, Writer, WriterReturns, WriterReceives, WriteFails,
            WriterStops, Acknowledge, Pump, PumpDrain, PumpNext, PumpPolls, PumpExits,
            clientVars, writerVars
      <4> QED
        BY <4>1, Zenon DEF WriteSucceeds, schedulerVars, queueVars, pumpVars
    <3>3. InOnePlace(m)
      BY Zenon DEF HeldInv
    <3>4. ~Queued(m) /\ (\A g \in Sessions : pumpMsg[g] # m) /\ pendingMsg # m
      BY <2>2, <3>3, Zenon DEF InOnePlace, Carried
    <3> QED
      BY <3>1, <3>2, <3>4, Zenon DEF InHand, Queued
  <2> QED
    BY <2>1, <2>2, Zenon
<1> HIDE DEF Final
<1>4. WSSpec => [][Final]_wsVars
  BY <1>1, <1>2, <1>3, WSInvariance, PTL DEF WSSpec
<1> QED
  BY <1>4, PTL DEF SuccessfulWriteIsFinal, Final
=============================================================================
