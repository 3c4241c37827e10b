------------------------------ MODULE WSClient ------------------------------
(***************************************************************************)
(* The cloud WebSocket client (pkg/websocket/client.go): the reconnect     *)
(* loop, the reader and writer goroutines of a session, and the goroutine  *)
(* that pumps messages from the scheduler to the writer over msgCh and     *)
(* waits for its acknowledgement on ackCh.  A session is named by its      *)
(* generation.  Its context is cancelled as soon as the reader or the      *)
(* writer returns; the loop waits for those two, not for the pump, so the  *)
(* pump of an old session may still be running when a new one begins.      *)
(***************************************************************************)
EXTENDS PriorityScheduler

CONSTANTS
  None,
  MaxSessions,    \* bound: connections the loop makes
  Unstable,       \* sessions that may break
  PumpsOutlive    \* whether a pump may outlive the dial of the next session

Sessions == 1..MaxSessions

ASSUME ClientConstants ==
  /\ None \notin Message
  /\ MaxSessions \in Nat
  /\ Unstable \subseteq Sessions
  /\ PumpsOutlive \in BOOLEAN
  /\ \A m \in Message : m.priority = 0 => m.session \in Sessions

VARIABLES
  loopPc, generation,
  cancelled,       \* sessions whose context is done
  readerPc,
  writerPc, writerMsg,
  pumpPc, pumpMsg, \* per session
  pendingMsg,      \* a message retained for the next session, or None
  pushed,          \* history: messages given to the scheduler
  written          \* history: <<message, session>> the cloud received

loopVars   == <<loopPc, generation>>
writerVars == <<writerPc, writerMsg>>
pumpVars   == <<pumpPc, pumpMsg>>
clientVars == <<loopVars, cancelled, readerPc, writerVars, pumpVars, pendingMsg, pushed, written>>
wsVars     == <<schedulerVars, clientVars>>

Offering == {"offer", "offerPending"}

WSTypeOK ==
  /\ SchedulerTypeOK
  /\ loopPc \in {"dial", "handshake", "session", "backoff", "stopped"}
  /\ generation \in 0..MaxSessions
  /\ cancelled \subseteq Unstable
  /\ readerPc \in {"off", "run"}
  /\ writerPc \in {"off", "select", "writing", "ack"}
  /\ writerMsg \in Message \cup {None}
  /\ pumpPc \in [Sessions -> {"none", "drain", "next", "awaitAck", "exited"} \cup Offering]
  /\ pumpMsg \in [Sessions -> Message \cup {None}]
  /\ pendingMsg \in {m \in Message : m.priority # 0} \cup {None}
  /\ pushed \subseteq Message
  /\ written \subseteq Message \X Sessions

WSInit ==
  /\ SchedulerInit
  /\ loopPc = "dial"
  /\ generation = 0
  /\ cancelled = {}
  /\ readerPc = "off"
  /\ writerPc = "off" /\ writerMsg = None
  /\ pumpPc = [g \in Sessions |-> "none"]
  /\ pumpMsg = [g \in Sessions |-> None]
  /\ pendingMsg = None
  /\ pushed = {}
  /\ written = {}
-----------------------------------------------------------------------------
(* A producer: pushResponse, or terminalTransition, for a session that has been
   up.  Every message is pushed once. *)
Produce(m) ==
  /\ m \notin pushed
  /\ m.priority = 0 => pumpPc[m.session] # "none"
  /\ Push(m)
  /\ pushed' = pushed \cup {m}
  /\ UNCHANGED <<loopVars, cancelled, readerPc, writerVars, pumpVars, pendingMsg, written>>

(* ReconnectLoop. *)
LoopGoes(to) ==
  /\ loopPc' = to
  /\ UNCHANGED <<schedulerVars, cancelled, pendingMsg, pushed, written>>

(* One iteration up to the dial: connected, no connection, or a certificate
   configuration that ends the loop. *)
Dial ==
  /\ loopPc = "dial"
  /\ \/ generation < MaxSessions /\ generation' = generation + 1 /\ LoopGoes("handshake")
     \/ UNCHANGED generation /\ (LoopGoes("backoff") \/ LoopGoes("stopped"))
  /\ UNCHANGED <<readerPc, writerVars, pumpVars>>

HandshakeAccepted ==
  /\ loopPc = "handshake"
  /\ ~PumpsOutlive => \A g \in 1..(generation - 1) : pumpPc[g] \in {"none", "exited"}
  /\ LoopGoes("session")
  /\ readerPc' = "run"
  /\ writerPc' = "select"
  /\ pumpPc' = [pumpPc EXCEPT ![generation] = "drain"]
  /\ UNCHANGED <<generation, writerMsg, pumpMsg>>

(* A retryable failure, or a rejection, which ends the loop. *)
HandshakeFails ==
  /\ loopPc = "handshake"
  /\ generation \in Unstable
  /\ LoopGoes("backoff") \/ LoopGoes("stopped")
  /\ UNCHANGED <<generation, readerPc, writerVars, pumpVars>>

(* g.Wait returns.  After a stable session the loop dials at once. *)
EndSession ==
  /\ loopPc = "session"
  /\ readerPc = "off" /\ writerPc = "off"
  /\ LoopGoes("backoff") \/ LoopGoes("dial")
  /\ UNCHANGED <<generation, readerPc, writerVars, pumpVars>>

WaitForRetry ==
  /\ loopPc = "backoff"
  /\ LoopGoes("dial")
  /\ UNCHANGED <<generation, readerPc, writerVars, pumpVars>>
-----------------------------------------------------------------------------
(* The reader returns: a socket error, an oversized frame, too many handler
   errors, a fatal disposition, or the cancelled context. *)
ReaderReturns ==
  /\ readerPc = "run"
  /\ generation \in Unstable
  /\ readerPc' = "off"
  /\ cancelled' = cancelled \cup {generation}
  /\ UNCHANGED <<schedulerVars, loopVars, writerVars, pumpVars, pendingMsg, pushed, written>>

WriterStops ==
  /\ writerPc' = "off"
  /\ writerMsg' = None
  /\ cancelled' = cancelled \cup {generation}

(* The writer returns from a failed ping, or on the cancelled context; in
   "ack" only the latter. *)
WriterReturns ==
  /\ \/ writerPc = "select" /\ generation \in Unstable
     \/ writerPc = "ack" /\ generation \in cancelled
  /\ WriterStops
  /\ UNCHANGED <<schedulerVars, loopVars, readerPc, pumpVars, pendingMsg, pushed, written>>

(* Faulty variants: the session of a response is not looked at; the session
   identifier is taken before the generation is counted up. *)
StaleNever(m) == FALSE

StaleOffByOne(m) == m.priority = 0 /\ m.session # generation - 1

Stale(m) == m.priority = 0 /\ m.session # generation

(* Faulty variant: a discarded response is not acknowledged. *)
WriterReceivesNoAck ==
  /\ writerPc = "select"
  /\ pumpPc[generation] \in Offering
  /\ pumpPc' = [pumpPc EXCEPT ![generation] = "awaitAck"]
  /\ pumpMsg' = [pumpMsg EXCEPT ![generation] = None]
  /\ IF Stale(pumpMsg[generation])
       THEN UNCHANGED writerVars
       ELSE writerPc' = "writing" /\ writerMsg' = pumpMsg[generation]
  /\ UNCHANGED <<schedulerVars, loopVars, cancelled, readerPc, pendingMsg, pushed, written>>

(* msgCh: the pump hands a message over.  A stale response is discarded. *)
WriterReceives ==
  /\ writerPc = "select"
  /\ pumpPc[generation] \in Offering
  /\ pumpPc' = [pumpPc EXCEPT ![generation] = "awaitAck"]
  /\ pumpMsg' = [pumpMsg EXCEPT ![generation] = None]
  /\ IF Stale(pumpMsg[generation])
       THEN writerPc' = "ack" /\ UNCHANGED writerMsg
       ELSE writerPc' = "writing" /\ writerMsg' = pumpMsg[generation]
  /\ UNCHANGED <<schedulerVars, loopVars, cancelled, readerPc, pendingMsg, pushed, written>>

(* Faulty variant: the message is retained before the write and not let go
   after it. *)
WriteSucceedsRetained ==
  /\ writerPc = "writing"
  /\ writerPc' = "ack"
  /\ writerMsg' = None
  /\ pendingMsg' = writerMsg
  /\ written' = written \cup {<<writerMsg, generation>>}
  /\ UNCHANGED <<schedulerVars, loopVars, cancelled, readerPc, pumpVars, pushed>>

WriteSucceeds ==
  /\ writerPc = "writing"
  /\ writerPc' = "ack"
  /\ writerMsg' = None
  /\ written' = written \cup {<<writerMsg, generation>>}
  /\ UNCHANGED <<schedulerVars, loopVars, cancelled, readerPc, pumpVars, pendingMsg, pushed>>

(* Faulty variant: nothing is retained. *)
RetainNothing(m) == UNCHANGED pendingMsg

(* The single place for a message that could not be written. *)
Retain(m) == pendingMsg' = IF m.priority # 0 /\ pendingMsg = None THEN m ELSE pendingMsg

(* The cloud may have received a message whose write failed. *)
WriteFails ==
  /\ writerPc = "writing"
  /\ generation \in Unstable
  /\ Retain(writerMsg)
  /\ WriterStops
  /\ written' \in {written, written \cup {<<writerMsg, generation>>}}
  /\ UNCHANGED <<schedulerVars, loopVars, readerPc, pumpVars, pushed>>

(* ackCh. *)
Acknowledge ==
  /\ writerPc = "ack"
  /\ pumpPc[generation] = "awaitAck"
  /\ writerPc' = "select"
  /\ pumpPc' = [pumpPc EXCEPT ![generation] = "next"]
  /\ UNCHANGED <<schedulerVars, loopVars, cancelled, readerPc, writerMsg, pumpMsg, pendingMsg, pushed, written>>
-----------------------------------------------------------------------------
(* The pump of session g first takes over what was retained. *)
PumpDrain(g) ==
  /\ pumpPc[g] = "drain"
  /\ pumpPc' = [pumpPc EXCEPT ![g] = IF pendingMsg = None THEN "next" ELSE "offerPending"]
  /\ pumpMsg' = [pumpMsg EXCEPT ![g] = pendingMsg]
  /\ pendingMsg' = None
  /\ UNCHANGED <<schedulerVars, loopVars, cancelled, readerPc, writerVars, pushed, written>>

(* scheduler.Next returns a message. *)
PumpNext(g) ==
  /\ pumpPc[g] = "next"
  /\ g \notin cancelled
  /\ \E p \in Priority :
       /\ Dequeue(p)
       /\ pumpMsg' = [pumpMsg EXCEPT ![g] = Head(queues[p])]
  /\ pumpPc' = [pumpPc EXCEPT ![g] = "offer"]
  /\ UNCHANGED <<loopVars, cancelled, readerPc, writerVars, pendingMsg, pushed, written>>

(* scheduler.Next finds nothing and waits. *)
PumpPolls(g) ==
  /\ pumpPc[g] = "next"
  /\ g \notin cancelled
  /\ Poll
  /\ UNCHANGED clientVars

(* The pump sees the cancelled context, in Next or while it waits for the
   writer. *)
PumpExits(g) ==
  /\ g \in cancelled
  /\ pumpPc[g] \in {"next", "awaitAck"} \cup Offering
  /\ IF pumpPc[g] \in Offering THEN Retain(pumpMsg[g]) ELSE UNCHANGED pendingMsg
  /\ pumpPc' = [pumpPc EXCEPT ![g] = "exited"]
  /\ pumpMsg' = [pumpMsg EXCEPT ![g] = None]
  /\ UNCHANGED <<schedulerVars, loopVars, cancelled, readerPc, writerVars, pushed, written>>

Pump(g) == PumpDrain(g) \/ PumpNext(g) \/ PumpPolls(g) \/ PumpExits(g)

Loop == Dial \/ HandshakeAccepted \/ HandshakeFails \/ EndSession \/ WaitForRetry

Writer == WriterReturns \/ WriterReceives \/ WriteSucceeds \/ WriteFails \/ Acknowledge

WSNext ==
  \/ \E m \in Message : Produce(m)
  \/ Loop
  \/ ReaderReturns
  \/ Writer
  \/ \E g \in Sessions : Pump(g)

WSSpec == WSInit /\ [][WSNext]_wsVars

(* The goroutines go on, a reader whose context is cancelled returns, and the
   cloud, tried again and again, is sometimes reachable.  (The SF conjunct is
   about reachability, not about the loop.) *)
WSFairness ==
  /\ WF_wsVars(EndSession \/ WaitForRetry)
  /\ SF_wsVars(Dial /\ loopPc' = "handshake")
  /\ WF_wsVars(Dial)
  /\ WF_wsVars(HandshakeAccepted)
  /\ WF_wsVars(generation \in cancelled /\ ReaderReturns)
  /\ WF_wsVars(Writer)
  /\ \A g \in Sessions : WF_wsVars(Pump(g))

FairWSSpec == WSSpec /\ WSFairness
-----------------------------------------------------------------------------
Delivered(m) == \E g \in Sessions : <<m, g>> \in written

(* Somebody still has the message. *)
InHand(m) ==
  \/ \E i \in 1..Len(queues[m.priority]) : queues[m.priority][i] = m
  \/ \E g \in Sessions : pumpMsg[g] = m
  \/ m \in {writerMsg, pendingMsg}

(* A response is written only on the session whose request it answers: a reply
   that comes late, or waits in the queue across a reconnect, never reaches
   another session (the stale check of startWriterLoop). *)
ResponseOnOwnSession ==
  \A m \in Message, g \in Sessions : <<m, g>> \in written /\ m.priority = 0 => m.session = g

(* A response is dropped only when its session is over: as long as the session
   lives, a response handed to the scheduler is queued, in the hands of pump
   or writer, or written. *)
OnlyStaleResponsesDropped ==
  \A m \in pushed : m.priority = 0 /\ m.session \notin cancelled =>
    InHand(m) \/ Delivered(m)

(* A message of lower priority is never lost: broken writes and cancelled
   pumps retain it in the one slot there is, and the next session's pump takes
   it from there.  This needs the old pump to have exited before the next
   session starts; the code does not wait for it. *)
LowerPriorityRetained ==
  \A m \in pushed : m.priority # 0 => InHand(m) \/ Delivered(m)

(* Pump and writer of a live session never wait for each other in vain: the
   pump waits on ackCh exactly while the writer has its message or is about to
   acknowledge it, and otherwise is on its way to the writer's select. *)
PumpAndWriterInStep ==
  loopPc = "session" /\ generation \notin cancelled =>
    /\ pumpPc[generation] \notin {"none", "exited"}
    /\ pumpPc[generation] = "awaitAck" <=> writerPc \in {"writing", "ack"}

(* A message that was written successfully is not written again: nobody keeps a
   copy of it, and a message that has left the client's hands never comes back.
   Only a write that failed, after which the message is retained, may reach the
   cloud twice. *)
SuccessfulWriteIsFinal ==
  [][/\ \A m \in pushed : ~InHand(m) => ~InHand(m)'
     /\ \A m \in Message : writerMsg = m /\ writerPc' = "ack" => ~InHand(m)']_wsVars

(* Every message of lower priority reaches the cloud once a session is stable,
   unless a rejected handshake or a bad certificate ends the loop, and with it
   the daemon. *)
LowerPriorityDelivered ==
  \A m \in Message : m.priority # 0 => (m \in pushed ~> Delivered(m) \/ loopPc = "stopped")
=============================================================================
