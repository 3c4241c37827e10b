----------------------------- MODULE MCWSClient -----------------------------
(* The WebSocket client with a response per session and lower-priority
   messages that outlive sessions. *)
EXTENDS WSClient

Response(s) == [priority |-> 0, session |-> s, id |-> 0]
Event(p, n) == [priority |-> p, session |-> 0, id |-> n]

ResponsesAndEvents == {Response(s) : s \in Sessions} \cup {Event(1, 1), Event(3, 1)}

EventsAndResponse == {Response(1), Event(1, 1), Event(1, 2), Event(3, 1)}
=============================================================================
