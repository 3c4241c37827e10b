--------------------------- MODULE FrameAdmission ---------------------------
(***************************************************************************)
(* One cloud frame on its way through the daemon and back: the limits that *)
(* start-up computes (main.go), the checks HandleFrame makes and the reply *)
(* each failing one gets (handler.go), the NATS client's own checks of the *)
(* command, and what the device's result makes the daemon tell the cloud.  *)
(*                                                                         *)
(* The request manager appears only through what its calls return; its     *)
(* concurrency is the subject of RequestManager and Gateway.               *)
(*                                                                         *)
(* A frame is [size, shape, id, method, params].  Its shape is             *)
(*   "broken"      not JSON: no field of it can be read                    *)
(*   "mistyped"    jsonrpc or method (then "") has the wrong JSON type     *)
(*   "badVersion"  jsonrpc is not "2.0"                                    *)
(*   "ok"          none of these.                                          *)
(* Its id is "absent", "null", "bad" (an object, a boolean, "", ...) or a  *)
(* legal one.  A reply is [id, code, status]; code "result" is a JSON-RPC  *)
(* result whose status.error is status, any other code an error.           *)
(***************************************************************************)
EXTENDS CloudContracts

CONSTANTS
  Frame,       \* frames the cloud may send
  Envelope,    \* result envelopes the device may publish
  LimitValue   \* values of the limits in the environment and the configuration

ASSUME AdmissionConstants ==
  /\ LimitValue \subseteq Nat \ {0}
  /\ \A f \in Frame : f.size \in Nat /\ (f.shape = "broken" => f.id = "absent" /\ f.method = "")
  /\ \A f \in Frame : f.method \notin {"certupdate", "script"} /\ f.params.kind = "object" =>
                        f.params.decoded = 0  \* their request types have no base64 field

VARIABLES
  limits,      \* payloadLimit* of the frame handler, "absolute" included
  published,   \* the limits of package contracts (SetLimits)
  wsMaxFrame,  \* cfg.Cloud.MaxFrameSizeBytes
  phase,       \* where the frame in hand is
  frame,       \* the frame in hand; NoFrame before the first
  command,     \* the command made of it; <<>> if none was
  replies,     \* what the cloud was sent for it
  result,      \* the device result applied to it; <<>> if none was
  retained     \* an operation record was left behind for it (RespondAndRetain)

NoFrame == [shape |-> "none"]

limitVars     == <<limits, published, wsMaxFrame>>
requestVars   == <<phase, frame, command, replies, result, retained>>
admissionVars == <<limitVars, requestVars>>

LimitClasses == {"configure", "certupdate", "script", "default"}
LimitNames   == LimitClasses \cup {"absolute"}

AdmissionInit ==
  /\ limits = <<>>
  /\ published = <<>>
  /\ wsMaxFrame = 0
  /\ phase = "stopped"
  /\ frame = NoFrame
  /\ command = <<>>
  /\ replies = <<>>
  /\ result = <<>>
  /\ retained = FALSE

(* --- start-up ---------------------------------------------------------- *)
Lesser(a, b) == IF a < b THEN a ELSE b

Clamp(l, bound) == [c \in LimitNames |-> Lesser(l[c], bound)]

(* Faulty variant: only the absolute limit is clamped to the frame size. *)
FinalLimitsNoReclamp(env, ws) ==
  LET first == Clamp(env, env.absolute)
  IN  [first EXCEPT !.absolute = Lesser(@, ws)]

(* The method limits are clamped to the absolute one, then all of them to the
   transport's frame size. *)
FinalLimits(env, ws) == Clamp(Clamp(env, env.absolute), ws)

(* Faulty variant: the limits are published before the second clamp. *)
PublishedBeforeTransport(env, ws) ==
  [c \in LimitClasses \ {"default"} |-> Clamp(env, env.absolute)[c]]

(* SetLimits *)
PublishedLimits(env, ws) ==
  [c \in LimitClasses \ {"default"} |-> FinalLimits(env, ws)[c]]

StartUp ==
  /\ phase = "stopped"
  /\ \E env \in [LimitNames -> LimitValue], ws \in LimitValue :
       /\ limits' = FinalLimits(env, ws)
       /\ published' = PublishedLimits(env, ws)
       /\ wsMaxFrame' = ws
  /\ phase' = "ready"
  /\ UNCHANGED <<frame, command, replies, result, retained>>

(* --- HandleFrame ------------------------------------------------------- *)
IsNotification(f) == f.id \in {"absent", "null"}

validateJSONRPCID(id, allowNull) == id # "bad" /\ (id = "null" => allowNull)

(* Faulty variant: any id that is there is sent back. *)
ValidResponseIDUnchecked(id) ==
  IF id # "absent" THEN id ELSE "null"

ValidResponseID(id) ==
  IF id # "absent" /\ validateJSONRPCID(id, TRUE) THEN id ELSE "null"

getMethodPayloadLimit(method) ==
  limits[IF method \in LimitClasses \ {"default"} THEN method ELSE "default"]

(* JSONRPCRequest.Validate *)
ValidRequest(f) ==
  /\ f.shape # "badVersion"
  /\ f.method # ""
  /\ validateJSONRPCID(f.id, FALSE)
  /\ f.params.kind # "scalar"

(* uuidVal: "0" unless the configuration names a version. *)
EnvelopeUUID(f) ==
  LET uuid == ValidateAndGetUUID(f.params, published["configure"])
  IN  IF f.method = "configure" /\ uuid > 0 THEN uuid ELSE 0

NewCommand(f) ==
  [command       |-> getCommandAction[f.method].command,
   action        |-> getCommandAction[f.method].action,
   stateChanging |-> getCommandAction[f.method].stateChanging,
   uuid          |-> EnvelopeUUID(f)]

ValidParams(f) ==
  LET route == getCommandAction[f.method] IN
  IF route.command = "configure"
    THEN /\ f.params.kind = "configure"
         /\ ValidateAndGetUUID(f.params, published["configure"]) # Invalid
    ELSE ValidateCommandPayload(route.command, route.action, f.params, published)

(* Faulty variant: rtty, which changes no state, is let through. *)
MayNotBeNotifiedNoRTTY(method) ==
  getCommandAction[method].stateChanging

MayNotBeNotified(method) ==
  getCommandAction[method].stateChanging \/ method = "rtty"

(* GetSystemState() = StateNATSDegraded *)
Degraded(cloud, nats) == cloud = "connected" /\ nats = "connecting"

(* The checks in the order HandleFrame makes them. *)
Checks ==
  <<"absolute", "size", "parse", "request", "method", "params", "notification", "nats">>

Fails(check, f, cloud, nats) ==
  CASE check = "absolute"     -> f.size > limits.absolute
    [] check = "size"         -> f.size > getMethodPayloadLimit(f.method)
    [] check = "parse"        -> f.shape \in {"broken", "mistyped"}
    [] check = "request"      -> ~ValidRequest(f)
    [] check = "method"       -> f.method \notin Methods
    [] check = "params"       -> ~ValidParams(f)
    [] check = "notification" -> IsNotification(f) /\ MayNotBeNotified(f.method)
    [] check = "nats"         -> Degraded(cloud, nats)

Reply(id, code) == <<[id |-> id, code |-> code, status |-> 0]>>

Unless(silent, reply) == IF silent THEN <<>> ELSE reply

(* Faulty variant: a request is not answered while NATS is down. *)
SilentWhenDegraded(check, f) ==
  \/ check \in {"absolute", "notification", "nats"}
  \/ check \notin {"parse", "request"} /\ IsNotification(f)

(* What the check that fails first sends.  Parse and request errors are
   answered even without an id; an oversized frame's id is sent back as it
   came, before it was validated. *)
Silent(check, f) ==
  \/ check \in {"absolute", "notification"}
  \/ check \notin {"parse", "request"} /\ IsNotification(f)

ReplyID(check, f) ==
  IF check \in {"parse", "request"} THEN ValidResponseID(f.id) ELSE f.id

ErrorCode ==
  [size |-> "invalid params", parse |-> "parse error", request |-> "invalid request",
   method |-> "method not found", params |-> "invalid params", nats |-> "internal error"]

Rejection(check, f) ==
  IF Silent(check, f) THEN <<>> ELSE Reply(ReplyID(check, f), ErrorCode[check])

PhaseAfter(outcome) == IF outcome = "created" THEN "admitted" ELSE "over"

(* CreateTransaction admits, replays a cached reply, or refuses (capacity, the
   state lock, a duplicate, or an error). *)
Created(f, outcome) ==
  /\ outcome = "cached" => ~IsNotification(f)
  /\ phase' = PhaseAfter(outcome)
  /\ command' = IF outcome = "created" THEN <<NewCommand(f)>> ELSE <<>>
  /\ replies' = CASE outcome = "created" -> <<>>
                  [] outcome = "cached"  -> Reply(f.id, "cached")
                  [] outcome = "refused" -> Unless(IsNotification(f), Reply(f.id, "internal error"))

(* The reader hands over only frames that the transport's limit lets through. *)
HandleFrame(f, cloud, nats) ==
  LET failing == {i \in 1..Len(Checks) :
                    /\ \A j \in 1..(i - 1) : ~Fails(Checks[j], f, cloud, nats)
                    /\ Fails(Checks[i], f, cloud, nats)}
  IN
  /\ f.size <= wsMaxFrame
  /\ frame' = f
  /\ \/ \E i \in failing :
          /\ replies' = Rejection(Checks[i], f)
          /\ command' = <<>>
          /\ phase' = "over"
     \/ /\ failing = {}
        /\ \E outcome \in {"created", "cached", "refused"} : Created(f, outcome)
  /\ UNCHANGED <<limitVars, result, retained>>

ReceiveFrame ==
  /\ phase = "ready"
  /\ \E f \in Frame, cloud, nats \in {"connecting", "connected"} : HandleFrame(f, cloud, nats)

(* --- dispatch ---------------------------------------------------------- *)
(* The NATS client's checks, in SubmitConfigure and in ExecuteAction. *)
SubmitConfigure(cmd, params) ==
  /\ cmd.uuid > 0
  /\ ValidateAndGetUUID(params, published["configure"]) = cmd.uuid

ExecuteAction(cmd, params) ==
  /\ ValidCommandAction(cmd.command, cmd.action)
  /\ ValidateCommandPayload(cmd.command, cmd.action, params, published)

ClientAccepts(cmd, params) ==
  IF cmd.command = "configure" THEN SubmitConfigure(cmd, params) ELSE ExecuteAction(cmd, params)

(* Fail, with an error response for a request and nothing for a notification. *)
FailWith(code) ==
  /\ phase' = "over"
  /\ replies' = replies \o Unless(IsNotification(frame), Reply(frame.id, code))

(* executeTransaction, up to the broker's acceptance; it fails when the client
   refuses the command, the dispatch buffer is full or the broker cannot be
   reached. *)
Dispatch ==
  /\ phase = "admitted"
  /\ \/ ClientAccepts(command[1], frame.params) /\ phase' = "inflight" /\ UNCHANGED replies
     \/ FailWith("internal error")
  /\ UNCHANGED <<limitVars, frame, command, result, retained>>

(* --- the device's result ------------------------------------------------ *)
DeviceReply(res) ==
  Unless(IsNotification(frame),
         <<[id |-> frame.id, code |-> "result", status |-> ReportedError(res)]>>)

Accepted(res) == res.result = "success" /\ res.errorCode \in {"", "0"}

(* processNATSResult: an upgrade the device accepted becomes an operation that
   outlives its request, unless its record cannot be saved or a timeout comes
   during the save.  The cloud is then told of an error, and the record is left
   all the same if Save failed after its rename or the deletion fails. *)
ProcessResult(res) ==
  /\ result' = <<res>>
  /\ \/ /\ frame.method = "upgrade" => ~Accepted(res)
        /\ phase' = "over"
        /\ replies' = replies \o DeviceReply(res)
        /\ UNCHANGED retained
     \/ /\ frame.method = "upgrade" /\ Accepted(res)
        /\ \/ /\ phase' = "over"
              /\ replies' = replies \o DeviceReply(res)
              /\ retained' = TRUE
           \/ FailWith("internal error") /\ retained' \in BOOLEAN
  /\ UNCHANGED <<limitVars, frame, command>>

(* The subscriber drops an envelope that does not validate. *)
ReceiveResult ==
  /\ phase = "inflight"
  /\ \E res \in Envelope : validateResultEnvelope(res) /\ ProcessResult(res)

(* The transaction's timer, which also ends the wait for a result the client
   dropped. *)
TimeOut ==
  /\ phase \in {"admitted", "inflight"}
  /\ FailWith("internal error")
  /\ UNCHANGED <<limitVars, frame, command, result, retained>>

(* The reader's next turn.  Requests overlap in the daemon; what happens to one
   of them here does not depend on the others. *)
ReadNext ==
  /\ phase = "over"
  /\ phase' = "ready"
  /\ frame' = NoFrame
  /\ command' = <<>>
  /\ replies' = <<>>
  /\ result' = <<>>
  /\ retained' = FALSE
  /\ UNCHANGED limitVars

AdmissionNext ==
  \/ StartUp
  \/ ReceiveFrame
  \/ Dispatch
  \/ ReceiveResult
  \/ TimeOut
  \/ ReadNext

AdmissionSpec == AdmissionInit /\ [][AdmissionNext]_admissionVars

(* --- properties -------------------------------------------------------- *)
Started == phase # "stopped"
InHand  == Started /\ frame # NoFrame
LegalID(id) == id \notin {"absent", "null", "bad"}

(* A frame within the limit of its method is never one that the transport
   would have dropped the connection for, whatever limits the environment and
   the configuration give (initializeComponents clamps twice). *)
LimitsNested ==
  Started => /\ \A c \in LimitClasses : limits[c] <= limits.absolute
             /\ limits.absolute <= wsMaxFrame

(* What a command holds once it is decoded. *)
ContentSize(params) ==
  IF params.kind = "object" THEN params.decoded
  ELSE IF params.compressed = <<>> THEN 0 ELSE params.compressed[1].size

(* The decoded content of an admitted configure, certupdate or script request
   is within the handler's limit for its method: package contracts checks it
   against the limits that were published, which must be the final ones
   (SetLimits comes after both clamps). *)
ContentWithinLimit ==
  phase = "admitted" => ContentSize(frame.params) <= getMethodPayloadLimit(frame.method)

(* A request that HandleFrame admits is never refused by the NATS client's own
   checks: the method table, the command/action matrix, the payload validators
   and the uuid of the envelope agree on every command, compressed
   configurations included (handler.go, enums.go, envelopes.go, client.go). *)
AdmittedIsDispatchable ==
  phase = "admitted" => ClientAccepts(command[1], frame.params)

(* A request with a legal id that HandleFrame reads at all is answered exactly
   once, by the handler, the dispatcher, the result worker or the timeout, and
   not before it is over. *)
AnsweredOnce ==
  InHand /\ LegalID(frame.id) /\ frame.size <= limits.absolute =>
    Len(replies) = IF phase = "over" THEN 1 ELSE 0

(* A frame without an id never changes the device nor opens a remote shell, and
   nothing is sent for it but the null-id errors JSON-RPC prescribes (REQ-029). *)
NotificationInert ==
  InHand /\ IsNotification(frame) =>
    /\ command # <<>> => ~command[1].stateChanging /\ command[1].action # "rtty"
    /\ \A i \in 1..Len(replies) :
         replies[i].id = "null" /\ replies[i].code \in {"parse error", "invalid request"}

(* Every response satisfies JSONRPCResponse.Validate and carries the id of the
   frame it answers, or null where that id is unusable.  Frames over their
   method's limit are excepted: theirs is sent back unvalidated. *)
ResponsesWellFormed ==
  InHand /\ frame.size <= getMethodPayloadLimit(frame.method) =>
    \A i \in 1..Len(replies) :
      /\ validateJSONRPCID(replies[i].id, replies[i].code \in {"parse error", "invalid request"})
      /\ replies[i].id = IF LegalID(frame.id) THEN frame.id ELSE "null"

(* The cloud reads success in a result exactly when the device reported it,
   whatever error code came along (BuildDeviceResultObject; REQ-013). *)
StatusTruthful ==
  InHand => \A i \in 1..Len(replies) :
    replies[i].code = "result" => (replies[i].status = 0) <=> (result[1].result = "success")

(* An upgrade is reported as accepted only if an operation record was left for
   it: the cloud is never told that an upgrade runs while the daemon has given
   up on it.  The worker decides by result and error code, the response by the
   result alone; validateResultEnvelope makes them agree.  The converse does not
   hold: see ProcessResult. *)
ReportedUpgradeRetained ==
  InHand /\ frame.method = "upgrade" =>
    \A i \in 1..Len(replies) : replies[i].code = "result" /\ replies[i].status = 0 => retained
=============================================================================
