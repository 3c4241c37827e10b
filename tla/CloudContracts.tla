--------------------------- MODULE CloudContracts ---------------------------
(***************************************************************************)
(* The tables and validators the daemon shares between its cloud side and  *)
(* its device side: which device command a JSON-RPC method stands for, and *)
(* which request parameters, commands and results are acceptable           *)
(* (pkg/contracts, pkg/nats/client.go).                                    *)
(*                                                                         *)
(* Parameters are records.  kind "absent", "scalar" (null, a number, ...)  *)
(* and "array", which stands for all that does not decode into the request *)
(* type, have no fields.  kind "object" has                                *)
(*   serial   a serial is given                                            *)
(*   when     the "when" field                                             *)
(*   fields   the method's own fields are in range                         *)
(*   decoded  the size of the base64 content; 0 is none                    *)
(* kind "configure" has                                                    *)
(*   serial, uuid, when, compressSz   the fields of those names            *)
(*   config      "none", "accepted" or "refused" by the schema             *)
(*   configUUID  the uuid inside config; 0 is none                         *)
(*   compressed  <<>>, or <<what compress_64 inflates to>>: its size, and  *)
(*               the request it holds (kind "corrupt" when it holds none)  *)
(***************************************************************************)
EXTENDS Integers, Sequences

Route(command, action, stateChanging) ==
  [command |-> command, action |-> action, stateChanging |-> stateChanging]

getCommandAction ==
  [configure  |-> Route("configure", "", TRUE),
   reboot     |-> Route("reboot", "reboot", TRUE),
   factory    |-> Route("action", "factory", TRUE),
   leds       |-> Route("action", "leds", TRUE),
   upgrade    |-> Route("upgrade", "upgrade", TRUE),
   certupdate |-> Route("action", "certupdate", TRUE),
   reenroll   |-> Route("action", "reenroll", TRUE),
   script     |-> Route("script", "execute", TRUE),
   ping       |-> Route("action", "ping", FALSE),
   trace      |-> Route("action", "trace", FALSE),
   telemetry  |-> Route("action", "telemetry", FALSE),
   rtty       |-> Route("action", "rtty", FALSE)]

Methods == DOMAIN getCommandAction

ActionTypes == {"upgrade", "reboot", "execute", "factory", "certupdate", "reenroll",
                "rtty", "leds", "trace", "ping", "telemetry"}
ResultTypes == {"success", "rejected", "failure", "timeout", "rolled_back",
                "rollback_failed", "stale", "busy", "unsupported"}

ValidCommandAction(command, action) ==
  \/ command = "action" /\ action \in ActionTypes
  \/ command \in {"execute", "script"} /\ action = "execute"
  \/ command \in {"upgrade", "reboot"} /\ action = command
  \/ command = "configure" /\ action = ""

(* --- configure --------------------------------------------------------- *)
Invalid == -1

HasConfig(r)   == r.config # "none"
HasCompress(r) == r.compressed # <<>> \/ r.compressSz > 0

(* The inner config.uuid is authoritative; the request's own one stands in. *)
ConfigUUID(r) == IF r.configUUID > 0 THEN r.configUUID ELSE r.uuid

(* Faulty variant: the request's own uuid is not checked. *)
PlainUUIDUnchecked(r) ==
  IF /\ HasConfig(r) /\ ~HasCompress(r)
     /\ r.serial /\ r.when = 0
     /\ r.config = "accepted"
    THEN ConfigUUID(r)
    ELSE Invalid

(* ValidateAndGetUUID of a request that is not compressed. *)
PlainUUID(r) ==
  IF /\ HasConfig(r) /\ ~HasCompress(r)
     /\ r.serial /\ r.uuid > 0 /\ r.when = 0
     /\ r.config = "accepted"
    THEN ConfigUUID(r)
    ELSE Invalid

(* decompress: the declared size is bounded before anything is inflated, and
   the content must have exactly that size. *)
Inflates(r, maxConfigureSize) ==
  /\ r.compressed # <<>>
  /\ r.compressSz \in 1..maxConfigureSize
  /\ r.compressed[1].size = r.compressSz

(* One level only: a request inside a compressed one that is itself compressed,
   or declares a compressed size, fails PlainUUID. *)
ValidateAndGetUUID(r, maxConfigureSize) ==
  IF ~HasCompress(r) THEN PlainUUID(r)
  ELSE IF /\ ~HasConfig(r)
          /\ ~r.serial /\ r.uuid = 0 /\ r.when = 0
          /\ Inflates(r, maxConfigureSize)
          /\ r.compressed[1].request.kind = "configure"
    THEN PlainUUID(r.compressed[1].request)
    ELSE Invalid

(* --- the other commands ------------------------------------------------ *)
(* The request type ValidateCommandPayload decodes into, for the pairs that
   ValidCommandAction allows. *)
RequestType(command, action) ==
  IF action = "execute" THEN "script"
  ELSE IF command = "action" THEN action
  ELSE command

(* The Validate methods of the request types. *)
CloudRebootRequest(p)       == p.serial /\ p.when = 0
CloudReenrollRequest(p)     == p.serial /\ p.when = 0
CloudFactoryRequest(p)      == p.serial /\ p.fields /\ p.when = 0
CloudUpgradeRequest(p)      == p.serial /\ p.fields /\ p.when = 0
CloudTraceRequest(p)        == p.serial /\ p.fields /\ p.when = 0
CloudLedsRequest(p)         == p.serial /\ p.fields /\ p.when = 0
CloudPingRequest(p)         == p.serial
CloudTelemetryRequest(p)    == p.serial /\ p.fields
CloudRemoteAccessRequest(p) == p.serial /\ p.fields

CloudCertupdateRequest(p, maxCertUpdateSize) ==
  p.serial /\ p.fields /\ p.decoded \in 1..maxCertUpdateSize

(* A script that is fetched from a URI has no content here. *)
CloudScriptRequest(p, maxScriptSize) ==
  p.serial /\ p.fields /\ p.when = 0 /\ p.decoded <= maxScriptSize

ValidateCommandPayload(command, action, params, maxContentSize) ==
  LET type == RequestType(command, action) IN
  /\ params.kind = "object"
  /\ CASE type = "reboot"     -> CloudRebootRequest(params)
       [] type = "reenroll"   -> CloudReenrollRequest(params)
       [] type = "factory"    -> CloudFactoryRequest(params)
       [] type = "upgrade"    -> CloudUpgradeRequest(params)
       [] type = "trace"      -> CloudTraceRequest(params)
       [] type = "leds"       -> CloudLedsRequest(params)
       [] type = "ping"       -> CloudPingRequest(params)
       [] type = "telemetry"  -> CloudTelemetryRequest(params)
       [] type = "rtty"       -> CloudRemoteAccessRequest(params)
       [] type = "certupdate" -> CloudCertupdateRequest(params, maxContentSize.certupdate)
       [] type = "script"     -> CloudScriptRequest(params, maxContentSize.script)

(* --- results ----------------------------------------------------------- *)
(* A payload is "none" (empty or null), "valid" or "invalid" for its type.
   A ping result carries none; a generic execute command's is not looked at. *)
ValidateResultPayload(command, action, payload) ==
  \/ payload = "none"
  \/ command = "execute"
  \/ payload = "valid" /\ action # "ping"

(* Faulty variant: a success may carry any error code. *)
validateResultEnvelopeAnyCode(res) ==
  /\ res.addressed
  /\ res.result \in ResultTypes
  /\ ValidCommandAction(res.command, res.action)
  /\ res.command = "configure" => res.uuid > 0
  /\ ValidateResultPayload(res.command, res.action, res.payload)

(* addressed: version, target, rpc_id and timestamp are as they should be. *)
validateResultEnvelope(res) ==
  /\ res.addressed
  /\ res.result \in ResultTypes
  /\ res.result = "success" => res.errorCode \in {"", "0"}
  /\ ValidCommandAction(res.command, res.action)
  /\ res.command = "configure" => res.uuid > 0
  /\ ValidateResultPayload(res.command, res.action, res.payload)

(* fmt.Sscan of an error code; 0 stands for a failed scan as well. *)
Sscan(code) == IF code = "7" THEN 7 ELSE 0

(* Faulty variant: a code that is no number is reported as 0. *)
ReportedErrorNoDefault(res) ==
  IF res.result = "success" THEN 0 ELSE Sscan(res.errorCode)

(* BuildDeviceResultObject: the status.error the cloud is given. *)
ReportedError(res) ==
  IF res.result = "success" THEN 0
  ELSE IF Sscan(res.errorCode) = 0 THEN 1
  ELSE Sscan(res.errorCode)
=============================================================================
