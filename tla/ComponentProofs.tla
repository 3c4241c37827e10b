-------------------------- MODULE ComponentProofs --------------------------
(***************************************************************************)
(* Proofs about the components that take no part in a request's            *)
(* concurrency.                                                            *)
(*                                                                         *)
(* FrameAdmission, for every set of frames, of result envelopes and of     *)
(* limits: the limits nest, the daemon's two sides agree on what a valid   *)
(* command is, a request is answered exactly once, and what the cloud is   *)
(* told about an upgrade is what the daemon acts on.                       *)
(*                                                                         *)
(* The queue types: the ring buffer is a drop-oldest queue for every       *)
(* capacity, the coalescer never loses the newest report for any number of *)
(* flushers, the hysteresis monitor never flaps for any thresholds, and    *)
(* the scheduler starves no queue for any burst limit and capacity.        *)
(***************************************************************************)
EXTENDS FrameAdmission, MCQueues, TLAPS

(* --- the contract tables ------------------------------------------------ *)
(* Every pair the method table produces is allowed by the command/action
   matrix, and only configure becomes a configure command and only rtty opens
   a remote shell (getCommandAction, ValidCommandAction). *)
LEMMA RoutesAllowed ==
  ASSUME NEW m \in Methods
  PROVE  /\ ValidCommandAction(getCommandAction[m].command, getCommandAction[m].action)
         /\ getCommandAction[m].command = "configure" <=> m = "configure"
         /\ getCommandAction[m].action = "rtty" => m = "rtty"
<1> DEFINE Routed(n, c, a) == getCommandAction[n].command = c /\ getCommandAction[n].action = a
<1>1. m \in {"configure", "reboot", "factory", "leds", "upgrade", "certupdate", "reenroll",
            "script", "ping", "trace", "telemetry", "rtty"}
  BY DEF Methods, getCommandAction
<1>2. /\ Routed("configure", "configure", "")
      /\ Routed("reboot", "reboot", "reboot") /\ Routed("upgrade", "upgrade", "upgrade")
      /\ Routed("script", "script", "execute")
      /\ Routed("factory", "action", "factory") /\ Routed("leds", "action", "leds")
      /\ Routed("certupdate", "action", "certupdate") /\ Routed("reenroll", "action", "reenroll")
      /\ Routed("ping", "action", "ping") /\ Routed("trace", "action", "trace")
      /\ Routed("telemetry", "action", "telemetry") /\ Routed("rtty", "action", "rtty")
  BY Zenon DEF getCommandAction, Route
<1>3. CASE m = "configure"
  BY <1>2, <1>3, Zenon DEF ValidCommandAction
<1>4. CASE m \in {"reboot", "upgrade", "script"}
  BY <1>2, <1>4, ZenonT(40) DEF ValidCommandAction
<1>5. CASE m \notin {"configure", "reboot", "upgrade", "script"}
  <2>1. m \in ActionTypes /\ Routed(m, "action", m)
    BY <1>1, <1>2, <1>5, ZenonT(40) DEF ActionTypes
  <2> QED
    BY <1>5, <2>1 DEF ValidCommandAction
<1> QED
  BY <1>3, <1>4, <1>5

(* A configuration that validates names a positive version, compressed or not
   (ValidateAndGetUUID). *)
LEMMA ValidUUIDPositive ==
  ASSUME NEW r, NEW max, ValidateAndGetUUID(r, max) # Invalid
  PROVE  ValidateAndGetUUID(r, max) > 0
<1>1. ASSUME NEW p, PlainUUID(p) # Invalid
      PROVE  PlainUUID(p) > 0
  BY <1>1 DEF PlainUUID, ConfigUUID
<1>2. CASE ~HasCompress(r)
  BY <1>1, <1>2 DEF ValidateAndGetUUID
<1>3. CASE HasCompress(r)
  BY <1>1, <1>3 DEF ValidateAndGetUUID
<1> QED
  BY <1>2, <1>3

(* A command made of a request whose parameters validate passes the NATS
   client's checks (HandleFrame against SubmitConfigure and ExecuteAction). *)
LEMMA ValidRequestAccepted ==
  ASSUME NEW f, f.method \in Methods, ValidParams(f)
  PROVE  ClientAccepts(NewCommand(f), f.params)
<1> DEFINE route == getCommandAction[f.method]
<1>1. /\ NewCommand(f).command = route.command
      /\ NewCommand(f).action = route.action
      /\ NewCommand(f).uuid = EnvelopeUUID(f)
  BY DEF NewCommand
<1>2. CASE f.method = "configure"
  <2>1. route.command = "configure"
    BY <1>2, RoutesAllowed
  <2>2. ValidateAndGetUUID(f.params, published["configure"]) # Invalid
    BY <2>1 DEF ValidParams
  <2>3. ValidateAndGetUUID(f.params, published["configure"]) > 0
    BY <2>2, ValidUUIDPositive
  <2>4. EnvelopeUUID(f) = ValidateAndGetUUID(f.params, published["configure"])
    BY <1>2, <2>3 DEF EnvelopeUUID
  <2> QED
    BY <1>1, <2>1, <2>3, <2>4 DEF ClientAccepts, SubmitConfigure
<1>3. CASE f.method # "configure"
  <2>1. route.command # "configure" /\ ValidCommandAction(route.command, route.action)
    BY <1>3, RoutesAllowed
  <2>2. ValidateCommandPayload(route.command, route.action, f.params, published)
    BY <2>1 DEF ValidParams
  <2> QED
    BY <1>1, <2>1, <2>2 DEF ClientAccepts, ExecuteAction
<1> QED
  BY <1>2, <1>3

(* --- replies ------------------------------------------------------------ *)
CheckNames ==
  {"absolute", "size", "parse", "request", "method", "params", "notification", "nats"}

(* The checks are the eight named ones, in order (HandleFrame). *)
LEMMA ChecksListed ==
  /\ Len(Checks) = 8
  /\ \A i \in 1..8 : Checks[i] \in CheckNames
  /\ Checks[1] = "absolute" /\ Checks[2] = "size" /\ Checks[3] = "parse"
  /\ Checks[4] = "request" /\ Checks[5] = "method" /\ Checks[6] = "params"
  /\ Checks[7] = "notification" /\ Checks[8] = "nats"
  BY DEF Checks, CheckNames

(* No check fails first only if none fails. *)
LEMMA NoneFirstNoneFails ==
  ASSUME NEW f, NEW cloud, NEW nats,
         \A i \in 1..8 : ~(/\ \A j \in 1..(i - 1) : ~Fails(Checks[j], f, cloud, nats)
                           /\ Fails(Checks[i], f, cloud, nats))
  PROVE  \A i \in 1..8 : ~Fails(Checks[i], f, cloud, nats)
<1> DEFINE P(i) == Fails(Checks[i], f, cloud, nats)
<1> HIDE DEF P
<1>0. \A i \in 1..8 : ~((\A j \in 1..(i - 1) : ~P(j)) /\ P(i))
  BY DEF P
<1>1. ~P(1)
  BY <1>0
<1>2. ~P(2)
  BY <1>0, <1>1
<1>3. ~P(3)
  BY <1>0, <1>1, <1>2
<1>4. ~P(4)
  BY <1>0, <1>1, <1>2, <1>3
<1>5. ~P(5)
  BY <1>0, <1>1, <1>2, <1>3, <1>4
<1>6. ~P(6)
  BY <1>0, <1>1, <1>2, <1>3, <1>4, <1>5
<1>7. ~P(7)
  BY <1>0, <1>1, <1>2, <1>3, <1>4, <1>5, <1>6
<1>8. ~P(8)
  BY <1>0, <1>1, <1>2, <1>3, <1>4, <1>5, <1>6, <1>7
<1> QED
  BY <1>1, <1>2, <1>3, <1>4, <1>5, <1>6, <1>7, <1>8 DEF P

(* Adding at most one reply to none leaves at most that one (pushResponse). *)
LEMMA FirstReply ==
  ASSUME NEW silent, NEW r
  PROVE  /\ <<>> \o Unless(silent, <<r>>) = Unless(silent, <<r>>)
         /\ silent => Unless(silent, <<r>>) = <<>>
         /\ ~silent => Unless(silent, <<r>>) = <<r>> /\ Len(<<r>>) = 1 /\ <<r>>[1] = r
  BY DEF Unless

(* What is in a list of at most one reply. *)
LEMMA OnlyReply ==
  ASSUME NEW r, NEW s, s = <<>> \/ s = <<r>>
  PROVE  \A i \in 1..Len(s) : s[i] = r
<1>1. CASE s = <<>>
  BY <1>1
<1>2. CASE s = <<r>>
  BY <1>2
<1> QED
  BY <1>1, <1>2

(* A failing check sends an error or nothing, and nothing only to a frame that
   is too large for the daemon or that asks for no answer. *)
LEMMA RejectionIsError ==
  ASSUME NEW f, NEW check \in CheckNames
  PROVE  \/ /\ Rejection(check, f) = <<>>
            /\ check = "absolute" \/ check = "notification" \/ IsNotification(f)
         \/ \E id, code : code # "result" /\ Rejection(check, f) = Reply(id, code)
<1>1. CASE Silent(check, f)
  BY <1>1 DEF Rejection, Silent
<1>2. CASE ~Silent(check, f)
  <2>1. check \in CheckNames \ {"absolute", "notification"}
    BY <1>2 DEF Silent
  <2>2. /\ ErrorCode["size"] # "result" /\ ErrorCode["parse"] # "result"
        /\ ErrorCode["request"] # "result" /\ ErrorCode["method"] # "result"
        /\ ErrorCode["params"] # "result" /\ ErrorCode["nats"] # "result"
    BY DEF ErrorCode
  <2>3. ErrorCode[check] # "result"
    BY <2>1, <2>2 DEF CheckNames
  <2> QED
    BY <1>2, <2>3 DEF Rejection
<1> QED
  BY <1>1, <1>2

(* --- the inductive invariant -------------------------------------------- *)
(* Nothing has been sent while a request is under way, an upgrade under way is
   never a notification, and the properties themselves. *)
Fresh ==
  command = <<>> /\ replies = <<>> /\ result = <<>> /\ retained = FALSE /\ frame = NoFrame

UnderWay == phase \in {"admitted", "inflight"}

AdmissionInv ==
  /\ phase \in {"stopped", "ready", "admitted", "inflight", "over"}
  /\ phase \in {"stopped", "ready"} => Fresh
  /\ UnderWay => replies = <<>> /\ result = <<>> /\ retained = FALSE
  /\ UnderWay /\ frame.method = "upgrade" => ~IsNotification(frame)
  /\ Started => limits \in [LimitNames -> Nat] /\ wsMaxFrame \in Nat
  /\ LimitsNested
  /\ AdmittedIsDispatchable
  /\ AnsweredOnce
  /\ StatusTruthful
  /\ ReportedUpgradeRetained

(* Start-up establishes the limits, whatever values it is given. *)
LEMMA StartUpPreserves ==
  ASSUME AdmissionInv, StartUp
  PROVE  AdmissionInv'
<1>1. PICK env \in [LimitNames -> LimitValue], ws \in LimitValue :
        limits' = FinalLimits(env, ws) /\ wsMaxFrame' = ws
  BY DEF StartUp
<1>2. ws \in Nat /\ \A c \in LimitNames : env[c] \in Nat
  BY <1>1, AdmissionConstants, Zenon
<1>3. \A c \in LimitNames :
        /\ limits'[c] = Lesser(Lesser(env[c], env["absolute"]), ws)
        /\ limits'[c] \in Nat /\ limits'[c] <= limits'["absolute"] /\ limits'[c] <= ws
  BY <1>1, <1>2 DEF FinalLimits, Clamp, Lesser, LimitNames
<1>4. limits' \in [LimitNames -> Nat]
  BY <1>1, <1>3, Zenon DEF FinalLimits, Clamp
<1>5. LimitsNested'
  BY <1>1, <1>3 DEF LimitsNested, Started, LimitNames
<1>6. phase = "stopped" /\ phase' = "ready" /\ Fresh'
  BY DEF StartUp, AdmissionInv, Fresh
<1> QED
  BY <1>1, <1>2, <1>4, <1>5, <1>6
  DEF AdmissionInv, Fresh, UnderWay, AdmittedIsDispatchable, AnsweredOnce, StatusTruthful,
      ReportedUpgradeRetained, InHand

(* The limits are set once. *)
LEMMA LimitsStay ==
  ASSUME AdmissionInv, UNCHANGED limitVars, Started, Started'
  PROVE  /\ (Started => limits \in [LimitNames -> Nat] /\ wsMaxFrame \in Nat)'
         /\ LimitsNested'
  BY DEF AdmissionInv, limitVars, LimitsNested

(* A frame is rejected with the reply it is owed, or admitted with a command
   that the NATS client accepts (HandleFrame). *)
LEMMA HandleFramePreserves ==
  ASSUME AdmissionInv, phase = "ready", NEW f \in Frame, NEW cloud, NEW nats,
         HandleFrame(f, cloud, nats)
  PROVE  AdmissionInv'
<1> DEFINE fails(i) == Fails(Checks[i], f, cloud, nats)
           failing  == {i \in 1..Len(Checks) : (\A j \in 1..(i - 1) : ~fails(j)) /\ fails(i)}
<1>1. /\ frame' = f
      /\ UNCHANGED <<limitVars, result, retained>>
      /\ \/ \E i \in failing :
              replies' = Rejection(Checks[i], f) /\ command' = <<>> /\ phase' = "over"
         \/ /\ failing = {}
            /\ \E outcome \in {"created", "cached", "refused"} : Created(f, outcome)
  BY DEF HandleFrame
<1>2. result' = <<>> /\ retained' = FALSE
  BY <1>1 DEF AdmissionInv, Fresh
<1>3. f.size \in Nat /\ limits["absolute"] \in Nat
  BY AdmissionConstants, Zenon DEF AdmissionInv, Started, LimitNames
<1>5. ASSUME NEW i \in failing,
             replies' = Rejection(Checks[i], f), command' = <<>>, phase' = "over"
      PROVE  AdmissionInv'
  <2>1. Checks[i] \in CheckNames /\ fails(i)
    BY <1>5, ChecksListed
  <2>2. /\ Checks[i] = "absolute" => f.size > limits["absolute"]
        /\ Checks[i] = "notification" => IsNotification(f)
    BY <2>1, Zenon DEF Fails
  <2>3. LegalID(f.id) => ~IsNotification(f)
    BY DEF LegalID, IsNotification
  <2>4. PICK id, code : \/ /\ replies' = <<>>
                           /\ \/ Checks[i] = "absolute" \/ Checks[i] = "notification"
                              \/ IsNotification(f)
                        \/ code # "result" /\ replies' = Reply(id, code)
    BY <1>5, <2>1, RejectionIsError, Zenon
  <2>5. replies' # <<>> => Len(replies') = 1 /\ replies'[1].code # "result"
    BY <2>4 DEF Reply
  <2>6. AnsweredOnce'
    <3>1. SUFFICES ASSUME LegalID(f.id), f.size <= limits["absolute"]
                   PROVE  Len(replies') = 1
      BY <1>1, <1>5 DEF AnsweredOnce, limitVars, LegalID
    <3>2. replies' # <<>>
      <4>1. Checks[i] # "absolute"
        BY <1>3, <2>2, <3>1
      <4>2. replies' = Reply(id, code)
        BY <2>2, <2>3, <2>4, <3>1, <4>1
      <4> QED
        BY <4>2 DEF Reply
    <3> QED
      BY <2>5, <3>2
  <2>7. StatusTruthful'
    BY <2>4, <2>5 DEF StatusTruthful
  <2>8. Started /\ Started'
    BY <1>5 DEF Started
  <2>9. ReportedUpgradeRetained'
    BY <2>4, <2>5 DEF ReportedUpgradeRetained
  <2> QED
    BY <1>1, <1>2, <1>5, <2>6, <2>7, <2>8, <2>9, LimitsStay
    DEF AdmissionInv, UnderWay, AdmittedIsDispatchable
<1>6. ASSUME failing = {}, NEW outcome \in {"created", "cached", "refused"}, Created(f, outcome)
      PROVE  AdmissionInv'
  <2>1. \A i \in 1..8 : ~fails(i)
    BY <1>6, ChecksListed, NoneFirstNoneFails
  <2>2. f.method \in Methods /\ ValidParams(f)
    <3>1. ~Fails("method", f, cloud, nats) /\ ~Fails("params", f, cloud, nats)
      BY <2>1, ChecksListed
    <3> QED
      BY <3>1 DEF Fails
  <2>3. f.method = "upgrade" => ~IsNotification(f)
    <3>1. ~Fails("notification", f, cloud, nats)
      BY <2>1, ChecksListed
    <3>2. MayNotBeNotified("upgrade")
      BY DEF MayNotBeNotified, getCommandAction, Route
    <3> QED
      BY <3>1, <3>2 DEF Fails
  <2>4. Started /\ Started'
    BY <1>6, Zenon DEF Created, PhaseAfter, Started
  <2>5. LegalID(f.id) => ~IsNotification(f)
    BY DEF LegalID, IsNotification
  <2>6. CASE outcome = "created"
    <3>1. phase' = "admitted" /\ command' = <<NewCommand(f)>> /\ replies' = <<>>
      BY <1>6, <2>6 DEF Created, PhaseAfter
    <3>2. ClientAccepts(NewCommand(f), f.params)
      BY <2>2, ValidRequestAccepted
    <3>3. ClientAccepts(command[1], frame.params)'
      BY <1>1, <3>1, <3>2, Zenon
      DEF ClientAccepts, SubmitConfigure, ExecuteAction, limitVars
    <3>4. AdmittedIsDispatchable' /\ AnsweredOnce' /\ StatusTruthful'
      BY <3>1, <3>3 DEF AdmittedIsDispatchable, AnsweredOnce, StatusTruthful
    <3>5. ReportedUpgradeRetained'
      BY <3>1 DEF ReportedUpgradeRetained
    <3> QED
      BY <1>1, <1>2, <3>5, <2>3, <2>4, <3>1, <3>4, LimitsStay
      DEF AdmissionInv, UnderWay, IsNotification
  <2>7. CASE outcome # "created"
    <3>1. phase' = "over" /\ command' = <<>>
      BY <1>6, <2>7, Zenon DEF Created, PhaseAfter
    <3>2. PICK code : /\ code # "result"
                      /\ \/ replies' = <<>> /\ IsNotification(f)
                         \/ replies' = Reply(f.id, code)
      BY <1>6, <2>7, Zenon DEF Created, Unless
    <3>3. replies' # <<>> => Len(replies') = 1 /\ replies'[1].code # "result"
      BY <3>2 DEF Reply
    <3>4. AnsweredOnce' /\ StatusTruthful' /\ AdmittedIsDispatchable'
      <4>1. LegalID(f.id) => Len(replies') = 1
        BY <2>5, <3>2, <3>3 DEF Reply
      <4>2. AnsweredOnce'
        BY <1>1, <3>1, <4>1, Zenon DEF AnsweredOnce, LegalID
      <4>3. StatusTruthful'
        BY <3>2, <3>3 DEF StatusTruthful
      <4> QED
        BY <3>1, <4>2, <4>3, Zenon DEF AdmittedIsDispatchable
    <3>5. ReportedUpgradeRetained'
      BY <3>2, <3>3 DEF ReportedUpgradeRetained
    <3> QED
      BY <1>1, <1>2, <2>4, <3>1, <3>4, <3>5, LimitsStay DEF AdmissionInv, UnderWay
  <2> QED
    BY <2>6, <2>7
<1> QED
  BY <1>1, <1>5, <1>6

(* A request that fails under way is answered with an error (failTransaction,
   handleTimeout). *)
LEMMA FailPreserves ==
  ASSUME AdmissionInv, UnderWay, FailWith("internal error"), UNCHANGED <<limitVars, frame>>
  PROVE  AdmissionInv'
<1> DEFINE reply == [id |-> frame.id, code |-> "internal error", status |-> 0]
<1>1. phase' = "over" /\ Started /\ Started'
  BY Zenon DEF FailWith, Started, UnderWay
<1>3. replies' = Unless(IsNotification(frame), <<reply>>)
  BY FirstReply, Zenon DEF AdmissionInv, FailWith, Reply
<1>4. /\ IsNotification(frame) => replies' = <<>>
      /\ ~IsNotification(frame) => replies' = <<reply>>
  BY <1>3, Zenon DEF Unless
<1>5. AnsweredOnce'
  BY <1>1, <1>4, Zenon DEF AnsweredOnce, LegalID, IsNotification
<1>6. \A i \in 1..Len(replies') : replies'[i].code # "result"
  <2>1. reply.code # "result"
    BY Zenon
  <2>2. replies' = <<>> \/ replies' = <<reply>>
    BY <1>3, Zenon DEF Unless
  <2> HIDE DEF reply
  <2>3. \A i \in 1..Len(replies') : replies'[i] = reply
    BY <2>2, OnlyReply, Zenon
  <2> QED
    BY <2>1, <2>3, Zenon
<1>7. StatusTruthful'
  BY <1>6, Zenon DEF StatusTruthful
<1>9. ReportedUpgradeRetained'
  BY <1>6, Zenon DEF ReportedUpgradeRetained
<1> QED
  BY <1>1, <1>5, <1>7, <1>9, LimitsStay, Zenon DEF AdmissionInv, UnderWay, AdmittedIsDispatchable

(* The status the cloud reads is 0 exactly for a success, and the error code of
   a success that validates says so too. *)
LEMMA ReportAgrees ==
  ASSUME NEW res
  PROVE  /\ (ReportedError(res) = 0) <=> (res.result = "success")
         /\ validateResultEnvelope(res) => (Accepted(res) <=> res.result = "success")
<1>1. CASE res.result = "success"
  <2>1. ReportedError(res) = 0
    BY <1>1 DEF ReportedError
  <2>2. validateResultEnvelope(res) => Accepted(res)
    BY <1>1, Zenon DEF validateResultEnvelope, Accepted
  <2> QED
    BY <1>1, <2>1, <2>2
<1>2. CASE res.result # "success"
  <2>1. ReportedError(res) # 0
    BY <1>2 DEF ReportedError
  <2>2. ~Accepted(res)
    BY <1>2, Zenon DEF Accepted
  <2> QED
    BY <1>2, <2>1, <2>2
<1> QED
  BY <1>1, <1>2

(* A result is passed on as the device gave it, and an upgrade whose acceptance
   is reported is kept (processNATSResult). *)
LEMMA ResultPreserves ==
  ASSUME AdmissionInv, phase = "inflight", NEW res, validateResultEnvelope(res),
         ProcessResult(res)
  PROVE  AdmissionInv'
<1> DEFINE reply == [id |-> frame.id, code |-> "result", status |-> ReportedError(res)]
<1>1. UNCHANGED <<limitVars, frame>> /\ result' = <<res>>
  BY Zenon DEF ProcessResult
<1>2. CASE FailWith("internal error")
  BY <1>1, <1>2, FailPreserves, Zenon DEF AdmissionInv, UnderWay
<1>3. ASSUME phase' = "over", replies' = replies \o DeviceReply(res),
             retained' = (frame.method = "upgrade" /\ Accepted(res))
      PROVE  AdmissionInv'
  <2>1. Started /\ Started'
    BY <1>3 DEF Started
  <2>3. replies' = Unless(IsNotification(frame), <<reply>>)
    BY <1>3, FirstReply DEF AdmissionInv, UnderWay, DeviceReply
  <2>4. /\ IsNotification(frame) => replies' = <<>>
        /\ ~IsNotification(frame) => replies' = <<reply>>
    BY <2>3 DEF Unless
  <2>5. AnsweredOnce'
    BY <1>1, <1>3, <2>4 DEF AnsweredOnce, LegalID, IsNotification
  <2>6. StatusTruthful'
    BY <1>1, <2>4, ReportAgrees DEF StatusTruthful
  <2>7. ReportedUpgradeRetained'
    <3>1. SUFFICES ASSUME frame.method = "upgrade"
                   PROVE  \A i \in 1..Len(replies') :
                            replies'[i].code = "result" /\ replies'[i].status = 0 => retained'
      BY <1>1 DEF ReportedUpgradeRetained
    <3>2. replies' = <<reply>>
      BY <2>4, <3>1 DEF AdmissionInv, UnderWay
    <3>3. Len(replies') = 1 /\ replies'[1].code = "result" /\ replies'[1].status = ReportedError(res)
      BY <3>2
    <3>4. ReportedError(res) = 0 => retained'
      BY <1>3, <3>1, ReportAgrees, Zenon
    <3> QED
      BY <3>3, <3>4
  <2> QED
    BY <1>1, <1>3, <2>1, <2>5, <2>6, <2>7, LimitsStay, Zenon
    DEF AdmissionInv, UnderWay, AdmittedIsDispatchable
<1>4. retained = FALSE
  BY DEF AdmissionInv, UnderWay
<1> QED
  BY <1>2, <1>3, <1>4, Zenon DEF ProcessResult

(* Each step of FrameAdmission preserves the invariant. *)
LEMMA AdmissionPreserves ==
  ASSUME AdmissionInv, [AdmissionNext]_admissionVars
  PROVE  AdmissionInv'
<1>1. CASE StartUp
  BY <1>1, StartUpPreserves
<1>2. CASE ReceiveFrame
  BY <1>2, HandleFramePreserves DEF ReceiveFrame
<1>3. CASE Dispatch
  <2>1. UNCHANGED <<limitVars, frame, command, result, retained>> /\ phase = "admitted"
    BY <1>3, Zenon DEF Dispatch
  <2>2. CASE phase' = "inflight" /\ UNCHANGED replies
    <3>1. Started /\ Started'
      BY <2>1, <2>2 DEF Started
    <3>2. replies' = <<>> /\ result' = <<>> /\ retained' = FALSE
      BY <2>1, <2>2 DEF AdmissionInv, UnderWay
    <3>3. AnsweredOnce' /\ StatusTruthful' /\ ReportedUpgradeRetained'
      BY <2>2, <3>2 DEF AnsweredOnce, StatusTruthful, ReportedUpgradeRetained
    <3>4. (UnderWay /\ frame.method = "upgrade" => ~IsNotification(frame))'
      BY <2>1 DEF AdmissionInv, UnderWay, IsNotification
    <3> QED
      BY <2>1, <2>2, <3>1, <3>2, <3>3, <3>4, LimitsStay, Zenon
      DEF AdmissionInv, UnderWay, AdmittedIsDispatchable
  <2>3. CASE FailWith("internal error")
    BY <2>1, <2>3, FailPreserves, Zenon DEF AdmissionInv, UnderWay
  <2> QED
    BY <1>3, <2>2, <2>3, Zenon DEF Dispatch
<1>4. CASE ReceiveResult
  BY <1>4, ResultPreserves DEF ReceiveResult
<1>5. CASE TimeOut
  BY <1>5, FailPreserves, Zenon DEF TimeOut, AdmissionInv, UnderWay
<1>6. CASE ReadNext
  <2>1. Started /\ Started' /\ phase' = "ready" /\ Fresh' /\ UNCHANGED limitVars
    BY <1>6, ZenonT(40) DEF ReadNext, Started, Fresh
  <2> QED
    BY <2>1, LimitsStay, Zenon
    DEF AdmissionInv, Fresh, UnderWay, AdmittedIsDispatchable, AnsweredOnce, StatusTruthful,
        ReportedUpgradeRetained, InHand
<1>7. CASE UNCHANGED admissionVars
  BY <1>7
  DEF AdmissionInv, admissionVars, limitVars, requestVars, Fresh, UnderWay, Started, InHand,
      LimitsNested, AdmittedIsDispatchable, ClientAccepts, SubmitConfigure, ExecuteAction,
      AnsweredOnce, StatusTruthful, ReportedUpgradeRetained, IsNotification, LegalID
<1> QED
  BY <1>1, <1>2, <1>3, <1>4, <1>5, <1>6, <1>7 DEF AdmissionNext

(* The invariant holds of every behaviour. *)
LEMMA AdmissionInvariance == AdmissionSpec => []AdmissionInv
<1>1. AdmissionInit => AdmissionInv
  BY ZenonT(40) DEF AdmissionInit, AdmissionInv, Fresh, UnderWay, Started, LimitsNested, InHand,
         AdmittedIsDispatchable, AnsweredOnce, StatusTruthful, ReportedUpgradeRetained
<1> QED
  BY <1>1, AdmissionPreserves, PTL DEF AdmissionSpec

(* --- what is sent for whom ---------------------------------------------- *)
NullIDCodes == {"parse error", "invalid request"}

(* What a notification may be sent, and what a response to f looks like. *)
NullError(reply)     == reply.id = "null" /\ reply.code \in NullIDCodes
WellFormed(reply, f) ==
  /\ validateJSONRPCID(reply.id, reply.code \in NullIDCodes)
  /\ reply.id = IF LegalID(f.id) THEN f.id ELSE "null"

(* The validators work with the final limits, a request under way has a usable
   id or none, and the properties themselves. *)
ContentInv ==
  /\ Started => \A c \in LimitClasses \ {"default"} : published[c] = limits[c]
  /\ UnderWay => frame.id # "bad"
  /\ ContentWithinLimit
  /\ NotificationInert
  /\ ResponsesWellFormed

(* An error is sent with a null id only where the id is unusable, and only by the
   checks that come before it is known to be usable; the other checks answer
   requests only (HandleFrame). *)
LEMMA RejectionIDs ==
  ASSUME NEW f, NEW check \in CheckNames
  PROVE  \/ Rejection(check, f) = <<>>
         \/ \E reply :
              /\ Rejection(check, f) = <<reply>>
              /\ IF check \in {"parse", "request"}
                   THEN reply.id = ValidResponseID(f.id) /\ reply.code \in NullIDCodes
                   ELSE reply.id = f.id /\ ~IsNotification(f)
<1>1. CASE Silent(check, f)
  BY <1>1 DEF Rejection
<1>2. CASE ~Silent(check, f)
  <2> DEFINE reply == [id |-> ReplyID(check, f), code |-> ErrorCode[check], status |-> 0]
  <2>1. Rejection(check, f) = <<reply>>
    BY <1>2 DEF Rejection, Reply
  <2>2. reply.id = ReplyID(check, f) /\ reply.code = ErrorCode[check]
    OBVIOUS
  <2>3. ErrorCode["parse"] \in NullIDCodes /\ ErrorCode["request"] \in NullIDCodes
    BY DEF ErrorCode, NullIDCodes
  <2>4. check \in {"parse", "request"} \/ ~IsNotification(f)
    BY <1>2 DEF Silent
  <2> HIDE DEF reply
  <2> QED
    BY <2>1, <2>2, <2>3, <2>4 DEF ReplyID
<1> QED
  BY <1>1, <1>2

(* A reply with the frame's own id is well formed if the id is usable, and one
   with the id ValidResponseID chooses always is. *)
LEMMA ReplyIDs ==
  ASSUME NEW f, NEW reply
  PROVE  /\ reply.id = f.id /\ ~IsNotification(f) /\ f.id # "bad" => WellFormed(reply, f)
         /\ reply.id = ValidResponseID(f.id) /\ reply.code \in NullIDCodes =>
              /\ WellFormed(reply, f)
              /\ IsNotification(f) => NullError(reply)
  BY DEF WellFormed, NullError, IsNotification, LegalID, ValidResponseID, validateJSONRPCID

(* The properties in terms of the single reply. *)
LEMMA OneReplyProperties ==
  ASSUME NEW reply, replies' = <<>> \/ replies' = <<reply>>,
         replies' # <<>> /\ IsNotification(frame') => NullError(reply),
         replies' # <<>> /\ (frame.size <= getMethodPayloadLimit(frame.method))' =>
           WellFormed(reply, frame'),
         (command # <<>> /\ IsNotification(frame) =>
            ~command[1].stateChanging /\ command[1].action # "rtty")'
  PROVE  NotificationInert' /\ ResponsesWellFormed'
<1>1. \A i \in 1..Len(replies') : replies'[i] = reply
  BY OnlyReply
<1>2. \A i \in 1..Len(replies') : replies' # <<>>
  OBVIOUS
<1>3. NotificationInert'
  BY <1>1, <1>2, Zenon DEF NotificationInert, NullError, NullIDCodes
<1>4. ResponsesWellFormed'
  BY <1>1, <1>2, Zenon DEF ResponsesWellFormed, WellFormed, NullIDCodes
<1> QED
  BY <1>3, <1>4

(* The content of a request whose parameters validate is within its method's
   limit, inflated or decoded (ValidateAndGetUUID, ValidateCommandPayload). *)
LEMMA ValidContentFits ==
  ASSUME NEW f \in Frame, f.method \in Methods, ValidParams(f), limits \in [LimitNames -> Nat],
         \A c \in LimitClasses \ {"default"} : published[c] = limits[c]
  PROVE  ContentSize(f.params) <= getMethodPayloadLimit(f.method)
<1> DEFINE route == getCommandAction[f.method]
<1>1. /\ published["configure"] = limits["configure"] /\ limits["configure"] \in Nat
      /\ published["certupdate"] = limits["certupdate"] /\ limits["certupdate"] \in Nat
      /\ published["script"] = limits["script"] /\ limits["script"] \in Nat
      /\ limits["default"] \in Nat
  BY DEF LimitClasses, LimitNames
<1>2. CASE f.method = "configure"
  <2>1. route.command = "configure"
    BY <1>2, RoutesAllowed
  <2>2. /\ f.params.kind = "configure"
        /\ ValidateAndGetUUID(f.params, published["configure"]) # Invalid
    BY <2>1, ZenonT(40) DEF ValidParams
  <2>3. CASE f.params.compressed = <<>>
    BY <1>1, <1>2, <2>2, <2>3 DEF ContentSize, getMethodPayloadLimit, LimitClasses
  <2>4. CASE f.params.compressed # <<>>
    <3>1. Inflates(f.params, published["configure"])
      BY <2>2, <2>4, Zenon DEF ValidateAndGetUUID, HasCompress
    <3> QED
      BY <1>1, <1>2, <2>2, <2>4, <3>1
      DEF Inflates, ContentSize, getMethodPayloadLimit, LimitClasses
  <2> QED
    BY <2>3, <2>4
<1>3. ASSUME f.method # "configure"
      PROVE  /\ f.params.kind = "object"
             /\ ValidateCommandPayload(route.command, route.action, f.params, published)
             /\ ContentSize(f.params) = f.params.decoded
  <2>1. ValidateCommandPayload(route.command, route.action, f.params, published)
    BY <1>3, RoutesAllowed DEF ValidParams
  <2> HIDE DEF route
  <2>2. f.params.kind = "object"
    BY <2>1, Zenon DEF ValidateCommandPayload
  <2> QED
    BY <2>1, <2>2, ZenonT(40) DEF ContentSize, route
<1>4. CASE f.method = "certupdate"
  <2>1. route.command = "action" /\ route.action = "certupdate"
    <3>1. /\ getCommandAction["certupdate"].command = "action"
          /\ getCommandAction["certupdate"].action = "certupdate"
      BY Zenon DEF getCommandAction, Route
    <3> QED
      BY <1>4, <3>1
  <2> HIDE DEF route
  <2>2. CloudCertupdateRequest(f.params, published["certupdate"])
    BY <1>3, <1>4, <2>1, ZenonT(40) DEF ValidateCommandPayload, RequestType
  <2> QED
    BY <1>1, <1>3, <1>4, <2>2 DEF CloudCertupdateRequest, getMethodPayloadLimit, LimitClasses
<1>5. CASE f.method = "script"
  <2>1. route.command = "script" /\ route.action = "execute"
    <3>1. /\ getCommandAction["script"].command = "script"
          /\ getCommandAction["script"].action = "execute"
      BY Zenon DEF getCommandAction, Route
    <3> QED
      BY <1>5, <3>1
  <2> HIDE DEF route
  <2>2. CloudScriptRequest(f.params, published["script"])
    BY <1>3, <1>5, <2>1, Zenon DEF ValidateCommandPayload, RequestType
  <2> QED
    BY <1>1, <1>3, <1>5, <2>2 DEF CloudScriptRequest, getMethodPayloadLimit, LimitClasses
<1>6. CASE f.method \notin {"configure", "certupdate", "script"}
  <2>1. f.params.decoded = 0
    BY <1>3, <1>6, AdmissionConstants, ZenonT(40)
  <2>2. getMethodPayloadLimit(f.method) = limits["default"]
    BY <1>6, ZenonT(40) DEF getMethodPayloadLimit, LimitClasses
  <2> QED
    BY <1>1, <1>3, <1>6, <2>1, <2>2
<1> QED
  BY <1>2, <1>4, <1>5, <1>6

(* The limits are published as the handler uses them (initializeComponents). *)
LEMMA StartUpContent ==
  ASSUME AdmissionInv, StartUp
  PROVE  ContentInv'
<1>1. PICK env \in [LimitNames -> LimitValue], ws \in LimitValue :
        limits' = FinalLimits(env, ws) /\ published' = PublishedLimits(env, ws)
  BY DEF StartUp
<1>2. \A c \in LimitClasses \ {"default"} : published'[c] = limits'[c]
  BY <1>1 DEF PublishedLimits
<1>3. phase' = "ready" /\ frame' = NoFrame
  BY DEF StartUp, AdmissionInv, Fresh
<1> QED
  BY <1>2, <1>3
  DEF ContentInv, UnderWay, ContentWithinLimit, NotificationInert, ResponsesWellFormed, InHand

(* What HandleFrame sends itself, and the command it makes of a frame. *)
LEMMA HandleFrameContent ==
  ASSUME AdmissionInv, ContentInv, phase = "ready", NEW f \in Frame, NEW cloud, NEW nats,
         HandleFrame(f, cloud, nats)
  PROVE  ContentInv'
<1> DEFINE fails(i) == Fails(Checks[i], f, cloud, nats)
           failing  == {i \in 1..Len(Checks) : (\A j \in 1..(i - 1) : ~fails(j)) /\ fails(i)}
<1>1. /\ frame' = f
      /\ UNCHANGED limitVars
      /\ \/ \E i \in failing :
              replies' = Rejection(Checks[i], f) /\ command' = <<>> /\ phase' = "over"
         \/ /\ failing = {}
            /\ \E outcome \in {"created", "cached", "refused"} : Created(f, outcome)
  BY DEF HandleFrame
<1>2. /\ limits \in [LimitNames -> Nat]
      /\ \A c \in LimitClasses \ {"default"} : published[c] = limits[c]
  BY DEF AdmissionInv, ContentInv, Started
<1>3. (Started => \A c \in LimitClasses \ {"default"} : published[c] = limits[c])'
  BY <1>1, <1>2, ZenonT(40) DEF limitVars
<1>4. f.size \in Nat /\ getMethodPayloadLimit(f.method) \in Nat
  BY <1>2, AdmissionConstants, ZenonT(40) DEF getMethodPayloadLimit, LimitClasses, LimitNames
<1>5. (frame.size <= getMethodPayloadLimit(frame.method))' <=> f.size <= getMethodPayloadLimit(f.method)
  BY <1>1 DEF getMethodPayloadLimit, limitVars
<1>6. ~Fails("request", f, cloud, nats) => f.id # "bad"
  BY ZenonT(40) DEF Fails, ValidRequest, validateJSONRPCID
<1>7. ASSUME NEW i \in failing,
             replies' = Rejection(Checks[i], f), command' = <<>>, phase' = "over"
      PROVE  ContentInv'
  <2>1. /\ i \in 1..8 /\ fails(i) /\ \A j \in 1..(i - 1) : ~fails(j)
        /\ Checks[i] \in CheckNames
    BY <1>7, ChecksListed
  <2>2. Checks[i] = "size" => f.size > getMethodPayloadLimit(f.method)
    BY <2>1 DEF Fails
  <2>3. Checks[i] \in {"method", "params", "nats"} => f.id # "bad"
    BY <1>6, <2>1, ChecksListed, SMTT(40)
  <2>4. PICK reply :
          \/ replies' = <<>>
          \/ /\ replies' = <<reply>>
             /\ IF Checks[i] \in {"parse", "request"}
                  THEN reply.id = ValidResponseID(f.id) /\ reply.code \in NullIDCodes
                  ELSE reply.id = f.id /\ ~IsNotification(f)
    BY <1>7, <2>1, RejectionIDs, ZenonT(40)
  <2>5. replies' # <<>> => Checks[i] \notin {"absolute", "notification"}
    BY <1>7 DEF Rejection, Silent
  <2>6. replies' # <<>> /\ IsNotification(f) => NullError(reply)
    BY <2>4, ReplyIDs
  <2>7. replies' # <<>> /\ f.size <= getMethodPayloadLimit(f.method) => WellFormed(reply, f)
    <3>1. SUFFICES ASSUME replies' # <<>>, f.size <= getMethodPayloadLimit(f.method)
                   PROVE  WellFormed(reply, f)
      OBVIOUS
    <3>2. Checks[i] \in {"parse", "request"} \/ f.id # "bad"
      BY <1>4, <2>1, <2>2, <2>3, <2>5, <3>1, SMTT(40) DEF CheckNames
    <3> QED
      BY <2>4, <3>1, <3>2, ReplyIDs
  <2>8. NotificationInert' /\ ResponsesWellFormed'
    BY <1>1, <1>5, <1>7, <2>4, <2>6, <2>7, OneReplyProperties, ZenonT(40)
  <2> QED
    BY <1>3, <1>7, <2>8, ZenonT(40) DEF ContentInv, UnderWay, ContentWithinLimit
<1>8. ASSUME failing = {}, NEW outcome \in {"created", "cached", "refused"}, Created(f, outcome)
      PROVE  ContentInv'
  <2>1. \A i \in 1..8 : ~fails(i)
    BY <1>8, ChecksListed, NoneFirstNoneFails
  <2>2. f.id # "bad" /\ f.method \in Methods /\ ValidParams(f)
    <3>1. /\ ~Fails("request", f, cloud, nats)
          /\ ~Fails("method", f, cloud, nats) /\ ~Fails("params", f, cloud, nats)
      BY <2>1, ChecksListed
    <3> QED
      BY <1>6, <3>1 DEF Fails
  <2>3. IsNotification(f) => ~MayNotBeNotified(f.method)
    <3>1. ~Fails("notification", f, cloud, nats)
      BY <2>1, ChecksListed
    <3> QED
      BY <3>1 DEF Fails
  <2>4. ContentWithinLimit'
    <3>1. ContentSize(f.params) <= getMethodPayloadLimit(f.method)
      BY <1>2, <2>2, ValidContentFits, ZenonT(40)
    <3> QED
      BY <1>1, <3>1 DEF ContentWithinLimit, getMethodPayloadLimit, limitVars
  <2>5. (command # <<>> /\ IsNotification(frame) =>
           ~command[1].stateChanging /\ command[1].action # "rtty")'
    <3>1. command' = <<>> \/ command' = <<NewCommand(f)>>
      BY <1>8, ZenonT(40) DEF Created
    <3>2. /\ NewCommand(f).stateChanging = getCommandAction[f.method].stateChanging
          /\ NewCommand(f).action = getCommandAction[f.method].action
      BY ZenonT(40) DEF NewCommand
    <3>3. IsNotification(f) => ~NewCommand(f).stateChanging /\ NewCommand(f).action # "rtty"
      BY <2>2, <2>3, <3>2, RoutesAllowed, Zenon DEF MayNotBeNotified
    <3>4. command' # <<>> => command'[1] = NewCommand(f)
      BY <3>1
    <3> QED
      BY <1>1, <3>3, <3>4
  <2>6. PICK reply : \/ replies' = <<>>
                     \/ replies' = <<reply>> /\ reply.id = f.id /\ ~IsNotification(f)
    <3>1. \/ replies' = <<>>
          \/ \E code : replies' = <<[id |-> f.id, code |-> code, status |-> 0]>> /\ ~IsNotification(f)
      BY <1>8, ZenonT(40) DEF Created, Unless, Reply
    <3> QED
      BY <3>1
  <2>7. NotificationInert' /\ ResponsesWellFormed'
    BY <1>1, <1>5, <2>2, <2>5, <2>6, ReplyIDs, OneReplyProperties, ZenonT(40)
  <2> QED
    BY <1>1, <1>3, <2>2, <2>4, <2>7, ZenonT(40) DEF ContentInv
<1> QED
  BY <1>1, <1>7, <1>8, ZenonT(40)

(* What is sent when the request is over: nothing, or one reply with its id
   (failTransaction, handleTimeout, processNATSResult). *)
LEMMA ReplyContent ==
  ASSUME AdmissionInv, ContentInv, UnderWay, phase' = "over", UNCHANGED <<limitVars, frame, command>>,
         NEW reply, reply.id = frame.id, replies' = replies \o Unless(IsNotification(frame), <<reply>>)
  PROVE  ContentInv'
<1>1. /\ IsNotification(frame) => replies' = <<>>
      /\ ~IsNotification(frame) => replies' = <<reply>>
  <2>1. replies = <<>>
    BY ZenonT(40) DEF AdmissionInv
  <2>2. replies' = Unless(IsNotification(frame), <<reply>>)
    <3>1. <<>> \o Unless(IsNotification(frame), <<reply>>) = Unless(IsNotification(frame), <<reply>>)
      BY FirstReply
    <3> QED
      BY <2>1, <3>1, Zenon
  <2> QED
    BY <2>2, Zenon DEF Unless
<1>2. frame.id # "bad"
  BY DEF ContentInv
<1>3. replies' # <<>> => WellFormed(reply, frame) /\ ~IsNotification(frame)
  BY <1>1, <1>2, ReplyIDs
<1>4. Started /\ frame # NoFrame /\ IsNotification(frame) /\ command # <<>> =>
        ~command[1].stateChanging /\ command[1].action # "rtty"
  BY ZenonT(40) DEF ContentInv, NotificationInert, InHand
<1>5. \A i \in 1..Len(replies') : replies' # <<>> /\ replies'[i] = reply
  <2>1. replies' = <<>> \/ replies' = <<reply>>
    BY <1>1, Zenon
  <2>2. \A i \in 1..Len(replies') : replies'[i] = reply
    BY <2>1, OnlyReply, Zenon
  <2>3. \A i \in 1..Len(replies') : replies' # <<>>
    OBVIOUS
  <2> QED
    BY <2>2, <2>3
<1>6. NotificationInert'
  <2>1. IsNotification(frame') => \A i \in 1..Len(replies') : FALSE
    BY <1>3, <1>5, Zenon DEF IsNotification
  <2>2. Started /\ UNCHANGED <<frame, command>>
    BY DEF UnderWay, Started
  <2> QED
    BY <1>4, <2>1, <2>2, Zenon DEF NotificationInert, InHand, IsNotification
<1>7. ResponsesWellFormed'
  BY <1>3, <1>5, ZenonT(40) DEF ResponsesWellFormed, WellFormed, LegalID, NullIDCodes
<1> QED
  BY <1>6, <1>7, Zenon DEF ContentInv, UnderWay, Started, ContentWithinLimit, limitVars

(* Each step of FrameAdmission preserves the second invariant. *)
LEMMA ContentPreserves ==
  ASSUME AdmissionInv, ContentInv, [AdmissionNext]_admissionVars
  PROVE  ContentInv'
<1> DEFINE failed == [id |-> frame.id, code |-> "internal error", status |-> 0]
<1>1. CASE StartUp
  BY <1>1, StartUpContent
<1>2. CASE ReceiveFrame
  BY <1>2, HandleFrameContent, Zenon DEF ReceiveFrame
<1>3. ASSUME UnderWay, FailWith("internal error"), UNCHANGED <<limitVars, frame, command>>
      PROVE  ContentInv'
  <2>1. failed.id = frame.id /\ Reply(frame.id, "internal error") = <<failed>>
    BY Zenon DEF Reply
  <2> HIDE DEF failed
  <2> QED
    BY <1>3, <2>1, ReplyContent, ZenonT(40) DEF FailWith
<1>4. CASE Dispatch
  <2>1. UNCHANGED <<limitVars, frame, command>> /\ UnderWay
    BY <1>4, ZenonT(40) DEF Dispatch, UnderWay
  <2>2. CASE phase' = "inflight" /\ UNCHANGED replies
    BY <2>1, <2>2, ZenonT(40)
    DEF ContentInv, UnderWay, Started, ContentWithinLimit, NotificationInert, ResponsesWellFormed,
        InHand, IsNotification, LegalID, getMethodPayloadLimit, limitVars
  <2> QED
    BY <1>3, <1>4, <2>1, <2>2, Zenon DEF Dispatch
<1>5. CASE ReceiveResult
  <2>1. PICK res : ProcessResult(res)
    BY <1>5, Zenon DEF ReceiveResult
  <2>2. UNCHANGED <<limitVars, frame, command>> /\ UnderWay
    BY <1>5, <2>1, ZenonT(40) DEF ReceiveResult, ProcessResult, UnderWay
  <2>3. CASE phase' = "over" /\ replies' = replies \o DeviceReply(res)
    <3> DEFINE reply == [id |-> frame.id, code |-> "result", status |-> ReportedError(res)]
    <3>1. reply.id = frame.id /\ DeviceReply(res) = Unless(IsNotification(frame), <<reply>>)
      BY Zenon DEF DeviceReply
    <3> HIDE DEF reply
    <3> QED
      BY <2>2, <2>3, <3>1, ReplyContent, ZenonT(40)
  <2> QED
    BY <1>3, <2>1, <2>2, <2>3, Zenon DEF ProcessResult
<1>6. CASE TimeOut
  BY <1>3, <1>6, Zenon DEF TimeOut, UnderWay
<1>7. CASE ReadNext
  <2>1. phase' = "ready" /\ frame' = NoFrame /\ Started /\ UNCHANGED limitVars
    BY <1>7, SMTT(40) DEF ReadNext, Started
  <2> QED
    BY <2>1, ZenonT(40)
    DEF ContentInv, UnderWay, ContentWithinLimit, NotificationInert, ResponsesWellFormed, InHand,
        limitVars
<1>8. CASE UNCHANGED admissionVars
  BY <1>8, ZenonT(40)
  DEF ContentInv, admissionVars, limitVars, requestVars, UnderWay, Started, ContentWithinLimit,
      NotificationInert, ResponsesWellFormed, InHand, IsNotification, LegalID, getMethodPayloadLimit
<1> QED
  BY <1>1, <1>2, <1>4, <1>5, <1>6, <1>7, <1>8 DEF AdmissionNext

(* Both invariants hold of every behaviour. *)
LEMMA ContentInvariance == AdmissionSpec => []ContentInv
<1>1. AdmissionInit => ContentInv
  BY DEF AdmissionInit, ContentInv, UnderWay, Started, InHand, ContentWithinLimit,
         NotificationInert, ResponsesWellFormed
<1> QED
  BY <1>1, AdmissionInvariance, ContentPreserves, PTL DEF AdmissionSpec

(* Whatever limits the daemon is started with, every method's limit is within
   the absolute one and that within the transport's (initializeComponents). *)
THEOREM LimitsAlwaysNested == AdmissionSpec => []LimitsNested
<1>1. AdmissionInv => LimitsNested
  BY DEF AdmissionInv
<1> QED
  BY <1>1, AdmissionInvariance, PTL

(* For any set of frames, the NATS client refuses none of the commands that
   HandleFrame admits (SubmitConfigure, ExecuteAction). *)
THEOREM AdmittedAlwaysDispatchable == AdmissionSpec => []AdmittedIsDispatchable
<1>1. AdmissionInv => AdmittedIsDispatchable
  BY DEF AdmissionInv
<1> QED
  BY <1>1, AdmissionInvariance, PTL

(* For any set of frames and of results, a request the handler reads is
   answered exactly once (HandleFrame, failTransaction, processNATSResult). *)
THEOREM RequestsAnsweredOnce == AdmissionSpec => []AnsweredOnce
<1>1. AdmissionInv => AnsweredOnce
  BY DEF AdmissionInv
<1> QED
  BY <1>1, AdmissionInvariance, PTL

(* For any set of results, the status the cloud reads is the device's and an
   upgrade reported as accepted is one that is kept (processNATSResult,
   BuildDeviceResultObject, validateResultEnvelope). *)
THEOREM ReportsTruthful ==
  AdmissionSpec => [](StatusTruthful /\ ReportedUpgradeRetained)
<1>1. AdmissionInv => StatusTruthful /\ ReportedUpgradeRetained
  BY DEF AdmissionInv
<1> QED
  BY <1>1, AdmissionInvariance, PTL

(* For any set of results, and whether or not its record can be saved or a
   timeout comes meanwhile, the cloud is told that an upgrade was accepted only if
   a record of it was left (processNATSResult, RespondAndRetain). *)
THEOREM ReportedUpgradesRecorded == AdmissionSpec => []ReportedUpgradeRetained
  BY ReportsTruthful, PTL

(* Whatever limits the daemon is started with and whatever the cloud sends, the
   decoded or inflated content of an admitted request is within its method's
   limit (SetLimits, decompress). *)
THEOREM AdmittedContentWithinLimit == AdmissionSpec => []ContentWithinLimit
<1>1. ContentInv => ContentWithinLimit
  BY DEF ContentInv
<1> QED
  BY <1>1, ContentInvariance, PTL

(* For any set of frames, one without an id changes nothing on the device, opens
   no shell and is sent nothing but null-id errors (HandleFrame). *)
THEOREM NotificationsInert == AdmissionSpec => []NotificationInert
<1>1. ContentInv => NotificationInert
  BY DEF ContentInv
<1> QED
  BY <1>1, ContentInvariance, PTL

(* For any set of frames and of results, a response has the id of the frame it
   answers and one that JSONRPCResponse.Validate accepts (ValidResponseID). *)
THEOREM ResponsesAlwaysWellFormed == AdmissionSpec => []ResponsesWellFormed
<1>1. ContentInv => ResponsesWellFormed
  BY DEF ContentInv
<1> QED
  BY <1>1, ContentInvariance, PTL

-----------------------------------------------------------------------------
(* The ring's index arithmetic without the remainder. *)
LEMMA NextSlotWraps ==
  ASSUME NEW i \in Slots
  PROVE  NextSlot(i) = IF i + 1 = ringCapacity THEN 0 ELSE i + 1
<1>1. ringCapacity \in Nat /\ ringCapacity > 0 /\ i \in Nat /\ i + 1 <= ringCapacity
  BY RingConstants DEF Slots
<1>2. CASE i + 1 = ringCapacity
  <2>1. ringCapacity % ringCapacity = 0
    BY <1>1
  <2> QED
    BY <1>1, <1>2, <2>1 DEF NextSlot
<1>3. CASE i + 1 < ringCapacity
  <2>1. (i + 1) % ringCapacity = i + 1
    BY <1>1, <1>3
  <2> QED
    BY <1>1, <1>3, <2>1 DEF NextSlot
<1> QED
  BY <1>1, <1>2, <1>3

(* The places of a queue of any length up to the capacity are distinct slots. *)
LEMMA SlotsDistinct ==
  ASSUME head \in Slots
  PROVE  /\ \A i \in 1..ringCapacity : SlotOf(i) \in Slots
         /\ \A i, j \in 1..ringCapacity : SlotOf(i) = SlotOf(j) => i = j
         /\ SlotOf(1) = head
  BY RingConstants DEF SlotOf, Slots

(* Pushing writes the place behind the last element. *)
LEMMA PushWrites ==
  ASSUME RingInv, NEW x \in Payload, RingPush(x)
  PROVE  /\ RingInv'
         /\ size < ringCapacity =>
              /\ size' = size + 1
              /\ \A i \in 1..size : buffer'[SlotOf(i)'] = buffer[SlotOf(i)]
              /\ buffer'[SlotOf(size)'] = x
         /\ size = ringCapacity =>
              /\ size' = size
              /\ \A i \in 1..(size - 1) : buffer'[SlotOf(i)'] = buffer[SlotOf(i + 1)]
              /\ buffer'[SlotOf(size)'] = x
<1>0. /\ ringCapacity \in Nat /\ ringCapacity > 0
      /\ head \in 0..(ringCapacity - 1) /\ tail \in 0..(ringCapacity - 1) /\ size \in 0..ringCapacity
      /\ buffer \in [Slots -> Payload \cup {Nil}]
      /\ Nil \notin Payload
  BY RingConstants DEF RingInv, Slots
<1>1. /\ NextSlot(tail) = IF tail + 1 = ringCapacity THEN 0 ELSE tail + 1
      /\ NextSlot(head) = IF head + 1 = ringCapacity THEN 0 ELSE head + 1
  BY NextSlotWraps, Zenon DEF RingInv
<1>2. CASE size = ringCapacity
  <2>1. /\ buffer' = [buffer EXCEPT ![head] = x]
        /\ head' = (IF head + 1 = ringCapacity THEN 0 ELSE head + 1)
        /\ tail' = (IF tail + 1 = ringCapacity THEN 0 ELSE tail + 1)
        /\ size' = size
    BY <1>1, <1>2 DEF RingPush
  <2>2. tail = head
    BY <1>0, <1>2 DEF RingInv
  <2>3. \A i \in 1..(ringCapacity - 1) : SlotOf(i)' = SlotOf(i + 1) /\ SlotOf(i)' # head /\ SlotOf(i)' \in Slots
    BY <1>0, <2>1 DEF SlotOf, Slots
  <2>4. SlotOf(ringCapacity)' = head
    BY <1>0, <2>1 DEF SlotOf
  <2>5. \A i \in 1..(ringCapacity - 1) : buffer'[SlotOf(i)'] = buffer[SlotOf(i + 1)]
    BY <1>0, <2>1, <2>3
  <2>6. buffer'[SlotOf(ringCapacity)'] = x
    BY <1>0, <2>1, <2>4 DEF Slots
  <2>7. \A i \in 1..ringCapacity : buffer'[SlotOf(i)'] \in Payload
    <3>1. \A i \in 1..ringCapacity : buffer[SlotOf(i)] \in Payload
      BY <1>2, Zenon DEF RingInv
    <3> QED
      BY <1>0, <2>5, <2>6, <3>1
  <2>8. RingInv'
    <3>1. buffer' \in [Slots -> Payload \cup {Nil}] /\ head' \in Slots /\ tail' \in Slots
      BY <1>0, <2>1 DEF Slots
    <3>2. tail' = IF head' + size' < ringCapacity THEN head' + size' ELSE head' + size' - ringCapacity
      BY <1>0, <1>2, <2>1, <2>2
    <3>3. (size' + 1)..ringCapacity = {}
      BY <1>0, <1>2, <2>1
    <3> QED
      BY <1>0, <1>2, <2>1, <2>7, <3>1, <3>2, <3>3, ZenonT(40) DEF RingInv
  <2> QED
    BY <1>0, <1>2, <2>1, <2>5, <2>6, <2>8
<1>3. CASE size < ringCapacity
  <2>1. /\ buffer' = [buffer EXCEPT ![tail] = x]
        /\ head' = head
        /\ tail' = (IF tail + 1 = ringCapacity THEN 0 ELSE tail + 1)
        /\ size' = size + 1
    <3>1. size # ringCapacity
      BY <1>0, <1>3
    <3> QED
      BY <1>1, <3>1 DEF RingPush
  <2>2. tail = SlotOf(size + 1)
    BY <1>0, <1>3 DEF RingInv, SlotOf
  <2>3. \A i \in 1..ringCapacity : SlotOf(i)' = SlotOf(i)
    BY <2>1 DEF SlotOf
  <2>4. \A i \in 1..ringCapacity : i # size + 1 => SlotOf(i) # tail /\ SlotOf(i) \in Slots
    BY <1>0, <1>3, <2>2, SlotsDistinct DEF Slots
  <2>5. \A i \in 1..ringCapacity : i # size + 1 => buffer'[SlotOf(i)'] = buffer[SlotOf(i)]
    BY <1>0, <2>1, <2>3, <2>4
  <2>6. buffer'[SlotOf(size)'] = x
    <3>1. SlotOf(size)' = tail
      BY <1>0, <1>3, <2>1, <2>2, Zenon DEF SlotOf
    <3> QED
      BY <1>0, <2>1, <3>1, Zenon DEF Slots
  <2>7. RingInv'
    <3>1. buffer' \in [Slots -> Payload \cup {Nil}] /\ head' \in Slots /\ tail' \in Slots
      BY <1>0, <2>1 DEF Slots
    <3>2. tail' = IF head' + size' < ringCapacity THEN head' + size' ELSE head' + size' - ringCapacity
      <4>1. tail = IF head + size < ringCapacity THEN head + size ELSE head + size - ringCapacity
        BY Zenon DEF RingInv
      <4> QED
        BY <1>0, <1>3, <2>1, <4>1
    <3>3. \A i \in 1..size' : buffer'[SlotOf(i)'] \in Payload
      <4>1. \A i \in 1..size : buffer[SlotOf(i)] \in Payload
        BY Zenon DEF RingInv
      <4> QED
        BY <1>0, <1>3, <2>1, <2>5, <2>6, <4>1
    <3>4. \A i \in (size' + 1)..ringCapacity : buffer'[SlotOf(i)'] = Nil
      <4>1. \A i \in (size + 1)..ringCapacity : buffer[SlotOf(i)] = Nil
        BY Zenon DEF RingInv
      <4> QED
        BY <1>0, <1>3, <2>1, <2>5, <4>1
    <3> QED
      BY <1>0, <1>3, <2>1, <3>1, <3>2, <3>3, <3>4 DEF RingInv
  <2> QED
    BY <1>0, <1>3, <2>1, <2>5, <2>6, <2>7
<1> QED
  BY <1>0, <1>2, <1>3

(* Popping empties the first place and moves every other one up. *)
LEMMA PopMoves ==
  ASSUME RingInv, RingPop
  PROVE  /\ RingInv'
         /\ size > 0 =>
              /\ size' = size - 1
              /\ \A i \in 1..size' : buffer'[SlotOf(i)'] = buffer[SlotOf(i + 1)]
<1>0. /\ ringCapacity \in Nat /\ ringCapacity > 0
      /\ head \in 0..(ringCapacity - 1) /\ tail \in 0..(ringCapacity - 1) /\ size \in 0..ringCapacity
      /\ buffer \in [Slots -> Payload \cup {Nil}]
  BY RingConstants DEF RingInv, Slots
<1>1. NextSlot(head) = IF head + 1 = ringCapacity THEN 0 ELSE head + 1
  BY NextSlotWraps DEF RingInv
<1>2. CASE size = 0
  <2>1. UNCHANGED <<buffer, head, tail, size>>
    BY <1>2 DEF RingPop
  <2> QED
    BY <1>2, <2>1 DEF RingInv, SlotOf
<1>3. CASE size > 0
  <2>1. /\ buffer' = [buffer EXCEPT ![head] = Nil]
        /\ head' = (IF head + 1 = ringCapacity THEN 0 ELSE head + 1)
        /\ tail' = tail
        /\ size' = size - 1
    <3>1. size # 0
      BY <1>0, <1>3
    <3> QED
      BY <1>1, <3>1 DEF RingPop
  <2>2. \A i \in 1..(ringCapacity - 1) : SlotOf(i)' = SlotOf(i + 1) /\ SlotOf(i)' # head /\ SlotOf(i)' \in Slots
    BY <1>0, <2>1 DEF SlotOf, Slots
  <2>3. SlotOf(ringCapacity)' = head
    BY <1>0, <2>1 DEF SlotOf
  <2>4. \A i \in 1..(ringCapacity - 1) : buffer'[SlotOf(i)'] = buffer[SlotOf(i + 1)]
    BY <1>0, <2>1, <2>2
  <2>5. buffer'[SlotOf(ringCapacity)'] = Nil
    BY <1>0, <2>1, <2>3, ZenonT(40) DEF Slots
  <2>6. RingInv'
    <3>1. buffer' \in [Slots -> Payload \cup {Nil}] /\ head' \in Slots /\ tail' \in Slots
      BY <1>0, <2>1 DEF Slots
    <3>2. tail' = IF head' + size' < ringCapacity THEN head' + size' ELSE head' + size' - ringCapacity
      BY <1>0, <1>3, <2>1 DEF RingInv
    <3>3. \A i \in 1..size' : buffer'[SlotOf(i)'] \in Payload
      BY <1>0, <1>3, <2>1, <2>4 DEF RingInv
    <3>4. \A i \in (size' + 1)..ringCapacity : buffer'[SlotOf(i)'] = Nil
      BY <1>0, <1>3, <2>1, <2>4, <2>5 DEF RingInv
    <3> QED
      BY <1>0, <1>3, <2>1, <3>1, <3>2, <3>3, <3>4 DEF RingInv
  <2> QED
    BY <1>0, <1>3, <2>1, <2>4, <2>6
<1> QED
  BY <1>0, <1>2, <1>3

(* What the ring holds is a sequence of payloads. *)
LEMMA ContentsSeq ==
  ASSUME RingInv
  PROVE  /\ Contents \in Seq(Payload)
         /\ Len(Contents) = size
         /\ \A i \in 1..size : Contents[i] = buffer[SlotOf(i)]
<1>1. size \in Nat /\ \A i \in 1..size : buffer[SlotOf(i)] \in Payload
  BY RingConstants DEF RingInv
<1>2. Contents \in Seq(Payload)
  BY <1>1 DEF Contents
<1>3. DOMAIN Contents = 1..size
  BY DEF Contents
<1>4. Len(Contents) = size
  BY <1>1, <1>2, <1>3
<1> QED
  BY <1>2, <1>4, Zenon DEF Contents

(* A sequence with one more element at its end. *)
LEMMA SeqAppended ==
  ASSUME NEW S, NEW s \in Seq(S), NEW t \in Seq(S), NEW x \in S, NEW n \in Nat, NEW m,
         Len(s) = n, m = n + 1, Len(t) = m, \A i \in 1..n : t[i] = s[i], t[m] = x
  PROVE  t = Append(s, x)
<1>1. /\ Append(s, x) \in Seq(S) /\ Len(Append(s, x)) = n + 1
      /\ \A i \in 1..n : Append(s, x)[i] = s[i]
      /\ Append(s, x)[n + 1] = x
  OBVIOUS
<1>2. \A i \in 1..(n + 1) : t[i] = Append(s, x)[i]
  BY <1>1
<1> QED
  BY <1>1, <1>2

(* A sequence without its first element. *)
LEMMA SeqTail ==
  ASSUME NEW S, NEW s \in Seq(S), NEW t \in Seq(S), NEW n \in Nat, NEW m,
         Len(s) = n, n > 0, m = n - 1, Len(t) = m, \A i \in 1..m : t[i] = s[i + 1]
  PROVE  t = Tail(s)
<1>1. /\ Tail(s) \in Seq(S) /\ Len(Tail(s)) = m
      /\ \A i \in 1..m : Tail(s)[i] = s[i + 1]
  OBVIOUS
<1> QED
  BY <1>1

(* A sequence whose first element made room for one at its end. *)
LEMMA SeqShifted ==
  ASSUME NEW S, NEW s \in Seq(S), NEW t \in Seq(S), NEW x \in S, NEW n \in Nat,
         Len(s) = n, n > 0, Len(t) = n, \A i \in 1..(n - 1) : t[i] = s[i + 1], t[n] = x
  PROVE  t = Append(Tail(s), x)
<1> DEFINE u == Tail(s)
           k == n - 1
<1>1. u \in Seq(S) /\ Len(u) = k /\ \A i \in 1..k : u[i] = s[i + 1]
  OBVIOUS
<1>2. k \in Nat /\ n = k + 1 /\ \A i \in 1..k : t[i] = s[i + 1]
  OBVIOUS
<1> HIDE DEF u, k
<1>3. t = Append(u, x)
  BY <1>1, <1>2, SeqAppended
<1> QED
  BY <1>3, Zenon DEF u

(* A call on the ring is the same call on the queue it stands for. *)
LEMMA RingStepRefines ==
  ASSUME RingInv, [RingNext]_ringVars
  PROVE  RingInv' /\ [FIFO!Next]_(FIFO!fifoVars)
<1>0. ringCapacity \in Nat /\ ringCapacity > 0 /\ size \in 0..ringCapacity
  BY RingConstants DEF RingInv
<1>c. /\ Contents \in Seq(Payload)
      /\ Len(Contents) = size
      /\ \A i \in 1..size : Contents[i] = buffer[SlotOf(i)]
  BY ContentsSeq
<1>n. ASSUME RingInv'
      PROVE  /\ Contents' \in Seq(Payload)
             /\ Len(Contents') = size'
             /\ \A i \in 1..size' : Contents'[i] = buffer'[SlotOf(i)']
  <2>1. size' \in Nat /\ \A i \in 1..size' : buffer'[SlotOf(i)'] \in Payload
    BY <1>n, RingConstants DEF RingInv
  <2>2. Contents' = [i \in 1..size' |-> buffer'[SlotOf(i)']]
    BY DEF Contents
  <2>3. [i \in 1..size' |-> buffer'[SlotOf(i)']] \in Seq(Payload)
    BY <2>1
  <2>4. Contents' \in Seq(Payload) /\ DOMAIN Contents' = 1..size'
    BY <2>2, <2>3
  <2>5. Len(Contents') = size'
    BY <2>1, <2>4
  <2> QED
    BY <2>2, <2>4, <2>5, Zenon
<1>1. CASE UNCHANGED ringVars
  <2>1. RingInv' /\ Contents' = Contents /\ returned' = returned
    BY <1>1 DEF ringVars, RingInv, Contents, SlotOf
  <2> QED
    BY <2>1 DEF FIFO!fifoVars
<1>2. ASSUME NEW x \in Payload, RingPush(x)
      PROVE  RingInv' /\ FIFO!Next
  <2>1. RingInv'
    BY <1>2, PushWrites
  <2>2. CASE size < ringCapacity
    <3>1. /\ size' = size + 1
          /\ \A i \in 1..size : buffer'[SlotOf(i)'] = buffer[SlotOf(i)]
          /\ buffer'[SlotOf(size)'] = x
      BY <1>2, <2>2, PushWrites, ZenonT(40)
    <3>2. \A i \in 1..size : i \in 1..size'
      BY <1>0, <3>1
    <3>3. size \in Nat /\ size' \in 1..size'
      BY <1>0, <3>1
    <3>4. Contents'[size'] = x
      <4>1. PICK k \in 1..size' : k = size'
        BY <3>3, Zenon
      <4>2. SlotOf(k)' = SlotOf(size)'
        BY <4>1, Zenon DEF SlotOf
      <4> QED
        BY <1>n, <2>1, <3>1, <4>1, <4>2, ZenonT(40)
    <3>5. \A i \in 1..size : Contents'[i] = Contents[i]
      BY <1>c, <1>n, <2>1, <3>1, <3>2, ZenonT(40)
    <3>6. Contents' = Append(Contents, x)
      BY <1>2, <1>c, <1>n, <2>1, <3>1, <3>3, <3>4, <3>5, SeqAppended
    <3>7. returned' = <<FALSE>>
      <4>1. size # ringCapacity
        BY <1>0, <2>2
      <4> QED
        BY <1>2, <4>1, Zenon DEF RingPush
    <3>8. FIFO!Push(x)
      BY <1>c, <2>2, <3>6, <3>7 DEF FIFO!Push
    <3> QED
      BY <2>1, <3>8, ZenonT(40) DEF FIFO!Next
  <2>3. CASE size = ringCapacity
    <3>1. /\ size' = size
          /\ \A i \in 1..(size - 1) : buffer'[SlotOf(i)'] = buffer[SlotOf(i + 1)]
          /\ buffer'[SlotOf(size)'] = x
      BY <1>2, <2>3, PushWrites
    <3>2. size \in Nat /\ size > 0 /\ size \in 1..size
      BY <1>0, <2>3
    <3>3. \A i \in 1..(size - 1) : i \in 1..size /\ i + 1 \in 1..size
      BY <1>0
    <3>5. \A i \in 1..(size - 1) : Contents'[i] = Contents[i + 1]
      BY <1>c, <1>n, <2>1, <3>1, <3>3, ZenonT(40)
    <3>6. Contents'[size] = x
      <4>1. PICK k \in 1..size' : k = size'
        BY <3>1, <3>2, Zenon
      <4>2. SlotOf(k)' = SlotOf(size)'
        BY <4>1, Zenon DEF SlotOf
      <4> QED
        BY <1>n, <2>1, <3>1, <4>1, <4>2, ZenonT(40)
    <3>8. Contents' = Append(Tail(Contents), x)
      BY <1>2, <1>c, <1>n, <2>1, <3>1, <3>2, <3>5, <3>6, SeqShifted
    <3>9. returned' = <<TRUE>>
      BY <1>2, <2>3, Zenon DEF RingPush
    <3>10. FIFO!PushDropping(x)
      BY <1>c, <2>3, <3>8, <3>9 DEF FIFO!PushDropping
    <3> QED
      BY <2>1, <3>10, ZenonT(40) DEF FIFO!Next
  <2> QED
    BY <1>0, <2>2, <2>3, SMTT(40)
<1>3. CASE RingPop
  <2>1. RingInv'
    BY <1>3, PopMoves
  <2>2. CASE size = 0
    <3>1. Contents' = Contents /\ returned' = <<FALSE>>
      BY <1>3, <2>2, Zenon DEF RingPop, Contents, SlotOf
    <3>2. Contents = <<>>
      BY <1>c, <2>2
    <3> QED
      BY <2>1, <3>1, <3>2 DEF FIFO!Next, FIFO!PopEmpty
  <2>3. CASE size > 0
    <3>1. size' = size - 1 /\ \A i \in 1..size' : buffer'[SlotOf(i)'] = buffer[SlotOf(i + 1)]
      BY <1>3, <2>3, PopMoves
    <3>2. Contents # <<>>
      BY <1>0, <1>c, <2>3
    <3>3. size \in Nat /\ \A i \in 1..size' : i + 1 \in 1..size
      BY <1>0, <3>1
    <3>4. \A i \in 1..size' : Contents'[i] = Contents[i + 1]
      BY <1>c, <1>n, <2>1, <3>1, <3>3, ZenonT(40)
    <3>5. Contents' = Tail(Contents)
      BY <1>c, <1>n, <2>1, <2>3, <3>1, <3>3, <3>4, SeqTail, ZenonT(40)
    <3>6. SlotOf(1) = head
      BY <1>0, SlotsDistinct DEF RingInv
    <3>7. Head(Contents) = buffer[head]
      BY <1>0, <1>c, <2>3, <3>2, <3>6
    <3>8. returned' = <<buffer[head], TRUE>>
      <4>1. size # 0
        BY <1>0, <2>3
      <4> QED
        BY <1>3, <4>1, Zenon DEF RingPop
    <3>9. FIFO!Pop
      BY <3>2, <3>5, <3>7, <3>8 DEF FIFO!Pop
    <3> QED
      BY <2>1, <3>9 DEF FIFO!Next
  <2> QED
    BY <1>0, <2>2, <2>3
<1> QED
  BY <1>1, <1>2, <1>3 DEF RingNext

(* An empty ring stands for the empty queue. *)
LEMMA RingInitRefines ==
  ASSUME RingInit
  PROVE  RingInv /\ FIFO!Init
<1>1. RingInv
  BY RingConstants DEF RingInit, RingInv, Slots, SlotOf
<1>2. Contents = <<>>
  BY <1>1, ContentsSeq DEF RingInit
<1> QED
  BY <1>1, <1>2 DEF RingInit, FIFO!Init

(* The ring's indices, count and empty slots agree for every capacity. *)
THEOREM RingConsistent == RingSpec => []RingInv
<1>1. RingInv /\ [RingNext]_ringVars => RingInv'
  BY RingStepRefines, ZenonT(40)
<1> QED
  BY <1>1, RingInitRefines, PTL DEF RingSpec

(* The ring is a drop-oldest queue for every capacity and every set of
   payloads: Push and Pop return what the queue's do (buffer.go). *)
THEOREM RingImplementsQueue == RingSpec => RingIsQueue
<1>1. RingInv /\ [RingNext]_ringVars => RingInv' /\ [FIFO!Next]_(FIFO!fifoVars)
  BY RingStepRefines, ZenonT(40)
<1> QED
  BY <1>1, RingInitRefines, PTL DEF RingSpec, RingIsQueue, FIFO!Spec
-----------------------------------------------------------------------------
(* Generations number the reports; a snapshot is of the report of its
   generation; successes are in order, stay behind a report that is still held,
   and have reached the newest report if none is held. *)
CoalescerInv ==
  /\ reports \in Nat
  /\ stateGeneration = reports
  /\ hasState \in BOOLEAN
  /\ hasState => latestState = reports /\ reports # 0
  /\ snapshot \in [Flusher -> [payload : Nat, generation : Nat]]
  /\ \A f \in Flusher : snapshot[f].payload = snapshot[f].generation
  /\ committed \in Seq(Nat)
  /\ \A i \in 1..Len(committed) : committed[i] <= reports /\ (hasState => committed[i] < reports)
  /\ CommittedInOrder
  /\ NewestReportKept

(* Every call keeps the coalescer's invariant. *)
LEMMA CoalescerPreserves ==
  ASSUME CoalescerInv, [CoalescerNext]_coalescerVars
  PROVE  CoalescerInv'
<1> USE DEF CoalescerInv
<1>1. CASE UNCHANGED coalescerVars
  BY <1>1, ZenonT(40) DEF coalescerVars, CommittedInOrder, NewestReportKept
<1>2. CASE Update
  <2>1. /\ reports' = reports + 1 /\ stateGeneration' = reports' /\ latestState' = reports'
        /\ hasState' = TRUE /\ snapshot' = snapshot /\ committed' = committed
    BY <1>2 DEF Update
  <2>2. Len(committed) \in Nat /\ \A i \in 1..Len(committed) : committed[i] \in Nat
    OBVIOUS
  <2> QED
    BY <2>1, <2>2 DEF CommittedInOrder, NewestReportKept
<1>3. ASSUME NEW f \in Flusher, Peek(f)
      PROVE  CoalescerInv'
  <2>1. snapshot' \in [Flusher -> [payload : Nat, generation : Nat]]
    BY <1>3, Zenon DEF Peek
  <2>2. \A g \in Flusher : snapshot'[g].payload = snapshot'[g].generation
    BY <1>3, Zenon DEF Peek
  <2> QED
    BY <1>3, <2>1, <2>2, Zenon DEF Peek, CommittedInOrder, NewestReportKept
<1>4. ASSUME NEW f \in Flusher, Commit(f)
      PROVE  CoalescerInv'
  <2>1. CASE hasState /\ stateGeneration = snapshot[f].generation
    <3>1. /\ committed' = Append(committed, reports)
          /\ hasState' = FALSE
          /\ UNCHANGED <<reports, stateGeneration, snapshot>>
      BY <1>4, <2>1 DEF Commit
    <3>2. /\ committed' \in Seq(Nat)
          /\ Len(committed') = Len(committed) + 1
          /\ \A i \in 1..Len(committed) : committed'[i] = committed[i]
          /\ committed'[Len(committed) + 1] = reports
          /\ Len(committed) \in Nat
      BY <3>1
    <3>3. \A i \in 1..Len(committed) : committed[i] < reports /\ committed[i] \in Nat
      BY <2>1
    <3>n. \A i \in 1..Len(committed') : i \in 1..Len(committed) \/ i = Len(committed) + 1
      BY <3>2
    <3>4. CommittedInOrder'
      <4>1. SUFFICES ASSUME NEW i \in 1..Len(committed'), NEW j \in 1..Len(committed'), i < j
                     PROVE  committed'[i] < committed'[j]
        BY DEF CommittedInOrder
      <4>2. i \in 1..Len(committed)
        BY <3>2, <4>1
      <4>3. CASE j \in 1..Len(committed)
        BY <3>2, <4>1, <4>2, <4>3, Zenon DEF CommittedInOrder
      <4>4. CASE j = Len(committed) + 1
        BY <3>2, <3>3, <4>2, <4>4, Zenon
      <4> QED
        BY <3>n, <4>3, <4>4, ZenonT(40)
    <3>5. NewestReportKept'
      BY <3>1, <3>2 DEF NewestReportKept
    <3>6. \A i \in 1..Len(committed') : committed'[i] <= reports
      <4>1. reports \in Nat /\ reports <= reports
        OBVIOUS
      <4>2. \A i \in 1..Len(committed) : committed[i] <= reports
        OBVIOUS
      <4> QED
        BY <3>2, <3>n, <4>1, <4>2, Zenon
    <3> QED
      BY <3>1, <3>2, <3>4, <3>5, <3>6, Zenon
  <2>2. CASE ~(hasState /\ stateGeneration = snapshot[f].generation)
    <3>1. UNCHANGED coalescerVars
      BY <1>4, <2>2 DEF Commit, coalescerVars
    <3> QED
      BY <1>1, <3>1
  <2> QED
    BY <2>1, <2>2, Zenon
<1> QED
  BY <1>1, <1>2, <1>3, <1>4 DEF CoalescerNext

(* For any number of flushers, the newest report is held or was flushed by a
   flusher that knew exactly this report, and no report is flushed twice or
   after a newer one (coalescer.go Peek, Commit). *)
THEOREM CoalescerKeepsNewest == CoalescerSpec => [](NewestReportKept /\ CommittedInOrder)
<1>1. CoalescerInit => CoalescerInv
  <2> SUFFICES ASSUME CoalescerInit PROVE CoalescerInv
    OBVIOUS
  <2>1. snapshot \in [Flusher -> [payload : Nat, generation : Nat]]
    BY DEF CoalescerInit, NoSnapshot, NoReport
  <2>2. \A f \in Flusher : snapshot[f].payload = snapshot[f].generation
    BY DEF CoalescerInit, NoSnapshot, NoReport
  <2>3. committed \in Seq(Nat) /\ 1..Len(committed) = {}
    BY DEF CoalescerInit
  <2> QED
    BY <2>1, <2>2, <2>3, Zenon DEF CoalescerInit, CoalescerInv, CommittedInOrder, NewestReportKept
<1>2. CoalescerInv /\ [CoalescerNext]_coalescerVars => CoalescerInv'
  BY CoalescerPreserves
<1>3. CoalescerInv => NewestReportKept /\ CommittedInOrder
  BY Zenon DEF CoalescerInv
<1> QED
  BY <1>1, <1>2, <1>3, PTL DEF CoalescerSpec

(* For any number of flushers, a report is never flushed after a newer one
   (coalescer.go Commit). *)
THEOREM FlushesInOrder == CoalescerSpec => []CommittedInOrder
  BY CoalescerKeepsNewest, PTL
-----------------------------------------------------------------------------
(* What the last change of isThrottled rested on. *)
BackpressureInv ==
  /\ BackpressureTypeOK
  /\ IF isThrottled THEN AtOrAbove(flippedAt, upperPercent)
                    ELSE AtOrBelow(flippedAt, lowerPercent)

(* Every call keeps the queue within its capacity and remembers the side of the
   band the monitor is on. *)
LEMMA BackpressurePreserves ==
  ASSUME BackpressureInv, [BackpressureNext]_backpressureVars
  PROVE  BackpressureInv'
<1> USE BackpressureConstants DEF BackpressureInv, BackpressureTypeOK
<1>1. CASE UNCHANGED backpressureVars
  BY <1>1, Zenon DEF backpressureVars, AtOrAbove, AtOrBelow
<1>2. ASSUME NEW x \in ResultPayload, ResultPush(x)
      PROVE  BackpressureInv'
  <2>1. results' \in Seq(ResultPayload) /\ Len(results') <= queueCapacity
    BY <1>2 DEF ResultPush
  <2> QED
    BY <1>2, <2>1, Zenon DEF ResultPush, AtOrAbove, AtOrBelow
<1>3. CASE ResultPop
  <2>1. results' \in Seq(ResultPayload) /\ Len(results') <= queueCapacity
    BY <1>3 DEF ResultPop
  <2> QED
    BY <1>3, <2>1, Zenon DEF ResultPop, AtOrAbove, AtOrBelow
<1>4. CASE ReadUtilization
  BY <1>4 DEF ReadUtilization, AtOrAbove, AtOrBelow
<1>5. CASE Decide
  <2>1. /\ sampled \in 0..queueCapacity /\ sampled' = -1 /\ results' = results
        /\ isThrottled' \in BOOLEAN
        /\ flippedAt' \in 0..queueCapacity
    <3>1. sampled \in 0..queueCapacity /\ sampled' = -1 /\ results' = results
      BY <1>5 DEF Decide
    <3>2. flippedAt' = sampled \/ flippedAt' = flippedAt
      BY <1>5 DEF Decide
    <3>3. AtOrAbove(sampled, upperPercent) \in BOOLEAN
      BY DEF AtOrAbove
    <3>4. isThrottled' \in BOOLEAN
      BY <1>5, <3>3, Zenon DEF Decide
    <3> QED
      BY <3>1, <3>2, <3>4, Zenon
  <2>2. BackpressureTypeOK'
    BY <2>1
  <2>3. CASE isThrottled' = isThrottled
    BY <1>5, <2>2, <2>3, Zenon DEF Decide, AtOrAbove, AtOrBelow
  <2>4. CASE isThrottled' # isThrottled
    <3>1. flippedAt' = sampled
      BY <1>5, <2>4 DEF Decide
    <3>2. CASE isThrottled
      BY <1>5, <2>1, <2>2, <2>4, <3>1, <3>2, Zenon DEF Decide, AtOrAbove, AtOrBelow
    <3>3. CASE ~isThrottled
      BY <1>5, <2>1, <2>2, <2>4, <3>1, <3>3, Zenon DEF Decide, AtOrAbove, AtOrBelow
    <3> QED
      BY <3>2, <3>3, Zenon
  <2> QED
    BY <2>3, <2>4, Zenon
<1> QED
  BY <1>1, <1>2, <1>3, <1>4, <1>5, Zenon DEF BackpressureNext

(* The monitor's account of itself holds of every behaviour. *)
LEMMA BackpressureInvariance == BackpressureSpec => []BackpressureInv
<1>1. BackpressureInit => BackpressureInv
  <2>1. lowerPercent * queueCapacity >= 0
    BY BackpressureConstants
  <2>2. <<>> \in Seq(ResultPayload) /\ Len(<<>>) = 0
    OBVIOUS
  <2>3. AtOrBelow(0, lowerPercent)
    BY <2>1, BackpressureConstants DEF AtOrBelow
  <2>4. 0 \in 0..queueCapacity /\ -1 \in -1..queueCapacity /\ 0 <= queueCapacity
    BY BackpressureConstants
  <2>5. BackpressureInit => BackpressureTypeOK
    BY <2>2, <2>4, Zenon DEF BackpressureInit, BackpressureTypeOK
  <2> QED
    BY <2>3, <2>5, Zenon DEF BackpressureInit, BackpressureInv
<1> QED
  BY <1>1, BackpressurePreserves, PTL DEF BackpressureSpec

(* For every capacity and every pair of thresholds the constructor accepts,
   two changes of isThrottled rest on queue lengths that are the whole band
   apart (hysteresis.go IsThrottled). *)
THEOREM MonitorNeverFlaps == BackpressureSpec => FlipsAcrossBand
<1> DEFINE Flip == isThrottled' # isThrottled =>
                     LET crossed == IF isThrottled' THEN sampled - flippedAt ELSE flippedAt - sampled
                         band    == (upperPercent - lowerPercent) * queueCapacity
                     IN  100 * crossed >= band
<1>3. BackpressureInv /\ [BackpressureNext]_backpressureVars => [Flip]_backpressureVars
  <2> SUFFICES ASSUME BackpressureInv, BackpressureNext, isThrottled' # isThrottled
               PROVE  Flip
    BY DEF backpressureVars
  <2>1. Decide
    BY Zenon DEF BackpressureNext, ResultPush, ResultPop, ReadUtilization
  <2>2. sampled \in Nat /\ flippedAt \in Nat
    BY <2>1 DEF Decide, BackpressureInv, BackpressureTypeOK
  <2>3. isThrottled \in BOOLEAN /\ isThrottled' \in BOOLEAN
    BY BackpressurePreserves DEF BackpressureInv, BackpressureTypeOK
  <2>4. CASE isThrottled
    <3>1. 100 * sampled <= lowerPercent * queueCapacity /\ 100 * flippedAt >= upperPercent * queueCapacity
      BY <2>1, <2>3, <2>4, Zenon DEF Decide, BackpressureInv, AtOrAbove, AtOrBelow
    <3>2. 100 * (flippedAt - sampled) >= (upperPercent - lowerPercent) * queueCapacity
      BY <2>2, <3>1, BackpressureConstants
    <3> QED
      BY <2>3, <2>4, <3>2, Zenon
  <2>5. CASE ~isThrottled
    <3>1. 100 * sampled >= upperPercent * queueCapacity /\ 100 * flippedAt <= lowerPercent * queueCapacity
      BY <2>1, <2>3, <2>5 DEF Decide, BackpressureInv, AtOrAbove, AtOrBelow
    <3>2. 100 * (sampled - flippedAt) >= (upperPercent - lowerPercent) * queueCapacity
      BY <2>2, <3>1, BackpressureConstants
    <3> QED
      BY <2>3, <2>5, <3>2
  <2> QED
    BY <2>4, <2>5, ZenonT(40)
<1> QED
  BY <1>3, BackpressureInvariance, PTL DEF BackpressureSpec, FlipsAcrossBand

-----------------------------------------------------------------------------
(* How many iterations of the round-robin loop come before p is tried. *)
Ahead(p, last) == (p + 2 - last) % 3

(* The burst counter never runs behind the messages bypassed, and a queue that
   was passed over n times has moved n places up in the rotation. *)
StarvationInv ==
  /\ consecutiveP0 \in Nat
  /\ lastYield \in Priority
  /\ bypassed \in Nat
  /\ bypassed <= consecutiveP0
  /\ BurstBounded
  /\ passedOver \in [Lower -> Nat]
  /\ \A p \in Lower : passedOver[p] + Ahead(p, lastYield) <= 2

(* Yielding to p moves every queue that comes later in the rotation up. *)
LEMMA YieldMovesUp ==
  ASSUME lastYield \in Priority, NEW p \in Lower, NEW q \in Lower, q # p, Waiting(q), YieldIteration(p)
  PROVE  Ahead(q, p) < Ahead(q, lastYield)
<1>1. PICK i \in Lower : p = RoundRobin(i) /\ \A j \in 1..(i - 1) : ~Waiting(RoundRobin(j))
  BY DEF YieldIteration
<1>2. \A j \in Lower : j < i => q # RoundRobin(j)
  BY <1>1 DEF Lower
<1>3. lastYield \in {0, 1, 2, 3} /\ p \in {1, 2, 3} /\ q \in {1, 2, 3} /\ i \in {1, 2, 3}
  BY DEF Priority, Lower
<1>4. p = ((lastYield + i - 1) % 3) + 1
  BY <1>1, Zenon DEF RoundRobin
<1>5. /\ i > 1 => q # (lastYield % 3) + 1
      /\ i > 2 => q # ((lastYield + 1) % 3) + 1
  <2>1. RoundRobin(1) = (lastYield % 3) + 1 /\ RoundRobin(2) = ((lastYield + 1) % 3) + 1
    BY <1>3 DEF RoundRobin
  <2> QED
    BY <1>2, <1>3, <2>1 DEF Lower
<1> QED
  BY <1>3, <1>4, <1>5 DEF Ahead

(* The places in the rotation are 0, 1 and 2, and 0 and 3 are the same origin. *)
LEMMA AheadRange ==
  ASSUME NEW p \in Lower, NEW last \in Priority
  PROVE  Ahead(p, last) \in 0..2 /\ Ahead(p, 3) = Ahead(p, 0)
  BY DEF Ahead, Lower, Priority

(* Every step of the scheduler keeps the invariant. *)
LEMMA StarvationPreserves ==
  StarvationInv /\ [SchedulerNext]_schedulerVars => StarvationInv'
<1> SUFFICES ASSUME StarvationInv, [SchedulerNext]_schedulerVars PROVE StarvationInv'
  OBVIOUS
<1> USE SchedulerConstants DEF StarvationInv, BurstBounded
<1>1. CASE UNCHANGED schedulerVars
  BY <1>1, Zenon DEF schedulerVars, queueVars
<1>2. ASSUME NEW m \in Message, Push(m)
      PROVE  StarvationInv'
  BY <1>2, Zenon DEF Push
<1>3. CASE Poll
  BY <1>3, AheadRange DEF Poll, LoopedAround, Priority
<1>4. ASSUME NEW p \in Lower, Yield(p)
      PROVE  StarvationInv'
  <2>1. consecutiveP0' = 0 /\ bypassed' = 0 /\ lastYield' = p /\ p \in Priority
    BY <1>4 DEF Yield, Lower, Priority
  <2>2. passedOver' = [q \in Lower |-> IF q = p \/ ~Waiting(q) THEN 0 ELSE passedOver[q] + 1]
    BY <1>4, ZenonT(40) DEF Yield
  <2>3. ASSUME NEW q \in Lower
        PROVE  passedOver'[q] + Ahead(q, p) <= 2
    <3>1. Ahead(q, p) \in 0..2 /\ Ahead(q, lastYield) \in 0..2
      BY <2>1, AheadRange, Zenon
    <3>2. CASE q = p \/ ~Waiting(q)
      BY <2>2, <3>1, <3>2
    <3>3. CASE q # p /\ Waiting(q)
      <4>1. Ahead(q, p) < Ahead(q, lastYield)
        BY <1>4, <3>3, YieldMovesUp, Zenon DEF Yield
      <4>2. passedOver'[q] = passedOver[q] + 1
        BY <2>2, <3>3, Zenon
      <4> QED
        BY <3>1, <4>1, <4>2
    <3> QED
      BY <3>2, <3>3, Zenon
  <2> QED
    BY <2>1, <2>2, <2>3
<1>5. ASSUME NEW p \in Priority, Select(p)
      PROVE  StarvationInv'
  <2>1. lastYield' \in Priority /\ \A q \in Lower : Ahead(q, lastYield') = Ahead(q, lastYield)
    BY <1>5, AheadRange DEF Select, LoopedAround, Priority
  <2>2. passedOver' = [q \in Lower |-> IF q = p \/ ~Waiting(q) THEN 0 ELSE passedOver[q]]
    BY <1>5 DEF Select
  <2>3. \A q \in Lower : passedOver'[q] + Ahead(q, lastYield') <= 2
    BY <2>1, <2>2, AheadRange
  <2>4. consecutiveP0' \in Nat /\ bypassed' \in Nat /\ bypassed' <= consecutiveP0' /\ bypassed' <= BurstLimit
    BY <1>5 DEF Select, MustYield
  <2> QED
    BY <2>1, <2>2, <2>3, <2>4, Zenon
<1> QED
  BY <1>1, <1>2, <1>3, <1>4, <1>5, Zenon DEF SchedulerNext, Dequeue

(* The invariant holds in every reachable state. *)
LEMMA StarvationInvariance == SchedulerSpec => []StarvationInv
<1>1. SchedulerInit => StarvationInv
  BY SchedulerConstants DEF SchedulerInit, StarvationInv, BurstBounded, Ahead, Lower, Priority
<1> QED
  BY <1>1, StarvationPreserves, PTL DEF SchedulerSpec

(* REQ-014 for every burst limit: never more than BurstLimit priority-0 messages
   are dequeued in a row past a waiting message of lower priority. *)
THEOREM BurstIsBounded == SchedulerSpec => []BurstBounded
  BY StarvationInvariance, PTL DEF StarvationInv

(* The forced yields of tryDequeue pass over a waiting queue at most twice. *)
THEOREM YieldsRotate == SchedulerSpec => []YieldRotates
<1>1. StarvationInv => YieldRotates
  BY AheadRange DEF StarvationInv, YieldRotates
<1> QED
  BY <1>1, StarvationInvariance, PTL
-----------------------------------------------------------------------------
(* The scheduler keeps its queues within their capacities and each message in
   the queue of its priority, for every capacity (Push, tryDequeue). *)
THEOREM SchedulerTypesCorrect == SchedulerSpec => []SchedulerTypeOK
<1>1. SchedulerInit => SchedulerTypeOK
  BY SchedulerConstants DEF SchedulerInit, SchedulerTypeOK, Cap, Priority
<1>2. ASSUME SchedulerTypeOK, [SchedulerNext]_schedulerVars
      PROVE  SchedulerTypeOK'
  <2> USE <1>2
  <2>1. CASE UNCHANGED schedulerVars
    BY <2>1, ZenonT(40) DEF SchedulerTypeOK, schedulerVars, queueVars
  <2>2. ASSUME NEW m \in Message, Push(m)
        PROVE  SchedulerTypeOK'
    <3>1. m.priority \in Priority /\ Cap(m.priority) \in Nat
      BY SchedulerConstants DEF Cap
    <3>2. Len(queues[m.priority]) < Cap(m.priority)
      BY <2>2, <3>1 DEF SchedulerTypeOK, Push, isFull
    <3> QED
      BY <2>2, <3>1, <3>2 DEF SchedulerTypeOK, Push
  <2>3. LoopedAround \in Priority
    BY DEF LoopedAround, SchedulerTypeOK, Priority
  <2>4. ASSUME NEW p \in Priority, Dequeue(p)
        PROVE  SchedulerTypeOK'
    <3>1. queues[p] # <<>> /\ queues' = [queues EXCEPT ![p] = Tail(queues[p])] /\ Cap(p) \in Nat
      BY <2>4, SchedulerConstants
      DEF Dequeue, Yield, YieldIteration, Select, Pop, Waiting, Cap
    <3>2. /\ consecutiveP0' \in Nat /\ lastYield' \in Priority /\ bypassed' \in Nat
          /\ passedOver' \in [Lower -> Nat]
      <4>0. /\ consecutiveP0 \in Nat /\ bypassed \in Nat /\ passedOver \in [Lower -> Nat]
            /\ Lower \subseteq Priority
        BY DEF SchedulerTypeOK, Lower, Priority
      <4>1. CASE p \in Lower /\ Yield(p)
        BY <4>0, <4>1, SMTT(40) DEF Yield
      <4>2. CASE Select(p)
        <5>1. lastYield' \in Priority
          BY <2>3, <4>2 DEF Select
        <5>2. consecutiveP0' \in Nat /\ bypassed' \in Nat
          BY <4>0, <4>2, SMTT(40) DEF Select
        <5>3. passedOver' \in [Lower -> Nat]
          BY <4>0, <4>2, SMTT(40) DEF Select
        <5> QED
          BY <5>1, <5>2, <5>3
      <4> QED
        BY <2>4, <4>1, <4>2 DEF Dequeue
    <3> QED
      BY <3>1, <3>2 DEF SchedulerTypeOK
  <2>5. CASE Poll
    BY <2>3, <2>5 DEF SchedulerTypeOK, Poll
  <2> QED
    BY <2>1, <2>2, <2>4, <2>5, Zenon DEF SchedulerNext
<1> QED
  BY <1>1, <1>2, PTL DEF SchedulerSpec

(* The composition of the queue types that is model-checked is a behaviour of
   each of them, so what is proved of one holds of it there. *)
THEOREM QueuesCompose ==
  QueuesSpec => SchedulerSpec /\ RingSpec /\ CoalescerSpec /\ BackpressureSpec
<1> DEFINE all == <<schedulerVars, ringVars, coalescerVars, backpressureVars, subject>>
<1>1. QueuesInit => SchedulerInit /\ RingInit /\ CoalescerInit /\ BackpressureInit
  BY DEF QueuesInit
<1>2. [QueuesNext]_all => [SchedulerNext]_schedulerVars
  BY DEF QueuesNext, BoundedSchedulerNext, BoundedPush, SchedulerNext, ringOnly, coalescerOnly,
         backpressureOnly
<1>3. [QueuesNext]_all => [RingNext]_ringVars
  BY DEF QueuesNext, schedulerOnly, coalescerOnly, backpressureOnly
<1>4. [QueuesNext]_all => [CoalescerNext]_coalescerVars
  BY DEF QueuesNext, schedulerOnly, ringOnly, backpressureOnly
<1>5. [QueuesNext]_all => [BackpressureNext]_backpressureVars
  BY DEF QueuesNext, schedulerOnly, ringOnly, coalescerOnly
<1> QED
  BY <1>1, <1>2, <1>3, <1>4, <1>5, PTL
  DEF QueuesSpec, SchedulerSpec, RingSpec, CoalescerSpec, BackpressureSpec

(* Whatever the capacities, no queue of package queues holds more than its own
   (NewPriorityScheduler, NewCommandResultQueue). *)
THEOREM QueuesBounded == QueuesSpec => []QueuesTypeOK
<1>1. BackpressureInv => BackpressureTypeOK
  BY DEF BackpressureInv
<1>2. SchedulerTypeOK /\ BackpressureTypeOK => QueuesTypeOK
  BY DEF QueuesTypeOK
<1> QED
  BY <1>1, <1>2, QueuesCompose, SchedulerTypesCorrect, BackpressureInvariance, PTL
=============================================================================
