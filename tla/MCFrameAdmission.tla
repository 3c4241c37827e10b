-------------------------- MODULE MCFrameAdmission --------------------------
(* The frames and results the cloud and the device may send, over small sizes.
   Parameters vary only in frames that are otherwise readable, and the content
   of base64 fields is no larger than its frame; compressed content may be. *)
EXTENDS FrameAdmission

CONSTANT MaxSize  \* bound: sizes are 1..MaxSize

Sizes == 1..MaxSize

Bare(kind) == [kind |-> kind]

(* Parameters of a method other than configure. *)
ActionParams(method, size) ==
  {Bare("absent"), Bare("scalar"), Bare("array")} \cup
  [kind : {"object"}, serial : BOOLEAN, when : {0, 1}, fields : BOOLEAN,
   decoded : IF method \in {"certupdate", "script"} THEN 0..size ELSE {0}]

Configure(serial, uuid, when, compressSz, config, configUUID, compressed) ==
  [kind |-> "configure", serial |-> serial, uuid |-> uuid, when |-> when, config |-> config,
   configUUID |-> configUUID, compressSz |-> compressSz, compressed |-> compressed]

Plain ==
  {Configure(s, u, w, z, c, i, <<>>) :
     s \in BOOLEAN, u \in {0, 1}, w \in {0, 1}, z \in {0, 1},
     c \in {"none", "accepted", "refused"}, i \in {0, 2}}

(* What a compressed request may hold. *)
Inner ==
  {Configure(TRUE, u, 0, z, "accepted", i, <<>>) : u \in {0, 1}, z \in {0, 1}, i \in {0, 2}}
  \cup {Bare("corrupt")}

Compressed ==
  {Configure(outer, 0, 0, z, c, 0, <<[size |-> n, request |-> r]>>) :
     outer \in BOOLEAN, z \in 0..MaxSize, c \in {"none", "accepted"}, n \in Sizes, r \in Inner}

ParamsOf(method, size) ==
  IF method = "configure"
    THEN {Bare("absent"), Bare("scalar"), Bare("array")} \cup Plain \cup Compressed
    ELSE ActionParams(method, size)

Ids == {"absent", "null", "bad", "id"}

FrameOf(size, shape, id, method, params) ==
  [size |-> size, shape |-> shape, id |-> id, method |-> method, params |-> params]

Readable ==
  UNION {{FrameOf(n, "ok", i, m, p) : i \in Ids, p \in ParamsOf(m, n)} :
           n \in Sizes, m \in Methods}

Unreadable ==
  {FrameOf(n, s, i, m, Bare("absent")) :
     n \in Sizes, s \in {"ok", "mistyped", "badVersion"}, i \in Ids,
     m \in {"", "unknown", "configure", "ping"}}
  \cup {FrameOf(n, "broken", "absent", "", Bare("absent")) : n \in Sizes}

CloudFrames == Readable \cup Unreadable

(* One failing result type stands for all, "bogus" for an unknown one; the
   command and action are those of a method or no legal pair. *)
DeviceEnvelopes ==
  {[addressed |-> a, result |-> r, errorCode |-> c, command |-> p.command, action |-> p.action,
    uuid |-> u, payload |-> d] :
     a \in BOOLEAN, r \in {"success", "failure", "bogus"}, c \in {"", "0", "00", "7", "x"},
     p \in {getCommandAction[m] : m \in {"configure", "ping", "upgrade"}}
             \cup {Route("upgrade", "reboot", TRUE)},
     u \in {0, 1}, d \in {"none", "valid", "invalid"}}
=============================================================================
