--------------------------- MODULE OperationStore ---------------------------
(***************************************************************************)
(* The durable store of persistent operations (pkg/reqmgr/disk_store.go,   *)
(* pkg/reqmgr/store.go): one JSON file per operation, published by an      *)
(* atomic rename and removed by Delete.                                    *)
(*                                                                         *)
(* A record is never rewritten once it is visible, so its fields are kept  *)
(* as functions of the operation identifier.  The store's failure modes    *)
(* are switched on by the constant Faults:                                 *)
(*   "save"   Save returns an error, before or after the rename;           *)
(*   "delete" Delete returns an error and leaves the file;                 *)
(*   "read"   GetActive fails or skips files it cannot read;               *)
(*   "bootid" the host boot identifier cannot be read.                     *)
(***************************************************************************)
EXTENDS Integers, FiniteSets

CONSTANTS
  Op,                 \* operation identifiers (uuid.New in RespondAndRetain)
  RPC,                \* internal transaction identifiers (uuid.New in CreateTransaction)
  None,               \* the empty string / absent map entry
  Faults,             \* the storage failures that may happen
  activeRecordLimit   \* GetActive returns at most this many records; 0 = all

ASSUME StoreConstants ==
  /\ RPC \cap Op = {}
  /\ None \notin RPC \cup Op
  /\ Faults \subseteq {"save", "delete", "read", "bootid"}
  /\ activeRecordLimit \in Nat

VARIABLES
  onDisk,       \* the operations whose <id>.json is visible in the directory
  opRPC,        \* RPCID field; None while the identifier has not been issued
  opUpdatedAt,  \* UpdatedAt field, in whole seconds (RFC3339)
  opBootID      \* BootID field; 0 is the empty string

storeVars == <<onDisk, opRPC, opUpdatedAt, opBootID>>

StoreTypeOK ==
  /\ onDisk \subseteq Op
  /\ opRPC \in [Op -> RPC \cup {None}]
  /\ opUpdatedAt \in [Op -> Nat]
  /\ opBootID \in [Op -> Nat]

StoreInit ==
  /\ onDisk = {}
  /\ opRPC = [o \in Op |-> None]
  /\ opUpdatedAt = [o \in Op |-> 0]
  /\ opBootID = [o \in Op |-> 0]

(* Save up to the rename: write a temporary file, fsync it, rename it. *)
SaveRename(op) ==
  onDisk' = onDisk \cup {op}

(* Delete: a missing file is a success; a failed os.Remove leaves the file.
   (A failed directory sync is an error after the file is gone: the callers
   only log it.) *)
Delete(op) ==
  \/ onDisk' = onDisk \ {op}
  \/ "delete" \in Faults /\ op \in onDisk /\ UNCHANGED onDisk

(* Newest first by UpdatedAt; sort.Slice is unstable, so the operations with
   the same second come in any order. *)
NewestOf(ops) ==
  {o \in ops : \A p \in ops : opUpdatedAt[p] <= opUpdatedAt[o]}

(* The sets GetActive may return: the newest activeRecordLimit of the records
   it can read. *)
Truncated(ops) ==
  {kept \in SUBSET ops :
     IF activeRecordLimit = 0 \/ Cardinality(ops) <= activeRecordLimit
       THEN kept = ops
       ELSE /\ Cardinality(kept) = activeRecordLimit
            /\ \A o \in kept, p \in ops \ kept : opUpdatedAt[p] <= opUpdatedAt[o]}

GetActive ==
  UNION {Truncated(readable) :
           readable \in IF "read" \in Faults THEN SUBSET onDisk ELSE {onDisk}}
=============================================================================
