-------------------------- MODULE MCRequestManager --------------------------
(* The request manager alone, driven by arbitrary callers. *)
EXTENDS RequestManager, TLC

AnyRequest == (Key \cup {NoKey}) \X BOOLEAN \X Methods

(* A request with an id asks for a response; one without may or may not. *)
CloudRequests == (Key \X {TRUE} \X {"query", "upgrade"}) \cup ({NoKey} \X BOOLEAN \X Methods)

Symmetry == Permutations(RPC) \cup Permutations(Op) \cup Permutations(Key)
=============================================================================
