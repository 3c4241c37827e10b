----------------------------- MODULE MCGateway -----------------------------
(* The whole path of a request, on two requests at a time. *)
EXTENDS Gateway, TLC

CONSTANTS k1, k2

(* An upgrade and a query, each of which may be repeated under the same
   identifier, and a notification that the handler lets through. *)
Mixed == {<<k1, TRUE, "upgrade">>, <<k2, TRUE, "query">>, <<NoKey, FALSE, "query">>}

(* An upgrade, a competing configure, and a notification that it drops. *)
Competing == {<<k1, TRUE, "upgrade">>, <<k2, TRUE, "configure">>, <<NoKey, FALSE, "configure">>}

Symmetry == Permutations(RPC)
=============================================================================
