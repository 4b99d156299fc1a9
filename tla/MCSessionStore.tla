--------------------------- MODULE MCSessionStore ---------------------------
(* Three threads, two identifiers, and two sessions that share one of them. *)
EXTENDS SessionStore, TLC

CONSTANTS k1, k2, a, b, c

MCSidOf == (a :> k1) @@ (b :> k1) @@ (c :> k2)
=============================================================================
