----------------------------- MODULE MCRagIndex -----------------------------
(* Two agents with one chunk each. *)
EXTENDS RagIndexRefinement, TLC

CONSTANTS c1, c2, o1, o2

MCOwnerOf == (c1 :> o1) @@ (c2 :> o2)
=============================================================================
