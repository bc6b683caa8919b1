----------------------------- MODULE MCHashRing -----------------------------
(* Model values for HashRing: a ring of two real nodes.                   *)
EXTENDS HashRing

CONSTANTS A, B

MCNodes == <<A, B>>
=============================================================================
