----------------------------- MODULE MCPosixDal -----------------------------
(* PosixDal for two file handles.  The handles are interchangeable: each  *)
(* names its own object, and descriptors go to the lowest free number      *)
(* whichever handle asks.                                                  *)
EXTENDS PosixDal, TLC

CONSTANTS c1, c2

MCCtx == {c1, c2}
MCSymmetry == Permutations(MCCtx)
=============================================================================
