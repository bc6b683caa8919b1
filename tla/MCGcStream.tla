----------------------------- MODULE MCGcStream -----------------------------
(* Model values for GcStream.  MCLayout: three files, the second sharing  *)
(* its first object with the first file and spanning two objects; the    *)
(* third starting a new object.  MCLayout4 adds a fourth file that shares *)
(* the third file's object, so a dead run can end inside a shared object  *)
(* on both sides of a live file.                                          *)
EXTENDS GcStream, TLC

MCLayout == (0 :> [start |-> 0, end |-> 0]) @@
            (1 :> [start |-> 0, end |-> 1]) @@
            (2 :> [start |-> 2, end |-> 2])

MCLayout4 == MCLayout @@ (3 :> [start |-> 2, end |-> 3])
=============================================================================
