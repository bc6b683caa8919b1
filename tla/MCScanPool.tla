----------------------------- MODULE MCScanPool -----------------------------
(* Model values for ScanPool: three reference directories, the first with *)
(* two stream heads around another entry, the second unreadable, the     *)
(* third with a head after another entry.                                 *)
EXTENDS ScanPool, TLC

CONSTANTS S1, S2, S3, S4

MCDirs == (0 :> <<S1, Other, S2>>) @@ (1 :> <<S3>>) @@ (2 :> <<Other, S4>>)
=============================================================================
