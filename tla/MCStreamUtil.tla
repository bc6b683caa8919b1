---------------------------- MODULE MCStreamUtil ----------------------------
(* StreamUtil with a 3-bit int (INT_MAX = 3), a 3-bit size_t, a 2-byte    *)
(* buffer, one initial slot and '-s' values 0, 1 and INT_MAX.             *)
EXTENDS StreamUtil

MCSArgs == {NoS, 0, 1, 3}
=============================================================================
