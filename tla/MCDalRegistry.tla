---------------------------- MODULE MCDalRegistry ----------------------------
EXTENDS DalRegistry

(* Application DALs: three names of their own and an impostor "POSIX", each *)
(* complete or missing a member.                                          *)
MCAppDals == [name : {"X", "Y", "Z", "POSIX"}, full : BOOLEAN, origin : {"app"}]

(* Every built-in name, an application's name and "DYNAMIC".              *)
MCNames == {"OBJECT", "NO_OP", "POSIX", "X", "DYNAMIC"}
=============================================================================
