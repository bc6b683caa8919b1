----------------------------- MODULE DalRegistry -----------------------------
(***************************************************************************)
(* The DAL registry of src/fuse/src/dal.c: the table dal_list[MAX_DAL]    *)
(* with dal_count, install_DAL(), dynamic_DAL() and get_DAL(), which      *)
(* installs the built-in OBJECT, NO_OP and POSIX DALs on its first call.  *)
(*                                                                         *)
(* The callers are not in the repository.  The comment above get_DAL()    *)
(* says applications may install their own DALs before the configuration *)
(* is read, so one thread makes any sequence of install_DAL() and         *)
(* get_DAL() calls.  A DAL is a record of its name, whether all twelve    *)
(* members DL_CHECK tests are set, and where it comes from; NULL is       *)
(* NullDal.  A failed assert() aborts the process: no call follows it.    *)
(***************************************************************************)
EXTENDS Integers, Sequences, SequencesExt

CONSTANTS
  AppDals,     \* the DALs an application may pass to install_DAL()
  Names,       \* the names get_DAL() may be asked for
  MaxDal,      \* MAX_DAL
  Asserts      \* FALSE for a build with NDEBUG: assert() is compiled out

NullDal == [name |-> "", full |-> FALSE, origin |-> "null"]

(* No get_DAL() has returned yet.                                          *)
NoCall == [name |-> "", full |-> FALSE, origin |-> "none"]

Builtin(n) == [name |-> n, full |-> TRUE, origin |-> "builtin"]

(* obj_dal, nop_dal and posix_dal, in the order get_DAL() installs them.  *)
Builtins == <<Builtin("OBJECT"), Builtin("NO_OP"), Builtin("POSIX")>>

ASSUME /\ MaxDal \in Nat /\ Asserts \in BOOLEAN
       /\ NullDal \notin AppDals

VARIABLES
  dal_list,    \* dal_list[0 .. dal_count-1]
  needs_init,  \* get_DAL()'s static needs_init
  result,      \* what the last get_DAL() returned; NoCall before the first
  aborted      \* an assert() failed

vars == <<dal_list, needs_init, result, aborted>>

Init ==
  /\ dal_list = <<>>
  /\ needs_init = TRUE
  /\ result = NoCall
  /\ aborted = FALSE

(* Mutant: the scan stops one entry short of last.                        *)
FindInSkipLast(list, last, n) ==
  SelectInSubSeq(list, 1, last - 1, LAMBDA e : e.name = n)

(* The index of the first entry of list[1..last] named n, or 0: the loop  *)
(* comparing name_len and strcmp().                                       *)
FindIn(list, last, n) == SelectInSubSeq(list, 1, last, LAMBDA e : e.name = n)

(* Mutant: the duplicate check stops one entry short.                     *)
InstallOkSkipLast(list, d) ==
  /\ d # NullDal
  /\ FindIn(list, Len(list) - 1, d.name) = 0
  /\ d.full
  /\ Len(list) < MaxDal

(* Mutant: the room check lets dal_count reach MAX_DAL + 1.              *)
InstallOkOverfull(list, d) ==
  /\ d # NullDal
  /\ FindIn(list, Len(list), d.name) = 0
  /\ d.full
  /\ Len(list) <= MaxDal

(* install_DAL() returns 0 when the DAL is not NULL, no installed DAL has *)
(* its name, every member is set and dal_count < MAX_DAL; then, and only  *)
(* then, it appends the DAL.                                              *)
InstallOk(list, d) ==
  /\ d # NullDal
  /\ FindIn(list, Len(list), d.name) = 0
  /\ d.full
  /\ Len(list) < MaxDal

Install(list, d) == IF InstallOk(list, d) THEN Append(list, d) ELSE list

(* The three asserted installs of get_DAL()'s first call, in order; ok is *)
(* FALSE once one returned -1, at which assert() aborts.                  *)
InitBuiltins(list) ==
  FoldLeft(LAMBDA acc, b :
             IF acc.ok /\ InstallOk(acc.list, b)
               THEN [ok |-> TRUE, list |-> Append(acc.list, b)]
               ELSE [acc EXCEPT !.ok = FALSE],
           [ok |-> TRUE, list |-> list], Builtins)

(* dynamic_DAL() returns NULL for every name: for "DYNAMIC" it returns    *)
(* before reading the library, any other name is unknown, and calloc()   *)
(* may fail.                                                              *)
DynamicDal(n) == NullDal

(* An application's call of install_DAL(); its return code is the        *)
(* caller's business.                                                     *)
AppInstall(d) ==
  /\ ~aborted
  /\ dal_list' = Install(dal_list, d)
  /\ UNCHANGED <<needs_init, result, aborted>>

(* Mutant: the one-time installs are made without assert(), their result *)
(* ignored.                                                               *)
GetDalNoAssert(n) ==
  LET list == IF needs_init THEN InitBuiltins(dal_list).list ELSE dal_list
      i == FindIn(list, Len(list), n)
  IN /\ ~aborted
     /\ dal_list' = list
     /\ needs_init' = FALSE
     /\ result' = IF i # 0 THEN list[i] ELSE NullDal
     /\ aborted' = FALSE

(* get_DAL(n): the one-time installs (skipped entirely without asserts), *)
(* the lookup, and for "DYNAMIC" the asserted install of dynamic_DAL()'s  *)
(* result.                                                                *)
GetDal(n) ==
  LET init == IF needs_init /\ Asserts THEN InitBuiltins(dal_list)
                                      ELSE [ok |-> TRUE, list |-> dal_list]
      list == init.list
      i == FindIn(list, Len(list), n)
      dyn == DynamicDal(n)
      fallback == n = "DYNAMIC" /\ i = 0
      dynAbort == Asserts /\ ~InstallOk(list, dyn)
  IN /\ ~aborted
     /\ needs_init' = (needs_init /\ ~init.ok)
     /\ IF ~init.ok
          THEN /\ aborted' = TRUE
               /\ dal_list' = list
               /\ UNCHANGED result
        ELSE IF fallback
          THEN /\ dal_list' = IF Asserts THEN Install(list, dyn) ELSE list
               /\ aborted' = dynAbort
               /\ result' = IF dynAbort THEN result ELSE dyn
          ELSE /\ dal_list' = list
               /\ result' = IF i # 0 THEN list[i] ELSE NullDal
               /\ UNCHANGED aborted

Next ==
  \/ \E d \in AppDals \cup {NullDal} : AppInstall(d)
  \/ \E n \in Names : GetDal(n)

Spec == Init /\ [][Next]_vars

-----------------------------------------------------------------------------
(* Properties.                                                            *)

TypeOK ==
  /\ dal_list \in Seq(AppDals \cup ToSet(Builtins))
  /\ Len(dal_list) <= MaxDal
  /\ needs_init \in BOOLEAN
  /\ result \in AppDals \cup ToSet(Builtins) \cup {NullDal, NoCall}
  /\ aborted \in BOOLEAN

(* No two DALs in dal_list share a name, whatever the order of the        *)
(* application's install_DAL() calls and the lazy built-in installs: a   *)
(* lookup by name is never ambiguous.                                     *)
NamesUnique ==
  \A i, j \in DOMAIN dal_list : i # j => dal_list[i].name # dal_list[j].name

(* The DAL a name denotes: the installed one of that name, or NULL.      *)
Denoted(list, n) ==
  IF \E d \in ToSet(list) : d.name = n
    THEN CHOOSE d \in ToSet(list) : d.name = n
    ELSE NullDal

(* A get_DAL(n) that returns hands back the DAL of that name installed    *)
(* once it has returned, or NULL if there is none: the scan of dal_count  *)
(* entries misses no entry, and the one-time installs happen before it.  *)
GetDalAnswer ==
  [][\A n \in Names : GetDal(n) /\ ~aborted' => result' = Denoted(dal_list', n)]_vars

(* A get_DAL() of a built-in name that returns hands back the built-in    *)
(* DAL itself: an application that installed a DAL of that name, or       *)
(* filled the table, before the first get_DAL() never has its DAL served  *)
(* in place of OBJECT, NO_OP or POSIX, nor NULL for them.                 *)
BuiltinsServed ==
  [][\A k \in DOMAIN Builtins :
       LET n == Builtins[k].name IN
       n \in Names /\ GetDal(n) /\ ~aborted' => result' = Builtins[k]]_vars

=============================================================================
