------------------------------ MODULE RmanMain ------------------------------
(***************************************************************************)
(* marfs-rman's startup (src/src/rsrc_mgr/resourcemanager.c): every MPI    *)
(* rank runs main(), which parses the command line with parse_args(),      *)
(* broadcasts rank 0's iteration name, completes its state and meets the   *)
(* other ranks at MPI_Barrier before the manager or worker loop.           *)
(*                                                                         *)
(* An option is a record whose field o is its letter; the argument of     *)
(* '-i', '-X', '-T' and '-L' is abstracted to the features the parser      *)
(* tests.  '-c', '-n', '-r' and '-Q' only store a value that nothing in    *)
(* this file tests, and are left out.  A rank's clock (gettimeofday) is    *)
(* one of Times, chosen per rank, so ranks may disagree.  RMAN_ABORT() is  *)
(* defined in a header that is not in the repository; it is taken to end  *)
(* the whole job, as MPI_Abort does.                                       *)
(***************************************************************************)
EXTENDS Integers, Sequences, FiniteSets, SequencesExt

CONSTANTS
  NRanks,        \* rankcount
  Tokens,        \* the options a command line is made of
  MaxArgs,       \* the longest command line
  Times,         \* the seconds gettimeofday may return
  MayFail,       \* whether mkdir, MPI calls and rmanstate_complete may fail
  InitMayFail    \* whether MPI_Init may fail

Ranks == 0 .. NRanks - 1

(* strtoull's ULLONG_MAX (overflow), which both parsers refuse.           *)
UllMax == 2147483647

(* The four operations with a time threshold: '-G', '-R', '-P', '-C'.      *)
Ops == {"G", "R", "P", "C"}

(* ArgThresholds_t without skip, which only rmanstate_complete uses, and   *)
(* the defaults GC_THRESH, RB_L_THRESH, RB_M_THRESH, RP_THRESH, CL_THRESH. *)
Default == [gc |-> 604800, rbl |-> 600, rbm |-> 120, rp |-> 259200, cl |-> 86400]

(* Mutant: '-T R' sets only the location-based rebuild threshold.        *)
FieldsRblOnly(f) == CASE f = "G" -> {"gc"} [] f = "R" -> {"rbl"}
                       [] f = "P" -> {"rp"} [] f = "C" -> {"cl"}

(* The fields of ArgThresholds_t a '-T' flag sets.                         *)
Fields(f) == CASE f = "G" -> {"gc"} [] f = "R" -> {"rbl", "rbm"}
               [] f = "P" -> {"rp"} [] f = "C" -> {"cl"}

(* The multiplier of a unit suffix; '-' ends the value before another     *)
(* threshold.                                                              *)
Unit(u) == CASE u \in {"", "s", "-"} -> 1 [] u = "m" -> 60
              [] u = "h" -> 3600 [] u = "d" -> 86400

(* The iteration name: unset, from '-i', from the '-X' path, "(null)",   *)
(* or the strftime of a clock value.                                       *)
Iter(src, t) == [src |-> src, t |-> t]
NoIter == Iter("none", 0)

(* The state parse_args builds: an immediate -1 (err), print_usage, '-l',  *)
(* '-p', '-d', the '-X' option, the enabled operations, the thresholds,   *)
(* lbrebuild, rebuildloc, the iteration name, the log root and the final  *)
(* gstate.thresh values.                                                   *)
Args(now) ==
  [err |-> FALSE, usage |-> FALSE, lroot |-> FALSE, pres |-> FALSE,
   dryrun |-> FALSE, xprev |-> [o |-> "none"], ops |-> {},
   thresh |-> [k \in DOMAIN Default |-> now - Default[k]], lb |-> FALSE,
   loc |-> [l \in {"p", "c", "s"} |-> 0], iteration |-> NoIter,
   logroot |-> <<"none", "none">>, gthresh |-> [f \in Ops |-> 0]]

(* '-T': the flag (a leading '-' is skipped); a value of ULLONG_MAX or   *)
(* a suffix other than s/m/h/d/'-' asks for the usage.                    *)
ThreshOpt(a, k, now) ==
  IF k.flag \notin Ops \/ k.val = UllMax \/ k.unit = "bad"
    THEN [a EXCEPT !.usage = TRUE]
    ELSE [a EXCEPT !.thresh = [x \in DOMAIN @ |->
            IF x \in Fields(k.flag) THEN now - k.val * Unit(k.unit) ELSE @[x]]]

(* Mutant: the type and value checks of '-L' are dropped.                 *)
LocOptUnchecked(a, k) == [a EXCEPT !.lb = TRUE, !.loc = (k.flag :> k.val) @@ @]

(* '-L': sets lbrebuild first; then the type (a leading '-' is skipped)   *)
(* and the value, which may be followed only by '-' or the end.           *)
LocOpt(a, k) ==
  LET b == [a EXCEPT !.lb = TRUE] IN
  IF k.flag \notin {"p", "c", "s"} \/ k.val = UllMax \/ k.end = "bad"
    THEN [b EXCEPT !.usage = TRUE]
    ELSE [b EXCEPT !.loc[k.flag] = k.val]

(* One pass of the getopt loop. After a 'return -1' (a '-i' value of      *)
(* ITERATION_STRING_LEN or more) the rest of argv is not looked at.        *)
GetOpt(a, k, now) ==
  IF a.err THEN a ELSE
  CASE k.o = "i" -> IF k.long THEN [a EXCEPT !.err = TRUE]
                              ELSE [a EXCEPT !.iteration = Iter("arg", 0)]
    [] k.o = "l" -> [a EXCEPT !.lroot = TRUE]
    [] k.o = "p" -> [a EXCEPT !.pres = TRUE]
    [] k.o = "d" -> [a EXCEPT !.dryrun = TRUE]
    [] k.o = "X" -> [a EXCEPT !.xprev = k]
    [] k.o \in Ops -> [a EXCEPT !.ops = @ \cup {k.o}]
    [] k.o = "T" -> ThreshOpt(a, k, now)
    [] k.o = "L" -> LocOpt(a, k)
    [] k.o \in {"h", "?"} -> [a EXCEPT !.usage = TRUE]

(* '-X': refused with '-G', '-R', '-P', '-C' or '-i'; the path must hold  *)
(* RECORD_ITERATION_PARENT, and the element after it names the iteration.  *)
(* When there is none, snprintf gets a NULL "%s", which glibc prints as   *)
(* "(null)".                                                               *)
ExecPrev(a) ==
  LET x == a.xprev IN
  CASE x.o = "none" -> a
    [] a.ops # {} \/ a.iteration # NoIter \/ ~x.parent \/ x.next = "long" ->
         [a EXCEPT !.err = TRUE]
    [] OTHER -> [a EXCEPT !.iteration = Iter(IF x.next = "ok" THEN "xpath"
                                                              ELSE "(null)", 0)]

(* The getopt loop, the print_usage test and the '-X' validation.         *)
ParseOpts(argv, now) ==
  LET a == FoldLeft(LAMBDA acc, k : GetOpt(acc, k, now), Args(now), argv) IN
  IF a.err \/ a.usage THEN [a EXCEPT !.err = TRUE] ELSE ExecPrev(a)

(* The log root: "%s/%s" of rman->logroot, which is NULL without '-l'     *)
(* (glibc prints "(null)"), and the dry-run or modify parent.             *)
LogRoot(a) ==
  <<IF a.lroot THEN "arg" ELSE "(null)", IF a.dryrun THEN "record" ELSE "modify">>

(* The tail of parse_args: the iteration from the clock when unset, and   *)
(* the threshold of every enabled operation; rebuilds use rbl with '-L'   *)
(* and rbm without.                                                        *)
Fill(a, now) ==
  [a EXCEPT
     !.iteration = IF @ = NoIter THEN Iter("clock", now) ELSE @,
     !.gthresh = [f \in Ops |->
        IF f \notin a.ops THEN 0
        ELSE CASE f = "G" -> a.thresh.gc
               [] f = "R" -> IF a.lb THEN a.thresh.rbl ELSE a.thresh.rbm
               [] f = "P" -> a.thresh.rp
               [] f = "C" -> a.thresh.cl]]

-----------------------------------------------------------------------------
Outcomes == IF MayFail THEN BOOLEAN ELSE {TRUE}

PCs == {"mpi", "parse", "logroot", "presroot", "bcast", "complete",
        "barrier", "run", "done", "exit"}

VARIABLES
  argv,      \* the command line, the same on every rank
  now,       \* each rank's gettimeofday
  pc,        \* each rank's point in main()
  args,      \* each rank's Args_t and rmanstate fields
  bval,      \* the iteration name rank 0 has broadcast
  aborted    \* RMAN_ABORT() has ended the job

vars == <<argv, now, pc, args, bval, aborted>>

Init ==
  /\ argv \in UNION {[1 .. n -> Tokens] : n \in 0 .. MaxArgs}
  /\ now \in [Ranks -> Times]
  /\ pc = [r \in Ranks |-> "mpi"]
  /\ args = [r \in Ranks |-> Args(now[r])]
  /\ bval = NoIter
  /\ aborted = FALSE

(* RMAN_ABORT(): every rank stops.                                        *)
Abort == aborted' = TRUE /\ UNCHANGED <<argv, now, pc, args, bval>>

Goto(r, p) == pc' = [pc EXCEPT ![r] = p]

(* MPI_Init failing returns -1 from this rank alone; MPI_Comm_size or     *)
(* MPI_Comm_rank failing aborts.                                          *)
MpiInit(r) ==
  /\ ~aborted /\ pc[r] = "mpi"
  /\ \/ InitMayFail /\ Goto(r, "exit") /\ UNCHANGED <<argv, now, args, bval, aborted>>
     \/ \E ok \in Outcomes :
          IF ok THEN Goto(r, "parse") /\ UNCHANGED <<argv, now, args, bval, aborted>>
          ELSE Abort

(* parse_args up to the log root: gettimeofday, the getopt loop and the   *)
(* '-X' checks; a -1 aborts the job.                                       *)
Parse(r) ==
  /\ ~aborted /\ pc[r] = "parse"
  /\ \E ok \in Outcomes :
       LET a == ParseOpts(argv, now[r]) IN
       IF ok /\ ~a.err
         THEN /\ args' = [args EXCEPT ![r] = a]
              /\ Goto(r, "logroot")
              /\ UNCHANGED <<argv, now, bval, aborted>>
         ELSE Abort

(* mkdir of the log root; EEXIST, as when another rank made it first, is *)
(* not an error.                                                           *)
MkLogRoot(r) ==
  /\ ~aborted /\ pc[r] = "logroot"
  /\ \E ok \in Outcomes :
       IF ok THEN /\ args' = [args EXCEPT ![r].logroot = LogRoot(args[r])]
                  /\ Goto(r, "presroot")
                  /\ UNCHANGED <<argv, now, bval, aborted>>
       ELSE Abort

(* mkdir of the preservation root with '-p', then the tail of parse_args. *)
MkPresRoot(r) ==
  /\ ~aborted /\ pc[r] = "presroot"
  /\ \E ok \in IF args[r].pres THEN Outcomes ELSE {TRUE} :
       IF ok THEN /\ args' = [args EXCEPT ![r] = Fill(@, now[r])]
                  /\ Goto(r, "bcast")
                  /\ UNCHANGED <<argv, now, bval, aborted>>
       ELSE Abort

(* Mutant: the iteration is broadcast only when totalranks > 2.           *)
BcastOffByOne(r) ==
  /\ ~aborted /\ pc[r] = "bcast"
  /\ r # 0 /\ NRanks > 2 => bval # NoIter
  /\ bval' = IF NRanks > 2 /\ r = 0 THEN args[0].iteration ELSE bval
  /\ args' = IF NRanks > 2 /\ r # 0 THEN [args EXCEPT ![r].iteration = bval] ELSE args
  /\ Goto(r, "complete")
  /\ UNCHANGED <<argv, now, aborted>>

(* Mutant: rank 0 waits for the broadcast as the other ranks do.          *)
BcastRootWaits(r) ==
  /\ ~aborted /\ pc[r] = "bcast"
  /\ bval # NoIter
  /\ args' = [args EXCEPT ![r].iteration = bval]
  /\ Goto(r, "complete")
  /\ UNCHANGED <<argv, now, bval, aborted>>

(* MPI_Bcast of rman.iteration from rank 0, only when totalranks > 1.     *)
(* Rank 0 sends and goes on; every other rank takes rank 0's name once it *)
(* has been sent.                                                          *)
Bcast(r) ==
  /\ ~aborted /\ pc[r] = "bcast"
  /\ r # 0 => bval # NoIter
  /\ \E ok \in IF NRanks > 1 THEN Outcomes ELSE {TRUE} :
       IF ok
         THEN /\ bval' = IF NRanks > 1 /\ r = 0 THEN args[0].iteration ELSE bval
              /\ args' = IF NRanks > 1 /\ r # 0
                            THEN [args EXCEPT ![r].iteration = bval] ELSE args
              /\ Goto(r, "complete")
              /\ UNCHANGED <<argv, now, aborted>>
         ELSE Abort

(* rmanstate_complete: loads the config; it may fail.                     *)
Complete(r) ==
  /\ ~aborted /\ pc[r] = "complete"
  /\ \E ok \in Outcomes :
       IF ok THEN Goto(r, "barrier") /\ UNCHANGED <<argv, now, args, bval, aborted>>
       ELSE Abort

(* MPI_Barrier: a rank leaves it once every rank has entered it.          *)
Barrier(r) ==
  /\ ~aborted /\ pc[r] = "barrier"
  /\ \A s \in Ranks : pc[s] \in {"barrier", "run", "done"}
  /\ \E ok \in Outcomes :
       IF ok THEN Goto(r, "run") /\ UNCHANGED <<argv, now, args, bval, aborted>>
       ELSE Abort

(* managerbehavior on rank 0, workerbehavior elsewhere, rmanstate_fini     *)
(* and MPI_Finalize; their code is not in the repository.                 *)
Behave(r) ==
  /\ ~aborted /\ pc[r] = "run"
  /\ Goto(r, "done")
  /\ UNCHANGED <<argv, now, args, bval, aborted>>

Step(r) ==
  \/ MpiInit(r) \/ Parse(r) \/ MkLogRoot(r) \/ MkPresRoot(r)
  \/ Bcast(r) \/ Complete(r) \/ Barrier(r) \/ Behave(r)

Next == \E r \in Ranks : Step(r)

(* Every rank is a process of its own.                                    *)
Spec == Init /\ [][Next]_vars /\ \A r \in Ranks : WF_vars(Step(r))

-----------------------------------------------------------------------------
(* Reference definitions, from the usage text of print_usage_info and the *)
(* comments on the default thresholds.                                     *)

Day == 24 * 60 * 60

(* The options of argv that name operation f, or give its '-T' value.      *)
Named(f) == SelectSeq(argv, LAMBDA k : k.o = f)
TOpts(f) == SelectSeq(argv, LAMBDA k : k.o = "T" /\ k.flag = f)

(* The age an operation works on: the last '-T' given for it, else the     *)
(* default: 7 days for gc, 10 minutes for rebuilds by location ('-L'), 2   *)
(* minutes for rebuilds by marker, 3 days for repacks, 1 day for cleanup. *)
Age(f) ==
  IF TOpts(f) # <<>>
    THEN LET k == Last(TOpts(f)) IN k.val * Unit(k.unit)
    ELSE CASE f = "G" -> 7 * Day
           [] f = "R" -> IF Named("L") # <<>> THEN 10 * 60 ELSE 2 * 60
           [] f = "P" -> 3 * Day
           [] f = "C" -> Day

(* The time threshold of each operation: files older than it are treated; *)
(* 0 leaves the operation off.                                             *)
Documented(t) == [f \in Ops |-> IF Named(f) = <<>> THEN 0 ELSE t - Age(f)]

-----------------------------------------------------------------------------
(* Properties.                                                             *)

TypeOK ==
  /\ argv \in Seq(Tokens) /\ Len(argv) <= MaxArgs
  /\ now \in [Ranks -> Times]
  /\ pc \in [Ranks -> PCs]
  /\ \A r \in Ranks :
       /\ args[r].ops \subseteq Ops
       /\ args[r].loc \in [{"p", "c", "s"} -> Int]
       /\ args[r].gthresh \in [Ops -> Int]
  /\ aborted \in BOOLEAN

(* Once parse_args has returned 0 on a rank, every operation its command *)
(* line enables has the threshold the usage text documents, from that     *)
(* rank's clock: the last '-T' for it, else its default, with a rebuild's *)
(* default chosen by '-L'; disabled operations have 0.  This is the       *)
(* getopt loop with its '-T'/'-L' parsing and the substitution at the end *)
(* of parse_args, taken together.                                          *)
ThresholdsAsDocumented ==
  \A r \in Ranks :
    pc[r] \in {"bcast", "complete", "barrier", "run", "done"} =>
      args[r].gthresh = Documented(now[r])

(* Every two ranks past MPI_Bcast log under the same iteration name,      *)
(* although each made its own from its own clock (main, 463-474).         *)
SameIteration ==
  \A r, s \in Ranks :
    pc[r] \in {"complete", "barrier", "run", "done"} /\
    pc[s] \in {"complete", "barrier", "run", "done"} =>
      args[r].iteration = args[s].iteration

(* Every run of the job ends: all ranks finish main() or the job aborts.  *)
Termination == <>(aborted \/ \A r \in Ranks : pc[r] = "done")

====
