----------------------------- MODULE Dispatcher -----------------------------
(***************************************************************************)
(* The namespace dispatcher of the resource manager (rsrc_mgr.c): every    *)
(* MPI rank runs find_rank_ns() over the namespace tree of the config,     *)
(* scanning with ref_paths() the namespaces it owns, each of which sends   *)
(* one summary to rank 0; rank 0 then receives as many summaries as        *)
(* find_rank_ns() returned namespaces (main()).                            *)
(*                                                                         *)
(* Namespaces are 1 .. NNs with 1 the root; parent[i] < i, and the         *)
(* subspaces of a namespace are in increasing order.  ns_tgt (-n) is a     *)
(* namespace, Missing (a name that is in no tree) or NoTarget.  The scan   *)
(* of a namespace is ScanPool; here only its outcome matters: it fails for *)
(* the namespaces in failing, and otherwise sends its summary.  MPI_Send   *)
(* of a 1024-byte message completes without a matching receive (eager     *)
(* delivery), as it does under the MPI implementations the code is run on. *)
(***************************************************************************)
EXTENDS Integers, Sequences, FiniteSets, Bags

CONSTANTS
  NRanks,    \* n_ranks, from MPI_Comm_size
  NNs,       \* number of namespaces in the config
  Targets,   \* the values of ns_tgt to try
  MayFail,   \* whether ref_paths() may fail
  StartMayFail \* whether config_init, config_verify or MPI setup may fail

Ranks == 0 .. NRanks - 1
Nodes == 1 .. NNs
Root == 1
NoTarget == 0
Missing == NNs + 1

ASSUME /\ NRanks >= 1 /\ NNs >= 1 /\ MayFail \in BOOLEAN /\ StartMayFail \in BOOLEAN
       /\ Targets \subseteq Nodes \cup {NoTarget, Missing}

(* Every namespace tree with NNs namespaces.                               *)
Trees == {p \in [2 .. NNs -> Nodes] : \A i \in 2 .. NNs : p[i] < i}

(* The command lines main() is started with: whether '-c' is given, the  *)
(* '-t p:c' argument (absent, valid, or one strtol rejects) and whether    *)
(* getopt meets an unknown option.  '-d' and '-v' change no control here.  *)
Argvs == [c : BOOLEAN, t : {"none", "good", "bad"}, unknown : BOOLEAN]

VARIABLES
  argv,      \* the options, the same on every rank
  parent,    \* the namespace tree of the config
  tgt,       \* ns_tgt
  failing,   \* the namespaces whose ref_paths() fails
  rpc,       \* control point of each rank
  total,     \* total_ns of each rank
  handled,   \* <<rank, namespace>> pairs on which ref_paths() was called
  chan,      \* summaries sent to rank 0 and not yet received
  printed    \* summaries rank 0 has received

vars == <<argv, parent, tgt, failing, rpc, total, handled, chan, printed>>

TypeOK ==
  /\ argv \in Argvs
  /\ parent \in Trees
  /\ tgt \in Targets
  /\ failing \subseteq Nodes
  /\ rpc \in [Ranks -> {"start", "walk", "recv", "done", "exit"}]
  /\ total \in [Ranks -> -1 .. NNs]
  /\ handled \subseteq Ranks \X Nodes
  /\ IsABag(chan) /\ IsABag(printed)

Init ==
  /\ argv \in Argvs
  /\ parent \in Trees
  /\ tgt \in Targets
  /\ failing \in IF MayFail THEN SUBSET Nodes ELSE {{}}
  /\ rpc = [r \in Ranks |-> "start"]
  /\ total = [r \in Ranks |-> 0]
  /\ handled = {}
  /\ chan = EmptyBag
  /\ printed = EmptyBag

(* The getopt loop and the checks after it (1072-1128): an invalid '-t'    *)
(* returns -1 at once, an unknown option prints the usage and returns -1,  *)
(* and so does a command line without '-c'.                                *)
ArgsOk(a) == a.t # "bad" /\ ~a.unknown /\ a.c

(* main() from its options to MPI_Comm_rank (1130-1162): config_init,      *)
(* config_verify with '-v', MPI_Init, MPI_Comm_size and MPI_Comm_rank,     *)
(* any of which may fail on one rank alone; every failure returns -1.      *)
Startup(r) ==
  /\ rpc[r] = "start"
  /\ \E ok \in IF StartMayFail THEN BOOLEAN ELSE {TRUE} :
       rpc' = [rpc EXCEPT ![r] = IF ArgsOk(argv) /\ ok THEN "walk" ELSE "exit"]
  /\ UNCHANGED <<argv, parent, tgt, failing, total, handled, chan, printed>>

(* ns->subnodes, in order.                                                 *)
Kids(n) == SelectSeq([i \in 1 .. NNs |-> i], LAMBDA i : i > 1 /\ parent[i] = n)

(* The outcome of a call: its return value and the namespaces it scanned, *)
(* every one of which has sent its summary unless it failed.               *)
Result(ret, scanned) == [ret |-> ret, scanned |-> scanned]

(* ref_paths(): -1 on failure, else 0 after MPI_Send of the summary.       *)
RefPaths(n) == Result(IF n \in failing THEN -1 ELSE 0, {n})

RECURSIVE FindRankNs(_, _, _), FindKids(_, _, _), FindKidsSameIdx(_, _, _),
          FindKidsTwice(_, _, _)

(* find_rank_ns(ns, idx, name, ns_tgt) on rank r (1028-1063).              *)
FindRankNs(n, idx, r) ==
  CASE tgt # NoTarget /\ r # 0 -> Result(0, {})
    [] tgt # NoTarget /\ n = tgt -> RefPaths(n)
    [] OTHER ->
         LET own == IF tgt = NoTarget /\ idx % NRanks = r
                      THEN RefPaths(n) ELSE Result(0, {})
             kids == FindKids(Kids(n), idx + 1, r)
             scanned == own.scanned \cup kids.scanned
         IN CASE own.ret < 0 -> own
              [] kids.ret < 0 -> Result(-1, scanned)
              [] tgt # NoTarget /\ kids.ret # 0 -> Result(-1, scanned)
              [] OTHER -> Result(kids.ret, scanned)

(* Mutant: the loop passes every subspace the same idx.                   *)
FindKidsSameIdx(ks, idx, r) ==
  IF ks = <<>> THEN Result(idx, {})
  ELSE LET h == FindRankNs(Head(ks), idx, r)
           t == FindKidsSameIdx(Tail(ks), idx, r)
       IN IF h.ret < 0 THEN h
          ELSE Result(t.ret, h.scanned \cup t.scanned)

(* Mutant: the loop counts a subspace twice.                               *)
FindKidsTwice(ks, idx, r) ==
  IF ks = <<>> THEN Result(idx, {})
  ELSE LET h == FindRankNs(Head(ks), idx, r)
           t == FindKidsTwice(Tail(ks), h.ret + 1, r)
       IN IF h.ret < 0 THEN h
          ELSE Result(t.ret, h.scanned \cup t.scanned)

(* The loop over ns->subnodes, threading idx through the calls.            *)
FindKids(ks, idx, r) ==
  IF ks = <<>> THEN Result(idx, {})
  ELSE LET h == FindRankNs(Head(ks), idx, r)
           t == FindKids(Tail(ks), h.ret, r)
       IN IF h.ret < 0 THEN h
          ELSE Result(t.ret, h.scanned \cup t.scanned)

(* Summaries sent by the namespaces a walk scanned.                        *)
Sent(scanned) == SetToBag(scanned \ failing)

(* main() up to the receive loop (1164-1177): rank r walks the tree; on a  *)
(* negative result it returns, else rank 0 goes on to receive total_ns     *)
(* summaries, which is 1 with -n.                                          *)
Walk(r) ==
  /\ rpc[r] = "walk"
  /\ LET res == FindRankNs(Root, 0, r)
     IN /\ handled' = handled \cup ({r} \X res.scanned)
        /\ chan' = chan (+) Sent(res.scanned)
        /\ total' = [total EXCEPT ![r] = IF tgt # NoTarget THEN 1 ELSE res.ret]
        /\ rpc' = [rpc EXCEPT ![r] = CASE res.ret < 0 -> "exit"
                                       [] r = 0 -> "recv"
                                       [] OTHER -> "done"]
  /\ UNCHANGED <<argv, parent, tgt, failing, printed>>

(* MPI_Recv from MPI_ANY_SOURCE: rank 0 takes any pending summary         *)
(* (1180-1186).                                                            *)
Recv ==
  /\ rpc[0] = "recv"
  /\ BagCardinality(printed) < total[0]
  /\ \E n \in BagToSet(chan) :
       /\ chan' = chan (-) SetToBag({n})
       /\ printed' = printed (+) SetToBag({n})
  /\ UNCHANGED <<argv, parent, tgt, failing, rpc, total, handled>>

(* Mutant: the receive loop runs to i <= total_ns.                         *)
FinishLate ==
  /\ rpc[0] = "recv"
  /\ BagCardinality(printed) = total[0] + 1
  /\ rpc' = [rpc EXCEPT ![0] = "done"]
  /\ UNCHANGED <<argv, parent, tgt, failing, total, handled, chan, printed>>

(* Rank 0 has received total_ns summaries and finalizes (1187-1193).       *)
Finish ==
  /\ rpc[0] = "recv"
  /\ BagCardinality(printed) = total[0]
  /\ rpc' = [rpc EXCEPT ![0] = "done"]
  /\ UNCHANGED <<argv, parent, tgt, failing, total, handled, chan, printed>>

Next == (\E r \in Ranks : Startup(r) \/ Walk(r)) \/ Recv \/ Finish

Spec == Init /\ [][Next]_vars

(* Every rank is a process of its own that keeps running.                  *)
FairSpec == Spec /\ \A r \in Ranks : WF_vars(Startup(r) \/ Walk(r)) /\ WF_vars(Recv \/ Finish)

-----------------------------------------------------------------------------
(* Reference definitions.                                                  *)

RECURSIVE Preorder(_), PreorderAll(_)
(* The namespaces of the subtree of n, depth first.                        *)
Preorder(n) == <<n>> \o PreorderAll(Kids(n))
PreorderAll(ks) ==
  IF ks = <<>> THEN <<>> ELSE Preorder(Head(ks)) \o PreorderAll(Tail(ks))

(* The 0-based visitation index of a namespace.                            *)
Index(n) == CHOOSE i \in 0 .. NNs - 1 : Preorder(Root)[i + 1] = n

(* The rank that owns a namespace: index mod n_ranks, or rank 0 for -n.    *)
Owner(n) == IF tgt = NoTarget THEN Index(n) % NRanks ELSE 0

(* The namespaces whose summaries rank 0 must print.                       *)
Wanted == IF tgt = NoTarget THEN Nodes ELSE {tgt} \cap Nodes

-----------------------------------------------------------------------------
(* Properties.                                                             *)

(* Every namespace is scanned only by the rank that owns it, and when     *)
(* rank 0 finishes it has printed one summary of every namespace it is    *)
(* meant to, and no other: the idx threaded through the recursion of      *)
(* find_rank_ns() and the total_ns every rank returns agree.              *)
EachNamespaceOnce ==
  /\ \A <<r, n>> \in handled : r = Owner(n)
  /\ rpc[0] = "done" => printed = SetToBag(Wanted)

(* Rank 0 eventually gets past its receive loop or returns an error.      *)
Termination == <>(rpc[0] \in {"done", "exit"})

=============================================================================
