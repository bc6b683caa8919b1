------------------------------ MODULE ScanPool ------------------------------
(***************************************************************************)
(* The scan of one namespace by ref_paths() (rsrc_mgr.c): a thread queue   *)
(* of producers running stream_prod() and consumers running stream_cons(), *)
(* and the main thread waiting for it, summing the consumers' quota and    *)
(* reporting it.                                                           *)
(*                                                                         *)
(* A producer claims reference directories through the mutex-protected     *)
(* cursor next_node, scans each for stream heads (file number 0) and hands *)
(* each head to the queue; its scanner and directory persist across calls. *)
(* A consumer walks a stream (walk_stream, modelled in GcStream) and adds  *)
(* its quota to its thread-local totals; the quota of a stream is          *)
(* abstracted to the stream itself, so a total is a bag of streams.        *)
(*                                                                         *)
(* The thread queue library (thread_queue.h) is not part of the            *)
(* repository; its behaviour is taken from the design document: a         *)
(* bounded queue, FINISHED once every producer has returned 1, the queue   *)
(* is empty and every consumer has stopped, and ABORT raised by a failing  *)
(* call, after which each thread stops at its next call boundary.          *)
(***************************************************************************)
EXTENDS Integers, Sequences, FiniteSets, Bags, Functions

CONSTANTS
  Dirs,        \* refnodes: index -> sequence of directory entries
  Unreadable,  \* directories on which statref() fails
  NProd,       \* n_prod, producer threads asked for (-t p:c)
  NCons,       \* n_cons, consumer threads
  QDepth,      \* QDEPTH, the capacity of the queue
  Other,       \* an entry that is not a stream head
  MayFail      \* whether walk_stream() may fail

NDirs == Cardinality(DOMAIN Dirs)
Streams == UNION {{Dirs[d][i] : i \in DOMAIN Dirs[d]} : d \in DOMAIN Dirs} \ {Other}

ASSUME /\ DOMAIN Dirs = 0 .. NDirs - 1
       /\ NProd >= 1 /\ NCons >= 1 /\ QDepth >= 1
       /\ MayFail \in BOOLEAN

(* ns_prod: ref_paths() starts no more producers than there are dirs.    *)
NsProd == IF NDirs < NProd THEN NDirs ELSE NProd

Producers == 1 .. NsProd
Consumers == 1 .. NCons
None == -1

VARIABLES
  nextNode,   \* gstate.next_node
  lock,       \* holder of gstate.lock, or None
  ppc,        \* producer control point
  refNode,    \* tstate->ref_node, a directory index or None
  pos,        \* tstate->scanner: index of the next entry to scan
  reg,        \* the value of next_node loaded by `next_node++`
  work,       \* the work package being handed to the queue
  queue,      \* the thread queue's pending work
  cpc,        \* consumer control point
  cwork,      \* the stream a consumer is walking
  acc,        \* tstate->q_data of each consumer, as a bag of streams
  abort,      \* TQ_ABORT
  mpc,        \* ref_paths() control point
  usage,      \* usage stored by setdatausage() in this scan, if any
  msg         \* totals sent to rank 0 by MPI_Send(), if any

pvars == <<nextNode, lock, ppc, refNode, pos, reg, work>>
cvars == <<cwork, acc>>
vars == <<pvars, queue, cpc, cvars, abort, mpc, usage, msg>>

TypeOK ==
  /\ nextNode \in 0 .. NDirs + NsProd
  /\ lock \in Producers \cup {None}
  /\ ppc \in [Producers -> {"call", "lock", "check", "take", "inc", "stat",
                            "scan", "put", "done"}]
  /\ refNode \in [Producers -> (0 .. NDirs + NsProd) \cup {None}]
  /\ pos \in [Producers -> Nat]
  /\ reg \in [Producers -> 0 .. NDirs + NsProd]
  /\ work \in [Producers -> Streams \cup {None}]
  /\ queue \in Seq(Streams) /\ Len(queue) <= QDepth
  /\ cpc \in [Consumers -> {"idle", "walk", "done"}]
  /\ cwork \in [Consumers -> Streams \cup {None}]
  /\ abort \in BOOLEAN
  /\ mpc \in {"wait", "done", "failed"}

Init ==
  /\ nextNode = 0
  /\ lock = None
  /\ ppc = [p \in Producers |-> "call"]
  /\ refNode = [p \in Producers |-> None]
  /\ pos = [p \in Producers |-> 1]
  /\ reg = [p \in Producers |-> 0]
  /\ work = [p \in Producers |-> None]
  /\ queue = <<>>
  /\ cpc = [c \in Consumers |-> "idle"]
  /\ cwork = [c \in Consumers |-> None]
  /\ acc = [c \in Consumers |-> EmptyBag]
  /\ abort = FALSE
  /\ mpc = "wait"
  /\ usage = <<>>
  /\ msg = <<>>

SetPc(p, l) == ppc' = [ppc EXCEPT ![p] = l]

(* statref() of the directory succeeds: it is one of refnodes and stat   *)
(* works on it.                                                           *)
Readable(d) == d \in DOMAIN Dirs /\ d \notin Unreadable

-----------------------------------------------------------------------------
(* stream_prod(), one step per access to shared or external state.       *)

(* The thread queue calls stream_prod() again unless ABORT is set; the    *)
(* call resumes the directory and scanner it left off with (773-779).    *)
Call(p) ==
  /\ ppc[p] = "call" /\ ~abort
  /\ SetPc(p, IF refNode[p] = None THEN "lock" ELSE "scan")
  /\ UNCHANGED <<nextNode, lock, refNode, pos, reg, work, queue, cpc, cvars,
                 abort, mpc, usage, msg>>

(* Mutant: the claim made without taking the lock.                       *)
LockUnguarded(p) ==
  /\ ppc[p] = "lock"
  /\ SetPc(p, "check")
  /\ UNCHANGED <<nextNode, lock, refNode, pos, reg, work, queue, cpc, cvars,
                 abort, mpc, usage, msg>>

(* pthread_mutex_lock(&gstate->lock) (782).                               *)
Lock(p) ==
  /\ ppc[p] = "lock" /\ lock = None
  /\ lock' = p
  /\ SetPc(p, "check")
  /\ UNCHANGED <<nextNode, refNode, pos, reg, work, queue, cpc, cvars,
                 abort, mpc, usage, msg>>

(* Mutant: the early return that keeps the lock.                         *)
CheckExhaustedLocked(p) ==
  /\ ppc[p] = "check" /\ nextNode >= NDirs
  /\ SetPc(p, "done")
  /\ UNCHANGED <<nextNode, lock, refNode, pos, reg, work, queue, cpc, cvars,
                 abort, mpc, usage, msg>>

(* Every directory has been claimed: unlock and return 1 (787-790).      *)
CheckExhausted(p) ==
  /\ ppc[p] = "check" /\ nextNode >= NDirs
  /\ lock' = None
  /\ SetPc(p, "done")
  /\ UNCHANGED <<nextNode, refNode, pos, reg, work, queue, cpc, cvars,
                 abort, mpc, usage, msg>>

CheckMore(p) ==
  /\ ppc[p] = "check" /\ nextNode < NDirs
  /\ SetPc(p, "take")
  /\ UNCHANGED <<nextNode, lock, refNode, pos, reg, work, queue, cpc, cvars,
                 abort, mpc, usage, msg>>

(* ref_node = &refnodes[next_node++] (792): the load of next_node, ...    *)
Take(p) ==
  /\ ppc[p] = "take"
  /\ reg' = [reg EXCEPT ![p] = nextNode]
  /\ refNode' = [refNode EXCEPT ![p] = nextNode]
  /\ SetPc(p, "inc")
  /\ UNCHANGED <<nextNode, lock, pos, work, queue, cpc, cvars, abort, mpc,
                 usage, msg>>

(* ... the store of the loaded value plus one, and the unlock (792-794). *)
Inc(p) ==
  /\ ppc[p] = "inc"
  /\ nextNode' = reg[p] + 1
  /\ lock' = None
  /\ SetPc(p, "stat")
  /\ UNCHANGED <<refNode, pos, reg, work, queue, cpc, cvars, abort, mpc,
                 usage, msg>>

(* statref() of the claimed directory: on failure the directory is        *)
(* skipped and the producer claims another; on success the scanner is     *)
(* opened at the first entry (797-806).                                   *)
Stat(p) ==
  /\ ppc[p] = "stat"
  /\ IF Readable(refNode[p])
       THEN /\ pos' = [pos EXCEPT ![p] = 1]
            /\ SetPc(p, "scan")
            /\ UNCHANGED refNode
       ELSE /\ refNode' = [refNode EXCEPT ![p] = None]
            /\ SetPc(p, "lock")
            /\ UNCHANGED pos
  /\ UNCHANGED <<nextNode, lock, reg, work, queue, cpc, cvars, abort, mpc,
                 usage, msg>>

(* One scan() of the directory (808-822): a stream head is returned as    *)
(* the work package; other entries are passed over; at the end the        *)
(* scanner is closed and the producer claims another directory.           *)
ScanEnd(p) ==
  /\ ppc[p] = "scan" /\ pos[p] > Len(Dirs[refNode[p]])
  /\ refNode' = [refNode EXCEPT ![p] = None]
  /\ SetPc(p, "lock")
  /\ UNCHANGED <<nextNode, lock, pos, reg, work, queue, cpc, cvars, abort,
                 mpc, usage, msg>>

ScanEntry(p) ==
  /\ ppc[p] = "scan" /\ pos[p] <= Len(Dirs[refNode[p]])
  /\ LET e == Dirs[refNode[p]][pos[p]]
     IN /\ pos' = [pos EXCEPT ![p] = @ + 1]
        /\ IF e # Other
             THEN /\ work' = [work EXCEPT ![p] = e]
                  /\ SetPc(p, "put")
             ELSE UNCHANGED <<ppc, work>>
  /\ UNCHANGED <<nextNode, lock, refNode, reg, queue, cpc, cvars, abort,
                 mpc, usage, msg>>

(* Mutant: an enqueue that does not wait for room.                        *)
PutUnbounded(p) ==
  /\ ppc[p] = "put" /\ ~abort
  /\ queue' = Append(queue, work[p])
  /\ work' = [work EXCEPT ![p] = None]
  /\ SetPc(p, "call")
  /\ UNCHANGED <<nextNode, lock, refNode, pos, reg, cpc, cvars, abort, mpc,
                 usage, msg>>

(* The thread queue enqueues the work package, waiting while the queue    *)
(* holds QDEPTH packages.                                                 *)
Put(p) ==
  /\ ppc[p] = "put" /\ ~abort /\ Len(queue) < QDepth
  /\ queue' = Append(queue, work[p])
  /\ work' = [work EXCEPT ![p] = None]
  /\ SetPc(p, "call")
  /\ UNCHANGED <<nextNode, lock, refNode, pos, reg, cpc, cvars, abort, mpc,
                 usage, msg>>

(* Once ABORT is set, the thread queue stops a producer at its next call  *)
(* boundary.                                                              *)
StopProducer(p) ==
  /\ ppc[p] \in {"call", "put"} /\ abort
  /\ SetPc(p, "done")
  /\ UNCHANGED <<nextNode, lock, refNode, pos, reg, work, queue, cpc, cvars,
                 abort, mpc, usage, msg>>

Producer(p) ==
  \/ Call(p) \/ Lock(p) \/ CheckExhausted(p) \/ CheckMore(p) \/ Take(p)
  \/ Inc(p) \/ Stat(p) \/ ScanEnd(p) \/ ScanEntry(p) \/ Put(p)
  \/ StopProducer(p)

-----------------------------------------------------------------------------
(* stream_cons() and the thread queue around it.                         *)

(* The thread queue hands a consumer the oldest work package.             *)
Dequeue(c) ==
  /\ cpc[c] = "idle" /\ ~abort /\ queue # <<>>
  /\ cwork' = [cwork EXCEPT ![c] = Head(queue)]
  /\ queue' = Tail(queue)
  /\ cpc' = [cpc EXCEPT ![c] = "walk"]
  /\ UNCHANGED <<pvars, acc, abort, mpc, usage, msg>>

(* walk_stream() succeeds and its quota is added to tstate->q_data        *)
(* (731-745).                                                             *)
WalkOk(c) ==
  /\ cpc[c] = "walk"
  /\ acc' = [acc EXCEPT ![c] = @ (+) SetToBag({cwork[c]})]
  /\ cwork' = [cwork EXCEPT ![c] = None]
  /\ cpc' = [cpc EXCEPT ![c] = "idle"]
  /\ UNCHANGED <<pvars, queue, abort, mpc, usage, msg>>

(* walk_stream() fails: stream_cons() returns -1 (731-734) and the        *)
(* thread queue raises ABORT.                                             *)
WalkFail(c) ==
  /\ MayFail /\ cpc[c] = "walk"
  /\ abort' = TRUE
  /\ cpc' = [cpc EXCEPT ![c] = "done"]
  /\ UNCHANGED <<pvars, queue, cvars, mpc, usage, msg>>

(* An idle consumer stops on ABORT, or once every producer has returned 1 *)
(* and the queue is empty.                                                *)
StopConsumer(c) ==
  /\ cpc[c] = "idle"
  /\ \/ abort
     \/ (\A p \in Producers : ppc[p] = "done") /\ queue = <<>>
  /\ cpc' = [cpc EXCEPT ![c] = "done"]
  /\ UNCHANGED <<pvars, queue, cvars, abort, mpc, usage, msg>>

Consumer(c) == Dequeue(c) \/ WalkOk(c) \/ WalkFail(c) \/ StopConsumer(c)

-----------------------------------------------------------------------------
(* The main thread in ref_paths().                                        *)

Finished ==
  /\ \A p \in Producers : ppc[p] = "done"
  /\ \A c \in Consumers : cpc[c] = "done"
  /\ queue = <<>>

(* The sum of the consumers' quota.                                       *)
Totals == FoldFunction(LAMBDA a, b : a (+) b, EmptyBag, acc)

(* tq_wait_for_flags() returns ABORT: ref_paths() destroys the lock and   *)
(* the MDAL context and returns -1 (928-948).                             *)
MainAbort ==
  /\ mpc = "wait" /\ abort
  /\ mpc' = "failed"
  /\ UNCHANGED <<pvars, queue, cpc, cvars, abort, usage, msg>>

(* FINISHED: the thread totals are summed, the queue is closed, the usage *)
(* is set (a failure of setdatausage() is only logged) and the totals are *)
(* sent to rank 0 (950-1016).                                             *)
MainFinish ==
  /\ mpc = "wait" /\ ~abort /\ Finished
  /\ \E stored \in {<<Totals>>, usage} : usage' = stored
  /\ msg' = <<Totals>>
  /\ mpc' = "done"
  /\ UNCHANGED <<pvars, queue, cpc, cvars, abort>>

Next ==
  \/ \E p \in Producers : Producer(p)
  \/ \E c \in Consumers : Consumer(c)
  \/ MainAbort \/ MainFinish

Spec == Init /\ [][Next]_vars

(* The threads are scheduled by the operating system and the main thread  *)
(* waits on the queue's flags: every thread that can step eventually does.*)
FairSpec ==
  /\ Spec
  /\ \A p \in Producers : WF_vars(Producer(p))
  /\ \A c \in Consumers : WF_vars(Consumer(c))
  /\ WF_vars(MainAbort \/ MainFinish)

-----------------------------------------------------------------------------
(* Properties.                                                            *)

(* One copy of every stream head in a directory statref() can read.      *)
Expected == SetToBag(UNION {{Dirs[d][i] : i \in DOMAIN Dirs[d]} :
                             d \in {x \in DOMAIN Dirs : Readable(x)}} \ {Other})

(* The totals ref_paths() reports for the namespace count every stream of *)
(* every readable directory exactly once: the claims of next_node under   *)
(* the lock, the scanners kept across stream_prod() calls and the         *)
(* summing of the consumers' q_data together neither lose nor repeat a    *)
(* stream.                                                                *)
ReportedUsage == \A i \in DOMAIN msg : msg[i] = Expected

(* ref_paths() eventually returns: the producers exhaust the directories, *)
(* the consumers drain the queue and the thread queue finishes or aborts. *)
PoolTerminates == <>(mpc # "wait")

(* Once ref_paths() has returned -1 and destroyed gstate.lock and the     *)
(* MDAL context, no thread of the pool is inside stream_prod() or a       *)
(* stream walk that still uses them.                                      *)
InCall == {"lock", "check", "take", "inc", "stat", "scan"}
ReleasedOnlyWhenQuiet ==
  mpc = "failed" =>
    /\ \A p \in Producers : ppc[p] \notin InCall
    /\ \A c \in Consumers : cpc[c] # "walk"

=============================================================================
