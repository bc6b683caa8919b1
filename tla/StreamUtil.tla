----------------------------- MODULE StreamUtil -----------------------------
(***************************************************************************)
(* The command loop of marfs-streamutil (src/src/datastream/streamutil.c). *)
(* The utility keeps a growable table of DATASTREAM handles ('streamlist') *)
(* with one description string per slot ('streamdesc'), and runs one      *)
(* datastream library call per command on the slot selected with '-s'.   *)
(* The library is not in the repository: each of its calls takes one of  *)
(* the outcomes the comments of datastream.h allow.                       *)
(***************************************************************************)
EXTENDS Integers

CONSTANTS
  NULL,         \* the NULL DATASTREAM and the NULL description pointer
  NoS,          \* the command carries no '-s' argument
  InitAlloc,    \* the initial streamalloc (10 in the code)
  IntBits,      \* width of int, for 'tgtstream + 1'
  SizeBits,     \* width of size_t, for readbytes and writebytes
  Chunk,        \* size of the 4096-byte I/O buffer
  Bytes,        \* values of '-b'
  SArgs,        \* values of '-s' (a subset of 0 .. INT_MAX, plus NoS)
  MaxFds,       \* descriptors the process can still open
  MdalFaults    \* whether the MDAL's destroyctxt may fail

IntMax == 2^(IntBits - 1) - 1
SizeMod == 2^SizeBits
Kinds == {"CREATE", "READ", "EDIT"}

VARIABLES
  streams,      \* streamlist: the DATASTREAM of each slot, or NULL
  streamdesc,   \* the description of each slot: the kind it names, or NULL
  tgtstream,    \* the target slot
  streamalloc,  \* the number of allocated slots
  retval,       \* the status of the last command
  fds,          \* I/O files the process holds open
  phase,        \* "main": before command_loop; "cmd": at the prompt;
                \* "read"/"write": inside their loops; "done": command_loop
                \* has returned; "exit": main has returned
  loc           \* locals of read_command / write_command

vars == <<streams, streamdesc, tgtstream, streamalloc, retval, fds, phase, loc>>

NoLoc == [io |-> FALSE, b |-> FALSE, bv |-> 0, n |-> 0, ebad |-> FALSE]

TypeOK ==
  /\ streamalloc \in InitAlloc .. IntMax + 1
  /\ streams \in [0 .. streamalloc - 1 -> Kinds \cup {NULL}]
  /\ streamdesc \in [0 .. streamalloc - 1 -> Kinds \cup {NULL}]
  /\ tgtstream \in 0 .. IntMax
  /\ retval \in {0, -1}
  /\ fds \in 0 .. MaxFds
  /\ phase \in {"main", "cmd", "read", "write", "done", "exit", "undefined"}
  /\ loc \in [io : BOOLEAN, b : BOOLEAN, bv : Bytes \cup {0},
              n : 0 .. SizeMod - 1, ebad : BOOLEAN]

(* The two calloc calls either succeed, or command_loop returns -1.       *)
Init ==
  /\ streamalloc = InitAlloc
  /\ streams = [i \in 0 .. InitAlloc - 1 |-> NULL]
  /\ streamdesc = [i \in 0 .. InitAlloc - 1 |-> NULL]
  /\ tgtstream = 0
  /\ fds = 0
  /\ loc = NoLoc
  /\ phase = "main"
  /\ retval = 0

(* main() (lines 1274-1340): getopt of '-c', '-v' and '-h' ('?' for any   *)
(* other flag), then config_init() and, with '-v', config_validate(); a   *)
(* failure returns -1. Otherwise command_loop() starts: it returns -1 at  *)
(* once when either calloc of its lists fails, and else reaches the       *)
(* prompt with retval 0.                                                  *)
MainStart ==
  /\ phase = "main"
  /\ \E c, v, h, initOk, validOk, allocOk \in BOOLEAN :
       IF ~h /\ c /\ initOk /\ (v => validOk)
         THEN /\ phase' = IF allocOk THEN "cmd" ELSE "done"
              /\ retval' = IF allocOk THEN 0 ELSE -1
         ELSE /\ phase' = "exit"
              /\ retval' = -1
  /\ UNCHANGED <<streams, streamdesc, tgtstream, streamalloc, fds, loc>>

(* The end of main() (lines 1342-1353): a nonzero command_loop() result  *)
(* becomes -1, and a failed config_term() returns -1 as well.             *)
MainExit ==
  /\ phase = "done"
  /\ \E termOk \in BOOLEAN : retval' = IF termOk THEN retval ELSE -1
  /\ phase' = "exit"
  /\ UNCHANGED <<streams, streamdesc, tgtstream, streamalloc, fds, loc>>

-----------------------------------------------------------------------------
(* Resolving the target slot and growing the list (lines 928-952).         *)

Target(s) == IF s = NoS THEN tgtstream ELSE s

(* 'tgtstream + 1' in int: at INT_MAX the addition overflows; wrapping to  *)
(* INT_MIN is the outcome taken here, the other is AllocFail.             *)
IntInc(t) == IF t = IntMax THEN -(IntMax + 1) ELSE t + 1

Grows(t) == IntInc(t) > streamalloc

(* Mutant: the list is grown to tgtstream entries, one short.            *)
NewAllocShort(t) == IF Grows(t) THEN t ELSE streamalloc

NewAlloc(t) == IF Grows(t) THEN t + 1 ELSE streamalloc

InBounds(t) == t < NewAlloc(t)

(* Mutant: the bzero of the added entries starts one entry early.         *)
ExpandOffByOne(f, t) ==
  IF Grows(t) THEN [i \in 0 .. t |-> IF i < streamalloc - 1 THEN f[i] ELSE NULL]
              ELSE f

(* realloc keeps the old entries; bzero clears the added ones.            *)
Expand(f, t) ==
  IF Grows(t) THEN [i \in 0 .. t |-> IF i < streamalloc THEN f[i] ELSE NULL]
              ELSE f

Slot(f, t, v) == [Expand(f, t) EXCEPT ![t] = v]

(* Every command past the argument check starts here.                     *)
Begin(t) ==
  /\ phase = "cmd"
  /\ tgtstream' = t
  /\ streamalloc' = NewAlloc(t)

-----------------------------------------------------------------------------
(* Outcomes of the library calls, from the comments of datastream.h.       *)

(* A failure leaves the stream as it was, or, for the calls whose comment *)
(* says so, destroys it and sets errno to EBADFD. A call on a NULL stream *)
(* fails, with an errno the header does not name.                         *)
Failed(sv) == {[s |-> sv, ebad |-> FALSE], [s |-> NULL, ebad |-> TRUE]}

(* release and close: the stream is gone on success; on failure the      *)
(* header is silent, so it may be gone or kept.                           *)
Released(sv) == {NULL, sv}

-----------------------------------------------------------------------------
(* Shared tails of the command branches.                                   *)

(* 'retval = -1' with nothing else changed: a rejected argument set, or a *)
(* failure whose errno is not EBADFD.                                     *)
Reject(t) ==
  /\ retval' = -1
  /\ streams' = Expand(streams, t)
  /\ streamdesc' = Expand(streamdesc, t)

(* A failed library call, and the test that follows it in command_loop:   *)
(* 'errno == EBADFD && *(streamlist + tgtstream) == NULL' drops the       *)
(* description of the destroyed stream.                                   *)
FailCheck(t, f) ==
  /\ retval' = -1
  /\ streams' = Slot(streams, t, f.s)
  /\ streamdesc' = IF f.ebad /\ f.s = NULL THEN Slot(streamdesc, t, NULL)
                                           ELSE Expand(streamdesc, t)

Succeed(t) ==
  /\ retval' = 0
  /\ streams' = Expand(streams, t)
  /\ streamdesc' = Expand(streamdesc, t)

-----------------------------------------------------------------------------
(* The commands. Each action is one pass of command_loop: the '-s'         *)
(* resolution, the validation of the branch, the *_command function and   *)
(* the branch's tail.                                                     *)

(* The MDAL's destroyctxt after the library call (create_command and      *)
(* open_command): when it fails, its errno replaces EBADFD.               *)
CtxtFail == IF MdalFaults THEN BOOLEAN ELSE {FALSE}

(* The success tail of the 'create' and 'open' branches: the old          *)
(* description is freed and a new one malloc'ed; a failed malloc leaves   *)
(* none and the command fails, though the stream is open.                 *)
Describe(t, k) ==
  \E named \in BOOLEAN :
    /\ retval' = IF named THEN 0 ELSE -1
    /\ streams' = Slot(streams, t, k)
    /\ streamdesc' = Slot(streamdesc, t, IF named THEN k ELSE NULL)

(* The argument checks of the 'create' branch: '-p' and '-m', nothing     *)
(* but '-s' and '-c' besides.                                             *)
CreateArgsOk(fl) == {"p", "m"} \subseteq fl /\ "bad" \notin fl

(* The argument checks of the 'open' branch: '-p' and '-t', nothing but   *)
(* '-s' besides.                                                          *)
OpenArgsOk(fl) == {"p", "t"} \subseteq fl /\ "bad" \notin fl

(* create_command. strdup, newctxt and config_traverse may fail before    *)
(* datastream_create; a NULL slot gets a fresh stream.                    *)
Create ==
  \E s \in SArgs, fl \in SUBSET {"p", "m", "bad"} :
    LET t == Target(s) IN
    /\ Begin(t) /\ InBounds(t)
    /\ IF CreateArgsOk(fl)
         THEN \/ Reject(t)
              \/ Describe(t, "CREATE")
              \/ \E f \in Failed(Expand(streams, t)[t]), cf \in CtxtFail :
                   FailCheck(t, [f EXCEPT !.ebad = @ /\ ~cf])
         ELSE Reject(t)
    /\ UNCHANGED <<fds, phase, loc>>

(* open_command: as create_command, for a READ or EDIT stream ('-t').     *)
Open ==
  \E s \in SArgs, fl \in SUBSET {"p", "t", "bad"}, ty \in {"READ", "EDIT"} :
    LET t == Target(s) IN
    /\ Begin(t) /\ InBounds(t)
    /\ IF OpenArgsOk(fl)
         THEN \/ Reject(t)
              \/ Describe(t, ty)
              \/ \E f \in Failed(Expand(streams, t)[t]), cf \in CtxtFail :
                   FailCheck(t, [f EXCEPT !.ebad = @ /\ ~cf])
         ELSE Reject(t)
    /\ UNCHANGED <<fds, phase, loc>>

(* release_command / close_command always return 0 ("always consider the  *)
(* stream as released"), so the branch frees the description whatever    *)
(* the library did.                                                       *)
Drop(t, fl) ==
  /\ Begin(t) /\ InBounds(t)
  /\ \/ "bad" \in fl /\ Reject(t)
     \/ /\ fl = {}
        /\ \E sv \in Released(Expand(streams, t)[t]) :
             /\ retval' = 0
             /\ streams' = Slot(streams, t, sv)
             /\ streamdesc' = Slot(streamdesc, t, NULL)
  /\ UNCHANGED <<fds, phase, loc>>

Release == \E s \in SArgs, fl \in SUBSET {"bad"} : Drop(Target(s), fl)

Close == \E s \in SArgs, fl \in SUBSET {"bad"} : Drop(Target(s), fl)

(* The *_command functions. Each returns -1 when its required argument is *)
(* missing (errno stays 0), and otherwise the result of one library call. *)

(* setrpath_command: '-p' required; a failed datastream_setrecoverypath   *)
(* keeps the stream.                                                      *)
SetRPathCmd(t, fl) == IF "p" \in fl THEN Succeed(t) \/ Reject(t) ELSE Reject(t)

(* truncate_command: '-l' required; datastream_truncate keeps the stream. *)
TruncateCmd(t, fl) == IF "l" \in fl THEN Succeed(t) \/ Reject(t) ELSE Reject(t)

(* utime_command: '-i' required; fails when stat of the input file or     *)
(* datastream_utimens fails, and keeps the stream either way.             *)
UtimeCmd(t, fl) == IF "i" \in fl THEN Succeed(t) \/ Reject(t) ELSE Reject(t)

(* chunkbounds_command: '-n' is optional. Without it the loop stops at    *)
(* the first failure and succeeds when errno is EINVAL; with it one chunk *)
(* is asked. Either result is possible, and the stream is never changed. *)
ChunkBoundsCmd(t, fl) == Succeed(t) \/ Reject(t)

(* extend_command: '-l' required; datastream_extend may destroy the       *)
(* stream, which the branch's EBADFD test then notices.                   *)
ExtendCmd(t, fl) ==
  IF "l" \in fl
    THEN \/ Succeed(t)
         \/ \E f \in Failed(Expand(streams, t)[t]) : FailCheck(t, f)
    ELSE Reject(t)

(* seek_command: '-@' and '-f' required. It returns datastream_seek's     *)
(* off_t result as int, so a seek to any offset but 0 is reported as a    *)
(* failure; errno is then 0 and the stream alive, so nothing else        *)
(* happens.                                                               *)
SeekCmd(t, fl) ==
  IF {"at", "f"} \subseteq fl
    THEN \/ Succeed(t)
         \/ Reject(t)
         \/ \E f \in Failed(Expand(streams, t)[t]) : FailCheck(t, f)
    ELSE Reject(t)

(* The branches of command_loop for the commands with one library call:  *)
(* each rejects any argument its command does not take ('bad') and       *)
(* otherwise calls the command. Only the seek and extend branches test    *)
(* EBADFD afterwards, which SeekCmd and ExtendCmd include.               *)
SetRPath ==
  \E s \in SArgs, fl \in SUBSET {"p", "bad"} :
    LET t == Target(s) IN
    /\ Begin(t) /\ InBounds(t)
    /\ IF "bad" \in fl THEN Reject(t) ELSE SetRPathCmd(t, fl)
    /\ UNCHANGED <<fds, phase, loc>>

Seek ==
  \E s \in SArgs, fl \in SUBSET {"at", "f", "bad"} :
    LET t == Target(s) IN
    /\ Begin(t) /\ InBounds(t)
    /\ IF "bad" \in fl THEN Reject(t) ELSE SeekCmd(t, fl)
    /\ UNCHANGED <<fds, phase, loc>>

ChunkBounds ==
  \E s \in SArgs, fl \in SUBSET {"n", "bad"} :
    LET t == Target(s) IN
    /\ Begin(t) /\ InBounds(t)
    /\ IF "bad" \in fl THEN Reject(t) ELSE ChunkBoundsCmd(t, fl)
    /\ UNCHANGED <<fds, phase, loc>>

Extend ==
  \E s \in SArgs, fl \in SUBSET {"l", "bad"} :
    LET t == Target(s) IN
    /\ Begin(t) /\ InBounds(t)
    /\ IF "bad" \in fl THEN Reject(t) ELSE ExtendCmd(t, fl)
    /\ UNCHANGED <<fds, phase, loc>>

Truncate ==
  \E s \in SArgs, fl \in SUBSET {"l", "bad"} :
    LET t == Target(s) IN
    /\ Begin(t) /\ InBounds(t)
    /\ IF "bad" \in fl THEN Reject(t) ELSE TruncateCmd(t, fl)
    /\ UNCHANGED <<fds, phase, loc>>

Utime ==
  \E s \in SArgs, fl \in SUBSET {"i", "bad"} :
    LET t == Target(s) IN
    /\ Begin(t) /\ InBounds(t)
    /\ IF "bad" \in fl THEN Reject(t) ELSE UtimeCmd(t, fl)
    /\ UNCHANGED <<fds, phase, loc>>

(* 'streamlist' and an unrecognized command change nothing but the target *)
(* and the list size; neither touches retval or the target slot.          *)
Listing ==
  \E s \in SArgs :
    LET t == Target(s) IN
    /\ Begin(t)
    /\ streams' = Expand(streams, t)
    /\ streamdesc' = Expand(streamdesc, t)
    /\ UNCHANGED <<retval, fds, phase, loc>>

-----------------------------------------------------------------------------
(* read_command and write_command (lines 346-483) with their branches.    *)
(* Each pass of their transfer loop is a step of its own.                 *)

(* open() of the I/O file fails when no descriptor is left, and may fail  *)
(* for other reasons (a missing file, permissions).                       *)
IoOpens == IF fds < MaxFds THEN BOOLEAN ELSE {FALSE}

(* The branch's checks: no argument of another command ('bad'); '-@'      *)
(* needs the I/O file ('-o' for read, '-i' for write); '-f' needs '-@';   *)
(* write_command also needs '-b' or '-i'.                                 *)
LoopArgsOk(fl, iof) ==
  /\ "bad" \notin fl
  /\ "at" \in fl => iof \in fl
  /\ "f" \in fl => "at" \in fl
  /\ iof = "i" => ("b" \in fl \/ "i" \in fl)

(* The start of both functions: open the I/O file and lseek it when '-@'  *)
(* is given. A failed lseek returns -1 without closing the file.          *)
Start(t, fl, bv, iof, lp) ==
  /\ Begin(t) /\ InBounds(t)
  /\ \/ /\ ~LoopArgsOk(fl, iof)
        /\ Reject(t)
        /\ UNCHANGED <<fds, phase, loc>>
     \/ /\ LoopArgsOk(fl, iof)
        /\ \E opened \in IF iof \in fl THEN IoOpens ELSE {TRUE},
              sought \in IF iof \in fl /\ "at" \in fl THEN BOOLEAN ELSE {TRUE} :
             IF opened /\ sought
             THEN /\ phase' = lp
                  /\ loc' = [io |-> iof \in fl, b |-> "b" \in fl,
                             bv |-> IF "b" \in fl THEN bv ELSE 0, n |-> 0, ebad |-> FALSE]
                  /\ fds' = IF iof \in fl THEN fds + 1 ELSE fds
                  /\ retval' = -1
                  /\ streams' = Expand(streams, t)
                  /\ streamdesc' = Expand(streamdesc, t)
             ELSE /\ Reject(t)
                  /\ fds' = IF opened /\ iof \in fl THEN fds + 1 ELSE fds
                  /\ UNCHANGED <<phase, loc>>

Read ==
  \E s \in SArgs, fl \in SUBSET {"b", "o", "at", "f", "bad"}, bv \in Bytes :
    Start(Target(s), fl, bv, "o", "read")

Write ==
  \E s \in SArgs, fl \in SUBSET {"b", "i", "at", "f", "bad"}, bv \in Bytes :
    Start(Target(s), fl, bv, "i", "write")

(* The size of this pass: 4096, or what is left of '-b', in size_t.       *)
ToDo ==
  IF loc.b /\ (loc.n + Chunk) % SizeMod > loc.bv
    THEN (loc.bv - loc.n) % SizeMod
    ELSE Chunk

LoopCond(n) == ~loc.b \/ n < loc.bv

(* Return from the function with r, then the branch's test: a failure     *)
(* with errno EBADFD and a NULL stream drops the description.             *)
Finish(r, e, sv, shut) ==
  /\ retval' = r
  /\ streamdesc' = IF r # 0 /\ e /\ sv = NULL
                     THEN [streamdesc EXCEPT ![tgtstream] = NULL]
                     ELSE streamdesc
  /\ fds' = IF shut THEN fds - 1 ELSE fds
  /\ phase' = "cmd"
  /\ loc' = NoLoc

(* After a pass with the byte count now n: loop again, or leave (brk: the *)
(* pass moved less than asked). The tail closes the I/O file when 'shut', *)
(* and fails when fewer than '-b' bytes were counted.                     *)
Continue(n, e, brk, sv, shut) ==
  IF ~brk /\ LoopCond(n)
    THEN /\ loc' = [loc EXCEPT !.n = n, !.ebad = e]
         /\ UNCHANGED <<retval, streamdesc, fds, phase>>
    ELSE Finish(IF loc.b /\ n < loc.bv THEN -1 ELSE 0, e, sv, shut)

(* One pass of read_command's loop. A failed datastream_read returns -1:  *)
(* with '-o' the function closes the file and fails; without, 'readbytes  *)
(* += readres' subtracts one in size_t, and '-1 < toread' is false in the *)
(* unsigned comparison, so the loop goes on. A read is written to the     *)
(* output file, which may fail.                                           *)
ReadIter ==
  LET t == tgtstream
      sv == streams[t]
  IN
  /\ phase = "read"
  /\ \/ \E f \in Failed(sv) :
          /\ streams' = [streams EXCEPT ![t] = f.s]
          /\ IF loc.io
               THEN Finish(-1, f.ebad, f.s, TRUE)
               ELSE Continue((loc.n + SizeMod - 1) % SizeMod, f.ebad, FALSE, f.s, FALSE)
     \/ /\ sv # NULL
        /\ \E r \in 0 .. ToDo, wrote \in IF loc.io THEN BOOLEAN ELSE {TRUE} :
             /\ UNCHANGED streams
             /\ IF wrote
                  THEN Continue((loc.n + r) % SizeMod, loc.ebad, r < ToDo, sv, loc.io)
                  ELSE Finish(-1, loc.ebad, sv, TRUE)
  /\ UNCHANGED <<tgtstream, streamalloc>>

(* One pass of write_command's loop. With '-i' the pass reads the input   *)
(* file; a failed read() is only handled 'if ( opts->ofile )', which a    *)
(* write never has, so -1 goes on to datastream_write as a size_t count.  *)
(* A write whose result differs from readres closes the input file and    *)
(* fails; a -1 result equal to readres is counted, wrapping writebytes.   *)
(* The tail tests 'opts->ofile' again, so the input file stays open.      *)
WriteIter ==
  LET t == tgtstream
      sv == streams[t]
  IN
  /\ phase = "write"
  /\ \E rr \in IF loc.io THEN {-1} \cup 0 .. ToDo ELSE {ToDo} :
       \/ /\ sv # NULL /\ rr >= 0
          /\ UNCHANGED streams
          /\ Continue((loc.n + rr) % SizeMod, loc.ebad, rr < ToDo, sv, FALSE)
       \/ \E f \in Failed(sv) :
            /\ streams' = [streams EXCEPT ![t] = f.s]
            /\ IF rr = -1
                 THEN Continue((loc.n + SizeMod - 1) % SizeMod, f.ebad, FALSE, f.s, FALSE)
                 ELSE Finish(-1, f.ebad, f.s, loc.io)
       \/ /\ rr % SizeMod > Chunk /\ sv # NULL
          /\ phase' = "undefined"
          /\ UNCHANGED <<streams, streamdesc, retval, fds, loc>>
  /\ UNCHANGED <<tgtstream, streamalloc>>

-----------------------------------------------------------------------------
(* The loop itself.                                                        *)

(* A parse error in the arguments (lines 680-925): an unknown, duplicate  *)
(* or out-of-range flag, a flag without a value, a failed strdup. The     *)
(* command is skipped with retval -1, before '-s' is applied.             *)
ArgError ==
  /\ phase = "cmd"
  /\ retval' = -1
  /\ UNCHANGED <<streams, streamdesc, tgtstream, streamalloc, fds, phase, loc>>

(* How the loop is left: 'exit'/'quit' keeps the last retval; a failed or *)
(* over-long read of stdin sets -1.                                       *)
QuitStatus == {retval, -1}

(* Leaving the loop. The final loop releases every active stream, and     *)
(* since release_command always returns 0, its '== 0' test sets retval to *)
(* -1 for each of them.                                                   *)
Quit ==
  /\ phase = "cmd"
  /\ \E r \in QuitStatus, fin \in [DOMAIN streams -> Kinds \cup {NULL}] :
       /\ \A i \in DOMAIN streams : fin[i] \in Released(streams[i])
       /\ streams' = fin
       /\ retval' = IF \E i \in DOMAIN streams : streams[i] # NULL THEN -1 ELSE r
  /\ streamdesc' = [i \in DOMAIN streamdesc |-> NULL]
  /\ phase' = "done"
  /\ UNCHANGED <<tgtstream, streamalloc, fds, loc>>

(* realloc of streamlist or streamdesc fails: command_loop returns -1 at  *)
(* once, leaving the open streams unreleased. At INT_MAX this is the      *)
(* other outcome of the overflowing 'tgtstream + 1 > streamalloc', taken  *)
(* as 'tgtstream >= streamalloc', with a size no realloc can serve.       *)
AllocFail ==
  /\ phase = "cmd"
  /\ \E s \in SArgs :
       LET t == Target(s) IN
       /\ Grows(t) \/ (t = IntMax /\ t >= streamalloc)
       /\ tgtstream' = t
  /\ retval' = -1
  /\ phase' = "done"
  /\ UNCHANGED <<streams, streamdesc, streamalloc, fds, loc>>

(* With the wrapped 'tgtstream + 1' the list is not grown, and a command  *)
(* that passes its checks uses 'streamlist + tgtstream' past the end of   *)
(* the list: undefined behaviour, where the model stops.                  *)
OutOfBounds ==
  /\ phase = "cmd"
  /\ \E s \in SArgs : ~InBounds(Target(s)) /\ tgtstream' = Target(s)
  /\ phase' = "undefined"
  /\ UNCHANGED <<streams, streamdesc, streamalloc, retval, fds, loc>>

Next ==
  \/ Create \/ Open \/ Release \/ Close
  \/ Read \/ ReadIter \/ Write \/ WriteIter
  \/ SetRPath \/ Seek \/ ChunkBounds \/ Extend \/ Truncate \/ Utime \/ Listing
  \/ ArgError \/ Quit \/ AllocFail \/ OutOfBounds
  \/ MainStart \/ MainExit

Spec == Init /\ [][Next]_vars

-----------------------------------------------------------------------------
(* Properties.                                                             *)

(* Growing the list (realloc, then bzero of the added entries only) and   *)
(* every command keep the stream and the description of every slot but   *)
(* the target; only the final release loop touches them all.              *)
OnlyTargetChanges ==
  [][phase' # "done" =>
       \A i \in DOMAIN streams \ {tgtstream'} :
         /\ streams'[i] = streams[i]
         /\ streamdesc'[i] = streamdesc[i]]_vars

(* Between commands, a slot with a description (what 'streamlist' prints) *)
(* holds a live stream of the kind it names: command_loop drops the       *)
(* description when a command leaves the stream "rendered unusable".      *)
DescMatchesStream ==
  phase = "cmd" =>
    \A i \in DOMAIN streams : streamdesc[i] # NULL => streams[i] = streamdesc[i]

=============================================================================
