------------------------------ MODULE PosixDal ------------------------------
(***************************************************************************)
(* The POSIX data abstraction layer of MarFS (src/fuse/src/dal.c): one     *)
(* DAL_Context per open file handle, each reaching the object of its file  *)
(* through a descriptor of the one process-wide descriptor table.  FUSE    *)
(* serves several file handles at once, so the calls of different contexts *)
(* interleave; the calls on one context are made one at a time.  Every     *)
(* system call may fail where the code checks its result.                 *)
(***************************************************************************)
EXTENDS Integers, Sequences, FiniteSets

CONSTANTS
  Ctx,           \* the file handles; the object of handle c is named c
  Fds,           \* descriptor numbers the process can still hand out
  NoFile,        \* a free slot of the descriptor table
  MaxBytes,      \* bound on the size of an object
  Sizes,         \* the size arguments of put and get
  Offsets,       \* the chunk_offset arguments of open
  MayFail,       \* whether mkdir, open, lseek, write, read and fsync may fail
  CloseMayFail   \* whether close may fail (Linux releases the descriptor)

(* The bits of ObjectStream.flags this back end sets and tests.            *)
OSFlags == {"OPEN", "CLOSED", "READING", "WRITING", "EOF", "ABORT"}

VARIABLES
  pc,        \* progress of posix_dal_ctx_init, "none" once destroyed
  dirs,      \* the repo and namespace directories that exist
  gen,       \* POSIX_DAL_PATH_GENERATED in ctx->flags
  fd,        \* POSIX_DAL_FD(ctx), -1 when none
  osflags,   \* POSIX_DAL_OS(ctx)->flags, kept in the file handle
  fdtab,     \* the process's descriptor table: object, mode and offset
  data,      \* contents of each object: the handle that wrote each byte
  durable,   \* the prefix of each object that fsync has made durable
  exists,    \* the objects that exist as files
  synced     \* the last call on the context was a sync that returned 0

vars == <<pc, dirs, gen, fd, osflags, fdtab, data, durable, exists,
          synced>>

TypeOK ==
  /\ pc \in [Ctx -> {"none", "mkrepo", "statns", "mkns", "ready", "failed"}]
  /\ dirs \subseteq {"repo", "ns"}
  /\ gen \in [Ctx -> BOOLEAN]
  /\ fd \in [Ctx -> Fds \cup {-1}]
  /\ osflags \in [Ctx -> SUBSET OSFlags]
  /\ fdtab \in [Fds -> {NoFile} \cup
                 [obj : Ctx, mode : {"r", "w"}, pos : 0 .. MaxBytes]]
  /\ data \in [Ctx -> Seq(Ctx \cup {"zero"})]
  /\ \A c \in Ctx : Len(data[c]) <= MaxBytes
  /\ durable \in [Ctx -> Seq(Ctx \cup {"zero"})]
  /\ exists \subseteq Ctx
  /\ synced \in [Ctx -> BOOLEAN]

Init ==
  /\ pc = [c \in Ctx |-> "none"]
  /\ dirs = {}
  /\ gen = [c \in Ctx |-> FALSE]
  /\ fd = [c \in Ctx |-> -1]
  /\ osflags = [c \in Ctx |-> {}]
  /\ fdtab = [f \in Fds |-> NoFile]
  /\ data = [c \in Ctx |-> <<>>]
  /\ durable = [c \in Ctx |-> <<>>]
  /\ exists = {}
  /\ synced = [c \in Ctx |-> FALSE]

(* The call on c returns rv; only a sync returning 0 is recorded.        *)
Return(c, call, rv) ==
  synced' = [synced EXCEPT ![c] = (call = "sync" /\ rv = 0)]

(* A system call that the code checks either succeeds or fails.           *)
Outcomes == IF MayFail THEN BOOLEAN ELSE {TRUE}

(***************************************************************************)
(* posix_dal_ctx_init: allocate the context, clear fd and flags, then make *)
(* <host>/<repo> and <host>/<repo>/<ns> where stat finds them missing.     *)
(* The stat and the mkdir of each directory are separate steps: another   *)
(* handle's init may create the directory in between, and mkdir then fails *)
(* with EEXIST, which TRY0 returns as a failure.                          *)
(***************************************************************************)
CtxInit(c) ==
  /\ pc[c] = "none"
  /\ pc' = [pc EXCEPT ![c] = IF "repo" \in dirs THEN "statns" ELSE "mkrepo"]
  /\ fd' = [fd EXCEPT ![c] = -1]
  /\ gen' = [gen EXCEPT ![c] = FALSE]
  /\ UNCHANGED <<dirs, osflags, fdtab, data, durable, exists, synced>>

MkDir(c, d, at, next) ==
  /\ pc[c] = at
  /\ \E ok \in Outcomes :
       IF ok /\ d \notin dirs
       THEN /\ dirs' = dirs \cup {d}
            /\ pc' = [pc EXCEPT ![c] = next]
            /\ IF next = "ready" THEN Return(c, "init", 0) ELSE UNCHANGED synced
       ELSE /\ pc' = [pc EXCEPT ![c] = "failed"]
            /\ Return(c, "init", -1)
            /\ UNCHANGED dirs
  /\ UNCHANGED <<gen, fd, osflags, fdtab, data, durable, exists>>

MkRepo(c) == MkDir(c, "repo", "mkrepo", "statns")

StatNs(c) ==
  /\ pc[c] = "statns"
  /\ IF "ns" \in dirs
     THEN /\ pc' = [pc EXCEPT ![c] = "ready"]
          /\ Return(c, "init", 0)
     ELSE /\ pc' = [pc EXCEPT ![c] = "mkns"]
          /\ UNCHANGED synced
  /\ UNCHANGED <<dirs, gen, fd, osflags, fdtab, data, durable, exists>>

MkNs(c) == MkDir(c, "ns", "mkns", "ready")

(* posix_dal_ctx_destroy frees the context and clears ctx->flags; it does *)
(* not close the descriptor, and the ObjectStream stays in the handle.     *)
Destroy(c) ==
  /\ pc[c] \in {"ready", "failed"}
  /\ pc' = [pc EXCEPT ![c] = "none"]
  /\ gen' = [gen EXCEPT ![c] = FALSE]
  /\ Return(c, "destroy", 0)
  /\ UNCHANGED <<dirs, fd, osflags, fdtab, data, durable, exists>>

(* generate_path: the object path is <host>/<repo>/<ns>/<objid>, with the  *)
(* '/'s of the object id flattened to '#'; it names the object of c.       *)
GeneratePath(c) ==
  /\ pc[c] = "ready"
  /\ gen' = [gen EXCEPT ![c] = TRUE]
  /\ Return(c, "path", 0)
  /\ UNCHANGED <<pc, dirs, fd, osflags, fdtab, data, durable, exists>>

(* The lowest free descriptor, which open() hands out.                     *)
FreeFds == {f \in Fds : fdtab[f] = NoFile}
LowestFree == CHOOSE f \in FreeFds : \A g \in FreeFds : f <= g

(***************************************************************************)
(* posix_dal_open.  It fails unless the path was generated; a stream whose *)
(* flags are set must have been CLOSED, and is then reset.  READING or     *)
(* WRITING is set before open(),                                           *)
(* so a failed open() or lseek() leaves the flag behind, and a failed      *)
(* lseek() returns without closing the descriptor it just opened.          *)
(***************************************************************************)
Open(c) ==
  /\ pc[c] = "ready"
  /\ \E isput \in BOOLEAN, off \in Offsets :
     LET closed == "CLOSED" \in osflags[c]
         flags == (IF closed THEN {} ELSE osflags[c])
                    \cup {IF isput THEN "WRITING" ELSE "READING"}
         openable == /\ FreeFds # {}
                     /\ isput \/ c \in exists
         n == LowestFree
     IN
     \/ /\ ~gen[c] \/ (osflags[c] # {} /\ ~closed)
        /\ Return(c, "open", -1)
        /\ UNCHANGED <<fd, osflags, fdtab, exists>>
     \/ /\ gen[c] /\ (osflags[c] = {} \/ closed)
        /\ \E okOpen, okSeek \in Outcomes :
             IF ~(openable /\ okOpen)
             THEN /\ osflags' = [osflags EXCEPT ![c] = flags]
                  /\ Return(c, "open", -1)
                  /\ UNCHANGED <<fd, fdtab, exists>>
             ELSE /\ exists' = IF isput THEN exists \cup {c} ELSE exists
                  /\ fdtab' = [fdtab EXCEPT ![n] =
                                 [obj |-> c, mode |-> IF isput THEN "w" ELSE "r",
                                  pos |-> off]]
                  /\ IF off # 0 /\ ~okSeek
                     THEN /\ osflags' = [osflags EXCEPT ![c] = flags]
                          /\ Return(c, "open", -1)
                          /\ UNCHANGED fd
                     ELSE /\ osflags' = [osflags EXCEPT ![c] = flags \cup {"OPEN"}]
                          /\ fd' = [fd EXCEPT ![c] = n]
                          /\ Return(c, "open", 0)
  /\ UNCHANGED <<pc, dirs, gen, data, durable>>

(* k bytes written by handle w at offset p of contents s; a gap left by a  *)
(* seek past the end reads as zeros.                                       *)
WriteAt(s, p, k, w) ==
  LET len == IF p + k > Len(s) THEN p + k ELSE Len(s)
  IN [i \in 1 .. len |-> IF p < i /\ i <= p + k THEN w
                         ELSE IF i <= Len(s) THEN s[i] ELSE "zero"]

(* write() and read() fail with EBADF on a descriptor that is not open in  *)
(* the mode they need; the DAL does not look at its flags first.           *)
Usable(f, mode) == f # -1 /\ fdtab[f] # NoFile /\ fdtab[f].mode = mode

(* posix_dal_put: write() through the context's descriptor, short writes   *)
(* included.                                                               *)
Put(c) ==
  /\ pc[c] = "ready"
  /\ \E size \in Sizes :
     LET f == fd[c] IN
     IF ~Usable(f, "w")
     THEN /\ Return(c, "put", -1)
          /\ UNCHANGED <<fdtab, data>>
     ELSE LET e == fdtab[f] IN
          \/ /\ MayFail
             /\ Return(c, "put", -1)
             /\ UNCHANGED <<fdtab, data>>
          \/ \E k \in 1 .. size :
               /\ e.pos + k <= MaxBytes
               /\ data' = [data EXCEPT ![e.obj] = WriteAt(@, e.pos, k, c)]
               /\ fdtab' = [fdtab EXCEPT ![f].pos = @ + k]
               /\ Return(c, "put", k)
  /\ UNCHANGED <<pc, dirs, gen, fd, osflags, durable, exists>>

(* posix_dal_get: read() through the context's descriptor; a read of 0     *)
(* bytes sets OSF_EOF.                                                      *)
Get(c) ==
  /\ pc[c] = "ready"
  /\ \E size \in Sizes :
     LET f == fd[c] IN
     IF ~Usable(f, "r")
     THEN /\ Return(c, "get", -1)
          /\ UNCHANGED <<fdtab, osflags>>
     ELSE LET e == fdtab[f]
              avail == IF Len(data[e.obj]) > e.pos
                       THEN Len(data[e.obj]) - e.pos ELSE 0
              k == IF size < avail THEN size ELSE avail
          IN
          \/ /\ MayFail
             /\ Return(c, "get", -1)
             /\ UNCHANGED <<fdtab, osflags>>
          \/ /\ osflags' = IF k = 0
                           THEN [osflags EXCEPT ![c] = @ \cup {"EOF"}]
                           ELSE osflags
             /\ fdtab' = [fdtab EXCEPT ![f].pos = @ + k]
             /\ Return(c, "get", k)
  /\ UNCHANGED <<pc, dirs, gen, fd, data, durable, exists>>

CloseObjectZeroFd(c, call) ==
  LET f == fd[c] IN
  IF f = -1 \/ fdtab[f] = NoFile
  THEN /\ Return(c, call, -1)
       /\ UNCHANGED <<fd, osflags, fdtab>>
  ELSE /\ fdtab' = [fdtab EXCEPT ![f] = NoFile]
       /\ osflags' = [osflags EXCEPT ![c] = (@ \ {"OPEN"}) \cup {"CLOSED"}]
       /\ fd' = [fd EXCEPT ![c] = 0]
       /\ Return(c, call, 0)

CloseObjectKeepFd(c, call) ==
  LET f == fd[c] IN
  IF f = -1 \/ fdtab[f] = NoFile
  THEN /\ Return(c, call, -1)
       /\ UNCHANGED <<fd, osflags, fdtab>>
  ELSE /\ fdtab' = [fdtab EXCEPT ![f] = NoFile]
       /\ osflags' = [osflags EXCEPT ![c] = (@ \ {"OPEN"}) \cup {"CLOSED"}]
       /\ Return(c, call, 0)
       /\ UNCHANGED fd

(***************************************************************************)
(* close_posix_object: close() the descriptor, then clear OSF_OPEN, set    *)
(* OSF_CLOSED and reset the descriptor to -1.  When close() fails, TRY0    *)
(* returns at once and the flags and descriptor stay as they were; Linux   *)
(* has released the descriptor all the same.                              *)
(***************************************************************************)
CloseObject(c, call) ==
  LET f == fd[c] IN
  IF f = -1 \/ fdtab[f] = NoFile
  THEN /\ Return(c, call, -1)
       /\ UNCHANGED <<fd, osflags, fdtab>>
  ELSE \/ /\ fdtab' = [fdtab EXCEPT ![f] = NoFile]
          /\ osflags' = [osflags EXCEPT ![c] = (@ \ {"OPEN"}) \cup {"CLOSED"}]
          /\ fd' = [fd EXCEPT ![c] = -1]
          /\ Return(c, call, 0)
       \/ /\ CloseMayFail
          /\ fdtab' = [fdtab EXCEPT ![f] = NoFile]
          /\ Return(c, call, -1)
          /\ UNCHANGED <<fd, osflags>>

SyncNoFsync(c) ==
  /\ pc[c] = "ready"
  /\ "OPEN" \in osflags[c]
  /\ CloseObject(c, "sync")
  /\ UNCHANGED <<pc, dirs, gen, data, durable, exists>>

(* posix_dal_sync: EINVAL unless OSF_OPEN; then fsync() and close.  fsync  *)
(* makes the contents of the object behind the descriptor durable.        *)
Sync(c) ==
  /\ pc[c] = "ready"
  /\ LET f == fd[c] IN
     IF "OPEN" \notin osflags[c] \/ f = -1 \/ fdtab[f] = NoFile
     THEN /\ Return(c, "sync", -1)
          /\ UNCHANGED <<fd, osflags, fdtab, durable>>
     ELSE \/ /\ MayFail
             /\ Return(c, "sync", -1)
             /\ UNCHANGED <<fd, osflags, fdtab, durable>>
          \/ /\ durable' = [durable EXCEPT ![fdtab[f].obj] = data[fdtab[f].obj]]
             /\ CloseObject(c, "sync")
  /\ UNCHANGED <<pc, dirs, gen, data, exists>>

(* posix_dal_abort: EINVAL unless OSF_OPEN; otherwise only sets OSF_ABORT. *)
Abort(c) ==
  /\ pc[c] = "ready"
  /\ IF "OPEN" \notin osflags[c]
     THEN /\ Return(c, "abort", -1)
          /\ UNCHANGED osflags
     ELSE /\ osflags' = [osflags EXCEPT ![c] = @ \cup {"ABORT"}]
          /\ Return(c, "abort", 0)
  /\ UNCHANGED <<pc, dirs, gen, fd, fdtab, data, durable, exists>>

(* posix_dal_close: nothing to do once sync has closed the object.        *)
Close(c) ==
  /\ pc[c] = "ready"
  /\ IF "OPEN" \notin osflags[c]
     THEN /\ Return(c, "close", 0)
          /\ UNCHANGED <<fd, osflags, fdtab>>
     ELSE CloseObject(c, "close")
  /\ UNCHANGED <<pc, dirs, gen, data, durable, exists>>

(* posix_dal_delete converts the path array to a char and passes that to   *)
(* unlink(): the address is not a valid pointer, so unlink fails (EFAULT)  *)
(* and the object is never removed.                                       *)
Delete(c) ==
  /\ pc[c] = "ready"
  /\ Return(c, "delete", -1)
  /\ UNCHANGED <<pc, dirs, gen, fd, osflags, fdtab, data, durable,
                 exists>>

Next ==
  \E c \in Ctx :
    \/ CtxInit(c) \/ MkRepo(c) \/ StatNs(c) \/ MkNs(c) \/ Destroy(c)
    \/ GeneratePath(c) \/ Open(c) \/ Put(c) \/ Get(c) \/ Sync(c)
    \/ Abort(c) \/ Close(c) \/ Delete(c)

Spec == Init /\ [][Next]_vars

-----------------------------------------------------------------------------
(* A byte of an object is written only by the handle the object belongs   *)
(* to: a descriptor the DAL still uses after close never points at another *)
(* handle's object (close_posix_object resets POSIX_DAL_FD for this).      *)
NoForeignWrite ==
  \A o \in Ctx : \A i \in DOMAIN data[o] : data[o][i] \in {o, "zero"}

(* When posix_dal_sync returns 0, all the handle's object holds is durable: *)
(* the fsync went to its own object, before the close.                     *)
SyncedDurable ==
  \A c \in Ctx : synced[c] => durable[c] = data[c]
====
