# TLA+ models of the MarFS resource manager

This directory holds TLA+ models of the parts of this repository whose
correctness depends on interleavings, crashes and protocol order: the
garbage collector of `src/src/rsrc_mgr/rsrc_mgr.c`, its worker pool and
process dispatcher, the consistent-hash ring of `src/src/hash/hash.c`, the
datastream test utility `src/src/datastream/streamutil.c`, the POSIX back
end and the registry of the FUSE data abstraction layer, `src/fuse/src/dal.c`, and the
startup of the new resource manager, `src/src/rsrc_mgr/resourcemanager.c`. `PROJECT.json` maps every
definition that models code to the lines it stands for, and lists every run
of the model checker, the hazards of the code and what the runs found.

## The system

The resource manager (`rsrc_mgr.c`) runs as a group of MPI processes.

- **Namespace dispatcher** (`find_rank_ns`, `main`). Every process walks the
  namespace tree depth first. It handles the namespaces whose index modulo the
  process count is its rank, or only the namespace named with `-n`, which
  rank 0 handles. Each handled namespace sends one summary message to rank 0,
  which receives as many messages as there are namespaces.
- **Scan coordinator** (`ref_paths`, `stream_prod`, `stream_cons`). This is a
  thread queue per namespace.
  - Producers claim reference directories through a mutex-protected cursor
    (`next_node`). They scan each directory for references with file number 0,
    the heads of the streams.
  - Consumers walk each stream and add its quota to thread-local totals.
  - The totals are summed, written as the namespace's usage and sent to rank 0.
  - A consumer that fails aborts the thread queue, and the namespace then fails.
- **Stream walker** (`walk_stream`, `get_ftag`). A stream is a chain of files
  `0, 1, 2, …` packed into a chain of data objects, where neighbouring files
  may share an object. Each file has a reference file, hard-linked to the user's
  file.
  - The walker follows the references, reading each one's FTAG xattr (file and
    object numbers, finalized state, end-of-stream flag) and its `gc_skip`
    marker.
  - It classifies each reference: dead (link count 1 and older than
    `RECENT_THRESH`), live, or too recent.
  - It calls the executor on every run of dead references.
- **GC executor** (`gc`). It deletes the dead objects, then writes
  `IN_PROG <n>[z]` on the anchor (the last live reference before the run, or
  reference 0). Next it unlinks the dead references, then commits `<n>[z]`.
  - A later walk jumps over the `n` reclaimed references.
  - When it finds `IN_PROG`, it repeats the interrupted call.
  - `-1` stands for "to the end of the stream".
  - `z` records that reference 0 itself is dead.
- **Hash ring** (`hash.c`). A weighted consistent-hash ring of virtual nodes,
  with successor lookup and iteration over the real nodes.
- **Datastream utility** (`streamutil.c`). An interactive shell over the
  datastream library (`datastream.h`). It keeps a growable table of stream
  handles with a description per slot. Each command runs one library call on
  the slot chosen with `-s`: create, open, release, close, read, write, seek,
  and so on. The library's implementation is not in the repository.
- **DAL** (`dal.c`). The per-file object-stream back ends (`OBJECT`, `NO_OP`,
  `POSIX`) and their registry. The FUSE daemon gives each open file handle a
  `DAL_Context` and calls `update_object_location`, `open`, `put`/`get`,
  then `sync` or `abort`, then `close`. The POSIX back end keeps each object as
  a file under `<host>/<repo>/<ns>/`. It holds the file's descriptor in the
  context and its state bits (`OSF_OPEN`, `OSF_CLOSED`, …) in the handle's
  `ObjectStream`. All handles share the process's one descriptor table.
  The registry `dal_list` holds up to `MAX_DAL` DALs by name. The first
  `get_DAL` call installs the three built-in DALs, and an application may
  install its own with `install_DAL` before or after that call.
- **New resource manager front end** (`resourcemanager.c`). `marfs-rman`
  also runs as MPI ranks. Each rank parses the command line (`parse_args`):
  which operations to run (`-G`, `-R`, `-P`, `-C`), their age thresholds
  (`-T`), the location-based rebuild (`-L`), the log roots, and `-X` to
  re-run a previous iteration. It then takes rank 0's iteration name by
  `MPI_Bcast`, completes its state and meets the others at `MPI_Barrier`
  before rank 0 runs the manager loop and the others the worker loop.

## Modules

| module | models | state | actions |
|---|---|---|---|
| `GcStream` | one stream under `walk_stream` / `get_ftag` / `gc`, with its writer, its user and crashes | the metadata store (`exists`, `linked`, `old`, `fin`, `eos`, `marker`), the object store (`objs`), the walker's locals (`pc`, `fileno`, `next`, `inactive`, `ignoreZero`, `lastRef`, `vRef`, `lastObj`, `delZero`) and the `gc` call in progress (`frame`) | one per branch of the walk (`WalkDead`, `WalkLiveGc`, `WalkLive`, `LastDead`, `LastLiveGc`, `LastLive`, …), one per outcome of `get_ftag` (`GetFtagMissing`, `GetFtagPlain`, `GetFtagSkip`, `GetFtagRetry`), one per step of `gc` (`GcDeleteObject`, `GcMarkZero`, `GcMarkInProgress`, `GcUnlinkRef`, `GcHeadReclaimed`, `GcCommit`, `GcFault`), and `Crash` |
| `GcAbstract` | what the collector promises | files created, references present, files the user still has, objects | `Create`, `Remove`, `Reclaim`, `DeleteObject` |
| `MCGcStream` | model values for `GcStream` | | |
| `ScanPool` | one namespace scan by `ref_paths` with its producer and consumer threads | the cursor `nextNode` and `lock`; each producer's control point `ppc`, directory `refNode`, scanner position `pos` and head `work`; the queue; each consumer's `cpc`, stream `cwork` and totals `acc`; `abort`; the main thread's `mpc`, the stored usage and the message to rank 0 | producer steps `Call`, `Lock`, `CheckExhausted`, `CheckMore`, `Take`, `Inc`, `Stat`, `ScanEntry`, `ScanEnd`, `Put`, `StopProducer`; consumer steps `Dequeue`, `WalkOk`, `WalkFail`, `StopConsumer`; main steps `Finished`, `MainAbort`, `MainFinish` |
| `MCScanPool` | three reference directories holding four streams | | |
| `Dispatcher` | `main`'s options and startup, `find_rank_ns` on every rank and rank 0's receive loop in `main` | the command line `argv`, the namespace tree `parent`, `-n` (`tgt`), the failing scans, each rank's control point and `total_ns`, the (rank, namespace) pairs scanned, the summaries in flight (`chan`) and received (`printed`) | `Startup(r)`, `Walk(r)`, `Recv`, `Finish` |
| `HashRing` | `hash_init`, `hash_lookup`, `hash_iterate`, `hash_term` | the node weights, the lookup flag, the id function, the table's lifecycle `phase`, the sorted `vnodes`, the iterator `curnode`/`iterated`, the last lookup and the nodes iterated since | `HashInit`, `HashTerm`, `Lookup(q)`, `Iterate` |
| `MCHashRing` | two nodes `A`, `B` | | |
| `StreamUtil` | `command_loop` of `streamutil.c` with every command branch and `*_command` function | the slot table `streams` (`streamlist`) and `streamdesc`, `tgtstream`, `streamalloc`, `retval`, the open I/O files `fds`, the loop `phase` and the locals of the transfer loops (`loc`: `-b`, I/O file, byte count, whether errno is `EBADFD`) | `Create`, `Open`, `Release`, `Close`, `Read`/`ReadIter`, `Write`/`WriteIter`, `SetRPath`, `Seek`, `ChunkBounds`, `Extend`, `Truncate`, `Utime`, `Listing` (streamlist and unknown commands), `ArgError`, `Quit`, `AllocFail`, `OutOfBounds`, and `main()` before and after the loop (`MainStart`, `MainExit`) |
| `MCStreamUtil` | `-s` values 0, 1 and INT_MAX | | |
| `PosixDal` | the POSIX DAL of `dal.c` for several file handles | per handle: the progress of `posix_dal_ctx_init` (`pc`), `POSIX_DAL_PATH_GENERATED` (`gen`), `POSIX_DAL_FD` (`fd`) and `OS->flags` (`osflags`); the directories made (`dirs`), the process's descriptor table (`fdtab`: object, mode, offset), the objects that exist and their contents (`data`, each byte tagged with the handle that wrote it), what `fsync` has made durable (`durable`), and whether the handle's last call was a sync that returned 0 (`synced`) | `CtxInit`, `MkRepo`, `StatNs`, `MkNs`, `Destroy`, `GeneratePath`, `Open`, `Put`, `Get`, `Sync`, `Abort`, `Close`, `Delete` |
| `MCPosixDal` | two handles `c1`, `c2`, with symmetry | | |
| `DalRegistry` | `install_DAL`, `dynamic_DAL` and `get_DAL` of `dal.c` | the table `dal_list` (with `dal_count` as its length), `needs_init`, the last DAL `get_DAL` returned, and whether an `assert` aborted the process | `AppInstall(d)`, `GetDal(n)` |
| `MCDalRegistry` | application DALs `X`, `Y`, `Z` and an impostor `POSIX`, complete or not | | |
| `RmanMain` | `parse_args` and `main` of `resourcemanager.c` up to the manager and worker loops | the command line `argv`, each rank's clock `now`, control point `pc` and parsed state `args`, the buffer rank 0 broadcasts (`bval`), and whether the job was aborted | `MpiInit(r)`, `Parse(r)`, `MkLogRoot(r)`, `MkPresRoot(r)`, `Bcast(r)`, `Complete(r)`, `Barrier(r)`, `Behave(r)` |
| `MCRmanMain` | the options a command line is made of | | |

### GcStream in detail

- **Steps.** Each step of the walker is one local step of the code between two
  calls to the metadata or object store, because those calls are where the
  writer, the user or a crash can come between. `gc()` is split into its object
  loop (one object per step), the marker write, its reference loop (one
  reference per step) and its commit.
  - `CallGc` is the entry of `gc()`. It covers the range check, the clamping of
    `v_ref` and `head_ref`, the opening of the anchor and the idempotence test.
  - The idempotence test reads the marker into a zero-length buffer
    (`calloc(0, …)` with size 0), so what it compares is 0 with `skip`.
    `CallGc` therefore returns at once when a marker exists and `skip = 0`.
- **Unreachable branch.** `gc()` returns early when it has no reference to
  unlink and no `del_zero` (lines 227–229). walk_stream never makes such a call.
  This was checked as an invariant on `frame` before the branch was left out
  of the model.
- **ctime.** Setting the marker xattr changes the anchor's ctime (`Touch`),
  like the user's unlink does. Both make the reference "recent" for the next
  walk.
- **Writer.** The writer (`CreateFile`, `FinalizeFile`, `CloseStream`) follows
  the datastream library's interface (`datastream.h`), whose implementation is
  not in this repository:
  - a file is opened on the stream only after the previous one is finalized;
  - the last one is closed with the end-of-stream flag.
  - `UnlinkUnfinished` says whether the user may remove a file still being
    written.
- **Removed from the model.** Quota counting (`q_data`) and the dry-run mode
  (`del == 0`) are left out. No property of this module is about them.

### ScanPool in detail

- **Threads.** Every step of a thread is a stretch of its code between two
  points where another thread can interfere: the lock, the shared cursor, the
  queue, and the metadata calls.
  - `next_node++` (line 792) is a load (`Take`) and a store (`Inc`). Both
    happen under `gstate.lock`. `LockUnguarded` shows what the lock buys.
  - The producer's scanner and directory survive between calls, as the static
    state in `stream_prod` does.
- **Abstraction.** A consumer's walk of a stream is one step, `WalkOk` or
  `WalkFail`; `GcStream` models the walk itself. The quota of a stream is the
  stream itself, so a total is a bag of streams. `Expected` is then the bag of
  heads in the readable directories.
- **Thread queue.** `thread_queue.h` is not in the repository. Its behaviour
  comes from the design document:
  - the queue holds at most `QDEPTH` entries;
  - it is FINISHED when every producer has returned 1, the queue is empty and
    every consumer has stopped;
  - a failing call raises ABORT, after which each thread stops at its next
    call boundary.

  These actions (`Put`, `StopProducer`, `Dequeue`, `StopConsumer`, `Finished`)
  are marked spec-modelled in `PROJECT.json`.
- **Main thread.** It sums the totals, calls `setdatausage` and sends the
  summary. `setdatausage` may fail, which leaves the stored usage as it was.

### Dispatcher in detail

- **Scope.** `find_rank_ns` is a RECURSIVE operator, evaluated over every
  namespace tree of `NNs` namespaces (`parent[i] < i`, children in order).
  The tree walk is the code's recursion. Each rank's whole walk, with its
  `MPI_Send`s, is one step, because ranks share nothing but messages.
- **Scans.** A scan is reduced to its outcome: it fails for the namespaces in
  `failing` and otherwise sends one summary.
- **Messages.** `MPI_Send` of a 1024-byte message is taken to complete without
  a matching receive (eager delivery). `MPI_Recv(MPI_ANY_SOURCE)` takes any
  pending message, so `chan` is a bag.
- **Startup.** Every rank parses the same command line (`argv`: `-c`
  present, `-t` absent, valid or rejected by `strtol`, an unknown option).
  `ArgsOk` is the getopt loop and the checks after it. `Startup(r)` is the
  rest of `main` up to `MPI_Comm_rank`: with `StartMayFail`, `config_init`,
  `config_verify` or the MPI setup may fail on one rank alone. Both runs
  keep `StartMayFail = FALSE`; see "Further problems".
- **Reference definition.** `Preorder`/`Index`/`Owner` define which rank should
  scan each namespace, independently of the recursion.

### HashRing in detail

- **Ids.** `identifier()` (MurmurHash3) is an arbitrary function from names to
  integers. The passing run takes every collision-free order of the ids of the
  names involved: vnode names, bare node names and one other target.
  `compareID` becomes integer comparison.
- **Vnode names.** The name `"%s-%d"` of a vnode is the pair `<<name, i>>`.
- **Construction.** `Build` follows the construction loop exactly, including
  the lookup-mode branch for zero weights, which increments `curvnode` before
  it writes. Slots the loop never writes hold arbitrary values (`malloc`ed
  memory). Writes past the array are dropped; that is undefined behaviour, and
  dropping them is one of its outcomes.
- **Lookup.** `Search` and `Scan` follow the binary search and the collision
  rescan line by line, with C's 0-based indices.
- **Non-compiling lines.** Lines 303 (`node->name` on the output argument) and
  340 (`newnode.name` on a pointer) do not compile as written. Both are read as
  the name of the vnode's real node, which the declaration of `newnode` shows
  was meant.

### StreamUtil in detail

- **`main()`.** The run starts in `main()` (`MainStart`). `-h` or an
  unknown flag, a missing `-c`, or a failed `config_init` or
  `config_validate` returns -1. Otherwise `command_loop` allocates its lists,
  and a failed `calloc` there returns -1 at once. When the loop has returned,
  `MainExit` makes a nonzero result -1, and so does a failed `config_term`.
- **Commands.** Each command is one action. It covers the `-s` resolution and
  list growth, the branch's argument checks, the `*_command` function and the
  branch's tail:
  - the description `malloc` after `create`/`open` (`Describe`);
  - the "rendered unusable" test, `errno == EBADFD` with a NULL stream
    (`FailCheck`).

  The commands with one library call (`setrpath`, `seek`, `chunkbounds`,
  `extend`, `truncate`, `utime`) have a branch action (`SetRPath`, `Seek`, …)
  that rejects foreign flags and otherwise calls the `*_command` function
  (`SetRPathCmd`, `SeekCmd`, …). Each function checks its own required flag.

  The transfer loops of `read_command` and `write_command` take one step per
  pass. A read that never ends is then a cycle of the state graph.
- **Arguments.** A command's flags are the subset of its own flags that
  steer its control flow, plus `bad`, which stands for any flag the branch
  rejects. Parse errors (unknown, duplicate or out-of-range flags, missing
  values) are `ArgError`. They leave the target alone, since `-s` is applied
  only after them.
- **Library.** Each call takes an outcome the `datastream.h` comments allow:
  - success, or failure with the stream kept;
  - for create, open, read, write, seek and extend, a failure that destroys
    the stream and sets `EBADFD`;
  - release and close may leave the stream NULL or kept on failure (the header
    is silent);
  - a call on a NULL stream fails with either errno.

  When `MdalFaults` is set, `destroyctxt` after `create`/`open` may fail and
  replace errno.
- **Widths.** Byte counts are `size_t` modulo `2^SizeBits`, because the
  wrap of `readbytes += -1` is what the finding turns on. `Chunk` stands for
  the 4096-byte buffer. `int` has `IntBits` bits, so that `-s INT_MAX` is
  reachable. Wrapping of `tgtstream + 1` is one outcome of the overflow
  (`OutOfBounds`); the comparison folded to `>=`, with a failing `realloc`, is
  the other (`AllocFail`).
- **Descriptors.** `fds` counts the I/O files the process holds. `open`
  fails when `MaxFds` are held.
- **Left out.** `help`, empty lines and all printing change nothing and are
  left out. `close()` of the I/O file is taken to succeed.

### PosixDal in detail

- **Handles.** Each handle `c` is a file handle with its own object, also
  named `c`. FUSE may call different handles at once, so their calls
  interleave step by step. The calls on one handle come one at a time.
- **Init.** `posix_dal_ctx_init` stats each directory and then makes it
  (`CtxInit`, `MkRepo`, `StatNs`, `MkNs`). Each stat and each mkdir is a step
  of its own, so another handle's init can come between them. A failing mkdir,
  including `EEXIST`, makes the init return -1 (`pc = "failed"`).
- **Descriptors.** `open()` hands out the lowest free number of `Fds`.
  `write()` and `read()` go to whatever object the number's table entry names
  now. They fail with `EBADF` on a free number or a number opened in the other
  mode. The DAL does not check its flags before `put` and `get`.
- **Failures.** With `MayFail`, every call the code checks may fail: `mkdir`,
  `open`, `lseek`, `write`, `read` and `fsync`. Short writes and short reads
  are included. With `CloseMayFail`, `close()` may also fail. The descriptor is
  then released anyway, as on Linux, while `TRY0` returns before the DAL
  clears `fd` and `OSF_OPEN`.
- **Delete.** `posix_dal_delete` passes a `char` made from the path array to
  `unlink()`. `Delete` always fails and removes nothing.
- **Left out.** Four things are not modelled:
  - `OS->written`, which only callers outside the repository read; without it,
    the `preserve_write_count` argument of `open` has no effect;
  - `OSF_EOF` and `OSF_ABORT`, which are set and never tested in this file;
  - `OSF_RLOCK_INIT`, which only the object-stream library sets;
  - the text of paths: a handle's path always names its own object.

## Runs

| run | cfg | expect | what it shows |
|---|---|---|---|
| `gc_safe` | `GcStream.cfg` | pass | With crashes and I/O failures, every reference and object the resource manager removes belonged only to files the user removed (`GcRefinesAbstract`, `LiveObjectsKept`), and every unlink happens under an `IN_PROG` marker that covers it (`UnlinkUnderInProgress`). In behaviours with no crash and no fault, every dead reference after the first of a closed stream is eventually unlinked (`FaultFreeReclaim`). |
| `gc_eos_retry_leak` | `GcStreamEosRetry.cfg` | violation | `SkipMarkersTruthful`: the retry of an interrupted end-of-stream gc commits `-1` while references of the run remain. |
| `gc_unfinished_race` | `GcStreamRace.cfg` | violation | `LiveObjectsKept`: a removed, unfinished file taken as the end of the stream has its last object deleted after the writer has started the next file in it. |
| `scan_pool` | `ScanPool.cfg` | pass | With an unreadable directory and failing walks, any usage reported to rank 0 counts each readable stream exactly once (`ReportedUsage`), and `ref_paths` always returns (`PoolTerminates`). |
| `scan_abort_release` | `ScanPoolAbort.cfg` | violation | `ReleasedOnlyWhenQuiet`: after a walk fails, `ref_paths` destroys `gstate.lock` and the MDAL context while producers are still using them. |
| `dispatch` | `Dispatcher.cfg` | pass | Over every tree of four namespaces and three ranks, every command line, and with and without `-n`, each namespace is scanned by its owner only. Rank 0 prints one summary per wanted namespace (`EachNamespaceOnce`) and finishes (`Termination`). |
| `dispatch_rank_failure` | `DispatcherFail.cfg` | violation | `Termination`: a failed scan on rank 1 makes it return early, and rank 0 waits in `MPI_Recv` forever. |
| `hash_ring` | `HashRing.cfg` | pass | Every lookup returns the owner of the successor id, wrapping past the largest (`LookupSuccessor`). Iteration after a lookup visits every real node once (`IterateCoversAll`). |
| `stream_util` | `StreamUtil.cfg` | pass | Neither any command nor the growth of the list (`realloc`, then `bzero` of the added entries) changes the stream or description of a slot other than the target (`OnlyTargetChanges`). This holds over every library outcome, failed reallocs and the INT_MAX target. |
| `dal_posix` | `PosixDal.cfg` | pass | Two handles run every interleaving of their inits and calls, with every checked system call failing: no byte written through a handle lands in another handle's object (`NoForeignWrite`), and a `sync` that returns 0 has made the handle's own object durable (`SyncedDurable`). `close()` does not fail in this run; see "Further problems". |
| `rman_startup` | `RmanMain.cfg` | pass | Two ranks, every command line of up to three options, and failing `mkdir`, MPI and `rmanstate_complete` calls. Every rank that has parsed its options holds the thresholds the usage text documents for them (`ThresholdsAsDocumented`). All ranks past `MPI_Bcast` share rank 0's iteration name (`SameIteration`). The job always ends (`Termination`). `MPI_Init` does not fail in this run; see "Further problems". |
| `dal_registry` | `DalRegistry.cfg` | pass | Every order of an application's installs and lookups, with NULL, incomplete DALs, an impostor `POSIX` and enough DALs to fill the table. `dal_list` stays within `MAX_DAL`, and no two entries share a name (`NamesUnique`). Every `get_DAL` that returns gives the DAL installed under that name, or NULL if there is none (`GetDalAnswer`, against a reference definition by `CHOOSE`). A built-in name always yields the built-in DAL (`BuiltinsServed`): a clash aborts the process instead. |

### DalRegistry in detail

- **Calls.** The callers are not in the repository. The comment above
  `get_DAL` says applications install their DALs before the configuration is
  read, and then look DALs up by name. So one thread makes any sequence of
  `install_DAL` calls (`AppInstall`) and `get_DAL` calls (`GetDal`).
- **DALs.** A DAL is a record of its name, whether all twelve members
  `DL_CHECK` tests are set (`full`), and whether it is built in. NULL is
  `NullDal`.
- **`install_DAL`.** `InstallOk` is its chain of early returns: NULL, a
  name already present, a missing member, no room. `Install` appends the
  DAL when they all pass. Both scans over `dal_count` entries are `FindIn`.
- **`get_DAL`.** On the first call, `InitBuiltins` installs `obj_dal`,
  `nop_dal` and `posix_dal` in order. A failure stops the chain, and the
  `assert` aborts the process. With `Asserts = FALSE` (an `NDEBUG` build) the
  installs are compiled out. Then comes the lookup, and for `"DYNAMIC"` the
  asserted install of `dynamic_DAL`'s result. That result is always NULL:
  `dynamic_DAL` returns before reading the library.

### RmanMain in detail

- **Parsing.** `ParseOpts` folds `GetOpt` over `argv`, one option at a
  time, as the `getopt` loop does. An option is a record: its letter, and
  for `-T`, `-L`, `-i` and `-X` only what the parser tests of the argument
  (the flag letter, whether `strtoull` overflowed, the unit suffix, whether
  a name is too long, whether the `-X` path has a parent). `ThreshOpt` and
  `LocOpt` are the `-T` and `-L` branches. After the loop, an error or
  `print_usage` gives -1, and `ExecPrev` checks `-X`.
- **Startup.** Each rank is a process with its own `pc`. `MpiInit` is
  `MPI_Init`, `MPI_Comm_size` and `MPI_Comm_rank`. `Parse`, `MkLogRoot`
  and `MkPresRoot` are `parse_args` up to its two `mkdir` calls. The last of
  them also fills in the iteration name from the rank's clock and the final
  thresholds (`Fill`). A failure of any of these calls aborts the job.
- **Synchronisation.** `Bcast` copies rank 0's iteration into every other
  rank. A non-root rank waits until rank 0 has reached its broadcast, as
  `MPI_Bcast` makes it. `Complete` is `rmanstate_complete`, whose code is
  not in the repository, so it may only succeed or fail. `Barrier` lets a
  rank through once every rank has reached it. `Behave` stands for the
  manager and worker loops, which are not in the repository.
- **Left out.** `-c`, `-n`, `-r` and `-Q` only store a value that
  `rmanstate_complete` uses. Paths are not built character by character.
  The log root is the pair of its prefix and the iteration parent.

### Bounds

- **Stream size.** `gc_safe` uses four files (`MCLayout4`):
  - file 1 shares object 0 with file 0;
  - file 3 shares object 2 with file 2.

  So every dead run meets a shared object on one side or both. There are also
  runs of length two, skip markers with `n = 2`, and end-of-stream runs that
  start at reference 0.
- **Violation runs.** These use three files. That is the smallest stream
  where an end-of-stream run after a live anchor is longer than one reference
  (`gc_eos_retry_leak`).
- **Crashes and faults.** `MaxCrashes = 1` and `MaxFaults = 1` let a crash or
  a failed I/O call land on every step of one walk, including inside the retry
  of an earlier interrupted `gc`.

- **ScanPool.** Three directories hold four streams and two non-head
  entries; directory 1 is unreadable. With two producers, two consumers and a
  queue of depth 1:
  - both producers race for the cursor;
  - a producer blocks on a full queue;
  - consumers fail while producers are mid-directory.
- **Dispatcher.** Every tree of four namespaces (a chain, a star and all in
  between) and three ranks. Some ranks then own several namespaces and some
  own none. The `-n` values cover a leaf, the last namespace and a missing
  name.
- **HashRing.** Two nodes of weight 1 or 2 with a target of two vnodes. That
  gives tables of two to four vnodes, in both modes, under every order of ids:
  - the search meets both halves;
  - the wrap past the largest id happens;
  - the iterator starts at either node.

  Weight 0 (`ZeroWeights = TRUE`) reproduces the zero-weight problem under
  "Further problems".
- **StreamUtil.** The bounds are:
  - one initial slot;
  - `-s` of 0, 1 (which grows the list) and INT_MAX = 3;
  - `-b 3` with a 2-byte buffer, so a transfer takes a full pass and a
    partial one, and `readbytes + toread` never wraps before the count does;
  - `size_t` of 3 bits;
  - one free descriptor, so a leaked file makes the next `-i`/`-o` fail.

  Every slot a command can reach, every branch and every outcome of each
  library call is covered.

- **PosixDal.** The bounds are:
  - two handles, enough for the init race and for one handle's descriptor
    number to be reused by the other;
  - descriptors 3 and 4, so each handle can hold one and a leak can use up
    the table;
  - objects of at most two bytes, written one byte per `put`;
  - `chunk_offset` of 0 and 1, so `open` seeks, can fail in `lseek`, and can
    leave a zero gap.

  There are 1,134,218 distinct states after symmetry reduction, and the run
  takes about 30 s.

- **RmanMain.** The bounds are:
  - two ranks, whose clocks may differ by a second;
  - every command line of up to three options. The options include each
    operation flag, `-l`, `-p`, `-d`, `-h`, `-i` with a short and a long
    name, `-X` with a good, missing or long next element and without a
    parent, `-T` with good values, an overflow, a bad unit and a `-`
    ending, and `-L` with good and bad values.

  So two `-T` for one operation, `-T R` with and without `-L`, and `-X`
  together with other options all occur. There are 1,290,928 distinct
  states, and the run takes about 40 s.

- **DalRegistry.** `MAX_DAL` is 5 instead of 32. Three application names
  (plus an impostor `POSIX`) then fill the table before the built-ins or
  after them, and a full table is checked both at an application's install
  and at a built-in one. Every DAL comes complete or incomplete, and NULL is
  passed too. There are 344 distinct states.

### Fairness

`gc_safe` runs under `FairSpec`, which assumes:

- **Resource manager.** It is run again and again, and a running one keeps
  taking steps: weak fairness of its steps, excluding `Crash` and `GcFault`.
- **Clock.** It advances: weak fairness of `Age(k)`.

The liveness property `FaultFreeReclaim` is stated only for behaviours with
no crash and no I/O failure: with them it fails through the crash findings
below. Its safety properties are checked over all behaviours.

`scan_pool` assumes weak fairness of every producer, every consumer and the
main thread. They are OS threads, and the scheduler runs a thread that can
run. `dispatch` and `rman_startup` assume weak fairness of every rank, since
ranks are separate processes.

## What the runs found

1. **End-of-stream retry leaks references** (`rsrc_mgr.c:468`). The retry of
   `IN_PROG -1` unlinks only the reference after the anchor, then commits
   `-1`. The rest of the run is never reclaimed.
2. **Non-finalized reference taken as end of stream** (`rsrc_mgr.c:578`). The
   walk stops at a reference that is not finalized and collects it as the end
   of the stream, through its last object. If the writer meanwhile finalizes it
   and starts the next file in the same object, a live object is deleted.

3. **Abort frees what running threads use** (`rsrc_mgr.c:944`). On ABORT,
   `ref_paths` destroys `gstate.lock` and the MDAL context and returns -1. It
   does not wait for the threads, which may still be inside `stream_prod`.
4. **A failed rank strands rank 0** (`rsrc_mgr.c:1043`). A failed
   `ref_paths` makes `find_rank_ns` and `main` return at once. That rank's
   remaining namespaces send no summary, and rank 0 blocks in `MPI_Recv`. The
   design document (section 7) says the other namespaces go on.

Further problems are listed as hazards without a run:

- **Zero-weight lookup nodes are misplaced** (`hash.c:232`). `curvnode++`
  comes before the write. One slot keeps uninitialized memory, and the last
  zero-weight vnode is written past the array. The design document (4.2, 8)
  says a lookup of a zero-weight node's name returns it. With
  `HashRing.cfg`, `MaxWeight = 1`, `ZeroWeights = TRUE` and `ExactMatch` as
  the invariant, TLC finds it violated.

- **A failed read is reported as a success** (`streamutil.c:381`). Without
  `-o`, a `datastream_read` failure does not end `read_command`.
  `readbytes += readres` adds -1 to a `size_t`, and `-1 < toread` is false in
  the unsigned comparison. With `-b`, the count wraps to `SIZE_MAX`, the loop
  ends and the command returns 0. When the failure destroyed the stream, the
  branch's `EBADFD` test is skipped, and the slot keeps the description of a
  stream that no longer exists. `DescMatchesStream` in `StreamUtil.tla`
  states what should hold. Under `MCStreamUtil` with `StreamUtil.cfg` and
  `MdalFaults = FALSE`, TLC finds it violated by a `read -b 3`.
- **A failed `MPI_Init` hangs the other ranks** (`resourcemanager.c:428`).
  That rank returns -1 without `RMAN_ABORT`. The other ranks wait in
  `MPI_Bcast` for rank 0, or at `MPI_Barrier` for the failed rank. With
  `InitMayFail = TRUE` in `RmanMain.cfg`, TLC finds `Termination` violated.
- **The default log root is formatted from NULL**
  (`resourcemanager.c:366`). Without `-l`, `logroot` falls back to
  `DEFAULT_LOG_ROOT`, but the `snprintf` prints `rman->logroot`, which is
  NULL, so glibc writes `(null)/...`. `LogRoot` models it.
- **Threshold and location chains stop after the first element**
  (`resourcemanager.c:220`, `:277`). The usage text allows
  `<OpFlag><TimeThresh>[<Unit>][-<OpFlag><TimeThresh>[<Unit>]]*` (and the
  same for `-L`), but each branch parses only the first element and accepts
  the `-` after it. The rest of the argument is silently ignored.
- **`-X` accepts later `-Q`, `-T` and `-L`** (`resourcemanager.c:317`). The
  usage says `-X` is incompatible with every option below it. The check
  rejects only operation flags and `-i`, so a threshold given with `-X` is
  silently used.

- **End-of-stream gc unlinks the stream head first** (`rsrc_mgr.c:284`). This
  happens when reference 0 is dead. A crash after that orphans the remaining
  references. `HeadlessStreamEmpty` in `GcStream.tla` states what should
  hold. Under `MCGcStream` with `NRefs = 3`, `MCLayout`, `MaxCrashes = 1`,
  `MaxFaults = 0` and `UnlinkUnfinished = FALSE`, TLC finds it violated.
- **A rank that fails at startup hangs rank 0** (`rsrc_mgr.c:1132`). A
  `config_init`, `config_verify` or MPI setup failure on one rank returns -1
  before that rank walks. Rank 0 then waits in `MPI_Recv` for the summaries
  of the namespaces that rank owns. With `StartMayFail = TRUE` and
  `MayFail = FALSE` in `DispatcherFail.cfg`, TLC finds `Termination`
  violated in 7 states.
- **A failed `close()` leaves a descriptor number that another handle gets**
  (`dal.c:565`). `TRY0` returns before `fd` is reset and `OSF_OPEN` is
  cleared, while Linux has already released the number. The next `open` of
  another handle gets the same number. The first handle's `put` then writes
  into the other handle's object, and its `sync` fsyncs and closes the other
  handle's file. With `CloseMayFail = TRUE` in `PosixDal.cfg`, TLC finds
  `NoForeignWrite` violated after 15 states.
- **A failed `lseek` leaks the descriptor** (`dal.c:522`). `posix_dal_open`
  returns -1 without closing the file it just opened.
- **A failed open wedges the handle** (`dal.c:502`). `OSF_WRITING` or
  `OSF_READING` is set before `open()` and is not cleared on failure. Every
  later open of the handle fails with `EBADF`, because its flags are set but
  not `CLOSED`.
- **Two concurrent inits can fail spuriously** (`dal.c:406`). Both stat a
  missing directory, and the second `mkdir` fails with `EEXIST`.
- **`posix_dal_delete` never deletes** (`dal.c:630`). It passes a `char` made
  from the path array to `unlink()` as the path.
- **The DAL registry is empty under `NDEBUG`** (`dal.c:809`). `get_DAL`
  installs the built-in DALs inside `assert(...)`. A build without
  assertions never installs them, and every lookup returns NULL. With
  `Asserts = FALSE` in `DalRegistry.cfg`, TLC finds `BuiltinsServed`
  violated by the first `get_DAL("POSIX")`.
- **An application's DAL can abort the process** (`dal.c:809`). If an
  application installs a DAL named `OBJECT`, `NO_OP` or `POSIX`, or fills
  `dal_list`, before the first `get_DAL`, a built-in install fails and its
  `assert` aborts. The comment above `get_DAL` invites exactly such early
  installs.
- **`get_DAL("DYNAMIC")` always aborts** (`dal.c:826`). `dynamic_DAL`
  returns NULL before it reads a library, and the asserted
  `install_DAL(NULL)` fails. Any name other than exactly `"DYNAMIC"`
  returns NULL, so the `"DYNAMIC <lib>"` form its comment describes never
  reaches it.

- **A collision discards an exact match** (`hash.c:306`). After an exact match
  the search goes on. A colliding vnode of another node makes it break, and
  the rescan cannot reach the match it left. The other node is returned with
  retval 0. TLC showed it with colliding ids. It needs a 128-bit MurmurHash3
  collision, so no run is kept.
- **`write -i` leaks its input file** (`streamutil.c:467`). The tail closes
  the file only `if ( opts->ofile )`, which a write never has. A failed
  `lseek` leaks the file in both `read` and `write` (lines 362 and 432).
- **A failed input read is passed on as a count** (`streamutil.c:451`). The
  -1 becomes `SIZE_MAX`, and `datastream_write` reads past the buffer.
- **`-s INT_MAX`** (`streamutil.c:932`). `tgtstream + 1` overflows, and the
  command uses a slot past the end of the list.
- **A failed `realloc` abandons the open streams** (`streamutil.c:940`).
  `command_loop` returns without releasing them.
- **A read without `-b` can loop forever** (`streamutil.c:368`). After the
  stream is destroyed, every pass fails, and -1 never breaks the loop.
- **The exit status is inverted** (`streamutil.c:1260`). `release_command`
  always returns 0, and the exit loop sets `retval = -1` when it returns 0.
  So any stream still open at exit makes the program fail.
- **`seek` reports success only at offset 0** (`streamutil.c:509`).
  `seek_command` returns the `off_t` result of `datastream_seek` as its
  status.
- **`open_command` calls `datastream_open` with four arguments**
  (`streamutil.c:315`). The header declares five, so the file does not
  compile against it as written. The model takes the call the code makes.

- **`-n` fails on any multi-namespace config** (`rsrc_mgr.c:1058`). With
  `-n`, `find_rank_ns` returns -1 as soon as it recurses with a nonzero index.
  Any single test of `-n` shows this, so it is not listed as a hazard.
- **The collision name check compares the wrong name** (`hash.c:303`). It
  compares the target with the real node's name, not the vnode's. `ExactMatch`
  fails with colliding ids through it.

## Not modelled

- **MurmurHash3.** Its 64-bit arithmetic is beyond TLC's integers. The ring
  takes ids as an arbitrary function of names.
- **The rest of `resourcemanager.c`.** `managerbehavior`,
  `workerbehavior` and the `rmanstate_*` functions are not in the
  repository. `print_usage_info` only prints.
- **The datastream library.** Its implementation is not in the repository.
  `StreamUtil` takes the outcomes its header allows. So do the config
  calls `main()` of `streamutil.c` makes.
- **`hash_init` failures.** `malloc` and `snprintf` failures are left out.
  The function returns `-1` as a pointer, not NULL. Its callers are not in
  the repository, so nothing here tests the result.
- **The rest of `dal.c`.** The `OBJECT` DAL only passes its calls on to
  `object_stream.c`, which is not in the repository. The `NO_OP` DAL changes
  nothing but `OS->written`, which only callers outside the repository read.
  The code after `dynamic_DAL`'s early `return NULL` is unreachable. Whether
  `get_DAL` may be called from several threads is up to its callers, which
  are not in the repository, so its unlocked `needs_init` is not modelled
  concurrently.
- **Stubs and drivers.** `tagging.c` (empty stubs), `new-src/core/marfs.c`
  (libxml printing) and `test_posix_mdal.c` (a test driver).

## Plan for further work

- **Descriptor accounting for `PosixDal`.** Add a property that every used
  descriptor belongs to a handle's `fd`. Pair it with a run that shows the
  `lseek` leak.
- **Compose the scan and the stream.** Join `ScanPool` and `GcStream`, so that
  consumers walking different streams interleave their `gc` calls with a crash
  of the whole process.
- **Refinement for the ring.** State `hash_lookup` abstractly as "the owner of
  the successor id" (a module of its own) and check `HashRing` against it with
  `INSTANCE ... WITH`.
- **Concurrent first lookups in `DalRegistry`.** If a caller turns out to
  call `get_DAL` from several threads, make `GetDal` a sequence of steps
  around the unlocked `needs_init` test.
