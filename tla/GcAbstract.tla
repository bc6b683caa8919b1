----------------------------- MODULE GcAbstract -----------------------------
(***************************************************************************)
(* What the garbage collector of a MarFS stream promises, with no walk,   *)
(* no markers and no crashes: files are created on the stream, the user   *)
(* removes some of them, and the collector may at any time reclaim the    *)
(* reference of a removed file or delete an object that no file the user  *)
(* still has lies in.  GcStream is checked to implement this module.      *)
(***************************************************************************)
EXTENDS Naturals

CONSTANTS NRefs, Layout

Span(k) == Layout[k].start .. Layout[k].end

VARIABLES
  files,   \* files created so far: 0 .. files-1
  refs,    \* files whose reference is still in the metadata store
  live,    \* files the user still has
  objs     \* data objects in the object store

avars == <<files, refs, live, objs>>

Init ==
  /\ files = 0 /\ refs = {} /\ live = {} /\ objs = {}

(* The writer appends a file, and its objects, to the stream.             *)
Create ==
  /\ files < NRefs
  /\ files' = files + 1
  /\ refs' = refs \cup {files}
  /\ live' = live \cup {files}
  /\ objs' = objs \cup Span(files)

(* The user removes a file.                                                *)
Remove(k) ==
  /\ k \in live
  /\ live' = live \ {k}
  /\ UNCHANGED <<files, refs, objs>>

(* The collector reclaims the reference of a removed file.                 *)
Reclaim(k) ==
  /\ k \in refs \ live
  /\ refs' = refs \ {k}
  /\ UNCHANGED <<files, live, objs>>

(* The collector deletes an object no live file lies in.                   *)
DeleteObject(o) ==
  /\ o \in objs
  /\ \A k \in live : o \notin Span(k)
  /\ objs' = objs \ {o}
  /\ UNCHANGED <<files, refs, live>>

Next ==
  \/ Create
  \/ \E k \in 0 .. NRefs - 1 : Remove(k) \/ Reclaim(k)
  \/ \E o \in objs : DeleteObject(o)

Spec == Init /\ [][Next]_avars

=============================================================================
