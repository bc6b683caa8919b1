------------------------------ MODULE GcStream ------------------------------
(***************************************************************************)
(* One MarFS data stream under the garbage collector of                    *)
(* src/src/rsrc_mgr/rsrc_mgr.c.                                            *)
(*                                                                         *)
(* A stream is a chain of files 0, 1, 2, ... packed into a chain of data   *)
(* objects; file k occupies the objects Layout[k].start .. Layout[k].end,  *)
(* and two neighbouring files may share one object.  Each file has a       *)
(* reference file in the metadata store, hard-linked to the user's file:   *)
(* when the user removes the file the reference is left with one link and  *)
(* is garbage.  The resource manager walks the references of the stream    *)
(* (walk_stream), reads each one's FTAG and "gc_skip" marker (get_ftag)    *)
(* and reclaims every run of dead references together with the objects     *)
(* only they use (gc).  The gc_skip marker, kept on the last live          *)
(* reference before a reclaimed run, records how many references after it *)
(* are gone, so that later walks jump over them; the marker "IN_PROG n" is *)
(* written before any reference is unlinked so that a crash in the middle  *)
(* is finished by the next walk.                                           *)
(*                                                                         *)
(* The user (unlink, ageing of ctime) and the writer of the stream         *)
(* (create, finalize, close) act concurrently with the walk; the resource  *)
(* manager may crash at any step and its I/O calls may fail.               *)
(***************************************************************************)
EXTENDS Integers, FiniteSets

CONSTANTS
  NRefs,       \* number of files the stream may hold
  Layout,      \* Layout[k] = [start |-> o, end |-> o']: the objects of file k
  MaxCrashes,  \* bound on crashes of the resource manager
  MaxFaults,   \* bound on failed I/O calls (ne_delete, unlinkref, fsetxattr)
  UnlinkUnfinished \* whether the user may remove a file still being written

Refs == 0 .. NRefs - 1
Start(k) == Layout[k].start
End(k) == Layout[k].end
Span(k) == Start(k) .. End(k)
Objs == UNION {Span(k) : k \in Refs}

ASSUME /\ NRefs \in Nat \ {0}
       /\ Start(0) = 0
       /\ \A k \in Refs : Start(k) <= End(k)
       /\ \A k \in Refs \ {0} : Start(k) \in {End(k - 1), End(k - 1) + 1}
       /\ MaxCrashes \in Nat /\ MaxFaults \in Nat
       /\ UnlinkUnfinished \in BOOLEAN

(* The gc_skip xattr: absent, "<n>[z]" (commit) or "IN_PROG <n>[z]".       *)
NoMarker == [kind |-> "none", n |-> 0, z |-> FALSE]
Markers == [kind : {"commit", "inprog"}, n : -1 .. NRefs, z : BOOLEAN]
             \cup {NoMarker}

(* The arguments of a gc() call in progress, after its clamping of v_ref   *)
(* and head_ref; i is the index of its object / reference loop.            *)
NoFrame == [anchor |-> 0, head |-> 0, tail |-> 0, curr |-> 0, eos |-> FALSE,
            skip |-> 0, dz |-> FALSE, i |-> 0, ret |-> "done"]

VARIABLES
  \* metadata store and object store
  nref,        \* files created so far: 0 .. nref-1
  exists,      \* exists[k]: reference file k is present
  linked,      \* linked[k]: the user's file still links it (st_nlink >= 2)
  old,         \* old[k]: its ctime is older than RECENT_THRESH
  fin,         \* fin[k]: FTAG data state is FTAG_FIN
  eos,         \* eos[k]: FTAG endofstream
  marker,      \* marker[k]: its gc_skip xattr
  objs,        \* data objects present in the object store
  \* locals of walk_stream / get_ftag (lost on a crash)
  pc, fileno, next, snap, inactive, ignoreZero, lastRef, vRef, lastObj,
  delZero,
  frame,       \* the gc() call in progress
  crashes, faults

store == <<nref, exists, linked, old, fin, eos, marker, objs>>
walker == <<pc, fileno, next, snap, inactive, ignoreZero, lastRef, vRef,
            lastObj, delZero, frame>>
vars == <<store, walker, crashes, faults>>

Present(k) == k \in Refs /\ exists[k]
MaxOf(a, b) == IF a >= b THEN a ELSE b

(* What get_ftag reads of a reference: statref and the FTAG xattr.         *)
NoSnap == [linked |-> FALSE, old |-> FALSE, fin |-> FALSE, eos |-> FALSE]
Snapshot(k) == [linked |-> linked[k], old |-> old[k], fin |-> fin[k],
                eos |-> eos[k]]

(* The walker's locals as walk_stream initialises them.                    *)
ResetWalker(to) ==
  /\ pc' = to
  /\ fileno' = 0 /\ next' = 0 /\ snap' = NoSnap
  /\ inactive' = FALSE /\ ignoreZero' = FALSE
  /\ lastRef' = -1 /\ vRef' = -1 /\ lastObj' = -1 /\ delZero' = FALSE
  /\ frame' = NoFrame

TypeOK ==
  /\ nref \in 0 .. NRefs
  /\ exists \in [Refs -> BOOLEAN] /\ linked \in [Refs -> BOOLEAN]
  /\ old \in [Refs -> BOOLEAN] /\ fin \in [Refs -> BOOLEAN]
  /\ eos \in [Refs -> BOOLEAN]
  /\ marker \in [Refs -> Markers]
  /\ objs \subseteq Objs
  /\ pc \in {"idle", "visit", "loop", "advance", "gc_obj", "gc_ref", "done"}
  /\ fileno \in 0 .. 2 * NRefs + 1 /\ next \in 0 .. NRefs + 1
  /\ inactive \in BOOLEAN /\ ignoreZero \in BOOLEAN /\ delZero \in BOOLEAN
  /\ lastRef \in -1 .. NRefs /\ vRef \in -1 .. NRefs
  /\ lastObj \in -1 .. End(NRefs - 1)
  /\ crashes \in 0 .. MaxCrashes /\ faults \in 0 .. MaxFaults

-----------------------------------------------------------------------------
(* The writer of the stream and the user.                                  *)

Init ==
  /\ nref = 0
  /\ exists = [k \in Refs |-> FALSE] /\ linked = [k \in Refs |-> FALSE]
  /\ old = [k \in Refs |-> FALSE] /\ fin = [k \in Refs |-> FALSE]
  /\ eos = [k \in Refs |-> FALSE]
  /\ marker = [k \in Refs |-> NoMarker]
  /\ objs = {}
  /\ pc = "idle" /\ fileno = 0 /\ next = 0 /\ snap = NoSnap
  /\ inactive = FALSE /\ ignoreZero = FALSE
  /\ lastRef = -1 /\ vRef = -1 /\ lastObj = -1 /\ delZero = FALSE
  /\ frame = NoFrame
  /\ crashes = 0 /\ faults = 0

(* A new file is opened on the stream once the previous one is finalized. *)
CreateFile ==
  /\ nref < NRefs
  /\ nref > 0 => fin[nref - 1] /\ ~eos[nref - 1]
  /\ exists' = [exists EXCEPT ![nref] = TRUE]
  /\ linked' = [linked EXCEPT ![nref] = TRUE]
  /\ objs' = objs \cup Span(nref)
  /\ nref' = nref + 1
  /\ UNCHANGED <<old, fin, eos, marker, walker, crashes, faults>>

FinalizeFile ==
  /\ nref > 0 /\ Present(nref - 1) /\ ~fin[nref - 1]
  /\ fin' = [fin EXCEPT ![nref - 1] = TRUE]
  /\ UNCHANGED <<nref, exists, linked, old, eos, marker, objs, walker,
                 crashes, faults>>

CloseStream ==
  /\ nref > 0 /\ Present(nref - 1) /\ fin[nref - 1] /\ ~eos[nref - 1]
  /\ eos' = [eos EXCEPT ![nref - 1] = TRUE]
  /\ UNCHANGED <<nref, exists, linked, old, fin, marker, objs, walker,
                 crashes, faults>>

(* The user removes file k: the reference drops to one link and, as its    *)
(* inode's link count changed, its ctime is reset.  Whether a file still  *)
(* open for writing may be removed is a parameter of the model.            *)
UnlinkFile(k) ==
  /\ k < nref /\ linked[k]
  /\ UnlinkUnfinished \/ fin[k]
  /\ linked' = [linked EXCEPT ![k] = FALSE]
  /\ old' = [old EXCEPT ![k] = FALSE]
  /\ UNCHANGED <<nref, exists, fin, eos, marker, objs, walker, crashes, faults>>

Age(k) ==
  /\ k < nref /\ ~old[k]
  /\ old' = [old EXCEPT ![k] = TRUE]
  /\ UNCHANGED <<nref, exists, linked, fin, eos, marker, objs, walker,
                 crashes, faults>>

-----------------------------------------------------------------------------
(* gc(ftag, v_ref, head_ref, tail_ref, first_obj, curr_obj, eos): reclaim  *)
(* references head_ref+1 .. tail_ref-1 and objects first_obj+1 ..          *)
(* curr_obj-1, keeping the marker on reference v_ref (or 0).  Entering it  *)
(* checks the ranges, clamps v_ref/head_ref, opens the anchor and reads    *)
(* its marker.  The read goes into calloc(0, len+1), a zero-length buffer, *)
(* with size 0, so strtol parses the zeroed chunk glibc returns: the       *)
(* "already done" test compares skip with 0, whatever the marker says.     *)
(* ret is where the caller resumes; gc's result is ignored by its callers. *)
CallGc(v0, h0, t0, f0, c0, e0, ret) ==
  LET dz     == h0 < 0
      v      == IF e0 THEN v0 ELSE MaxOf(v0, 0)
      h      == IF e0 THEN h0 ELSE MaxOf(h0, 0)
      skip   == IF e0 THEN -1 ELSE t0 - v - 1
      anchor == MaxOf(v, 0)
  IN  IF h0 < v0 \/ ~Present(anchor)
           \/ (marker[anchor].kind # "none" /\ skip = 0)
        THEN /\ pc' = ret /\ UNCHANGED frame
        ELSE /\ frame' = [anchor |-> anchor, head |-> h, tail |-> t0,
                          curr |-> c0, eos |-> e0, skip |-> skip, dz |-> dz,
                          i |-> f0 + 1, ret |-> ret]
             /\ pc' = "gc_obj"

GcReturn == pc' = frame.ret /\ frame' = NoFrame

(* Delete object i; an object already gone (ENOENT) counts as deleted.     *)
GcDeleteObject ==
  /\ pc = "gc_obj" /\ frame.i < frame.curr
  /\ objs' = objs \ {frame.i}
  /\ frame' = [frame EXCEPT !.i = @ + 1]
  /\ UNCHANGED <<nref, exists, linked, old, fin, eos, marker, pc, fileno,
                 next, snap, inactive, ignoreZero, lastRef, vRef, lastObj,
                 delZero, crashes, faults>>

(* After the object loop, gc() returns when it has no reference to       *)
(* unlink and reference 0 is not to be reclaimed (tail <= head+1, no      *)
(* del_zero); walk_stream never makes such a call, so no action models it. *)

(* Setting an xattr changes the inode's ctime: the anchor becomes recent.  *)
Touch(a) == old' = [old EXCEPT ![a] = FALSE]

(* Only reference 0 is dead: it stays as the stream's head and is marked   *)
(* "<skip>z" directly.                                                     *)
GcMarkZero ==
  /\ pc = "gc_obj" /\ frame.i >= frame.curr
  /\ frame.tail <= frame.head + 1 /\ frame.dz
  /\ marker' = [marker EXCEPT ![frame.anchor] =
                  [kind |-> "commit", n |-> frame.skip, z |-> frame.dz]]
  /\ GcReturn
  /\ Touch(frame.anchor)
  /\ UNCHANGED <<nref, exists, linked, fin, eos, objs, fileno, next,
                 snap, inactive, ignoreZero, lastRef, vRef, lastObj, delZero,
                 crashes, faults>>

(* Mutants: the marker written at once as committed; the reference loop  *)
(* started at head_ref instead of head_ref+1.                              *)
GcMarkInProgressCommitted ==
  /\ pc = "gc_obj" /\ frame.i >= frame.curr
  /\ frame.tail > frame.head + 1
  /\ marker' = [marker EXCEPT ![frame.anchor] =
                  [kind |-> "commit", n |-> frame.skip, z |-> frame.dz]]
  /\ Touch(frame.anchor)
  /\ frame' = [frame EXCEPT !.i = frame.head + 1]
  /\ pc' = "gc_ref"
  /\ UNCHANGED <<nref, exists, linked, fin, eos, objs, fileno, next, snap,
                 inactive, ignoreZero, lastRef, vRef, lastObj, delZero,
                 crashes, faults>>
GcMarkInProgressFromHead ==
  /\ pc = "gc_obj" /\ frame.i >= frame.curr
  /\ frame.tail > frame.head + 1
  /\ marker' = [marker EXCEPT ![frame.anchor] =
                  [kind |-> "inprog", n |-> frame.skip, z |-> frame.dz]]
  /\ Touch(frame.anchor)
  /\ frame' = [frame EXCEPT !.i = frame.head]
  /\ pc' = "gc_ref"
  /\ UNCHANGED <<nref, exists, linked, fin, eos, objs, fileno, next, snap,
                 inactive, ignoreZero, lastRef, vRef, lastObj, delZero,
                 crashes, faults>>

(* Write "IN_PROG <skip>[z]" on the anchor before unlinking anything.      *)
GcMarkInProgress ==
  /\ pc = "gc_obj" /\ frame.i >= frame.curr
  /\ frame.tail > frame.head + 1
  /\ marker' = [marker EXCEPT ![frame.anchor] =
                  [kind |-> "inprog", n |-> frame.skip, z |-> frame.dz]]
  /\ frame' = [frame EXCEPT !.i = frame.head + 1]
  /\ pc' = "gc_ref"
  /\ Touch(frame.anchor)
  /\ UNCHANGED <<nref, exists, linked, fin, eos, objs, fileno, next,
                 snap, inactive, ignoreZero, lastRef, vRef, lastObj, delZero,
                 crashes, faults>>

(* Unlink reference i; one already gone (ENOENT) counts as unlinked.       *)
GcUnlinkRef ==
  /\ pc = "gc_ref" /\ frame.i < frame.tail
  /\ exists' = [k \in Refs |-> IF k = frame.i THEN FALSE ELSE exists[k]]
  /\ frame' = [frame EXCEPT !.i = @ + 1]
  /\ UNCHANGED <<nref, linked, old, fin, eos, marker, objs, pc, fileno, next,
                 snap, inactive, ignoreZero, lastRef, vRef, lastObj, delZero,
                 crashes, faults>>

(* The whole stream from reference 0 on was reclaimed: the anchor is gone  *)
(* and there is nothing to commit.                                         *)
GcHeadReclaimed ==
  /\ pc = "gc_ref" /\ frame.i >= frame.tail
  /\ frame.head < 0 /\ frame.eos
  /\ GcReturn
  /\ UNCHANGED <<store, fileno, next, snap, inactive, ignoreZero, lastRef,
                 vRef, lastObj, delZero, crashes, faults>>

(* Reopen the anchor and strip "IN_PROG ": the commit point.               *)
GcCommit ==
  /\ pc = "gc_ref" /\ frame.i >= frame.tail
  /\ ~(frame.head < 0 /\ frame.eos)
  /\ marker' = [marker EXCEPT ![frame.anchor] =
                  [kind |-> "commit", n |-> frame.skip, z |-> frame.dz]]
  /\ GcReturn
  /\ Touch(frame.anchor)
  /\ UNCHANGED <<nref, exists, linked, fin, eos, objs, fileno, next,
                 snap, inactive, ignoreZero, lastRef, vRef, lastObj, delZero,
                 crashes, faults>>

(* ne_delete, unlinkref or fsetxattr fails with another error than ENOENT: *)
(* gc returns -1 at once, and its caller carries on.                       *)
GcFault ==
  /\ pc \in {"gc_obj", "gc_ref"} /\ faults < MaxFaults
  /\ GcReturn
  /\ faults' = faults + 1
  /\ UNCHANGED <<store, fileno, next, snap, inactive, ignoreZero, lastRef,
                 vRef, lastObj, delZero, crashes>>

-----------------------------------------------------------------------------
(* walk_stream and get_ftag.                                               *)

(* A producer found reference 0 of the stream and a consumer walks it.     *)
StartWalk ==
  /\ pc = "idle" /\ nref > 0 /\ Present(0)
  /\ ResetWalker("visit")
  /\ UNCHANGED <<store, crashes, faults>>

(* get_ftag on a reference that is not there: statref fails and the walk  *)
(* of the stream fails.                                                    *)
GetFtagMissing ==
  /\ pc = "visit" /\ ~Present(fileno)
  /\ ResetWalker("idle")
  /\ UNCHANGED <<store, crashes, faults>>

(* No gc_skip marker: the next reference follows; del_zero is untouched.   *)
GetFtagPlain ==
  /\ pc = "visit" /\ Present(fileno) /\ marker[fileno].kind = "none"
  /\ snap' = Snapshot(fileno) /\ next' = 1 /\ pc' = "loop"
  /\ UNCHANGED <<store, fileno, inactive, ignoreZero, lastRef, vRef, lastObj,
                 delZero, frame, crashes, faults>>

(* Mutant: the distance returned without the + 1.                        *)
GetFtagSkipNoSuccessor ==
  /\ pc = "visit" /\ Present(fileno) /\ marker[fileno].kind = "commit"
  /\ marker[fileno].n # 0 \/ marker[fileno].z
  /\ snap' = Snapshot(fileno)
  /\ next' = marker[fileno].n
  /\ delZero' = marker[fileno].z
  /\ pc' = "loop"
  /\ UNCHANGED <<store, fileno, inactive, ignoreZero, lastRef, vRef, lastObj,
                 frame, crashes, faults>>

(* "<n>[z]": the next n references are gone; "-1" ends the walk here.      *)
(* ("0" without z is refused as an invalid skip value; gc never writes it.) *)
GetFtagSkip ==
  /\ pc = "visit" /\ Present(fileno) /\ marker[fileno].kind = "commit"
  /\ marker[fileno].n # 0 \/ marker[fileno].z
  /\ snap' = Snapshot(fileno)
  /\ next' = marker[fileno].n + 1
  /\ delZero' = marker[fileno].z
  /\ pc' = "loop"
  /\ UNCHANGED <<store, fileno, inactive, ignoreZero, lastRef, vRef, lastObj,
                 frame, crashes, faults>>

(* "IN_PROG <n>[z]": a previous gc was interrupted; it is called again as  *)
(* gc(fileno, fileno, fileno+|n|+1, -1, -1, n<0), and n < 0 then reads as  *)
(* "-1": the walk ends here.                                               *)
GetFtagRetry ==
  /\ pc = "visit" /\ Present(fileno) /\ marker[fileno].kind = "inprog"
  /\ marker[fileno].n # 0
  /\ LET m == marker[fileno]
         s == IF m.n < 0 THEN -m.n ELSE m.n
     IN  /\ snap' = Snapshot(fileno)
         /\ next' = IF m.n < 0 THEN 0 ELSE s + 1
         /\ delZero' = m.z
         /\ CallGc(fileno, fileno, fileno + s + 1, -1, -1, m.n < 0, "loop")
  /\ UNCHANGED <<store, fileno, inactive, ignoreZero, lastRef, vRef, lastObj,
                 crashes, faults>>

(* The loop of walk_stream runs while the reference is finalized, not the  *)
(* end of the stream and followed by another.                              *)
LoopCond == ~snap.eos /\ next > 0 /\ snap.fin
Dead == snap.old /\ ~snap.linked

Advance ==
  /\ fileno' = fileno + next
  /\ pc' = "visit"

(* A dead reference: open or extend the run of dead references.            *)
WalkDead ==
  /\ pc = "loop" /\ LoopCond /\ Dead
  /\ lastObj' = IF (~inactive \/ ignoreZero) /\ Start(fileno) > lastObj + 1
                  THEN Start(fileno) - 1 ELSE lastObj
  /\ lastRef' = IF ~inactive /\ lastRef >= 0 /\ fileno > lastRef + 1
                  THEN fileno - 1 ELSE lastRef
  /\ inactive' = TRUE
  /\ ignoreZero' = (fileno = 0 /\ delZero)
  /\ Advance
  /\ UNCHANGED <<store, next, snap, vRef, delZero, frame, crashes, faults>>

(* Mutant: the live reference's first object passed as objno + 1.         *)
LiveAfterPastFirstObject(to) ==
  /\ inactive' = FALSE /\ ignoreZero' = FALSE
  /\ lastRef' = fileno /\ vRef' = fileno /\ lastObj' = End(fileno)
  /\ CallGc(vRef, lastRef, fileno, lastObj, Start(fileno) + 1, FALSE, to)

(* A live reference (linked, or too recent to judge) that ends a run of    *)
(* dead ones: gc the run, then it becomes the last valid reference.        *)
LiveAfter(to) ==
  /\ inactive' = FALSE /\ ignoreZero' = FALSE
  /\ lastRef' = fileno /\ vRef' = fileno /\ lastObj' = End(fileno)
  /\ CallGc(vRef, lastRef, fileno, lastObj, Start(fileno), FALSE, to)

WalkLiveGc ==
  /\ pc = "loop" /\ LoopCond /\ ~Dead
  /\ inactive /\ ~ignoreZero
  /\ LiveAfter("advance")
  /\ UNCHANGED <<store, fileno, next, snap, delZero, crashes, faults>>

(* Mutant: end_obj without its correction for a file that ends exactly   *)
(* on an object boundary, one object too far.                              *)
WalkLiveEndObjOverestimated ==
  /\ pc = "loop" /\ LoopCond /\ ~Dead
  /\ ~(inactive /\ ~ignoreZero)
  /\ inactive' = FALSE /\ ignoreZero' = FALSE
  /\ lastRef' = fileno /\ vRef' = fileno /\ lastObj' = End(fileno) + 1
  /\ Advance
  /\ UNCHANGED <<store, next, snap, delZero, frame, crashes, faults>>

WalkLive ==
  /\ pc = "loop" /\ LoopCond /\ ~Dead
  /\ ~(inactive /\ ~ignoreZero)
  /\ inactive' = FALSE /\ ignoreZero' = FALSE
  /\ lastRef' = fileno /\ vRef' = fileno /\ lastObj' = End(fileno)
  /\ Advance
  /\ UNCHANGED <<store, next, snap, delZero, frame, crashes, faults>>

AdvanceAfterGc ==
  /\ pc = "advance"
  /\ Advance
  /\ UNCHANGED <<store, next, snap, inactive, ignoreZero, lastRef, vRef,
                 lastObj, delZero, frame, crashes, faults>>

(* The last reference walked is dead: reclaim everything after the last    *)
(* valid reference, through its final object, as the end of the stream.   *)
LastDead ==
  /\ pc = "loop" /\ ~LoopCond /\ Dead
  /\ LET lo == IF ~inactive /\ Start(fileno) > lastObj + 1
                 THEN Start(fileno) - 1 ELSE lastObj
         lr == IF ~inactive /\ lastRef >= 0 /\ fileno > lastRef + 1
                 THEN fileno - 1 ELSE lastRef
     IN  CallGc(vRef, lr, fileno + 1, lo, End(fileno) + 1, TRUE, "done")
  /\ UNCHANGED <<store, fileno, next, snap, inactive, ignoreZero, lastRef,
                 vRef, lastObj, delZero, crashes, faults>>

(* Mutant: the pending run before a live last reference is left alone.  *)
LastLiveGcSkipped ==
  /\ pc = "loop" /\ ~LoopCond /\ ~Dead
  /\ inactive /\ ~ignoreZero
  /\ pc' = "done"
  /\ UNCHANGED <<store, fileno, next, snap, inactive, ignoreZero, lastRef,
                 vRef, lastObj, delZero, frame, crashes, faults>>

(* The last reference walked is live: gc a pending run of dead ones.       *)
LastLiveGc ==
  /\ pc = "loop" /\ ~LoopCond /\ ~Dead
  /\ inactive /\ ~ignoreZero
  /\ CallGc(vRef, lastRef, fileno, lastObj, Start(fileno), FALSE, "done")
  /\ UNCHANGED <<store, fileno, next, snap, inactive, ignoreZero, lastRef,
                 vRef, lastObj, delZero, crashes, faults>>

LastLive ==
  /\ pc = "loop" /\ ~LoopCond /\ ~Dead
  /\ ~(inactive /\ ~ignoreZero)
  /\ pc' = "done"
  /\ UNCHANGED <<store, fileno, next, snap, inactive, ignoreZero, lastRef,
                 vRef, lastObj, delZero, frame, crashes, faults>>

FinishWalk ==
  /\ pc = "done"
  /\ ResetWalker("idle")
  /\ UNCHANGED <<store, crashes, faults>>

(* The resource manager dies: every local is lost, the stores remain.      *)
Crash ==
  /\ pc # "idle" /\ crashes < MaxCrashes
  /\ ResetWalker("idle")
  /\ crashes' = crashes + 1
  /\ UNCHANGED <<store, faults>>

-----------------------------------------------------------------------------
Environment ==
  \/ CreateFile \/ FinalizeFile \/ CloseStream
  \/ \E k \in Refs : UnlinkFile(k) \/ Age(k)

ResourceManager ==
  \/ StartWalk
  \/ GetFtagMissing \/ GetFtagPlain \/ GetFtagSkip \/ GetFtagRetry
  \/ WalkDead \/ WalkLiveGc \/ WalkLive \/ AdvanceAfterGc
  \/ LastDead \/ LastLiveGc \/ LastLive \/ FinishWalk
  \/ GcDeleteObject \/ GcMarkZero \/ GcMarkInProgress
  \/ GcUnlinkRef \/ GcHeadReclaimed \/ GcCommit \/ GcFault
  \/ Crash

Next == Environment \/ ResourceManager

Spec == Init /\ [][Next]_vars

(* The resource manager is run again and again, and a running one keeps   *)
(* taking steps; crashes and I/O failures are never forced.  The clock     *)
(* advances, so a recent ctime eventually becomes older than              *)
(* RECENT_THRESH.                                                          *)
RMStep == ResourceManager /\ ~Crash /\ ~GcFault
FairSpec == Spec /\ WF_vars(RMStep) /\ \A k \in Refs : WF_vars(Age(k))

-----------------------------------------------------------------------------
(* Properties.                                                             *)

(* The GC never deletes an object a file the user still has lies in: the  *)
(* object ranges walk_stream passes to gc() stop short of the objects of   *)
(* the live references around a dead run, shared boundary objects too.    *)
LiveObjectsKept ==
  \A k \in Refs : k < nref /\ linked[k] => Span(k) \subseteq objs

(* A committed gc_skip marker "<n>" on a reference is true: the n          *)
(* references after it ("-1": all of them) are gone.  Walks jump over     *)
(* them without looking, so a reference left there is never reclaimed.    *)
SkipMarkersTruthful ==
  \A v \in Refs :
    exists[v] /\ marker[v].kind = "commit" =>
      \A j \in Refs :
        j > v /\ (marker[v].n < 0 \/ j <= v + marker[v].n) => ~exists[j]

(* Between walks, a stream whose reference 0 is gone has no reference     *)
(* left: the producers find a stream only by its reference 0, so any      *)
(* other would never be walked again.                                      *)
HeadlessStreamEmpty ==
  pc = "idle" /\ nref > 0 /\ ~exists[0] => \A k \in Refs : ~exists[k]

(* gc() writes "IN_PROG <n>" on the anchor before its reference loop and  *)
(* only then unlinks: every reference the resource manager removes is      *)
(* covered, at that moment, by an IN_PROG marker on a reference at or      *)
(* before it, so a crash in the loop leaves the rest to the next walk.     *)
InProgressCovers(a, k) ==
  /\ a <= k /\ marker[a].kind = "inprog"
  /\ marker[a].n < 0 \/ k <= a + marker[a].n
UnlinkUnderInProgress ==
  [][\A k \in Refs : exists[k] /\ ~exists'[k] =>
                      \E a \in Refs : InProgressCovers(a, k)]_vars

(* The walk and gc() only ever reclaim the reference of a file the user   *)
(* removed, and only delete objects no file the user still has lies in:   *)
(* the stream with its markers, walk and crashes implements GcAbstract.   *)
Abstract == INSTANCE GcAbstract WITH
              files <- nref,
              refs  <- {k \in Refs : exists[k]},
              live  <- {k \in Refs : linked[k]},
              objs  <- objs
GcRefinesAbstract == Abstract!Spec

(* Once the stream is closed, every reference after the first whose file  *)
(* the user removed long enough ago is eventually unlinked: a walk gc's   *)
(* each dead run, before a live reference or to the end of the stream.    *)
Closed == nref > 0 /\ eos[nref - 1]
DeadRef(k) == exists[k] /\ ~linked[k] /\ old[k]
DeadRefsReclaimed ==
  \A k \in Refs \ {0} : Closed /\ DeadRef(k) ~> ~exists[k]

(* In every behaviour in which neither a crash nor an I/O failure ever    *)
(* happens, the dead references of a closed stream are eventually        *)
(* reclaimed (DeadRefsReclaimed); behaviours with a crash or a fault are  *)
(* left out, since the crash findings break the property there.          *)
FaultFreeReclaim == [](crashes = 0 /\ faults = 0) => DeadRefsReclaimed

=============================================================================
