-------------------------- MODULE SourceSnapshotProofs --------------------------
(***************************************************************************)
(* TLAPS proofs about source snapshots, for any number of runs and files:  *)
(* without cancellation and without a stale directory, the removal of      *)
(* forceRemoveAll is never entered, so a snapshot once installed stays. A  *)
(* run that is alone repairs whatever it finds.                            *)
(***************************************************************************)
EXTENDS SourceSnapshot, TLAPS

Removing == {"chmodTree", "open", "unlink", "reinstall", "installAgain"}
Installed == {"recheck", "lock", "archive"}

Undisturbed == prior # "stale" /\ cancelled = {}

\* While undisturbed, whatever is at the path is whole, a staged directory is
\* whole before it is renamed, and nobody is removing or has failed.
PathInv ==
    Undisturbed =>
        /\ at # NoDir => content[at] = Every("good")
        /\ \A r \in Runs :
            /\ pc[r] \notin Removing \cup {"failed"}
            /\ pc[r] \in Installed => at # NoDir
            /\ pc[r] \in {"rename", "install"} => content[r] = Every("good")

SInv == TypeOK /\ PathInv
-----------------------------------------------------------------------------
\* Every file of a whole directory can be read while the context is live.
LEMMA WholeIsReadable ==
    ASSUME TypeOK, NEW r \in Runs, Undisturbed, at # NoDir, content[at] = Every("good")
    PROVE  CanRead(r)
  BY DEF CanRead, TypeOK, Every, Undisturbed

\* Reading the manifest's files in order never leaves it.
LEMMA ReadTypes ==
    ASSUME TypeOK, NEW r \in Runs, NEW place \in Places,
           ReadNext(r, place) \/ Mismatch(r, place)
    PROVE  file' \in [Runs -> Files] /\ pc' \in [Runs -> Places]
<1>1. file[r] \in Files /\ 1 \in Files
  BY SnapshotAssumption DEF TypeOK, Files
<1>2. file[r] < NumFiles => file[r] + 1 \in Files
  BY <1>1, SnapshotAssumption DEF Files
<1>3. QED
  BY <1>1, <1>2 DEF ReadNext, Mismatch, Goto, TypeOK

\* The variables keep their types.
LEMMA TypeStep ==
    ASSUME SInv, [Next]_vars
    PROVE  TypeOK'
<1>1. ASSUME NEW r \in Runs, Start(r) PROVE TypeOK'
  BY <1>1 DEF Start, Goto, SInv, TypeOK, Places
<1>2. ASSUME NEW r \in Runs, Cancel(r) PROVE TypeOK'
  BY <1>2 DEF Cancel, SInv, TypeOK
<1>3. ASSUME NEW r \in Runs, Crash(r) PROVE TypeOK'
  BY <1>3 DEF Crash, Goto, SInv, TypeOK, Places, Ended
<1>4. ASSUME NEW r \in Runs, Check(r) PROVE TypeOK'
  BY <1>4, ReadTypes DEF Check, SInv, TypeOK, Places, Ended
<1>5. ASSUME NEW r \in Runs, Stage(r) PROVE TypeOK'
  <2>1. Every("good") \in [Files -> {"good", "bad", "gone"}]
    BY DEF Every
  <2>2. content' \in [Dirs -> [Files -> {"good", "bad", "gone"}]]
    BY <1>5, <2>1 DEF Stage, PopulateSnapshot, SInv, TypeOK
  <2>3. QED
    BY <1>5, <2>2 DEF Stage, PopulateSnapshot, Goto, SInv, TypeOK, Places, Ended
<1>6. ASSUME NEW r \in Runs, Rename(r) PROVE TypeOK'
  BY <1>6 DEF Rename, LookAtPath, Install, Goto, SInv, TypeOK, Places, Dirs
<1>7. ASSUME NEW r \in Runs, Recheck(r) PROVE TypeOK'
  BY <1>7, ReadTypes DEF Recheck, SInv, TypeOK, Places
<1>8. ASSUME NEW r \in Runs, ChmodTree(r) PROVE TypeOK'
  BY <1>8 DEF ChmodTree, Goto, SInv, TypeOK, Places
<1>9. ASSUME NEW r \in Runs, OpenDir(r) PROVE TypeOK'
  <2>1. Present(at) \subseteq Files
    BY DEF Present
  <2>2. QED
    BY <1>9, <2>1 DEF OpenDir, Goto, SInv, TypeOK, Places
<1>10. ASSUME NEW r \in Runs, Unlink(r) PROVE TypeOK'
  <2> DEFINE C == [Files -> {"good", "bad", "gone"}]
  <2>1. PICK f \in victims[r] :
            /\ victims' = [victims EXCEPT ![r] = @ \ {f}]
            /\ content' = IF writable[opened[r]]
                          THEN [content EXCEPT ![opened[r]][f] = "gone"] ELSE content
    BY <1>10 DEF Unlink
  <2>2. \A d \in Dirs : content[d] \in C /\ [content[d] EXCEPT ![f] = "gone"] \in C
    BY DEF SInv, TypeOK
  <2>3. content' \in [Dirs -> C]
    BY <2>1, <2>2 DEF SInv, TypeOK
  <2>4. QED
    BY <1>10, <2>1, <2>3 DEF Unlink, SInv, TypeOK
<1>11. ASSUME NEW r \in Runs, RemoveDir(r) PROVE TypeOK'
  BY <1>11 DEF RemoveDir, Goto, SInv, TypeOK, Places, Ended
<1>12. ASSUME NEW r \in Runs, Reinstall(r) PROVE TypeOK'
  BY <1>12 DEF Reinstall, LookAtPath, Install, Goto, SInv, TypeOK, Places, Ended, Dirs
<1>13. ASSUME NEW r \in Runs, Lock(r) PROVE TypeOK'
  BY <1>13 DEF Lock, Goto, SInv, TypeOK, Places, Ended
<1>14. ASSUME NEW r \in Runs, Archive(r) PROVE TypeOK'
  BY <1>14, ReadTypes DEF Archive, SInv, TypeOK, Places, Ended
<1>15. ASSUME UNCHANGED vars PROVE TypeOK'
  BY <1>15 DEF vars, SInv, TypeOK
<1>16. QED
  BY <1>1, <1>2, <1>3, <1>4, <1>5, <1>6, <1>7, <1>8, <1>9, <1>10, <1>11, <1>12, <1>13,
     <1>14, <1>15 DEF Next

\* A rename installs a whole directory or leaves one, and a failed rename finds one.
LEMMA PathStep ==
    ASSUME SInv, [Next]_vars
    PROVE  PathInv'
<1>1. ASSUME NEW r \in Runs, Start(r) PROVE PathInv'
  BY <1>1 DEF Start, Goto, SInv, PathInv, Undisturbed, Removing, Installed
<1>2. ASSUME NEW r \in Runs, Cancel(r) PROVE PathInv'
  BY <1>2 DEF Cancel, PathInv, Undisturbed
<1>3. ASSUME NEW r \in Runs, Crash(r) PROVE PathInv'
  BY <1>3 DEF Crash, Goto, SInv, PathInv, Undisturbed, Removing, Installed
<1>4. ASSUME NEW r \in Runs, Check(r) PROVE PathInv'
  BY <1>4 DEF Check, ReadNext, Mismatch, CanRead, Goto, SInv, TypeOK, PathInv,
     Undisturbed, Removing, Installed
<1>5. ASSUME NEW r \in Runs, Stage(r) PROVE PathInv'
  BY <1>5 DEF Stage, PopulateSnapshot, Goto, SInv, TypeOK, PathInv, Undisturbed, Removing, Installed, Dirs
<1>6. ASSUME NEW r \in Runs, Rename(r) PROVE PathInv'
  <2>1. SUFFICES ASSUME Undisturbed PROVE PathInv'
    BY <1>6 DEF Rename, LookAtPath, Install, PathInv, Undisturbed
  <2>0. CASE pc[r] = "rename"
    BY <1>6, <2>0, <2>1 DEF Rename, LookAtPath, Goto, SInv, TypeOK, PathInv, Removing, Installed
  <2>2. CASE pc[r] = "install" /\ Vacant
    <3>1. at' = r /\ pc' = [pc EXCEPT ![r] = "lock"] /\ content' = content
      BY <1>6, <2>2 DEF Rename, Install, Goto
    <3>2. r # NoDir /\ content[r] = Every("good")
      BY <1>6, <2>1, SnapshotAssumption DEF Rename, SInv, PathInv, Dirs
    <3>3. QED
      BY <1>6, <2>1, <3>1, <3>2 DEF SInv, PathInv, Removing
  <2>3. CASE pc[r] = "install" /\ ~Vacant
    <3>1. at # NoDir
      BY <2>3 DEF Vacant
    <3>2. QED
      BY <1>6, <2>1, <2>3, <3>1 DEF Rename, Install, Goto, SInv, TypeOK, PathInv, Removing
  <2>4. QED
    BY <1>6, <2>0, <2>2, <2>3 DEF Rename
<1>7. ASSUME NEW r \in Runs, Recheck(r) PROVE PathInv'
  BY <1>7, WholeIsReadable DEF Recheck, ReadNext, Mismatch, Goto, SInv, TypeOK, PathInv,
     Undisturbed, Removing, Installed
<1>8. ASSUME NEW r \in Runs, ChmodTree(r) PROVE PathInv'
  BY <1>8 DEF ChmodTree, SInv, PathInv, Undisturbed, Removing
<1>9. ASSUME NEW r \in Runs, OpenDir(r) PROVE PathInv'
  BY <1>9 DEF OpenDir, SInv, PathInv, Undisturbed, Removing
<1>10. ASSUME NEW r \in Runs, Unlink(r) PROVE PathInv'
  BY <1>10 DEF Unlink, SInv, PathInv, Undisturbed, Removing
<1>11. ASSUME NEW r \in Runs, RemoveDir(r) PROVE PathInv'
  BY <1>11 DEF RemoveDir, SInv, PathInv, Undisturbed, Removing
<1>12. ASSUME NEW r \in Runs, Reinstall(r) PROVE PathInv'
  BY <1>12 DEF Reinstall, LookAtPath, Install, SInv, PathInv, Undisturbed, Removing
<1>13. ASSUME NEW r \in Runs, Lock(r) PROVE PathInv'
  BY <1>13 DEF Lock, Goto, SInv, TypeOK, PathInv, Undisturbed, Removing, Installed
<1>14. ASSUME NEW r \in Runs, Archive(r) PROVE PathInv'
  BY <1>14, WholeIsReadable DEF Archive, ReadNext, Mismatch, Goto, SInv, TypeOK, PathInv,
     Undisturbed, Removing, Installed
<1>15. ASSUME UNCHANGED vars PROVE PathInv'
  BY <1>15 DEF vars, SInv, PathInv, Undisturbed
<1>16. QED
  BY <1>1, <1>2, <1>3, <1>4, <1>5, <1>6, <1>7, <1>8, <1>9, <1>10, <1>11, <1>12, <1>13,
     <1>14, <1>15 DEF Next

\* The invariant holds initially.
LEMMA SInvInit == Init => SInv
<1> SUFFICES ASSUME Init PROVE SInv
  OBVIOUS
<1>1. TypeOK
  <2>1. 1 \in Files
    BY SnapshotAssumption DEF Files
  <2>2. Every("gone") \in [Files -> {"good", "bad", "gone"}]
    BY DEF Every
  <2>3. content \in [Dirs -> [Files -> {"good", "bad", "gone"}]]
    BY <2>2 DEF Init
  <2>4. QED
    BY <2>1, <2>3 DEF Init, TypeOK, Places, Dirs
<1>2. PathInv
  BY DEF Init, PathInv, Undisturbed, Removing, Installed, Dirs
<1>3. QED
  BY <1>1, <1>2 DEF SInv

\* Every operation on the shared path preserves the invariant.
LEMMA SInvStep == SInv /\ [Next]_vars => SInv'
  BY TypeStep, PathStep DEF SInv

(***************************************************************************)
(* ensureSourceSnapshot stays in SInv.                                     *)
(***************************************************************************)
THEOREM Invariance == Spec => []SInv
  BY SInvInit, SInvStep, PTL DEF Spec

(***************************************************************************)
(* Concurrent runs converge on one snapshot, whatever their interleaving   *)
(* and crashes, while none is cancelled and nothing stale was there.       *)
(***************************************************************************)
THEOREM RunsConverge == Spec => []UndisturbedRunsConverge
<1>1. SInv => UndisturbedRunsConverge
  BY DEF SInv, PathInv, Undisturbed, Installed, UndisturbedRunsConverge,
     ConcurrentRunsConverge, SnapshotGood
<1>2. QED
  BY <1>1, Invariance, PTL



-----------------------------------------------------------------------------
\* A run that has the store to itself.

\* The files r has read so far are good.
ReadSoFar(r) == \A f \in 1..(file[r] - 1) : at # NoDir /\ content[at][f] = "good"

Whole(d) == content[d] = Every("good")

\* A run's directory reaches the path only when the run installs it, and a run starts
\* reading at the first file.
FreshInv ==
    \A r \in Runs :
        /\ pc[r] \notin Ended \cup {"lock", "archive"} => at # r
        /\ pc[r] \in {"idle", "stage", "rename", "install"} => file[r] = 1

\* What a run that never overlapped another one knows at each place.
Knows(r) ==
    /\ \A q \in Runs \ {r} : ~Active(q)
    /\ pc[r] \in {"check", "recheck"} => ReadSoFar(r)
    /\ pc[r] \in {"rename", "install", "recheck"} \cup Removing => Whole(r)
    /\ pc[r] = "open" /\ at # NoDir => writable[at]
    /\ pc[r] = "unlink" =>
        /\ at # NoDir /\ opened[r] = at /\ writable[at]
        /\ Present(at) \subseteq victims[r]
    /\ pc[r] \in {"install", "reinstall", "installAgain"} => at = NoDir
    /\ pc[r] \in {"lock", "archive"} => SnapshotGood

LoneInv ==
    \A r \in Runs \ overlapped :
        /\ Active(r) => Knows(r)
        /\ pc[r] # "failed"

\* Reading one more good file, to the last one, shows the directory whole.
LEMMA ReadMore ==
    ASSUME TypeOK, NEW r \in Runs, ReadSoFar(r), CanRead(r)
    PROVE  /\ \A f \in 1..file[r] : at # NoDir /\ content[at][f] = "good"
           /\ ~(file[r] < NumFiles) => SnapshotGood
<1>1. file[r] \in 1..NumFiles /\ NumFiles \in Nat
  BY SnapshotAssumption DEF TypeOK, Files
<1>2. \A f \in 1..file[r] : f \in 1..(file[r] - 1) \/ f = file[r]
  BY <1>1
<1>3. \A f \in 1..file[r] : at # NoDir /\ content[at][f] = "good"
  BY <1>2 DEF ReadSoFar, CanRead
<1>4. ASSUME ~(file[r] < NumFiles) PROVE SnapshotGood
  <2>1. file[r] = NumFiles
    BY <1>1, <1>4
  <2>2. at # NoDir /\ \A f \in Files : content[at][f] = "good"
    BY <1>3, <2>1 DEF CanRead, Files
  <2>3. content[at] \in [Files -> {"good", "bad", "gone"}]
    BY <2>2 DEF TypeOK
  <2>4. QED
    BY <2>2, <2>3 DEF SnapshotGood, Every
<1>5. QED
  BY <1>3, <1>4

\* Nobody else puts a run's directory at the path.
LEMMA FreshStep ==
    ASSUME TypeOK, FreshInv, [Next]_vars
    PROVE  FreshInv'
<1>1. ASSUME NEW r \in Runs, Start(r) PROVE FreshInv'
  BY <1>1 DEF Start, Goto, TypeOK, FreshInv, Ended
<1>2. ASSUME NEW r \in Runs, Cancel(r) PROVE FreshInv'
  BY <1>2 DEF Cancel, FreshInv
<1>3. ASSUME NEW r \in Runs, Crash(r) PROVE FreshInv'
  BY <1>3 DEF Crash, Goto, TypeOK, FreshInv, Ended
<1>4. ASSUME NEW r \in Runs, Check(r) PROVE FreshInv'
  BY <1>4 DEF Check, ReadNext, Mismatch, Goto, TypeOK, FreshInv, Ended
<1>5. ASSUME NEW r \in Runs, Stage(r) PROVE FreshInv'
  BY <1>5 DEF Stage, Goto, TypeOK, FreshInv, Ended
<1>6. ASSUME NEW r \in Runs, Rename(r) \/ Reinstall(r) PROVE FreshInv'
  BY <1>6 DEF Rename, Reinstall, LookAtPath, Install, Goto, TypeOK, FreshInv, Ended
<1>7. ASSUME NEW r \in Runs, Recheck(r) PROVE FreshInv'
  BY <1>7 DEF Recheck, ReadNext, Mismatch, Goto, TypeOK, FreshInv, Ended
<1>8. ASSUME NEW r \in Runs, ChmodTree(r) \/ Unlink(r) PROVE FreshInv'
  BY <1>8 DEF ChmodTree, Unlink, Goto, TypeOK, FreshInv, Ended
<1>9. ASSUME NEW r \in Runs, OpenDir(r) \/ RemoveDir(r) PROVE FreshInv'
  BY <1>9, SnapshotAssumption DEF OpenDir, RemoveDir, Goto, TypeOK, FreshInv, Ended, Dirs
<1>10. ASSUME NEW r \in Runs, Lock(r) PROVE FreshInv'
  BY <1>10 DEF Lock, Goto, TypeOK, FreshInv, Ended
<1>11. ASSUME NEW r \in Runs, Archive(r) PROVE FreshInv'
  BY <1>11 DEF Archive, ReadNext, Mismatch, Goto, TypeOK, FreshInv, Ended
<1>12. ASSUME UNCHANGED vars PROVE FreshInv'
  BY <1>12 DEF vars, FreshInv
<1>13. QED
  BY <1>1, <1>2, <1>3, <1>4, <1>5, <1>6, <1>7, <1>8, <1>9, <1>10, <1>11, <1>12 DEF Next

\* The step of a run that stays alone: what it knows, it knows at its next place.
LEMMA LoneOwnStep ==
    ASSUME TypeOK, TypeOK', FreshInv, NEW r \in Runs, Active(r), Knows(r),
           \/ Cancel(r) \/ Crash(r) \/ Check(r) \/ Stage(r) \/ Rename(r) \/ Recheck(r)
           \/ ChmodTree(r) \/ OpenDir(r) \/ Unlink(r) \/ RemoveDir(r) \/ Reinstall(r)
           \/ Lock(r) \/ Archive(r)
    PROVE  (Active(r)' => Knows(r)') /\ pc'[r] # "failed"
<1> USE DEF Knows, Removing
<1>a. \A q \in Runs \ {r} : ~Active(q)'
  BY DEF Active, TypeOK, Cancel, Crash, Check, Stage, Rename, Recheck, ChmodTree, OpenDir,
     Unlink, RemoveDir, Reinstall, Lock, Archive, ReadNext, Mismatch, LookAtPath, Install, Goto
<1>b. r \in Dirs /\ r # NoDir /\ 1 \in Files /\ NumFiles \in Nat /\ file[r] \in 1..NumFiles
  BY SnapshotAssumption DEF Dirs, Files, TypeOK
<1>1. CASE Cancel(r)
  BY <1>1, <1>a DEF Cancel, Active, ReadSoFar, Whole, Present, SnapshotGood, Ended
<1>2. CASE Crash(r)
  BY <1>2 DEF Crash, Goto, Active, Ended, TypeOK
<1>3. CASE Check(r)
  <2>1. CASE CanRead(r) /\ file[r] < NumFiles
    <3>1. pc' = pc /\ file'[r] = file[r] + 1 /\ at' = at /\ content' = content
      BY <1>3, <2>1 DEF Check, ReadNext, Mismatch, TypeOK
    <3>2. ReadSoFar(r)'
      BY <3>1, <2>1, <1>3, <1>b, ReadMore DEF ReadSoFar, Check
    <3>3. QED
      BY <3>1, <3>2, <1>3, <1>a DEF Check
  <2>2. CASE CanRead(r) /\ ~(file[r] < NumFiles)
    <3>1. pc'[r] = "archive" /\ SnapshotGood
      BY <1>3, <2>2, ReadMore DEF Check, ReadNext, Mismatch, Goto, TypeOK
    <3>2. QED
      BY <3>1, <1>3, <1>a DEF Check, SnapshotGood
  <2>3. CASE ~CanRead(r)
    BY <1>3, <1>a, <2>3 DEF Check, ReadNext, Mismatch, Goto, TypeOK
  <2>4. QED
    BY <2>1, <2>2, <2>3
<1>4. CASE Stage(r)
  <2>1. CASE pc'[r] = "rename"
    <3>1. Whole(r)'
      BY <1>4, <2>1, <1>b DEF Stage, PopulateSnapshot, Goto, Whole, Every, TypeOK
    <3>2. QED
      BY <2>1, <3>1, <1>a
  <2>2. CASE pc'[r] # "rename"
    BY <1>4, <2>2 DEF Stage, Goto, Active, Ended, TypeOK
  <2>3. QED
    BY <2>1, <2>2
<1>5. CASE Rename(r)
  <2>0. content' = content /\ Whole(r)'
    BY <1>5 DEF Rename, LookAtPath, Install, Whole, Every
  <2>1. CASE pc[r] = "rename" /\ at = NoDir
    BY <1>5, <2>0, <2>1, <1>a DEF Rename, LookAtPath, Goto, TypeOK
  <2>2. CASE pc[r] = "rename" /\ at # NoDir
    <3>1. pc'[r] = "recheck" /\ file' = file /\ file[r] = 1
      BY <1>5, <2>2 DEF Rename, LookAtPath, Goto, TypeOK, FreshInv
    <3>2. ReadSoFar(r)'
      BY <3>1 DEF ReadSoFar
    <3>3. QED
      BY <2>0, <3>1, <3>2, <1>a
  <2>3. CASE pc[r] = "install"
    <3>1. pc'[r] = "lock" /\ at' = r
      BY <1>5, <2>3 DEF Rename, Install, Vacant, Goto, TypeOK
    <3>2. QED
      BY <2>0, <3>1, <1>a, <1>b DEF Whole, SnapshotGood
  <2>4. QED
    BY <1>5, <2>1, <2>2, <2>3 DEF Rename
<1>6. CASE Recheck(r)
  <2>0. Whole(r)'
    BY <1>6 DEF Recheck, Whole, Every
  <2>1. CASE CanRead(r) /\ file[r] < NumFiles
    <3>1. pc' = pc /\ file'[r] = file[r] + 1 /\ at' = at /\ content' = content
      BY <1>6, <2>1 DEF Recheck, ReadNext, Mismatch, TypeOK
    <3>2. ReadSoFar(r)'
      BY <3>1, <2>1, <1>6, <1>b, ReadMore DEF ReadSoFar, Recheck
    <3>3. QED
      BY <2>0, <3>1, <3>2, <1>6, <1>a DEF Recheck
  <2>2. CASE CanRead(r) /\ ~(file[r] < NumFiles)
    <3>1. pc'[r] = "archive" /\ SnapshotGood
      BY <1>6, <2>2, ReadMore DEF Recheck, ReadNext, Mismatch, Goto, TypeOK
    <3>2. QED
      BY <3>1, <1>6, <1>a DEF Recheck, SnapshotGood
  <2>3. CASE ~CanRead(r)
    BY <1>6, <1>a, <2>0, <2>3 DEF Recheck, ReadNext, Mismatch, Goto, TypeOK
  <2>4. QED
    BY <2>1, <2>2, <2>3
<1>7. CASE ChmodTree(r)
  BY <1>7, <1>a DEF ChmodTree, Goto, TypeOK, Whole
<1>8. CASE OpenDir(r)
  <2>1. Whole(r)'
    BY <1>8 DEF OpenDir, Whole, Every
  <2>2. CASE Vacant
    BY <1>8, <2>1, <2>2, <1>a DEF OpenDir, Goto, TypeOK
  <2>3. CASE ~Vacant
    <3>0. at # NoDir
      BY <2>3 DEF Vacant
    <3>1. pc'[r] = "unlink" /\ at' = at /\ opened'[r] = at /\ writable'[at] /\ victims'[r] = Present(at)
      BY <1>8, <2>3, <3>0 DEF OpenDir, Goto, TypeOK
    <3>2. Present(at)' = Present(at)
      BY <1>8, <3>1 DEF OpenDir, Present
    <3>3. QED
      BY <2>1, <3>0, <3>1, <3>2, <1>a
  <2>4. QED
    BY <2>2, <2>3
<1>9. CASE Unlink(r)
  <2>1. PICK f \in victims[r] :
            /\ victims' = [victims EXCEPT ![r] = @ \ {f}]
            /\ content' = IF writable[opened[r]] THEN [content EXCEPT ![opened[r]][f] = "gone"]
                          ELSE content
    BY <1>9 DEF Unlink
  <2>2. pc[r] = "unlink" /\ pc' = pc /\ at' = at /\ opened' = opened /\ writable' = writable
    BY <1>9 DEF Unlink
  <2>3. at # NoDir /\ opened[r] = at /\ writable[at] /\ at \in Dirs /\ at # r
    BY <2>2 DEF TypeOK, FreshInv, Ended
  <2>4. content' = [content EXCEPT ![at] = [content[at] EXCEPT ![f] = "gone"]]
    BY <2>1, <2>3
  <2>5. Whole(r)'
    BY <2>2, <2>3, <2>4, <1>b DEF Whole, Every, TypeOK
  <2>6. Present(at)' \subseteq Present(at) \ {f}
    BY <2>2, <2>3, <2>4 DEF Present, TypeOK
  <2>7. victims'[r] = victims[r] \ {f}
    BY <2>1 DEF TypeOK
  <2>8. QED
    BY <2>2, <2>3, <2>5, <2>6, <2>7, <1>a
<1>10. CASE RemoveDir(r)
  <2>1. Vacant
    BY <1>10 DEF RemoveDir, Vacant
  <2>2. Whole(r)'
    BY <1>10 DEF RemoveDir, Whole, Every
  <2>3. QED
    BY <1>10, <2>1, <2>2, <1>a DEF RemoveDir, Goto, TypeOK
<1>11. CASE Reinstall(r)
  <2>0. content' = content /\ Whole(r)'
    BY <1>11 DEF Reinstall, LookAtPath, Install, Whole, Every
  <2>1. CASE pc[r] = "reinstall"
    BY <1>11, <2>0, <2>1, <1>a DEF Reinstall, LookAtPath, Goto, TypeOK
  <2>2. CASE pc[r] = "installAgain"
    <3>1. pc'[r] = "lock" /\ at' = r
      BY <1>11, <2>2 DEF Reinstall, Install, Vacant, Goto, TypeOK
    <3>2. QED
      BY <2>0, <3>1, <1>a, <1>b DEF Whole, SnapshotGood
  <2>3. QED
    BY <1>11, <2>1, <2>2 DEF Reinstall
<1>12. CASE Lock(r)
  BY <1>12, <1>a DEF Lock, Goto, TypeOK, SnapshotGood
<1>13. CASE Archive(r)
  <2>1. CanRead(r) \/ r \in cancelled
    BY <1>13, <1>b DEF Archive, CanRead, SnapshotGood, Every, Files
  <2>2. SnapshotGood'
    BY <1>13 DEF Archive, SnapshotGood
  <2>3. pc'[r] \in {"archive", "archived", "cancelled"}
    BY <1>13, <2>1 DEF Archive, ReadNext, Mismatch, CanRead, Goto, TypeOK
  <2>4. QED
    BY <2>2, <2>3, <1>a DEF Active, Ended
<1>14. QED
  BY <1>1, <1>2, <1>3, <1>4, <1>5, <1>6, <1>7, <1>8, <1>9, <1>10, <1>11, <1>12, <1>13

\* A run that starts while another is active marks both; a run alone takes its own steps.
LEMMA LoneStep ==
    ASSUME TypeOK, TypeOK', FreshInv, LoneInv, [Next]_vars
    PROVE  LoneInv'
<1>1. ASSUME NEW q \in Runs, Start(q) PROVE LoneInv'
  <2> SUFFICES ASSUME NEW r \in Runs \ overlapped'
               PROVE  (Active(r)' => Knows(r)') /\ pc'[r] # "failed"
    BY DEF LoneInv
  <2>1. r \notin overlapped /\ \A p \in Runs \ {q} : pc'[p] = pc[p]
    BY <1>1 DEF Start, Goto, TypeOK
  <2>2. CASE r = q
    <3>1. \A p \in Runs \ {r} : ~Active(p)'
      BY <1>1, <2>1, <2>2 DEF Start, Active
    <3>2. pc'[r] = "check" /\ file'[r] = 1
      BY <1>1, <2>2 DEF Start, Goto, TypeOK, FreshInv
    <3>3. QED
      BY <3>1, <3>2 DEF Knows, ReadSoFar, Removing
  <2>3. CASE r # q
    BY <1>1, <2>1, <2>3 DEF Start, Active, LoneInv
  <2>4. QED
    BY <2>2, <2>3
<1>2. ASSUME NEW q \in Runs,
             \/ Cancel(q) \/ Crash(q) \/ Check(q) \/ Stage(q) \/ Rename(q) \/ Recheck(q)
             \/ ChmodTree(q) \/ OpenDir(q) \/ Unlink(q) \/ RemoveDir(q) \/ Reinstall(q)
             \/ Lock(q) \/ Archive(q)
      PROVE  LoneInv'
  <2> SUFFICES ASSUME NEW r \in Runs \ overlapped'
               PROVE  (Active(r)' => Knows(r)') /\ pc'[r] # "failed"
    BY DEF LoneInv
  <2>1. Active(q)
    BY <1>2 DEF Active, Ended, Cancel, Crash, Check, Stage, Rename, Recheck, ChmodTree,
       OpenDir, Unlink, RemoveDir, Reinstall, Lock, Archive
  <2>2. overlapped' = overlapped /\ \A p \in Runs \ {q} : pc'[p] = pc[p]
    BY <1>2 DEF TypeOK, Cancel, Crash, Check, Stage, Rename, Recheck, ChmodTree, OpenDir,
       Unlink, RemoveDir, Reinstall, Lock, Archive, ReadNext, Mismatch, LookAtPath, Install, Goto
  <2>3. CASE r = q
    BY <1>2, <2>1, <2>2, <2>3, LoneOwnStep DEF LoneInv
  <2>4. CASE r # q
    <3>1. ~Active(r)
      BY <2>1, <2>2, <2>4 DEF LoneInv, Knows
    <3>2. QED
      BY <2>2, <2>4, <3>1 DEF Active, LoneInv
  <2>5. QED
    BY <2>3, <2>4
<1>3. ASSUME UNCHANGED vars PROVE LoneInv'
  BY <1>3 DEF vars, LoneInv, Active, Knows, ReadSoFar, Whole, Present, SnapshotGood
<1>4. QED
  BY <1>1, <1>2, <1>3 DEF Next

(***************************************************************************)
(* For any number of runs and files, whatever an earlier run left at the   *)
(* path and wherever other runs crashed or were cancelled before it, half  *)
(* way through a removal included: a run that has the store to itself is   *)
(* not failed by it, and archives a whole snapshot.                        *)
(***************************************************************************)
THEOREM LoneRunsRepair == Spec => []LoneRunRepairs
<1>1. Init => FreshInv /\ LoneInv
  BY SnapshotAssumption DEF Init, FreshInv, LoneInv, Active, Ended, Dirs
<1>2. SInv => TypeOK
  BY DEF SInv
<1>3. TypeOK /\ TypeOK' /\ FreshInv /\ LoneInv /\ [Next]_vars => FreshInv' /\ LoneInv'
  BY FreshStep, LoneStep
<1>4. LoneInv => LoneRunRepairs
  BY DEF LoneInv, Knows, Active, Ended, LoneRunRepairs
<1>5. QED
  BY <1>1, <1>2, <1>3, <1>4, Invariance, PTL DEF Spec
==============================================================================
