---------------------------- MODULE SourceSnapshot ----------------------------
(***************************************************************************)
(* ensureSourceSnapshot and the archive built from its result: local runs  *)
(* of one plan share a content-addressed snapshot directory and agree on   *)
(* it with nothing but rename, chmod and unlink. One action per filesystem *)
(* operation on the shared path; a run may crash between any two of them.  *)
(*                                                                         *)
(* A directory is named by the run that staged it, so that a path and the  *)
(* directory it named when it was opened can be told apart. The staging    *)
(* directory is private until it is renamed, and the shared path is always *)
(* inside the datastore.                                                   *)
(***************************************************************************)
EXTENDS Naturals

CONSTANTS
    Runs,        \* the runs of the plan on this datastore
    NumFiles,    \* length of the source manifest
    PriorStates, \* what earlier runs may have left: subset of the three below
    CanCancel,   \* the context of a run may be cancelled
    Prior        \* names the directory an earlier run left

Files == 1..NumFiles
Dirs == Runs \cup {Prior}
NoDir == "none"

ASSUME SnapshotAssumption ==
    /\ NumFiles \in Nat \ {0}
    /\ PriorStates \subseteq {"absent", "intact", "stale"}
    /\ CanCancel \in BOOLEAN
    /\ Prior \notin Runs
    /\ NoDir \notin Dirs

VARIABLES
    prior,      \* what an earlier run left; never changes
    at,         \* the directory the snapshot path names, NoDir for none
    content,    \* content[d][f]: "good", "bad" or "gone"
    writable,   \* writable[d]: mode 0755 rather than 0555
    pc,         \* where each run is
    file,       \* the file of the manifest the run reads next
    cancelled,  \* runs whose context is cancelled
    opened,     \* opened[r]: the directory RemoveAll has open
    victims,    \* the names RemoveAll has read and not yet unlinked
    overlapped  \* runs that were active together with another run

vars == <<prior, at, content, writable, pc, file, cancelled, opened, victims, overlapped>>

Ended == {"archived", "cancelled", "drifted", "failed", "crashed"}
Places == Ended \cup {"idle", "check", "stage", "rename", "install", "recheck", "chmodTree",
                     "open", "unlink", "reinstall", "installAgain", "lock", "archive"}
Active(r) == pc[r] \notin Ended \cup {"idle"}

TypeOK ==
    /\ prior \in PriorStates
    /\ at \in Dirs \cup {NoDir}
    /\ content \in [Dirs -> [Files -> {"good", "bad", "gone"}]]
    /\ writable \in [Dirs -> BOOLEAN]
    /\ pc \in [Runs -> Places]
    /\ file \in [Runs -> Files]
    /\ cancelled \subseteq Runs
    /\ opened \in [Runs -> Dirs \cup {NoDir}]
    /\ victims \in [Runs -> SUBSET Files]
    /\ overlapped \subseteq Runs

Every(status) == [f \in Files |-> status]
Present(d) == {f \in Files : content[d][f] # "gone"}

\* What the system calls rename and rmdir accept at the path: nothing, or an empty
\* directory. os.Rename is stricter (LookAtPath).
Vacant == at = NoDir \/ Present(at) = {}

Init ==
    /\ prior \in PriorStates
    /\ at = IF prior = "absent" THEN NoDir ELSE Prior
    /\ \E left \in [Files -> {"good", "bad", "gone"}] :
        /\ prior = "stale" <=> left # Every("good")
        /\ content = [d \in Dirs |-> IF d = Prior THEN left ELSE Every("gone")]
    /\ writable = [d \in Dirs |-> FALSE]
    /\ pc = [r \in Runs |-> "idle"]
    /\ file = [r \in Runs |-> 1]
    /\ cancelled = {}
    /\ opened = [r \in Runs |-> NoDir]
    /\ victims = [r \in Runs |-> {}]
    /\ overlapped = {}

Goto(r, place) == pc' = [pc EXCEPT ![r] = place]

-----------------------------------------------------------------------------
\* The environment.

Start(r) ==
    /\ pc[r] = "idle"
    /\ Goto(r, "check")
    /\ overlapped' = LET others == {q \in Runs \ {r} : Active(q)}
                     IN  overlapped \cup others \cup IF others = {} THEN {} ELSE {r}
    /\ UNCHANGED <<prior, at, content, writable, file, cancelled, opened, victims>>

Cancel(r) ==
    /\ CanCancel
    /\ Active(r)
    /\ r \notin cancelled
    /\ cancelled' = cancelled \cup {r}
    /\ UNCHANGED <<prior, at, content, writable, pc, file, opened, victims, overlapped>>

Crash(r) ==
    /\ Active(r)
    /\ Goto(r, "crashed")
    /\ UNCHANGED <<prior, at, content, writable, file, cancelled, opened, victims, overlapped>>

-----------------------------------------------------------------------------
\* snapshotMatchesManifest reads the files one by one. A file that is missing or
\* differs is a mismatch; so is one that a done context refuses to read.

CanRead(r) ==
    /\ r \notin cancelled
    /\ at # NoDir
    /\ content[at][file[r]] = "good"

\* The next file verifies: go on, or finish at place.
ReadNext(r, place) ==
    /\ CanRead(r)
    /\ IF file[r] < NumFiles
       THEN file' = [file EXCEPT ![r] = @ + 1] /\ UNCHANGED pc
       ELSE file' = [file EXCEPT ![r] = 1] /\ Goto(r, place)

\* The next file does not verify: go to place.
Mismatch(r, place) ==
    /\ ~CanRead(r)
    /\ file' = [file EXCEPT ![r] = 1]
    /\ Goto(r, place)

Check(r) ==
    /\ pc[r] = "check"
    /\ ReadNext(r, "archive") \/ Mismatch(r, IF r \in cancelled THEN "cancelled" ELSE "stage")
    /\ UNCHANGED <<prior, at, content, writable, cancelled, opened, victims, overlapped>>

\* The working tree's files, verified against the manifest and copied.
PopulateSnapshot(r) == [content EXCEPT ![r] = Every("good")]

\* A staging directory is populated and made writable for its rename. When that
\* fails it is removed.
Stage(r) ==
    /\ pc[r] = "stage"
    /\ \/ /\ r \notin cancelled
          /\ content' = PopulateSnapshot(r)
          /\ writable' = [writable EXCEPT ![r] = TRUE]
          /\ Goto(r, "rename")
       \/ /\ Goto(r, IF r \in cancelled THEN "cancelled" ELSE "drifted")
          /\ UNCHANGED <<content, writable>>
    /\ UNCHANGED <<prior, at, file, cancelled, opened, victims, overlapped>>

\* os.Rename of the staging directory onto the snapshot path. It looks at the path
\* first and refuses any directory there, an empty one too; the system call that
\* follows meets what other runs did in between.
LookAtPath(r, clear, refused) ==
    /\ Goto(r, IF at = NoDir THEN clear ELSE refused)
    /\ UNCHANGED <<prior, at, content, writable, file, cancelled, opened, victims, overlapped>>

Install(r, refused) ==
    /\ IF Vacant
       THEN at' = r /\ Goto(r, "lock")
       ELSE Goto(r, refused) /\ UNCHANGED at
    /\ UNCHANGED <<prior, content, writable, file, cancelled, opened, victims, overlapped>>

RenameWithoutRecheck(r) ==
    \/ pc[r] = "rename" /\ LookAtPath(r, "install", "chmodTree")
    \/ pc[r] = "install" /\ Install(r, "chmodTree")

Rename(r) ==
    \/ pc[r] = "rename" /\ LookAtPath(r, "install", "recheck")
    \/ pc[r] = "install" /\ Install(r, "recheck")

\* A snapshot that another run installed is as good. Otherwise it is removed as
\* stale, also when the recheck failed because the context is done.
Recheck(r) ==
    /\ pc[r] = "recheck"
    /\ ReadNext(r, "archive") \/ Mismatch(r, "chmodTree")
    /\ UNCHANGED <<prior, at, content, writable, cancelled, opened, victims, overlapped>>

-----------------------------------------------------------------------------
\* forceRemoveAll: chmod the tree, then os.RemoveAll: nothing or an empty directory is
\* removed at once; otherwise open the directory, unlink the names it lists, and
\* remove the directory the path then names.

ChmodTreeSkipped(r) ==
    /\ pc[r] = "chmodTree"
    /\ Goto(r, "open")
    /\ UNCHANGED <<prior, at, content, writable, file, cancelled, opened, victims, overlapped>>

ChmodTree(r) ==
    /\ pc[r] = "chmodTree"
    /\ writable' = IF at = NoDir THEN writable ELSE [writable EXCEPT ![at] = TRUE]
    /\ Goto(r, "open")
    /\ UNCHANGED <<prior, at, content, file, cancelled, opened, victims, overlapped>>

OpenDir(r) ==
    /\ pc[r] = "open"
    /\ IF Vacant
       THEN at' = NoDir /\ Goto(r, "reinstall") /\ UNCHANGED <<opened, victims>>
       ELSE /\ opened' = [opened EXCEPT ![r] = at]
            /\ victims' = [victims EXCEPT ![r] = Present(at)]
            /\ Goto(r, "unlink")
            /\ UNCHANGED at
    /\ UNCHANGED <<prior, content, writable, file, cancelled, overlapped>>

\* A directory that was locked meanwhile keeps the file; RemoveAll goes on.
Unlink(r) ==
    /\ pc[r] = "unlink"
    /\ \E f \in victims[r] :
        /\ victims' = [victims EXCEPT ![r] = @ \ {f}]
        /\ content' = IF writable[opened[r]] THEN [content EXCEPT ![opened[r]][f] = "gone"]
                      ELSE content
    /\ UNCHANGED <<prior, at, writable, pc, file, cancelled, opened, overlapped>>

RemoveDir(r) ==
    /\ pc[r] = "unlink"
    /\ victims[r] = {}
    /\ opened' = [opened EXCEPT ![r] = NoDir]
    /\ IF Vacant
       THEN at' = NoDir /\ Goto(r, "reinstall")
       ELSE Goto(r, "failed") /\ UNCHANGED at
    /\ UNCHANGED <<prior, content, writable, file, cancelled, victims, overlapped>>

Reinstall(r) ==
    \/ pc[r] = "reinstall" /\ LookAtPath(r, "installAgain", "failed")
    \/ pc[r] = "installAgain" /\ Install(r, "failed")

-----------------------------------------------------------------------------
\* The final chmod follows the path, and fails when nothing is there.
Lock(r) ==
    /\ pc[r] = "lock"
    /\ IF at = NoDir
       THEN Goto(r, "failed") /\ UNCHANGED writable
       ELSE /\ writable' = [writable EXCEPT ![at] = FALSE]
            /\ Goto(r, "archive")
    /\ UNCHANGED <<prior, at, content, file, cancelled, opened, victims, overlapped>>

\* deterministicSourceArchive reads and verifies every file again.
Archive(r) ==
    /\ pc[r] = "archive"
    /\ ReadNext(r, "archived") \/ Mismatch(r, IF r \in cancelled THEN "cancelled" ELSE "failed")
    /\ UNCHANGED <<prior, at, content, writable, cancelled, opened, victims, overlapped>>

Next ==
    \E r \in Runs :
        \/ Start(r) \/ Cancel(r) \/ Crash(r)
        \/ Check(r) \/ Stage(r) \/ Rename(r) \/ Recheck(r)
        \/ ChmodTree(r) \/ OpenDir(r) \/ Unlink(r) \/ RemoveDir(r) \/ Reinstall(r)
        \/ Lock(r) \/ Archive(r)

Spec == Init /\ [][Next]_vars

-----------------------------------------------------------------------------
\* Properties.

SnapshotGood == at # NoDir /\ content[at] = Every("good")

\* ensureSourceSnapshot: "a concurrent run either wins the rename or converges on
\* the identical bytes". A run that was told the snapshot is there finds it
\* whole until its archive is built, and no run fails because of another.
ConcurrentRunsConverge ==
    \A r \in Runs :
        /\ pc[r] = "archive" => SnapshotGood
        /\ pc[r] # "failed"

\* The same while no context was cancelled and nothing stale was there before:
\* then no interleaving and no crash of the runs disturbs a run that goes on.
UndisturbedRunsConverge ==
    prior # "stale" /\ cancelled = {} => ConcurrentRunsConverge

\* Whatever a stale directory holds, and wherever earlier runs crashed or were
\* cancelled, half-way through a removal included, the next run that has the
\* store to itself repairs the snapshot and archives it.
LoneRunRepairs ==
    \A r \in Runs \ overlapped :
        /\ pc[r] = "archive" => SnapshotGood
        /\ pc[r] # "failed"
==============================================================================
