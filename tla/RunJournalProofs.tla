--------------------------- MODULE RunJournalProofs ---------------------------
(***************************************************************************)
(* TLAPS proofs about the journal a local run writes (RunOrchestrator):    *)
(* the shape of every entry at every place of Run, and from it that every  *)
(* durable journal is well formed, that completed work is kept, that a     *)
(* failed run dispatches nothing more, that the exit hook blames the right *)
(* node and that the settled journal accounts for every dispatch. Two more *)
(* parts are about the resolver (the journal alone explains its skips) and *)
(* about the retry and collection contract: the settled journal is the one *)
(* the fuzzer's interpreter (Prediction) computes from the outcomes.       *)
(***************************************************************************)
EXTENDS RunOrchestratorProofs

-----------------------------------------------------------------------------
\* Shapes of an entry.

Fresh(e) == e.status = "pending" /\ e.attempts = <<>>
Open(e, k) == e.status = "running" /\ e.attempts = Trail(k, "running")
Waiting(e, k) == e.status = "running" /\ e.attempts = Trail(k, "failed")
Unfinished(e) == \E k \in Nat \ {0} : Open(e, k) \/ Waiting(e, k)

\* A cancelled entry may have been waiting for a retry.
Closed(e) ==
    \E k \in Nat \ {0} :
        \/ e.status \in {"succeeded", "failed", "cancelled"} /\ e.attempts = Trail(k, e.status)
        \/ e.status = "cancelled" /\ e.attempts = Trail(k, "failed")

NotStarted(e) == e.status = "not-started" /\ e.attempts = <<>>

\* Shapes of a step or map with its items.

\* An item a successful map accepts.
Kept(step, item) ==
    Closed(item) /\ (item.status = "succeeded" \/ (step.collect /\ item.status = "failed"))

Blank(step) == Fresh(step) /\ step.items = <<>>

Inactive(step) ==
    step.status \in {"skipped", "not-started"} /\ step.attempts = <<>> /\ step.items = <<>>

Done(step) ==
    \/ step.status = "skipped" /\ Inactive(step)
    \/ /\ step.status = "succeeded" /\ Closed(step)
       /\ \A i \in DOMAIN step.items : Kept(step, step.items[i])

Running(step) ==
    /\ Unfinished(step)
    /\ \A i \in DOMAIN step.items :
         Fresh(step.items[i]) \/ Closed(step.items[i]) \/ Unfinished(step.items[i])

Stopped(step) ==
    /\ step.status \in {"failed", "cancelled"} /\ Closed(step)
    /\ \A i \in DOMAIN step.items : Closed(step.items[i]) \/ NotStarted(step.items[i])

Legal(step) == Blank(step) \/ Inactive(step) \/ Done(step) \/ Running(step) \/ Stopped(step)

-----------------------------------------------------------------------------
\* The active entry at each place.

ActiveEntry == manifest.steps[ActiveNode]

BlankPlaces == {"claim", "prerequisites", "node", "stepInput", "mapInput", "rejected"}
DonePlaces == {"nodeWrite", "successWrite", "collectWrite"}
MapOpenPlaces == MapPlaces \ {"mapInput", "collectWrite"}
RoundPlaces == {"mapInvoke", "roundWrite", "roundWait"}

BlankShape == pc \in BlankPlaces => Blank(ActiveEntry)
DoneShape == pc \in DonePlaces => Done(ActiveEntry)

StepShape ==
    /\ pc \in {"attemptWrite", "invoke", "settle", "retryWrite", "retryWait"} =>
            attempt > 0 /\ ActiveEntry.items = <<>>
    /\ pc \in {"attemptWrite", "invoke", "settle"} => Open(ActiveEntry, attempt)
    /\ pc \in {"retryWrite", "retryWait"} => Waiting(ActiveEntry, attempt)

\* An item not dispatched in this round: its earlier attempts all failed.
Idle(item, a) ==
    /\ item.status = IF a = 1 THEN "pending" ELSE "running"
    /\ item.attempts = Trail(a - 1, "failed")

\* An item right after its dispatch was reported.
Recorded(item, o, a) ==
    CASE o = "cancelled" -> item.status = "cancelled" /\ item.attempts = Trail(a, "cancelled")
      [] o = "infra" -> item.status = "failed" /\ item.attempts = Trail(a, "failed")
      [] OTHER -> Open(item, a)

Collects(step) == collected = {} \/ step.collect

InRound(step) ==
    /\ attempt > 0
    /\ pending \subseteq DOMAIN step.items
    /\ Collects(step)
    /\ \A i \in DOMAIN step.items :
        IF i \in pending THEN Idle(step.items[i], attempt) ELSE Kept(step, step.items[i])

AfterRound(step) ==
    /\ attempt > 0
    /\ DOMAIN round.outs \subseteq pending
    /\ pending \subseteq DOMAIN step.items
    /\ Collects(step)
    /\ round.err = "none" => /\ DOMAIN round.outs = pending
                             /\ \A i \in pending : round.outs[i] \notin ErrorOutcomes
    /\ \A i \in DOMAIN step.items :
        IF i \in DOMAIN round.outs THEN Recorded(step.items[i], round.outs[i], attempt)
        ELSE IF i \in pending THEN Idle(step.items[i], attempt)
        ELSE Kept(step, step.items[i])

MapShape ==
    /\ pc \in MapOpenPlaces => Open(ActiveEntry, 1)
    /\ pc \in {"mapWrite", "expand"} => ActiveEntry.items = <<>>
    /\ pc \in {"itemInputs", "itemsWrite"} =>
            \A i \in DOMAIN ActiveEntry.items : Fresh(ActiveEntry.items[i])
    /\ pc \in RoundPlaces => InRound(ActiveEntry)
    /\ pc = "mapSettle" => AfterRound(ActiveEntry)
    /\ pc = "mapDone" =>
            /\ Collects(ActiveEntry)
            /\ \A i \in DOMAIN ActiveEntry.items :
                    Closed(ActiveEntry.items[i]) /\ ActiveEntry.items[i].status # "cancelled"
    /\ pc = "collect" => \A i \in DOMAIN ActiveEntry.items : Kept(ActiveEntry, ActiveEntry.items[i])

\* A fatal failure left the entry failed, and a map one failed item.
FatalShape(step) ==
    /\ Stopped(step) /\ step.status = "failed"
    /\ step.isMap => \E i \in DOMAIN step.items :
                        step.items[i].status = "failed" /\ Closed(step.items[i])

EndShape ==
    /\ pc \in {"terminal"} \cup SettledPlaces => Legal(ActiveEntry)
    /\ pc \in SettledPlaces => ActiveEntry.status \notin {"pending", "running"}
    /\ runErr = "fatal" => FatalShape(ActiveEntry)

ShapeHere == BlankShape /\ DoneShape /\ StepShape /\ MapShape /\ EndShape

Shape == pos <= Len(NodeOrder) /\ ActiveNode \in StepIds => ShapeHere

\* The entries of the other nodes, and what never changes.

PastDone ==
    \A i \in 1..Len(NodeOrder) :
        i < pos /\ NodeOrder[i] \in StepIds => Done(manifest.steps[NodeOrder[i]])

FutureBlank ==
    \A i \in 1..Len(NodeOrder) :
        i > pos /\ NodeOrder[i] \in StepIds =>
            IF pc \in SettledPlaces THEN Inactive(manifest.steps[NodeOrder[i]])
            ELSE Blank(manifest.steps[NodeOrder[i]])

AsPlanned ==
    \A s \in StepIds :
        /\ manifest.steps[s].isMap = (Node[s].kind = "map")
        /\ manifest.steps[s].collect = Node[s].collect

JournalInv == Shape /\ PastDone /\ FutureBlank /\ AsPlanned

-----------------------------------------------------------------------------
\* What the operations on one entry do to its shape.

LEMMA StatusNames ==
    {"pending", "running", "succeeded", "failed", "cancelled", "skipped", "not-started"} = Statuses
BY DEF Statuses, Terminal

LEMMA NoTrail == Trail(0, "failed") = <<>>
BY TrailSeq, StatusNames

LEMMA FreshOpens ==
    ASSUME NEW e \in Entries, Fresh(e), NEW f, f = EntryRunning(e, 1)
    PROVE  SameRest(e, f) /\ Open(f, 1)
<1>1. e.attempts = Trail(0, "failed")
  BY NoTrail DEF Fresh
<1>2. QED
  BY <1>1, EntryRunningIs DEF Open

LEMMA IdleOpens ==
    ASSUME NEW e \in Entries, NEW a \in Nat \ {0}, Idle(e, a), NEW f, f = EntryRunning(e, a)
    PROVE  SameRest(e, f) /\ Open(f, a)
<1>1. PICK k \in Nat : k = a - 1
  OBVIOUS
<1>2. e.attempts = Trail(k, "failed") /\ a = k + 1
  BY <1>1 DEF Idle
<1>3. QED
  BY <1>2, EntryRunningIs DEF Open

LEMMA WaitingOpens ==
    ASSUME NEW e \in Entries, NEW k \in Nat \ {0}, Waiting(e, k), NEW f, f = EntryRunning(e, k + 1)
    PROVE  SameRest(e, f) /\ Open(f, k + 1)
BY EntryRunningIs DEF Open, Waiting

LEMMA OpenRetries ==
    ASSUME NEW e \in Entries, NEW k \in Nat \ {0}, Open(e, k), NEW f, f = EntryRetrying(e)
    PROVE  SameRest(e, f) /\ Waiting(f, k)
BY EntryRetryingIs DEF Open, Waiting

LEMMA OpenSucceeds ==
    ASSUME NEW e \in Entries, NEW k \in Nat \ {0}, Open(e, k), NEW f, f = EntrySucceeded(e)
    PROVE  SameRest(e, f) /\ f.status = "succeeded" /\ f.attempts = Trail(k, "succeeded") /\ Closed(f)
<1>1. SameRest(e, f) /\ f.status = "succeeded" /\ f.attempts = Trail(k, "succeeded")
  BY EntrySucceededIs DEF Open
<1>2. QED
  BY <1>1 DEF Closed

LEMMA OpenEnds ==
    ASSUME NEW e \in Entries, NEW k \in Nat \ {0}, Open(e, k) \/ Waiting(e, k),
           NEW status \in {"failed", "cancelled"}, NEW f, f = EntryTerminal(e, status)
    PROVE  SameRest(e, f) /\ f.status = status /\ f.attempts = Trail(k, status) /\ Closed(f)
<1>1. SameRest(e, f) /\ f.status = status /\ f.attempts = Trail(k, status)
  BY EntryTerminalIs DEF Open, Waiting
<1>2. QED
  BY <1>1 DEF Closed

LEMMA OpenDrops ==
    ASSUME NEW e \in Entries, NEW k \in Nat \ {0}, Open(e, k), NEW f, f = DropUndispatched(e)
    PROVE  SameRest(e, f) /\ (NotStarted(f) \/ Unfinished(f))
<1>1. /\ SameRest(e, f) /\ f.attempts = Trail(k - 1, "failed")
      /\ f.status = IF k = 1 THEN "not-started" ELSE "running"
  BY DropUndispatchedIs DEF Open
<1>2. CASE k = 1
  BY <1>1, <1>2, NoTrail DEF NotStarted
<1>3. CASE k # 1
  <2>1. PICK j \in Nat \ {0} : j = k - 1
    BY <1>3
  <2>2. Waiting(f, j)
    BY <1>1, <1>3, <2>1 DEF Waiting
  <2>3. QED
    BY <1>1, <2>2 DEF Unfinished
<1>4. QED
  BY <1>2, <1>3

LEMMA ClosedIsEnded ==
    ASSUME NEW e, Closed(e)
    PROVE  e.status \notin {"pending", "running", "not-started", "skipped"} /\ e.attempts # <<>>
<1>1. \A k \in Nat \ {0} : \A last \in Statuses : Trail(k, last) # <<>>
  BY TrailSeq
<1>2. QED
  BY <1>1, StatusNames DEF Closed

\* failMapNode and one item.
LEMMA ItemEnds ==
    ASSUME NEW e \in ItemRecs, NEW status \in {"failed", "cancelled"},
           NEW f, f = UnfinishedItemTerminal(e, status)
    PROVE  /\ f \in ItemRecs
           /\ Fresh(e) => NotStarted(f)
           /\ Unfinished(e) => Closed(f) /\ f.status = status
           /\ Closed(e) => f = e
<1>1. f \in ItemRecs
  BY UnfinishedItemTerminalIs
<1>2. Fresh(e) => NotStarted(f)
  BY UnfinishedItemTerminalIs DEF Fresh, NotStarted
<1>3. ASSUME NEW k \in Nat \ {0}, Open(e, k) PROVE Closed(f) /\ f.status = status
  <2>1. f.status = status /\ f.attempts = Trail(k, status)
    BY <1>3, UnfinishedItemTerminalIs DEF Open
  <2>2. QED
    BY <2>1 DEF Closed
<1>4. ASSUME NEW k \in Nat \ {0}, Waiting(e, k) PROVE Closed(f) /\ f.status = status
  <2>1. f.status = status /\ f.attempts = Trail(k, "failed")
    BY <1>4, UnfinishedItemTerminalIs DEF Waiting
  <2>2. QED
    BY <2>1 DEF Closed
<1>5. Closed(e) => f = e
  BY ClosedIsEnded, UnfinishedItemTerminalIs
<1>6. QED
  BY <1>1, <1>2, <1>3, <1>4, <1>5 DEF Unfinished

\* The terminalization of the run and one entry.
LEMMA EntryEnds ==
    ASSUME NEW e \in Entries, NEW status \in {"failed", "cancelled"},
           NEW f, f = TerminateEntry(e, status)
    PROVE  /\ SameRest(e, f)
           /\ Fresh(e) => NotStarted(f)
           /\ Unfinished(e) => Closed(f) /\ f.status = status
           /\ Closed(e) \/ NotStarted(e) \/ e.status = "skipped" => f = e
<1>1. SameRest(e, f)
  BY TerminateEntryIs
<1>2. Fresh(e) => NotStarted(f)
  BY TerminateEntryIs DEF Fresh, NotStarted
<1>3. ASSUME NEW k \in Nat \ {0}, Open(e, k) PROVE Closed(f) /\ f.status = status
  <2>1. f.status = status /\ f.attempts = Trail(k, status)
    BY <1>3, TerminateEntryIs DEF Open
  <2>2. QED
    BY <2>1 DEF Closed
<1>4. ASSUME NEW k \in Nat \ {0}, Waiting(e, k) PROVE Closed(f) /\ f.status = status
  <2>1. f.status = status /\ f.attempts = Trail(k, "failed")
    BY <1>4, TerminateEntryIs DEF Waiting
  <2>2. QED
    BY <2>1 DEF Closed
<1>5. Closed(e) \/ NotStarted(e) \/ e.status = "skipped" => f = e
  BY ClosedIsEnded, TerminateEntryIs DEF NotStarted
<1>6. QED
  BY <1>1, <1>2, <1>3, <1>4, <1>5 DEF Unfinished

-----------------------------------------------------------------------------
\* What the operations on a step or map do to its shape.

LEMMA IdleIs ==
    ASSUME NEW e, NEW a \in Nat \ {0}, Idle(e, a)
    PROVE  Fresh(e) \/ Unfinished(e)
<1>1. CASE a = 1
  BY <1>1, NoTrail DEF Idle, Fresh
<1>2. CASE a # 1
  <2>1. PICK j \in Nat \ {0} : j = a - 1
    BY <1>2
  <2>2. Waiting(e, j)
    BY <1>2, <2>1 DEF Idle, Waiting
  <2>3. QED
    BY <2>2 DEF Unfinished
<1>3. QED
  BY <1>1, <1>2

LEMMA RecordedIs ==
    ASSUME NEW e, NEW a \in Nat \ {0}, NEW o, Recorded(e, o, a)
    PROVE  /\ o \in ErrorOutcomes => Closed(e) \/ Open(e, a)
           /\ o \notin {"cancelled", "infra"} => Open(e, a)
           /\ Closed(e) \/ Unfinished(e)
<1>1. CASE o = "cancelled"
  <2>1. e.status = "cancelled" /\ e.attempts = Trail(a, "cancelled")
    BY <1>1 DEF Recorded
  <2>2. QED
    BY <1>1, <2>1 DEF Closed
<1>2. CASE o = "infra"
  <2>1. e.status = "failed" /\ e.attempts = Trail(a, "failed")
    BY <1>2 DEF Recorded
  <2>2. QED
    BY <1>2, <2>1 DEF Closed
<1>3. CASE o \notin {"cancelled", "infra"}
  <2>1. Open(e, a)
    BY <1>3 DEF Recorded
  <2>2. QED
    BY <2>1 DEF Unfinished
<1>4. QED
  BY <1>1, <1>2, <1>3

\* At every place the active entry is legal.
LEMMA ShapeLegal ==
    ASSUME TypeOK, ShapeHere, pc # "resultWrite"
    PROVE  Legal(ActiveEntry)
<1>0. attempt \in Nat /\ pc \in Places
  BY DEF TypeOK, RoundOK, PlaceOK
<1>1. CASE pc \in BlankPlaces
  BY <1>1 DEF ShapeHere, BlankShape, Legal
<1>2. CASE pc \in DonePlaces
  BY <1>2 DEF ShapeHere, DoneShape, Legal
<1>3. CASE pc \in {"attemptWrite", "invoke", "settle", "retryWrite", "retryWait"}
  <2>1. /\ attempt \in Nat \ {0} /\ ActiveEntry.items = <<>>
        /\ Open(ActiveEntry, attempt) \/ Waiting(ActiveEntry, attempt)
    BY <1>0, <1>3 DEF ShapeHere, StepShape
  <2>2. Unfinished(ActiveEntry)
    BY <2>1 DEF Unfinished
  <2>3. DOMAIN ActiveEntry.items = {}
    BY <2>1
  <2>4. QED
    BY <2>2, <2>3 DEF Running, Legal
<1>4. CASE pc \in MapOpenPlaces
  <2> DEFINE Any(item) == Fresh(item) \/ Closed(item) \/ Unfinished(item)
  <2>1. Open(ActiveEntry, 1) /\ 1 \in Nat \ {0}
    BY <1>4 DEF ShapeHere, MapShape
  <2>2. Unfinished(ActiveEntry)
    BY <2>1 DEF Unfinished
  <2>3. CASE pc \in {"mapWrite", "expand"}
    <3>1. DOMAIN ActiveEntry.items = {}
      BY <2>3 DEF ShapeHere, MapShape
    <3>2. QED
      BY <2>2, <3>1 DEF Running, Legal
  <2>4. CASE pc \in {"itemInputs", "itemsWrite"}
    BY <2>2, <2>4 DEF ShapeHere, MapShape, Running, Legal
  <2>5. CASE pc \in RoundPlaces
    <3>1. InRound(ActiveEntry)
      BY <2>5 DEF ShapeHere, MapShape
    <3>2. attempt \in Nat \ {0}
      BY <1>0, <3>1 DEF InRound
    <3>3. \A i \in DOMAIN ActiveEntry.items : Any(ActiveEntry.items[i])
      BY <3>1, <3>2, IdleIs DEF InRound, Kept
    <3>4. QED
      BY <2>2, <3>3 DEF Running, Legal
  <2>6. CASE pc = "mapSettle"
    <3>1. AfterRound(ActiveEntry)
      BY <2>6 DEF ShapeHere, MapShape
    <3>2. attempt \in Nat \ {0}
      BY <1>0, <3>1 DEF AfterRound
    <3>3. \A i \in DOMAIN ActiveEntry.items : Any(ActiveEntry.items[i])
      BY <3>1, <3>2, IdleIs, RecordedIs DEF AfterRound, Kept
    <3>4. QED
      BY <2>2, <3>3 DEF Running, Legal
  <2>7. CASE pc \in {"mapDone", "collect"}
    BY <2>2, <2>7 DEF ShapeHere, MapShape, Running, Legal, Kept
  <2>8. QED
    BY <1>4, <2>3, <2>4, <2>5, <2>6, <2>7 DEF MapOpenPlaces, MapPlaces, RoundPlaces
<1>5. CASE pc \in {"terminal"} \cup SettledPlaces
  BY <1>5 DEF ShapeHere, EndShape
<1>6. QED
  BY <1>0, <1>1, <1>2, <1>3, <1>4, <1>5 DEF Places, OpenPlaces, StepPlaces, MapPlaces,
     MapOpenPlaces, BlankPlaces, DonePlaces

\* Manifest.Terminate and one step or map.
LEMMA StepEnds ==
    ASSUME NEW e \in StepRecs, NEW status \in {"failed", "cancelled"}, NEW f \in StepRecs,
           f.status = TerminateEntry(e, status).status,
           f.attempts = TerminateEntry(e, status).attempts,
           f.isMap = e.isMap, f.collect = e.collect,
           DOMAIN f.items = DOMAIN e.items,
           \A i \in DOMAIN e.items : f.items[i] = TerminateEntry(e.items[i], status)
    PROVE  /\ Blank(e) => Inactive(f)
           /\ Inactive(e) => Inactive(f)
           /\ Done(e) => Done(f)
           /\ Running(e) \/ Stopped(e) => Stopped(f)
           /\ FatalShape(e) => FatalShape(f)
<1> DEFINE t == TerminateEntry(e, status)
<1>1. /\ e \in Entries /\ e.items \in Seq(ItemRecs) /\ f.items \in Seq(ItemRecs)
      /\ \A i \in DOMAIN e.items : e.items[i] \in ItemRecs /\ e.items[i] \in Entries
  BY LenProperties DEF Entries, StepRecs
<1>2. /\ Fresh(e) => NotStarted(t)
      /\ Unfinished(e) => Closed(t) /\ t.status = status
      /\ Closed(e) \/ NotStarted(e) \/ e.status = "skipped" => t = e
  BY <1>1, EntryEnds
<1> HIDE DEF t
<1>3. /\ f.status = t.status /\ f.attempts = t.attempts
      /\ NotStarted(t) => NotStarted(f)
      /\ Closed(t) => Closed(f)
  BY DEF t, NotStarted, Closed
<1>4. e.items = <<>> => f.items = <<>>
  <2>1. Len(f.items) \in Nat /\ DOMAIN f.items = 1..Len(f.items)
    BY <1>1, LenProperties
  <2>2. e.items = <<>> => DOMAIN f.items = {}
    OBVIOUS
  <2>3. QED
    BY <1>1, <2>1, <2>2, EmptySeq
<1>5. \A i \in DOMAIN e.items :
        /\ Fresh(e.items[i]) => NotStarted(f.items[i])
        /\ Unfinished(e.items[i]) => Closed(f.items[i])
        /\ Closed(e.items[i]) \/ NotStarted(e.items[i]) => f.items[i] = e.items[i]
  BY <1>1, EntryEnds
<1>6. Blank(e) => Inactive(f)
  BY <1>2, <1>3, <1>4 DEF Blank, Inactive, NotStarted
<1>7. Inactive(e) => Inactive(f)
  BY <1>2, <1>3, <1>4 DEF Inactive, NotStarted
<1>8. Done(e) => Done(f)
  <2>1. CASE e.status = "skipped" /\ Inactive(e)
    BY <1>2, <1>3, <1>4, <2>1 DEF Inactive, Done
  <2>2. CASE /\ e.status = "succeeded" /\ Closed(e)
             /\ \A i \in DOMAIN e.items : Kept(e, e.items[i])
    <3>1. f.status = "succeeded" /\ Closed(f)
      BY <1>2, <1>3, <2>2
    <3>2. \A i \in DOMAIN f.items : Kept(f, f.items[i])
      BY <1>5, <2>2 DEF Kept
    <3>3. QED
      BY <3>1, <3>2 DEF Done
  <2>3. QED
    BY <2>1, <2>2 DEF Done
<1>9. Running(e) \/ Stopped(e) => Stopped(f)
  BY <1>2, <1>3, <1>5 DEF Running, Stopped
<1>10. FatalShape(e) => FatalShape(f)
  <2>1. SUFFICES ASSUME FatalShape(e) PROVE FatalShape(f)
    OBVIOUS
  <2>2. Stopped(f) /\ f.status = "failed"
    BY <1>2, <1>3, <1>9, <2>1 DEF FatalShape, Stopped
  <2>3. e.isMap => \E i \in DOMAIN f.items : f.items[i].status = "failed" /\ Closed(f.items[i])
    BY <1>5, <2>1 DEF FatalShape
  <2>4. QED
    BY <2>2, <2>3 DEF FatalShape
<1>11. QED
  BY <1>6, <1>7, <1>8, <1>9, <1>10

\* failMapNode and the map.
LEMMA MapEnds ==
    ASSUME NEW m \in Manifests, NEW s \in StepIds, NEW status \in {"failed", "cancelled"},
           Running(m.steps[s]), Open(m.steps[s], 1),
           NEW m2, m2 = FailMapNode(m, s, status)
    PROVE  LET e == m2.steps[s] IN
           /\ Stopped(e) /\ e.status = status
           /\ e.isMap = m.steps[s].isMap /\ e.collect = m.steps[s].collect
           /\ DOMAIN e.items = DOMAIN m.steps[s].items
           /\ \A i \in DOMAIN e.items :
                Closed(m.steps[s].items[i]) => e.items[i] = m.steps[s].items[i]
<1> DEFINE e == m2.steps[s]
           old == m.steps[s]
<1>1. /\ e.isMap = old.isMap /\ e.collect = old.collect
      /\ e.status = status
      /\ old.attempts = Trail(1, "running") => e.attempts = Trail(1, status)
      /\ DOMAIN e.items = DOMAIN old.items
      /\ \A i \in DOMAIN old.items : e.items[i] = UnfinishedItemTerminal(old.items[i], status)
  BY FailMapNodeIs
<1>2. \A i \in DOMAIN old.items : old.items[i] \in ItemRecs
  BY StepEntry
<1> HIDE DEF e, old
<1>3. Closed(e)
  BY <1>1 DEF Open, Closed, old
<1>4. \A i \in DOMAIN old.items :
        /\ Closed(e.items[i]) \/ NotStarted(e.items[i])
        /\ Closed(old.items[i]) => e.items[i] = old.items[i]
  <2>1. \A i \in DOMAIN old.items :
          Fresh(old.items[i]) \/ Closed(old.items[i]) \/ Unfinished(old.items[i])
    BY DEF Running, old
  <2>2. QED
    BY <1>1, <1>2, <2>1, ItemEnds
<1>5. Stopped(e)
  BY <1>1, <1>3, <1>4 DEF Stopped
<1>6. QED
  BY <1>1, <1>4, <1>5 DEF e, old

-----------------------------------------------------------------------------
\* Arriving at a place with the shape the place asks for.

LEMMA ArriveBlank ==
    ASSUME TypeOK', pc' \in BlankPlaces, Blank(ActiveEntry')
    PROVE  ShapeHere'
<1>1. runErr' = "fatal" => pc' \in {"terminal"} \cup SettledPlaces
  BY DEF TypeOK, PlaceOK
<1>2. QED
  BY <1>1 DEF ShapeHere, BlankShape, DoneShape, StepShape, MapShape, EndShape, BlankPlaces, DonePlaces,
   MapOpenPlaces, MapPlaces, RoundPlaces, SettledPlaces

LEMMA ArriveDone ==
    ASSUME TypeOK', pc' \in DonePlaces, Done(ActiveEntry')
    PROVE  ShapeHere'
<1>1. runErr' = "fatal" => pc' \in {"terminal"} \cup SettledPlaces
  BY DEF TypeOK, PlaceOK
<1>2. QED
  BY <1>1 DEF ShapeHere, BlankShape, DoneShape, StepShape, MapShape, EndShape, BlankPlaces, DonePlaces,
   MapOpenPlaces, MapPlaces, RoundPlaces, SettledPlaces

LEMMA ArriveOpen ==
    ASSUME TypeOK', pc' \in {"attemptWrite", "invoke", "settle"},
           attempt' > 0, ActiveEntry'.items = <<>>, Open(ActiveEntry', attempt')
    PROVE  ShapeHere'
<1>1. runErr' = "fatal" => pc' \in {"terminal"} \cup SettledPlaces
  BY DEF TypeOK, PlaceOK
<1>2. QED
  BY <1>1 DEF ShapeHere, BlankShape, DoneShape, StepShape, MapShape, EndShape, BlankPlaces, DonePlaces,
   MapOpenPlaces, MapPlaces, RoundPlaces, SettledPlaces

LEMMA ArriveWaiting ==
    ASSUME TypeOK', pc' \in {"retryWrite", "retryWait"},
           attempt' > 0, ActiveEntry'.items = <<>>, Waiting(ActiveEntry', attempt')
    PROVE  ShapeHere'
<1>1. runErr' = "fatal" => pc' \in {"terminal"} \cup SettledPlaces
  BY DEF TypeOK, PlaceOK
<1>2. QED
  BY <1>1 DEF ShapeHere, BlankShape, DoneShape, StepShape, MapShape, EndShape, BlankPlaces, DonePlaces,
   MapOpenPlaces, MapPlaces, RoundPlaces, SettledPlaces

LEMMA ArriveMap ==
    ASSUME TypeOK', pc' \in MapOpenPlaces, MapShape'
    PROVE  ShapeHere'
<1>1. runErr' = "fatal" => pc' \in {"terminal"} \cup SettledPlaces
  BY DEF TypeOK, PlaceOK
<1>2. QED
  BY <1>1 DEF ShapeHere, BlankShape, DoneShape, StepShape, MapShape, EndShape, BlankPlaces, DonePlaces,
   MapOpenPlaces, MapPlaces, RoundPlaces, SettledPlaces

LEMMA ArriveEnd ==
    ASSUME TypeOK', pc' = "terminal", Legal(ActiveEntry'),
           runErr' = "fatal" => FatalShape(ActiveEntry')
    PROVE  ShapeHere'
<1>1. runErr' = "fatal" => pc' \in {"terminal"} \cup SettledPlaces
  BY DEF TypeOK, PlaceOK
<1>2. QED
  BY <1>1 DEF ShapeHere, BlankShape, DoneShape, StepShape, MapShape, EndShape, BlankPlaces, DonePlaces,
   MapOpenPlaces, MapPlaces, RoundPlaces, SettledPlaces

LEMMA ArriveSettled ==
    ASSUME TypeOK', pc' \in SettledPlaces, Legal(ActiveEntry'),
           ActiveEntry'.status \notin {"pending", "running"},
           runErr' = "fatal" => FatalShape(ActiveEntry')
    PROVE  ShapeHere'
<1>1. runErr' = "fatal" => pc' \in {"terminal"} \cup SettledPlaces
  BY DEF TypeOK, PlaceOK
<1>2. QED
  BY <1>1 DEF ShapeHere, BlankShape, DoneShape, StepShape, MapShape, EndShape, BlankPlaces, DonePlaces,
   MapOpenPlaces, MapPlaces, RoundPlaces, SettledPlaces

\* A step that changes nothing the shape looks at.
LEMMA ShapeStays ==
    ASSUME Shape, UNCHANGED <<pc, pos, attempt, pending, round, collected, runErr, manifest>>
    PROVE  Shape'
<1>1. ActiveEntry' = ActiveEntry /\ ActiveNode' = ActiveNode
  BY DEF ActiveEntry, ActiveNode
<1>2. InRound(ActiveEntry)' = InRound(ActiveEntry) /\ AfterRound(ActiveEntry)' = AfterRound(ActiveEntry)
  BY <1>1 DEF InRound, AfterRound, Collects
<1>3. QED
  BY <1>1, <1>2 DEF Shape, ShapeHere, BlankShape, DoneShape, StepShape, MapShape, EndShape, Collects

\* Run fails without touching the journal.
LEMMA ShapeStops ==
    ASSUME TypeOK, TypeOK', Shape, UNCHANGED <<pos, manifest>>, pc' = "terminal", runErr' # "fatal",
           pc # "resultWrite"
    PROVE  Shape'
<1>1. ActiveEntry' = ActiveEntry /\ ActiveNode' = ActiveNode
  BY DEF ActiveEntry, ActiveNode
<1>2. ShapeHere => Legal(ActiveEntry)
  BY ShapeLegal
<1>3. ShapeHere => ShapeHere'
  BY <1>1, <1>2, ArriveEnd
<1>4. QED
  BY <1>1, <1>3 DEF Shape

-----------------------------------------------------------------------------
\* The shape of the active entry is kept by every action.

\* Before a node's handler has touched its entry.
LEMMA ShapeQuiet ==
    ASSUME TypeOK, TypeOK', Shape, RefuseRun \/ Claim \/ Prerequisites \/ EnterNode \/ StopAtNode
    PROVE  Shape'
<1>1. /\ UNCHANGED <<pos, manifest>> /\ pc \in BlankPlaces
      /\ pc' \in BlankPlaces \/ (pc' = "terminal" /\ runErr' # "fatal")
  BY DEF RefuseRun, Claim, Prerequisites, EnterNode, StopAtNode, Goto, Fail, Persist, Charge,
     ErrorFor, Active, AtNode, BlankPlaces
<1>2. CASE pc' \in BlankPlaces
  <2>1. ActiveEntry' = ActiveEntry /\ ActiveNode' = ActiveNode
    BY <1>1 DEF ActiveEntry, ActiveNode
  <2>2. ShapeHere => Blank(ActiveEntry')
    BY <1>1, <2>1 DEF ShapeHere, BlankShape
  <2>3. QED
    BY <1>1, <1>2, <2>1, <2>2, ArriveBlank DEF Shape
<1>3. CASE pc' = "terminal" /\ runErr' # "fatal"
  BY <1>1, <1>3, ShapeStops DEF BlankPlaces
<1>4. QED
  BY <1>1, <1>2, <1>3

\* The loop moves on to an entry that nobody has touched.
LEMMA ShapeNext ==
    ASSUME TypeOK, TypeOK', Shape, FutureBlank,
           NodeWrite \/ SelectNode \/ SuccessWrite \/ CollectWrite
    PROVE  Shape'
<1>0. invokeErr \in {"none", "ctx", "infra"} /\ pos \in 1..(Len(NodeOrder) + 1)
  BY DEF TypeOK, RoundOK, PlaceOK
<1>1. /\ UNCHANGED manifest /\ pc \notin SettledPlaces /\ pc # "resultWrite"
      /\ \/ pc' = "node" /\ pos' = pos + 1
         \/ pc' = "terminal" /\ runErr' # "fatal" /\ UNCHANGED pos
  BY <1>0 DEF NodeWrite, SelectNode, SuccessWrite, CollectWrite, Goto, Fail, Persist, Charge,
     ErrorFor, NextNode, Active, AtNode, InvokeError, SettledPlaces
<1>2. CASE pc' = "node" /\ pos' = pos + 1
  <2>1. SUFFICES ASSUME pos' <= Len(NodeOrder), ActiveNode' \in StepIds PROVE ShapeHere'
    BY DEF Shape
  <2>2. pos + 1 \in 1..Len(NodeOrder) /\ NodeOrder[pos + 1] \in StepIds
    BY <1>0, <1>2, <2>1, PlanFacts DEF ActiveNode
  <2>3. Blank(manifest.steps[NodeOrder[pos + 1]])
    BY <1>0, <1>1, <2>2 DEF FutureBlank
  <2>4. ActiveEntry' = manifest.steps[NodeOrder[pos + 1]]
    BY <1>1, <1>2 DEF ActiveEntry, ActiveNode
  <2>5. QED
    BY <1>2, <2>3, <2>4, ArriveBlank DEF BlankPlaces
<1>3. CASE pc' = "terminal" /\ runErr' # "fatal" /\ UNCHANGED pos
  BY <1>1, <1>3, ShapeStops
<1>4. QED
  BY <1>1, <1>2, <1>3

\* Journal writes within a node.
LEMMA ShapeWrites ==
    ASSUME TypeOK, TypeOK', Shape, AttemptWrite \/ RetryWrite \/ MapWrite \/ RoundWrite
    PROVE  Shape'
<1>1. /\ UNCHANGED <<pos, manifest, attempt, pending, round, collected>>
      /\ \/ pc' = "terminal" /\ runErr' # "fatal"
         \/ pc = "attemptWrite" /\ pc' = "invoke"
         \/ pc = "retryWrite" /\ pc' = "retryWait"
         \/ pc = "mapWrite" /\ pc' = "expand"
         \/ pc = "roundWrite" /\ pc' = "roundWait"
      /\ pc # "resultWrite"
  BY DEF AttemptWrite, RetryWrite, MapWrite, RoundWrite, Goto, Fail, Persist, Charge, ErrorFor
<1>2. ActiveEntry' = ActiveEntry /\ ActiveNode' = ActiveNode
  BY <1>1 DEF ActiveEntry, ActiveNode
<1>3. CASE pc' = "terminal" /\ runErr' # "fatal"
  BY <1>1, <1>3, ShapeStops
<1>4. ASSUME pc = "attemptWrite" /\ pc' = "invoke", ShapeHere PROVE ShapeHere'
  BY <1>1, <1>2, <1>4, ArriveOpen DEF ShapeHere, StepShape
<1>5. ASSUME pc = "retryWrite" /\ pc' = "retryWait", ShapeHere PROVE ShapeHere'
  BY <1>1, <1>2, <1>5, ArriveWaiting DEF ShapeHere, StepShape
<1>6. ASSUME pc = "mapWrite" /\ pc' = "expand", ShapeHere PROVE ShapeHere'
  <2>1. MapShape'
    BY <1>1, <1>2, <1>6 DEF ShapeHere, MapShape, MapOpenPlaces, MapPlaces, RoundPlaces
  <2>2. QED
    BY <1>6, <2>1, ArriveMap DEF MapOpenPlaces, MapPlaces
<1>7. ASSUME pc = "roundWrite" /\ pc' = "roundWait", ShapeHere PROVE ShapeHere'
  <2>1. InRound(ActiveEntry)' = InRound(ActiveEntry)
    BY <1>1, <1>2 DEF InRound, Collects
  <2>2. MapShape'
    BY <1>1, <1>2, <1>7, <2>1 DEF ShapeHere, MapShape, MapOpenPlaces, MapPlaces, RoundPlaces
  <2>3. QED
    BY <1>7, <2>2, ArriveMap DEF MapOpenPlaces, MapPlaces
<1>8. QED
  BY <1>1, <1>2, <1>3, <1>4, <1>5, <1>6, <1>7 DEF Shape

\* After the last node, and once the journal is terminal.
LEMMA ShapeEnd ==
    ASSUME TypeOK, TypeOK', Control, Shape,
           Result \/ ResultWrite \/ TerminalWrite \/ ExitHook \/ HookWrite
    PROVE  Shape'
<1>1. UNCHANGED pos /\ ActiveNode' = ActiveNode
  BY DEF Result, ResultWrite, TerminalWrite, ExitHook, HookWrite, ActiveNode
<1>2. CASE Result \/ ResultWrite
  <2>1. pos = Len(NodeOrder) + 1
    BY <1>2 DEF Result, ResultWrite, Control, ResultPending
  <2>2. QED
    BY <1>1, <2>1, PlanFacts DEF Shape
<1>3. CASE TerminalWrite \/ ExitHook \/ HookWrite
  <2>1. pc \in SettledPlaces /\ pc' \in SettledPlaces /\ UNCHANGED runErr
    BY <1>3 DEF TerminalWrite, ExitHook, HookWrite, Goto, SettledPlaces
  <2>2. manifest'.steps = manifest.steps
    <3>1. CASE ExitHook
      BY <3>1, ExitHookIs
    <3>2. CASE TerminalWrite \/ HookWrite
      BY <3>2 DEF TerminalWrite, HookWrite
    <3>3. QED
      BY <1>3, <3>1, <3>2
  <2>3. ActiveEntry' = ActiveEntry
    BY <1>1, <2>2 DEF ActiveEntry, ActiveNode
  <2>4. ShapeHere => ShapeHere'
    BY <2>1, <2>3, ArriveSettled DEF ShapeHere, EndShape
  <2>5. QED
    BY <1>1, <2>4 DEF Shape
<1>4. QED
  BY <1>2, <1>3

\* The deferred terminalization.
LEMMA ShapeTerminate ==
    ASSUME TypeOK, TypeOK', Shape, TerminateRun
    PROVE  Shape'
<1>1. UNCHANGED <<pos, runErr>> /\ pc = "terminal" /\ pc' = "terminalWrite"
  BY DEF TerminateRun, Goto
<1>2. SUFFICES ASSUME ShapeHere, ActiveNode \in StepIds PROVE ShapeHere'
  BY <1>1 DEF Shape, ActiveNode
<1>3. ActiveEntry' = manifest'.steps[ActiveNode]
  BY <1>1 DEF ActiveEntry, ActiveNode
<1>4. manifest \in Manifests /\ manifest' \in Manifests
  BY DEF TypeOK, JournalsOK
<1>5. ActiveEntry \in StepRecs /\ ActiveEntry' \in StepRecs
  BY <1>2, <1>3, <1>4, StepEntry DEF ActiveEntry
<1>6. /\ Blank(ActiveEntry) => Inactive(ActiveEntry')
      /\ Inactive(ActiveEntry) => Inactive(ActiveEntry')
      /\ Done(ActiveEntry) => Done(ActiveEntry')
      /\ Running(ActiveEntry) \/ Stopped(ActiveEntry) => Stopped(ActiveEntry')
      /\ FatalShape(ActiveEntry) => FatalShape(ActiveEntry')
  <2>1. TerminalStatus \in {"failed", "cancelled"}
    BY TerminateRunIs
  <2>2. LET e == ActiveEntry' IN
        /\ e.status = TerminateEntry(ActiveEntry, TerminalStatus).status
        /\ e.attempts = TerminateEntry(ActiveEntry, TerminalStatus).attempts
        /\ e.isMap = ActiveEntry.isMap /\ e.collect = ActiveEntry.collect
        /\ DOMAIN e.items = DOMAIN ActiveEntry.items
        /\ \A i \in DOMAIN ActiveEntry.items :
                e.items[i] = TerminateEntry(ActiveEntry.items[i], TerminalStatus)
    BY <1>2, <1>3, TerminateRunIs DEF ActiveEntry
  <2>3. QED
    BY <1>5, <2>1, <2>2, StepEnds
<1>7. Legal(ActiveEntry') /\ ActiveEntry'.status \notin {"pending", "running"}
  BY <1>1, <1>2, <1>6 DEF ShapeHere, EndShape, Legal, Inactive, Done, Stopped
<1>8. runErr' = "fatal" => FatalShape(ActiveEntry')
  BY <1>1, <1>2, <1>6 DEF ShapeHere, EndShape
<1>9. QED
  BY <1>1, <1>7, <1>8, ArriveSettled DEF SettledPlaces

\* Skips and decisions.
LEMMA ShapeSkip ==
    ASSUME TypeOK, TypeOK', Shape, SkipNode \/ DecideNode
    PROVE  Shape'
<1>1. UNCHANGED pos /\ ActiveNode' = ActiveNode /\ pc = "node"
  BY DEF SkipNode, DecideNode, Active, AtNode, ActiveNode
<1>2. SUFFICES ASSUME ShapeHere, ActiveNode \in StepIds PROVE ShapeHere'
  BY <1>1 DEF Shape
<1>3. SkipNode
  BY <1>2 DEF DecideNode, Active, StepIds
<1>4. pc' = "nodeWrite" /\ manifest' = MarkStepSkipped(manifest, ActiveNode)
  BY <1>2, <1>3 DEF SkipNode, Goto, StepIds
<1>5. manifest \in Manifests
  BY DEF TypeOK, JournalsOK
<1>6. Blank(ActiveEntry)
  BY <1>1, <1>2 DEF ShapeHere, BlankShape, BlankPlaces
<1>7. LET e == manifest'.steps[ActiveNode] IN
      /\ SameRest(ActiveEntry, e)
      /\ e.status = "skipped" /\ e.attempts = ActiveEntry.attempts
  BY <1>2, <1>4, <1>5, MarkSkippedIs DEF ActiveEntry
<1>8. ActiveEntry' = manifest'.steps[ActiveNode]
  BY <1>1 DEF ActiveEntry, ActiveNode
<1>9. ActiveEntry \in StepRecs
  BY <1>2, <1>5, StepEntry DEF ActiveEntry
<1>10. Done(ActiveEntry')
  BY <1>6, <1>7, <1>8, <1>9 DEF Done, Inactive, Blank, Fresh, SameRest
<1>11. QED
  BY <1>4, <1>10, ArriveDone DEF DonePlaces

\* The first attempt of a step and of a map's collection.
LEMMA ShapeStart ==
    ASSUME TypeOK, TypeOK', Shape, StepInput \/ MapInput
    PROVE  Shape'
<1>1. /\ UNCHANGED pos /\ ActiveNode' = ActiveNode /\ pc \in {"stepInput", "mapInput"}
      /\ \/ pc' = "terminal" /\ runErr' # "fatal" /\ UNCHANGED manifest
         \/ /\ manifest' = MarkAttemptRunning(manifest, ActiveNode, 1)
            /\ \/ pc' = "attemptWrite" /\ attempt' = 1
               \/ pc' = "mapWrite"
  BY DEF StepInput, MapInput, Goto, Fail, Charge, ErrorFor, ActiveNode
<1>2. CASE pc' = "terminal" /\ runErr' # "fatal" /\ UNCHANGED manifest
  BY <1>1, <1>2, ShapeStops
<1>3. CASE /\ manifest' = MarkAttemptRunning(manifest, ActiveNode, 1)
           /\ \/ pc' = "attemptWrite" /\ attempt' = 1
              \/ pc' = "mapWrite"
  <2>1. SUFFICES ASSUME ShapeHere PROVE ShapeHere'
    BY <1>1 DEF Shape
  <2>2. ActiveNode \in StepIds /\ manifest \in Manifests
    BY <1>1, PlaceKept DEF StepPlaces, MapPlaces
  <2>3. ActiveEntry \in StepRecs /\ ActiveEntry \in Entries
    BY <2>2, StepEntry DEF ActiveEntry
  <2>4. Blank(ActiveEntry)
    BY <1>1, <2>1 DEF ShapeHere, BlankShape, BlankPlaces
  <2>5. ActiveEntry' = EntryRunning(ActiveEntry, 1)
    <3>1. manifest'.steps[ActiveNode] = EntryRunning(manifest.steps[ActiveNode], 1)
      BY <1>3, <2>2, MarkRunningIs
    <3>2. QED
      BY <1>1, <3>1 DEF ActiveEntry, ActiveNode
  <2>6. SameRest(ActiveEntry, ActiveEntry') /\ Open(ActiveEntry', 1)
    BY <2>3, <2>4, <2>5, FreshOpens DEF Blank
  <2>7. ActiveEntry'.items = <<>>
    BY <2>3, <2>4, <2>6 DEF SameRest, Blank
  <2>8. CASE pc' = "attemptWrite" /\ attempt' = 1
    BY <2>6, <2>7, <2>8, ArriveOpen
  <2>9. CASE pc' = "mapWrite"
    <3>1. MapShape'
      BY <2>6, <2>7, <2>9 DEF MapShape, MapOpenPlaces, MapPlaces, RoundPlaces
    <3>2. QED
      BY <2>9, <3>1, ArriveMap DEF MapOpenPlaces, MapPlaces
  <2>10. QED
    BY <1>3, <2>8, <2>9
<1>4. QED
  BY <1>1, <1>2, <1>3

\* The wait before a retry.
LEMMA ShapeRetry ==
    ASSUME TypeOK, TypeOK', Shape, RetryWait
    PROVE  Shape'
<1>1. /\ UNCHANGED pos /\ ActiveNode' = ActiveNode /\ pc = "retryWait"
      /\ \/ pc' = "terminal" /\ runErr' # "fatal" /\ UNCHANGED manifest
         \/ /\ manifest' = MarkAttemptRunning(manifest, ActiveNode, attempt + 1)
            /\ pc' = "attemptWrite" /\ attempt' = attempt + 1
  BY DEF RetryWait, Goto, Fail, ActiveNode
<1>2. CASE pc' = "terminal" /\ runErr' # "fatal" /\ UNCHANGED manifest
  BY <1>1, <1>2, ShapeStops
<1>3. CASE /\ manifest' = MarkAttemptRunning(manifest, ActiveNode, attempt + 1)
           /\ pc' = "attemptWrite" /\ attempt' = attempt + 1
  <2>1. SUFFICES ASSUME ShapeHere PROVE ShapeHere'
    BY <1>1 DEF Shape
  <2>2. ActiveNode \in StepIds /\ manifest \in Manifests
    BY <1>1, PlaceKept DEF StepPlaces
  <2>3. ActiveEntry \in StepRecs /\ ActiveEntry \in Entries
    BY <2>2, StepEntry DEF ActiveEntry
  <2>4. attempt \in Nat \ {0} /\ ActiveEntry.items = <<>> /\ Waiting(ActiveEntry, attempt)
    BY <1>1, <2>1 DEF ShapeHere, StepShape, TypeOK, RoundOK
  <2>5. ActiveEntry' = EntryRunning(ActiveEntry, attempt + 1)
    <3>1. PICK n \in Nat : n = attempt + 1
      BY <2>4
    <3>2. manifest'.steps[ActiveNode] = EntryRunning(manifest.steps[ActiveNode], n)
      BY <1>3, <2>2, <3>1, MarkRunningIs
    <3>3. QED
      BY <1>1, <3>1, <3>2 DEF ActiveEntry, ActiveNode
  <2>6. SameRest(ActiveEntry, ActiveEntry') /\ Open(ActiveEntry', attempt + 1)
    BY <2>3, <2>4, <2>5, WaitingOpens
  <2>7. ActiveEntry'.items = <<>>
    BY <2>3, <2>4, <2>6 DEF SameRest
  <2>8. QED
    BY <1>3, <2>4, <2>6, <2>7, ArriveOpen
<1>4. QED
  BY <1>1, <1>2, <1>3

LEMMA StoppedStep ==
    ASSUME NEW e \in StepRecs, NEW k \in Nat \ {0}, Open(e, k), e.items = <<>>,
           NEW status \in {"failed", "cancelled"}, NEW f, f = EntryTerminal(e, status)
    PROVE  Stopped(f) /\ f.status = status /\ f.items = <<>> /\ f.isMap = e.isMap
<1>1. e \in Entries
  BY DEF Entries
<1>2. SameRest(e, f) /\ f.status = status /\ Closed(f)
  BY <1>1, OpenEnds
<1>3. f.items = <<>> /\ f.isMap = e.isMap /\ DOMAIN f.items = {}
  BY <1>2 DEF SameRest
<1>4. QED
  BY <1>2, <1>3 DEF Stopped

LEMMA ShapeInvoke ==
    ASSUME TypeOK, TypeOK', Shape, AsPlanned, InvokeStep
    PROVE  Shape'
<1>1. pc = "invoke" /\ UNCHANGED <<pos, attempt>> /\ ActiveNode' = ActiveNode
  BY InvokeStepIs DEF ActiveNode
<1>2. SUFFICES ASSUME ShapeHere PROVE ShapeHere'
  BY <1>1 DEF Shape
<1>3. ActiveNode \in StepIds /\ manifest \in Manifests /\ Node[ActiveNode].kind = "step"
  BY <1>1, PlaceKept DEF StepPlaces, TypeOK, PlaceOK
<1>4. ActiveEntry \in StepRecs /\ ActiveEntry \in Entries
  BY <1>3, StepEntry DEF ActiveEntry
<1>5. attempt \in Nat \ {0} /\ ActiveEntry.items = <<>> /\ Open(ActiveEntry, attempt)
  BY <1>1, <1>2 DEF ShapeHere, StepShape, TypeOK, RoundOK
<1>6. ~ActiveEntry.isMap
  BY <1>3 DEF AsPlanned, ActiveEntry
<1>7. ActiveEntry' = manifest'.steps[ActiveNode]
  BY <1>1 DEF ActiveEntry, ActiveNode
<1>8. CASE /\ manifest' = MarkUndispatched(manifest, ActiveNode)
           /\ pc' = "terminal" /\ runErr' \in {"ctx", "other"}
  <2>1. ActiveEntry' = DropUndispatched(ActiveEntry)
    BY <1>3, <1>7, <1>8, DropIs DEF ActiveEntry
  <2>2. SameRest(ActiveEntry, ActiveEntry') /\ (NotStarted(ActiveEntry') \/ Unfinished(ActiveEntry'))
    BY <1>4, <1>5, <2>1, OpenDrops
  <2>3. ActiveEntry'.items = <<>>
    BY <1>4, <1>5, <2>2 DEF SameRest
  <2>4. Legal(ActiveEntry')
    <3>1. DOMAIN ActiveEntry'.items = {}
      BY <2>3
    <3>2. CASE NotStarted(ActiveEntry')
      BY <2>3, <3>2 DEF NotStarted, Inactive, Legal
    <3>3. CASE Unfinished(ActiveEntry')
      BY <3>1, <3>3 DEF Running, Legal
    <3>4. QED
      BY <2>2, <3>2, <3>3
  <2>5. QED
    BY <1>8, <2>4, ArriveEnd
<1>9. ASSUME pc' = "settle", UNCHANGED <<manifest, runErr>> PROVE ShapeHere'
  <2>1. ActiveEntry' = ActiveEntry
    BY <1>7, <1>9 DEF ActiveEntry
  <2>2. QED
    BY <1>1, <1>5, <1>9, <2>1, ArriveOpen
<1>10. ASSUME pc' = "retryWrite", manifest' = MarkAttemptRetrying(manifest, ActiveNode)
       PROVE  ShapeHere'
  <2>1. ActiveEntry' = EntryRetrying(ActiveEntry)
    BY <1>3, <1>7, <1>10, MarkRetryingIs DEF ActiveEntry
  <2>2. SameRest(ActiveEntry, ActiveEntry') /\ Waiting(ActiveEntry', attempt)
    BY <1>4, <1>5, <2>1, OpenRetries
  <2>3. ActiveEntry'.items = <<>>
    BY <1>4, <1>5, <2>2 DEF SameRest
  <2>4. QED
    BY <1>1, <1>5, <1>10, <2>2, <2>3, ArriveWaiting
<1>11. ASSUME NEW o, pc' = "terminal", runErr' = "fatal" <=> o = "fatal",
              manifest' = MarkAttemptTerminal(manifest, ActiveNode, RecordedStatus(o))
       PROVE  ShapeHere'
  <2>1. PICK status \in {"failed", "cancelled"} :
            status = RecordedStatus(o) /\ (o = "fatal" => status = "failed")
    BY DEF RecordedStatus
  <2>2. ActiveEntry' = EntryTerminal(ActiveEntry, status)
    BY <1>3, <1>7, <1>11, <2>1, MarkTerminalIs DEF ActiveEntry
  <2>3. Stopped(ActiveEntry') /\ ActiveEntry'.status = status /\ ActiveEntry'.isMap = ActiveEntry.isMap
    BY <1>4, <1>5, <2>2, StoppedStep
  <2>4. runErr' = "fatal" => FatalShape(ActiveEntry')
    BY <1>6, <1>11, <2>1, <2>3 DEF FatalShape
  <2>5. QED
    BY <1>11, <2>3, <2>4, ArriveEnd DEF Legal
<1>12. QED
  BY <1>8, <1>9, <1>10, <1>11, InvokeStepIs

LEMMA ShapeSettle ==
    ASSUME TypeOK, TypeOK', Shape, Settle
    PROVE  Shape'
<1>1. /\ pc = "settle" /\ UNCHANGED <<pos, attempt>> /\ ActiveNode' = ActiveNode
      /\ \/ manifest' = MarkAttemptSucceeded(manifest, ActiveNode) /\ pc' = "successWrite"
         \/ /\ manifest' = MarkAttemptTerminal(manifest, ActiveNode, "failed")
            /\ pc' = "terminal" /\ runErr' = "other"
  BY DEF Settle, Goto, Fail, ActiveNode
<1>2. SUFFICES ASSUME ShapeHere PROVE ShapeHere'
  BY <1>1 DEF Shape
<1>3. ActiveNode \in StepIds /\ manifest \in Manifests
  BY <1>1, PlaceKept DEF StepPlaces
<1>4. ActiveEntry \in StepRecs /\ ActiveEntry \in Entries
  BY <1>3, StepEntry DEF ActiveEntry
<1>5. attempt \in Nat \ {0} /\ ActiveEntry.items = <<>> /\ Open(ActiveEntry, attempt)
  BY <1>1, <1>2 DEF ShapeHere, StepShape, TypeOK, RoundOK
<1>6. ActiveEntry' = manifest'.steps[ActiveNode]
  BY <1>1 DEF ActiveEntry, ActiveNode
<1>7. CASE manifest' = MarkAttemptSucceeded(manifest, ActiveNode) /\ pc' = "successWrite"
  <2>1. ActiveEntry' = EntrySucceeded(ActiveEntry)
    BY <1>3, <1>6, <1>7, MarkSucceededIs DEF ActiveEntry
  <2>2. SameRest(ActiveEntry, ActiveEntry') /\ ActiveEntry'.status = "succeeded" /\ Closed(ActiveEntry')
    BY <1>4, <1>5, <2>1, OpenSucceeds
  <2>3. DOMAIN ActiveEntry'.items = {}
    BY <1>4, <1>5, <2>2 DEF SameRest
  <2>4. Done(ActiveEntry')
    BY <2>2, <2>3 DEF Done
  <2>5. QED
    BY <1>7, <2>4, ArriveDone DEF DonePlaces
<1>8. CASE /\ manifest' = MarkAttemptTerminal(manifest, ActiveNode, "failed")
           /\ pc' = "terminal" /\ runErr' = "other"
  <2>1. ActiveEntry' = EntryTerminal(ActiveEntry, "failed")
    BY <1>3, <1>6, <1>8, MarkTerminalIs DEF ActiveEntry
  <2>2. Stopped(ActiveEntry')
    BY <1>4, <1>5, <2>1, StoppedStep
  <2>3. QED
    BY <1>8, <2>2, ArriveEnd DEF Legal
<1>9. QED
  BY <1>1, <1>7, <1>8

\* The active map is running at every place between its first and its last write.
LEMMA MapIsRunning ==
    ASSUME TypeOK, ShapeHere, pc \in MapOpenPlaces
    PROVE  Open(ActiveEntry, 1) /\ Running(ActiveEntry)
<1>1. Open(ActiveEntry, 1)
  BY DEF ShapeHere, MapShape
<1>2. Legal(ActiveEntry)
  BY ShapeLegal DEF MapOpenPlaces, MapPlaces
<1>3. QED
  BY <1>1, <1>2 DEF Open, Legal, Blank, Fresh, Inactive, Done, Stopped

\* failMapNode leaves a map that is over, with the items that were closed as they were.
LEMMA ShapeFailMap ==
    ASSUME TypeOK, TypeOK', pc \in MapOpenPlaces, UNCHANGED pos, NEW m \in Manifests,
           Running(m.steps[ActiveNode]), Open(m.steps[ActiveNode], 1), NEW err, FailMap(m, err),
           err = "fatal" => \E i \in DOMAIN m.steps[ActiveNode].items :
                                /\ m.steps[ActiveNode].items[i].status = "failed"
                                /\ Closed(m.steps[ActiveNode].items[i])
    PROVE  ShapeHere'
<1>1. PICK status \in {"failed", "cancelled"} :
        /\ manifest' = FailMapNode(m, ActiveNode, status)
        /\ err = "fatal" => status = "failed"
  BY DEF FailMap
<1>2. pc' = "terminal" /\ runErr' = err
  BY DEF FailMap, Fail
<1>3. ActiveNode \in StepIds
  BY PlaceKept DEF MapOpenPlaces
<1>4. ActiveEntry' = manifest'.steps[ActiveNode]
  BY DEF ActiveEntry, ActiveNode
<1>5. LET e == manifest'.steps[ActiveNode] IN
      /\ Stopped(e) /\ e.status = status
      /\ DOMAIN e.items = DOMAIN m.steps[ActiveNode].items
      /\ \A i \in DOMAIN e.items :
            Closed(m.steps[ActiveNode].items[i]) => e.items[i] = m.steps[ActiveNode].items[i]
  BY <1>1, <1>3, MapEnds
<1>6. err = "fatal" => FatalShape(ActiveEntry')
  BY <1>1, <1>4, <1>5 DEF FatalShape
<1>7. QED
  BY <1>2, <1>4, <1>5, <1>6, ArriveEnd DEF Legal

\* The same, for a map that fails as it stands.
LEMMA ShapeFailNow ==
    ASSUME TypeOK, TypeOK', ShapeHere, pc \in MapOpenPlaces, UNCHANGED pos,
           NEW err, err # "fatal", FailMap(manifest, err)
    PROVE  ShapeHere'
<1>1. manifest \in Manifests
  BY DEF TypeOK, JournalsOK
<1>2. Open(manifest.steps[ActiveNode], 1) /\ Running(manifest.steps[ActiveNode])
  BY MapIsRunning DEF ActiveEntry
<1>3. QED
  BY <1>1, <1>2, ShapeFailMap

LEMMA ShapeExpand ==
    ASSUME TypeOK, TypeOK', Shape, Expand
    PROVE  Shape'
<1>1. pc = "expand" /\ UNCHANGED pos /\ ActiveNode' = ActiveNode /\ pc \in MapOpenPlaces
  BY DEF Expand, ActiveNode, MapOpenPlaces, MapPlaces
<1>2. SUFFICES ASSUME ShapeHere PROVE ShapeHere'
  BY <1>1 DEF Shape
<1>3. ActiveNode \in StepIds /\ ActiveNode \in NodeIds /\ manifest \in Manifests
  BY <1>1, PlaceKept DEF MapPlaces
<1>4. PICK count \in Int : count = InputForNode(res, ActiveNode).items
  BY <1>3, InputItems
<1>5. CASE count < 0
  <2>1. FailMap(manifest, "other")
    BY <1>4, <1>5 DEF Expand
  <2>2. QED
    BY <1>1, <1>2, <2>1, ShapeFailNow
<1>6. CASE ~(count < 0)
  <2>1. manifest' = MarkMapItemsPending(manifest, ActiveNode, count) /\ pc' = "itemInputs"
    BY <1>4, <1>6 DEF Expand, Goto
  <2>2. PICK items : items = [i \in 1..count |-> PendingItem]
    OBVIOUS
  <2>3. /\ items \in Seq(ItemRecs) /\ DOMAIN items = 1..count
        /\ \A i \in 1..count : items[i].status = "pending" /\ items[i].attempts = <<>>
    BY <1>6, <2>2, PendingItemsType
  <2>4. manifest' = WithStepItems(manifest, ActiveNode, items)
    BY <2>1, <2>2 DEF MarkMapItemsPending, WithStepItems
  <2>5. /\ manifest'.steps[ActiveNode].items = items
        /\ manifest'.steps[ActiveNode].status = manifest.steps[ActiveNode].status
        /\ manifest'.steps[ActiveNode].attempts = manifest.steps[ActiveNode].attempts
    BY <1>3, <2>3, <2>4, NewItems
  <2>6. Open(ActiveEntry, 1)
    BY <1>1, <1>2 DEF ShapeHere, MapShape
  <2>7. Open(ActiveEntry', 1)
    BY <1>1, <2>5, <2>6 DEF Open, ActiveEntry, ActiveNode
  <2>8. \A i \in DOMAIN ActiveEntry'.items : Fresh(ActiveEntry'.items[i])
    BY <1>1, <2>3, <2>5 DEF Fresh, ActiveEntry, ActiveNode
  <2>9. MapShape'
    BY <2>1, <2>7, <2>8 DEF MapShape, MapOpenPlaces, MapPlaces, RoundPlaces
  <2>10. QED
    BY <2>1, <2>9, ArriveMap DEF MapOpenPlaces, MapPlaces
<1>7. QED
  BY <1>5, <1>6

LEMMA ShapeItems ==
    ASSUME TypeOK, TypeOK', Shape, ItemInputs \/ ItemsWrite
    PROVE  Shape'
<1>1. /\ pc \in {"itemInputs", "itemsWrite"} /\ UNCHANGED <<pos, round>> /\ ActiveNode' = ActiveNode
      /\ pc \in MapOpenPlaces
  BY DEF ItemInputs, ItemsWrite, ActiveNode, MapOpenPlaces, MapPlaces
<1>2. SUFFICES ASSUME ShapeHere PROVE ShapeHere'
  BY <1>1 DEF Shape
<1>3. /\ Open(ActiveEntry, 1)
      /\ \A i \in DOMAIN ActiveEntry.items : Fresh(ActiveEntry.items[i])
  BY <1>1, <1>2 DEF ShapeHere, MapShape
<1>4. \/ pc' = "itemsWrite" /\ UNCHANGED manifest
      \/ \E err : err # "fatal" /\ FailMap(manifest, err)
      \/ pc' = "terminal" /\ runErr' # "fatal" /\ UNCHANGED manifest
      \/ /\ UNCHANGED manifest /\ attempt' = 1 /\ collected' = {}
         /\ pending' = DOMAIN ActiveItems
         /\ pc' = IF pending' = {} THEN "mapDone" ELSE "mapInvoke"
  BY DEF ItemInputs, ItemsWrite, Goto, Fail, Charge, Persist, StartRound, ErrorFor
<1>5. UNCHANGED manifest => ActiveEntry' = ActiveEntry
  BY <1>1 DEF ActiveEntry, ActiveNode
<1>6. CASE pc' = "itemsWrite" /\ UNCHANGED manifest
  <2>1. MapShape'
    BY <1>3, <1>5, <1>6 DEF MapShape, MapOpenPlaces, MapPlaces, RoundPlaces
  <2>2. QED
    BY <1>6, <2>1, ArriveMap DEF MapOpenPlaces, MapPlaces
<1>7. CASE \E err : err # "fatal" /\ FailMap(manifest, err)
  BY <1>1, <1>2, <1>7, ShapeFailNow
<1>8. CASE pc' = "terminal" /\ runErr' # "fatal" /\ UNCHANGED manifest
  <2>1. Legal(ActiveEntry)
    BY <1>1, <1>2, ShapeLegal
  <2>2. QED
    BY <1>5, <1>8, <2>1, ArriveEnd
<1>9. CASE /\ UNCHANGED manifest /\ attempt' = 1 /\ collected' = {}
           /\ pending' = DOMAIN ActiveItems
           /\ pc' = IF pending' = {} THEN "mapDone" ELSE "mapInvoke"
  <2>1. DOMAIN ActiveEntry'.items = pending'
    BY <1>5, <1>9 DEF ActiveEntry, ActiveItems
  <2>2. \A i \in DOMAIN ActiveEntry'.items : Idle(ActiveEntry'.items[i], attempt')
    <3>1. ASSUME NEW e, Fresh(e) PROVE Idle(e, 1)
      BY <3>1, NoTrail DEF Fresh, Idle
    <3>2. QED
      BY <1>3, <1>5, <1>9, <3>1
  <2>3. InRound(ActiveEntry)'
    BY <1>9, <2>1, <2>2 DEF InRound, Collects
  <2>4. Collects(ActiveEntry)'
    BY <1>9 DEF Collects
  <2>5. Open(ActiveEntry', 1)
    BY <1>3, <1>5, <1>9
  <2>6. MapShape'
    BY <1>9, <2>1, <2>3, <2>4, <2>5 DEF MapShape, MapOpenPlaces, MapPlaces, RoundPlaces
  <2>7. QED
    BY <1>9, <2>6, ArriveMap DEF MapOpenPlaces, MapPlaces
<1>10. QED
  BY <1>4, <1>6, <1>7, <1>8, <1>9

LEMMA ShapeRoundWait ==
    ASSUME TypeOK, TypeOK', Shape, RoundWait
    PROVE  Shape'
<1>1. /\ pc = "roundWait" /\ UNCHANGED <<pos, attempt, pending, collected>>
      /\ ActiveNode' = ActiveNode /\ pc \in MapOpenPlaces
      /\ \/ pc' = "mapInvoke" /\ UNCHANGED manifest
         \/ FailMap(manifest, "ctx")
  BY DEF RoundWait, ActiveNode, MapOpenPlaces, MapPlaces, Goto
<1>2. SUFFICES ASSUME ShapeHere PROVE ShapeHere'
  BY <1>1 DEF Shape
<1>3. CASE FailMap(manifest, "ctx")
  BY <1>1, <1>2, <1>3, ShapeFailNow
<1>4. CASE pc' = "mapInvoke" /\ UNCHANGED manifest
  <2>1. ActiveEntry' = ActiveEntry
    BY <1>1, <1>4 DEF ActiveEntry, ActiveNode
  <2>2. InRound(ActiveEntry) /\ Open(ActiveEntry, 1)
    BY <1>1, <1>2 DEF ShapeHere, MapShape, RoundPlaces
  <2>3. InRound(ActiveEntry)'
    BY <1>1, <2>1, <2>2 DEF InRound, Collects
  <2>4. MapShape'
    BY <1>4, <2>1, <2>2, <2>3 DEF MapShape, MapOpenPlaces, MapPlaces, RoundPlaces
  <2>5. QED
    BY <1>4, <2>4, ArriveMap DEF MapOpenPlaces, MapPlaces
<1>5. QED
  BY <1>1, <1>3, <1>4

LEMMA ShapeMapDone ==
    ASSUME TypeOK, TypeOK', Shape, MapDone
    PROVE  Shape'
<1>1. /\ pc = "mapDone" /\ UNCHANGED <<pos, collected>> /\ ActiveNode' = ActiveNode
      /\ pc \in MapOpenPlaces
      /\ \/ /\ pc' = "collect" /\ UNCHANGED manifest
            /\ \A i \in DOMAIN ActiveItems \ collected : ActiveItems[i].status = "succeeded"
         \/ FailMap(manifest, "other")
  BY DEF MapDone, ActiveNode, MapOpenPlaces, MapPlaces, Goto
<1>2. SUFFICES ASSUME ShapeHere PROVE ShapeHere'
  BY <1>1 DEF Shape
<1>3. CASE FailMap(manifest, "other")
  BY <1>1, <1>2, <1>3, ShapeFailNow
<1>4. CASE /\ pc' = "collect" /\ UNCHANGED manifest
           /\ \A i \in DOMAIN ActiveItems \ collected : ActiveItems[i].status = "succeeded"
  <2>1. ActiveEntry' = ActiveEntry /\ ActiveItems = ActiveEntry.items
    BY <1>1, <1>4 DEF ActiveEntry, ActiveNode, ActiveItems
  <2>2. /\ Open(ActiveEntry, 1) /\ Collects(ActiveEntry)
        /\ \A i \in DOMAIN ActiveEntry.items :
                Closed(ActiveEntry.items[i]) /\ ActiveEntry.items[i].status # "cancelled"
    BY <1>1, <1>2 DEF ShapeHere, MapShape
  <2>3. ASSUME NEW i \in DOMAIN ActiveEntry.items PROVE Kept(ActiveEntry, ActiveEntry.items[i])
    <3>1. ActiveEntry.items[i].status \in {"succeeded", "failed"} /\ Closed(ActiveEntry.items[i])
      BY <2>2 DEF Closed
    <3>2. CASE i \in collected
      BY <2>2, <3>1, <3>2 DEF Collects, Kept
    <3>3. CASE i \notin collected
      BY <1>4, <2>1, <3>1, <3>3 DEF Kept
    <3>4. QED
      BY <3>2, <3>3
  <2>4. MapShape'
    BY <1>4, <2>1, <2>2, <2>3 DEF MapShape, MapOpenPlaces, MapPlaces, RoundPlaces
  <2>5. QED
    BY <1>4, <2>4, ArriveMap DEF MapOpenPlaces, MapPlaces
<1>5. QED
  BY <1>1, <1>3, <1>4

LEMMA ShapeCollect ==
    ASSUME TypeOK, TypeOK', Shape, Collect
    PROVE  Shape'
<1>1. /\ pc = "collect" /\ UNCHANGED pos /\ ActiveNode' = ActiveNode /\ pc \in MapOpenPlaces
      /\ \/ manifest' = MarkAttemptSucceeded(manifest, ActiveNode) /\ pc' = "collectWrite"
         \/ \E err : err # "fatal" /\ FailMap(manifest, err)
  BY DEF Collect, ActiveNode, MapOpenPlaces, MapPlaces, Goto, ErrorFor
<1>2. SUFFICES ASSUME ShapeHere PROVE ShapeHere'
  BY <1>1 DEF Shape
<1>3. CASE \E err : err # "fatal" /\ FailMap(manifest, err)
  BY <1>1, <1>2, <1>3, ShapeFailNow
<1>4. CASE manifest' = MarkAttemptSucceeded(manifest, ActiveNode) /\ pc' = "collectWrite"
  <2>1. ActiveNode \in StepIds /\ manifest \in Manifests
    BY <1>1, PlaceKept DEF MapPlaces
  <2>2. ActiveEntry \in StepRecs /\ ActiveEntry \in Entries
    BY <2>1, StepEntry DEF ActiveEntry
  <2>3. /\ Open(ActiveEntry, 1)
        /\ \A i \in DOMAIN ActiveEntry.items : Kept(ActiveEntry, ActiveEntry.items[i])
    BY <1>1, <1>2 DEF ShapeHere, MapShape
  <2>4. manifest'.steps[ActiveNode] = EntrySucceeded(manifest.steps[ActiveNode])
    BY <1>4, <2>1, MarkSucceededIs
  <2>5. ActiveEntry' = EntrySucceeded(ActiveEntry)
    BY <1>1, <2>4 DEF ActiveEntry, ActiveNode
  <2>6. SameRest(ActiveEntry, ActiveEntry') /\ ActiveEntry'.status = "succeeded" /\ Closed(ActiveEntry')
    BY <2>2, <2>3, <2>5, OpenSucceeds
  <2>7. ActiveEntry'.items = ActiveEntry.items /\ ActiveEntry'.collect = ActiveEntry.collect
    BY <2>2, <2>6 DEF SameRest
  <2>8. Done(ActiveEntry')
    BY <2>3, <2>6, <2>7 DEF Done, Kept
  <2>9. QED
    BY <1>4, <2>8, ArriveDone DEF DonePlaces
<1>5. QED
  BY <1>1, <1>3, <1>4

\* What recording a dispatch does to an item of the round.
LEMMA RecordDispatchIs ==
    ASSUME NEW item \in ItemRecs, attempt \in Nat \ {0}, Idle(item, attempt), NEW o
    PROVE  Recorded(RecordDispatch(item, o), o, attempt)
<1> DEFINE running == EntryRunning(item, attempt)
<1>1. item \in Entries
  BY DEF Entries
<1>2. SameRest(item, running) /\ Open(running, attempt)
  BY <1>1, IdleOpens
<1>3. running \in Entries
  BY <1>2 DEF SameRest, Entries
<1> HIDE DEF running
<1>4. \A status \in {"failed", "cancelled"} :
        LET f == EntryTerminal(running, status) IN f.status = status /\ f.attempts = Trail(attempt, status)
  BY <1>2, <1>3, OpenEnds
<1>5. CASE o = "cancelled"
  <2>1. RecordDispatch(item, o) = EntryTerminal(running, "cancelled")
    BY <1>5 DEF RecordDispatch, running
  <2>2. QED
    BY <1>4, <1>5, <2>1 DEF Recorded
<1>6. CASE o = "infra"
  <2>1. RecordDispatch(item, o) = EntryTerminal(running, "failed")
    BY <1>6 DEF RecordDispatch, running
  <2>2. QED
    BY <1>4, <1>6, <2>1 DEF Recorded
<1>7. CASE o \notin {"cancelled", "infra"}
  <2>1. RecordDispatch(item, o) = running
    BY <1>7 DEF RecordDispatch, running
  <2>2. QED
    BY <1>2, <1>7, <2>1 DEF Recorded
<1>8. QED
  BY <1>5, <1>6, <1>7

\* The items after a round was reported.
LEMMA MapInvokeItems ==
    ASSUME TypeOK, MapInvoke
    PROVE  LET e == manifest'.steps[ActiveNode]
               old == manifest.steps[ActiveNode]
           IN  /\ e.status = old.status /\ e.attempts = old.attempts
               /\ e.isMap = old.isMap /\ e.collect = old.collect
               /\ DOMAIN e.items = DOMAIN old.items
               /\ \A i \in DOMAIN old.items :
                    e.items[i] = IF i \in DOMAIN round'.outs
                                 THEN RecordDispatch(old.items[i], round'.outs[i]) ELSE old.items[i]
<1> DEFINE old == manifest.steps[ActiveNode]
           Item(i) == IF i \in DOMAIN round'.outs THEN RecordDispatch(old.items[i], round'.outs[i])
                      ELSE old.items[i]
<1>1. PICK items : /\ items = [i \in DOMAIN old.items |-> Item(i)]
                   /\ manifest' = WithStepItems(manifest, ActiveNode, items)
  BY MapInvokeIs DEF ActiveItems
<1>2. ActiveNode \in StepIds /\ manifest \in Manifests
  BY PlaceKept, MapInvokeIs DEF MapPlaces
<1>3. old.items \in Seq(ItemRecs) /\ \A i \in DOMAIN old.items : old.items[i] \in ItemRecs
  BY <1>2, StepEntry
<1>4. \A i \in DOMAIN old.items : Item(i) \in ItemRecs
  BY <1>3, RecordDispatchType
<1> HIDE DEF Item
<1>5. items \in [DOMAIN old.items -> ItemRecs] /\ \A i \in DOMAIN old.items : items[i] = Item(i)
  BY <1>1, <1>4
<1>6. items \in Seq(ItemRecs) /\ DOMAIN items = DOMAIN old.items
  BY <1>3, <1>5, ItemsFun
<1> HIDE DEF old
<1>7. LET e == manifest'.steps[ActiveNode] IN
      /\ e.items = items /\ e.status = old.status /\ e.attempts = old.attempts
      /\ e.isMap = old.isMap /\ e.collect = old.collect
  BY <1>1, <1>2, <1>6, NewItems DEF old
<1>8. QED
  BY <1>5, <1>6, <1>7 DEF old, Item

LEMMA ShapeMapInvoke ==
    ASSUME TypeOK, TypeOK', Shape, MapInvoke
    PROVE  Shape'
<1>1. /\ pc = "mapInvoke" /\ pc' = "mapSettle" /\ UNCHANGED <<pos, attempt, pending, collected>>
      /\ DOMAIN round'.outs \subseteq pending
      /\ round'.err = "none" => /\ DOMAIN round'.outs = pending
                                /\ \A i \in pending : round'.outs[i] \notin ErrorOutcomes
  BY MapInvokeIs
<1>2. ActiveNode' = ActiveNode /\ ActiveEntry' = manifest'.steps[ActiveNode]
  BY <1>1 DEF ActiveNode, ActiveEntry
<1>3. SUFFICES ASSUME ShapeHere PROVE ShapeHere'
  BY <1>2, <1>1 DEF Shape
<1>4. InRound(ActiveEntry) /\ Open(ActiveEntry, 1)
  BY <1>1, <1>3 DEF ShapeHere, MapShape, RoundPlaces, MapOpenPlaces, MapPlaces
<1>5. attempt \in Nat \ {0} /\ pending \subseteq DOMAIN ActiveEntry.items
  BY <1>4 DEF InRound, TypeOK, RoundOK
<1>6. \A i \in DOMAIN ActiveEntry.items : ActiveEntry.items[i] \in ItemRecs
  BY <1>1, PlaceKept, StepEntry DEF ActiveEntry, MapPlaces
<1>7. /\ ActiveEntry'.status = ActiveEntry.status /\ ActiveEntry'.attempts = ActiveEntry.attempts
      /\ ActiveEntry'.collect = ActiveEntry.collect
      /\ DOMAIN ActiveEntry'.items = DOMAIN ActiveEntry.items
      /\ \A i \in DOMAIN ActiveEntry.items :
            ActiveEntry'.items[i] = IF i \in DOMAIN round'.outs
                                    THEN RecordDispatch(ActiveEntry.items[i], round'.outs[i])
                                    ELSE ActiveEntry.items[i]
  BY <1>2, MapInvokeItems DEF ActiveEntry
<1>8. \A i \in DOMAIN ActiveEntry'.items :
        IF i \in DOMAIN round'.outs THEN Recorded(ActiveEntry'.items[i], round'.outs[i], attempt)
        ELSE IF i \in pending THEN Idle(ActiveEntry'.items[i], attempt)
        ELSE Kept(ActiveEntry', ActiveEntry'.items[i])
  <2>1. ASSUME NEW i \in DOMAIN ActiveEntry.items, i \in DOMAIN round'.outs
        PROVE  Recorded(ActiveEntry'.items[i], round'.outs[i], attempt)
    BY <1>1, <1>4, <1>5, <1>6, <1>7, <2>1, RecordDispatchIs DEF InRound
  <2>2. ASSUME NEW i \in DOMAIN ActiveEntry.items, i \notin DOMAIN round'.outs
        PROVE  IF i \in pending THEN Idle(ActiveEntry'.items[i], attempt)
               ELSE Kept(ActiveEntry', ActiveEntry'.items[i])
    BY <1>4, <1>7, <2>2 DEF InRound, Kept
  <2>3. QED
    BY <1>7, <2>1, <2>2
<1>9. AfterRound(ActiveEntry)'
  BY <1>1, <1>4, <1>5, <1>7, <1>8 DEF AfterRound, InRound, Collects
<1>10. Open(ActiveEntry', 1)
  BY <1>4, <1>7 DEF Open
<1>11. MapShape'
  BY <1>1, <1>9, <1>10 DEF MapShape, MapOpenPlaces, MapPlaces, RoundPlaces
<1>12. QED
  BY <1>1, <1>11, ArriveMap DEF MapOpenPlaces, MapPlaces

\* The four fates of a reported item, and the items that were closed when reported.
LEMMA RoundFates ==
    ASSUME TypeOK, NEW verified, verified \subseteq DOMAIN round.outs
    PROVE  /\ \A i \in SucceededNow(verified) :
                /\ i \in DOMAIN round.outs /\ round.outs[i] = "succeeded"
                /\ i \notin RetryItems /\ i \notin CollectedNow /\ i \notin FailedNow(verified)
           /\ \A i \in RetryItems :
                /\ i \in DOMAIN round.outs /\ round.outs[i] \notin {"cancelled", "infra"}
                /\ i \notin CollectedNow /\ i \notin FailedNow(verified)
                /\ attempt < Node[ActiveNode].maxAttempts
           /\ \A i \in CollectedNow :
                /\ i \in DOMAIN round.outs /\ round.outs[i] \notin {"cancelled", "infra"}
                /\ Node[ActiveNode].collect
           /\ \A i \in FailedNow(verified) :
                i \in DOMAIN round.outs /\ round.outs[i] \notin {"cancelled", "infra"}
           /\ \A i \in DOMAIN round.outs :
                \/ i \in SucceededNow(verified) \cup RetryItems \cup CollectedNow \cup FailedNow(verified)
                \/ round.outs[i] \in {"cancelled", "infra"}
           /\ \A i \in DOMAIN round.outs : round.outs[i] = "fatal" => i \in FailedNow(verified)
<1>1. \A i \in DOMAIN round.outs : round.outs[i] \in Outcomes
  BY RunAssumption DEF TypeOK, RoundOK
<1>2. QED
  BY <1>1 DEF SucceededNow, RetryItems, CollectedNow, FailedNow, RetryableOutcome, MapItemFailure,
     Outcomes, FailedOutcomes, DiagnosticExits

\* The settlement of a map round and one item.
LEMMA SettledItemIs ==
    ASSUME TypeOK, pc = "mapSettle", AfterRound(ActiveEntry), NEW verified,
           verified \subseteq DOMAIN round.outs, NEW i \in DOMAIN ActiveItems
    PROVE  LET item == SettledItems(verified)[i] IN
           /\ i \in SucceededNow(verified) =>
                Closed(item) /\ item.status = "succeeded" /\ item.attempts = Trail(attempt, "succeeded")
           /\ i \in RetryItems => Waiting(item, attempt)
           /\ i \in CollectedNow \cup FailedNow(verified) =>
                Closed(item) /\ item.status = "failed" /\ item.attempts = Trail(attempt, "failed")
           /\ i \notin SucceededNow(verified) \cup RetryItems \cup CollectedNow \cup FailedNow(verified)
                => item = ActiveItems[i]
<1> DEFINE old == ActiveItems[i]
           item == SettledItems(verified)[i]
<1>1. attempt \in Nat \ {0} /\ ActiveItems = ActiveEntry.items
  BY DEF AfterRound, TypeOK, RoundOK, ActiveItems, ActiveEntry
<1>2. old \in Entries
  BY PlaceKept, StepEntry DEF ActiveItems, MapPlaces
<1>3. i \in DOMAIN round.outs /\ round.outs[i] \notin {"cancelled", "infra"} => Open(old, attempt)
  <2>1. i \in DOMAIN round.outs => Recorded(old, round.outs[i], attempt)
    BY <1>1 DEF AfterRound
  <2>2. QED
    BY <1>1, <2>1, RecordedIs
<1>4. item = CASE i \in SucceededNow(verified) -> EntrySucceeded(old)
               [] i \in RetryItems -> EntryRetrying(old)
               [] i \in CollectedNow \cup FailedNow(verified) -> EntryTerminal(old, "failed")
               [] OTHER -> old
  BY DEF SettledItems
<1> HIDE DEF item, old
<1>5. CASE i \in SucceededNow(verified)
  <2>1. /\ i \in DOMAIN round.outs /\ round.outs[i] = "succeeded"
        /\ i \notin RetryItems /\ i \notin CollectedNow /\ i \notin FailedNow(verified)
    BY <1>5, RoundFates
  <2>2. item = EntrySucceeded(old)
    BY <1>4, <1>5, <2>1
  <2>3. Closed(item) /\ item.status = "succeeded" /\ item.attempts = Trail(attempt, "succeeded")
    BY <1>1, <1>2, <1>3, <2>1, <2>2, OpenSucceeds
  <2>4. QED
    BY <1>5, <2>1, <2>3 DEF item
<1>6. CASE i \in RetryItems
  <2>1. /\ i \in DOMAIN round.outs /\ round.outs[i] \notin {"cancelled", "infra"}
        /\ i \notin CollectedNow /\ i \notin FailedNow(verified) /\ i \notin SucceededNow(verified)
    BY <1>6, RoundFates
  <2>2. item = EntryRetrying(old)
    BY <1>4, <1>6, <2>1
  <2>3. Waiting(item, attempt)
    BY <1>1, <1>2, <1>3, <2>1, <2>2, OpenRetries
  <2>4. QED
    BY <1>6, <2>1, <2>3 DEF item
<1>7. CASE i \in CollectedNow \cup FailedNow(verified)
  <2>1. /\ i \in DOMAIN round.outs /\ round.outs[i] \notin {"cancelled", "infra"}
        /\ i \notin RetryItems /\ i \notin SucceededNow(verified)
    BY <1>7, RoundFates
  <2>2. item = EntryTerminal(old, "failed")
    BY <1>4, <1>7, <2>1
  <2>3. Closed(item) /\ item.status = "failed" /\ item.attempts = Trail(attempt, "failed")
    BY <1>1, <1>2, <1>3, <2>1, <2>2, OpenEnds
  <2>4. QED
    BY <1>7, <2>1, <2>3 DEF item
<1>8. CASE i \notin SucceededNow(verified) \cup RetryItems \cup CollectedNow \cup FailedNow(verified)
  <2>1. item = old
    BY <1>4, <1>8
  <2>2. QED
    BY <1>8, <2>1 DEF item, old
<1>9. QED
  BY <1>5, <1>6, <1>7, <1>8

\* The journal after a round was settled: the map fails, ends its rounds, or starts another.
LEMMA MapSettleIs ==
    ASSUME TypeOK, MapSettle
    PROVE  \E verified \in SUBSET DOMAIN round.outs : \E m \in Manifests :
            LET old == manifest.steps[ActiveNode]
                e == m.steps[ActiveNode]
                items == SettledItems(verified)
            IN
            /\ Advances(manifest, m)
            /\ e.status = old.status /\ e.attempts = old.attempts
            /\ e.isMap = old.isMap /\ e.collect = old.collect
            /\ collected' = collected \cup CollectedNow
            /\ \/ RoundError # "none" /\ e.items = items /\ FailMap(m, RoundError)
               \/ /\ RoundError = "none" /\ manifest' = m
                  /\ FailedNow(verified) # {} /\ e.items = CloseRetries(items, RetryItems)
                  /\ pc' = "mapDone" /\ pending' = {} /\ UNCHANGED attempt
               \/ /\ RoundError = "none" /\ manifest' = m
                  /\ RetryItems = {} /\ e.items = items
                  /\ pc' = "mapDone" /\ pending' = {} /\ UNCHANGED attempt
               \/ /\ RoundError = "none" /\ manifest' = m
                  /\ FailedNow(verified) = {} /\ e.items = items
                  /\ pc' = "roundWrite" /\ pending' = RetryItems /\ attempt' = attempt + 1
<1>1. ActiveNode \in StepIds /\ manifest \in Manifests /\ pc = "mapSettle"
  BY PlaceKept DEF MapSettle, MapPlaces
<1>2. PICK verified \in SUBSET DOMAIN round.outs : SettleRound(verified)
  BY DEF MapSettle
<1>3. PICK items, settled : /\ items = SettledItems(verified)
                            /\ settled = WithStepItems(manifest, ActiveNode, items)
  OBVIOUS
<1>4. items \in Seq(ItemRecs)
  BY <1>1, <1>3, SettledItemsType
<1> DEFINE Fits(m, new) ==
        LET old == manifest.steps[ActiveNode]
            e == m.steps[ActiveNode]
        IN  /\ m \in Manifests /\ Advances(manifest, m) /\ e.items = new
            /\ e.status = old.status /\ e.attempts = old.attempts
            /\ e.isMap = old.isMap /\ e.collect = old.collect
<1>5. Fits(settled, items)
  BY <1>1, <1>3, <1>4, NewItems DEF Touches, Advances
<1>6. settled = [manifest EXCEPT !.steps[ActiveNode].items = SettledItems(verified)]
  BY <1>3 DEF WithStepItems
<1>7. collected' = collected \cup CollectedNow
  BY <1>2 DEF SettleRound
<1>8. PICK closed : closed = CloseRetries(items, RetryItems)
  OBVIOUS
<1>9. closed \in Seq(ItemRecs)
  BY <1>4, <1>8, CloseRetriesType
<1>10. ASSUME NEW new \in Seq(ItemRecs), NEW m, m = WithStepItems(settled, ActiveNode, new)
       PROVE  Fits(m, new)
  <2>1. /\ Touches(settled, m, ActiveNode) /\ m.steps[ActiveNode].items = new
        /\ m.steps[ActiveNode].status = settled.steps[ActiveNode].status
        /\ m.steps[ActiveNode].attempts = settled.steps[ActiveNode].attempts
        /\ m.steps[ActiveNode].isMap = settled.steps[ActiveNode].isMap
        /\ m.steps[ActiveNode].collect = settled.steps[ActiveNode].collect
    BY <1>1, <1>5, <1>10, NewItems
  <2>2. QED
    BY <1>5, <2>1 DEF Touches, Advances
<1>11. CASE RoundError # "none"
  <2>1. FailMap(settled, RoundError)
    BY <1>2, <1>6, <1>11 DEF SettleRound
  <2>2. QED
    BY <1>3, <1>5, <1>7, <1>11, <2>1
<1>12. CASE RoundError = "none" /\ (FailedNow(verified) # {} \/ RetryItems = {})
  <2>1. /\ manifest' = [settled EXCEPT !.steps[ActiveNode].items =
                            IF FailedNow(verified) # {} THEN CloseRetries(@, RetryItems) ELSE @]
        /\ pc' = "mapDone" /\ pending' = {} /\ UNCHANGED attempt
    BY <1>2, <1>6, <1>12 DEF SettleRound, StartRound, Goto
  <2>2. manifest' = WithStepItems(settled, ActiveNode,
                        IF FailedNow(verified) # {} THEN closed ELSE items)
    BY <1>5, <1>8, <2>1 DEF WithStepItems
  <2>3. CASE FailedNow(verified) # {}
    <3>1. Fits(manifest', closed)
      BY <1>9, <1>10, <2>2, <2>3
    <3>2. QED
      BY <1>3, <1>7, <1>8, <1>12, <2>1, <2>3, <3>1
  <2>4. CASE FailedNow(verified) = {}
    <3>1. Fits(manifest', items)
      BY <1>4, <1>10, <2>2, <2>4
    <3>2. QED
      BY <1>3, <1>7, <1>12, <2>1, <2>4, <3>1
  <2>5. QED
    BY <2>3, <2>4
<1>13. CASE RoundError = "none" /\ ~(FailedNow(verified) # {} \/ RetryItems = {})
  <2>1. /\ manifest' = settled /\ pending' = RetryItems /\ attempt' = attempt + 1
        /\ pc' = "roundWrite"
    BY <1>2, <1>6, <1>13 DEF SettleRound, Goto
  <2>2. QED
    BY <1>3, <1>5, <1>7, <1>13, <2>1
<1>14. QED
  BY <1>11, <1>12, <1>13

LEMMA ShapeMapSettle ==
    ASSUME TypeOK, TypeOK', Shape, AsPlanned, RoundReported, MapSettle
    PROVE  Shape'
<1>1. pc = "mapSettle" /\ UNCHANGED pos /\ ActiveNode' = ActiveNode /\ pc \in MapOpenPlaces
  BY DEF MapSettle, ActiveNode, MapOpenPlaces, MapPlaces
<1>2. SUFFICES ASSUME ShapeHere PROVE ShapeHere'
  BY <1>1 DEF Shape
<1>3. AfterRound(ActiveEntry) /\ Open(ActiveEntry, 1) /\ ActiveItems = ActiveEntry.items
  BY <1>1, <1>2 DEF ShapeHere, MapShape, ActiveItems, ActiveEntry
<1>4. attempt \in Nat \ {0} /\ ActiveNode \in StepIds
  BY <1>1, <1>3, PlaceKept DEF AfterRound, TypeOK, RoundOK, MapPlaces
<1>5. ActiveEntry.collect = Node[ActiveNode].collect
  BY <1>4 DEF AsPlanned, ActiveEntry
<1>6. PICK verified \in SUBSET DOMAIN round.outs, m \in Manifests :
        LET e == m.steps[ActiveNode]
            items == SettledItems(verified)
        IN
        /\ Advances(manifest, m)
        /\ e.status = ActiveEntry.status /\ e.attempts = ActiveEntry.attempts
        /\ e.isMap = ActiveEntry.isMap /\ e.collect = ActiveEntry.collect
        /\ collected' = collected \cup CollectedNow
        /\ \/ RoundError # "none" /\ e.items = items /\ FailMap(m, RoundError)
           \/ /\ RoundError = "none" /\ manifest' = m
              /\ FailedNow(verified) # {} /\ e.items = CloseRetries(items, RetryItems)
              /\ pc' = "mapDone" /\ pending' = {} /\ UNCHANGED attempt
           \/ /\ RoundError = "none" /\ manifest' = m
              /\ RetryItems = {} /\ e.items = items
              /\ pc' = "mapDone" /\ pending' = {} /\ UNCHANGED attempt
           \/ /\ RoundError = "none" /\ manifest' = m
              /\ FailedNow(verified) = {} /\ e.items = items
              /\ pc' = "roundWrite" /\ pending' = RetryItems /\ attempt' = attempt + 1
  BY MapSettleIs DEF ActiveEntry
<1> DEFINE e == m.steps[ActiveNode]
           items == SettledItems(verified)
           fate == SucceededNow(verified) \cup RetryItems \cup CollectedNow \cup FailedNow(verified)
<1> HIDE DEF e, items, fate
<1>7. Open(e, 1) /\ e.collect = ActiveEntry.collect
  BY <1>3, <1>6 DEF Open, e
<1>8. /\ items \in Seq(ItemRecs) /\ DOMAIN items = DOMAIN ActiveItems
      /\ \A i \in DOMAIN items : items[i] \in Entries
  <2>1. items \in Seq(ItemRecs) /\ DOMAIN items = DOMAIN ActiveItems
    BY <1>1, SettledItemsType DEF items
  <2>2. QED
    BY <2>1, LenProperties DEF Entries
<1>9. ASSUME NEW i \in DOMAIN items
      PROVE  /\ i \in SucceededNow(verified) => Closed(items[i]) /\ items[i].status = "succeeded"
             /\ i \in RetryItems => Waiting(items[i], attempt)
             /\ i \in CollectedNow \cup FailedNow(verified) =>
                    Closed(items[i]) /\ items[i].status = "failed"
             /\ i \notin fate => items[i] = ActiveItems[i]
  BY <1>1, <1>3, <1>8, SettledItemIs DEF items, fate
<1>10. ASSUME NEW i \in DOMAIN items, i \notin fate
       PROVE  IF i \in DOMAIN round.outs THEN Closed(items[i])
              ELSE IF i \in pending THEN Idle(items[i], attempt)
              ELSE Kept(ActiveEntry, items[i])
  <2>1. i \in DOMAIN round.outs => round.outs[i] \in {"cancelled", "infra"}
    BY <1>10, RoundFates DEF fate
  <2>2. i \in DOMAIN round.outs => Recorded(items[i], round.outs[i], attempt)
    BY <1>3, <1>8, <1>9, <1>10 DEF AfterRound
  <2>3. ASSUME NEW o \in {"cancelled", "infra"}, NEW f, Recorded(f, o, attempt) PROVE Closed(f)
    <3>1. \/ f.status = "cancelled" /\ f.attempts = Trail(attempt, "cancelled")
          \/ f.status = "failed" /\ f.attempts = Trail(attempt, "failed")
      BY <2>3 DEF Recorded
    <3>2. QED
      BY <1>4, <3>1 DEF Closed
  <2>4. QED
    BY <1>3, <1>8, <1>9, <1>10, <2>1, <2>2, <2>3 DEF AfterRound
<1>11. CASE RoundError # "none"
  <2>1. e.items = items /\ FailMap(m, RoundError)
    BY <1>6, <1>11 DEF e, items
  <2>2. ASSUME NEW i \in DOMAIN items
        PROVE  Fresh(items[i]) \/ Closed(items[i]) \/ Unfinished(items[i])
    <3>1. CASE i \in fate
      BY <1>4, <1>9, <3>1 DEF fate, Unfinished
    <3>2. CASE i \notin fate
      BY <1>4, <1>10, <3>2, IdleIs DEF Kept
    <3>3. QED
      BY <3>1, <3>2
  <2>3. Running(e)
    <3>1. Unfinished(e)
      BY <1>7 DEF Unfinished
    <3>2. QED
      BY <2>1, <2>2, <3>1 DEF Running
  <2>4. RoundError = "fatal" =>
            \E i \in DOMAIN e.items : e.items[i].status = "failed" /\ Closed(e.items[i])
    <3>1. SUFFICES ASSUME RoundError = "fatal"
                   PROVE  \E i \in DOMAIN e.items : e.items[i].status = "failed" /\ Closed(e.items[i])
      OBVIOUS
    <3>2. FatalOutcome
      BY <1>1, <3>1 DEF RoundError, FatalOutcome, InvokeError, RoundReported
    <3>3. PICK i \in DOMAIN round.outs : round.outs[i] = "fatal"
      BY <3>2 DEF FatalOutcome
    <3>4. i \in FailedNow(verified) /\ i \in DOMAIN items
      BY <1>3, <1>8, <3>3, RoundFates DEF AfterRound
    <3>5. QED
      BY <1>9, <2>1, <3>4
  <2>5. QED
    BY <1>1, <1>7, <2>1, <2>3, <2>4, ShapeFailMap DEF e
<1>12. ASSUME RoundError = "none" PROVE DOMAIN round.outs = pending /\ \A i \in pending : i \in fate
  <2>1. round.err = "none"
    BY <1>12 DEF RoundError, InvokeError
  <2>2. DOMAIN round.outs = pending /\ \A i \in pending : round.outs[i] \notin ErrorOutcomes
    BY <1>3, <2>1 DEF AfterRound
  <2>3. QED
    BY <2>2, RoundFates DEF fate, ErrorOutcomes
<1>13. collected' = {} \/ e.collect
  <2>1. Collects(ActiveEntry)
    BY <1>3 DEF AfterRound
  <2>2. CollectedNow # {} => Node[ActiveNode].collect
    BY RoundFates
  <2>3. QED
    BY <1>5, <1>6, <1>7, <2>1, <2>2 DEF Collects
<1>14. CASE RoundError = "none" /\ pc' = "mapDone"
  <2>1. manifest' = m /\ ActiveEntry' = e
    BY <1>1, <1>6, <1>14 DEF ActiveEntry, ActiveNode, e
  <2>2. ASSUME NEW i \in DOMAIN items, i \notin RetryItems
        PROVE  Closed(items[i]) /\ items[i].status # "cancelled"
    <3>1. CASE i \in fate
      BY <1>9, <2>2, <3>1 DEF fate
    <3>2. CASE i \notin fate
      BY <1>10, <1>12, <1>14, <3>2 DEF Kept
    <3>3. QED
      BY <3>1, <3>2
  <2>3. DOMAIN e.items = DOMAIN items
        /\ \A i \in DOMAIN e.items : Closed(e.items[i]) /\ e.items[i].status # "cancelled"
    <3>1. CASE e.items = items /\ RetryItems = {}
      BY <2>2, <3>1
    <3>2. CASE e.items = CloseRetries(items, RetryItems)
      <4>1. /\ DOMAIN e.items = DOMAIN items
            /\ \A i \in DOMAIN items : e.items[i] = IF i \in RetryItems THEN EntryTerminal(items[i], "failed")
                                                    ELSE items[i]
        BY <3>2 DEF CloseRetries
      <4>2. ASSUME NEW i \in DOMAIN items, i \in RetryItems
            PROVE  Closed(e.items[i]) /\ e.items[i].status = "failed"
        BY <1>4, <1>8, <1>9, <4>1, <4>2, OpenEnds
      <4>3. QED
        BY <2>2, <4>1, <4>2
    <3>3. QED
      BY <1>6, <1>14, <3>1, <3>2 DEF e, items
  <2>4. MapShape'
    BY <1>7, <1>13, <1>14, <2>1, <2>3 DEF MapShape, MapOpenPlaces, MapPlaces, RoundPlaces, Collects
  <2>5. QED
    BY <1>14, <2>4, ArriveMap DEF MapOpenPlaces, MapPlaces
<1>15. CASE RoundError = "none" /\ pc' = "roundWrite"
  <2>1. /\ manifest' = m /\ ActiveEntry' = e /\ e.items = items /\ FailedNow(verified) = {}
        /\ pending' = RetryItems /\ attempt' = attempt + 1
    BY <1>1, <1>6, <1>15 DEF ActiveEntry, ActiveNode, e, items
  <2>2. ASSUME NEW i \in DOMAIN items
        PROVE  IF i \in RetryItems THEN Idle(items[i], attempt + 1) ELSE Kept(e, items[i])
    <3>1. CASE i \in RetryItems
      <4>1. Waiting(items[i], attempt)
        BY <1>9, <3>1
      <4>2. (attempt + 1) - 1 = attempt /\ attempt + 1 # 1
        BY <1>4
      <4>3. Idle(items[i], attempt + 1)
        BY <4>1, <4>2 DEF Waiting, Idle
      <4>4. QED
        BY <3>1, <4>3
    <3>2. CASE i \in fate /\ i \notin RetryItems
      <4>1. i \in CollectedNow => Node[ActiveNode].collect
        BY RoundFates
      <4>2. QED
        BY <1>5, <1>7, <1>9, <2>1, <3>2, <4>1 DEF fate, Kept
    <3>3. CASE i \notin fate
      <4>1. i \notin pending /\ i \notin DOMAIN round.outs /\ i \notin RetryItems
        BY <1>12, <1>15, <3>3 DEF fate
      <4>2. QED
        BY <1>7, <1>10, <3>3, <4>1 DEF Kept
    <3>4. QED
      BY <3>1, <3>2, <3>3
  <2>3. RetryItems \subseteq DOMAIN items
    BY <1>3, <1>8, RoundFates DEF AfterRound
  <2>4. InRound(ActiveEntry)'
    BY <1>4, <1>13, <2>1, <2>2, <2>3 DEF InRound, Collects
  <2>5. MapShape'
    BY <1>7, <1>15, <2>1, <2>4 DEF MapShape, MapOpenPlaces, MapPlaces, RoundPlaces
  <2>6. QED
    BY <1>15, <2>5, ArriveMap DEF MapOpenPlaces, MapPlaces
<1>16. QED
  BY <1>6, <1>11, <1>14, <1>15

-----------------------------------------------------------------------------
\* The entries of the other nodes.

\* After the last node no entry is touched again before the run is terminalized.
LEMMA NoEntryLeft ==
    ASSUME TypeOK, [Next]_vars, ~(pos <= Len(NodeOrder)), ~Result, ~TerminateRun, ~ExitHook
    PROVE  UNCHANGED manifest
<1>0. pc \notin {"nodeWrite"} \cup StepPlaces \cup MapPlaces /\ ~(pos <= Len(NodeOrder))
  BY DEF TypeOK, PlaceOK
<1>1. ASSUME Cancel \/ DeadlinePasses \/ RefuseRun \/ Claim \/ Prerequisites \/ StopAtNode \/
        SkipNode \/ DecideNode \/ NodeWrite \/ SelectNode \/ EnterNode \/ StepInput \/ AttemptWrite
        \/ InvokeStep \/ RetryWrite \/ RetryWait \/ Settle \/ SuccessWrite \/ MapInput \/ MapWrite
        \/ Expand \/ ItemInputs \/ ItemsWrite \/ MapInvoke \/ MapSettle \/ RoundWrite \/ RoundWait
        \/ MapDone \/ Collect \/ CollectWrite \/ ResultWrite \/ TerminalWrite \/ HookWrite
      PROVE  UNCHANGED manifest
  BY <1>1, <1>0 DEF Cancel, DeadlinePasses, RefuseRun, Claim, Prerequisites, StopAtNode,
     SkipNode, DecideNode, NodeWrite, SelectNode, EnterNode, StepInput, AttemptWrite,
     InvokeStep, RetryWrite, RetryWait, Settle, SuccessWrite, MapInput, MapWrite, Expand,
     ItemInputs, ItemsWrite, MapInvoke, MapSettle, RoundWrite, RoundWait, MapDone, Collect,
     CollectWrite, ResultWrite, TerminalWrite, HookWrite, Goto, Persist, Charge, Fail,
     ErrorFor, AtNode, Active, NextNode, StepOutcome, StepUndispatched, InvokeError, FailMap,
     StartRound, SettleRound, StepPlaces, MapPlaces
<1>2. CASE UNCHANGED vars
  BY <1>2 DEF vars
<1>3. QED
  BY <1>1, <1>2 DEF Next, RunStep, StepNode, MapNode, Finished

\* A handler touches the entry of its own node only.
LEMMA OtherSteps ==
    ASSUME TypeOK, [Next]_vars, ~TerminateRun, NEW t \in StepIds,
           ~(pos <= Len(NodeOrder) /\ t = ActiveNode)
    PROVE  manifest'.steps[t] = manifest.steps[t]
<1>1. CASE Result
  BY <1>1, ResultIs
<1>2. CASE ExitHook
  BY <1>2, ExitHookIs
<1>3. CASE ~Result /\ ~ExitHook /\ pos <= Len(NodeOrder)
  BY <1>3, AdvanceStep DEF Advances
<1>4. CASE ~Result /\ ~ExitHook /\ ~(pos <= Len(NodeOrder))
  BY <1>4, NoEntryLeft
<1>5. QED
  BY <1>1, <1>2, <1>3, <1>4

\* Only the terminalization and the last write of a successful run settle the journal.
LEMMA SettledStep ==
    ASSUME TypeOK, [Next]_vars, ~TerminateRun, ~ResultWrite
    PROVE  pc' \in SettledPlaces <=> pc \in SettledPlaces
<1>1. ASSUME Cancel \/ DeadlinePasses \/ RefuseRun \/ Claim \/ Prerequisites \/ StopAtNode \/
        SkipNode \/ DecideNode \/ NodeWrite \/ SelectNode \/ EnterNode \/ StepInput \/ AttemptWrite
        \/ InvokeStep \/ RetryWrite \/ RetryWait \/ Settle \/ SuccessWrite \/ MapInput \/ MapWrite
        \/ Expand \/ ItemInputs \/ ItemsWrite \/ MapInvoke \/ MapSettle \/ RoundWrite \/ RoundWait
        \/ MapDone \/ Collect \/ CollectWrite \/ Result \/ TerminalWrite \/ ExitHook \/ HookWrite
      PROVE  pc' \in SettledPlaces <=> pc \in SettledPlaces
  BY <1>1 DEF Cancel, DeadlinePasses, RefuseRun, Claim, Prerequisites, StopAtNode, SkipNode,
     DecideNode, NodeWrite, SelectNode, EnterNode, StepInput, AttemptWrite, InvokeStep,
     RetryWrite, RetryWait, Settle, SuccessWrite, MapInput, MapWrite, Expand, ItemInputs,
     ItemsWrite, MapInvoke, MapSettle, RoundWrite, RoundWait, MapDone, Collect, CollectWrite,
     Result, TerminalWrite, ExitHook, HookWrite, Goto, Persist, Charge, Fail, ErrorFor,
     AtNode, Active, NextNode, StepOutcome, StepUndispatched, InvokeError, FailMap,
     StartRound, SettleRound, SettledPlaces
<1>2. CASE UNCHANGED vars
  BY <1>2 DEF vars, SettledPlaces
<1>3. QED
  BY <1>1, <1>2 DEF Next, RunStep, StepNode, MapNode, Finished

\* What no step of the run may do to an entry: change what the plan fixed, or touch
\* completed work.
Keeps(e, f) ==
    /\ f.isMap = e.isMap /\ f.collect = e.collect
    /\ Preserved(e, f)
    /\ \A i \in DOMAIN e.items : Preserved(e.items[i], f.items[i])

LEMMA KeepsSelf == ASSUME NEW e, NEW f, f = e PROVE Keeps(e, f)
BY DEF Keeps, Preserved

LEMMA KeepsStep ==
    ASSUME NEW e \in StepRecs, e.status # "succeeded", NEW f, SameRest(e, f)
    PROVE  Keeps(e, f)
BY DEF Keeps, Preserved, SameRest

LEMMA KeepsFailMap ==
    ASSUME NEW m \in Manifests, ActiveNode \in StepIds, Running(m.steps[ActiveNode]),
           Open(m.steps[ActiveNode], 1), NEW err, FailMap(m, err)
    PROVE  Keeps(m.steps[ActiveNode], manifest'.steps[ActiveNode])
<1>1. PICK status \in {"failed", "cancelled"} : manifest' = FailMapNode(m, ActiveNode, status)
  BY DEF FailMap
<1>2. LET e == manifest'.steps[ActiveNode] IN
      /\ e.isMap = m.steps[ActiveNode].isMap /\ e.collect = m.steps[ActiveNode].collect
      /\ DOMAIN e.items = DOMAIN m.steps[ActiveNode].items
      /\ \A i \in DOMAIN e.items :
            Closed(m.steps[ActiveNode].items[i]) => e.items[i] = m.steps[ActiveNode].items[i]
  BY <1>1, MapEnds
<1>3. \A i \in DOMAIN m.steps[ActiveNode].items :
        m.steps[ActiveNode].items[i].status = "succeeded" => Closed(m.steps[ActiveNode].items[i])
  BY DEF Running, Fresh, Unfinished, Open, Waiting
<1>4. m.steps[ActiveNode].status # "succeeded"
  BY DEF Open
<1>5. QED
  BY <1>2, <1>3, <1>4 DEF Keeps, Preserved

LEMMA KeepsMapSettle ==
    ASSUME TypeOK, ShapeHere, MapSettle
    PROVE  Keeps(manifest.steps[ActiveNode], manifest'.steps[ActiveNode])
<1>1. pc = "mapSettle" /\ pc \in MapOpenPlaces
  BY DEF MapSettle, MapOpenPlaces, MapPlaces
<1>2. AfterRound(ActiveEntry) /\ Open(ActiveEntry, 1) /\ ActiveItems = ActiveEntry.items
  BY <1>1 DEF ShapeHere, MapShape, ActiveItems, ActiveEntry
<1>3. attempt \in Nat \ {0} /\ ActiveNode \in StepIds
  BY <1>1, <1>2, PlaceKept DEF AfterRound, TypeOK, RoundOK, MapPlaces
<1>4. PICK verified \in SUBSET DOMAIN round.outs, m \in Manifests :
        LET e == m.steps[ActiveNode]
            items == SettledItems(verified)
        IN
        /\ e.status = ActiveEntry.status /\ e.attempts = ActiveEntry.attempts
        /\ e.isMap = ActiveEntry.isMap /\ e.collect = ActiveEntry.collect
        /\ \/ e.items = items /\ FailMap(m, RoundError)
           \/ manifest' = m /\ e.items = CloseRetries(items, RetryItems)
           \/ manifest' = m /\ e.items = items
  BY MapSettleIs DEF ActiveEntry
<1> DEFINE e == m.steps[ActiveNode]
           items == SettledItems(verified)
           fate == SucceededNow(verified) \cup RetryItems \cup CollectedNow \cup FailedNow(verified)
<1> HIDE DEF e, items, fate
<1>5. DOMAIN items = DOMAIN ActiveItems
  BY <1>1, SettledItemsType DEF items
<1>6. ASSUME NEW i \in DOMAIN ActiveItems
      PROVE  /\ i \in SucceededNow(verified) => Closed(items[i]) /\ items[i].status = "succeeded"
             /\ i \in RetryItems => Waiting(items[i], attempt)
             /\ i \in CollectedNow \cup FailedNow(verified) =>
                    Closed(items[i]) /\ items[i].status = "failed"
             /\ i \notin fate => items[i] = ActiveItems[i]
  BY <1>1, <1>2, SettledItemIs DEF items, fate
<1>7. ASSUME NEW i \in DOMAIN ActiveItems, ActiveItems[i].status = "succeeded"
      PROVE  i \notin DOMAIN round.outs /\ i \notin fate /\ items[i] = ActiveItems[i]
  <2>1. i \in DOMAIN round.outs => ActiveItems[i].status \in {"cancelled", "failed", "running"}
    BY <1>2 DEF AfterRound, Recorded, Open
  <2>2. i \notin DOMAIN round.outs
    BY <1>7, <2>1
  <2>3. i \notin fate
    BY <2>2, RoundFates DEF fate
  <2>4. QED
    BY <1>6, <2>2, <2>3
<1>8. ASSUME e.items = items \/ e.items = CloseRetries(items, RetryItems)
      PROVE  Keeps(ActiveEntry, e)
  <2>1. \A i \in DOMAIN ActiveItems : ActiveItems[i].status = "succeeded" => e.items[i] = ActiveItems[i]
    BY <1>5, <1>7, <1>8 DEF CloseRetries, fate
  <2>2. ActiveEntry.status # "succeeded"
    BY <1>2 DEF Open
  <2>3. QED
    BY <1>2, <1>4, <2>1, <2>2 DEF Keeps, Preserved, e
<1>9. CASE manifest' = m
  BY <1>4, <1>8, <1>9 DEF e, items, ActiveEntry
<1>10. CASE e.items = items /\ FailMap(m, RoundError)
  <2>1. Keeps(ActiveEntry, e)
    BY <1>8, <1>10
  <2>2. Open(e, 1)
    BY <1>2, <1>4 DEF Open, e
  <2>3. Running(e)
    <3>1. ASSUME NEW i \in DOMAIN items
          PROVE  Fresh(items[i]) \/ Closed(items[i]) \/ Unfinished(items[i])
      <4>1. CASE i \in fate
        BY <1>3, <1>5, <1>6, <4>1 DEF fate, Unfinished
      <4>2. CASE i \notin fate
        <5>1. items[i] = ActiveEntry.items[i] /\ Running(ActiveEntry)
          BY <1>1, <1>2, <1>5, <1>6, <4>2, MapIsRunning
        <5>2. QED
          BY <1>2, <1>5, <5>1 DEF Running
      <4>3. QED
        BY <4>1, <4>2
    <3>2. Unfinished(e)
      BY <2>2 DEF Unfinished
    <3>3. QED
      BY <1>10, <3>1, <3>2 DEF Running
  <2>4. Keeps(e, manifest'.steps[ActiveNode])
    BY <1>3, <1>10, <2>2, <2>3, KeepsFailMap DEF e
  <2>5. DOMAIN e.items = DOMAIN ActiveEntry.items /\ ActiveEntry.status # "succeeded"
    BY <1>2, <1>5, <1>10 DEF Open
  <2>6. QED
    BY <2>1, <2>4, <2>5 DEF Keeps, Preserved, ActiveEntry
<1>11. QED
  BY <1>4, <1>9, <1>10 DEF e, items

\* The steps that mark the journal in memory.
LEMMA ManifestChanges ==
    ASSUME [Next]_vars
    PROVE  \/ UNCHANGED manifest
           \/ SkipNode \/ DecideNode \/ StepInput \/ InvokeStep \/ RetryWait \/ Settle
           \/ MapInput \/ Expand \/ ItemInputs \/ MapInvoke \/ MapSettle \/ RoundWait \/ MapDone
           \/ Collect \/ Result \/ TerminateRun \/ ExitHook
<1>1. ASSUME Cancel \/ DeadlinePasses \/ RefuseRun \/ Claim \/ Prerequisites \/ StopAtNode \/
        NodeWrite \/ SelectNode \/ EnterNode \/ AttemptWrite \/ RetryWrite \/ SuccessWrite \/
        MapWrite \/ ItemsWrite \/ RoundWrite \/ CollectWrite \/ ResultWrite \/ TerminalWrite \/
        HookWrite
      PROVE  UNCHANGED manifest
  BY <1>1 DEF Cancel, DeadlinePasses, RefuseRun, Claim, Prerequisites, StopAtNode, NodeWrite,
     SelectNode, EnterNode, AttemptWrite, RetryWrite, SuccessWrite, MapWrite, ItemsWrite,
     RoundWrite, CollectWrite, ResultWrite, TerminalWrite, HookWrite, Goto, Persist, Charge,
     Fail, ErrorFor, AtNode, NextNode, Active, InvokeError, StartRound
<1>2. CASE UNCHANGED vars
  BY <1>2 DEF vars
<1>3. QED
  BY <1>1, <1>2 DEF Next, RunStep, StepNode, MapNode, Finished

\* The handlers keep the plan's flags and completed work of their entry.
LEMMA KeepsActive ==
    ASSUME TypeOK, ShapeHere, ActiveNode \in StepIds, [Next]_vars, ~TerminateRun
    PROVE  Keeps(manifest.steps[ActiveNode], manifest'.steps[ActiveNode])
<1> DEFINE Goal == Keeps(manifest.steps[ActiveNode], manifest'.steps[ActiveNode])
<1>0. manifest \in Manifests /\ manifest.steps[ActiveNode] \in StepRecs
      /\ manifest.steps[ActiveNode] \in Entries
  BY StepEntry DEF TypeOK, JournalsOK
<1>1. ASSUME UNCHANGED manifest PROVE Goal
  BY <1>1, KeepsSelf
<1>2. ASSUME SkipNode PROVE Goal
  <2>1. pc = "node" /\ manifest' = MarkStepSkipped(manifest, ActiveNode)
    BY <1>2 DEF SkipNode, AtNode, StepIds
  <2>2. SameRest(manifest.steps[ActiveNode], manifest'.steps[ActiveNode])
    BY <1>0, <2>1, MarkSkippedIs
  <2>3. manifest.steps[ActiveNode].status # "succeeded"
    BY <2>1 DEF ShapeHere, BlankShape, BlankPlaces, Blank, Fresh, ActiveEntry
  <2>4. QED
    BY <1>0, <2>2, <2>3, KeepsStep
<1>3. ASSUME DecideNode PROVE Goal
  BY <1>3 DEF DecideNode, Active, StepIds
<1>4. ASSUME StepInput \/ MapInput \/ RetryWait PROVE Goal
  <2>0. PICK next \in Nat : next = attempt + 1
    BY DEF TypeOK, RoundOK
  <2>1. /\ pc \in {"stepInput", "mapInput", "retryWait"}
        /\ \/ UNCHANGED manifest
           \/ manifest' = MarkAttemptRunning(manifest, ActiveNode, 1)
           \/ manifest' = MarkAttemptRunning(manifest, ActiveNode, next)
    BY <1>4, <2>0 DEF StepInput, MapInput, RetryWait
  <2>2. manifest.steps[ActiveNode].status # "succeeded"
    BY <2>1 DEF ShapeHere, BlankShape, BlankPlaces, Blank, Fresh, ActiveEntry, StepShape, Waiting
  <2>3. ASSUME NEW n \in Nat, manifest' = MarkAttemptRunning(manifest, ActiveNode, n)
        PROVE  SameRest(manifest.steps[ActiveNode], manifest'.steps[ActiveNode])
    BY <1>0, <2>3, MarkRunningIs, EntryRunningIs
  <2>4. QED
    BY <1>0, <2>1, <2>2, <2>3, KeepsStep, KeepsSelf
<1>5. ASSUME InvokeStep PROVE Goal
  <2>1. manifest.steps[ActiveNode].status # "succeeded"
    BY <1>5, InvokeStepIs DEF ShapeHere, ActiveEntry, StepShape, Open
  <2>2. ASSUME manifest' = MarkUndispatched(manifest, ActiveNode)
        PROVE  SameRest(manifest.steps[ActiveNode], manifest'.steps[ActiveNode])
    BY <1>0, <2>2, DropIs, DropUndispatchedIs
  <2>3. ASSUME manifest' = MarkAttemptRetrying(manifest, ActiveNode)
        PROVE  SameRest(manifest.steps[ActiveNode], manifest'.steps[ActiveNode])
    BY <1>0, <2>3, MarkRetryingIs, EntryRetryingIs
  <2>4. ASSUME NEW o, manifest' = MarkAttemptTerminal(manifest, ActiveNode, RecordedStatus(o))
        PROVE  SameRest(manifest.steps[ActiveNode], manifest'.steps[ActiveNode])
    <3>1. PICK status \in {"failed", "cancelled"} : status = RecordedStatus(o)
      BY DEF RecordedStatus
    <3>2. QED
      BY <1>0, <2>4, <3>1, MarkTerminalIs, EntryTerminalIs
  <2>5. \/ manifest' = MarkUndispatched(manifest, ActiveNode)
        \/ UNCHANGED manifest
        \/ manifest' = MarkAttemptRetrying(manifest, ActiveNode)
        \/ \E o : manifest' = MarkAttemptTerminal(manifest, ActiveNode, RecordedStatus(o))
    BY <1>5, InvokeStepIs
  <2>6. QED
    BY <1>0, <2>1, <2>2, <2>3, <2>4, <2>5, KeepsStep, KeepsSelf
<1>6. ASSUME Settle PROVE Goal
  <2>1. /\ pc = "settle"
        /\ \/ manifest' = MarkAttemptSucceeded(manifest, ActiveNode)
           \/ manifest' = MarkAttemptTerminal(manifest, ActiveNode, "failed")
    BY <1>6 DEF Settle
  <2>2. manifest.steps[ActiveNode].status # "succeeded"
    BY <2>1 DEF ShapeHere, ActiveEntry, StepShape, Open
  <2>3. SameRest(manifest.steps[ActiveNode], manifest'.steps[ActiveNode])
    <3>1. CASE manifest' = MarkAttemptSucceeded(manifest, ActiveNode)
      BY <1>0, <3>1, MarkSucceededIs, EntrySucceededIs
    <3>2. CASE manifest' = MarkAttemptTerminal(manifest, ActiveNode, "failed")
      BY <1>0, <3>2, MarkTerminalIs, EntryTerminalIs
    <3>3. QED
      BY <2>1, <3>1, <3>2
  <2>4. QED
    BY <1>0, <2>2, <2>3, KeepsStep
<1>7. ASSUME pc \in MapOpenPlaces, NEW err, FailMap(manifest, err) PROVE Goal
  <2>1. Open(manifest.steps[ActiveNode], 1) /\ Running(manifest.steps[ActiveNode])
    BY <1>7, MapIsRunning DEF ActiveEntry
  <2>2. QED
    BY <1>0, <1>7, <2>1, KeepsFailMap
<1>8. ASSUME ItemInputs \/ RoundWait \/ MapDone PROVE Goal
  <2>1. pc \in MapOpenPlaces /\ (UNCHANGED manifest \/ \E err : FailMap(manifest, err))
    BY <1>8 DEF ItemInputs, RoundWait, MapDone, MapOpenPlaces, MapPlaces
  <2>2. QED
    BY <1>7, <2>1, KeepsSelf
<1>9. ASSUME Expand PROVE Goal
  <2>1. pc = "expand" /\ pc \in MapOpenPlaces
    BY <1>9 DEF Expand, MapOpenPlaces, MapPlaces
  <2>2. PICK count \in Int : count = InputForNode(res, ActiveNode).items
    BY <2>1, PlaceKept, InputItems DEF MapOpenPlaces
  <2>3. CASE count < 0
    BY <1>7, <1>9, <2>1, <2>2, <2>3 DEF Expand
  <2>4. CASE ~(count < 0)
    <3>1. manifest' = MarkMapItemsPending(manifest, ActiveNode, count)
      BY <1>9, <2>2, <2>4 DEF Expand
    <3>2. PICK items : items = [i \in 1..count |-> PendingItem]
      OBVIOUS
    <3>3. items \in Seq(ItemRecs)
      BY <2>4, <3>2, PendingItemsType
    <3>4. manifest' = WithStepItems(manifest, ActiveNode, items)
      BY <3>1, <3>2 DEF MarkMapItemsPending, WithStepItems
    <3>5. LET e == manifest'.steps[ActiveNode] IN
          e.isMap = manifest.steps[ActiveNode].isMap /\ e.collect = manifest.steps[ActiveNode].collect
      BY <1>0, <3>3, <3>4, NewItems
    <3>6. manifest.steps[ActiveNode].status # "succeeded" /\ DOMAIN manifest.steps[ActiveNode].items = {}
      BY <2>1 DEF ShapeHere, MapShape, Open, ActiveEntry
    <3>7. QED
      BY <3>5, <3>6 DEF Keeps, Preserved
  <2>5. QED
    BY <2>3, <2>4
<1>10. ASSUME MapInvoke PROVE Goal
  <2>1. pc = "mapInvoke" /\ DOMAIN round'.outs \subseteq pending
    BY <1>10, MapInvokeIs
  <2>2. InRound(ActiveEntry) /\ Open(ActiveEntry, 1)
    BY <2>1 DEF ShapeHere, MapShape, RoundPlaces, MapOpenPlaces, MapPlaces
  <2>3. \A i \in DOMAIN ActiveEntry.items : i \in DOMAIN round'.outs => ActiveEntry.items[i].status # "succeeded"
    BY <2>1, <2>2 DEF InRound, Idle
  <2>4. QED
    BY <1>10, <2>2, <2>3, MapInvokeItems DEF Keeps, Preserved, Open, ActiveEntry
<1>11. ASSUME MapSettle PROVE Goal
  BY <1>11, KeepsMapSettle
<1>12. ASSUME Collect PROVE Goal
  <2>1. /\ pc = "collect" /\ pc \in MapOpenPlaces
        /\ \/ manifest' = MarkAttemptSucceeded(manifest, ActiveNode)
           \/ \E err : FailMap(manifest, err)
    BY <1>12 DEF Collect, MapOpenPlaces, MapPlaces
  <2>2. manifest.steps[ActiveNode].status # "succeeded"
    BY <2>1 DEF ShapeHere, MapShape, Open, ActiveEntry
  <2>3. ASSUME manifest' = MarkAttemptSucceeded(manifest, ActiveNode) PROVE Goal
    <3>1. SameRest(manifest.steps[ActiveNode], manifest'.steps[ActiveNode])
      BY <1>0, <2>3, MarkSucceededIs, EntrySucceededIs
    <3>2. QED
      BY <1>0, <2>2, <3>1, KeepsStep
  <2>4. QED
    BY <1>7, <2>1, <2>3
<1>13. ASSUME Result \/ ExitHook PROVE Goal
  <2>1. manifest'.steps = manifest.steps
    BY <1>13, ResultIs, ExitHookIs
  <2>2. QED
    BY <2>1, KeepsSelf
<1> HIDE DEF Goal
<1>14. Goal
  BY <1>1, <1>2, <1>3, <1>4, <1>5, <1>6, <1>8, <1>9, <1>10, <1>11, <1>12, <1>13, ManifestChanges
<1>15. QED
  BY <1>14 DEF Goal

-----------------------------------------------------------------------------
\* Every entry of the journal.

\* Each step of the plan is a past node's, the active one or a future node's.
LEMMA StepPosition ==
    ASSUME NEW s \in StepIds
    PROVE  \E i \in 1..Len(NodeOrder) : s = NodeOrder[i]
BY PlanFacts DEF StepIds, NodeIds

LEMMA AllLegal ==
    ASSUME TypeOK, Control, JournalInv, NEW s \in StepIds
    PROVE  Legal(manifest.steps[s])
<1>1. PICK i \in 1..Len(NodeOrder) : s = NodeOrder[i]
  BY StepPosition
<1>2. pos \in Nat /\ i \in Nat /\ Len(NodeOrder) \in Nat
  BY PlanFacts DEF TypeOK, PlaceOK
<1>3. CASE i < pos
  BY <1>1, <1>3 DEF JournalInv, PastDone, Legal
<1>4. CASE i > pos
  BY <1>1, <1>4 DEF JournalInv, FutureBlank, Legal
<1>5. CASE i = pos
  <2>1. pos <= Len(NodeOrder) /\ s = ActiveNode
    BY <1>1, <1>5 DEF ActiveNode
  <2>2. ShapeHere
    BY <2>1 DEF JournalInv, Shape
  <2>3. pc # "resultWrite"
    BY <1>2, <2>1 DEF Control, ResultPending
  <2>4. QED
    BY <2>1, <2>2, <2>3, ShapeLegal DEF ActiveEntry
<1>6. QED
  BY <1>2, <1>3, <1>4, <1>5

\* The terminalization, entry by entry.
LEMMA TerminateShapes ==
    ASSUME TypeOK, TypeOK', TerminateRun, NEW s \in StepIds
    PROVE  LET e == manifest.steps[s]
               f == manifest'.steps[s]
           IN  /\ Blank(e) => Inactive(f)
               /\ Inactive(e) => Inactive(f)
               /\ Done(e) => Done(f)
               /\ Running(e) \/ Stopped(e) => Stopped(f)
               /\ f.isMap = e.isMap /\ f.collect = e.collect
<1>1. manifest \in Manifests /\ manifest' \in Manifests
  BY DEF TypeOK, JournalsOK
<1>2. PICK e \in StepRecs, f \in StepRecs : e = manifest.steps[s] /\ f = manifest'.steps[s]
  BY <1>1, StepEntry
<1>3. TerminalStatus \in {"failed", "cancelled"}
  BY TerminateRunIs
<1>4. /\ f.status = TerminateEntry(e, TerminalStatus).status
      /\ f.attempts = TerminateEntry(e, TerminalStatus).attempts
      /\ f.isMap = e.isMap /\ f.collect = e.collect
      /\ DOMAIN f.items = DOMAIN e.items
      /\ \A i \in DOMAIN e.items : f.items[i] = TerminateEntry(e.items[i], TerminalStatus)
  BY <1>2, TerminateRunIs
<1>5. /\ Blank(e) => Inactive(f)
      /\ Inactive(e) => Inactive(f)
      /\ Done(e) => Done(f)
      /\ Running(e) \/ Stopped(e) => Stopped(f)
  BY <1>3, <1>4, StepEnds
<1>6. QED
  BY <1>2, <1>4, <1>5

LEMMA SameStep ==
    ASSUME NEW e \in StepRecs, NEW f \in StepRecs,
           f.status = e.status, f.attempts = e.attempts, f.isMap = e.isMap, f.collect = e.collect,
           DOMAIN f.items = DOMAIN e.items, \A i \in DOMAIN e.items : f.items[i] = e.items[i]
    PROVE  f = e
<1>1. e.items \in Seq(ItemRecs) /\ f.items \in Seq(ItemRecs)
  BY DEF StepRecs
<1>2. e.items \in [1..Len(e.items) -> ItemRecs] /\ f.items \in [1..Len(f.items) -> ItemRecs]
  BY <1>1, LenProperties
<1>3. f.items = e.items
  BY <1>2
<1>4. QED
  BY <1>3 DEF StepRecs

LEMMA TerminateKeeps ==
    ASSUME TypeOK, TypeOK', TerminateRun, NEW s \in StepIds, Legal(manifest.steps[s])
    PROVE  Keeps(manifest.steps[s], manifest'.steps[s])
<1>1. manifest \in Manifests /\ manifest' \in Manifests
  BY DEF TypeOK, JournalsOK
<1>2. PICK e \in StepRecs, f \in StepRecs : e = manifest.steps[s] /\ f = manifest'.steps[s]
  BY <1>1, StepEntry
<1>3. TerminalStatus \in {"failed", "cancelled"}
  BY TerminateRunIs
<1>4. /\ f.status = TerminateEntry(e, TerminalStatus).status
      /\ f.attempts = TerminateEntry(e, TerminalStatus).attempts
      /\ f.isMap = e.isMap /\ f.collect = e.collect
      /\ DOMAIN f.items = DOMAIN e.items
      /\ \A i \in DOMAIN e.items : f.items[i] = TerminateEntry(e.items[i], TerminalStatus)
  BY <1>2, TerminateRunIs
<1>5. e \in Entries /\ \A i \in DOMAIN e.items : e.items[i] \in Entries
  BY <1>1, <1>2, StepEntry DEF Entries
<1>6. \A i \in DOMAIN e.items : Closed(e.items[i]) => f.items[i] = e.items[i]
  BY <1>3, <1>4, <1>5, EntryEnds
<1>7. \A i \in DOMAIN e.items : e.items[i].status = "succeeded" => f.items[i] = e.items[i]
  BY <1>3, <1>4, <1>5, TerminateEntryIs
<1>8. ASSUME e.status = "succeeded" PROVE f = e
  <2>1. TerminateEntry(e, TerminalStatus) = e
    BY <1>3, <1>5, <1>8, TerminateEntryIs
  <2>2. Done(e)
    BY <1>2, <1>8 DEF Legal, Blank, Fresh, Inactive, Running, Unfinished, Open, Waiting, Stopped
  <2>3. \A i \in DOMAIN e.items : Closed(e.items[i])
    BY <1>8, <2>2 DEF Done, Kept
  <2>4. QED
    BY <1>4, <1>6, <2>1, <2>3, SameStep
<1>9. QED
  BY <1>2, <1>4, <1>7, <1>8 DEF Keeps, Preserved

\* No step of the run changes what the plan fixed, or completed work.
LEMMA AllKeep ==
    ASSUME TypeOK, TypeOK', Control, JournalInv, [Next]_vars, NEW s \in StepIds
    PROVE  Keeps(manifest.steps[s], manifest'.steps[s])
<1>1. CASE TerminateRun
  BY <1>1, AllLegal, TerminateKeeps
<1>2. CASE ~TerminateRun /\ pos <= Len(NodeOrder) /\ s = ActiveNode
  BY <1>2, KeepsActive DEF JournalInv, Shape
<1>3. CASE ~TerminateRun /\ ~(pos <= Len(NodeOrder) /\ s = ActiveNode)
  BY <1>3, OtherSteps, KeepsSelf
<1>4. QED
  BY <1>1, <1>2, <1>3

LEMMA AsPlannedStep ==
    ASSUME TypeOK, TypeOK', Control, JournalInv, [Next]_vars
    PROVE  AsPlanned'
BY AllKeep DEF AsPlanned, JournalInv, Keeps

\* A node is left only once its entry is done.
LEMMA LeaveNode ==
    ASSUME TypeOK, [Next]_vars, pos' # pos
    PROVE  /\ pos' = pos + 1 /\ pos <= Len(NodeOrder)
           /\ UNCHANGED manifest
           /\ ActiveNode \in StepIds => pc \in DonePlaces
<1>0. pos' # pos
  OBVIOUS
<1>1. ASSUME Cancel \/ DeadlinePasses \/ RefuseRun \/ Claim \/ Prerequisites \/ StopAtNode \/
        SkipNode \/ DecideNode \/ EnterNode \/ StepInput \/ AttemptWrite \/ InvokeStep \/
        RetryWrite \/ RetryWait \/ Settle \/ MapInput \/ MapWrite \/ Expand \/ ItemInputs \/
        ItemsWrite \/ MapInvoke \/ MapSettle \/ RoundWrite \/ RoundWait \/ MapDone \/ Collect \/
        Result \/ ResultWrite \/ TerminateRun \/ TerminalWrite \/ ExitHook \/ HookWrite
      PROVE  UNCHANGED pos
  BY <1>1 DEF Cancel, DeadlinePasses, RefuseRun, Claim, Prerequisites, StopAtNode, SkipNode,
     DecideNode, EnterNode, StepInput, AttemptWrite, InvokeStep, RetryWrite, RetryWait,
     Settle, MapInput, MapWrite, Expand, ItemInputs, ItemsWrite, MapInvoke, MapSettle,
     RoundWrite, RoundWait, MapDone, Collect, Result, ResultWrite, TerminateRun,
     TerminalWrite, ExitHook, HookWrite, Goto, Persist, Charge, Fail, ErrorFor, AtNode,
     Active, StepOutcome, StepUndispatched, InvokeError, FailMap, StartRound, SettleRound
<1>2. ASSUME NodeWrite \/ SelectNode \/ SuccessWrite \/ CollectWrite
      PROVE  UNCHANGED manifest /\ (ActiveNode \in StepIds => pc \in DonePlaces)
  BY <1>2 DEF NodeWrite, SelectNode, SuccessWrite, CollectWrite, Active, StepIds, DonePlaces
<1>3. CASE UNCHANGED vars
  BY <1>0, <1>3 DEF vars
<1>4. pos' = pos + 1 /\ pos <= Len(NodeOrder)
  BY <1>0, ProgressStep
<1>5. QED
  BY <1>0, <1>1, <1>2, <1>3, <1>4 DEF Next, RunStep, StepNode, MapNode, Finished

LEMMA PastDoneStep ==
    ASSUME TypeOK, TypeOK', JournalInv, [Next]_vars
    PROVE  PastDone'
<1>1. SUFFICES ASSUME NEW i \in 1..Len(NodeOrder), i < pos', NodeOrder[i] \in StepIds
               PROVE  Done(manifest'.steps[NodeOrder[i]])
  BY DEF PastDone
<1>2. pos \in Nat /\ i \in Nat /\ Len(NodeOrder) \in Nat
  BY PlanFacts DEF TypeOK, PlaceOK
<1>3. CASE i < pos
  <2>1. Done(manifest.steps[NodeOrder[i]])
    BY <1>1, <1>3 DEF JournalInv, PastDone
  <2>2. CASE TerminateRun
    BY <1>1, <2>1, <2>2, TerminateShapes
  <2>3. CASE ~TerminateRun
    <3>1. ~(pos <= Len(NodeOrder) /\ NodeOrder[i] = ActiveNode)
      BY <1>1, <1>2, <1>3, PlanFacts DEF ActiveNode, TypeOK, PlaceOK
    <3>2. QED
      BY <1>1, <2>1, <2>3, <3>1, OtherSteps
  <2>4. QED
    BY <2>2, <2>3
<1>4. CASE ~(i < pos)
  <2>1. pos' # pos
    BY <1>1, <1>4
  <2>2. i = pos /\ pos <= Len(NodeOrder) /\ UNCHANGED manifest
    BY <1>1, <1>2, <1>4, <2>1, LeaveNode
  <2>3. ActiveNode = NodeOrder[i] /\ pc \in DonePlaces
    BY <1>1, <2>1, <2>2, LeaveNode DEF ActiveNode
  <2>4. QED
    BY <1>1, <2>2, <2>3 DEF JournalInv, Shape, ShapeHere, DoneShape, ActiveEntry
<1>5. QED
  BY <1>3, <1>4

LEMMA FutureBlankStep ==
    ASSUME TypeOK, TypeOK', Control, JournalInv, [Next]_vars
    PROVE  FutureBlank'
<1>1. SUFFICES ASSUME NEW i \in 1..Len(NodeOrder), i > pos', NodeOrder[i] \in StepIds
               PROVE  IF pc' \in SettledPlaces THEN Inactive(manifest'.steps[NodeOrder[i]])
                      ELSE Blank(manifest'.steps[NodeOrder[i]])
  BY DEF FutureBlank
<1>2. pos \in Nat /\ pos' \in Nat /\ i \in Nat /\ Len(NodeOrder) \in Nat
  BY PlanFacts DEF TypeOK, PlaceOK
<1>3. i > pos
  BY <1>1, <1>2, ProgressStep
<1>4. IF pc \in SettledPlaces THEN Inactive(manifest.steps[NodeOrder[i]])
      ELSE Blank(manifest.steps[NodeOrder[i]])
  BY <1>1, <1>3 DEF JournalInv, FutureBlank
<1>5. CASE TerminateRun
  <2>1. pc = "terminal" /\ pc' = "terminalWrite"
    BY <1>5 DEF TerminateRun, Goto
  <2>2. QED
    BY <1>1, <1>4, <1>5, <2>1, TerminateShapes DEF SettledPlaces
<1>6. CASE ResultWrite
  <2>1. pos = Len(NodeOrder) + 1
    BY <1>6 DEF ResultWrite, Control, ResultPending
  <2>2. QED
    BY <1>2, <1>3, <2>1
<1>7. CASE ~TerminateRun /\ ~ResultWrite
  <2>1. ~(pos <= Len(NodeOrder) /\ NodeOrder[i] = ActiveNode)
    BY <1>2, <1>3, PlanFacts DEF ActiveNode, TypeOK, PlaceOK
  <2>2. manifest'.steps[NodeOrder[i]] = manifest.steps[NodeOrder[i]]
    BY <1>1, <1>7, <2>1, OtherSteps
  <2>3. QED
    BY <1>4, <1>7, <2>2, SettledStep
<1>8. QED
  BY <1>5, <1>6, <1>7

LEMMA ShapeStep ==
    ASSUME TypeOK, TypeOK', Control, Cause, JournalInv, [Next]_vars
    PROVE  Shape'
<1>0. Shape /\ FutureBlank /\ AsPlanned /\ RoundReported
  BY DEF JournalInv, Cause
<1>1. ASSUME Cancel \/ DeadlinePasses \/ UNCHANGED vars PROVE Shape'
  <2>1. UNCHANGED <<pc, pos, attempt, pending, round, collected, runErr, manifest>>
    BY <1>1 DEF Cancel, DeadlinePasses, vars
  <2>2. QED
    BY <1>0, <2>1, ShapeStays
<1>2. QED
  BY <1>0, <1>1, ShapeQuiet, ShapeNext, ShapeWrites, ShapeEnd, ShapeTerminate, ShapeSkip,
     ShapeStart, ShapeRetry, ShapeInvoke, ShapeSettle, ShapeExpand, ShapeItems, ShapeRoundWait,
     ShapeMapDone, ShapeCollect, ShapeMapInvoke, ShapeMapSettle
     DEF Next, RunStep, StepNode, MapNode, Finished

LEMMA JournalInit == ASSUME Init PROVE JournalInv
<1>1. \A s \in StepIds :
        /\ Blank(manifest.steps[s])
        /\ manifest.steps[s].isMap = (Node[s].kind = "map")
        /\ manifest.steps[s].collect = Node[s].collect
  BY DEF Init, NewManifest, NewStep, Blank, Fresh
<1>2. pc \in BlankPlaces /\ runErr = "none" /\ pc = "claim" /\ pos = 1
  BY DEF Init, BlankPlaces
<1>3. Shape
  BY <1>1, <1>2 DEF Shape, ShapeHere, BlankShape, DoneShape, StepShape, MapShape, EndShape,
     BlankPlaces, DonePlaces, MapOpenPlaces, MapPlaces, RoundPlaces, SettledPlaces, ActiveEntry
<1>4. PastDone
  BY <1>2, PlanFacts DEF PastDone
<1>5. FutureBlank
  BY <1>1, <1>2 DEF FutureBlank, SettledPlaces
<1>6. QED
  BY <1>1, <1>3, <1>4, <1>5 DEF JournalInv, AsPlanned

(***************************************************************************)
(* The shape of the journal in memory, at every place of Run: the entries  *)
(* of the nodes behind the loop are done, those ahead of it untouched (or, *)
(* once Manifest.Terminate ran, not started), and the active node's entry, *)
(* its attempts and its items are what the mark functions left.            *)
(***************************************************************************)
THEOREM JournalInvariant == Spec => []JournalInv
<1>1. Init => JournalInv
  BY JournalInit
<1>2. TypeOK /\ TypeOK' /\ Control /\ Cause /\ JournalInv /\ [Next]_vars => JournalInv'
  BY ShapeStep, PastDoneStep, FutureBlankStep, AsPlannedStep DEF JournalInv
<1>3. QED
  BY <1>1, <1>2, TypeCorrect, ControlInvariant, CauseInvariant, PTL DEF Spec

-----------------------------------------------------------------------------
\* What runjournal.Parse accepts of every durable journal.

\* The journal's header.
HeadInv ==
    /\ manifest.result # "none" <=> manifest.status = "succeeded"
    /\ manifest.exitHook # NoExitHook => manifest.status # "running"
    /\ manifest.status = "succeeded" => pos = Len(NodeOrder) + 1

LEMMA HeadStep ==
    ASSUME TypeOK, TypeOK', Control, HeadInv, [Next]_vars
    PROVE  HeadInv'
<1>0. pos \in Nat /\ pos' \in Nat /\ Len(NodeOrder) \in Nat
  BY PlanFacts DEF TypeOK, PlaceOK
<1>1. CASE Result
  <2>1. pos' = Len(NodeOrder) + 1 /\ pc = "node" /\ pos' = pos
    BY <1>1 DEF Result
  <2>2. manifest.status = "running"
    BY <2>1 DEF Control, OpenRun, OpenPlaces
  <2>3. QED
    BY <1>1, <2>1, <2>2, ResultIs DEF HeadInv
<1>2. CASE TerminateRun
  BY <1>2, TerminateRunIs DEF HeadInv, Control
<1>3. CASE ExitHook
  <2>1. pc = "hook" /\ pos' = pos
    BY <1>3 DEF ExitHook
  <2>2. manifest.status # "running"
    BY <2>1 DEF Control, Reporting, RunTerminal
  <2>3. QED
    BY <1>3, <2>1, <2>2, ExitHookIs DEF HeadInv
<1>4. CASE ~Result /\ ~TerminateRun /\ ~ExitHook
  <2>1. /\ manifest'.status = manifest.status
        /\ manifest'.result = manifest.result /\ manifest'.exitHook = manifest.exitHook
    BY <1>4, AdvanceStep DEF Advances
  <2>2. pos = Len(NodeOrder) + 1 => pos' = pos
    BY <1>0, ProgressStep
  <2>3. QED
    BY <2>1, <2>2 DEF HeadInv
<1>5. QED
  BY <1>1, <1>2, <1>3, <1>4

\* The reader accepts the attempts of every entry.
LEMMA TrailParses ==
    ASSUME NEW k \in Nat \ {0}, NEW last \in {"running", "succeeded", "failed", "cancelled"},
           NEW status \in Statuses,
           last = status \/ (last = "failed" /\ status \in {"running", "cancelled"})
    PROVE  /\ ValidateAttempts(Trail(k, last), status)
           /\ \A i \in DOMAIN Trail(k, last) : AttemptShape(Trail(k, last)[i])
           /\ Trail(k, last) # <<>>
<1>1. last \in Statuses
  BY StatusNames
<1>2. /\ Len(Trail(k, last)) = k /\ DOMAIN Trail(k, last) = 1..k /\ Trail(k, last) # <<>>
      /\ \A i \in 1..k : Trail(k, last)[i] = TrailAt(i, k, last)
  BY <1>1, TrailSeq
<1>3. \A i \in 1..k :
        /\ AttemptShape(TrailAt(i, k, last))
        /\ TrailAt(i, k, last).attempt = i
        /\ i < k => TrailAt(i, k, last).status = "failed"
        /\ i = k => TrailAt(i, k, last).status = last
  BY DEF TrailAt, AttemptShape, NewAttempt, PublishedAttempt
<1>4. QED
  BY <1>2, <1>3 DEF ValidateAttempts

LEMMA EmptyParses ==
    ASSUME NEW status
    PROVE  ValidateAttempts(<<>>, status) /\ DOMAIN <<>> = {}
BY DEF ValidateAttempts

\* The reader and one entry.
LEMMA EntryParses ==
    ASSUME NEW e \in Entries,
           \/ Fresh(e) \/ NotStarted(e) \/ Unfinished(e) \/ Closed(e)
           \/ e.status = "skipped" /\ e.attempts = <<>>
    PROVE  EntryShape(e) /\ ValidateAttempts(e.attempts, e.status)
<1>1. e.status \in Statuses
  BY EntryFields
<1>2. CASE e.status \in {"pending", "not-started", "skipped"} /\ e.attempts = <<>>
  BY <1>2, EmptyParses DEF EntryShape
<1>3. CASE \E k \in Nat \ {0} : \E last \in {"running", "succeeded", "failed", "cancelled"} :
             /\ e.attempts = Trail(k, last)
             /\ last = e.status \/ (last = "failed" /\ e.status \in {"running", "cancelled"})
  BY <1>1, <1>3, TrailParses DEF EntryShape
<1>4. QED
  BY <1>2, <1>3 DEF Fresh, NotStarted, Unfinished, Open, Waiting, Closed

\* The reader and one step or map, in a journal whose run is still running.
LEMMA StepParses ==
    ASSUME NEW e \in StepRecs, Legal(e)
    PROVE  /\ EntryShape(e) /\ ValidateAttempts(e.attempts, e.status)
           /\ e.status \in {"pending", "skipped", "not-started"} => e.items = <<>>
           /\ \A i \in DOMAIN e.items : ParseItem(e, e.items[i])
<1>1. e \in Entries /\ \A i \in DOMAIN e.items : e.items[i] \in Entries
  BY LenProperties DEF Entries, StepRecs
<1>2. EntryShape(e) /\ ValidateAttempts(e.attempts, e.status)
  BY <1>1, EntryParses DEF Legal, Blank, Inactive, Done, Running, Stopped, NotStarted
<1>3. e.status \in {"pending", "skipped", "not-started"} => e.items = <<>>
  <2>1. Unfinished(e) => e.status = "running"
    BY DEF Unfinished, Open, Waiting
  <2>2. QED
    BY <2>1 DEF Legal, Blank, Inactive, Done, Running, Stopped
<1>4. ASSUME NEW i \in DOMAIN e.items PROVE ParseItem(e, e.items[i])
  <2>1. ~Blank(e) /\ ~Inactive(e)
    BY <1>4 DEF Blank, Inactive
  <2>2. CASE Done(e)
    <3>1. e.status = "succeeded" /\ Kept(e, e.items[i])
      BY <2>1, <2>2, <1>4 DEF Done
    <3>2. QED
      BY <1>1, <3>1, EntryParses DEF Kept, ParseItem
  <2>3. CASE Running(e)
    <3>1. e.status = "running"
      BY <2>3 DEF Running, Unfinished, Open, Waiting
    <3>2. Fresh(e.items[i]) \/ Closed(e.items[i]) \/ Unfinished(e.items[i])
      BY <2>3 DEF Running
    <3>3. e.items[i].status # "not-started"
      BY <3>2 DEF Fresh, Closed, Unfinished, Open, Waiting
    <3>4. QED
      BY <1>1, <3>1, <3>2, <3>3, EntryParses DEF ParseItem
  <2>4. CASE Stopped(e)
    <3>1. /\ e.status \in {"failed", "cancelled"}
          /\ Closed(e.items[i]) \/ NotStarted(e.items[i])
      BY <2>4 DEF Stopped
    <3>2. e.items[i].status \notin {"pending", "running"}
      BY <3>1 DEF Closed, NotStarted
    <3>3. QED
      BY <1>1, <3>1, <3>2, EntryParses DEF ParseItem
  <2>5. QED
    BY <2>1, <2>2, <2>3, <2>4 DEF Legal
<1>5. QED
  BY <1>2, <1>3, <1>4

\* A run that succeeded has left all of its nodes behind.
LEMMA AllDone ==
    ASSUME TypeOK, JournalInv, pos = Len(NodeOrder) + 1, NEW s \in StepIds
    PROVE  Done(manifest.steps[s])
<1>1. PICK i \in 1..Len(NodeOrder) : s = NodeOrder[i]
  BY StepPosition
<1>2. i < pos
  BY <1>1, PlanFacts
<1>3. QED
  BY <1>1, <1>2 DEF JournalInv, PastDone

\* A settled journal has no unfinished entry.
LEMMA AllSettled ==
    ASSUME TypeOK, JournalInv, pc \in SettledPlaces, NEW s \in StepIds
    PROVE  manifest.steps[s].status \in Terminal
<1>0. manifest.steps[s] \in StepRecs
  BY StepEntry DEF TypeOK, JournalsOK
<1>1. PICK i \in 1..Len(NodeOrder) : s = NodeOrder[i]
  BY StepPosition
<1>2. pos \in Nat /\ i \in Nat /\ Len(NodeOrder) \in Nat
  BY PlanFacts DEF TypeOK, PlaceOK
<1>3. CASE i < pos
  BY <1>1, <1>3 DEF JournalInv, PastDone, Done, Terminal
<1>4. CASE i > pos
  BY <1>1, <1>4 DEF JournalInv, FutureBlank, Inactive, Terminal
<1>5. CASE i = pos
  BY <1>0, <1>1, <1>5 DEF JournalInv, Shape, ShapeHere, EndShape, ActiveNode, ActiveEntry,
     StepRecs, Statuses
<1>6. QED
  BY <1>2, <1>3, <1>4, <1>5

\* The node a fatal failure named.
LEMMA FailureParses ==
    ASSUME TypeOK, Cause, JournalInv
    PROVE  FailureNamed(manifest)
<1>1. SUFFICES ASSUME manifest.failure # "none" PROVE FailureNamed(manifest)
  BY DEF FailureNamed
<1>2. runErr = "fatal" /\ manifest.failure = ActiveNode
  BY <1>1 DEF Cause, FailureIsCause
<1>3. pos <= Len(NodeOrder) /\ ActiveNode \in StepIds
  <2>1. PICK h \in history : h[1] = ActiveNode
    BY <1>2 DEF Cause, CauseIsFatal
  <2>2. h[1] \in StepIds
    BY <2>1 DEF TypeOK, RestOK
  <2>3. QED
    BY <1>2, <2>1, <2>2 DEF TypeOK, PlaceOK
<1>4. FatalShape(ActiveEntry)
  BY <1>2, <1>3 DEF JournalInv, Shape, ShapeHere, EndShape
<1>5. QED
  BY <1>2, <1>4, ClosedIsEnded DEF FailureNamed, FatalShape, Stopped, ActiveEntry

\* The reader accepts every record runExitHook makes but one.
LEMMA HookParses ==
    ASSUME NEW hook \in HookRecords
    PROVE  ParseExitHook(hook) \/ hook = HookRecord(TRUE, TRUE)
<1>1. CASE hook = NoExitHook
  BY <1>1 DEF ParseExitHook
<1>2. ASSUME NEW settled \in BOOLEAN, NEW expired \in BOOLEAN, hook = HookRecord(settled, expired)
      PROVE  ParseExitHook(hook) \/ hook = HookRecord(TRUE, TRUE)
  <2>1. CASE settled /\ expired
    <3>1. settled = TRUE /\ expired = TRUE
      BY <2>1, Zenon
    <3>2. QED
      BY <1>2, <3>1, Zenon
  <2>2. CASE ~(settled /\ expired)
    <3>1. /\ hook.status \in {"succeeded", "failed"}
          /\ Len(hook.attempts) = 1 /\ DOMAIN hook.attempts = {1}
          /\ hook.attempts[1].attempt = 1 /\ hook.attempts[1].status = hook.status
          /\ hook.attempts[1].output # "none" <=> hook.status = "succeeded"
      BY <1>2, <2>2 DEF HookRecord
    <3>2. AttemptShape(hook.attempts[1])
      BY <3>1 DEF AttemptShape
    <3>3. ValidateAttempts(hook.attempts, hook.status)
      BY <3>1 DEF ValidateAttempts
    <3>4. QED
      BY <3>1, <3>2, <3>3 DEF ParseExitHook
  <2>3. QED
    BY <2>1, <2>2
<1>3. hook = NoExitHook \/ \E settled, expired \in BOOLEAN : hook = HookRecord(settled, expired)
  BY DEF HookRecords
<1>4. QED
  BY <1>1, <1>2, <1>3, Zenon

\* What a journal write of Run may store.
LEMMA ManifestParses ==
    ASSUME TypeOK, Control, Cause, JournalInv, HeadInv, pc # "terminal"
    PROVE  /\ ParseRun(manifest)
           /\ ParseExitHook(manifest.exitHook) \/ manifest.exitHook = HookRecord(TRUE, TRUE)
<1>1. manifest \in Manifests
  BY DEF TypeOK, JournalsOK
<1>2. ManifestShape(manifest)
  BY DEF ManifestShape, HeadInv, Cause, FailureIsCause
<1>3. ASSUME NEW s \in StepIds PROVE ParseStep(manifest, manifest.steps[s])
  <2>1. Legal(manifest.steps[s]) /\ manifest.steps[s] \in StepRecs
    BY <1>1, <1>3, AllLegal, StepEntry
  <2>2. manifest.status = "succeeded" => manifest.steps[s].status \in {"succeeded", "skipped"}
    BY <1>3, AllDone DEF HeadInv, Done
  <2>3. manifest.status # "running" => manifest.steps[s].status \in Terminal
    <3>1. manifest.status # "running" => pc \in SettledPlaces \/ manifest.status = "succeeded"
      BY DEF Control, OpenRun, ResultPending, TypeOK, PlaceOK, Places
    <3>2. QED
      BY <1>3, <2>2, <3>1, AllSettled DEF Terminal
  <2>4. QED
    BY <2>1, <2>2, <2>3, StepParses DEF ParseStep
<1>4. DOMAIN manifest.steps = StepIds
  BY <1>1 DEF Manifests
<1>5. ParseRun(manifest)
  BY <1>2, <1>3, <1>4, FailureParses DEF ParseRun
<1>6. QED
  BY <1>1, <1>5, HookParses DEF Manifests

(***************************************************************************)
(* Run sets a result exactly when it marks the manifest succeeded, which   *)
(* it does past the last node of the plan, and records the exit hook only  *)
(* in a journal that no longer runs.                                       *)
(***************************************************************************)
THEOREM HeadInvariant == Spec => []HeadInv
<1>1. Init => HeadInv
  BY DEF Init, NewManifest, HeadInv
<1>2. TypeOK /\ TypeOK' /\ Control /\ HeadInv /\ [Next]_vars => HeadInv'
  BY HeadStep
<1>3. QED
  BY <1>1, <1>2, TypeCorrect, ControlInvariant, PTL DEF Spec

(***************************************************************************)
(* Whatever instant the process stops at, runjournal.Parse accepts what    *)
(* writeRunManifest last stored, the record of the exit hook included,     *)
(* unless that record is of a hook that was settled and then cut off       *)
(* before runExitHook recorded it.                                         *)
(***************************************************************************)
THEOREM DurableCorrect == Spec => []DurableReadable
<1>1. Init => DurableReadable
  BY DEF Init, DurableReadable
<1>2. TypeOK /\ Control /\ Cause /\ JournalInv /\ HeadInv /\ DurableReadable /\ [Next]_vars
        => DurableReadable'
  <2>1. SUFFICES ASSUME TypeOK, Control, Cause, JournalInv, HeadInv, DurableReadable, [Next]_vars
                 PROVE  DurableReadable'
    OBVIOUS
  <2>2. CASE UNCHANGED durable
    BY <2>1, <2>2 DEF DurableReadable
  <2>3. CASE durable' = manifest /\ pc # "terminal"
    BY <2>1, <2>3, ManifestParses DEF DurableReadable
  <2>4. QED
    BY <2>1, <2>2, <2>3, DurableStep
<1>3. QED
  BY <1>1, <1>2, TypeCorrect, ControlInvariant, CauseInvariant, JournalInvariant, HeadInvariant,
     PTL DEF Spec

-----------------------------------------------------------------------------
\* Fail fast.

\* No failure is recorded anywhere while the run is about to dispatch.
LEMMA NothingFailed ==
    ASSUME TypeOK, JournalInv, pc \in {"invoke", "mapInvoke"}
    PROVE  ~HasFailed(manifest)
<1>1. SUFFICES ASSUME NEW s \in StepIds
               PROVE  /\ manifest.steps[s].status \notin {"failed", "cancelled"}
                      /\ \A i \in DOMAIN manifest.steps[s].items :
                            \/ manifest.steps[s].items[i].status \notin {"failed", "cancelled"}
                            \/ manifest.steps[s].collect
  BY DEF HasFailed
<1>2. PICK k \in 1..Len(NodeOrder) : s = NodeOrder[k]
  BY StepPosition
<1>3. pos \in Nat /\ k \in Nat /\ Len(NodeOrder) \in Nat /\ attempt \in Nat
  BY PlanFacts DEF TypeOK, PlaceOK, RoundOK
<1>4. CASE k < pos
  <2>1. Done(manifest.steps[s])
    BY <1>2, <1>4 DEF JournalInv, PastDone
  <2>2. QED
    BY <2>1 DEF Done, Inactive, Kept
<1>5. CASE k > pos
  <2>1. Blank(manifest.steps[s])
    BY <1>2, <1>5 DEF JournalInv, FutureBlank, SettledPlaces
  <2>2. QED
    BY <2>1 DEF Blank, Fresh
<1>6. CASE k = pos
  <2>1. ShapeHere /\ manifest.steps[s] = ActiveEntry
    BY <1>2, <1>6 DEF JournalInv, Shape, ActiveNode, ActiveEntry
  <2>2. CASE pc = "invoke"
    BY <2>1, <2>2 DEF ShapeHere, StepShape, Open
  <2>3. CASE pc = "mapInvoke"
    <3>1. Open(ActiveEntry, 1) /\ InRound(ActiveEntry)
      BY <2>1, <2>3 DEF ShapeHere, MapShape, MapOpenPlaces, MapPlaces, RoundPlaces
    <3>2. QED
      BY <2>1, <3>1 DEF Open, InRound, Idle, Kept
  <2>4. QED
    BY <2>2, <2>3
<1>7. QED
  BY <1>3, <1>4, <1>5, <1>6

(***************************************************************************)
(* The run fails fast: once a step or an uncollected item has failed or    *)
(* been cancelled, neither Run's invocation of a step nor a round of       *)
(* runMapNode reports another dispatch.                                    *)
(***************************************************************************)
THEOREM FailFastCorrect == Spec => NoDispatchAfterFailure
<1>1. TypeOK /\ JournalInv /\ [Next]_vars => [HasFailed(manifest) => history' = history]_vars
  <2>1. SUFFICES ASSUME TypeOK, JournalInv, Next, HasFailed(manifest) PROVE history' = history
    OBVIOUS
  <2>2. pc \notin {"invoke", "mapInvoke"}
    BY <2>1, NothingFailed
  <2>3. ~InvokeStep /\ ~MapInvoke
    BY <2>2 DEF InvokeStep, MapInvoke
  <2>4. QED
    BY <2>1, <2>3, HistoryStep
<1>2. QED
  BY <1>1, TypeCorrect, JournalInvariant, PTL DEF Spec, NoDispatchAfterFailure

-----------------------------------------------------------------------------
\* Completed work.

\* A success in the datastore is the one in memory.
DurableInv ==
    durable # NoJournal => \A s \in StepIds :
        durable.steps[s].status = "succeeded" => manifest.steps[s] = durable.steps[s]

LEMMA DurableInvStep ==
    ASSUME TypeOK, TypeOK', Control, JournalInv, DurableInv, [Next]_vars
    PROVE  DurableInv'
<1>1. CASE UNCHANGED durable
  BY <1>1, AllKeep DEF DurableInv, Keeps, Preserved
<1>2. CASE durable' = manifest /\ UNCHANGED manifest
  BY <1>2 DEF DurableInv
<1>3. QED
  BY <1>1, <1>2, DurableStep

(***************************************************************************)
(* The journal in memory is never behind the one writeRunManifest stored:  *)
(* it keeps every step that is durably succeeded.                          *)
(***************************************************************************)
THEOREM DurableInvariant == Spec => []DurableInv
<1>1. Init => DurableInv
  BY DEF Init, DurableInv
<1>2. TypeOK /\ TypeOK' /\ Control /\ JournalInv /\ DurableInv /\ [Next]_vars => DurableInv'
  BY DurableInvStep
<1>3. QED
  BY <1>1, <1>2, TypeCorrect, ControlInvariant, JournalInvariant, PTL DEF Spec

(***************************************************************************)
(* Completed work is never lost: no mark function, failMapNode or          *)
(* Manifest.Terminate touches a step or an item that succeeded, and no     *)
(* write of the journal replaces a step's durable success by anything      *)
(* else.                                                                   *)
(***************************************************************************)
THEOREM CompletedCorrect == Spec => CompletedWorkPreserved
<1> DEFINE Preserves == \A s \in StepIds :
              /\ Preserved(manifest.steps[s], manifest'.steps[s])
              /\ \A i \in DOMAIN manifest.steps[s].items :
                    Preserved(manifest.steps[s].items[i], manifest'.steps[s].items[i])
              /\ durable # NoJournal => Preserved(durable.steps[s], durable'.steps[s])
<1>1. TypeOK /\ TypeOK' /\ Control /\ JournalInv /\ DurableInv /\ [Next]_vars => [Preserves]_vars
  <2>1. SUFFICES ASSUME TypeOK, TypeOK', Control, JournalInv, DurableInv, Next, NEW s \in StepIds
                 PROVE  /\ Keeps(manifest.steps[s], manifest'.steps[s])
                        /\ durable # NoJournal => Preserved(durable.steps[s], durable'.steps[s])
    BY DEF Keeps
  <2>2. UNCHANGED durable \/ durable' = manifest
    BY <2>1, DurableStep
  <2>3. durable # NoJournal => Preserved(durable.steps[s], durable'.steps[s])
    BY <2>1, <2>2 DEF DurableInv, Preserved
  <2>4. QED
    BY <2>1, <2>3, AllKeep
<1>2. QED
  BY <1>1, TypeCorrect, ControlInvariant, JournalInvariant, DurableInvariant, PTL
     DEF Spec, CompletedWorkPreserved

-----------------------------------------------------------------------------
\* The exit hook.

\* The node given to the hook is the active one.
HookInv ==
    hookFailed # "none" =>
        /\ pc \in {"hookWrite", "done"}
        /\ pos <= Len(NodeOrder) /\ hookFailed = ActiveNode
        /\ ActiveNode \in dispatchedNodes
        /\ ActiveNode \in StepIds /\ ActiveEntry.status # "succeeded"

LEMMA BlamesActive ==
    ASSUME TypeOK, Control, Dispatched, Cause, JournalInv, FailedNode # "none", pc \in SettledPlaces
    PROVE  /\ pos <= Len(NodeOrder) /\ FailedNode = ActiveNode
           /\ ActiveNode \in dispatchedNodes
           /\ ActiveNode \in StepIds /\ ActiveEntry.status # "succeeded"
<1>0. \A n \in dispatchedNodes : n \in StepIds
  BY DEF Dispatched, TypeOK, RestOK
<1>1. CASE manifest.failure # "none"
  <2>1. runErr = "fatal" /\ manifest.failure = ActiveNode /\ pos <= Len(NodeOrder)
    BY <1>1 DEF Cause, FailureIsCause, TypeOK, PlaceOK
  <2>2. ActiveNode \in dispatchedNodes
    BY <2>1 DEF Cause, CauseIsFatal, Dispatched
  <2>3. ActiveEntry.status = "failed"
    BY <1>0, <2>1, <2>2 DEF JournalInv, Shape, ShapeHere, EndShape, FatalShape
  <2>4. QED
    BY <1>0, <1>1, <2>1, <2>2, <2>3 DEF FailedNode
<1>2. CASE manifest.failure = "none"
  <2> DEFINE blamed == {i \in DOMAIN NodeOrder :
                        /\ NodeOrder[i] \in dispatchedNodes
                        /\ manifest.steps[NodeOrder[i]].status \in {"failed", "cancelled"}}
  <2>1. blamed # {} /\ FailedNode = NodeOrder[CHOOSE i \in blamed : \A j \in blamed : i <= j]
    BY <1>2 DEF FailedNode
  <2>2. pos \in Nat /\ Len(NodeOrder) \in Nat /\ DOMAIN NodeOrder = 1..Len(NodeOrder)
    BY PlanFacts DEF TypeOK, PlaceOK
  <2>3. ASSUME NEW i \in blamed PROVE i = pos
    <3>1. /\ i \in 1..Len(NodeOrder) /\ NodeOrder[i] \in dispatchedNodes
          /\ NodeOrder[i] \in StepIds
          /\ manifest.steps[NodeOrder[i]].status \in {"failed", "cancelled"}
      BY <1>0, <2>2, <2>3
    <3>2. ~(i < pos)
      BY <3>1 DEF JournalInv, PastDone, Done, Inactive
    <3>3. ~(i > pos)
      BY <3>1 DEF JournalInv, FutureBlank, Inactive
    <3>4. QED
      BY <2>2, <3>1, <3>2, <3>3
  <2>4. pos \in blamed
    BY <2>1, <2>3
  <2>5. (CHOOSE i \in blamed : \A j \in blamed : i <= j) = pos
    <3>1. \E i \in blamed : \A j \in blamed : i <= j
      BY <2>2, <2>3, <2>4
    <3>2. QED
      BY <2>3, <3>1
  <2>6. FailedNode = ActiveNode
    BY <2>1, <2>5 DEF ActiveNode
  <2>7. pos <= Len(NodeOrder) /\ ActiveNode \in dispatchedNodes /\ ActiveEntry.status # "succeeded"
    BY <2>2, <2>4 DEF ActiveNode, ActiveEntry
  <2>8. QED
    BY <1>0, <2>6, <2>7
<1>3. QED
  BY <1>1, <1>2

LEMMA HookFailedStep ==
    ASSUME [Next]_vars, ~ExitHook
    PROVE  UNCHANGED hookFailed
<1>1. ASSUME Cancel \/ DeadlinePasses \/ RefuseRun \/ Claim \/ Prerequisites \/ StopAtNode \/
        SkipNode \/ DecideNode \/ NodeWrite \/ SelectNode \/ EnterNode \/ StepInput \/ AttemptWrite
        \/ InvokeStep \/ RetryWrite \/ RetryWait \/ Settle \/ SuccessWrite \/ MapInput \/ MapWrite
        \/ Expand \/ ItemInputs \/ ItemsWrite \/ MapInvoke \/ MapSettle \/ RoundWrite \/ RoundWait
        \/ MapDone \/ Collect \/ CollectWrite \/ Result \/ ResultWrite \/ TerminateRun \/
        TerminalWrite \/ HookWrite
      PROVE  UNCHANGED hookFailed
  BY <1>1 DEF Cancel, DeadlinePasses, RefuseRun, Claim, Prerequisites, StopAtNode, SkipNode,
     DecideNode, NodeWrite, SelectNode, EnterNode, StepInput, AttemptWrite, InvokeStep,
     RetryWrite, RetryWait, Settle, SuccessWrite, MapInput, MapWrite, Expand, ItemInputs,
     ItemsWrite, MapInvoke, MapSettle, RoundWrite, RoundWait, MapDone, Collect, CollectWrite,
     Result, ResultWrite, TerminateRun, TerminalWrite, HookWrite, Goto, Persist, Charge, Fail,
     ErrorFor, AtNode, Active, NextNode, StepOutcome, StepUndispatched, InvokeError, FailMap,
     StartRound, SettleRound
<1>2. CASE UNCHANGED vars
  BY <1>2 DEF vars
<1>3. QED
  BY <1>1, <1>2 DEF Next, RunStep, StepNode, MapNode, Finished

LEMMA HookedStep ==
    ASSUME [Next]_vars, pc \in {"hookWrite", "done"}
    PROVE  UNCHANGED <<pos, manifest, dispatchedNodes>> /\ pc' \in {"hookWrite", "done"}
<1>0. pc \in {"hookWrite", "done"}
  OBVIOUS
<1>1. ASSUME Cancel \/ DeadlinePasses \/ RefuseRun \/ Claim \/ Prerequisites \/ StopAtNode \/
        SkipNode \/ DecideNode \/ NodeWrite \/ SelectNode \/ EnterNode \/ StepInput \/ AttemptWrite
        \/ InvokeStep \/ RetryWrite \/ RetryWait \/ Settle \/ SuccessWrite \/ MapInput \/ MapWrite
        \/ Expand \/ ItemInputs \/ ItemsWrite \/ MapInvoke \/ MapSettle \/ RoundWrite \/ RoundWait
        \/ MapDone \/ Collect \/ CollectWrite \/ Result \/ ResultWrite \/ TerminateRun \/
        TerminalWrite \/ ExitHook \/ HookWrite
      PROVE  UNCHANGED <<pos, manifest, dispatchedNodes>> /\ pc' \in {"hookWrite", "done"}
  BY <1>1, <1>0 DEF Cancel, DeadlinePasses, RefuseRun, Claim, Prerequisites, StopAtNode,
     SkipNode, DecideNode, NodeWrite, SelectNode, EnterNode, StepInput, AttemptWrite,
     InvokeStep, RetryWrite, RetryWait, Settle, SuccessWrite, MapInput, MapWrite, Expand,
     ItemInputs, ItemsWrite, MapInvoke, MapSettle, RoundWrite, RoundWait, MapDone, Collect,
     CollectWrite, Result, ResultWrite, TerminateRun, TerminalWrite, ExitHook, HookWrite,
     Goto, Persist, Charge, Fail, ErrorFor, AtNode, Active, NextNode, StepOutcome,
     StepUndispatched, InvokeError, FailMap, StartRound, SettleRound
<1>2. CASE UNCHANGED vars
  BY <1>0, <1>2 DEF vars
<1>3. QED
  BY <1>1, <1>2 DEF Next, RunStep, StepNode, MapNode, Finished

LEMMA HookStep ==
    ASSUME TypeOK, TypeOK', Control, Dispatched, Cause, JournalInv, HookInv, [Next]_vars
    PROVE  HookInv'
<1>1. CASE ExitHook
  <2>1. pc = "hook" /\ UNCHANGED <<pos, dispatchedNodes>>
    BY <1>1 DEF ExitHook
  <2>2. hookFailed = "none"
    BY <2>1 DEF HookInv
  <2>3. SUFFICES ASSUME hookFailed' # "none" PROVE HookInv'
    BY DEF HookInv
  <2>4. hookFailed' = FailedNode /\ pc' = "hookWrite"
    BY <1>1, <2>2, <2>3 DEF ExitHook, Goto
  <2>5. /\ pos <= Len(NodeOrder) /\ FailedNode = ActiveNode
        /\ ActiveNode \in dispatchedNodes
        /\ ActiveNode \in StepIds /\ ActiveEntry.status # "succeeded"
    BY <2>1, <2>3, <2>4, BlamesActive DEF SettledPlaces
  <2>6. ActiveNode' = ActiveNode /\ ActiveEntry' = ActiveEntry
    BY <1>1, <2>1, ExitHookIs DEF ActiveNode, ActiveEntry
  <2>7. QED
    BY <2>1, <2>4, <2>5, <2>6 DEF HookInv
<1>2. CASE ~ExitHook
  <2>1. UNCHANGED hookFailed
    BY <1>2, HookFailedStep
  <2>2. CASE hookFailed = "none"
    BY <2>1, <2>2 DEF HookInv
  <2>3. CASE hookFailed # "none"
    <3>1. UNCHANGED <<pos, manifest, dispatchedNodes>> /\ pc' \in {"hookWrite", "done"}
      BY <2>3, HookedStep DEF HookInv
    <3>2. QED
      BY <2>1, <3>1 DEF HookInv, ActiveNode, ActiveEntry
  <2>4. QED
    BY <2>2, <2>3
<1>3. QED
  BY <1>1, <1>2

(***************************************************************************)
(* Once runExitHook ran, the node it was told about is the one Run stopped *)
(* at.                                                                     *)
(***************************************************************************)
THEOREM HookInvariant == Spec => []HookInv
<1>1. Init => HookInv
  BY DEF Init, HookInv
<1>2. TypeOK /\ TypeOK' /\ Control /\ Dispatched /\ Cause /\ JournalInv /\ HookInv /\ [Next]_vars
        => HookInv'
  BY HookStep
<1>3. QED
  BY <1>1, <1>2, TypeCorrect, ControlInvariant, DispatchedInvariant, CauseInvariant,
     JournalInvariant, PTL DEF Spec

(***************************************************************************)
(* The exit hook blames the right node: FailedNode of the outcome that     *)
(* runExitHook passes on was dispatched, did not succeed, and no node was  *)
(* dispatched after it.                                                    *)
(***************************************************************************)
THEOREM HookCorrect == Spec => []HookBlamesLastDispatch
<1>1. TypeOK /\ Dispatched /\ HookInv => HookBlamesLastDispatch
  <2>1. SUFFICES ASSUME TypeOK, Dispatched, HookInv, hookFailed # "none"
                 PROVE  HookBlamesLastDispatch
    BY DEF HookBlamesLastDispatch
  <2>2. /\ pos <= Len(NodeOrder) /\ hookFailed = ActiveNode /\ ActiveNode \in dispatchedNodes
        /\ manifest.steps[hookFailed].status # "succeeded"
    BY <2>1 DEF HookInv, ActiveEntry
  <2>3. \E h \in history : h[1] = hookFailed
    BY <2>1, <2>2 DEF Dispatched
  <2>4. pos \in DOMAIN NodeOrder /\ hookFailed = NodeOrder[pos] /\ pos \in Nat
    BY <2>1, <2>2, PlanFacts DEF TypeOK, PlaceOK, ActiveNode
  <2>5. ASSUME NEW h \in history
        PROVE  \E i \in DOMAIN NodeOrder : NodeOrder[i] = h[1] /\ i <= pos
    <3>1. CASE h[1] \in Before(pos)
      <4>1. PICK i \in DOMAIN NodeOrder : i < pos /\ NodeOrder[i] = h[1]
        BY <3>1 DEF Before
      <4>2. i \in Nat
        BY <4>1, PlanFacts
      <4>3. QED
        BY <2>4, <4>1, <4>2
    <3>2. CASE h[1] = ActiveNode
      BY <2>4, <3>2 DEF ActiveNode
    <3>3. QED
      BY <2>1, <3>1, <3>2 DEF Dispatched
  <2>6. QED
    BY <2>2, <2>3, <2>4, <2>5 DEF HookBlamesLastDispatch
<1>2. QED
  BY <1>1, TypeCorrect, DispatchedInvariant, HookInvariant, PTL

-----------------------------------------------------------------------------
\* The attempts of an entry as a log: attempts are added, never rewritten.

\* f has the attempts of e, and those e has settled unchanged.
GrowLog(e, f) ==
    /\ DOMAIN e.attempts \subseteq DOMAIN f.attempts
    /\ \A a \in DOMAIN e.attempts :
        e.attempts[a].status # "running" => f.attempts[a].status = e.attempts[a].status

SameLog(e, f) == GrowLog(e, f) /\ DOMAIN f.attempts = DOMAIN e.attempts

LEMMA TrailStatus ==
    ASSUME NEW k \in Nat, NEW last \in Statuses
    PROVE  /\ DOMAIN Trail(k, last) = 1..k
           /\ \A a \in 1..k : Trail(k, last)[a].status = IF a < k THEN "failed" ELSE last
<1>1. DOMAIN Trail(k, last) = 1..k /\ \A a \in 1..k : Trail(k, last)[a] = TrailAt(a, k, last)
  BY TrailSeq
<1>2. \A a \in 1..k : TrailAt(a, k, last).status = IF a < k THEN "failed" ELSE last
  BY DEF TrailAt, NewAttempt, PublishedAttempt
<1>3. QED
  BY <1>1, <1>2

LEMMA LogSelf == ASSUME NEW e, NEW f, f.attempts = e.attempts PROVE SameLog(e, f)
BY DEF SameLog, GrowLog

LEMMA LogSame ==
    ASSUME NEW e, NEW f, NEW k \in Nat, NEW last \in Statuses, NEW next \in Statuses,
           e.attempts = Trail(k, last), f.attempts = Trail(k, next),
           last = "running" \/ last = next
    PROVE  SameLog(e, f)
<1>1. /\ DOMAIN e.attempts = 1..k /\ DOMAIN f.attempts = 1..k
      /\ \A a \in 1..k : /\ e.attempts[a].status = IF a < k THEN "failed" ELSE last
                         /\ f.attempts[a].status = IF a < k THEN "failed" ELSE next
  BY TrailStatus
<1>2. QED
  BY <1>1 DEF SameLog, GrowLog

LEMMA LogGrows ==
    ASSUME NEW e, NEW f, NEW k \in Nat, NEW n \in Nat, n = k + 1, NEW next \in Statuses,
           e.attempts = Trail(k, "failed"), f.attempts = Trail(n, next)
    PROVE  GrowLog(e, f)
<1>0. "failed" \in Statuses
  BY DEF Statuses, Terminal
<1>1. /\ DOMAIN e.attempts = 1..k /\ DOMAIN f.attempts = 1..n
      /\ \A a \in 1..k : e.attempts[a].status = IF a < k THEN "failed" ELSE "failed"
      /\ \A a \in 1..n : f.attempts[a].status = IF a < n THEN "failed" ELSE next
  BY <1>0, TrailStatus
<1>2. QED
  BY <1>1 DEF GrowLog

LEMMA LogTransitive ==
    ASSUME NEW e, NEW f, NEW g, SameLog(e, f), SameLog(f, g)
    PROVE  SameLog(e, g)
BY DEF SameLog, GrowLog

\* failMapNode and Manifest.Terminate close the last attempt at most.
LEMMA LogEnds ==
    ASSUME NEW e, NEW status \in {"failed", "cancelled"}, NEW f,
           Fresh(e) \/ NotStarted(e) \/ Closed(e) \/ Unfinished(e)
    PROVE  /\ e \in ItemRecs /\ f = UnfinishedItemTerminal(e, status) => SameLog(e, f)
           /\ e \in Entries /\ f = TerminateEntry(e, status) => SameLog(e, f)
<1>0. {"running", "failed", "cancelled"} \subseteq Statuses
  BY DEF Statuses, Terminal
<1>1. CASE \/ e \in ItemRecs /\ f = UnfinishedItemTerminal(e, status)
           \/ e \in Entries /\ f = TerminateEntry(e, status)
  <2>1. /\ e.status = "pending" => f.attempts = e.attempts
        /\ e.status \notin {"pending", "running"} => f = e
        /\ \A k \in Nat \ {0} : \A last \in {"running", "failed"} :
                e.status = "running" /\ e.attempts = Trail(k, last) =>
                    f.attempts = Trail(k, IF last = "running" THEN status ELSE "failed")
    BY <1>1, UnfinishedItemTerminalIs, TerminateEntryIs
  <2>2. CASE e.status = "pending"
    BY <2>1, <2>2, LogSelf
  <2>3. CASE e.status \notin {"pending", "running"}
    BY <2>1, <2>3, LogSelf
  <2>4. CASE e.status = "running"
    <3>1. PICK k \in Nat \ {0}, last \in {"running", "failed"} : e.attempts = Trail(k, last)
      BY <2>4 DEF Fresh, NotStarted, Closed, Unfinished, Open, Waiting
    <3>2. PICK next \in Statuses : next = IF last = "running" THEN status ELSE "failed"
      BY <1>0
    <3>3. f.attempts = Trail(k, next)
      BY <2>1, <2>4, <3>1, <3>2
    <3>4. QED
      BY <1>0, <3>1, <3>2, <3>3, LogSame
  <2>5. QED
    BY <2>2, <2>3, <2>4
<1>2. QED
  BY <1>1

\* One item of a settled round: its reported attempt has the status its outcome calls for.
LEMMA SettledItemLog ==
    ASSUME TypeOK, pc = "mapSettle", AfterRound(ActiveEntry), NEW verified,
           verified \subseteq DOMAIN round.outs, NEW i \in DOMAIN ActiveItems
    PROVE  LET item == SettledItems(verified)[i] IN
           /\ SameLog(ActiveItems[i], item)
           /\ i \in DOMAIN round.outs =>
                \E last \in {"succeeded", "failed", "cancelled"} :
                    last \in RecordedAs(round.outs[i]) /\ item.attempts = Trail(attempt, last)
           /\ i \in RetryItems => Waiting(item, attempt)
           /\ i \notin RetryItems /\ i \in DOMAIN round.outs => Closed(item)
           /\ i \notin DOMAIN round.outs => item = ActiveItems[i]
<1> DEFINE old == ActiveItems[i]
           item == SettledItems(verified)[i]
           fate == SucceededNow(verified) \cup RetryItems \cup CollectedNow \cup FailedNow(verified)
<1>1. attempt \in Nat \ {0} /\ ActiveItems = ActiveEntry.items
  BY DEF AfterRound, TypeOK, RoundOK, ActiveItems, ActiveEntry
<1>2. {"running", "succeeded", "failed", "cancelled"} \subseteq Statuses
  BY DEF Statuses, Terminal
<1>3. i \in DOMAIN round.outs => Recorded(old, round.outs[i], attempt)
  BY <1>1 DEF AfterRound
<1>4. i \in DOMAIN round.outs /\ round.outs[i] \notin {"cancelled", "infra"} => Open(old, attempt)
  BY <1>1, <1>3, RecordedIs
<1>5. /\ i \in SucceededNow(verified) => Closed(item) /\ item.attempts = Trail(attempt, "succeeded")
      /\ i \in RetryItems => Waiting(item, attempt)
      /\ i \in CollectedNow \cup FailedNow(verified) =>
            Closed(item) /\ item.attempts = Trail(attempt, "failed")
      /\ i \notin fate => item = old
  BY SettledItemIs
<1> HIDE DEF item, old, fate
<1>6. ASSUME NEW last \in {"succeeded", "failed"}, item.attempts = Trail(attempt, last),
             Open(old, attempt)
      PROVE  SameLog(old, item)
  BY <1>1, <1>2, <1>6, LogSame DEF Open
<1>7. CASE i \in SucceededNow(verified)
  <2>1. i \in DOMAIN round.outs /\ round.outs[i] = "succeeded" /\ i \notin RetryItems
    BY <1>7, RoundFates
  <2>2. "succeeded" \in RecordedAs("succeeded")
    BY DEF RecordedAs
  <2>3. QED
    BY <1>4, <1>5, <1>6, <1>7, <2>1, <2>2 DEF item, old
<1>8. CASE i \in RetryItems
  <2>1. i \in DOMAIN round.outs /\ round.outs[i] \notin {"succeeded", "cancelled", "infra"}
    BY <1>8 DEF RetryItems, RetryableOutcome, FailedOutcomes, DiagnosticExits
  <2>2. "failed" \in RecordedAs(round.outs[i])
    BY <2>1 DEF RecordedAs
  <2>3. item.attempts = Trail(attempt, "failed")
    BY <1>5, <1>8 DEF Waiting
  <2>4. QED
    BY <1>4, <1>5, <1>6, <1>8, <2>1, <2>2, <2>3 DEF item, old
<1>9. CASE i \in CollectedNow \cup FailedNow(verified)
  <2>1. i \in DOMAIN round.outs /\ round.outs[i] \notin {"cancelled", "infra"} /\ i \notin RetryItems
    BY <1>9, RoundFates
  <2>2. "failed" \in RecordedAs(round.outs[i])
    BY <2>1 DEF RecordedAs
  <2>3. QED
    BY <1>4, <1>5, <1>6, <1>9, <2>1, <2>2 DEF item, old
<1>10. CASE i \notin fate
  <2>1. item = old /\ i \notin RetryItems
    BY <1>5, <1>10 DEF fate
  <2>2. SameLog(old, item)
    BY <2>1, LogSelf
  <2>3. ASSUME i \in DOMAIN round.outs
        PROVE  Closed(item) /\ \E last \in {"succeeded", "failed", "cancelled"} :
                    last \in RecordedAs(round.outs[i]) /\ item.attempts = Trail(attempt, last)
    <3>1. round.outs[i] \in {"cancelled", "infra"}
      BY <1>10, <2>3, RoundFates DEF fate
    <3>2. PICK o \in {"cancelled", "infra"} : o = round.outs[i]
      BY <3>1
    <3>3. PICK last \in {"failed", "cancelled"} :
            last = (IF o = "cancelled" THEN "cancelled" ELSE "failed")
      OBVIOUS
    <3>4. last \in RecordedAs(o)
      BY <3>2, <3>3 DEF RecordedAs
    <3>5. item.status = last /\ item.attempts = Trail(attempt, last)
      BY <1>3, <2>1, <2>3, <3>2, <3>3 DEF Recorded
    <3>6. QED
      BY <1>1, <3>2, <3>4, <3>5 DEF Closed
  <2>4. QED
    BY <2>1, <2>2, <2>3 DEF item, old
<1>11. QED
  BY <1>7, <1>8, <1>9, <1>10 DEF fate

\* The items of the active map after its round was settled.
LEMMA MapSettleLog ==
    ASSUME TypeOK, ShapeHere, MapSettle
    PROVE  LET items == manifest'.steps[ActiveNode].items IN
           /\ DOMAIN items = DOMAIN ActiveItems
           /\ \A i \in DOMAIN ActiveItems :
                /\ SameLog(ActiveItems[i], items[i])
                /\ i \in DOMAIN round.outs =>
                    /\ attempt \in DOMAIN items[i].attempts
                    /\ items[i].attempts[attempt].status \in RecordedAs(round.outs[i])
<1>1. pc = "mapSettle" /\ pc \in MapOpenPlaces
  BY DEF MapSettle, MapOpenPlaces, MapPlaces
<1>2. AfterRound(ActiveEntry) /\ Open(ActiveEntry, 1) /\ ActiveItems = ActiveEntry.items
  BY <1>1 DEF ShapeHere, MapShape, ActiveItems, ActiveEntry
<1>3. attempt \in Nat \ {0} /\ ActiveNode \in StepIds
  BY <1>1, <1>2, PlaceKept DEF AfterRound, TypeOK, RoundOK, MapPlaces
<1>4. PICK verified \in SUBSET DOMAIN round.outs, m \in Manifests :
        LET e == m.steps[ActiveNode]
            items == SettledItems(verified)
        IN
        /\ \/ e.items = items /\ FailMap(m, RoundError)
           \/ manifest' = m /\ e.items = CloseRetries(items, RetryItems)
           \/ manifest' = m /\ e.items = items
  BY MapSettleIs
<1> DEFINE settled == SettledItems(verified)
           new == manifest'.steps[ActiveNode].items
<1>5. DOMAIN settled = DOMAIN ActiveItems /\ \A i \in DOMAIN settled : settled[i] \in ItemRecs
  BY <1>1, LenProperties, SettledItemsType
<1>6. ASSUME NEW i \in DOMAIN ActiveItems
      PROVE  /\ SameLog(ActiveItems[i], settled[i])
             /\ i \in DOMAIN round.outs =>
                    \E last \in {"succeeded", "failed", "cancelled"} :
                        last \in RecordedAs(round.outs[i]) /\ settled[i].attempts = Trail(attempt, last)
             /\ i \in RetryItems => Waiting(settled[i], attempt)
             /\ Fresh(settled[i]) \/ Closed(settled[i]) \/ Unfinished(settled[i])
  <2>1. /\ SameLog(ActiveItems[i], settled[i])
        /\ i \in DOMAIN round.outs =>
                \E last \in {"succeeded", "failed", "cancelled"} :
                    last \in RecordedAs(round.outs[i]) /\ settled[i].attempts = Trail(attempt, last)
        /\ i \in RetryItems => Waiting(settled[i], attempt)
        /\ i \notin RetryItems /\ i \in DOMAIN round.outs => Closed(settled[i])
        /\ i \notin DOMAIN round.outs => settled[i] = ActiveItems[i]
    BY <1>1, <1>2, SettledItemLog
  <2> HIDE DEF settled
  <2>2. i \in RetryItems => Unfinished(settled[i])
    BY <1>3, <2>1 DEF Unfinished
  <2>3. i \notin DOMAIN round.outs => Fresh(ActiveItems[i]) \/ Closed(ActiveItems[i]) \/ Unfinished(ActiveItems[i])
    BY <1>1, <1>2, MapIsRunning DEF Running
  <2>4. RetryItems \subseteq DOMAIN round.outs
    BY DEF RetryItems
  <2>5. QED
    BY <2>1, <2>2, <2>3, <2>4
<1> HIDE DEF settled
<1>7. DOMAIN new = DOMAIN ActiveItems /\ \A i \in DOMAIN ActiveItems : SameLog(settled[i], new[i])
  <2>1. CASE m.steps[ActiveNode].items = settled /\ manifest' = m
    BY <1>5, <2>1, LogSelf
  <2>2. CASE m.steps[ActiveNode].items = CloseRetries(settled, RetryItems) /\ manifest' = m
    <3>1. /\ DOMAIN new = DOMAIN settled
          /\ \A i \in DOMAIN settled :
                new[i] = IF i \in RetryItems THEN EntryTerminal(settled[i], "failed") ELSE settled[i]
      BY <2>2 DEF CloseRetries
    <3>2. ASSUME NEW i \in DOMAIN settled, i \in RetryItems PROVE SameLog(settled[i], new[i])
      <4>1. settled[i].attempts = Trail(attempt, "failed") /\ Waiting(settled[i], attempt)
        BY <1>5, <1>6, <3>2 DEF Waiting
      <4>2. new[i].attempts = Trail(attempt, "failed")
        BY <1>3, <1>5, <3>1, <3>2, <4>1, OpenEnds DEF Entries
      <4>3. QED
        BY <4>1, <4>2, LogSelf
    <3>3. QED
      BY <1>5, <3>1, <3>2, LogSelf
  <2>3. CASE m.steps[ActiveNode].items = settled /\ FailMap(m, RoundError)
    <3>1. PICK status \in {"failed", "cancelled"} : manifest' = FailMapNode(m, ActiveNode, status)
      BY <2>3 DEF FailMap
    <3>2. /\ DOMAIN new = DOMAIN settled
          /\ \A i \in DOMAIN settled : new[i] = UnfinishedItemTerminal(settled[i], status)
      BY <1>3, <2>3, <3>1, FailMapNodeIs
    <3>3. QED
      BY <1>5, <1>6, <3>2, LogEnds
  <2>4. QED
    BY <1>4, <2>1, <2>2, <2>3 DEF settled
<1>8. ASSUME NEW i \in DOMAIN ActiveItems, i \in DOMAIN round.outs
      PROVE  /\ attempt \in DOMAIN new[i].attempts
             /\ new[i].attempts[attempt].status \in RecordedAs(round.outs[i])
  <2>1. PICK last \in {"succeeded", "failed", "cancelled"} :
            last \in RecordedAs(round.outs[i]) /\ settled[i].attempts = Trail(attempt, last)
    BY <1>6, <1>8
  <2>2. attempt \in DOMAIN settled[i].attempts /\ settled[i].attempts[attempt].status = last
    BY <1>3, <2>1, StatusNames, TrailStatus
  <2>3. QED
    BY <1>7, <2>1, <2>2 DEF SameLog, GrowLog
<1>9. QED
  BY <1>6, <1>7, <1>8, LogTransitive

\* No step but an invocation adds an attempt to an item; an expanded map has fresh ones.
ItemLogs(e, f) ==
    \/ /\ DOMAIN f.items = DOMAIN e.items
       /\ \A i \in DOMAIN e.items : SameLog(e.items[i], f.items[i])
    \/ DOMAIN e.items = {} /\ \A i \in DOMAIN f.items : f.items[i].attempts = <<>>

LEMMA ItemLogsSelf == ASSUME NEW e, NEW f, f.items = e.items PROVE ItemLogs(e, f)
BY LogSelf DEF ItemLogs

LEMMA ItemLogsRest ==
    ASSUME NEW e \in StepRecs, NEW f, SameRest(e, f)
    PROVE  ItemLogs(e, f)
BY ItemLogsSelf DEF SameRest

LEMMA ItemLogsFail ==
    ASSUME TypeOK, ShapeHere, ActiveNode \in StepIds, pc \in MapOpenPlaces,
           NEW err, FailMap(manifest, err)
    PROVE  ItemLogs(manifest.steps[ActiveNode], manifest'.steps[ActiveNode])
<1>1. manifest \in Manifests
  BY DEF TypeOK, JournalsOK
<1>2. PICK status \in {"failed", "cancelled"} : manifest' = FailMapNode(manifest, ActiveNode, status)
  BY DEF FailMap
<1> DEFINE old == manifest.steps[ActiveNode].items
           new == manifest'.steps[ActiveNode].items
<1>3. /\ DOMAIN new = DOMAIN old
      /\ \A i \in DOMAIN old : new[i] = UnfinishedItemTerminal(old[i], status)
  BY <1>1, <1>2, FailMapNodeIs
<1>4. \A i \in DOMAIN old : old[i] \in ItemRecs
  BY <1>1, StepEntry
<1>5. \A i \in DOMAIN old : Fresh(old[i]) \/ Closed(old[i]) \/ Unfinished(old[i])
  BY MapIsRunning DEF Running, ActiveEntry
<1>6. \A i \in DOMAIN old : SameLog(old[i], new[i])
  BY <1>3, <1>4, <1>5, LogEnds
<1>7. QED
  BY <1>3, <1>6 DEF ItemLogs

LEMMA ItemLogsActive ==
    ASSUME TypeOK, ShapeHere, ActiveNode \in StepIds, [Next]_vars, ~TerminateRun, ~MapInvoke
    PROVE  ItemLogs(manifest.steps[ActiveNode], manifest'.steps[ActiveNode])
<1> DEFINE Goal == ItemLogs(manifest.steps[ActiveNode], manifest'.steps[ActiveNode])
<1>0. manifest \in Manifests /\ manifest.steps[ActiveNode] \in StepRecs
      /\ manifest.steps[ActiveNode] \in Entries
  BY StepEntry DEF TypeOK, JournalsOK
<1>1. ASSUME UNCHANGED manifest PROVE Goal
  BY <1>1, ItemLogsSelf
<1>2. ASSUME SkipNode PROVE Goal
  <2>1. manifest' = MarkStepSkipped(manifest, ActiveNode)
    BY <1>2 DEF SkipNode, AtNode, StepIds
  <2>2. QED
    BY <1>0, <2>1, MarkSkippedIs, ItemLogsRest
<1>3. ASSUME DecideNode PROVE Goal
  BY <1>3 DEF DecideNode, Active, StepIds
<1>4. ASSUME StepInput \/ MapInput \/ RetryWait PROVE Goal
  <2>1. PICK next \in Nat : next = attempt + 1
    BY DEF TypeOK, RoundOK
  <2>2. \/ UNCHANGED manifest
        \/ manifest' = MarkAttemptRunning(manifest, ActiveNode, 1)
        \/ manifest' = MarkAttemptRunning(manifest, ActiveNode, next)
    BY <1>4, <2>1 DEF StepInput, MapInput, RetryWait
  <2>3. ASSUME NEW n \in Nat, manifest' = MarkAttemptRunning(manifest, ActiveNode, n) PROVE Goal
    <3>1. SameRest(manifest.steps[ActiveNode], manifest'.steps[ActiveNode])
      BY <1>0, <2>3, MarkRunningIs, EntryRunningIs
    <3>2. QED
      BY <1>0, <3>1, ItemLogsRest
  <2>4. QED
    BY <1>1, <2>2, <2>3
<1>5. ASSUME InvokeStep PROVE Goal
  <2>1. ASSUME manifest' = MarkUndispatched(manifest, ActiveNode) PROVE Goal
    <3>1. SameRest(manifest.steps[ActiveNode], manifest'.steps[ActiveNode])
      BY <1>0, <2>1, DropIs, DropUndispatchedIs
    <3>2. QED
      BY <1>0, <3>1, ItemLogsRest
  <2>2. ASSUME manifest' = MarkAttemptRetrying(manifest, ActiveNode) PROVE Goal
    <3>1. SameRest(manifest.steps[ActiveNode], manifest'.steps[ActiveNode])
      BY <1>0, <2>2, MarkRetryingIs, EntryRetryingIs
    <3>2. QED
      BY <1>0, <3>1, ItemLogsRest
  <2>3. ASSUME NEW o, manifest' = MarkAttemptTerminal(manifest, ActiveNode, RecordedStatus(o))
        PROVE  Goal
    <3>1. PICK status \in {"failed", "cancelled"} : status = RecordedStatus(o)
      BY DEF RecordedStatus
    <3>2. SameRest(manifest.steps[ActiveNode], manifest'.steps[ActiveNode])
      BY <1>0, <2>3, <3>1, MarkTerminalIs, EntryTerminalIs
    <3>3. QED
      BY <1>0, <3>2, ItemLogsRest
  <2>4. QED
    BY <1>1, <1>5, <2>1, <2>2, <2>3, InvokeStepIs
<1>6. ASSUME Settle PROVE Goal
  <2>1. SameRest(manifest.steps[ActiveNode], manifest'.steps[ActiveNode])
    <3>1. CASE manifest' = MarkAttemptSucceeded(manifest, ActiveNode)
      BY <1>0, <3>1, MarkSucceededIs, EntrySucceededIs
    <3>2. CASE manifest' = MarkAttemptTerminal(manifest, ActiveNode, "failed")
      BY <1>0, <3>2, MarkTerminalIs, EntryTerminalIs
    <3>3. QED
      BY <1>6, <3>1, <3>2 DEF Settle
  <2>2. QED
    BY <1>0, <2>1, ItemLogsRest
<1>7. ASSUME pc \in MapOpenPlaces, NEW err, FailMap(manifest, err) PROVE Goal
  BY <1>7, ItemLogsFail
<1>8. ASSUME ItemInputs \/ RoundWait \/ MapDone PROVE Goal
  <2>1. pc \in MapOpenPlaces /\ (UNCHANGED manifest \/ \E err : FailMap(manifest, err))
    BY <1>8 DEF ItemInputs, RoundWait, MapDone, MapOpenPlaces, MapPlaces
  <2>2. QED
    BY <1>1, <1>7, <2>1
<1>9. ASSUME Expand PROVE Goal
  <2>1. pc = "expand" /\ pc \in MapOpenPlaces
    BY <1>9 DEF Expand, MapOpenPlaces, MapPlaces
  <2>2. PICK count \in Int : count = InputForNode(res, ActiveNode).items
    BY <2>1, PlaceKept, InputItems DEF MapOpenPlaces
  <2>3. CASE count < 0
    BY <1>7, <1>9, <2>1, <2>2, <2>3 DEF Expand
  <2>4. CASE ~(count < 0)
    <3>1. manifest' = MarkMapItemsPending(manifest, ActiveNode, count)
      BY <1>9, <2>2, <2>4 DEF Expand
    <3>2. PICK items : items = [i \in 1..count |-> PendingItem]
      OBVIOUS
    <3>3. items \in Seq(ItemRecs)
      BY <2>4, <3>2, PendingItemsType
    <3>4. manifest' = WithStepItems(manifest, ActiveNode, items)
      BY <3>1, <3>2 DEF MarkMapItemsPending, WithStepItems
    <3>5. manifest'.steps[ActiveNode].items = items
      BY <1>0, <3>3, <3>4, NewItems
    <3>6. \A i \in DOMAIN items : items[i].attempts = <<>>
      BY <3>2 DEF PendingItem
    <3>7. DOMAIN manifest.steps[ActiveNode].items = {}
      BY <2>1 DEF ShapeHere, MapShape, ActiveEntry
    <3>8. QED
      BY <3>5, <3>6, <3>7 DEF ItemLogs
  <2>5. QED
    BY <2>3, <2>4
<1>10. ASSUME MapSettle PROVE Goal
  BY <1>10, MapSettleLog DEF ItemLogs, ActiveItems
<1>11. ASSUME Collect PROVE Goal
  <2>1. /\ pc \in MapOpenPlaces
        /\ \/ manifest' = MarkAttemptSucceeded(manifest, ActiveNode)
           \/ \E err : FailMap(manifest, err)
    BY <1>11 DEF Collect, MapOpenPlaces, MapPlaces
  <2>2. ASSUME manifest' = MarkAttemptSucceeded(manifest, ActiveNode) PROVE Goal
    <3>1. SameRest(manifest.steps[ActiveNode], manifest'.steps[ActiveNode])
      BY <1>0, <2>2, MarkSucceededIs, EntrySucceededIs
    <3>2. QED
      BY <1>0, <3>1, ItemLogsRest
  <2>3. QED
    BY <1>7, <2>1, <2>2
<1>12. ASSUME Result \/ ExitHook PROVE Goal
  <2>1. manifest'.steps = manifest.steps
    BY <1>12, ResultIs, ExitHookIs
  <2>2. QED
    BY <2>1, ItemLogsSelf
<1> HIDE DEF Goal
<1>13. Goal
  BY <1>1, <1>2, <1>3, <1>4, <1>5, <1>6, <1>8, <1>9, <1>10, <1>11, <1>12, ManifestChanges
<1>14. QED
  BY <1>13 DEF Goal

LEMMA ItemLogsStep ==
    ASSUME TypeOK, TypeOK', Control, JournalInv, [Next]_vars, ~MapInvoke, NEW s \in StepIds
    PROVE  ItemLogs(manifest.steps[s], manifest'.steps[s])
<1>1. CASE TerminateRun
  <2>1. manifest \in Manifests /\ TerminalStatus \in {"failed", "cancelled"}
    BY <1>1, TerminateRunIs DEF TypeOK, JournalsOK
  <2> DEFINE old == manifest.steps[s].items
             new == manifest'.steps[s].items
  <2>2. /\ DOMAIN new = DOMAIN old
        /\ \A i \in DOMAIN old : new[i] = TerminateEntry(old[i], TerminalStatus)
    BY <1>1, TerminateRunIs
  <2>3. \A i \in DOMAIN old : old[i] \in Entries
    BY <2>1, StepEntry DEF Entries
  <2>4. \A i \in DOMAIN old :
            Fresh(old[i]) \/ NotStarted(old[i]) \/ Closed(old[i]) \/ Unfinished(old[i])
    <3>1. Legal(manifest.steps[s])
      BY AllLegal
    <3>2. QED
      BY <3>1 DEF Legal, Blank, Inactive, Done, Kept, Running, Stopped
  <2>5. \A i \in DOMAIN old : SameLog(old[i], new[i])
    BY <2>1, <2>2, <2>3, <2>4, LogEnds
  <2>6. QED
    BY <2>2, <2>5 DEF ItemLogs
<1>2. CASE ~TerminateRun /\ pos <= Len(NodeOrder) /\ s = ActiveNode
  BY <1>2, ItemLogsActive DEF JournalInv, Shape
<1>3. CASE ~TerminateRun /\ ~(pos <= Len(NodeOrder) /\ s = ActiveNode)
  BY <1>3, OtherSteps, ItemLogsSelf
<1>4. QED
  BY <1>1, <1>2, <1>3

-----------------------------------------------------------------------------
\* The settled journal accounts for every reported dispatch.

\* An outcome that was reported and waits for its verification.
Unsettled(h) ==
    /\ h[1] = ActiveNode /\ h[3] = attempt
    /\ pc = "settle" \/ (pc = "mapSettle" /\ h[2] \in DOMAIN round.outs)

\* The slot of a reported dispatch and what the journal says there.
Logged(h) ==
    /\ h[2] = 0 <=> Node[h[1]].kind = "step"
    /\ h[2] # 0 => h[2] \in DOMAIN manifest.steps[h[1]].items
    /\ LET attempts == EntryOf(manifest, h[1], h[2]).attempts
       IN  /\ h[3] \in DOMAIN attempts
           /\ Unsettled(h) \/ attempts[h[3]].status \in RecordedAs(h[4])

ReportsLogged == \A h \in history : Logged(h)

ItemsReported ==
    \A s \in StepIds : \A i \in DOMAIN manifest.steps[s].items :
        \A a \in DOMAIN manifest.steps[s].items[i].attempts :
            \E o \in OutcomeKinds : <<s, i, a, o>> \in history

SuccessReported ==
    \A s \in StepIds : ~manifest.steps[s].isMap =>
        \A a \in DOMAIN manifest.steps[s].attempts :
            manifest.steps[s].attempts[a].status = "succeeded" =>
                <<s, 0, a, "succeeded">> \in history

SettleReported == pc = "settle" => <<ActiveNode, 0, attempt, "succeeded">> \in history

HistoryInv == ReportsLogged /\ ItemsReported /\ SuccessReported /\ SettleReported

LEMMA HistoryGrows == ASSUME TypeOK, [Next]_vars PROVE history \subseteq history'
<1>1. CASE InvokeStep
  BY <1>1, InvokeStepIs
<1>2. CASE MapInvoke
  BY <1>2, MapInvokeIs
<1>3. CASE ~InvokeStep /\ ~MapInvoke
  BY <1>3, HistoryStep
<1>4. QED
  BY <1>1, <1>2, <1>3

\* A successful outcome waits for settleInvocation.
LEMMA WaitSettle ==
    ASSUME [Next]_vars, ~InvokeStep, ~Settle, pc = "settle" \/ pc' = "settle"
    PROVE  UNCHANGED <<pc, pos, attempt, manifest, history>>
<1>0. pc = "settle" \/ pc' = "settle"
  OBVIOUS
<1>1. ASSUME Cancel \/ DeadlinePasses \/ RefuseRun \/ Claim \/ Prerequisites \/ StopAtNode \/
        SkipNode \/ DecideNode \/ NodeWrite \/ SelectNode \/ EnterNode \/ StepInput \/ AttemptWrite
        \/ RetryWrite \/ RetryWait \/ SuccessWrite \/ MapInput \/ MapWrite \/ Expand \/ ItemInputs
        \/ ItemsWrite \/ MapInvoke \/ MapSettle \/ RoundWrite \/ RoundWait \/ MapDone \/ Collect \/
        CollectWrite \/ Result \/ ResultWrite \/ TerminateRun \/ TerminalWrite \/ ExitHook \/
        HookWrite
      PROVE  UNCHANGED <<pc, pos, attempt, manifest, history>>
  BY <1>1, <1>0 DEF Cancel, DeadlinePasses, RefuseRun, Claim, Prerequisites, StopAtNode,
     SkipNode, DecideNode, NodeWrite, SelectNode, EnterNode, StepInput, AttemptWrite,
     RetryWrite, RetryWait, SuccessWrite, MapInput, MapWrite, Expand, ItemInputs, ItemsWrite,
     MapInvoke, MapSettle, RoundWrite, RoundWait, MapDone, Collect, CollectWrite, Result,
     ResultWrite, TerminateRun, TerminalWrite, ExitHook, HookWrite, Goto, Persist, Charge,
     Fail, ErrorFor, AtNode, Active, NextNode, InvokeError, FailMap, StartRound, SettleRound
<1>2. CASE UNCHANGED vars
  BY <1>2 DEF vars
<1>3. QED
  BY <1>1, <1>2 DEF Next, RunStep, StepNode, MapNode, Finished

LEMMA SettleReportedStep ==
    ASSUME TypeOK, SettleReported, [Next]_vars
    PROVE  SettleReported'
<1>1. SUFFICES ASSUME pc' = "settle" PROVE <<ActiveNode, 0, attempt, "succeeded">>' \in history'
  BY DEF SettleReported
<1>2. CASE InvokeStep
  <2>1. UNCHANGED <<pos, attempt>> /\ <<ActiveNode, 0, attempt, "succeeded">> \in history'
    BY <1>1, <1>2, InvokeStepIs
  <2>2. QED
    BY <2>1 DEF ActiveNode
<1>3. CASE Settle
  BY <1>1, <1>3 DEF Settle, Goto, Fail
<1>4. CASE ~InvokeStep /\ ~Settle
  <2>1. UNCHANGED <<pc, pos, attempt, history>>
    BY <1>1, <1>4, WaitSettle
  <2>2. QED
    BY <1>1, <2>1 DEF SettleReported, ActiveNode
<1>5. QED
  BY <1>2, <1>3, <1>4

\* Only settleInvocation makes a step succeed.
LEMMA NewSuccess ==
    ASSUME TypeOK, JournalInv, [Next]_vars, NEW s \in StepIds, ~manifest.steps[s].isMap,
           manifest.steps[s].status # "succeeded", manifest'.steps[s].status = "succeeded"
    PROVE  /\ pc = "settle" /\ s = ActiveNode
           /\ manifest'.steps[s].attempts = Trail(attempt, "succeeded") /\ attempt \in Nat \ {0}
<1>0. manifest \in Manifests
  BY DEF TypeOK, JournalsOK
<1>1. ~TerminateRun
  <2>1. ASSUME TerminateRun PROVE manifest'.steps[s].status # "succeeded"
    <3>1. PICK e \in Entries : e = manifest.steps[s]
      BY <1>0, StepEntry
    <3>2. /\ TerminalStatus \in {"failed", "cancelled"}
          /\ manifest'.steps[s].status = TerminateEntry(e, TerminalStatus).status
      BY <2>1, <3>1, TerminateRunIs
    <3>3. e.status # "succeeded"
      BY <3>1
    <3>4. PICK f : f = TerminateEntry(e, TerminalStatus)
      OBVIOUS
    <3>5. QED
      BY <3>2, <3>3, <3>4, TerminateEntryIs
  <2>2. QED
    BY <2>1
<1>2. pos <= Len(NodeOrder) /\ s = ActiveNode
  BY <1>1, OtherSteps
<1>3. ShapeHere /\ Node[ActiveNode].kind # "map" /\ manifest.steps[s] \in Entries
  BY <1>0, <1>2, StepEntry DEF JournalInv, Shape, AsPlanned
<1>4. pc \notin MapPlaces
  BY <1>3 DEF TypeOK, PlaceOK
<1>5. ASSUME SkipNode \/ DecideNode \/ StepInput \/ InvokeStep \/ RetryWait PROVE FALSE
  <2>1. PICK next \in Nat : next = attempt + 1
    BY DEF TypeOK, RoundOK
  <2>2. CASE SkipNode
    <3>1. manifest' = MarkStepSkipped(manifest, s)
      BY <1>2, <2>2 DEF SkipNode, AtNode, StepIds
    <3>2. QED
      BY <1>0, <3>1, MarkSkippedIs
  <2>3. CASE DecideNode
    BY <1>2, <2>3 DEF DecideNode, Active, StepIds
  <2>4. ASSUME NEW n \in Nat, manifest' = MarkAttemptRunning(manifest, s, n) PROVE FALSE
    BY <1>0, <1>3, <2>4, MarkRunningIs, EntryRunningIs
  <2>5. CASE StepInput \/ RetryWait
    BY <1>2, <2>1, <2>4, <2>5 DEF StepInput, RetryWait
  <2>6. CASE InvokeStep
    <3>1. ASSUME manifest' = MarkUndispatched(manifest, s) PROVE FALSE
      BY <1>0, <1>3, <3>1, DropIs, DropUndispatchedIs
    <3>2. ASSUME manifest' = MarkAttemptRetrying(manifest, s) PROVE FALSE
      BY <1>0, <1>3, <3>2, MarkRetryingIs, EntryRetryingIs
    <3>3. ASSUME NEW o, manifest' = MarkAttemptTerminal(manifest, s, RecordedStatus(o)) PROVE FALSE
      <4>1. PICK status \in {"failed", "cancelled"} : status = RecordedStatus(o)
        BY DEF RecordedStatus
      <4>2. QED
        BY <1>0, <1>3, <3>3, <4>1, MarkTerminalIs, EntryTerminalIs
    <3>4. QED
      BY <1>2, <2>6, <3>1, <3>2, <3>3, InvokeStepIs
  <2>7. QED
    BY <1>5, <2>2, <2>3, <2>5, <2>6
<1>6. ~(MapInput \/ Expand \/ ItemInputs \/ MapInvoke \/ MapSettle \/ RoundWait \/ MapDone \/ Collect)
  BY <1>4 DEF MapInput, Expand, ItemInputs, MapInvoke, MapSettle, RoundWait, MapDone, Collect, MapPlaces
<1>7. ~Result /\ ~ExitHook /\ ~UNCHANGED manifest
  BY ResultIs, ExitHookIs
<1>8. Settle
  BY <1>1, <1>5, <1>6, <1>7, ManifestChanges
<1>9. /\ pc = "settle"
      /\ \/ manifest' = MarkAttemptSucceeded(manifest, s)
         \/ manifest' = MarkAttemptTerminal(manifest, s, "failed")
  BY <1>2, <1>8 DEF Settle
<1>10. manifest' = MarkAttemptSucceeded(manifest, s)
  BY <1>0, <1>3, <1>9, MarkTerminalIs, EntryTerminalIs
<1>11. Open(manifest.steps[s], attempt) /\ attempt \in Nat \ {0}
  BY <1>2, <1>3, <1>9 DEF ShapeHere, StepShape, ActiveEntry, TypeOK, RoundOK
<1>12. manifest'.steps[s].attempts = Trail(attempt, "succeeded")
  BY <1>0, <1>3, <1>10, <1>11, MarkSucceededIs, OpenSucceeds
<1>13. QED
  BY <1>2, <1>9, <1>11, <1>12

\* An entry that did not succeed has no successful attempt.
LEMMA NoSuccess ==
    ASSUME NEW e, Legal(e), e.status # "succeeded", NEW a \in DOMAIN e.attempts
    PROVE  e.attempts[a].status # "succeeded"
<1>1. PICK k \in Nat, last \in {"running", "failed", "cancelled"} :
            e.attempts = Trail(k, last) \/ e.attempts = <<>>
  BY DEF Legal, Blank, Fresh, Inactive, Done, Running, Unfinished, Open, Waiting, Stopped, Closed
<1>2. e.attempts = Trail(k, last)
  BY <1>1
<1>3. QED
  BY <1>2, StatusNames, TrailStatus

EntriesLegal == \A s \in StepIds : Legal(manifest.steps[s])

LEMMA SuccessReportedStep ==
    ASSUME TypeOK, TypeOK', Control, JournalInv, EntriesLegal', SuccessReported, SettleReported,
           [Next]_vars
    PROVE  SuccessReported'
<1>1. SUFFICES ASSUME NEW s \in StepIds, ~manifest'.steps[s].isMap,
                      NEW a \in DOMAIN manifest'.steps[s].attempts,
                      manifest'.steps[s].attempts[a].status = "succeeded"
               PROVE  <<s, 0, a, "succeeded">> \in history'
  BY DEF SuccessReported
<1>2. manifest'.steps[s].status = "succeeded"
  <2>1. Legal(manifest'.steps[s])
    BY <1>1 DEF EntriesLegal
  <2>2. QED
    BY <1>1, <2>1, NoSuccess
<1>3. Keeps(manifest.steps[s], manifest'.steps[s]) /\ history \subseteq history'
  BY AllKeep, HistoryGrows
<1>4. CASE manifest.steps[s].status = "succeeded"
  BY <1>1, <1>3, <1>4 DEF Keeps, Preserved, SuccessReported
<1>5. CASE manifest.steps[s].status # "succeeded"
  <2>1. /\ pc = "settle" /\ s = ActiveNode
        /\ manifest'.steps[s].attempts = Trail(attempt, "succeeded") /\ attempt \in Nat \ {0}
    BY <1>1, <1>2, <1>3, <1>5, NewSuccess DEF Keeps
  <2>2. a = attempt
    BY <1>1, <2>1, StatusNames, TrailStatus
  <2>3. QED
    BY <1>3, <2>1, <2>2 DEF SettleReported
<1>6. QED
  BY <1>4, <1>5

\* A round adds its attempt to the items that were started, and to no other.
LEMMA MapInvokeLog ==
    ASSUME TypeOK, ShapeHere, MapInvoke
    PROVE  LET old == manifest.steps[ActiveNode].items
               new == manifest'.steps[ActiveNode].items
           IN  /\ DOMAIN new = DOMAIN old
               /\ DOMAIN round'.outs \subseteq DOMAIN old
               /\ \A i \in DOMAIN old :
                    /\ GrowLog(old[i], new[i])
                    /\ \A a \in DOMAIN new[i].attempts :
                        a \in DOMAIN old[i].attempts \/ (i \in DOMAIN round'.outs /\ a = attempt)
                    /\ i \in DOMAIN round'.outs => attempt \in DOMAIN new[i].attempts
<1> DEFINE old == manifest.steps[ActiveNode].items
           new == manifest'.steps[ActiveNode].items
<1>1. pc = "mapInvoke" /\ DOMAIN round'.outs \subseteq pending
  BY MapInvokeIs
<1>2. InRound(ActiveEntry) /\ attempt \in Nat \ {0}
  BY <1>1 DEF ShapeHere, MapShape, RoundPlaces, InRound, TypeOK, RoundOK
<1>3. ActiveNode \in StepIds /\ \A i \in DOMAIN old : old[i] \in ItemRecs
  BY <1>1, PlaceKept, StepEntry DEF MapPlaces, TypeOK, JournalsOK
<1>4. /\ DOMAIN new = DOMAIN old
      /\ \A i \in DOMAIN old : new[i] = IF i \in DOMAIN round'.outs
                                        THEN RecordDispatch(old[i], round'.outs[i]) ELSE old[i]
  BY MapInvokeItems
<1>5. DOMAIN round'.outs \subseteq DOMAIN old
  BY <1>1, <1>2 DEF InRound, ActiveEntry
<1> HIDE DEF new
<1>6. ASSUME NEW i \in DOMAIN old, i \in DOMAIN round'.outs
      PROVE  /\ GrowLog(old[i], new[i])
             /\ \A a \in DOMAIN new[i].attempts : a \in DOMAIN old[i].attempts \/ a = attempt
             /\ attempt \in DOMAIN new[i].attempts
  <2>1. Idle(old[i], attempt)
    BY <1>1, <1>2, <1>6 DEF InRound, ActiveEntry
  <2>2. PICK o : o = round'.outs[i]
    OBVIOUS
  <2>3. Recorded(new[i], o, attempt)
    BY <1>2, <1>3, <1>4, <1>6, <2>1, <2>2, RecordDispatchIs
  <2>4. PICK last \in {"running", "failed", "cancelled"} : new[i].attempts = Trail(attempt, last)
    BY <2>3 DEF Recorded, Open
  <2>5. PICK k \in Nat : k = attempt - 1 /\ attempt = k + 1
    BY <1>2
  <2>6. old[i].attempts = Trail(k, "failed")
    BY <2>1, <2>5 DEF Idle
  <2>7. DOMAIN old[i].attempts = 1..k /\ DOMAIN new[i].attempts = 1..attempt
    BY <1>2, <2>4, <2>6, StatusNames, TrailStatus
  <2>8. GrowLog(old[i], new[i])
    BY <1>2, <2>4, <2>5, <2>6, StatusNames, LogGrows
  <2>9. QED
    BY <1>2, <2>5, <2>7, <2>8
<1>7. ASSUME NEW i \in DOMAIN old, i \notin DOMAIN round'.outs
      PROVE  SameLog(old[i], new[i])
  BY <1>4, <1>7, LogSelf
<1>8. QED
  BY <1>4, <1>5, <1>6, <1>7 DEF SameLog, new

LEMMA ItemsReportedStep ==
    ASSUME TypeOK, TypeOK', Control, JournalInv, ItemsReported, [Next]_vars
    PROVE  ItemsReported'
<1>1. SUFFICES ASSUME NEW s \in StepIds, NEW i \in DOMAIN manifest'.steps[s].items,
                      NEW a \in DOMAIN manifest'.steps[s].items[i].attempts
               PROVE  \E o \in OutcomeKinds : <<s, i, a, o>> \in history'
  BY DEF ItemsReported
<1>2. history \subseteq history'
  BY HistoryGrows
<1> DEFINE old == manifest.steps[s].items
           new == manifest'.steps[s].items
<1>3. ASSUME i \in DOMAIN old, a \in DOMAIN old[i].attempts
      PROVE  \E o \in OutcomeKinds : <<s, i, a, o>> \in history'
  BY <1>2, <1>3 DEF ItemsReported
<1>4. CASE ~MapInvoke
  <2>1. ItemLogs(manifest.steps[s], manifest'.steps[s])
    BY <1>4, ItemLogsStep
  <2>2. i \in DOMAIN old /\ a \in DOMAIN old[i].attempts
    BY <1>1, <2>1 DEF ItemLogs, SameLog
  <2>3. QED
    BY <1>3, <2>2
<1>5. CASE MapInvoke /\ ~(pos <= Len(NodeOrder) /\ s = ActiveNode)
  <2>1. ~TerminateRun
    BY <1>5 DEF MapInvoke, TerminateRun
  <2>2. new = old
    BY <1>5, <2>1, OtherSteps
  <2>3. QED
    BY <1>1, <1>3, <2>2
<1>6. CASE MapInvoke /\ pos <= Len(NodeOrder) /\ s = ActiveNode
  <2>1. ShapeHere
    BY <1>6 DEF JournalInv, Shape
  <2>2. i \in DOMAIN old /\ (a \in DOMAIN old[i].attempts \/ (i \in DOMAIN round'.outs /\ a = attempt))
    BY <1>1, <1>6, <2>1, MapInvokeLog
  <2>3. ASSUME i \in DOMAIN round'.outs, a = attempt
        PROVE  \E o \in OutcomeKinds : <<s, i, a, o>> \in history'
    BY <1>6, <2>3, MapInvokeIs
  <2>4. QED
    BY <1>3, <2>2, <2>3
<1>7. QED
  BY <1>4, <1>5, <1>6

\* The attempts of a step.
LEMMA StepLog ==
    ASSUME TypeOK, TypeOK', Control, JournalInv, [Next]_vars, NEW s \in StepIds,
           Node[s].kind = "step", ~(InvokeStep /\ pos <= Len(NodeOrder) /\ s = ActiveNode)
    PROVE  GrowLog(manifest.steps[s], manifest'.steps[s])
<1>0. manifest \in Manifests /\ manifest.steps[s] \in Entries
  BY StepEntry DEF TypeOK, JournalsOK
<1> DEFINE e == manifest.steps[s]
           f == manifest'.steps[s]
<1>1. CASE TerminateRun
  <2>1. PICK g : g = TerminateEntry(e, TerminalStatus)
    OBVIOUS
  <2>2. f.attempts = g.attempts /\ TerminalStatus \in {"failed", "cancelled"}
    BY <1>1, <2>1, TerminateRunIs
  <2>3. Legal(e)
    BY AllLegal
  <2>4. SameLog(e, g)
    <3>1. CASE Fresh(e) \/ NotStarted(e) \/ Closed(e) \/ Unfinished(e)
      BY <1>0, <2>1, <2>2, <3>1, LogEnds
    <3>2. CASE Inactive(e)
      <4>1. g = e
        BY <1>0, <2>1, <2>2, <3>2, TerminateEntryIs DEF Inactive
      <4>2. QED
        BY <4>1, LogSelf
    <3>3. QED
      BY <2>3, <3>1, <3>2 DEF Legal, Blank, Done, Running, Stopped
  <2>5. QED
    BY <2>2, <2>4 DEF SameLog, GrowLog
<1>2. CASE ~TerminateRun /\ ~(pos <= Len(NodeOrder) /\ s = ActiveNode)
  BY <1>2, OtherSteps, LogSelf DEF SameLog
<1>3. CASE ~TerminateRun /\ pos <= Len(NodeOrder) /\ s = ActiveNode
  <2>1. ShapeHere /\ ~InvokeStep /\ pc \notin MapPlaces
    BY <1>3 DEF JournalInv, Shape, TypeOK, PlaceOK
  <2>2. ~(MapInput \/ Expand \/ ItemInputs \/ MapInvoke \/ MapSettle \/ RoundWait \/ MapDone \/ Collect)
    BY <2>1 DEF MapInput, Expand, ItemInputs, MapInvoke, MapSettle, RoundWait, MapDone, Collect, MapPlaces
  <2>3. ASSUME f.attempts = e.attempts PROVE GrowLog(e, f)
    BY <2>3, LogSelf DEF SameLog
  <2>4. CASE Result \/ ExitHook \/ UNCHANGED manifest
    BY <2>3, <2>4, ResultIs, ExitHookIs
  <2>5. CASE SkipNode
    <3>1. manifest' = MarkStepSkipped(manifest, s)
      BY <1>3, <2>5 DEF SkipNode, AtNode, StepIds
    <3>2. QED
      BY <1>0, <2>3, <3>1, MarkSkippedIs
  <2>6. CASE DecideNode
    BY <1>3, <2>6 DEF DecideNode, Active, StepIds
  <2>7. CASE StepInput
    <3>1. e.attempts = <<>>
      BY <1>3, <2>1, <2>7 DEF StepInput, ShapeHere, BlankShape, BlankPlaces, Blank, Fresh, ActiveEntry
    <3>2. QED
      BY <3>1 DEF GrowLog
  <2>8. CASE RetryWait
    <3>1. PICK next \in Nat : next = attempt + 1
      BY DEF TypeOK, RoundOK
    <3>2. UNCHANGED manifest \/ manifest' = MarkAttemptRunning(manifest, s, next)
      BY <1>3, <2>8, <3>1 DEF RetryWait
    <3>3. e.attempts = Trail(attempt, "failed") /\ attempt \in Nat
      BY <1>3, <2>1, <2>8 DEF RetryWait, ShapeHere, StepShape, Waiting, ActiveEntry, TypeOK, RoundOK
    <3>4. ASSUME manifest' = MarkAttemptRunning(manifest, s, next) PROVE f.attempts = Trail(next, "running")
      BY <1>0, <3>1, <3>3, <3>4, MarkRunningIs, EntryRunningIs
    <3>5. QED
      BY <2>3, <3>1, <3>2, <3>3, <3>4, StatusNames, LogGrows
  <2>9. CASE Settle
    <3>1. \/ manifest' = MarkAttemptSucceeded(manifest, s)
          \/ manifest' = MarkAttemptTerminal(manifest, s, "failed")
      BY <1>3, <2>9 DEF Settle
    <3>2. Open(e, attempt) /\ attempt \in Nat \ {0}
      BY <1>3, <2>1, <2>9 DEF Settle, ShapeHere, StepShape, ActiveEntry, TypeOK, RoundOK
    <3>3. f.attempts = Trail(attempt, "succeeded") \/ f.attempts = Trail(attempt, "failed")
      BY <1>0, <3>1, <3>2, MarkSucceededIs, MarkTerminalIs, OpenSucceeds, OpenEnds
    <3>4. QED
      BY <3>2, <3>3, StatusNames, LogSame DEF Open, SameLog
  <2>10. QED
    BY <1>3, <2>1, <2>2, <2>4, <2>5, <2>6, <2>7, <2>8, <2>9, ManifestChanges
<1>4. QED
  BY <1>1, <1>2, <1>3

\* What is recorded stays recorded.
LEMMA KeptLog ==
    ASSUME NEW e, NEW f, GrowLog(e, f), NEW a \in DOMAIN e.attempts, NEW o,
           e.attempts[a].status \in RecordedAs(o)
    PROVE  a \in DOMAIN f.attempts /\ f.attempts[a].status \in RecordedAs(o)
<1>1. e.attempts[a].status # "running"
  BY DEF RecordedAs
<1>2. QED
  BY <1>1 DEF GrowLog

\* A step's invocation keeps the earlier attempts and records its own, unless the runner
\* was never started or its success waits for settleInvocation.
LEMMA InvokeLog ==
    ASSUME TypeOK, ShapeHere, InvokeStep
    PROVE  LET e == manifest.steps[ActiveNode]
               f == manifest'.steps[ActiveNode]
           IN  /\ \A a \in Nat \ {0} : a < attempt =>
                    /\ e.attempts[a].status = "failed"
                    /\ a \in DOMAIN f.attempts /\ f.attempts[a].status = "failed"
               /\ \/ history' = history
                  \/ \E o \in OutcomeKinds :
                        /\ history' = history \cup {<<ActiveNode, 0, attempt, o>>}
                        /\ attempt \in DOMAIN f.attempts
                        /\ pc' = "settle" \/ f.attempts[attempt].status \in RecordedAs(o)
<1> DEFINE e == manifest.steps[ActiveNode]
           f == manifest'.steps[ActiveNode]
<1>1. pc = "invoke"
  BY InvokeStepIs
<1>2. attempt \in Nat \ {0} /\ Open(e, attempt)
  BY <1>1 DEF ShapeHere, StepShape, ActiveEntry, TypeOK, RoundOK
<1>3. ActiveNode \in StepIds /\ manifest \in Manifests /\ e \in Entries
  BY <1>1, PlaceKept, StepEntry DEF StepPlaces
<1>4. e.attempts = Trail(attempt, "running")
  BY <1>2 DEF Open
<1>5. DOMAIN e.attempts = 1..attempt /\ \A a \in 1..attempt : a < attempt => e.attempts[a].status = "failed"
  BY <1>2, <1>4, StatusNames, TrailStatus
<1>6. ASSUME NEW last \in {"running", "failed", "cancelled"}, f.attempts = Trail(attempt, last)
      PROVE  /\ \A a \in Nat \ {0} : a < attempt => a \in DOMAIN f.attempts /\ f.attempts[a].status = "failed"
             /\ attempt \in DOMAIN f.attempts /\ f.attempts[attempt].status = last
  BY <1>2, <1>6, StatusNames, TrailStatus
<1>7. CASE manifest' = MarkUndispatched(manifest, ActiveNode) /\ UNCHANGED history
  <2>1. PICK k \in Nat : k = attempt - 1
    BY <1>2
  <2>2. f.attempts = Trail(k, "failed")
    BY <1>2, <1>3, <1>4, <1>7, <2>1, DropIs, DropUndispatchedIs
  <2>3. DOMAIN f.attempts = 1..k /\ \A a \in 1..k : f.attempts[a].status = "failed"
    BY <2>2, StatusNames, TrailStatus
  <2>4. QED
    BY <1>2, <1>5, <1>7, <2>1, <2>3
<1>8. ASSUME NEW o \in OutcomeKinds, history' = history \cup {<<ActiveNode, 0, attempt, o>>},
             \/ pc' = "settle" /\ UNCHANGED manifest
             \/ o # "succeeded" /\ RecordedStatus(o) = "failed"
                    /\ manifest' = MarkAttemptRetrying(manifest, ActiveNode)
             \/ o # "succeeded" /\ manifest' = MarkAttemptTerminal(manifest, ActiveNode, RecordedStatus(o))
      PROVE  \E last \in {"running", "failed", "cancelled"} :
                /\ f.attempts = Trail(attempt, last)
                /\ pc' = "settle" \/ last \in RecordedAs(o)
  <2>1. CASE pc' = "settle" /\ UNCHANGED manifest
    BY <1>4, <2>1
  <2>2. CASE o # "succeeded" /\ RecordedStatus(o) = "failed"
                /\ manifest' = MarkAttemptRetrying(manifest, ActiveNode)
    <3>1. f.attempts = Trail(attempt, "failed")
      BY <1>2, <1>3, <1>4, <2>2, MarkRetryingIs, EntryRetryingIs
    <3>2. "failed" \in RecordedAs(o)
      BY <2>2 DEF RecordedStatus, RecordedAs
    <3>3. QED
      BY <3>1, <3>2
  <2>3. CASE o # "succeeded" /\ manifest' = MarkAttemptTerminal(manifest, ActiveNode, RecordedStatus(o))
    <3>1. PICK status \in {"failed", "cancelled"} : status = RecordedStatus(o)
      BY DEF RecordedStatus
    <3>2. status \in RecordedAs(o)
      BY <2>3, <3>1 DEF RecordedStatus, RecordedAs
    <3>3. f.attempts = Trail(attempt, status)
      BY <1>2, <1>3, <2>3, <3>1, MarkTerminalIs, OpenEnds
    <3>4. QED
      BY <3>2, <3>3
  <2>4. QED
    BY <1>8, <2>1, <2>2, <2>3
<1> HIDE DEF f
<1>9. ASSUME NEW o \in OutcomeKinds, history' = history \cup {<<ActiveNode, 0, attempt, o>>},
             \E last \in {"running", "failed", "cancelled"} :
                /\ f.attempts = Trail(attempt, last)
                /\ pc' = "settle" \/ last \in RecordedAs(o)
      PROVE  /\ \A a \in Nat \ {0} : a < attempt => a \in DOMAIN f.attempts /\ f.attempts[a].status = "failed"
             /\ attempt \in DOMAIN f.attempts
             /\ pc' = "settle" \/ f.attempts[attempt].status \in RecordedAs(o)
  BY <1>6, <1>9
<1>10. QED
  BY <1>2, <1>5, <1>7, <1>8, <1>9, InvokeStepIs DEF f

\* An earlier report of a step.
LEMMA StepReportKept ==
    ASSUME TypeOK, TypeOK', Control, SpendInv, JournalInv, SettleReported, [Next]_vars,
           NEW h \in history, Logged(h), h[2] = 0
    PROVE  Logged(h)'
<1> DEFINE s == h[1]
           e == manifest.steps[s]
           f == manifest'.steps[s]
<1>1. s \in StepIds /\ h[3] \in Nat /\ Node[s].kind = "step"
  BY DEF TypeOK, RestOK, Logged
<1>2. /\ h[3] \in DOMAIN e.attempts
      /\ Unsettled(h) \/ e.attempts[h[3]].status \in RecordedAs(h[4])
  BY DEF Logged, EntryOf
<1>3. SUFFICES /\ h[3] \in DOMAIN f.attempts
               /\ Unsettled(h)' \/ f.attempts[h[3]].status \in RecordedAs(h[4])
  BY <1>1 DEF Logged, EntryOf
<1>4. CASE InvokeStep /\ pos <= Len(NodeOrder) /\ s = ActiveNode
  <2>1. pc = "invoke" /\ ShapeHere
    BY <1>1, <1>4, InvokeStepIs DEF JournalInv, Shape
  <2>2. h[3] < attempt /\ ~Unsettled(h)
    BY <1>4, <2>1 DEF SpendInv, StepMaySpend, MaySpend, Unsettled
  <2>3. h[3] # 0
    BY DEF SpendInv, RetryDiscipline
  <2>4. /\ e.attempts[h[3]].status = "failed"
        /\ h[3] \in DOMAIN f.attempts /\ f.attempts[h[3]].status = "failed"
    BY <1>1, <1>4, <2>1, <2>2, <2>3, InvokeLog
  <2>5. QED
    BY <1>2, <2>2, <2>4
<1>5. CASE ~(InvokeStep /\ pos <= Len(NodeOrder) /\ s = ActiveNode)
  <2>1. GrowLog(e, f)
    BY <1>1, <1>5, StepLog
  <2>2. CASE e.attempts[h[3]].status \in RecordedAs(h[4])
    BY <1>2, <2>1, <2>2, KeptLog
  <2>3. CASE Unsettled(h)
    <3>1. pc = "settle" /\ s = ActiveNode /\ h[3] = attempt
      BY <1>1, <2>3 DEF Unsettled, TypeOK, PlaceOK, MapPlaces
    <3>2. pos <= Len(NodeOrder) /\ ShapeHere /\ ~InvokeStep
      BY <1>1, <1>5, <3>1 DEF TypeOK, PlaceOK, StepPlaces, JournalInv, Shape
    <3>3. CASE ~Settle
      <4>1. UNCHANGED <<pc, pos, attempt>>
        BY <3>1, <3>2, <3>3, WaitSettle
      <4>2. Unsettled(h)'
        BY <3>1, <4>1 DEF Unsettled, ActiveNode
      <4>3. QED
        BY <1>2, <2>1, <4>2 DEF GrowLog
    <3>4. CASE Settle
      <4>1. h[4] = "succeeded"
        <5>1. PICK g : g = <<s, 0, attempt, "succeeded">>
          OBVIOUS
        <5>2. g \in history /\ g[1] = h[1] /\ g[2] = h[2] /\ g[3] = h[3] /\ g[4] = "succeeded"
          BY <3>1, <5>1 DEF SettleReported
        <5>3. g = h
          BY <5>2 DEF SpendInv, RetryDiscipline
        <5>4. QED
          BY <5>2, <5>3
      <4>2. \/ manifest' = MarkAttemptSucceeded(manifest, s)
            \/ manifest' = MarkAttemptTerminal(manifest, s, "failed")
        BY <3>1, <3>4 DEF Settle
      <4>3. Open(e, attempt) /\ attempt \in Nat \ {0} /\ e \in Entries /\ manifest \in Manifests
        BY <1>1, <3>1, <3>2, StepEntry DEF ShapeHere, StepShape, ActiveEntry, TypeOK, RoundOK, JournalsOK
      <4>4. f.attempts = Trail(attempt, "succeeded") \/ f.attempts = Trail(attempt, "failed")
        BY <1>1, <4>2, <4>3, MarkSucceededIs, MarkTerminalIs, OpenSucceeds, OpenEnds
      <4>5. attempt \in DOMAIN f.attempts /\ f.attempts[attempt].status \in {"succeeded", "failed"}
        BY <4>3, <4>4, StatusNames, TrailStatus
      <4>6. QED
        BY <3>1, <4>1, <4>5 DEF RecordedAs
    <3>5. QED
      BY <3>3, <3>4
  <2>4. QED
    BY <1>2, <2>2, <2>3
<1>6. QED
  BY <1>4, <1>5

\* An earlier report of an item.
LEMMA ItemReportKept ==
    ASSUME TypeOK, TypeOK', Control, RoundReported, SpendInv, JournalInv, [Next]_vars,
           NEW h \in history, Logged(h), h[2] # 0
    PROVE  Logged(h)'
<1> DEFINE s == h[1]
           i == h[2]
           old == manifest.steps[s].items
           new == manifest'.steps[s].items
<1>1. s \in StepIds /\ h[3] \in Nat /\ Node[s].kind # "step" /\ i \in DOMAIN old
  BY DEF TypeOK, RestOK, Logged
<1>2. /\ h[3] \in DOMAIN old[i].attempts
      /\ Unsettled(h) \/ old[i].attempts[h[3]].status \in RecordedAs(h[4])
  BY DEF Logged, EntryOf
<1>3. SUFFICES /\ i \in DOMAIN new /\ h[3] \in DOMAIN new[i].attempts
               /\ Unsettled(h)' \/ new[i].attempts[h[3]].status \in RecordedAs(h[4])
  BY <1>1 DEF Logged, EntryOf
<1>4. i \in DOMAIN new /\ GrowLog(old[i], new[i])
  <2>1. CASE ~MapInvoke
    <3>1. ItemLogs(manifest.steps[s], manifest'.steps[s])
      BY <1>1, <2>1, ItemLogsStep
    <3>2. QED
      BY <1>1, <3>1 DEF ItemLogs, SameLog
  <2>2. CASE MapInvoke /\ ~(pos <= Len(NodeOrder) /\ s = ActiveNode)
    <3>1. ~TerminateRun
      BY <2>2 DEF MapInvoke, TerminateRun
    <3>2. new = old
      BY <1>1, <2>2, <3>1, OtherSteps
    <3>3. QED
      BY <1>1, <3>2 DEF GrowLog
  <2>3. CASE MapInvoke /\ pos <= Len(NodeOrder) /\ s = ActiveNode
    <3>1. ShapeHere
      BY <1>1, <2>3 DEF JournalInv, Shape
    <3>2. QED
      BY <1>1, <2>3, <3>1, MapInvokeLog
  <2>4. QED
    BY <2>1, <2>2, <2>3
<1>5. CASE old[i].attempts[h[3]].status \in RecordedAs(h[4])
  <2>1. PICK e : e = old[i]
    OBVIOUS
  <2>2. PICK f : f = new[i]
    OBVIOUS
  <2>3. PICK a : a = h[3]
    OBVIOUS
  <2>4. GrowLog(e, f) /\ a \in DOMAIN e.attempts /\ e.attempts[a].status \in RecordedAs(h[4])
    BY <1>2, <1>4, <1>5, <2>1, <2>2, <2>3
  <2>5. a \in DOMAIN f.attempts /\ f.attempts[a].status \in RecordedAs(h[4])
    BY <2>4, KeptLog
  <2>6. QED
    BY <1>4, <2>2, <2>3, <2>5
<1>6. CASE Unsettled(h)
  <2>1. pc = "mapSettle" /\ s = ActiveNode /\ h[3] = attempt /\ i \in DOMAIN round.outs
    BY <1>1, <1>6 DEF Unsettled, TypeOK, PlaceOK, StepPlaces
  <2>2. CASE ~MapSettle
    <3>1. UNCHANGED <<pc, pos, attempt, round>>
      BY <2>1, <2>2, SettleStep
    <3>2. Unsettled(h)'
      BY <2>1, <3>1 DEF Unsettled, ActiveNode
    <3>3. QED
      BY <1>2, <1>4, <3>2 DEF GrowLog
  <2>3. CASE MapSettle
    <3>1. ShapeHere
      BY <1>1, <2>1 DEF TypeOK, PlaceOK, MapPlaces, JournalInv, Shape
    <3>2. h[4] = round.outs[i]
      <4>1. PICK g : g = <<s, i, attempt, round.outs[i]>>
        OBVIOUS
      <4>2. g \in history /\ g[1] = h[1] /\ g[2] = h[2] /\ g[3] = h[3] /\ g[4] = round.outs[i]
        BY <2>1, <4>1 DEF RoundReported
      <4>3. g = h
        BY <4>2 DEF SpendInv, RetryDiscipline
      <4>4. QED
        BY <4>2, <4>3
    <3>3. attempt \in DOMAIN new[i].attempts /\ new[i].attempts[attempt].status \in RecordedAs(round.outs[i])
      BY <1>1, <2>1, <2>3, <3>1, MapSettleLog DEF ActiveItems
    <3>4. QED
      BY <1>4, <2>1, <3>2, <3>3
  <2>4. QED
    BY <2>2, <2>3
<1>7. QED
  BY <1>2, <1>5, <1>6

\* A new report.
LEMMA NewReportLogged ==
    ASSUME TypeOK, TypeOK', Control, JournalInv, [Next]_vars, NEW h \in history', h \notin history
    PROVE  Logged(h)'
<1>1. CASE InvokeStep
  <2>1. pc = "invoke" /\ UNCHANGED <<pos, attempt>>
    BY <1>1, InvokeStepIs
  <2>2. /\ ActiveNode \in StepIds /\ Node[ActiveNode].kind = "step" /\ ShapeHere
        /\ ActiveNode' = ActiveNode
    BY <2>1 DEF TypeOK, PlaceOK, StepPlaces, JournalInv, Shape, ActiveNode
  <2> DEFINE f == manifest'.steps[ActiveNode]
  <2>3. PICK o \in OutcomeKinds :
            /\ history' = history \cup {<<ActiveNode, 0, attempt, o>>}
            /\ attempt \in DOMAIN f.attempts
            /\ pc' = "settle" \/ f.attempts[attempt].status \in RecordedAs(o)
    BY <1>1, <2>2, InvokeLog
  <2>4. h[1] = ActiveNode /\ h[2] = 0 /\ h[3] = attempt /\ h[4] = o
    BY <2>3
  <2>5. pc' = "settle" => Unsettled(h)'
    BY <2>1, <2>2, <2>4 DEF Unsettled
  <2>6. QED
    BY <2>2, <2>3, <2>4, <2>5 DEF Logged, EntryOf
<1>2. CASE MapInvoke
  <2>1. pc = "mapInvoke" /\ pc' = "mapSettle" /\ UNCHANGED <<pos, attempt>>
    BY <1>2, MapInvokeIs
  <2>2. /\ ActiveNode \in StepIds /\ Node[ActiveNode].kind = "map" /\ ShapeHere
        /\ ActiveNode' = ActiveNode
    BY <2>1 DEF TypeOK, PlaceOK, MapPlaces, JournalInv, Shape, ActiveNode
  <2> DEFINE old == manifest.steps[ActiveNode].items
             new == manifest'.steps[ActiveNode].items
  <2>3. PICK i \in DOMAIN round'.outs : h = <<ActiveNode, i, attempt, round'.outs[i]>>
    BY <1>2, MapInvokeIs
  <2>4. h[1] = ActiveNode /\ h[2] = i /\ h[3] = attempt
    BY <2>3
  <2>5. i \in DOMAIN new /\ attempt \in DOMAIN new[i].attempts
    BY <1>2, <2>2, <2>3, MapInvokeLog
  <2>6. i # 0
    <3>1. manifest.steps[ActiveNode].items \in Seq(ItemRecs) /\ i \in DOMAIN old
      BY <1>2, <2>2, <2>3, MapInvokeLog, StepEntry DEF TypeOK, JournalsOK
    <3>2. QED
      BY <3>1, LenProperties
  <2>7. Unsettled(h)'
    BY <2>1, <2>2, <2>3, <2>4 DEF Unsettled
  <2>8. QED
    BY <2>2, <2>4, <2>5, <2>6, <2>7 DEF Logged, EntryOf
<1>3. CASE ~InvokeStep /\ ~MapInvoke
  BY <1>3, HistoryStep
<1>4. QED
  BY <1>1, <1>2, <1>3

LEMMA ReportsLoggedStep ==
    ASSUME TypeOK, TypeOK', Control, Cause, SpendInv, JournalInv, HistoryInv, [Next]_vars
    PROVE  ReportsLogged'
<1>1. ASSUME NEW h \in history PROVE Logged(h)'
  BY <1>1, StepReportKept, ItemReportKept DEF HistoryInv, ReportsLogged, Cause
<1>2. QED
  BY <1>1, NewReportLogged DEF ReportsLogged

(***************************************************************************)
(* Every entry of the journal keeps a shape that the mark functions build  *)
(* (markAttemptRunning, markAttemptTerminal, failMapNode and the others).  *)
(***************************************************************************)
THEOREM LegalInvariant == Spec => []EntriesLegal
<1>1. TypeOK /\ Control /\ JournalInv => EntriesLegal
  BY AllLegal DEF EntriesLegal
<1>2. QED
  BY <1>1, TypeCorrect, ControlInvariant, JournalInvariant, PTL

(***************************************************************************)
(* While Run executes its steps and runMapNode its rounds, the journal and *)
(* the reported dispatches agree, but for the outcomes that wait for       *)
(* settleInvocation.                                                       *)
(***************************************************************************)
THEOREM HistoryInvariant == Spec => []HistoryInv
<1>1. Init => HistoryInv
  <2>1. SUFFICES ASSUME Init PROVE HistoryInv
    OBVIOUS
  <2>2. history = {} /\ pc # "settle"
    BY <2>1 DEF Init
  <2>3. \A s \in StepIds : manifest.steps[s].attempts = <<>> /\ manifest.steps[s].items = <<>>
    BY <2>1 DEF Init, NewManifest, NewStep
  <2>4. QED
    BY <2>2, <2>3 DEF HistoryInv, ReportsLogged, ItemsReported, SuccessReported, SettleReported
<1>2. /\ TypeOK /\ TypeOK' /\ Control /\ Cause /\ SpendInv /\ JournalInv /\ EntriesLegal'
      /\ HistoryInv /\ [Next]_vars
      => HistoryInv'
  BY ReportsLoggedStep, ItemsReportedStep, SuccessReportedStep, SettleReportedStep DEF HistoryInv
<1>3. QED
  BY <1>1, <1>2, TypeCorrect, ControlInvariant, CauseInvariant, SpendInvariant, JournalInvariant,
     LegalInvariant, PTL DEF Spec

(***************************************************************************)
(* The settled journal accounts for every invocation InvokeSteps reported: *)
(* each has its attempt with the outcome it had, and every item attempt    *)
(* and every successful step attempt was dispatched.                       *)
(***************************************************************************)
THEOREM HistoryCorrect == Spec => []HistoryJournaled
<1>1. HistoryInv => HistoryJournaled
  <2>1. SUFFICES ASSUME HistoryInv, Settled PROVE HistoryJournaled
    BY DEF HistoryJournaled
  <2>2. \A h \in history : Logged(h) /\ ~Unsettled(h)
    BY <2>1 DEF HistoryInv, ReportsLogged, Unsettled, Settled
  <2>3. QED
    BY <2>1, <2>2 DEF HistoryJournaled, HistoryInv, Logged, ItemsReported, SuccessReported
<1>2. QED
  BY <1>1, HistoryInvariant, PTL

-----------------------------------------------------------------------------
\* The region a journal's selections activate, as the function that defines it.

Regions(m) ==
    CHOOSE region : region =
        [i \in 0..Len(NodeOrder) |->
            IF i = 0 THEN {StartNode} ELSE Extended(m, region[i - 1], NodeOrder[i])]

\* region is the growing region up to node k.
GrowsTo(m, k, region) ==
    \A i \in 0..k :
        region[i] = IF i = 0 THEN {StartNode} ELSE Extended(m, region[i - 1], NodeOrder[i])

LEMMA ActiveRegionIs ==
    ASSUME NEW m
    PROVE  ActiveRegion(m) = Regions(m)[Len(NodeOrder)]
BY DEF ActiveRegion, Regions

LEMMA RegionGrows ==
    ASSUME NEW m, NEW k \in 0..Len(NodeOrder)
    PROVE  \E region : region = [i \in 0..k |-> region[i]] /\ GrowsTo(m, k, region)
<1> DEFINE Known(j) == \E region : region = [i \in 0..j |-> region[i]] /\ GrowsTo(m, j, region)
           bad == {j \in 0..Len(NodeOrder) : ~Known(j)}
<1>0. Len(NodeOrder) \in Nat
  BY PlanFacts
<1>1. SUFFICES ASSUME bad # {} PROVE FALSE
  OBVIOUS
<1>2. bad \in SUBSET Nat
  BY <1>0
<1>3. PICK j \in bad : \A i \in bad : j <= i
  BY <1>1, <1>2, LeastOf
<1>4. j \in 0..Len(NodeOrder) /\ ~Known(j)
  BY <1>3
<1>5. CASE j = 0
  <2> DEFINE region == [i \in 0..0 |-> {StartNode}]
  <2>1. region = [i \in 0..0 |-> region[i]] /\ GrowsTo(m, 0, region)
    BY DEF GrowsTo
  <2>2. QED
    BY <1>4, <1>5, <2>1
<1>6. CASE j # 0
  <2>1. j - 1 \in 0..Len(NodeOrder) /\ j - 1 \notin bad
    BY <1>0, <1>3, <1>4, <1>6
  <2>2. Known(j - 1)
    BY <2>1
  <2>3. PICK region : region = [i \in 0..(j - 1) |-> region[i]] /\ GrowsTo(m, j - 1, region)
    BY <2>2
  <2> DEFINE next == [i \in 0..j |-> IF i = j THEN Extended(m, region[j - 1], NodeOrder[j])
                                     ELSE region[i]]
  <2>4. next = [i \in 0..j |-> next[i]]
    OBVIOUS
  <2>5. ASSUME NEW i \in 0..j
        PROVE  next[i] = IF i = 0 THEN {StartNode} ELSE Extended(m, next[i - 1], NodeOrder[i])
    <3>1. CASE i = j
      <4>1. next[i] = Extended(m, region[i - 1], NodeOrder[i])
        BY <3>1
      <4>2. i - 1 \in 0..j /\ i - 1 # j /\ i # 0
        BY <1>0, <1>4, <1>6, <3>1
      <4>3. next[i - 1] = region[i - 1]
        BY <4>2
      <4>4. QED
        BY <4>1, <4>2, <4>3
    <3>2. CASE i # j
      <4>1. next[i] = region[i] /\ i \in 0..(j - 1)
        BY <1>0, <1>4, <3>2
      <4>2. region[i] = IF i = 0 THEN {StartNode} ELSE Extended(m, region[i - 1], NodeOrder[i])
        BY <2>3, <4>1 DEF GrowsTo
      <4>3. i # 0 => i - 1 \in 0..j /\ i - 1 # j
        BY <1>0, <1>4, <3>2
      <4>4. i # 0 => next[i - 1] = region[i - 1]
        BY <4>3
      <4>5. QED
        BY <4>1, <4>2, <4>4
    <3>3. QED
      BY <3>1, <3>2
  <2>6. QED
    BY <1>4, <2>4, <2>5 DEF GrowsTo
<1>7. QED
  BY <1>5, <1>6

LEMMA RegionsGrow ==
    ASSUME NEW m
    PROVE  GrowsTo(m, Len(NodeOrder), Regions(m))
<1> DEFINE N == Len(NodeOrder)
           Body(region) == [i \in 0..N |->
                IF i = 0 THEN {StartNode} ELSE Extended(m, region[i - 1], NodeOrder[i])]
<1>0. N \in 0..N
  BY PlanFacts
<1>1. PICK region : region = [i \in 0..N |-> region[i]] /\ GrowsTo(m, N, region)
  BY <1>0, RegionGrows
<1>2. region = Body(region)
  BY <1>1 DEF GrowsTo
<1>3. Regions(m) = Body(Regions(m))
  BY <1>2 DEF Regions
<1>4. QED
  BY <1>3 DEF GrowsTo

\* The start node and the nodes up to the i-th.
Upto(i) == {StartNode} \cup {NodeOrder[j] : j \in 1..i}

\* A region holds only nodes it was extended with.
LEMMA RegionWithin ==
    ASSUME NEW m, NEW k \in 0..Len(NodeOrder)
    PROVE  Regions(m)[k] \subseteq Upto(k)
<1> DEFINE bad == {i \in 0..Len(NodeOrder) : ~(Regions(m)[i] \subseteq Upto(i))}
<1>0. Len(NodeOrder) \in Nat
  BY PlanFacts
<1>1. SUFFICES ASSUME bad # {} PROVE FALSE
  OBVIOUS
<1>2. bad \in SUBSET Nat
  BY <1>0
<1>3. PICK j \in bad : \A i \in bad : j <= i
  BY <1>1, <1>2, LeastOf
<1>4. j \in 0..Len(NodeOrder) /\ ~(Regions(m)[j] \subseteq Upto(j))
  BY <1>3
<1>5. Regions(m)[j] =
        IF j = 0 THEN {StartNode} ELSE Extended(m, Regions(m)[j - 1], NodeOrder[j])
  BY <1>4, RegionsGrow DEF GrowsTo
<1>6. CASE j = 0
  BY <1>4, <1>5, <1>6 DEF Upto
<1>7. CASE j # 0
  <2>1. j - 1 \in 0..Len(NodeOrder) /\ j - 1 \notin bad /\ j \in 1..j /\ 1..(j - 1) \subseteq 1..j
    BY <1>0, <1>3, <1>4, <1>7
  <2>2. Regions(m)[j - 1] \subseteq Upto(j - 1)
    BY <2>1
  <2>3. Upto(j - 1) \subseteq Upto(j) /\ NodeOrder[j] \in Upto(j)
    BY <2>1 DEF Upto
  <2>4. QED
    BY <1>4, <1>5, <1>7, <2>2, <2>3 DEF Extended
<1>8. QED
  BY <1>6, <1>7

\* Later nodes do not change whether an earlier one is in the region.
LEMMA RegionKeeps ==
    ASSUME NEW m, NEW i \in 0..Len(NodeOrder), NEW x \in Upto(i), NEW k \in i..Len(NodeOrder)
    PROVE  x \in Regions(m)[k] <=> x \in Regions(m)[i]
<1> DEFINE Same(j) == x \in Regions(m)[j] <=> x \in Regions(m)[i]
           bad == {j \in i..Len(NodeOrder) : ~Same(j)}
<1>0. Len(NodeOrder) \in Nat /\ i \in Nat
  BY PlanFacts
<1>1. SUFFICES ASSUME bad # {} PROVE FALSE
  OBVIOUS
<1>2. bad \in SUBSET Nat
  BY <1>0
<1>3. PICK j \in bad : \A l \in bad : j <= l
  BY <1>1, <1>2, LeastOf
<1>4. j \in i..Len(NodeOrder) /\ ~Same(j)
  BY <1>3
<1>5. j # i
  BY <1>4
<1>6. /\ j - 1 \in i..Len(NodeOrder) /\ j - 1 \notin bad
      /\ j \in 0..Len(NodeOrder) /\ j # 0 /\ j \in 1..Len(NodeOrder)
  BY <1>0, <1>3, <1>4, <1>5
<1>7. Same(j - 1)
  BY <1>6
<1>8. Regions(m)[j] = Extended(m, Regions(m)[j - 1], NodeOrder[j])
  BY <1>6, RegionsGrow DEF GrowsTo
<1>9. x # NodeOrder[j]
  <2>1. CASE x = StartNode
    BY <1>6, <2>1, PlanFacts, GraphAssumption
  <2>2. CASE x # StartNode
    <3>1. PICK l \in 1..i : x = NodeOrder[l]
      BY <2>2 DEF Upto
    <3>2. l \in 1..Len(NodeOrder) /\ l # j
      BY <1>0, <1>4, <1>5
    <3>3. QED
      BY <1>6, <3>1, <3>2, PlanFacts
  <2>3. QED
    BY <2>1, <2>2
<1>10. QED
  BY <1>4, <1>7, <1>8, <1>9 DEF Extended

LEMMA StartActive ==
    ASSUME NEW m
    PROVE  StartNode \in ActiveRegion(m)
<1>1. Len(NodeOrder) \in Nat
  BY PlanFacts
<1>2. Regions(m)[0] = {StartNode} /\ StartNode \in Upto(0)
  BY <1>1, RegionsGrow DEF GrowsTo, Upto
<1>3. 0 \in 0..Len(NodeOrder) /\ Len(NodeOrder) \in 0..Len(NodeOrder)
  BY <1>1
<1>4. QED
  BY <1>2, <1>3, RegionKeeps, ActiveRegionIs

\* What a node's activation asks for lies before it.
LEMMA SourcesBefore ==
    ASSUME NEW i \in 1..Len(NodeOrder), NEW n, n = NodeOrder[i]
    PROVE  /\ Node[n].kind = "select" => Node[n].decisionRef \in Upto(i - 1)
           /\ \A k \in DOMAIN Node[n].inbound : Node[n].inbound[k].from \in Upto(i - 1)
<1>1. i \in DOMAIN NodeOrder
  BY PlanFacts
<1>2. ASSUME Node[n].kind = "select" PROVE Node[n].decisionRef \in Upto(i - 1)
  <2>1. \E j \in 1..(i - 1) : NodeOrder[j] = Node[n].decisionRef
    BY <1>1, <1>2, RouteAssumption
  <2>2. QED
    BY <2>1 DEF Upto
<1>3. ASSUME NEW k \in DOMAIN Node[n].inbound PROVE Node[n].inbound[k].from \in Upto(i - 1)
  <2>1. PICK p : p = Node[n].inbound[k].from
    OBVIOUS
  <2>2. p \in Predecessors(n)
    BY <2>1 DEF Predecessors
  <2>3. p = StartNode \/ \E j \in 1..(i - 1) : NodeOrder[j] = p
    BY <1>1, <2>2, GraphAssumption
  <2>4. QED
    BY <2>1, <2>3 DEF Upto
<1>4. QED
  BY <1>2, <1>3

\* Which nodes are active: those whose decision, or whose sources and cases, are.
LEMMA NodeActive ==
    ASSUME NEW m, NEW i \in 1..Len(NodeOrder), NEW n, n = NodeOrder[i]
    PROVE  n \in ActiveRegion(m) <=> Activated(m, ActiveRegion(m), n)
<1>0. Len(NodeOrder) \in Nat
  BY PlanFacts
<1>1. /\ i - 1 \in 0..Len(NodeOrder) /\ i \in 0..Len(NodeOrder) /\ i # 0 /\ i \in 1..i
      /\ Len(NodeOrder) \in i..Len(NodeOrder) /\ Len(NodeOrder) \in (i - 1)..Len(NodeOrder)
  BY <1>0
<1>2. n \in Upto(i)
  BY <1>1 DEF Upto
<1>3. n \in ActiveRegion(m) <=> n \in Regions(m)[i]
  BY <1>1, <1>2, RegionKeeps, ActiveRegionIs
<1>4. Regions(m)[i] = Extended(m, Regions(m)[i - 1], n)
  BY <1>1, RegionsGrow DEF GrowsTo
<1>5. n \notin Regions(m)[i - 1]
  <2>1. n \notin Upto(i - 1)
    <3>1. n # StartNode
      BY PlanFacts, GraphAssumption
    <3>2. ASSUME NEW j \in 1..(i - 1) PROVE n # NodeOrder[j]
      <4>1. j \in 1..Len(NodeOrder) /\ j # i
        BY <1>0
      <4>2. QED
        BY <4>1, PlanFacts
    <3>3. QED
      BY <3>1, <3>2 DEF Upto
  <2>2. QED
    BY <1>1, <2>1, RegionWithin
<1>6. n \in ActiveRegion(m) <=> Activated(m, Regions(m)[i - 1], n)
  BY <1>3, <1>4, <1>5 DEF Extended
<1>7. ASSUME NEW x \in Upto(i - 1) PROVE x \in Regions(m)[i - 1] <=> x \in ActiveRegion(m)
  BY <1>1, RegionKeeps, ActiveRegionIs
<1>8. Activated(m, Regions(m)[i - 1], n) <=> Activated(m, ActiveRegion(m), n)
  BY <1>7, SourcesBefore DEF Activated
<1>9. QED
  BY <1>6, <1>8

-----------------------------------------------------------------------------
\* What the resolver knows of the nodes, and what the journal says of it.

\* Node n was resolved: it is inactive exactly when its decision or its edges say so,
\* and every decision among its active sources was taken.
Visited(r, n) ==
    /\ r.inactive[n] <=> Skipped(r, n)
    /\ Node[n].kind # "select" =>
         \A k \in DOMAIN Node[n].inbound :
            LET e == Node[n].inbound[k]
            IN  e.case # "" /\ ~r.inactive[e.from] => r.selected[e.from] # "none"

Early == {"claim", "prerequisites", "node"}
WorkPlaces == StepPlaces \cup MapPlaces

RouteTypes ==
    /\ res.selected = [n \in NodeIds |-> res.selected[n]]
    /\ res.inactive \in [NodeIds \cup {StartNode} -> BOOLEAN]
    /\ ~res.inactive[StartNode]

RoutedPast == \A i \in 1..Len(NodeOrder) : i < pos => Visited(res, NodeOrder[i])

RoutedHere ==
    pos <= Len(NodeOrder) =>
        /\ pc \in {"nodeWrite"} \cup WorkPlaces \/ res.inactive[ActiveNode] =>
                Visited(res, ActiveNode)
        /\ pc \in WorkPlaces => ~res.inactive[ActiveNode]

RoutedAhead ==
    \A i \in 1..Len(NodeOrder) :
        i > pos \/ (i = pos /\ pc \in Early) =>
            ~res.inactive[NodeOrder[i]] /\ res.selected[NodeOrder[i]] = "none"

Taken(r) == {<<d, r.selected[d]>> : d \in {n \in NodeIds : r.selected[n] # "none"}}

SelectionsTold == SelectedCases(manifest) = Taken(res)

SkipsTold == \A s \in StepIds : manifest.steps[s].status = "skipped" <=> res.inactive[s]

RouteInv ==
    RouteTypes /\ RoutedPast /\ RoutedHere /\ RoutedAhead /\ SelectionsTold /\ SkipsTold

\* Only a skipped node and a routed decision change what the resolver knows.
LEMMA ResolverStep ==
    ASSUME TypeOK, [Next]_vars, ~SkipNode, ~DecideNode
    PROVE  res'.selected = res.selected /\ res'.inactive = res.inactive
<1>1. ASSUME Cancel \/ DeadlinePasses \/ RefuseRun \/ Claim \/ Prerequisites \/ StopAtNode \/
        NodeWrite \/ EnterNode \/ StepInput \/ AttemptWrite \/ InvokeStep \/ RetryWrite \/
        RetryWait \/ SuccessWrite \/ MapInput \/ MapWrite \/ Expand \/ ItemInputs \/ ItemsWrite \/
        MapInvoke \/ MapSettle \/ RoundWrite \/ RoundWait \/ MapDone \/ CollectWrite \/ Result \/
        ResultWrite \/ TerminateRun \/ TerminalWrite \/ ExitHook \/ HookWrite
      PROVE  UNCHANGED res
  BY <1>1 DEF Cancel, DeadlinePasses, RefuseRun, Claim, Prerequisites, StopAtNode, NodeWrite,
     EnterNode, StepInput, AttemptWrite, InvokeStep, RetryWrite, RetryWait, SuccessWrite,
     MapInput, MapWrite, Expand, ItemInputs, ItemsWrite, MapInvoke, MapSettle, RoundWrite,
     RoundWait, MapDone, CollectWrite, Result, ResultWrite, TerminateRun, TerminalWrite,
     ExitHook, HookWrite
<1>2. ASSUME NEW n, NEW v, res' = SetOutput(res, n, v)
      PROVE  res'.selected = res.selected /\ res'.inactive = res.inactive
  BY <1>2 DEF SetOutput, TypeOK, ResolverOK
<1>3. ASSUME SelectNode PROVE res'.selected = res.selected /\ res'.inactive = res.inactive
  BY <1>3 DEF SelectNode, SelectOutput, TypeOK, ResolverOK
<1>4. ASSUME Settle \/ Collect PROVE UNCHANGED res \/ \E n, v : res' = SetOutput(res, n, v)
  BY <1>4 DEF Settle, Collect
<1>5. CASE UNCHANGED vars
  BY <1>5 DEF vars
<1>6. QED
  BY <1>1, <1>2, <1>3, <1>4, <1>5 DEF Next, RunStep, StepNode, MapNode, Finished

\* A node is resolved where the loop meets it, and left only then.
LEMMA RouteStep ==
    ASSUME TypeOK, [Next]_vars
    PROVE  /\ pos' = pos => /\ pc' \in Early => pc \in Early
                            /\ pc' = "nodeWrite" => pc = "nodeWrite" \/ SkipNode \/ DecideNode
                            /\ pc' \in WorkPlaces => pc \in WorkPlaces \/ EnterNode
           /\ pos' # pos => SelectNode \/ pc \in {"nodeWrite"} \cup WorkPlaces
<1>1. ASSUME Cancel \/ DeadlinePasses \/ RefuseRun \/ Claim \/ Prerequisites \/ StopAtNode \/
        SkipNode \/ DecideNode \/ EnterNode \/ StepInput \/ AttemptWrite \/ InvokeStep \/
        RetryWrite \/ RetryWait \/ Settle \/ MapInput \/ MapWrite \/ Expand \/ ItemInputs \/
        ItemsWrite \/ MapInvoke \/ MapSettle \/ RoundWrite \/ RoundWait \/ MapDone \/ Collect \/
        Result \/ ResultWrite \/ TerminateRun \/ TerminalWrite \/ ExitHook \/ HookWrite
      PROVE  /\ pos' = pos
             /\ pc' \in Early => pc \in Early
             /\ pc' = "nodeWrite" => pc = "nodeWrite" \/ SkipNode \/ DecideNode
             /\ pc' \in WorkPlaces => pc \in WorkPlaces \/ EnterNode
  BY <1>1 DEF Cancel, DeadlinePasses, RefuseRun, Claim, Prerequisites, StopAtNode, SkipNode,
     DecideNode, EnterNode, StepInput, AttemptWrite, InvokeStep, RetryWrite, RetryWait,
     Settle, MapInput, MapWrite, Expand, ItemInputs, ItemsWrite, MapInvoke, MapSettle,
     RoundWrite, RoundWait, MapDone, Collect, Result, ResultWrite, TerminateRun,
     TerminalWrite, ExitHook, HookWrite, Goto, Persist, Charge, Fail, ErrorFor, AtNode,
     Active, StepOutcome, StepUndispatched, InvokeError, FailMap, StartRound, SettleRound,
     Early, WorkPlaces, StepPlaces, MapPlaces
<1>2. ASSUME NodeWrite \/ SuccessWrite \/ CollectWrite
      PROVE  pc \in {"nodeWrite"} \cup WorkPlaces /\ (pc' = "terminal" \/ pos' = pos + 1)
  BY <1>2 DEF NodeWrite, SuccessWrite, CollectWrite, Goto, Fail, Persist, Charge, ErrorFor,
     NextNode, InvokeError, WorkPlaces, StepPlaces, MapPlaces
<1>3. ASSUME SelectNode PROVE pos' = pos + 1
  BY <1>3 DEF SelectNode, NextNode
<1>4. CASE UNCHANGED vars
  BY <1>4 DEF vars
<1>5. pos \in Nat /\ "terminal" \notin Early \cup {"nodeWrite"} \cup WorkPlaces
  BY PlanFacts DEF TypeOK, PlaceOK, Early, WorkPlaces, StepPlaces, MapPlaces
<1>6. QED
  BY <1>1, <1>2, <1>3, <1>4, <1>5 DEF Next, RunStep, StepNode, MapNode, Finished

\* Of a new journal m2: the decisions of m, and the active entry not newly skipped.
Worked(m, m2) ==
    /\ m2.decisions = m.decisions
    /\ m2.steps[ActiveNode].status \in
            {m.steps[ActiveNode].status, "running", "succeeded", "failed", "cancelled", "not-started"}

LEMMA WorkedFailMap ==
    ASSUME NEW m \in Manifests, ActiveNode \in StepIds, NEW err, FailMap(m, err)
    PROVE  Worked(m, manifest')
<1>1. PICK status \in {"failed", "cancelled"} : manifest' = FailMapNode(m, ActiveNode, status)
  BY DEF FailMap
<1>2. Touches(m, manifest', ActiveNode) /\ manifest'.steps[ActiveNode].status = status
  BY <1>1, FailMapNodeIs
<1>3. QED
  BY <1>2 DEF Touches, Worked

\* The handlers of a step and of a map record no decision and skip nothing.
LEMMA WorkStep ==
    ASSUME TypeOK, [Next]_vars, pc \in WorkPlaces
    PROVE  Worked(manifest, manifest')
<1>0. /\ manifest \in Manifests /\ ActiveNode \in StepIds
      /\ manifest.steps[ActiveNode] \in Entries /\ manifest.steps[ActiveNode] \in StepRecs
  BY PlaceKept, StepEntry DEF TypeOK, JournalsOK, WorkPlaces
<1>1. ASSUME UNCHANGED manifest PROVE Worked(manifest, manifest')
  BY <1>1 DEF Worked
<1>2. ASSUME NEW n \in Nat, manifest' = MarkAttemptRunning(manifest, ActiveNode, n)
      PROVE  Worked(manifest, manifest')
  BY <1>0, <1>2, MarkRunningIs, EntryRunningIs DEF Touches, Worked
<1>3. ASSUME StepInput \/ MapInput \/ RetryWait PROVE Worked(manifest, manifest')
  <2>1. PICK next \in Nat : next = attempt + 1
    BY DEF TypeOK, RoundOK
  <2>2. \/ UNCHANGED manifest
        \/ manifest' = MarkAttemptRunning(manifest, ActiveNode, 1)
        \/ manifest' = MarkAttemptRunning(manifest, ActiveNode, next)
    BY <1>3, <2>1 DEF StepInput, MapInput, RetryWait
  <2>3. QED
    BY <1>1, <1>2, <2>2
<1>4. ASSUME NEW status \in {"failed", "cancelled"},
             manifest' = MarkAttemptTerminal(manifest, ActiveNode, status)
      PROVE  Worked(manifest, manifest')
  BY <1>0, <1>4, MarkTerminalIs, EntryTerminalIs DEF Touches, Worked
<1>5. ASSUME manifest' = MarkAttemptSucceeded(manifest, ActiveNode)
      PROVE  Worked(manifest, manifest')
  BY <1>0, <1>5, MarkSucceededIs, EntrySucceededIs DEF Touches, Worked
<1>6. ASSUME InvokeStep PROVE Worked(manifest, manifest')
  <2>1. ASSUME manifest' = MarkUndispatched(manifest, ActiveNode)
        PROVE  Worked(manifest, manifest')
    BY <1>0, <2>1, DropIs, DropUndispatchedIs DEF Touches, Worked
  <2>2. ASSUME manifest' = MarkAttemptRetrying(manifest, ActiveNode)
        PROVE  Worked(manifest, manifest')
    BY <1>0, <2>2, MarkRetryingIs, EntryRetryingIs DEF Touches, Worked
  <2>3. \A o : RecordedStatus(o) \in {"failed", "cancelled"}
    BY DEF RecordedStatus
  <2>4. \/ manifest' = MarkUndispatched(manifest, ActiveNode)
        \/ UNCHANGED manifest
        \/ manifest' = MarkAttemptRetrying(manifest, ActiveNode)
        \/ \E o : manifest' = MarkAttemptTerminal(manifest, ActiveNode, RecordedStatus(o))
    BY <1>6, InvokeStepIs
  <2>5. QED
    BY <1>1, <1>4, <2>1, <2>2, <2>3, <2>4
<1>7. ASSUME Settle PROVE Worked(manifest, manifest')
  BY <1>4, <1>5, <1>7 DEF Settle
<1>8. ASSUME NEW err, FailMap(manifest, err) PROVE Worked(manifest, manifest')
  BY <1>0, <1>8, WorkedFailMap
<1>9. ASSUME ItemInputs \/ RoundWait \/ MapDone PROVE Worked(manifest, manifest')
  <2>1. UNCHANGED manifest \/ \E err : FailMap(manifest, err)
    BY <1>9 DEF ItemInputs, RoundWait, MapDone
  <2>2. QED
    BY <1>1, <1>8, <2>1
<1>10. ASSUME Expand PROVE Worked(manifest, manifest')
  <2>1. ASSUME NEW count, manifest' = MarkMapItemsPending(manifest, ActiveNode, count)
        PROVE  Worked(manifest, manifest')
    BY <1>0, <2>1 DEF MarkMapItemsPending, Worked, Manifests, StepRecs
  <2>2. (\E err : FailMap(manifest, err))
        \/ \E count : manifest' = MarkMapItemsPending(manifest, ActiveNode, count)
    BY <1>10 DEF Expand
  <2>3. QED
    BY <1>8, <2>1, <2>2
<1>11. ASSUME MapInvoke PROVE Worked(manifest, manifest')
  <2>1. manifest'.steps[ActiveNode].status = manifest.steps[ActiveNode].status
    BY <1>11, MapInvokeItems
  <2>2. PICK steps : manifest' = [manifest EXCEPT !.steps = steps]
    BY <1>11 DEF MapInvoke
  <2>3. manifest'.decisions = manifest.decisions
    BY <1>0, <2>2 DEF Manifests
  <2>4. QED
    BY <2>1, <2>3 DEF Worked
<1>12. ASSUME MapSettle PROVE Worked(manifest, manifest')
  <2>1. PICK verified : SettleRound(verified)
    BY <1>12 DEF MapSettle
  <2>2. PICK m : m = WithStepItems(manifest, ActiveNode, SettledItems(verified))
    OBVIOUS
  <2>3. SettledItems(verified) \in Seq(ItemRecs)
    BY <1>0, <1>12, SettledItemsType DEF MapSettle
  <2>4. /\ Touches(manifest, m, ActiveNode) /\ m.steps[ActiveNode].status = manifest.steps[ActiveNode].status
        /\ m.steps[ActiveNode].items \in Seq(ItemRecs) /\ m \in Manifests
    BY <1>0, <2>2, <2>3, NewItems DEF Touches
  <2>5. FailMap(m, RoundError) \/ manifest' = m
        \/ \E items : manifest' = WithStepItems(m, ActiveNode, items)
    BY <2>1, <2>2 DEF SettleRound, WithStepItems
  <2>6. ASSUME NEW items, manifest' = WithStepItems(m, ActiveNode, items)
        PROVE  /\ manifest'.decisions = m.decisions
               /\ manifest'.steps[ActiveNode].status = m.steps[ActiveNode].status
    BY <1>0, <2>4, <2>6 DEF WithStepItems, Manifests, StepRecs
  <2>7. m.decisions = manifest.decisions
    BY <2>4 DEF Touches
  <2>8. FailMap(m, RoundError) => Worked(m, manifest')
    BY <1>0, <2>4, WorkedFailMap
  <2>9. QED
    BY <2>4, <2>5, <2>6, <2>7, <2>8 DEF Worked
<1>13. ASSUME Collect PROVE Worked(manifest, manifest')
  <2>1. manifest' = MarkAttemptSucceeded(manifest, ActiveNode) \/ \E err : FailMap(manifest, err)
    BY <1>13 DEF Collect
  <2>2. QED
    BY <1>5, <1>8, <2>1
<1>14. ASSUME SkipNode \/ DecideNode \/ Result \/ TerminateRun \/ ExitHook PROVE FALSE
  BY <1>14 DEF SkipNode, DecideNode, Result, TerminateRun, ExitHook, Active, AtNode, WorkPlaces,
     StepPlaces, MapPlaces
<1>15. QED
  BY <1>1, <1>3, <1>6, <1>7, <1>9, <1>10, <1>11, <1>12, <1>13, <1>14, ManifestChanges

\* Everywhere else only a skipped node, a decision and the end of the run change it.
LEMMA RestStep ==
    ASSUME TypeOK, [Next]_vars, pc \notin WorkPlaces
    PROVE  UNCHANGED manifest \/ SkipNode \/ DecideNode \/ Result \/ TerminateRun \/ ExitHook
<1>1. ASSUME StepInput \/ InvokeStep \/ RetryWait \/ Settle \/ MapInput \/ Expand \/ ItemInputs
             \/ MapInvoke \/ MapSettle \/ RoundWait \/ MapDone \/ Collect
      PROVE  FALSE
  BY <1>1 DEF StepInput, InvokeStep, RetryWait, Settle, MapInput, Expand, ItemInputs, MapInvoke,
     MapSettle, RoundWait, MapDone, Collect, WorkPlaces, StepPlaces, MapPlaces
<1>2. QED
  BY <1>1, ManifestChanges

\* No other step of the run records a decision.
LEMMA DecisionsStep ==
    ASSUME TypeOK, [Next]_vars, ~SkipNode, ~DecideNode
    PROVE  manifest'.decisions = manifest.decisions
<1>0. manifest \in Manifests
  BY DEF TypeOK, JournalsOK
<1>1. ASSUME Result PROVE manifest'.decisions = manifest.decisions
  BY <1>0, <1>1 DEF Result, Manifests
<1>2. ASSUME ExitHook PROVE manifest'.decisions = manifest.decisions
  BY <1>0, <1>2 DEF ExitHook, Manifests
<1>3. ASSUME TerminateRun PROVE manifest'.decisions = manifest.decisions
  <2>1. PICK m : m = Terminate(manifest, TerminalStatus)
    OBVIOUS
  <2>2. m.decisions = manifest.decisions
    BY <1>0, <2>1 DEF Terminate, Manifests
  <2>3. PICK f : manifest' = [m EXCEPT !.failure = f]
    BY <1>3, <2>1 DEF TerminateRun
  <2>4. m \in Manifests
    BY <1>0, <1>3, <2>1, TerminateIs, TerminateRunIs
  <2>5. QED
    BY <2>2, <2>3, <2>4 DEF Manifests
<1>4. QED
  BY <1>1, <1>2, <1>3, WorkStep, RestStep DEF Worked

\* Recording a decision adds at most its selection.
LEMMA RecordSelection ==
    ASSUME NEW m \in Manifests, NEW d, NEW status, NEW case, NEW m2,
           m2 = MarkDecision(m, d, status, case)
    PROVE  /\ status = "selected" => SelectedCases(m2) = SelectedCases(m) \cup {<<d, case>>}
           /\ status # "selected" => SelectedCases(m2) = SelectedCases(m)
<1> DEFINE r == [node |-> d, status |-> status, case |-> case]
           old == m.decisions
<1>1. old \in Seq(DecisionRecs)
  BY DEF Manifests
<1>2. Len(old) \in Nat /\ DOMAIN old = 1..Len(old)
  BY <1>1, LenProperties
<1>3. m2.decisions = Append(old, r)
  BY DEF MarkDecision, Manifests
<1>4. /\ DOMAIN Append(old, r) = 1..(Len(old) + 1)
      /\ Append(old, r)[Len(old) + 1] = r
      /\ \A i \in 1..Len(old) : Append(old, r)[i] = old[i]
  BY <1>1, <1>2
<1>5. r.node = d /\ r.status = status /\ r.case = case
  OBVIOUS
<1>6. PICK new : new = Append(old, r)
  OBVIOUS
<1> HIDE DEF r
<1>7. ASSUME NEW x PROVE x \in SelectedCases(m2) <=>
          x \in SelectedCases(m) \/ (status = "selected" /\ x = <<d, case>>)
  <2>1. x \in SelectedCases(m2) <=>
          \E i \in DOMAIN new : new[i].status = "selected" /\ x = <<new[i].node, new[i].case>>
    BY <1>3, <1>6 DEF SelectedCases
  <2>2. x \in SelectedCases(m) <=>
          \E i \in DOMAIN old : old[i].status = "selected" /\ x = <<old[i].node, old[i].case>>
    BY DEF SelectedCases
  <2>3. DOMAIN new = DOMAIN old \cup {Len(old) + 1}
    BY <1>2, <1>4, <1>6
  <2>4. new[Len(old) + 1] = r /\ \A i \in DOMAIN old : new[i] = old[i]
    BY <1>2, <1>4, <1>6
  <2>5. QED
    BY <1>5, <2>1, <2>2, <2>3, <2>4
<1>8. QED
  BY <1>7

LEMMA SelectionsToldStep ==
    ASSUME TypeOK, [Next]_vars, RouteInv
    PROVE  SelectionsTold'
<1>0. manifest \in Manifests /\ SelectedCases(manifest) = Taken(res) /\ RouteTypes /\ RoutedAhead
  BY DEF TypeOK, JournalsOK, RouteInv, SelectionsTold
<1>1. CASE ~SkipNode /\ ~DecideNode
  <2>1. SelectedCases(manifest') = SelectedCases(manifest)
    BY <1>1, DecisionsStep DEF SelectedCases
  <2>2. Taken(res') = Taken(res)
    BY <1>1, ResolverStep DEF Taken
  <2>3. QED
    BY <1>0, <2>1, <2>2 DEF SelectionsTold
<1>2. CASE SkipNode
  <2>1. Taken(res') = Taken(res)
    BY <1>2 DEF SkipNode, Deactivate, Taken, TypeOK, ResolverOK
  <2>2. \/ manifest' = manifest
        \/ manifest' = MarkDecision(manifest, ActiveNode, "skipped", "none")
        \/ ActiveNode \in StepIds /\ manifest' = MarkStepSkipped(manifest, ActiveNode)
    BY <1>2 DEF SkipNode
  <2>3. ASSUME manifest' = MarkDecision(manifest, ActiveNode, "skipped", "none")
        PROVE  SelectedCases(manifest') = SelectedCases(manifest)
    <3>1. "skipped" # "selected"
      OBVIOUS
    <3>2. QED
      BY <1>0, <2>3, <3>1, RecordSelection
  <2>4. ActiveNode \in StepIds =>
            MarkStepSkipped(manifest, ActiveNode).decisions = manifest.decisions
    BY <1>0, MarkSkippedIs DEF Touches
  <2>5. SelectedCases(manifest') = SelectedCases(manifest)
    BY <2>2, <2>3, <2>4 DEF SelectedCases
  <2>6. QED
    BY <1>0, <2>1, <2>5 DEF SelectionsTold
<1>3. CASE DecideNode
  <2>1. ActiveNode \in NodeIds /\ pc = "node" /\ pos \in 1..Len(NodeOrder)
    BY <1>3, ActiveFacts, PlanFacts DEF DecideNode, Active, AtNode, TypeOK, PlaceOK
  <2>2. PICK case : case = DecisionCase(ActiveNode, InputForNode(res, ActiveNode))
    OBVIOUS
  <2>3. CASE case = "none"
    <3>1. UNCHANGED res /\ manifest' = MarkDecision(manifest, ActiveNode, "failed", "none")
      BY <1>3, <2>2, <2>3 DEF DecideNode
    <3>2. SelectedCases(manifest') = SelectedCases(manifest)
      <4>1. "failed" # "selected"
        OBVIOUS
      <4>2. QED
        BY <1>0, <3>1, <4>1, RecordSelection
    <3>3. QED
      BY <1>0, <3>1, <3>2 DEF SelectionsTold
  <2>4. CASE case # "none"
    <3>1. /\ res' = RouteDecision(res, ActiveNode, case)
          /\ manifest' = MarkDecision(manifest, ActiveNode, "selected", case)
      BY <1>3, <2>2, <2>4 DEF DecideNode
    <3>2. SelectedCases(manifest') = SelectedCases(manifest) \cup {<<ActiveNode, case>>}
      BY <1>0, <3>1, RecordSelection
    <3>3. res'.selected = [res.selected EXCEPT ![ActiveNode] = case]
      BY <3>1 DEF RouteDecision, TypeOK, ResolverOK
    <3>4. res.selected[ActiveNode] = "none"
      BY <1>0, <2>1 DEF RoutedAhead, Early, ActiveNode
    <3>5. /\ res'.selected[ActiveNode] = case
          /\ \A n \in NodeIds \ {ActiveNode} : res'.selected[n] = res.selected[n]
      BY <1>0, <2>1, <3>3 DEF RouteTypes
    <3>6. Taken(res') = Taken(res) \cup {<<ActiveNode, case>>}
      BY <2>1, <2>4, <3>4, <3>5 DEF Taken
    <3>7. QED
      BY <1>0, <3>2, <3>6 DEF SelectionsTold
  <2>5. QED
    BY <2>3, <2>4
<1>4. QED
  BY <1>1, <1>2, <1>3

LEMMA RouteTypesStep ==
    ASSUME TypeOK, [Next]_vars, RouteTypes
    PROVE  RouteTypes'
<1>1. CASE ~SkipNode /\ ~DecideNode
  BY <1>1, ResolverStep DEF RouteTypes
<1>2. CASE SkipNode
  <2>1. ActiveNode \in NodeIds
    BY <1>2, ActiveFacts DEF SkipNode, AtNode, TypeOK, PlaceOK
  <2>2. /\ res'.selected = res.selected
        /\ res'.inactive = [res.inactive EXCEPT ![ActiveNode] = TRUE]
    BY <1>2 DEF SkipNode, Deactivate, TypeOK, ResolverOK
  <2>3. ActiveNode # StartNode
    BY <2>1, GraphAssumption
  <2>4. QED
    BY <2>2, <2>3 DEF RouteTypes
<1>3. CASE DecideNode
  <2>1. res'.inactive = res.inactive
    BY <1>3 DEF DecideNode, RouteDecision, TypeOK, ResolverOK
  <2>2. UNCHANGED res \/ \E case : res'.selected = [res.selected EXCEPT ![ActiveNode] = case]
    BY <1>3 DEF DecideNode, RouteDecision, TypeOK, ResolverOK
  <2>3. QED
    BY <2>1, <2>2 DEF RouteTypes
<1>4. QED
  BY <1>1, <1>2, <1>3

LEMMA SkipsToldStep ==
    ASSUME TypeOK, [Next]_vars, RouteInv
    PROVE  SkipsTold'
<1>0. /\ manifest \in Manifests /\ RouteTypes /\ RoutedHere /\ SkipsTold
      /\ pos \in 1..(Len(NodeOrder) + 1) /\ Len(NodeOrder) \in Nat
  BY PlanFacts DEF TypeOK, JournalsOK, RouteInv, PlaceOK
<1>1. SUFFICES ASSUME NEW s \in StepIds
               PROVE  manifest'.steps[s].status = "skipped" <=> res'.inactive[s]
  BY DEF SkipsTold
<1>2. manifest.steps[s].status = "skipped" <=> res.inactive[s]
  BY <1>0 DEF SkipsTold
<1>3. CASE SkipNode
  <2>1. ActiveNode \in NodeIds /\ pos <= Len(NodeOrder)
    BY <1>3, ActiveFacts DEF SkipNode, AtNode, TypeOK, PlaceOK
  <2>2. res'.inactive = [res.inactive EXCEPT ![ActiveNode] = TRUE]
    BY <1>3 DEF SkipNode, Deactivate, TypeOK, ResolverOK
  <2>3. CASE s = ActiveNode
    <3>1. manifest'.steps[s].status = "skipped"
      <4>1. manifest' = MarkStepSkipped(manifest, ActiveNode)
        BY <1>1, <1>3, <2>3 DEF SkipNode, StepIds
      <4>2. QED
        BY <1>0, <1>1, <2>3, <4>1, MarkSkippedIs
    <3>2. QED
      BY <1>0, <2>1, <2>2, <2>3, <3>1 DEF RouteTypes
  <2>4. CASE s # ActiveNode
    <3>1. manifest'.steps[s] = manifest.steps[s]
      BY <1>1, <1>3, <2>4, OtherSteps DEF SkipNode, TerminateRun, AtNode
    <3>2. res'.inactive[s] = res.inactive[s]
      BY <1>0, <1>1, <2>2, <2>4, PlanFacts DEF RouteTypes
    <3>3. QED
      BY <1>2, <3>1, <3>2
  <2>5. QED
    BY <2>3, <2>4
<1>4. CASE ~SkipNode
  <2>1. res'.inactive = res.inactive
    <3>1. DecideNode => res'.inactive = res.inactive
      BY DEF DecideNode, RouteDecision, TypeOK, ResolverOK
    <3>2. QED
      BY <1>4, <3>1, ResolverStep
  <2>2. CASE TerminateRun
    <3>1. manifest'.steps[s].status = TerminateEntry(manifest.steps[s], TerminalStatus).status
          /\ TerminalStatus \in {"failed", "cancelled"}
      BY <1>1, <2>2, TerminateRunIs
    <3>2. manifest.steps[s] \in Entries
      BY <1>0, <1>1, StepEntry
    <3>3. manifest'.steps[s].status = "skipped" <=> manifest.steps[s].status = "skipped"
      BY <3>1, <3>2, TerminateEntryIs
    <3>4. QED
      BY <1>2, <2>1, <3>3
  <2>3. CASE ~TerminateRun /\ ~(pos <= Len(NodeOrder) /\ s = ActiveNode)
    BY <1>1, <1>2, <2>1, <2>3, OtherSteps
  <2>4. CASE ~TerminateRun /\ pos <= Len(NodeOrder) /\ s = ActiveNode
    <3>1. CASE pc \in WorkPlaces
      <4>1. ~res.inactive[s]
        BY <1>0, <2>4, <3>1 DEF RoutedHere
      <4>2. manifest'.steps[s].status # "skipped"
        BY <1>2, <2>4, <3>1, <4>1, WorkStep DEF Worked
      <4>3. QED
        BY <2>1, <4>1, <4>2
    <3>2. CASE pc \notin WorkPlaces
      <4>1. ~DecideNode
        BY <1>1, <2>4 DEF DecideNode, Active, StepIds
      <4>2. manifest'.steps = manifest.steps
        BY <1>4, <2>4, <3>2, <4>1, RestStep, ResultIs, ExitHookIs
      <4>3. QED
        BY <1>2, <2>1, <4>2
    <3>3. QED
      BY <3>1, <3>2
  <2>5. QED
    BY <2>2, <2>3, <2>4
<1>5. QED
  BY <1>3, <1>4

\* Whether a node was resolved depends only on itself and the nodes before it.
LEMMA VisitedSame ==
    ASSUME NEW r, NEW r2, NEW i \in 1..Len(NodeOrder), NEW n, n = NodeOrder[i],
           r2.inactive[n] = r.inactive[n],
           \A x \in Upto(i - 1) : r2.inactive[x] = r.inactive[x],
           \A x \in Upto(i - 1) \ {StartNode} : r2.selected[x] = r.selected[x]
    PROVE  /\ Skipped(r2, n) <=> Skipped(r, n)
           /\ Visited(r2, n) <=> Visited(r, n)
<1>0. i \in DOMAIN NodeOrder
  BY PlanFacts
<1>1. ASSUME NEW k \in DOMAIN Node[n].inbound
      PROVE  LET e == Node[n].inbound[k]
             IN  /\ r2.inactive[e.from] = r.inactive[e.from]
                 /\ e.case # "" => r2.selected[e.from] = r.selected[e.from]
  <2>1. Node[n].inbound[k].from \in Upto(i - 1)
    BY SourcesBefore
  <2>2. Node[n].inbound[k].case # "" => Node[n].inbound[k].from # StartNode
    BY <1>0, RouteAssumption
  <2>3. QED
    BY <2>1, <2>2
<1>2. Node[n].kind = "select" => r2.inactive[Node[n].decisionRef] = r.inactive[Node[n].decisionRef]
  BY SourcesBefore
<1>3. \A k \in DOMAIN Node[n].inbound :
        EdgeSkips(r2, Node[n].inbound[k]) <=> EdgeSkips(r, Node[n].inbound[k])
  BY <1>1 DEF EdgeSkips
<1>4. Skipped(r2, n) <=> Skipped(r, n)
  BY <1>2, <1>3 DEF Skipped
<1>5. QED
  BY <1>1, <1>4 DEF Visited

\* A step changes the resolver at most at the node it is at.
LEMMA ResolverHere ==
    ASSUME TypeOK, [Next]_vars, RouteTypes, NEW n \in NodeIds \cup {StartNode}
    PROVE  /\ res'.inactive[n] # res.inactive[n] => SkipNode /\ n = ActiveNode
           /\ n # StartNode /\ res'.selected[n] # res.selected[n] => DecideNode /\ n = ActiveNode
<1>1. CASE ~SkipNode /\ ~DecideNode
  BY <1>1, ResolverStep
<1>2. CASE SkipNode
  <2>1. /\ res'.selected = res.selected
        /\ res'.inactive = [res.inactive EXCEPT ![ActiveNode] = TRUE]
    BY <1>2 DEF SkipNode, Deactivate, TypeOK, ResolverOK
  <2>2. QED
    BY <1>2, <2>1 DEF RouteTypes
<1>3. CASE DecideNode
  <2>1. res'.inactive = res.inactive
    BY <1>3 DEF DecideNode, RouteDecision, TypeOK, ResolverOK
  <2>2. UNCHANGED res \/ \E case : res'.selected = [res.selected EXCEPT ![ActiveNode] = case]
    BY <1>3 DEF DecideNode, RouteDecision, TypeOK, ResolverOK
  <2>3. QED
    BY <1>3, <2>1, <2>2 DEF RouteTypes
<1>4. QED
  BY <1>1, <1>2, <1>3

\* A resolved node stays resolved: the loop never comes back.
LEMMA VisitedStays ==
    ASSUME TypeOK, [Next]_vars, RouteTypes, NEW i \in 1..Len(NodeOrder), i <= pos,
           res'.inactive[NodeOrder[i]] = res.inactive[NodeOrder[i]]
    PROVE  /\ Skipped(res', NodeOrder[i]) <=> Skipped(res, NodeOrder[i])
           /\ Visited(res', NodeOrder[i]) <=> Visited(res, NodeOrder[i])
<1>0. pos \in 1..(Len(NodeOrder) + 1) /\ Len(NodeOrder) \in Nat
  BY PlanFacts DEF TypeOK, PlaceOK
<1>1. SkipNode \/ DecideNode => pos <= Len(NodeOrder)
  BY DEF SkipNode, DecideNode, Active, AtNode
<1>2. ASSUME NEW x \in Upto(i - 1)
      PROVE  /\ x \in NodeIds \cup {StartNode}
             /\ SkipNode \/ DecideNode => x # ActiveNode
  <2>1. CASE x = StartNode
    BY <1>1, <2>1, ActiveFacts, GraphAssumption, <1>0
  <2>2. CASE x # StartNode
    <3>1. PICK j \in 1..(i - 1) : x = NodeOrder[j]
      BY <2>2 DEF Upto
    <3>2. j \in 1..Len(NodeOrder) /\ j # pos
      BY <1>0
    <3>3. QED
      BY <1>0, <1>1, <3>1, <3>2, PlanFacts DEF ActiveNode
  <2>3. QED
    BY <2>1, <2>2
<1>3. \A x \in Upto(i - 1) : res'.inactive[x] = res.inactive[x]
  BY <1>2, ResolverHere
<1>4. \A x \in Upto(i - 1) \ {StartNode} : res'.selected[x] = res.selected[x]
  BY <1>2, ResolverHere
<1>5. QED
  BY <1>3, <1>4, VisitedSame

\* What the loop established before it skips, routes, selects or enters a node.
LEMMA Resolves ==
    ASSUME TypeOK, SkipNode \/ DecideNode \/ SelectNode \/ EnterNode
    PROVE  /\ pc = "node" /\ pos \in 1..Len(NodeOrder) /\ ActiveNode = NodeOrder[pos]
           /\ ActiveNode \in NodeIds
           /\ SkipNode <=> Skipped(res, ActiveNode)
           /\ Node[ActiveNode].kind # "select" =>
                \A k \in DOMAIN Node[ActiveNode].inbound :
                    LET e == Node[ActiveNode].inbound[k]
                    IN  e.case # "" /\ ~res.inactive[e.from] => res.selected[e.from] # "none"
<1>1. pc = "node" /\ pos <= Len(NodeOrder) /\ ~CannotResolve(ActiveNode)
  BY DEF SkipNode, DecideNode, SelectNode, EnterNode, Active, AtNode
<1>2. pos \in 1..Len(NodeOrder) /\ ActiveNode \in NodeIds
  BY <1>1, ActiveFacts, PlanFacts DEF TypeOK, PlaceOK
<1>3. SkipNode <=> Skipped(res, ActiveNode)
  BY DEF SkipNode, DecideNode, SelectNode, EnterNode, Active
<1>4. ~Unresolvable(res, ActiveNode)
  BY <1>1 DEF CannotResolve
<1>5. QED
  BY <1>1, <1>2, <1>3, <1>4 DEF Unresolvable, ActiveNode

\* The node the loop is at counts as resolved from the step that settles it.
LEMMA VisitedHere ==
    ASSUME TypeOK, [Next]_vars, RouteInv, SkipNode \/ DecideNode \/ SelectNode \/ EnterNode
    PROVE  /\ Visited(res', ActiveNode)
           /\ ~SkipNode => ~res'.inactive[ActiveNode]
<1>0. /\ pc = "node" /\ pos \in 1..Len(NodeOrder) /\ ActiveNode = NodeOrder[pos]
      /\ ActiveNode \in NodeIds
  BY Resolves
<1>1. ~res.inactive[ActiveNode] /\ RouteTypes
  BY <1>0 DEF RouteInv, RoutedAhead, Early
<1>2. CASE ~SkipNode
  <2>1. ~Skipped(res, ActiveNode) /\ res'.inactive[ActiveNode] = res.inactive[ActiveNode]
    BY <1>0, <1>1, <1>2, Resolves, ResolverHere
  <2>2. Visited(res, ActiveNode)
    BY <1>1, <2>1, Resolves DEF Visited
  <2>3. pos <= pos
    BY <1>0
  <2>4. QED
    BY <1>0, <1>1, <2>1, <2>2, <2>3, VisitedStays
<1>3. CASE SkipNode
  <2>1. /\ res'.selected = res.selected
        /\ res'.inactive = [res.inactive EXCEPT ![ActiveNode] = TRUE]
    BY <1>3 DEF SkipNode, Deactivate, TypeOK, ResolverOK
  <2>3. Skipped(res, ActiveNode) /\ res'.inactive[ActiveNode]
    BY <1>0, <1>1, <1>3, <2>1, Resolves DEF RouteTypes
  <2>4. ASSUME NEW x \in Upto(pos - 1)
        PROVE  res'.inactive[x] = res.inactive[x]
    <3>1. x # ActiveNode /\ x \in NodeIds \cup {StartNode}
      <4>1. CASE x = StartNode
        BY <1>0, <4>1, GraphAssumption
      <4>2. CASE x # StartNode
        <5>1. PICK j \in 1..(pos - 1) : x = NodeOrder[j]
          BY <4>2 DEF Upto
        <5>2. j \in 1..Len(NodeOrder) /\ j # pos
          BY <1>0, PlanFacts
        <5>3. QED
          BY <1>0, <5>1, <5>2, PlanFacts
      <4>3. QED
        BY <4>1, <4>2
    <3>2. QED
      BY <1>1, <2>1, <3>1 DEF RouteTypes
  <2>5. /\ Node[ActiveNode].kind = "select" => Node[ActiveNode].decisionRef \in Upto(pos - 1)
        /\ \A k \in DOMAIN Node[ActiveNode].inbound : Node[ActiveNode].inbound[k].from \in Upto(pos - 1)
    BY <1>0, SourcesBefore
  <2>6. Skipped(res', ActiveNode)
    BY <2>1, <2>3, <2>4, <2>5 DEF Skipped, EdgeSkips
  <2>7. QED
    BY <1>3, <2>1, <2>3, <2>4, <2>5, <2>6, Resolves DEF Visited
<1>4. QED
  BY <1>2, <1>3

LEMMA RoutedPastStep ==
    ASSUME TypeOK, [Next]_vars, RouteInv
    PROVE  RoutedPast'
<1>0. /\ pos \in 1..(Len(NodeOrder) + 1) /\ Len(NodeOrder) \in Nat
      /\ RouteTypes /\ RoutedPast /\ RoutedHere
  BY PlanFacts DEF TypeOK, PlaceOK, RouteInv
<1>1. SUFFICES ASSUME NEW i \in 1..Len(NodeOrder), i < pos' PROVE Visited(res', NodeOrder[i])
  BY DEF RoutedPast
<1>2. CASE i < pos
  <2>1. NodeOrder[i] \in NodeIds
    BY PlanFacts
  <2>2. res'.inactive[NodeOrder[i]] = res.inactive[NodeOrder[i]]
    <3>1. ASSUME SkipNode PROVE NodeOrder[i] # ActiveNode
      BY <1>0, <1>2, <3>1, PlanFacts DEF SkipNode, AtNode, ActiveNode
    <3>2. QED
      BY <1>0, <2>1, <3>1, ResolverHere
  <2>3. i <= pos
    BY <1>0, <1>2
  <2>4. Visited(res, NodeOrder[i])
    BY <1>0, <1>2 DEF RoutedPast
  <2>5. QED
    BY <1>0, <2>2, <2>3, <2>4, VisitedStays
<1>3. CASE ~(i < pos)
  <2>1. pos' # pos /\ pos' = pos + 1 /\ pos <= Len(NodeOrder)
    BY <1>0, <1>1, <1>3, ProgressStep
  <2>2. i = pos /\ NodeOrder[i] = ActiveNode
    BY <1>0, <1>1, <1>3, <2>1 DEF ActiveNode
  <2>3. CASE SelectNode
    BY <2>2, <2>3, VisitedHere
  <2>4. CASE ~SelectNode
    <3>1. pc \in {"nodeWrite"} \cup WorkPlaces
      BY <2>1, <2>4, RouteStep
    <3>2. Visited(res, ActiveNode)
      BY <1>0, <2>1, <3>1 DEF RoutedHere
    <3>3. ~SkipNode
      BY <3>1 DEF SkipNode, AtNode, WorkPlaces, StepPlaces, MapPlaces
    <3>4. ActiveNode \in NodeIds
      BY <1>0, <2>1, ActiveFacts
    <3>5. res'.inactive[ActiveNode] = res.inactive[ActiveNode]
      BY <1>0, <3>3, <3>4, ResolverHere
    <3>6. i <= pos
      BY <1>0, <2>2
    <3>7. QED
      BY <1>0, <2>2, <3>2, <3>5, <3>6, VisitedStays
  <2>5. QED
    BY <2>3, <2>4
<1>4. QED
  BY <1>2, <1>3

LEMMA RoutedHereStep ==
    ASSUME TypeOK, TypeOK', [Next]_vars, RouteInv
    PROVE  RoutedHere'
<1>0. /\ pos \in 1..(Len(NodeOrder) + 1) /\ Len(NodeOrder) \in Nat
      /\ pos' \in 1..(Len(NodeOrder) + 1)
      /\ RouteTypes /\ RoutedPast /\ RoutedHere /\ RoutedAhead
  BY PlanFacts DEF TypeOK, PlaceOK, RouteInv
<1>1. SUFFICES ASSUME pos' <= Len(NodeOrder)
               PROVE  /\ pc' \in {"nodeWrite"} \cup WorkPlaces \/ res'.inactive[ActiveNode'] =>
                                Visited(res', ActiveNode')
                      /\ pc' \in WorkPlaces => ~res'.inactive[ActiveNode']
  BY DEF RoutedHere
<1>2. CASE pos' # pos
  <2>1. pos' = pos + 1 /\ pc' = "node"
    BY <1>2, ProgressStep
  <2>2. pos' \in 1..Len(NodeOrder) /\ pos' > pos /\ ActiveNode' = NodeOrder[pos']
    BY <1>0, <1>1, <2>1 DEF ActiveNode
  <2>3. ~res.inactive[ActiveNode'] /\ ActiveNode' \in NodeIds
    BY <1>0, <2>2, PlanFacts DEF RoutedAhead
  <2>4. ~SkipNode
    BY <1>2 DEF SkipNode
  <2>5. ~res'.inactive[ActiveNode']
    BY <1>0, <2>3, <2>4, ResolverHere
  <2>6. QED
    BY <2>1, <2>5 DEF WorkPlaces, StepPlaces, MapPlaces
<1>3. CASE pos' = pos
  <2>1. /\ ActiveNode' = ActiveNode /\ pos <= Len(NodeOrder) /\ ActiveNode \in NodeIds
        /\ ActiveNode = NodeOrder[pos] /\ pos \in 1..Len(NodeOrder) /\ pos <= pos
    BY <1>0, <1>1, <1>3, ActiveFacts DEF ActiveNode
  <2>2. CASE SkipNode \/ DecideNode \/ EnterNode
    <3>1. Visited(res', ActiveNode) /\ (~SkipNode => ~res'.inactive[ActiveNode])
      BY <2>2, VisitedHere
    <3>2. SkipNode => pc' \notin WorkPlaces
      BY DEF SkipNode, Goto, WorkPlaces, StepPlaces, MapPlaces
    <3>3. QED
      BY <2>1, <3>1, <3>2
  <2>3. CASE ~(SkipNode \/ DecideNode \/ EnterNode)
    <3>1. res'.inactive[ActiveNode] = res.inactive[ActiveNode]
      BY <1>0, <2>1, <2>3, ResolverHere
    <3>2. Visited(res', ActiveNode) <=> Visited(res, ActiveNode)
      BY <1>0, <2>1, <3>1, VisitedStays
    <3>3. /\ pc' = "nodeWrite" => pc = "nodeWrite"
          /\ pc' \in WorkPlaces => pc \in WorkPlaces
      BY <1>3, <2>3, RouteStep
    <3>4. /\ pc \in {"nodeWrite"} \cup WorkPlaces \/ res.inactive[ActiveNode] => Visited(res, ActiveNode)
          /\ pc \in WorkPlaces => ~res.inactive[ActiveNode]
      BY <1>0, <2>1 DEF RoutedHere
    <3>5. QED
      BY <2>1, <3>1, <3>2, <3>3, <3>4
  <2>4. QED
    BY <2>2, <2>3
<1>4. QED
  BY <1>2, <1>3

LEMMA RoutedAheadStep ==
    ASSUME TypeOK, TypeOK', [Next]_vars, RouteInv
    PROVE  RoutedAhead'
<1>0. /\ pos \in 1..(Len(NodeOrder) + 1) /\ Len(NodeOrder) \in Nat
      /\ pos' \in 1..(Len(NodeOrder) + 1)
      /\ RouteTypes /\ RoutedAhead
  BY PlanFacts DEF TypeOK, PlaceOK, RouteInv
<1>1. SUFFICES ASSUME NEW i \in 1..Len(NodeOrder), i > pos' \/ (i = pos' /\ pc' \in Early)
               PROVE  ~res'.inactive[NodeOrder[i]] /\ res'.selected[NodeOrder[i]] = "none"
  BY DEF RoutedAhead
<1>2. pos' = pos \/ pos' = pos + 1
  BY ProgressStep
<1>3. i > pos \/ (i = pos /\ pc \in Early /\ pos' = pos /\ pc' \in Early)
  BY <1>0, <1>1, <1>2, RouteStep
<1>4. ~res.inactive[NodeOrder[i]] /\ res.selected[NodeOrder[i]] = "none"
  BY <1>0, <1>3 DEF RoutedAhead
<1>5. NodeOrder[i] \in NodeIds /\ NodeOrder[i] # StartNode
  BY PlanFacts, GraphAssumption
<1>6. ASSUME SkipNode \/ DecideNode, NodeOrder[i] = ActiveNode
      PROVE  DecideNode /\ UNCHANGED res
  <2>1. i = pos
    BY <1>0, <1>6, PlanFacts DEF SkipNode, DecideNode, Active, AtNode, ActiveNode
  <2>2. pc' \in Early
    BY <1>0, <1>3, <2>1
  <2>3. QED
    BY <1>6, <2>2 DEF SkipNode, DecideNode, Goto, Fail, Early
<1>7. QED
  BY <1>0, <1>4, <1>5, <1>6, ResolverHere

LEMMA RouteInit == ASSUME Init PROVE RouteInv
<1>1. res = NewResolver /\ pc = "claim" /\ pos = 1
      /\ manifest = NewManifest([s \in StepIds |-> NewStep(Node[s].kind = "map", Node[s].collect)])
  BY DEF Init
<1>2. /\ res.selected = [n \in NodeIds |-> "none"]
      /\ res.inactive = [n \in NodeIds \cup {StartNode} |-> FALSE]
  BY <1>1 DEF NewResolver
<1>3. RouteTypes
  BY <1>2 DEF RouteTypes
<1>4. RoutedPast
  BY <1>1, PlanFacts DEF RoutedPast
<1>5. RoutedHere
  BY <1>1, <1>2, ActiveFacts DEF RoutedHere, WorkPlaces, StepPlaces, MapPlaces
<1>6. RoutedAhead
  BY <1>2, PlanFacts DEF RoutedAhead
<1>7. SelectionsTold
  <2>1. manifest.decisions = <<>>
    BY <1>1 DEF NewManifest
  <2>2. SelectedCases(manifest) = {}
    BY <2>1 DEF SelectedCases
  <2>3. QED
    BY <1>2, <2>2 DEF SelectionsTold, Taken
<1>8. SkipsTold
  <2>1. \A s \in StepIds : manifest.steps[s].status = "pending"
    BY <1>1 DEF NewManifest, NewStep
  <2>2. QED
    BY <1>2, <2>1, PlanFacts DEF SkipsTold
<1>9. QED
  BY <1>3, <1>4, <1>5, <1>6, <1>7, <1>8 DEF RouteInv

(***************************************************************************)
(* The resolver and the journal agree in every state of every run: each    *)
(* node behind the loop was found active or inactive as its edges, its     *)
(* decision and the recorded selections say (activationSkipReason), none   *)
(* ahead of it was touched, the journal records exactly the selections the *)
(* resolver routes by, and a step is skipped exactly when it is inactive.  *)
(***************************************************************************)
THEOREM RouteInvariant == Spec => []RouteInv
<1>1. Init => RouteInv
  BY RouteInit
<1>2. TypeOK /\ TypeOK' /\ RouteInv /\ [Next]_vars => RouteInv'
  <2>1. ASSUME TypeOK, TypeOK', RouteInv, [Next]_vars PROVE RouteInv'
    <3>1. RouteTypes'
      BY <2>1, RouteTypesStep DEF RouteInv
    <3>2. QED
      BY <2>1, <3>1, RoutedPastStep, RoutedHereStep, RoutedAheadStep, SelectionsToldStep,
         SkipsToldStep DEF RouteInv
  <2>2. QED
    BY <2>1
<1>3. QED
  BY <1>1, <1>2, TypeCorrect, PTL DEF Spec

\* The journal's region and the resolver agree on every resolved node.
LEMMA RegionAgrees ==
    ASSUME TypeOK, RouteInv, NEW i \in 1..Len(NodeOrder), Visited(res, NodeOrder[i]),
           \A j \in 1..(i - 1) :
                NodeOrder[j] \in ActiveRegion(manifest) <=> ~res.inactive[NodeOrder[j]]
    PROVE  NodeOrder[i] \in ActiveRegion(manifest) <=> ~res.inactive[NodeOrder[i]]
<1> DEFINE n == NodeOrder[i]
           region == ActiveRegion(manifest)
<1>0. i \in DOMAIN NodeOrder /\ RouteTypes /\ SelectedCases(manifest) = Taken(res)
  BY PlanFacts DEF RouteInv, SelectionsTold
<1>1. n \in region <=> Activated(manifest, region, n)
  BY NodeActive
<1>2. ASSUME NEW x \in Upto(i - 1) PROVE x \in region <=> ~res.inactive[x]
  BY <1>0, StartActive DEF Upto, RouteTypes
<1>3. CASE Node[n].kind = "select"
  <2>1. Node[n].decisionRef \in Upto(i - 1)
    BY <1>3, SourcesBefore
  <2>2. Activated(manifest, region, n) <=> ~res.inactive[Node[n].decisionRef]
    BY <1>2, <1>3, <2>1 DEF Activated
  <2>3. res.inactive[n] <=> res.inactive[Node[n].decisionRef]
    BY <1>3 DEF Visited, Skipped
  <2>4. QED
    BY <1>1, <2>2, <2>3
<1>4. CASE Node[n].kind # "select"
  <2>1. ASSUME NEW k \in DOMAIN Node[n].inbound
        PROVE  LET e == Node[n].inbound[k]
               IN  (e.from \in region /\ (e.case = "" \/ <<e.from, e.case>> \in SelectedCases(manifest)))
                        <=> ~EdgeSkips(res, e)
    <3>1. PICK e : e = Node[n].inbound[k]
      OBVIOUS
    <3>2. e.from \in Upto(i - 1)
      BY <3>1, SourcesBefore
    <3>3. e.from \in region <=> ~res.inactive[e.from]
      BY <1>2, <3>2
    <3>4. CASE e.case = ""
      BY <3>1, <3>3, <3>4 DEF EdgeSkips
    <3>5. CASE e.case # ""
      <4>1. e.from # StartNode
        BY <1>0, <3>1, <3>5, RouteAssumption
      <4>2. e.from \in NodeIds
        <5>1. PICK j \in 1..(i - 1) : e.from = NodeOrder[j]
          BY <3>2, <4>1 DEF Upto
        <5>2. j \in 1..Len(NodeOrder)
          BY PlanFacts
        <5>3. QED
          BY <5>1, <5>2, PlanFacts
      <4>3. ~res.inactive[e.from] => res.selected[e.from] # "none"
        BY <1>4, <3>1, <3>5 DEF Visited
      <4>4. <<e.from, e.case>> \in Taken(res) <=> res.selected[e.from] = e.case /\ e.case # "none"
        BY <4>2 DEF Taken
      <4>5. QED
        BY <1>0, <3>1, <3>3, <3>5, <4>3, <4>4 DEF EdgeSkips
    <3>6. QED
      BY <3>4, <3>5
  <2>2. Activated(manifest, region, n) <=> ~Skipped(res, n)
    BY <1>4, <2>1 DEF Activated, Skipped
  <2>3. QED
    BY <1>1, <2>2 DEF Visited
<1>5. QED
  BY <1>3, <1>4

LEMMA RegionIsActive ==
    ASSUME TypeOK, RouteInv, NEW i \in 1..Len(NodeOrder), i < pos
    PROVE  NodeOrder[i] \in ActiveRegion(manifest) <=> ~res.inactive[NodeOrder[i]]
<1> DEFINE Agree(j) == NodeOrder[j] \in ActiveRegion(manifest) <=> ~res.inactive[NodeOrder[j]]
           bad == {j \in 1..Len(NodeOrder) : j < pos /\ ~Agree(j)}
<1>0. Len(NodeOrder) \in Nat /\ pos \in Nat
  BY PlanFacts DEF TypeOK, PlaceOK
<1>1. SUFFICES ASSUME bad # {} PROVE FALSE
  OBVIOUS
<1>2. bad \in SUBSET Nat
  BY <1>0
<1>3. PICK j \in bad : \A l \in bad : j <= l
  BY <1>1, <1>2, LeastOf
<1>4. j \in 1..Len(NodeOrder) /\ j < pos /\ ~Agree(j)
  BY <1>3
<1>5. ASSUME NEW l \in 1..(j - 1) PROVE Agree(l)
  <2>1. l \in 1..Len(NodeOrder) /\ l < pos /\ ~(j <= l)
    BY <1>0, <1>4
  <2>2. QED
    BY <1>3, <2>1
<1>6. Visited(res, NodeOrder[j])
  BY <1>4 DEF RouteInv, RoutedPast
<1> HIDE DEF bad
<1>7. Agree(j)
  BY <1>4, <1>5, <1>6, RegionAgrees
<1>8. QED
  BY <1>4, <1>7

\* The journal m explains its skips.
SkipsExplained(m) ==
    \A s \in StepIds :
        /\ m.steps[s].status = "skipped" => s \notin ActiveRegion(m)
        /\ m.status = "succeeded" =>
                (m.steps[s].status = "skipped" <=> s \notin ActiveRegion(m))

LEMMA ManifestExplains ==
    ASSUME TypeOK, RouteInv, HeadInv
    PROVE  SkipsExplained(manifest)
<1>0. Len(NodeOrder) \in Nat /\ pos \in Nat
  BY PlanFacts DEF TypeOK, PlaceOK
<1>1. SUFFICES ASSUME NEW s \in StepIds
               PROVE  /\ manifest.steps[s].status = "skipped" => s \notin ActiveRegion(manifest)
                      /\ manifest.status = "succeeded" =>
                            (manifest.steps[s].status = "skipped" <=> s \notin ActiveRegion(manifest))
  BY DEF SkipsExplained
<1>2. PICK i \in 1..Len(NodeOrder) : s = NodeOrder[i]
  BY StepPosition
<1>3. manifest.steps[s].status = "skipped" <=> res.inactive[s]
  BY DEF RouteInv, SkipsTold
<1>4. ASSUME res.inactive[s] PROVE s \notin ActiveRegion(manifest)
  <2>1. i <= pos
    BY <1>0, <1>2, <1>4 DEF RouteInv, RoutedAhead
  <2>2. CASE i < pos
    BY <1>2, <1>4, <2>2, RegionIsActive
  <2>3. CASE i = pos
    <3>1. s = ActiveNode /\ pos <= Len(NodeOrder)
      BY <1>0, <1>2, <2>3 DEF ActiveNode
    <3>2. Visited(res, NodeOrder[i])
      BY <1>2, <1>4, <3>1 DEF RouteInv, RoutedHere
    <3>3. ASSUME NEW j \in 1..(i - 1)
          PROVE  NodeOrder[j] \in ActiveRegion(manifest) <=> ~res.inactive[NodeOrder[j]]
      <4>1. j \in 1..Len(NodeOrder) /\ j < pos
        BY <1>0, <2>3
      <4>2. QED
        BY <4>1, RegionIsActive
    <3>4. QED
      BY <1>2, <1>4, <3>2, <3>3, RegionAgrees
  <2>4. QED
    BY <1>0, <2>1, <2>2, <2>3
<1>5. ASSUME manifest.status = "succeeded"
      PROVE  s \in ActiveRegion(manifest) <=> ~res.inactive[s]
  <2>1. i < pos
    BY <1>0, <1>5 DEF HeadInv
  <2>2. QED
    BY <1>2, <2>1, RegionIsActive
<1>6. QED
  BY <1>3, <1>4, <1>5

(***************************************************************************)
(* The stored journal alone explains its skips: at every instant, whatever *)
(* writes failed, a durable skipped step lies outside the region that the  *)
(* recorded selections activate, and a successful run skipped exactly the  *)
(* steps outside it. What the run's resolver knew can be rebuilt from the  *)
(* plan and the journal.                                                   *)
(***************************************************************************)
THEOREM SkipsCorrect == Spec => []SkipsFollowDecisions
<1> DEFINE Explained == durable # NoJournal => SkipsExplained(durable)
<1>1. Init => Explained
  BY DEF Init
<1>2. TypeOK /\ RouteInv /\ HeadInv /\ Explained /\ [Next]_vars => Explained'
  BY DurableStep, ManifestExplains
<1>3. Explained => SkipsFollowDecisions
  BY DEF SkipsExplained, SkipsFollowDecisions
<1> HIDE DEF Explained
<1>4. QED
  BY <1>1, <1>2, <1>3, TypeCorrect, RouteInvariant, HeadInvariant, PTL DEF Spec

-----------------------------------------------------------------------------
\* The rounds of a map and the attempts of a step, as the fuzzer's interpreter sees them.

\* No later round changes the item: it succeeded, or its map keeps its failure and no
\* retry is left to it.
Final(hist, step, s, i) ==
    LET item == step.items[i]
        k == Len(item.attempts)
    IN  \/ item.status = "succeeded"
        \/ /\ item.status = "failed" /\ step.collect
           /\ \E o \in OutcomeKinds :
                /\ <<s, i, k, o>> \in hist
                /\ MapItemFailure(o)
                /\ RetryableOutcome(o) => k = Node[s].maxAttempts

AllFinal(hist, step, s) == \A i \in DOMAIN step.items : Final(hist, step, s, i)

\* A report that does not end its map: it can be retried, it was verified or it is kept.
Fine(step, s, h) ==
    \/ RetryableOutcome(h[4]) /\ h[3] < Node[s].maxAttempts
    \/ h[4] = "succeeded" /\ step.items[h[2]].attempts[h[3]].status = "succeeded"
    \/ step.collect /\ MapItemFailure(h[4])

NoEnding(hist, step, s) == \A h \in hist : h[1] = s => Fine(step, s, h)

\* The rounds ended with round r: items that were not in it were final before.
EndedIn(hist, step, s, r) ==
    \A i \in DOMAIN step.items :
        LET k == Len(step.items[i].attempts) IN
        /\ Closed(step.items[i]) /\ step.items[i].status # "cancelled"
        /\ k <= r
        /\ k < r => Final(hist, step, s, i)

Unscripted(hist, s) == \E h \in hist : h[1] = s /\ h[4] \notin Scripted

\* What a map at rest says of its rounds.
MapTold(hist, step, s) ==
    /\ step.status = "succeeded" => AllFinal(hist, step, s)
    /\ step.status = "failed" =>
            Unscripted(hist, s) \/ NoEnding(hist, step, s) \/ \E r \in Nat : EndedIn(hist, step, s, r)

\* What the active map says at each place.
RoundOpen == RoundPlaces \cup {"mapSettle"}

EarlierFine ==
    pc \in RoundOpen => \A h \in history :
        h[1] = ActiveNode /\ h[3] < attempt => Fine(ActiveEntry, ActiveNode, h)

RestFinal ==
    pc \in RoundOpen => \A i \in DOMAIN ActiveEntry.items \ pending :
        Final(history, ActiveEntry, ActiveNode, i) /\ Len(ActiveEntry.items[i].attempts) < attempt

CollectedRest ==
    /\ pc \in RoundOpen => collected \cap pending = {}
    /\ pc = "mapDone" => \A i \in DOMAIN ActiveEntry.items \cap collected :
            Final(history, ActiveEntry, ActiveNode, i)

InfraReported ==
    pc = "mapSettle" /\ round.err = "infra" =>
        DOMAIN round.outs = {} \/ \E i \in DOMAIN round.outs : round.outs[i] = "infra"

RoundsEnded ==
    /\ pc = "mapDone" => EndedIn(history, ActiveEntry, ActiveNode, attempt)
    /\ pc = "collect" => AllFinal(history, ActiveEntry, ActiveNode)
    /\ pc = "terminal" /\ ActiveEntry.status = "running" => NoEnding(history, ActiveEntry, ActiveNode)

\* What the rounds of the active map tell at the place Run is at.
RoundsHere == EarlierFine /\ RestFinal /\ CollectedRest /\ InfraReported /\ RoundsEnded

\* Every map of the journal is told.
MapsTold ==
    \A s \in StepIds : manifest.steps[s].isMap => MapTold(history, manifest.steps[s], s)

\* A step has a later attempt only after a retryable failure of the one before it.
StepsTold ==
    \A s \in StepIds : ~manifest.steps[s].isMap =>
        \A a \in DOMAIN manifest.steps[s].attempts :
            /\ a <= Node[s].maxAttempts
            /\ a > 1 => \E o \in OutcomeKinds :
                    RetryableOutcome(o) /\ <<s, 0, a - 1, o>> \in history

\* The active step's rounds, while it is a map.
ActiveTold ==
    pos <= Len(NodeOrder) /\ ActiveNode \in StepIds /\ ActiveEntry.isMap => RoundsHere

\* The inductive invariant behind JournalMatchesPrediction.
TellsRounds == ActiveTold /\ MapsTold /\ StepsTold

-----------------------------------------------------------------------------
\* What the interpreter predicts for a map that behaves like its script.

Ends(f, a, max) == f # "Succeed" /\ (~FaultRetryable(f) \/ a = max)
Collectable(collect, f) == collect /\ CollectedFailure(f)

\* Item i of count ended with attempt K[i] and status st[i], in rounds up to r, the way
\* the script has it: only the last round can fail the map.
Plays(script, count, max, collect, K, st, r, failed) ==
    /\ count \in Nat /\ max \in Nat \ {0} /\ r \in 0..max
    /\ \A i \in 1..count :
        /\ K[i] \in 1..r
        /\ st[i] = IF script[<<i, K[i]>>] = "Succeed" THEN "succeeded" ELSE "failed"
        /\ \A a \in 1..K[i] : script[<<i, a>>] # "FailFatal"
        /\ \A a \in 1..(K[i] - 1) : FaultRetryable(script[<<i, a>>])
        /\ K[i] < r => /\ ~FaultRetryable(script[<<i, K[i]>>])
                       /\ \/ script[<<i, K[i]>>] = "Succeed"
                          \/ Collectable(collect, script[<<i, K[i]>>])
        /\ K[i] = r /\ ~failed => \/ script[<<i, r>>] = "Succeed"
                                  \/ /\ Ends(script[<<i, r>>], r, max)
                                     /\ Collectable(collect, script[<<i, r>>])
    /\ failed \in BOOLEAN
    /\ failed => \E i \in 1..count :
            /\ K[i] = r
            /\ Ends(script[<<i, r>>], r, max)
            /\ ~Collectable(collect, script[<<i, r>>])

\* What the interpreter then knows after round a.
After(count, K, st, r, failed, a) ==
    [pending |-> IF a < r THEN {i \in 1..count : a < K[i]} ELSE {},
     failed |-> failed /\ r <= a,
     items |-> [i \in 1..count |-> IF a < K[i] THEN [attempts |-> a, status |-> "succeeded"]
                                   ELSE [attempts |-> K[i], status |-> st[i]]]]

\* A success is never retried.
LEMMA SuccessIsFinal == ~FaultRetryable("Succeed") /\ \A f : FaultRetryable(f) => f # "Succeed" /\ f # "FailFatal"
BY DEF FaultRetryable

\* One round of the interpreter takes After from one round to the next.
LEMMA RoundFollows ==
    ASSUME NEW script, NEW count, NEW max, NEW collect, NEW K, NEW st, NEW r, NEW failed,
           Plays(script, count, max, collect, K, st, r, failed), NEW a \in 1..max
    PROVE  PredictRound(script, max, collect, After(count, K, st, r, failed, a - 1), a) =
           After(count, K, st, r, failed, a)
<1> DEFINE before == After(count, K, st, r, failed, a - 1)
           after == After(count, K, st, r, failed, a)
           fault == [i \in before.pending |-> script[<<i, a>>]]
           fatal == {i \in before.pending : fault[i] = "FailFatal"}
           reached == {i \in before.pending : \A j \in fatal : i <= j}
           retry == {i \in reached : FaultRetryable(fault[i]) /\ a < max}
           failing == {i \in reached \ retry : fault[i] # "Succeed"}
           terminal == \E i \in failing : ~(collect /\ CollectedFailure(fault[i]))
           Item(i, item) ==
               IF i \in failing \/ (i \in retry /\ terminal) THEN [attempts |-> a, status |-> "failed"]
               ELSE IF i \in reached THEN [item EXCEPT !.attempts = a]
               ELSE IF i \in before.pending
               THEN [item EXCEPT !.status = IF a = 1 THEN "not-started" ELSE "failed"]
               ELSE item
<1>1. PredictRound(script, max, collect, before, a) =
        [pending |-> IF terminal THEN {} ELSE retry,
         failed |-> before.failed \/ terminal,
         items |-> [i \in DOMAIN before.items |-> Item(i, before.items[i])]]
  BY DEF PredictRound
<1>2. count \in Nat /\ max \in Nat \ {0} /\ r \in 0..max /\ failed \in BOOLEAN
  BY DEF Plays
<1>2a. \A i \in 1..count : K[i] \in 1..r
  BY DEF Plays
<1>3. /\ before.pending = {i \in 1..count : a <= r /\ a <= K[i]}
      /\ before.failed = (failed /\ r < a)
      /\ before.items = [i \in 1..count |-> IF a <= K[i] THEN [attempts |-> a - 1, status |-> "succeeded"]
                                            ELSE [attempts |-> K[i], status |-> st[i]]]
  <2>1. \A i \in 1..count : K[i] \in Nat
    BY <1>2, <1>2a
  <2>2. a - 1 < r <=> a <= r
    BY <1>2
  <2>3. r <= a - 1 <=> r < a
    BY <1>2
  <2>4. \A i \in 1..count : a - 1 < K[i] <=> a <= K[i]
    BY <2>1
  <2>5. QED
    BY <2>2, <2>3, <2>4 DEF After
<1> HIDE DEF before
<1>4. fatal = {} /\ reached = before.pending
  <2>1. ASSUME NEW i \in before.pending PROVE script[<<i, a>>] # "FailFatal"
    <3>1. i \in 1..count /\ a \in 1..K[i]
      BY <1>2, <1>3 DEF Plays
    <3>2. QED
      BY <3>1 DEF Plays
  <2>2. QED
    BY <2>1
<1> DEFINE Retry == {i \in before.pending : FaultRetryable(script[<<i, a>>]) /\ a < max}
           Failing == {i \in before.pending : ~(FaultRetryable(script[<<i, a>>]) /\ a < max) /\ script[<<i, a>>] # "Succeed"}
<1>5. retry = Retry /\ failing = Failing
  BY <1>4
<1>6. terminal <=> \E i \in Failing : ~Collectable(collect, script[<<i, a>>])
  BY <1>5, <1>4 DEF Collectable
<1> HIDE DEF fatal, reached, retry, failing, terminal
\* The fate of an item of the round.
<1>7. ASSUME NEW i \in 1..count, i \in before.pending
      PROVE  /\ a < K[i] => i \in Retry /\ i \notin Failing /\ a < r
             /\ a = K[i] => st[i] = IF script[<<i, a>>] = "Succeed" THEN "succeeded" ELSE "failed"
             /\ a = K[i] /\ a < r => /\ i \notin Retry
                                     /\ i \in Failing => Collectable(collect, script[<<i, a>>])
             /\ a <= K[i] /\ K[i] <= r /\ K[i] \in Nat
  <2>1. a <= K[i] /\ K[i] \in 1..r /\ a <= r
    BY <1>3, <1>7 DEF Plays
  <2>2. a < K[i] => FaultRetryable(script[<<i, a>>])
    <3>1. a < K[i] => a \in 1..(K[i] - 1)
      BY <2>1, <1>2
    <3>2. QED
      BY <3>1, <1>2 DEF Plays
  <2>3. a < K[i] => i \in Retry /\ i \notin Failing /\ a < r
    BY <1>2, <1>7, <2>1, <2>2
  <2>4. a = K[i] /\ a < r => i \notin Retry /\ (i \in Failing => Collectable(collect, script[<<i, a>>]))
    BY DEF Plays
  <2>6. a = K[i] => st[i] = IF script[<<i, a>>] = "Succeed" THEN "succeeded" ELSE "failed"
    BY DEF Plays
  <2>7. QED
    BY <2>1, <2>3, <2>4, <2>6, <1>2
<1>7a. \A i \in 1..count : i \in before.pending => a <= K[i] /\ K[i] <= r /\ K[i] \in Nat /\ r \in Nat
  BY <1>2, <1>2a, <1>3
<1>7b. \A i \in 1..count : i \in before.pending /\ a < K[i] => i \in Retry /\ i \notin Failing
  BY <1>7
<1>7c. ASSUME NEW i \in 1..count, i \in before.pending, a = K[i], a = r, ~failed
       PROVE  i \notin Retry /\ (i \in Failing => Collectable(collect, script[<<i, a>>]))
  BY SuccessIsFinal, <1>2, <1>7c DEF Plays, Ends
<1>8. ASSUME NEW i \in 1..count, i \notin before.pending
      PROVE  K[i] < a /\ K[i] \in Nat
  BY <1>2, <1>2a, <1>3, <1>8
<1> HIDE DEF Retry, Failing
<1>8a. Failing \subseteq before.pending /\ Retry \subseteq before.pending /\ before.pending \subseteq 1..count
  BY <1>3 DEF Retry, Failing
<1>9. a < r => ~terminal
  <2>1. ASSUME a < r, NEW i \in Failing PROVE Collectable(collect, script[<<i, a>>])
    <3>1. i \in 1..count /\ i \in before.pending
      BY <1>8a
    <3>2. a <= K[i] /\ K[i] \in Nat
      BY <1>7, <3>1
    <3>3. a = K[i]
      BY <1>7b, <3>1, <3>2, <2>1
    <3>4. QED
      BY <1>7, <2>1, <3>1, <3>3
  <2>2. QED
    BY <1>6, <2>1
<1>10. a > r => before.pending = {} /\ ~terminal
  <2>1. a > r => ~(a <= r)
    BY <1>2
  <2>2. QED
    BY <1>3, <1>6, <1>8a, <2>1
<1>11. a = r => (terminal <=> failed)
  <2>1. ASSUME a = r, failed PROVE terminal
    <3>1. PICK i \in 1..count : /\ K[i] = r /\ Ends(script[<<i, r>>], r, max)
                                /\ ~Collectable(collect, script[<<i, r>>])
      BY <2>1 DEF Plays
    <3>2. i \in before.pending
      BY <1>2, <1>3, <2>1, <3>1
    <3>3. i \in Failing
      BY <1>2, <2>1, <3>1, <3>2 DEF Ends, Failing
    <3>4. QED
      BY <1>6, <2>1, <3>1, <3>3
  <2>2. ASSUME a = r, ~failed PROVE ~terminal
    <3>1. ASSUME NEW i \in Failing PROVE Collectable(collect, script[<<i, a>>])
      <4>1. i \in 1..count /\ i \in before.pending
        BY <1>8a
      <4>2. a = K[i]
        BY <1>7a, <4>1, <2>2
      <4>3. QED
        BY <1>7c, <2>2, <4>1, <4>2
    <3>2. QED
      BY <1>6, <3>1
  <2>3. QED
    BY <2>1, <2>2
<1>12. (IF terminal THEN {} ELSE retry) = after.pending
  <2>1. CASE a < r
    <3>1. after.pending = {i \in 1..count : a < K[i]}
      BY <2>1 DEF After
    <3>2. \A i \in 1..count : i \in Retry <=> a < K[i]
      <4>1. ASSUME NEW i \in 1..count, i \in before.pending PROVE i \in Retry <=> a < K[i]
        <5>1. a <= K[i] /\ K[i] \in Nat
          BY <1>7, <4>1
        <5>2. a = K[i] \/ a < K[i]
          BY <5>1
        <5>3. QED
          BY <1>7, <2>1, <4>1, <5>1, <5>2
      <4>2. ASSUME NEW i \in 1..count, i \notin before.pending PROVE i \notin Retry /\ ~(a < K[i])
        BY <1>8, <1>8a, <4>2
      <4>3. QED
        BY <4>1, <4>2
    <3>3. QED
      BY <1>8a, <1>5, <1>9, <2>1, <3>1, <3>2
  <2>2. CASE a = r
    <3>1. after.pending = {}
      BY <2>2, <1>2 DEF After
    <3>2. ~failed => Retry = {}
      <4>1. ASSUME ~failed, NEW i \in Retry PROVE FALSE
        <5>1. i \in 1..count /\ i \in before.pending
          BY <1>8a
        <5>2. a = K[i]
          BY <1>7a, <5>1, <2>2
        <5>3. QED
          BY <1>7c, <2>2, <4>1, <5>1, <5>2
      <4>2. QED
        BY <4>1
    <3>3. QED
      BY <1>5, <1>11, <2>2, <3>1, <3>2
  <2>3. CASE a > r
    <3>1. after.pending = {}
      BY <2>3, <1>2 DEF After
    <3>2. QED
      BY <1>5, <1>8a, <1>10, <2>3, <3>1
  <2>4. QED
    BY <1>2, <2>1, <2>2, <2>3
<1>13. (before.failed \/ terminal) = after.failed
  <2>1. after.failed = (failed /\ r <= a)
    BY DEF After
  <2>2. terminal \in BOOLEAN
    BY DEF terminal
  <2>3. QED
    BY <1>2, <1>3, <1>9, <1>10, <1>11, <2>1, <2>2
<1>14. [i \in DOMAIN before.items |-> Item(i, before.items[i])] = after.items
  <2>1. DOMAIN before.items = 1..count
    BY <1>3
  <2>2. ASSUME NEW i \in 1..count PROVE Item(i, before.items[i]) = after.items[i]
    <3>1. after.items[i] = IF a < K[i] THEN [attempts |-> a, status |-> "succeeded"]
                           ELSE [attempts |-> K[i], status |-> st[i]]
      BY DEF After
    <3>2. CASE i \notin before.pending
      <4>1. Item(i, before.items[i]) = before.items[i]
        BY <1>4, <1>5, <1>8a, <3>2
      <4>2. before.items[i] = [attempts |-> K[i], status |-> st[i]]
        BY <1>3, <1>8, <3>2
      <4>3. QED
        BY <1>8, <3>1, <3>2, <4>1, <4>2
    <3>3. CASE i \in before.pending
      <4>1. before.items[i] = [attempts |-> a - 1, status |-> "succeeded"]
        BY <1>3, <1>7, <3>3
      <4>2. [before.items[i] EXCEPT !.attempts = a] = [attempts |-> a, status |-> "succeeded"]
        BY <4>1
      <4>3. CASE a < K[i]
        <5>1. i \notin failing /\ ~(i \in retry /\ terminal)
          BY <1>5, <1>7, <1>9, <3>3, <4>3
        <5>2. Item(i, before.items[i]) = [before.items[i] EXCEPT !.attempts = a]
          BY <1>4, <3>3, <5>1
        <5>3. QED
          BY <3>1, <4>2, <4>3, <5>2
      <4>4. CASE a = K[i]
        <5>1. after.items[i] = [attempts |-> a, status |-> st[i]]
          BY <3>1, <4>4
        <5>2. CASE i \in failing \/ (i \in retry /\ terminal)
          <6>1. Item(i, before.items[i]) = [attempts |-> a, status |-> "failed"]
            BY <5>2
          <6>2. script[<<i, a>>] # "Succeed"
            BY <1>5, <5>2, SuccessIsFinal DEF Retry, Failing
          <6>3. QED
            BY <1>7, <3>3, <4>4, <5>1, <6>1, <6>2
        <5>3. CASE ~(i \in failing \/ (i \in retry /\ terminal))
          <6>1. Item(i, before.items[i]) = [before.items[i] EXCEPT !.attempts = a]
            BY <1>4, <3>3, <5>3
          <6>2. i \notin Retry
            <7>1. a < r \/ a = r
              BY <1>7a, <3>3, <4>4
            <7>2. CASE a < r
              BY <1>7, <3>3, <4>4, <7>2
            <7>3. CASE a = r /\ ~failed
              BY <1>7c, <3>3, <4>4, <7>3
            <7>4. CASE a = r /\ failed
              BY <1>5, <1>11, <5>3, <7>4
            <7>5. QED
              BY <7>1, <7>2, <7>3, <7>4
          <6>3. script[<<i, a>>] = "Succeed"
            BY <1>5, <3>3, <5>3, <6>2 DEF Retry, Failing
          <6>4. QED
            BY <1>7, <3>3, <4>2, <4>4, <5>1, <6>1, <6>3
        <5>4. QED
          BY <5>2, <5>3
      <4>5. QED
        <5>1. a <= K[i] /\ K[i] \in Nat
          BY <1>7, <3>3
        <5>2. a = K[i] \/ a < K[i]
          BY <5>1
        <5>3. QED
          BY <4>3, <4>4, <5>2
    <3>4. QED
      BY <3>2, <3>3
  <2>3. after.items = [i \in 1..count |-> after.items[i]]
    BY DEF After
  <2>4. QED
    BY <2>1, <2>2, <2>3
<1>15. after = [pending |-> after.pending, failed |-> after.failed, items |-> after.items]
  BY DEF After
<1>16. QED
  BY <1>1, <1>12, <1>13, <1>14, <1>15 DEF before

\* The interpreter's rounds are a recursive function; the rounds After describes solve its
\* equation and are its only solution.
Rounds(script, count, max, collect) ==
    CHOOSE rounds : rounds =
        [a \in 0..max |-> IF a = 0 THEN PredictStart(count)
                          ELSE PredictRound(script, max, collect, rounds[a - 1], a)]

\* PredictMap reads the last value of the interpreter's recursive function.
LEMMA PredictMapIs ==
    ASSUME NEW script, NEW count, NEW max, NEW collect
    PROVE  LET last == Rounds(script, count, max, collect)[max]
           IN  PredictMap(script, count, max, collect) =
                [status |-> IF last.failed THEN "failed" ELSE "succeeded", items |-> last.items]
BY DEF PredictMap, Rounds

\* Before the first round every item is pending.
LEMMA StartIs ==
    ASSUME NEW script, NEW count, NEW max, NEW collect, NEW K, NEW st, NEW r, NEW failed,
           Plays(script, count, max, collect, K, st, r, failed)
    PROVE  After(count, K, st, r, failed, 0) = PredictStart(count)
<1>1. count \in Nat /\ max \in Nat \ {0} /\ r \in 0..max /\ failed \in BOOLEAN
  BY DEF Plays
<1>2. \A i \in 1..count : K[i] \in 1..r
  BY DEF Plays
<1>3. \A i \in 1..count : 0 < K[i] /\ 0 < r
  BY <1>1, <1>2
<1>4. (IF 0 < r THEN {i \in 1..count : 0 < K[i]} ELSE {}) = 1..count
  BY <1>3
<1>5. failed => 0 < r
  BY <1>3 DEF Plays
<1>6. (failed /\ r <= 0) = FALSE
  BY <1>1, <1>5
<1>7. [i \in 1..count |-> IF 0 < K[i] THEN [attempts |-> 0, status |-> "succeeded"]
                          ELSE [attempts |-> K[i], status |-> st[i]]] =
      [i \in 1..count |-> [attempts |-> 0, status |-> "succeeded"]]
  BY <1>3
<1>8. QED
  BY <1>4, <1>6, <1>7 DEF After, PredictStart

\* The recursion has one solution, and After solves it.
LEMMA RoundsAre ==
    ASSUME NEW script, NEW count, NEW max, NEW collect, NEW K, NEW st, NEW r, NEW failed,
           Plays(script, count, max, collect, K, st, r, failed), NEW a \in 0..max
    PROVE  Rounds(script, count, max, collect)[a] = After(count, K, st, r, failed, a)
<1> DEFINE rounds == Rounds(script, count, max, collect)
           Known(b) == After(count, K, st, r, failed, b)
           known == [b \in 0..max |-> Known(b)]
           Step(before, b) == PredictRound(script, max, collect, before, b)
           Body(f) == [b \in 0..max |-> IF b = 0 THEN PredictStart(count) ELSE Step(f[b - 1], b)]
           bad == {b \in 0..max : rounds[b] # Known(b)}
<1>0. max \in Nat
  BY DEF Plays
<1>1. Known(0) = PredictStart(count)
  BY StartIs
<1>2. ASSUME NEW b \in 1..max PROVE Step(Known(b - 1), b) = Known(b)
  BY RoundFollows
<1> HIDE DEF Known, Step
<1>3. known = Body(known)
  <2>1. ASSUME NEW b \in 0..max, b # 0 PROVE known[b] = Step(known[b - 1], b)
    <3>1. b \in 1..max /\ b - 1 \in 0..max
      BY <1>0, <2>1
    <3>2. QED
      BY <1>2, <3>1
  <2>2. QED
    BY <1>1, <2>1
<1>4. rounds = Body(rounds)
  BY <1>3 DEF Rounds, Step
<1> HIDE DEF rounds, known
<1>5. SUFFICES ASSUME bad # {} PROVE FALSE
  BY DEF rounds, Known
<1>6. bad \in SUBSET Nat
  BY <1>0
<1>7. PICK b \in bad : \A c \in bad : b <= c
  BY <1>5, <1>6, LeastOf
<1>8. b \in 0..max /\ rounds[b] # Known(b)
  BY <1>7
<1>9. CASE b = 0
  BY <1>1, <1>4, <1>8, <1>9
<1>10. CASE b # 0
  <2>1. b \in 1..max /\ b - 1 \in 0..max /\ b - 1 \notin bad
    BY <1>0, <1>7, <1>8, <1>10
  <2>2. rounds[b - 1] = Known(b - 1)
    BY <2>1
  <2>3. rounds[b] = Step(rounds[b - 1], b)
    BY <1>4, <1>8, <1>10
  <2>4. QED
    BY <1>2, <1>8, <2>1, <2>2, <2>3
<1>11. QED
  BY <1>9, <1>10

\* The outcome of a map whose items ended with attempts K and statuses st.
PlayedOut(count, K, st, failed) ==
    [status |-> IF failed THEN "failed" ELSE "succeeded",
     items |-> [i \in 1..count |-> [attempts |-> K[i], status |-> st[i]]]]

\* The interpreter computes that outcome for every map that plays its script.
LEMMA PredictionIs ==
    ASSUME NEW script, NEW count, NEW max, NEW collect, NEW K, NEW st, NEW r, NEW failed,
           Plays(script, count, max, collect, K, st, r, failed)
    PROVE  PredictMap(script, count, max, collect) = PlayedOut(count, K, st, failed)
<1> DEFINE last == Rounds(script, count, max, collect)[max]
<1>1. count \in Nat /\ max \in Nat \ {0} /\ r \in 0..max /\ failed \in BOOLEAN
  BY DEF Plays
<1>2. \A i \in 1..count : K[i] \in 1..r
  BY DEF Plays
<1>3. max \in 0..max /\ r <= max /\ \A i \in 1..count : ~(max < K[i])
  BY <1>1, <1>2
<1>4. last = After(count, K, st, r, failed, max)
  BY <1>3, RoundsAre
<1>5. last.failed = failed
  BY <1>1, <1>3, <1>4 DEF After
<1>6. last.items = [i \in 1..count |-> [attempts |-> K[i], status |-> st[i]]]
  BY <1>3, <1>4 DEF After
<1>7. QED
  BY <1>5, <1>6, PredictMapIs DEF PlayedOut

-----------------------------------------------------------------------------
\* Reports of a map and what they say of its rounds.

\* What the earlier theorems establish, used as one hypothesis below.
Known ==
    /\ TypeOK /\ Control /\ JournalInv /\ EntriesLegal
    /\ Dispatched /\ Cause /\ SpendInv /\ HistoryInv

\* A report names a step, an item and an attempt within the step's budget.
LEMMA ReportIs ==
    ASSUME Known, NEW h \in history
    PROVE  /\ h[1] \in StepIds /\ h[2] \in Nat /\ h[3] \in Nat \ {0} /\ h[4] \in OutcomeKinds
           /\ h = <<h[1], h[2], h[3], h[4]>>
           /\ h[3] \in 1..Node[h[1]].maxAttempts /\ Node[h[1]].maxAttempts \in Nat \ {0}
<1>1. h \in StepIds \X Nat \X Nat \X OutcomeKinds
  BY DEF Known, TypeOK, RestOK
<1>2. h[3] \in 1..Node[h[1]].maxAttempts
  BY DEF Known, SpendInv, RetryDiscipline
<1>3. h[1] \in NodeIds
  BY <1>1, PlanFacts
<1>4. Node[h[1]].maxAttempts \in Nat \ {0}
  BY <1>3, PlanAssumption, SMTT(60)
<1>5. QED
  BY <1>1, <1>2, <1>4

\* A map's reports name its items and attempts of theirs.
LEMMA ItemReport ==
    ASSUME Known, NEW h \in history, manifest.steps[h[1]].isMap
    PROVE  LET items == manifest.steps[h[1]].items IN
           /\ h[2] \in DOMAIN items
           /\ h[3] \in DOMAIN items[h[2]].attempts
           /\ Unsettled(h) \/ items[h[2]].attempts[h[3]].status \in RecordedAs(h[4])
<1>1. h[1] \in StepIds /\ Logged(h)
  BY ReportIs DEF Known, HistoryInv, ReportsLogged
<1>2. h[2] # 0
  BY <1>1 DEF Known, JournalInv, AsPlanned, Logged
<1>3. QED
  BY <1>1, <1>2 DEF Logged, EntryOf

\* An attempt is reported once.
LEMMA OneReport ==
    ASSUME Known, NEW g \in history, NEW h \in history, g[1] = h[1], g[2] = h[2], g[3] = h[3]
    PROVE  g = h
BY DEF Known, SpendInv, RetryDiscipline

\* An attempt that was followed by another failed retryably, with attempts left.
LEMMA RetriedReport ==
    ASSUME Known, NEW h \in history, NEW g \in history, g[1] = h[1], g[2] = h[2], g[3] = h[3] + 1
    PROVE  RetryableOutcome(h[4]) /\ h[3] < Node[h[1]].maxAttempts
<1>1. h[3] \in Nat \ {0} /\ g[3] \in 1..Node[g[1]].maxAttempts /\ Node[g[1]].maxAttempts \in Nat
  BY ReportIs
<1>2. PICK o \in OutcomeKinds : RetryableOutcome(o) /\ <<g[1], g[2], g[3] - 1, o>> \in history
  BY <1>1 DEF Known, SpendInv, RetryDiscipline
<1>3. PICK f \in history : f = <<g[1], g[2], g[3] - 1, o>>
  BY <1>2
<1>4. f[1] = h[1] /\ f[2] = h[2] /\ f[3] = h[3] /\ f[4] = o
  BY <1>1, <1>3
<1>5. f = h
  BY <1>4, OneReport
<1>6. QED
  BY <1>1, <1>2, <1>4, <1>5

\* Every report of a final item lets its map go on.
LEMMA FinalFine ==
    ASSUME Known, NEW h \in history, NEW step, step = manifest.steps[h[1]], step.isMap,
           Closed(step.items[h[2]]), Final(history, step, h[1], h[2])
    PROVE  Fine(step, h[1], h)
<1> DEFINE s == h[1]
           i == h[2]
           item == step.items[i]
           k == Len(item.attempts)
<1>1. s \in StepIds /\ i \in Nat /\ h[3] \in Nat \ {0} /\ h[4] \in OutcomeKinds /\ h = <<s, i, h[3], h[4]>>
  BY ReportIs, SMTT(60)
<1>2. i \in DOMAIN step.items /\ h[3] \in DOMAIN item.attempts
  BY ItemReport, ZenonT(60)
<1>3. PICK n \in Nat \ {0}, last \in Statuses : item.attempts = Trail(n, last) /\ (item.status = "succeeded" => last = "succeeded")
  BY StatusNames DEF Closed
<1>4. DOMAIN item.attempts = 1..n /\ k = n
  <2>1. Trail(n, last) \in Seq(AttemptRecs) /\ Len(Trail(n, last)) = n
    BY <1>3, TrailSeq
  <2>2. QED
    BY <1>3, <2>1, TrailStatus
<1> HIDE DEF k
<1>5. h[3] \in 1..n
  BY <1>2, <1>4, SMTT(60)
<1>6. CASE h[3] < n
  <2>1. h[3] + 1 \in DOMAIN item.attempts
    BY <1>4, <1>5, <1>6
  <2>2. PICK o \in OutcomeKinds : <<s, i, h[3] + 1, o>> \in history
    BY <1>1, <1>2, <2>1 DEF Known, HistoryInv, ItemsReported
  <2>3. PICK g \in history : g = <<s, i, h[3] + 1, o>>
    BY <2>2
  <2>4. RetryableOutcome(h[4]) /\ h[3] < Node[h[1]].maxAttempts
    BY <2>3, RetriedReport
  <2>5. QED
    BY <2>4 DEF Fine
<1>7. CASE h[3] = n
  <2>1. CASE item.status = "succeeded"
    <3>1. item.attempts[h[3]].status = "succeeded"
      BY <1>3, <1>7, <2>1, TrailStatus, SMTT(60)
    <3>2. Unsettled(h) \/ "succeeded" \in RecordedAs(h[4])
      BY <3>1, ItemReport
    <3>3. CASE Unsettled(h)
      <4>1. pc = "mapSettle" /\ i \in DOMAIN round.outs /\ s = ActiveNode /\ attempt = n
        BY <1>7, <3>3, ItemReport DEF Unsettled, Known, TypeOK, PlaceOK, StepPlaces, JournalInv, AsPlanned
      <4>2. pos <= Len(NodeOrder) /\ ActiveNode \in StepIds
        BY <4>1, PlaceKept DEF Known, TypeOK, PlaceOK, MapPlaces
      <4>3. AfterRound(ActiveEntry) /\ step = ActiveEntry
        BY <4>1, <4>2 DEF Known, JournalInv, Shape, ShapeHere, MapShape, ActiveEntry
      <4>4. Recorded(item, round.outs[i], attempt)
        BY <1>2, <4>1, <4>3 DEF AfterRound
      <4>5. FALSE
        BY <2>1, <4>4, SMTT(60) DEF Recorded, Open
      <4>6. QED
        BY <4>5, Zenon
    <3>4. CASE "succeeded" \in RecordedAs(h[4])
      BY <3>1, <3>4, SMTT(60) DEF RecordedAs, Fine
    <3>5. QED
      BY <3>2, <3>3, <3>4
  <2>2. CASE item.status # "succeeded"
    <3>1. step.collect /\ \E o \in OutcomeKinds : <<s, i, n, o>> \in history /\ MapItemFailure(o)
      BY <1>4, <2>2 DEF Final, k
    <3>2. PICK g \in history : g[1] = s /\ g[2] = i /\ g[3] = n /\ MapItemFailure(g[4])
      BY <3>1
    <3>3. g = h
      BY <1>7, <3>2, OneReport
    <3>4. QED
      BY <3>1, <3>2, <3>3 DEF Fine
  <2>3. QED
    BY <2>1, <2>2
<1>8. QED
  BY <1>5, <1>6, <1>7

\* What the rounds told stays told while the item, or its verified attempts, stay.
LEMMA FinalStays ==
    ASSUME NEW hist, NEW hist2, hist \subseteq hist2, NEW e, NEW f, NEW s, NEW i,
           f.items[i] = e.items[i], f.collect = e.collect, Final(hist, e, s, i)
    PROVE  Final(hist2, f, s, i)
<1>1. CASE e.items[i].status = "succeeded"
  BY <1>1 DEF Final
<1>2. CASE e.items[i].status # "succeeded"
  BY <1>2 DEF Final
<1>3. QED
  BY <1>1, <1>2

\* A report that lets its map go on still does when the item's attempts grow.
LEMMA FineStays ==
    ASSUME NEW e, NEW f, NEW s, NEW h, f.collect = e.collect,
           h[2] \in DOMAIN e.items, h[3] \in DOMAIN e.items[h[2]].attempts,
           GrowLog(e.items[h[2]], f.items[h[2]]), Fine(e, s, h)
    PROVE  Fine(f, s, h)
BY DEF Fine, GrowLog

\* Between two rounds, and before the outcomes of a round are settled, only the earlier
\* rounds have reports.
LEMMA EarlierReport ==
    ASSUME Known, pc \in RoundOpen, RestFinal, NEW h \in history, h[1] = ActiveNode
    PROVE  /\ h[2] \in DOMAIN ActiveEntry.items /\ h[3] \in DOMAIN ActiveEntry.items[h[2]].attempts
           /\ h[3] < attempt \/ (pc = "mapSettle" /\ h[2] \in DOMAIN round.outs /\ h[3] = attempt
                                  /\ h[4] = round.outs[h[2]])
<1>1. pc \in MapPlaces /\ pc \in MapOpenPlaces
  BY DEF RoundOpen, RoundPlaces, MapPlaces, MapOpenPlaces
<1>2. ActiveNode \in StepIds /\ pos <= Len(NodeOrder) /\ ActiveEntry.isMap
  BY <1>1 DEF Known, TypeOK, PlaceOK, JournalInv, AsPlanned, ActiveEntry
<1> DEFINE i == h[2]
           item == ActiveEntry.items[i]
<1>3. i \in DOMAIN ActiveEntry.items /\ h[3] \in DOMAIN item.attempts /\ h[3] \in Nat \ {0}
      /\ h = <<h[1], h[2], h[3], h[4]>>
  BY <1>2, ItemReport, ReportIs DEF ActiveEntry
<1>4. attempt \in Nat \ {0} /\ ShapeHere
  BY <1>2 DEF RoundOpen, Known, JournalInv, Shape, ShapeHere, MapShape, InRound, AfterRound, TypeOK, RoundOK
<1>5. CASE i \notin pending
  <2>1. Len(item.attempts) < attempt
    BY <1>3, <1>5 DEF RestFinal
  <2>2. Kept(ActiveEntry, item)
    BY <1>3, <1>4, <1>5 DEF RoundOpen, ShapeHere, MapShape, InRound, AfterRound
  <2>3. PICK n \in Nat \ {0}, last \in Statuses : item.attempts = Trail(n, last)
    BY <2>2, StatusNames DEF Kept, Closed
  <2>4. Len(item.attempts) = n /\ DOMAIN item.attempts = 1..n
    BY <2>3, TrailSeq, TrailStatus
  <2>5. QED
    BY <1>3, <1>4, <2>1, <2>4
<1>6. CASE i \in pending /\ pc \in RoundPlaces
  BY <1>3, <1>6 DEF RoundPlaces, Known, SpendInv, MapMaySpend, MaySpend
<1>7. CASE i \in pending /\ pc = "mapSettle" /\ i \notin DOMAIN round.outs
  <2>1. Idle(item, attempt)
    BY <1>3, <1>4, <1>7 DEF ShapeHere, MapShape, AfterRound
  <2>2. DOMAIN item.attempts = 1..(attempt - 1)
    BY <1>4, <2>1, TrailStatus, StatusNames DEF Idle
  <2>3. QED
    BY <1>3, <1>4, <2>2
<1>8. CASE pc = "mapSettle" /\ i \in DOMAIN round.outs
  <2>1. h[3] <= attempt /\ <<ActiveNode, i, attempt, round.outs[i]>> \in history
    BY <1>8 DEF Known, SpendInv, RoundSpent
  <2>2. ASSUME h[3] = attempt PROVE h[4] = round.outs[i]
    <3>1. PICK g \in history : g = <<ActiveNode, i, attempt, round.outs[i]>>
      BY <2>1
    <3>2. g = h
      BY <2>2, <3>1, OneReport
    <3>3. QED
      BY <3>1, <3>2
  <2>3. QED
    BY <1>3, <1>4, <1>8, <2>1, <2>2
<1>9. QED
  BY <1>3, <1>5, <1>6, <1>7, <1>8 DEF RoundOpen

\* In an open round no report of the map has ended it.
LEMMA RoundFine ==
    ASSUME Known, pc \in RoundOpen, RestFinal, EarlierFine,
           pc = "mapSettle" => DOMAIN round.outs = {}
    PROVE  NoEnding(history, ActiveEntry, ActiveNode)
<1>1. SUFFICES ASSUME NEW h \in history, h[1] = ActiveNode PROVE Fine(ActiveEntry, ActiveNode, h)
  BY DEF NoEnding
<1>2. h[3] < attempt
  BY <1>1, EarlierReport
<1>3. QED
  BY <1>1, <1>2 DEF EarlierFine

\* What a round without an error makes of each of its items.
Played(item, i) ==
    \/ /\ round.outs[i] = "succeeded"
       /\ item.status = "succeeded" /\ item.attempts = Trail(attempt, "succeeded")
    \/ /\ i \in CollectedNow
       /\ item.status = "failed" /\ item.attempts = Trail(attempt, "failed")
    \/ /\ i \notin CollectedNow /\ pc' = "mapDone"
       /\ item.status = "failed" /\ item.attempts = Trail(attempt, "failed")
    \/ /\ i \in RetryItems /\ pc' = "roundWrite"

\* What MapSettle makes of the items of a round that met no error.
LEMMA RoundPlayed ==
    ASSUME TypeOK, ShapeHere, MapSettle, RoundError = "none"
    PROVE  LET e == manifest'.steps[ActiveNode] IN
           /\ DOMAIN e.items = DOMAIN ActiveItems /\ e.collect = ActiveEntry.collect
           /\ e.status = ActiveEntry.status
           /\ round.err = "none" /\ DOMAIN round.outs = pending /\ pending \subseteq DOMAIN ActiveItems
           /\ \A i \in DOMAIN ActiveItems :
                IF i \in pending THEN Played(e.items[i], i) ELSE e.items[i] = ActiveItems[i]
           /\ collected' = collected \cup CollectedNow
           /\ \/ pc' = "mapDone" /\ attempt' = attempt
              \/ pc' = "roundWrite" /\ attempt' = attempt + 1 /\ pending' = RetryItems
<1>1. pc = "mapSettle" /\ pc \in MapOpenPlaces
  BY DEF MapSettle, MapOpenPlaces, MapPlaces
<1>2. AfterRound(ActiveEntry) /\ Open(ActiveEntry, 1) /\ ActiveItems = ActiveEntry.items
  BY <1>1 DEF ShapeHere, MapShape, ActiveItems, ActiveEntry
<1>3. attempt \in Nat \ {0} /\ ActiveNode \in StepIds
  BY <1>1, <1>2, PlaceKept DEF AfterRound, TypeOK, RoundOK, MapPlaces
<1>4. PICK verified \in SUBSET DOMAIN round.outs, m \in Manifests :
            LET old == manifest.steps[ActiveNode]
                e == m.steps[ActiveNode]
                items == SettledItems(verified)
            IN
            /\ e.status = old.status /\ e.collect = old.collect
            /\ collected' = collected \cup CollectedNow
            /\ manifest' = m
            /\ \/ /\ FailedNow(verified) # {} /\ e.items = CloseRetries(items, RetryItems)
                  /\ pc' = "mapDone" /\ pending' = {} /\ UNCHANGED attempt
               \/ /\ RetryItems = {} /\ e.items = items
                  /\ pc' = "mapDone" /\ pending' = {} /\ UNCHANGED attempt
               \/ /\ FailedNow(verified) = {} /\ e.items = items
                  /\ pc' = "roundWrite" /\ pending' = RetryItems /\ attempt' = attempt + 1
  BY MapSettleIs
<1>5. round.err = "none"
  BY DEF RoundError, InvokeError
<1>6. DOMAIN round.outs = pending /\ \A i \in pending : round.outs[i] \notin ErrorOutcomes
  BY <1>2, <1>5 DEF AfterRound
<1> DEFINE settled == SettledItems(verified)
           e == manifest'.steps[ActiveNode]
<1>7. DOMAIN settled = DOMAIN ActiveItems /\ \A i \in DOMAIN settled : settled[i] \in ItemRecs
  BY <1>1, LenProperties, SettledItemsType
<1>8. pending \subseteq DOMAIN ActiveItems
  BY <1>2 DEF AfterRound
<1>9. ASSUME NEW i \in pending
      PROVE  \/ /\ round.outs[i] = "succeeded" /\ i \notin RetryItems
                /\ settled[i].status = "succeeded" /\ settled[i].attempts = Trail(attempt, "succeeded")
             \/ /\ i \in CollectedNow \/ (i \notin CollectedNow /\ FailedNow(verified) # {})
                /\ i \notin RetryItems
                /\ settled[i].status = "failed" /\ settled[i].attempts = Trail(attempt, "failed")
             \/ i \in RetryItems /\ Waiting(settled[i], attempt) /\ i \notin CollectedNow
  <2>1. i \in DOMAIN ActiveItems /\ round.outs[i] \notin {"cancelled", "infra"}
    BY <1>6, <1>8 DEF ErrorOutcomes
  <2>2. /\ i \in SucceededNow(verified) =>
                settled[i].status = "succeeded" /\ settled[i].attempts = Trail(attempt, "succeeded")
        /\ i \in RetryItems => Waiting(settled[i], attempt)
        /\ i \in CollectedNow \cup FailedNow(verified) =>
                settled[i].status = "failed" /\ settled[i].attempts = Trail(attempt, "failed")
    BY <1>1, <1>2, <2>1, SettledItemIs
  <2> HIDE DEF settled
  <2>3. verified \subseteq DOMAIN round.outs
    OBVIOUS
  <2>4. i \in SucceededNow(verified) \cup RetryItems \cup CollectedNow \cup FailedNow(verified)
    BY <1>6, <2>1, <2>3, RoundFates
  <2>5. /\ i \in SucceededNow(verified) => round.outs[i] = "succeeded" /\ i \notin RetryItems
        /\ i \in RetryItems => i \notin CollectedNow /\ i \notin FailedNow(verified)
    BY <2>3, RoundFates
  <2>6. QED
    BY <2>2, <2>4, <2>5
<1>10. ASSUME NEW i \in DOMAIN ActiveItems, i \notin pending PROVE settled[i] = ActiveItems[i] /\ i \notin RetryItems
  <2>1. i \notin DOMAIN round.outs
    BY <1>6, <1>10
  <2>2. i \notin SucceededNow(verified) \cup RetryItems \cup CollectedNow \cup FailedNow(verified)
    BY <2>1 DEF SucceededNow, RetryItems, CollectedNow, FailedNow
  <2>3. QED
    BY <1>1, <1>2, <2>2, SettledItemIs
<1> HIDE DEF settled
<1>11. DOMAIN e.items = DOMAIN ActiveItems /\ e.collect = ActiveEntry.collect /\ e.status = ActiveEntry.status
  BY <1>4, <1>7 DEF CloseRetries, settled, ActiveEntry
<1>12. ASSUME NEW i \in DOMAIN ActiveItems
       PROVE  IF i \in pending THEN Played(e.items[i], i) ELSE e.items[i] = ActiveItems[i]
  <2>1. CASE e.items = settled
    <3>1. CASE i \notin pending
      BY <1>10, <2>1, <3>1
    <3>2. CASE i \in pending
      <4>1. \/ pc' = "mapDone" /\ RetryItems = {}
            \/ pc' = "roundWrite" /\ FailedNow(verified) = {}
            \/ pc' = "mapDone" /\ FailedNow(verified) # {} /\ e.items = CloseRetries(settled, RetryItems)
        BY <1>4 DEF settled
      <4>2. ASSUME e.items = CloseRetries(settled, RetryItems), i \in RetryItems
            PROVE  e.items[i] = EntryTerminal(settled[i], "failed")
        BY <1>7, <4>2 DEF CloseRetries
      <4>3. ASSUME i \in RetryItems, Waiting(settled[i], attempt), e.items = CloseRetries(settled, RetryItems)
            PROVE  FALSE
        <5>1. e.items[i].status = "failed"
          BY <1>3, <1>7, <4>2, <4>3, OpenEnds DEF Entries
        <5>2. QED
          BY <2>1, <4>3, <5>1 DEF Waiting
      <4>4. QED
        BY <1>9, <2>1, <3>2, <4>1, <4>3 DEF Played
    <3>3. QED
      BY <3>1, <3>2
  <2>2. CASE e.items = CloseRetries(settled, RetryItems) /\ pc' = "mapDone"
    <3>1. e.items[i] = IF i \in RetryItems THEN EntryTerminal(settled[i], "failed") ELSE settled[i]
      BY <1>7, <2>2 DEF CloseRetries
    <3>2. CASE i \notin pending
      BY <1>10, <3>1, <3>2
    <3>3. CASE i \in pending /\ i \notin RetryItems
      BY <1>9, <2>2, <3>1, <3>3 DEF Played
    <3>4. CASE i \in pending /\ i \in RetryItems
      <4>1. Waiting(settled[i], attempt) /\ i \notin CollectedNow
        BY <1>9, <3>4
      <4>2. e.items[i].status = "failed" /\ e.items[i].attempts = Trail(attempt, "failed")
        BY <1>3, <1>7, <3>1, <3>4, <4>1, OpenEnds DEF Entries
      <4>3. QED
        BY <2>2, <3>4, <4>1, <4>2 DEF Played
    <3>5. QED
      BY <3>2, <3>3, <3>4
  <2>3. QED
    BY <1>4, <2>1, <2>2 DEF settled
<1>13. QED
  BY <1>4, <1>5, <1>6, <1>8, <1>11, <1>12
\* An item that succeeded, or whose failure the map keeps, is final.
LEMMA PlayedFinal ==
    ASSUME Known, MapSettle, RoundError = "none", NEW i \in DOMAIN round.outs, NEW e,
           e.collect = Node[ActiveNode].collect,
           \/ e.items[i].status = "succeeded"
           \/ /\ i \in CollectedNow /\ e.items[i].status = "failed"
              /\ e.items[i].attempts = Trail(attempt, "failed")
    PROVE  Final(history, e, ActiveNode, i)
<1>1. CASE e.items[i].status = "succeeded"
  BY <1>1 DEF Final
<1>2. CASE /\ i \in CollectedNow /\ e.items[i].status = "failed"
           /\ e.items[i].attempts = Trail(attempt, "failed")
  <2>1. pc = "mapSettle" /\ attempt \in Nat /\ round.outs[i] \in OutcomeKinds
    BY DEF MapSettle, Known, TypeOK, RoundOK
  <2>2. /\ attempt \in 1..Node[ActiveNode].maxAttempts
        /\ <<ActiveNode, i, attempt, round.outs[i]>> \in history
    BY <2>1 DEF Known, SpendInv, RoundSpent
  <2>3. Len(e.items[i].attempts) = attempt
    BY <1>2, <2>1, TrailSeq, StatusNames
  <2>4. Node[ActiveNode].maxAttempts \in Nat
    <3>1. ActiveNode \in NodeIds
      BY <2>1, PlaceKept DEF Known, MapPlaces
    <3>2. QED
      BY <3>1, PlanAssumption
  <2>5. /\ Node[ActiveNode].collect /\ MapItemFailure(round.outs[i])
        /\ RetryableOutcome(round.outs[i]) => attempt = Node[ActiveNode].maxAttempts
    BY <1>2, <2>1, <2>2, <2>4 DEF CollectedNow, RetryItems
  <2>6. QED
    BY <1>2, <2>1, <2>2, <2>3, <2>5 DEF Final
<1>3. QED
  BY <1>1, <1>2

\* After a settled round: the next one starts, or the map is done in this one.
LEMMA SettleRest ==
    ASSUME Known, RestFinal, CollectedRest, EarlierFine, MapSettle, RoundError = "none"
    PROVE  LET e == manifest'.steps[ActiveNode] IN
           /\ e.status = "running"
           /\ pc' = "roundWrite" =>
                /\ attempt' = attempt + 1 /\ collected' \cap pending' = {}
                /\ \A h \in history : h[1] = ActiveNode => Fine(e, ActiveNode, h)
                /\ \A i \in DOMAIN e.items \ pending' :
                        Final(history, e, ActiveNode, i) /\ Len(e.items[i].attempts) < attempt'
           /\ pc' = "mapDone" =>
                /\ attempt' = attempt
                /\ \A i \in DOMAIN e.items \cap collected' : Final(history, e, ActiveNode, i)
                /\ EndedIn(history, e, ActiveNode, attempt)
           /\ pc' \in {"roundWrite", "mapDone"}
<1> DEFINE e == manifest'.steps[ActiveNode]
<1>1. pc = "mapSettle" /\ pc \in MapOpenPlaces /\ pc \in MapPlaces /\ pc \in RoundOpen
  BY DEF MapSettle, MapOpenPlaces, MapPlaces, RoundOpen
<1>2. TypeOK /\ ActiveNode \in StepIds /\ ShapeHere /\ AfterRound(ActiveEntry) /\ Open(ActiveEntry, 1)
  BY <1>1 DEF Known, TypeOK, PlaceOK, JournalInv, Shape, ShapeHere, MapShape
<1>3. /\ DOMAIN e.items = DOMAIN ActiveItems /\ e.collect = ActiveEntry.collect
      /\ e.status = ActiveEntry.status
      /\ round.err = "none" /\ DOMAIN round.outs = pending /\ pending \subseteq DOMAIN ActiveItems
      /\ \A i \in DOMAIN ActiveItems :
           IF i \in pending THEN Played(e.items[i], i) ELSE e.items[i] = ActiveItems[i]
      /\ collected' = collected \cup CollectedNow
      /\ \/ pc' = "mapDone" /\ attempt' = attempt
         \/ pc' = "roundWrite" /\ attempt' = attempt + 1 /\ pending' = RetryItems
  BY <1>2, RoundPlayed
<1>4. attempt \in Nat \ {0} /\ ActiveEntry.collect = Node[ActiveNode].collect /\ ActiveItems = ActiveEntry.items
  BY <1>2 DEF Known, TypeOK, RoundOK, AfterRound, JournalInv, AsPlanned, ActiveEntry, ActiveItems
<1>5. \A i \in DOMAIN ActiveItems : SameLog(ActiveItems[i], e.items[i])
  BY <1>2, MapSettleLog
<1> HIDE DEF e
<1>6. ASSUME NEW i \in DOMAIN ActiveItems, i \notin pending
      PROVE  /\ Final(history, e, ActiveNode, i) /\ Len(e.items[i].attempts) < attempt
             /\ Closed(e.items[i]) /\ e.items[i].status # "cancelled"
  <2>1. e.items[i] = ActiveEntry.items[i]
    BY <1>3, <1>4, <1>6
  <2>2. Final(history, ActiveEntry, ActiveNode, i) /\ Len(ActiveEntry.items[i].attempts) < attempt
    BY <1>1, <1>4, <1>6 DEF RestFinal
  <2>3. Kept(ActiveEntry, ActiveEntry.items[i])
    BY <1>2, <1>3, <1>4, <1>6 DEF AfterRound
  <2>4. Final(history, e, ActiveNode, i)
    BY <1>3, <2>1, <2>2, FinalStays
  <2>5. QED
    BY <2>1, <2>2, <2>3, <2>4 DEF Kept
<1>7. ASSUME NEW i \in pending
      PROVE  /\ Played(e.items[i], i) /\ i \in DOMAIN round.outs
             /\ i \in CollectedNow => Final(history, e, ActiveNode, i)
             /\ pc' = "roundWrite" /\ i \notin RetryItems =>
                    Final(history, e, ActiveNode, i) /\ Len(e.items[i].attempts) = attempt
             /\ pc' = "mapDone" => /\ Closed(e.items[i]) /\ e.items[i].status # "cancelled"
                                   /\ Len(e.items[i].attempts) = attempt
  <2>1. Played(e.items[i], i) /\ i \in DOMAIN round.outs
    BY <1>3
  <2>2. Len(Trail(attempt, "failed")) = attempt /\ Len(Trail(attempt, "succeeded")) = attempt
    BY <1>4, TrailSeq, StatusNames
  <2>3. ASSUME i \in CollectedNow PROVE round.outs[i] # "succeeded" /\ i \notin RetryItems
    BY <2>3 DEF CollectedNow, MapItemFailure, FailedOutcomes, DiagnosticExits
  <2>4. i \in CollectedNow => Final(history, e, ActiveNode, i)
    BY <1>3, <1>4, <2>1, <2>3, PlayedFinal DEF Played
  <2>5. ASSUME pc' = "roundWrite", i \notin RetryItems
        PROVE  Final(history, e, ActiveNode, i) /\ Len(e.items[i].attempts) = attempt
    BY <1>3, <1>4, <2>1, <2>2, <2>5, PlayedFinal DEF Played
  <2>6. ASSUME pc' = "mapDone"
        PROVE  /\ Closed(e.items[i]) /\ e.items[i].status # "cancelled"
               /\ Len(e.items[i].attempts) = attempt
    BY <1>4, <2>1, <2>2, <2>6 DEF Played, Closed
  <2>7. QED
    BY <2>1, <2>4, <2>5, <2>6
<1>8. collected \cap pending = {}
  BY <1>1 DEF CollectedRest
<1>9. RetryItems \subseteq pending /\ CollectedNow \subseteq pending /\ CollectedNow \cap RetryItems = {}
  BY <1>3 DEF RetryItems, CollectedNow
<1>10. ASSUME pc' = "roundWrite", NEW h \in history, h[1] = ActiveNode
       PROVE  Fine(e, ActiveNode, h)
  <2>1. /\ h[2] \in DOMAIN ActiveEntry.items /\ h[3] \in DOMAIN ActiveEntry.items[h[2]].attempts
        /\ h[3] < attempt \/ (h[2] \in DOMAIN round.outs /\ h[3] = attempt /\ h[4] = round.outs[h[2]])
    BY <1>1, <1>10, EarlierReport
  <2>2. CASE h[3] < attempt
    <3>1. Fine(ActiveEntry, ActiveNode, h)
      BY <1>1, <1>10, <2>2 DEF EarlierFine
    <3>2. QED
      BY <1>3, <1>4, <1>5, <2>1, <3>1, FineStays DEF SameLog
  <2>3. CASE h[2] \in DOMAIN round.outs /\ h[3] = attempt /\ h[4] = round.outs[h[2]]
    <3>1. Played(e.items[h[2]], h[2]) /\ pc' # "mapDone"
      BY <1>3, <1>7, <1>10, <2>3
    <3>2. CASE e.items[h[2]].attempts = Trail(attempt, "succeeded") /\ round.outs[h[2]] = "succeeded"
      <4>1. e.items[h[2]].attempts[attempt].status = "succeeded"
        BY <1>4, <3>2, TrailStatus, StatusNames
      <4>2. QED
        BY <2>3, <3>2, <4>1 DEF Fine
    <3>3. CASE h[2] \in CollectedNow
      BY <1>3, <1>4, <2>3, <3>3 DEF CollectedNow, Fine
    <3>4. CASE h[2] \in RetryItems
      BY <2>3, <3>4 DEF RetryItems, Fine
    <3>5. QED
      BY <3>1, <3>2, <3>3, <3>4 DEF Played
  <2>4. QED
    BY <2>1, <2>2, <2>3
<1>11. ASSUME pc' = "roundWrite", NEW i \in DOMAIN e.items, i \notin pending'
       PROVE  Final(history, e, ActiveNode, i) /\ Len(e.items[i].attempts) < attempt'
  <2>1. attempt' = attempt + 1 /\ pending' = RetryItems
    BY <1>3, <1>11
  <2>2. CASE i \in pending
    BY <1>4, <1>7, <1>11, <2>1, <2>2
  <2>3. CASE i \notin pending
    <3>1. Final(history, e, ActiveNode, i) /\ Len(e.items[i].attempts) < attempt /\ Closed(e.items[i])
      BY <1>3, <1>6, <1>11, <2>3
    <3>2. Len(e.items[i].attempts) \in Nat
      BY <3>1, TrailSeq, StatusNames DEF Closed
    <3>3. QED
      BY <1>4, <2>1, <3>1, <3>2
  <2>4. QED
    BY <2>2, <2>3
<1>12. ASSUME pc' = "mapDone", NEW i \in DOMAIN e.items \cap collected' PROVE Final(history, e, ActiveNode, i)
  BY <1>3, <1>6, <1>7, <1>8, <1>9, <1>12
<1>13. ASSUME pc' = "mapDone" PROVE EndedIn(history, e, ActiveNode, attempt)
  <2>1. SUFFICES ASSUME NEW i \in DOMAIN e.items
                 PROVE  /\ Closed(e.items[i]) /\ e.items[i].status # "cancelled"
                        /\ Len(e.items[i].attempts) <= attempt
                        /\ Len(e.items[i].attempts) < attempt => Final(history, e, ActiveNode, i)
    BY DEF EndedIn
  <2>2. CASE i \in pending
    BY <1>4, <1>7, <1>13, <2>2
  <2>3. CASE i \notin pending
    <3>1. Final(history, e, ActiveNode, i) /\ Len(e.items[i].attempts) < attempt
          /\ Closed(e.items[i]) /\ e.items[i].status # "cancelled"
      BY <1>3, <1>6, <2>1, <2>3
    <3>2. Len(e.items[i].attempts) \in Nat
      BY <3>1, TrailSeq, StatusNames DEF Closed
    <3>3. QED
      BY <1>4, <3>1, <3>2
  <2>4. QED
    BY <2>2, <2>3
<1>14. e.status = "running"
  BY <1>2, <1>3 DEF Open
<1>15. collected' \cap pending' = {} \/ pc' = "mapDone"
  BY <1>3, <1>8, <1>9
<1>16. QED
  BY <1>3, <1>10, <1>11, <1>12, <1>13, <1>14, <1>15 DEF e

\* Growing an item's attempts adds no ending report.
LEMMA NoEndingStays ==
    ASSUME Known, NEW s \in StepIds, NEW f, manifest.steps[s].isMap,
           f.collect = manifest.steps[s].collect, ItemLogs(manifest.steps[s], f),
           NoEnding(history, manifest.steps[s], s)
    PROVE  NoEnding(history, f, s)
<1>1. SUFFICES ASSUME NEW h \in history, h[1] = s PROVE Fine(f, s, h)
  BY DEF NoEnding
<1> DEFINE e == manifest.steps[s]
<1>2. h[2] \in DOMAIN e.items /\ h[3] \in DOMAIN e.items[h[2]].attempts
  BY <1>1, ItemReport
<1>3. GrowLog(e.items[h[2]], f.items[h[2]])
  BY <1>2 DEF ItemLogs, SameLog
<1>4. Fine(e, s, h)
  BY <1>1 DEF NoEnding
<1>5. QED
  BY <1>2, <1>3, <1>4, FineStays

\* An ended map stays ended in its round while its closed items are kept.
LEMMA EndedInStays ==
    ASSUME NEW hist, NEW hist2, hist \subseteq hist2, NEW e, NEW f, NEW s, NEW r,
           f.collect = e.collect, DOMAIN f.items = DOMAIN e.items,
           \A i \in DOMAIN e.items : Closed(e.items[i]) => f.items[i] = e.items[i],
           EndedIn(hist, e, s, r)
    PROVE  EndedIn(hist2, f, s, r)
<1>1. ASSUME NEW i \in DOMAIN f.items
      PROVE  /\ Closed(f.items[i]) /\ f.items[i].status # "cancelled"
             /\ Len(f.items[i].attempts) <= r
             /\ Len(f.items[i].attempts) < r => Final(hist2, f, s, i)
  <2>1. f.items[i] = e.items[i] /\ Closed(e.items[i])
    BY <1>1 DEF EndedIn
  <2>2. QED
    BY <2>1, FinalStays DEF EndedIn
<1>2. QED
  BY <1>1 DEF EndedIn

\* A map the step leaves alone stays told.
LEMMA MapToldStays ==
    ASSUME NEW hist, NEW hist2, hist \subseteq hist2, NEW e, NEW f, NEW s,
           \A h \in hist2 : h[1] = s => h \in hist,
           f.status = e.status, f.collect = e.collect, f.items = e.items, MapTold(hist, e, s)
    PROVE  MapTold(hist2, f, s)
<1>1. AllFinal(hist, e, s) => AllFinal(hist2, f, s)
  BY FinalStays DEF AllFinal
<1>2. Unscripted(hist, s) => Unscripted(hist2, s)
  BY DEF Unscripted
<1>3. NoEnding(hist, e, s) => NoEnding(hist2, f, s)
  BY DEF NoEnding, Fine
<1>4. \A r \in Nat : EndedIn(hist, e, s, r) => EndedIn(hist2, f, s, r)
  BY EndedInStays
<1>5. QED
  BY <1>1, <1>2, <1>3, <1>4 DEF MapTold

\* failMap closes the map without hiding an ending report.
LEMMA FailMapTold ==
    ASSUME Known, pc \in MapOpenPlaces, NEW err, FailMap(manifest, err), UNCHANGED history,
           \/ NoEnding(history, ActiveEntry, ActiveNode)
           \/ \E r \in Nat : EndedIn(history, ActiveEntry, ActiveNode, r)
           \/ err = "ctx"
    PROVE  /\ MapTold(history', manifest'.steps[ActiveNode], ActiveNode)
           /\ manifest'.steps[ActiveNode].status # "running"
<1> DEFINE e == manifest.steps[ActiveNode]
           f == manifest'.steps[ActiveNode]
<1>1. TypeOK /\ ActiveNode \in StepIds /\ pos <= Len(NodeOrder) /\ manifest \in Manifests /\ e.isMap
  BY PlaceKept DEF Known, MapOpenPlaces, MapPlaces, TypeOK, PlaceOK, JournalsOK, JournalInv, AsPlanned
<1>2. ShapeHere
  BY <1>1 DEF Known, JournalInv, Shape
<1>3. Open(e, 1) /\ Running(e) /\ ActiveEntry = e
  BY <1>1, <1>2, MapIsRunning DEF ActiveEntry
<1>4. PICK status \in {"failed", "cancelled"} :
        manifest' = FailMapNode(manifest, ActiveNode, status) /\ (err = "ctx" => status = "cancelled")
  BY DEF FailMap
<1>5. /\ f.status = status /\ f.collect = e.collect /\ DOMAIN f.items = DOMAIN e.items
      /\ \A i \in DOMAIN e.items : Closed(e.items[i]) => f.items[i] = e.items[i]
  BY <1>1, <1>3, <1>4, MapEnds
<1>6. ItemLogs(e, f)
  BY <1>1, <1>2, ItemLogsFail
<1>7. ASSUME NoEnding(history, e, ActiveNode) PROVE NoEnding(history', f, ActiveNode)
  BY <1>1, <1>5, <1>6, <1>7, NoEndingStays
<1>8. ASSUME NEW r \in Nat, EndedIn(history, e, ActiveNode, r) PROVE EndedIn(history', f, ActiveNode, r)
  BY <1>5, <1>8, EndedInStays
<1>9. QED
  BY <1>3, <1>4, <1>5, <1>7, <1>8 DEF MapTold

\* A round that ends in an error leaves the map told.
LEMMA SettleErrorTold ==
    ASSUME Known, RestFinal, EarlierFine, InfraReported, MapSettle, RoundError # "none"
    PROVE  /\ MapTold(history', manifest'.steps[ActiveNode], ActiveNode)
           /\ manifest'.steps[ActiveNode].status # "running"
<1> DEFINE e == manifest.steps[ActiveNode]
           f == manifest'.steps[ActiveNode]
<1>1. pc = "mapSettle" /\ pc \in MapOpenPlaces /\ pc \in RoundOpen /\ pc \in MapPlaces
  BY DEF MapSettle, MapOpenPlaces, MapPlaces, RoundOpen
<1>2. TypeOK /\ ActiveNode \in StepIds /\ pos <= Len(NodeOrder) /\ manifest \in Manifests /\ e.isMap
  BY <1>1 DEF Known, TypeOK, PlaceOK, JournalsOK, JournalInv, AsPlanned
<1>3. ShapeHere /\ history' = history /\ ActiveEntry = e /\ ActiveItems = e.items
  BY <1>2 DEF Known, JournalInv, Shape, MapSettle, ActiveEntry, ActiveItems
<1>4. PICK m \in Manifests : m.steps[ActiveNode].collect = e.collect /\ FailMap(m, RoundError)
  BY <1>2, MapSettleIs
<1>5. PICK status \in {"failed", "cancelled"} :
        manifest' = FailMapNode(m, ActiveNode, status) /\ (RoundError = "ctx" => status = "cancelled")
  BY <1>4 DEF FailMap
<1>6. f.status = status /\ f.collect = e.collect
  BY <1>2, <1>4, <1>5, FailMapNodeIs
<1>7. SUFFICES ASSUME RoundError # "ctx" PROVE Unscripted(history, ActiveNode) \/ NoEnding(history, f, ActiveNode)
  BY <1>3, <1>5, <1>6 DEF MapTold
<1>8. ASSUME NEW i \in DOMAIN round.outs, round.outs[i] \in ErrorOutcomes
      PROVE  Unscripted(history, ActiveNode)
  <2>1. PICK h \in history : h = <<ActiveNode, i, attempt, round.outs[i]>>
    BY <1>1 DEF Known, SpendInv, RoundSpent
  <2>2. QED
    BY <1>8, <2>1 DEF Unscripted, Scripted
<1>9. CASE DOMAIN round.outs = {}
  <2>1. NoEnding(history, e, ActiveNode)
    BY <1>1, <1>3, <1>9, RoundFine
  <2>2. ItemLogs(e, f)
    BY <1>2, <1>3, MapSettleLog DEF ItemLogs
  <2>3. QED
    BY <1>2, <1>6, <2>1, <2>2, NoEndingStays
<1>10. CASE DOMAIN round.outs # {}
  <2>1. CASE \E i \in DOMAIN round.outs : round.outs[i] = "fatal"
    BY <1>8, <2>1 DEF ErrorOutcomes
  <2>2. CASE ~\E i \in DOMAIN round.outs : round.outs[i] = "fatal"
    <3>1. round.err # "fatal"
      BY <1>1, <2>2 DEF Known, Cause, RoundReported, FatalOutcome
    <3>2. round.err = "infra"
      BY <1>2, <1>7, <2>2, <3>1 DEF RoundError, InvokeError, TypeOK, RoundOK, Errors
    <3>3. \E i \in DOMAIN round.outs : round.outs[i] = "infra"
      BY <1>1, <1>10, <3>2 DEF InfraReported
    <3>4. QED
      BY <1>8, <3>3 DEF ErrorOutcomes
  <2>3. QED
    BY <2>1, <2>2
<1>11. QED
  BY <1>9, <1>10

\* Before its first dispatch a map has nothing to tell.
LEMMA Unreported ==
    ASSUME Known', NEW s \in StepIds, \A h \in history' : h[1] # s
    PROVE  /\ MapTold(history', manifest'.steps[s], s)
           /\ NoEnding(history', manifest'.steps[s], s)
<1> DEFINE f == manifest'.steps[s]
<1>1. NoEnding(history', f, s)
  BY DEF NoEnding
<1>2. ASSUME f.status = "succeeded", NEW i \in DOMAIN f.items PROVE FALSE
  <2>1. Closed(f.items[i])
    BY <1>2 DEF Known, EntriesLegal, Legal, Blank, Fresh, Inactive, Done, Running, Unfinished, Open,
       Waiting, Stopped, Kept
  <2>2. PICK k \in Nat \ {0}, last \in Statuses : f.items[i].attempts = Trail(k, last)
    BY <2>1, StatusNames DEF Closed
  <2>3. 1 \in DOMAIN f.items[i].attempts
    BY <2>2, TrailStatus
  <2>4. \E o \in OutcomeKinds : <<s, i, 1, o>> \in history'
    BY <1>2, <2>3 DEF Known, HistoryInv, ItemsReported
  <2>5. QED
    BY <2>4
<1>3. QED
  BY <1>1, <1>2 DEF MapTold, AllFinal

\* Outside the places of the rounds nothing is asked of them.
LEMMA RoundsQuiet ==
    ASSUME pc' \notin RoundOpen \cup {"mapDone", "collect"},
           pc' = "terminal" /\ ActiveEntry'.status = "running" =>
                NoEnding(history', ActiveEntry', ActiveNode')
    PROVE  RoundsHere'
<1>1. EarlierFine' /\ RestFinal' /\ CollectedRest' /\ InfraReported'
  BY DEF EarlierFine, RestFinal, CollectedRest, InfraReported, RoundOpen
<1>2. RoundsEnded'
  BY DEF RoundsEnded
<1>3. QED
  BY <1>1, <1>2 DEF RoundsHere

\* A step that leaves the round alone keeps what it tells.
LEMMA RoundsStay ==
    ASSUME RoundsHere, UNCHANGED <<pc, pos, attempt, pending, round, collected, manifest, history>>
    PROVE  RoundsHere'
<1>1. ActiveEntry' = ActiveEntry /\ ActiveNode' = ActiveNode
  BY DEF ActiveEntry, ActiveNode
<1>2. QED
  BY <1>1 DEF RoundsHere, EarlierFine, RestFinal, CollectedRest, InfraReported, RoundsEnded

\* The places of a map after its items were journaled, and of a run that ends.
LatePlaces == {"mapInvoke", "mapSettle", "roundWrite", "roundWait", "mapDone", "collect",
               "collectWrite", "terminal"} \cup SettledPlaces

\* Every place is before, in or after the body of a step.
LEMMA PlacesSplit ==
    ASSUME TypeOK
    PROVE  pc \in IdlePlaces \/ pc \in StepPlaces \/ pc \in LatePlaces
BY DEF TypeOK, PlaceOK, Places, OpenPlaces, IdlePlaces, StepPlaces, MapPlaces, LatePlaces, SettledPlaces

\* The steps Run can take from the places after a map's items are written.
LEMMA LateStep ==
    ASSUME TypeOK, [Next]_vars, pc \in LatePlaces
    PROVE  \/ UNCHANGED <<pc, pos, attempt, pending, round, collected, manifest, history>>
           \/ MapInvoke \/ MapSettle \/ RoundWrite \/ RoundWait \/ MapDone \/ Collect \/ CollectWrite
           \/ TerminateRun
           \/ pc' \in SettledPlaces /\ manifest'.steps = manifest.steps /\ UNCHANGED <<pos, history>>
<1>1. ASSUME RefuseRun \/ Claim \/ Prerequisites \/ StopAtNode \/ SkipNode \/ DecideNode \/ NodeWrite
        \/ SelectNode \/ EnterNode \/ StepInput \/ AttemptWrite \/ InvokeStep \/ RetryWrite \/ RetryWait
        \/ Settle \/ SuccessWrite \/ MapInput \/ MapWrite \/ Expand \/ ItemInputs \/ ItemsWrite
        \/ Result \/ ResultWrite
      PROVE  FALSE
  BY <1>1 DEF LatePlaces, SettledPlaces, RefuseRun, Claim, Prerequisites, StopAtNode, SkipNode,
     DecideNode, NodeWrite, SelectNode, EnterNode, StepInput, AttemptWrite, InvokeStep, RetryWrite,
     RetryWait, Settle, SuccessWrite, MapInput, MapWrite, Expand, ItemInputs, ItemsWrite, Result,
     ResultWrite, AtNode, Active
<1>2. ASSUME Cancel \/ DeadlinePasses \/ UNCHANGED vars
      PROVE  UNCHANGED <<pc, pos, attempt, pending, round, collected, manifest, history>>
  BY <1>2 DEF Cancel, DeadlinePasses, vars
<1>3. ASSUME TerminalWrite \/ HookWrite
      PROVE  pc' \in SettledPlaces /\ manifest'.steps = manifest.steps /\ UNCHANGED <<pos, history>>
  BY <1>3 DEF TerminalWrite, HookWrite, Goto, SettledPlaces
<1>4. ASSUME ExitHook
      PROVE  pc' \in SettledPlaces /\ manifest'.steps = manifest.steps /\ UNCHANGED <<pos, history>>
  <2>1. pc' \in SettledPlaces /\ UNCHANGED <<pos, history>>
    BY <1>4 DEF ExitHook, Goto, SettledPlaces
  <2>2. manifest'.steps = manifest.steps
    BY <1>4, ExitHookIs
  <2>3. QED
    BY <2>1, <2>2
<1>5. QED
  BY <1>1, <1>2, <1>3, <1>4 DEF Next, RunStep, StepNode, MapNode, Finished

\* Each action of a map that has reports, or a run that ends.
LEMMA InvokeTold ==
    ASSUME Known, Known', RoundsHere, MapInvoke
    PROVE  MapTold(history', manifest'.steps[ActiveNode], ActiveNode) /\ RoundsHere'
<1> DEFINE e == manifest.steps[ActiveNode]
           f == manifest'.steps[ActiveNode]
<1>1. pc = "mapInvoke" /\ pc \in MapOpenPlaces /\ pc \in RoundPlaces /\ pc \in RoundOpen /\ pc \in MapPlaces
  BY DEF MapInvoke, MapOpenPlaces, MapPlaces, RoundPlaces, RoundOpen
<1>2. TypeOK /\ ActiveNode \in StepIds /\ pos <= Len(NodeOrder) /\ ShapeHere
  BY <1>1 DEF Known, TypeOK, PlaceOK, JournalInv, Shape
<1>3. /\ pc' = "mapSettle" /\ UNCHANGED <<pos, attempt, pending, collected>>
      /\ DOMAIN round'.outs \subseteq pending
      /\ history' = history \cup {<<ActiveNode, i, attempt, round'.outs[i]>> : i \in DOMAIN round'.outs}
  BY <1>2, MapInvokeIs
<1>4. /\ f.status = e.status /\ f.collect = e.collect /\ DOMAIN f.items = DOMAIN e.items
      /\ \A i \in DOMAIN e.items : i \notin pending => f.items[i] = e.items[i]
  BY <1>2, <1>3, MapInvokeItems
<1>5. \A i \in DOMAIN e.items : GrowLog(e.items[i], f.items[i])
  BY <1>2, MapInvokeLog
<1>6. ActiveEntry = e /\ ActiveEntry' = f /\ ActiveNode' = ActiveNode
  BY <1>3 DEF ActiveEntry, ActiveNode
<1>7. f.status = "running"
  BY <1>1, <1>2, <1>4, <1>6 DEF ShapeHere, MapShape, Open
<1> HIDE DEF e, f
<1>8. EarlierFine'
  <2>1. SUFFICES ASSUME NEW h \in history', h[1] = ActiveNode, h[3] < attempt PROVE Fine(f, ActiveNode, h)
    BY <1>3, <1>6 DEF EarlierFine
  <2>2. h \in history
    BY <1>2, <1>3, <2>1 DEF TypeOK, RoundOK
  <2>3. Fine(e, ActiveNode, h)
    BY <1>1, <1>6, <2>1, <2>2 DEF RoundsHere, EarlierFine
  <2>4. h[2] \in DOMAIN e.items /\ h[3] \in DOMAIN e.items[h[2]].attempts
    BY <1>1, <1>6, <2>1, <2>2, EarlierReport DEF RoundsHere
  <2>5. QED
    BY <1>4, <1>5, <2>3, <2>4, FineStays
<1>9. RestFinal'
  <2>1. SUFFICES ASSUME NEW i \in DOMAIN f.items, i \notin pending
                 PROVE  Final(history', f, ActiveNode, i) /\ Len(f.items[i].attempts) < attempt
    BY <1>3, <1>6 DEF RestFinal
  <2>2. Final(history, e, ActiveNode, i) /\ Len(e.items[i].attempts) < attempt
    BY <1>1, <1>4, <1>6, <2>1 DEF RoundsHere, RestFinal
  <2>3. f.items[i] = e.items[i] /\ history \subseteq history'
    BY <1>3, <1>4, <2>1
  <2>4. QED
    BY <1>4, <2>2, <2>3, FinalStays
<1>10. CollectedRest' /\ RoundsEnded'
  BY <1>1, <1>3 DEF RoundsHere, CollectedRest, RoundsEnded
<1>11. InfraReported'
  <2>1. round'.err = "infra" => DOMAIN round'.outs = {} \/ \E i \in DOMAIN round'.outs : round'.outs[i] = "infra"
    BY DEF MapInvoke, InvokeStepsReturns
  <2>2. QED
    BY <2>1 DEF InfraReported
<1>12. QED
  BY <1>7, <1>8, <1>9, <1>10, <1>11 DEF RoundsHere, MapTold, f

\* Settling a round.
LEMMA MapSettleTold ==
    ASSUME Known, Known', RoundsHere, MapSettle
    PROVE  MapTold(history', manifest'.steps[ActiveNode], ActiveNode) /\ RoundsHere'
<1> DEFINE f == manifest'.steps[ActiveNode]
<1>1. UNCHANGED <<pos, history>> /\ ActiveNode' = ActiveNode /\ ActiveEntry' = f
  BY DEF MapSettle, ActiveNode, ActiveEntry
<1>2. RestFinal /\ EarlierFine /\ CollectedRest /\ InfraReported
  BY DEF RoundsHere
<1>3. CASE RoundError # "none"
  <2>1. MapTold(history', f, ActiveNode) /\ f.status # "running"
    BY <1>2, <1>3, SettleErrorTold
  <2>2. pc' = "terminal"
    BY <1>3, MapSettleError DEF Known
  <2>3. RoundsHere'
    BY <1>1, <2>1, <2>2, RoundsQuiet DEF RoundOpen, RoundPlaces
  <2>4. QED
    BY <2>1, <2>3
<1>4. CASE RoundError = "none"
  <2>1. /\ f.status = "running"
        /\ pc' = "roundWrite" =>
             /\ attempt' = attempt + 1 /\ collected' \cap pending' = {}
             /\ \A h \in history : h[1] = ActiveNode => Fine(f, ActiveNode, h)
             /\ \A i \in DOMAIN f.items \ pending' :
                     Final(history, f, ActiveNode, i) /\ Len(f.items[i].attempts) < attempt'
        /\ pc' = "mapDone" =>
             /\ attempt' = attempt
             /\ \A i \in DOMAIN f.items \cap collected' : Final(history, f, ActiveNode, i)
             /\ EndedIn(history, f, ActiveNode, attempt)
        /\ pc' \in {"roundWrite", "mapDone"}
    BY <1>2, <1>4, SettleRest
  <2> HIDE DEF f
  <2>2. MapTold(history', f, ActiveNode)
    BY <2>1 DEF MapTold
  <2>3. EarlierFine' /\ RestFinal'
    BY <1>1, <2>1 DEF EarlierFine, RestFinal, RoundOpen, RoundPlaces
  <2>4. CollectedRest' /\ InfraReported'
    BY <1>1, <2>1 DEF CollectedRest, InfraReported, RoundOpen, RoundPlaces
  <2>5. RoundsEnded'
    BY <1>1, <2>1 DEF RoundsEnded
  <2>6. QED
    BY <2>2, <2>3, <2>4, <2>5 DEF RoundsHere, f
<1>5. QED
  BY <1>3, <1>4

\* At "collect" every report lets the map go on.
LEMMA AllFinalFine ==
    ASSUME Known, ActiveNode \in StepIds, ActiveEntry.isMap, pos <= Len(NodeOrder),
           pc = "collect", AllFinal(history, ActiveEntry, ActiveNode)
    PROVE  NoEnding(history, ActiveEntry, ActiveNode)
<1>1. SUFFICES ASSUME NEW h \in history, h[1] = ActiveNode PROVE Fine(ActiveEntry, ActiveNode, h)
  BY DEF NoEnding
<1>2. h[2] \in DOMAIN ActiveEntry.items
  BY <1>1, ItemReport DEF ActiveEntry
<1>3. Closed(ActiveEntry.items[h[2]])
  BY <1>2 DEF Known, JournalInv, Shape, ShapeHere, MapShape, Kept
<1>4. Final(history, ActiveEntry, ActiveNode, h[2])
  BY <1>2 DEF AllFinal
<1>5. QED
  BY <1>1, <1>3, <1>4, FinalFine DEF ActiveEntry

\* Writing a round and waiting out its backoff.
LEMMA RoundTold ==
    ASSUME Known, Known', RoundsHere, MapTold(history, ActiveEntry, ActiveNode), RoundWrite \/ RoundWait
    PROVE  MapTold(history', manifest'.steps[ActiveNode], ActiveNode) /\ RoundsHere'
<1> DEFINE f == manifest'.steps[ActiveNode]
<1>1. /\ UNCHANGED <<pos, attempt, pending, round, collected, history>>
      /\ ActiveNode' = ActiveNode /\ ActiveEntry' = f
      /\ pc \in {"roundWrite", "roundWait"}
      /\ \/ pc' \in {"roundWait", "mapInvoke", "terminal"} /\ UNCHANGED manifest
         \/ pc' = "terminal" /\ FailMap(manifest, "ctx")
  BY DEF RoundWrite, RoundWait, ActiveNode, ActiveEntry, Goto, Fail, FailMap
<1>2. pc \in RoundOpen /\ pc \in MapOpenPlaces /\ pc # "mapSettle" /\ pc \in RoundPlaces
  BY <1>1 DEF RoundOpen, RoundPlaces, MapOpenPlaces, MapPlaces
<1>3. NoEnding(history, ActiveEntry, ActiveNode)
  BY <1>2, RoundFine DEF RoundsHere
<1>4. CASE UNCHANGED manifest
  <2>1. f = ActiveEntry
    BY <1>4 DEF ActiveEntry
  <2>2. MapTold(history', f, ActiveNode)
    BY <1>1, <2>1
  <2>3. CASE pc' = "terminal"
    BY <1>1, <1>3, <2>1, <2>2, <2>3, RoundsQuiet DEF RoundOpen, RoundPlaces
  <2>4. CASE pc' # "terminal"
    <3>1. pc' \in RoundPlaces
      BY <1>1, <1>4, <2>4 DEF RoundPlaces, FailMap, Fail
    <3>2. EarlierFine' /\ RestFinal' /\ CollectedRest'
      BY <1>1, <1>2, <2>1, <3>1 DEF RoundsHere, EarlierFine, RestFinal, CollectedRest, RoundPlaces
    <3>3. InfraReported' /\ RoundsEnded'
      BY <3>1 DEF InfraReported, RoundsEnded, RoundPlaces
    <3>4. QED
      BY <2>2, <3>2, <3>3 DEF RoundsHere
  <2>5. QED
    BY <2>3, <2>4
<1>5. CASE pc' = "terminal" /\ FailMap(manifest, "ctx")
  <2>1. MapTold(history', f, ActiveNode) /\ f.status # "running"
    BY <1>1, <1>2, <1>5, FailMapTold
  <2>2. QED
    BY <1>1, <1>5, <2>1, RoundsQuiet DEF RoundOpen, RoundPlaces
<1>6. QED
  BY <1>1, <1>4, <1>5

\* The end of the rounds.
LEMMA DoneTold ==
    ASSUME Known, Known', RoundsHere, MapTold(history, ActiveEntry, ActiveNode), MapDone
    PROVE  MapTold(history', manifest'.steps[ActiveNode], ActiveNode) /\ RoundsHere'
<1> DEFINE f == manifest'.steps[ActiveNode]
<1>1. /\ pc = "mapDone" /\ UNCHANGED <<pos, history>>
      /\ ActiveNode' = ActiveNode /\ ActiveEntry' = f /\ ActiveItems = ActiveEntry.items
      /\ \/ /\ pc' = "collect" /\ UNCHANGED manifest
            /\ \A i \in DOMAIN ActiveItems \ collected : ActiveItems[i].status = "succeeded"
         \/ pc' = "terminal" /\ FailMap(manifest, "other")
  BY DEF MapDone, ActiveNode, ActiveEntry, ActiveItems, Goto, Fail, FailMap
<1>2. pc \in MapOpenPlaces /\ attempt \in Nat
  BY <1>1 DEF MapOpenPlaces, MapPlaces, Known, TypeOK, RoundOK
<1>3. CASE pc' = "terminal" /\ FailMap(manifest, "other")
  <2>1. EndedIn(history, ActiveEntry, ActiveNode, attempt)
    BY <1>1 DEF RoundsHere, RoundsEnded
  <2>2. MapTold(history', f, ActiveNode) /\ f.status # "running"
    BY <1>1, <1>2, <1>3, <2>1, FailMapTold
  <2>3. QED
    BY <1>1, <1>3, <2>2, RoundsQuiet DEF RoundOpen, RoundPlaces
<1>4. CASE /\ pc' = "collect" /\ UNCHANGED manifest
           /\ \A i \in DOMAIN ActiveItems \ collected : ActiveItems[i].status = "succeeded"
  <2>1. f = ActiveEntry
    BY <1>4 DEF ActiveEntry
  <2>2. AllFinal(history, ActiveEntry, ActiveNode)
    <3>1. SUFFICES ASSUME NEW i \in DOMAIN ActiveEntry.items PROVE Final(history, ActiveEntry, ActiveNode, i)
      BY DEF AllFinal
    <3>2. CASE i \in collected
      BY <1>1, <3>2 DEF RoundsHere, CollectedRest
    <3>3. CASE i \notin collected
      BY <1>1, <1>4, <3>3 DEF Final
    <3>4. QED
      BY <3>2, <3>3
  <2>3. EarlierFine' /\ RestFinal' /\ CollectedRest' /\ InfraReported'
    BY <1>4 DEF EarlierFine, RestFinal, CollectedRest, InfraReported, RoundOpen, RoundPlaces
  <2>4. RoundsEnded'
    BY <1>1, <1>4, <2>1, <2>2 DEF RoundsEnded
  <2>5. QED
    BY <1>1, <2>1, <2>3, <2>4 DEF RoundsHere
<1>5. QED
  BY <1>1, <1>3, <1>4

\* Collecting a map's values.
LEMMA CollectTold ==
    ASSUME Known, Known', RoundsHere, Collect
    PROVE  MapTold(history', manifest'.steps[ActiveNode], ActiveNode) /\ RoundsHere'
<1> DEFINE f == manifest'.steps[ActiveNode]
<1>1. /\ pc = "collect" /\ UNCHANGED <<pos, history>>
      /\ ActiveNode' = ActiveNode /\ ActiveEntry' = f
      /\ \/ pc' = "collectWrite" /\ manifest' = MarkAttemptSucceeded(manifest, ActiveNode)
         \/ pc' = "terminal" /\ \E err : FailMap(manifest, err)
  BY DEF Collect, ActiveNode, ActiveEntry, Goto, Fail, FailMap
<1>2. pc \in MapOpenPlaces /\ pc \in MapPlaces
  BY <1>1 DEF MapOpenPlaces, MapPlaces
<1>3. ActiveNode \in StepIds /\ ActiveEntry.isMap /\ pos <= Len(NodeOrder) /\ manifest \in Manifests
  BY <1>2 DEF Known, TypeOK, PlaceOK, JournalsOK, JournalInv, AsPlanned, ActiveEntry
<1>4. AllFinal(history, ActiveEntry, ActiveNode)
  BY <1>1 DEF RoundsHere, RoundsEnded
<1>5. CASE pc' = "terminal" /\ \E err : FailMap(manifest, err)
  <2>1. NoEnding(history, ActiveEntry, ActiveNode)
    BY <1>1, <1>3, <1>4, AllFinalFine
  <2>2. MapTold(history', f, ActiveNode) /\ f.status # "running"
    BY <1>1, <1>2, <1>5, <2>1, FailMapTold
  <2>3. QED
    BY <1>1, <1>5, <2>2, RoundsQuiet DEF RoundOpen, RoundPlaces
<1>6. CASE pc' = "collectWrite" /\ manifest' = MarkAttemptSucceeded(manifest, ActiveNode)
  <2>1. ActiveEntry \in StepRecs /\ ActiveEntry \in Entries /\ Open(ActiveEntry, 1)
    BY <1>1, <1>2, <1>3, StepEntry DEF ActiveEntry, Known, JournalInv, Shape, ShapeHere, MapShape
  <2>2. f = EntrySucceeded(ActiveEntry)
    BY <1>3, <1>6, MarkSucceededIs DEF ActiveEntry
  <2>3. SameRest(ActiveEntry, f) /\ f.status = "succeeded"
    BY <2>1, <2>2, OpenSucceeds
  <2>4. f.items = ActiveEntry.items /\ f.collect = ActiveEntry.collect
    BY <2>1, <2>3 DEF SameRest
  <2>5. AllFinal(history, f, ActiveNode)
    BY <1>4, <2>4, FinalStays DEF AllFinal
  <2>6. MapTold(history', f, ActiveNode)
    BY <1>1, <2>3, <2>5 DEF MapTold
  <2>7. QED
    BY <1>6, <2>6, RoundsQuiet DEF RoundOpen, RoundPlaces
<1>7. QED
  BY <1>1, <1>5, <1>6

\* A map the loop is done with, and a map that was never dispatched.
LEMMA WrittenTold ==
    ASSUME Known, Known', MapTold(history, ActiveEntry, ActiveNode), CollectWrite
    PROVE  MapTold(history', manifest'.steps[ActiveNode], ActiveNode) /\ (UNCHANGED pos => RoundsHere')
<1>1. /\ pc = "collectWrite" /\ UNCHANGED <<manifest, history>>
      /\ pc' \in {"node", "terminal"}
  BY DEF CollectWrite, Goto, Fail, NextNode
<1>2. MapTold(history', manifest'.steps[ActiveNode], ActiveNode)
  BY <1>1 DEF ActiveEntry
<1>3. ASSUME UNCHANGED pos PROVE ActiveEntry'.status # "running"
  <2>1. ActiveNode \in StepIds /\ pos <= Len(NodeOrder) /\ ActiveEntry' = ActiveEntry
    BY <1>1, <1>3, PlaceKept DEF Known, TypeOK, PlaceOK, MapPlaces, ActiveEntry, ActiveNode
  <2>2. Done(ActiveEntry)
    BY <1>1, <2>1 DEF Known, JournalInv, Shape, ShapeHere, DoneShape, DonePlaces
  <2>3. QED
    BY <2>1, <2>2 DEF Done
<1>4. QED
  BY <1>1, <1>2, <1>3, RoundsQuiet DEF RoundOpen, RoundPlaces

\* Rounds are only entered by writing the map's items.
LEMMA ArriveRounds ==
    ASSUME TypeOK, [Next]_vars, pc \in IdlePlaces,
           pc' \in RoundOpen \cup {"mapDone", "collect"}
    PROVE  ItemsWrite
<1>1. ASSUME Cancel \/ DeadlinePasses \/ UNCHANGED vars \/ RefuseRun \/ Claim \/ Prerequisites \/ StopAtNode
        \/ SkipNode \/ DecideNode \/ NodeWrite \/ SelectNode \/ EnterNode \/ StepInput \/ MapInput
        \/ MapWrite \/ Expand \/ ItemInputs \/ Result \/ ResultWrite
      PROVE  FALSE
  BY <1>1 DEF IdlePlaces, RoundOpen, RoundPlaces, Cancel, DeadlinePasses, vars, RefuseRun, Claim, Prerequisites,
     StopAtNode, SkipNode, DecideNode, NodeWrite, SelectNode, EnterNode, StepInput, MapInput, MapWrite,
     Expand, ItemInputs, Result, ResultWrite, Goto, Fail, NextNode, FailMap, Active, AtNode
<1>2. ASSUME AttemptWrite \/ InvokeStep \/ RetryWrite \/ RetryWait \/ Settle \/ SuccessWrite \/ MapInvoke
        \/ MapSettle \/ RoundWrite \/ RoundWait \/ MapDone \/ Collect \/ CollectWrite \/ TerminateRun
        \/ TerminalWrite \/ ExitHook \/ HookWrite
      PROVE  FALSE
  BY <1>2 DEF IdlePlaces, AttemptWrite, InvokeStep, RetryWrite, RetryWait, Settle, SuccessWrite, MapInvoke,
     MapSettle, RoundWrite, RoundWait, MapDone, Collect, CollectWrite, TerminateRun, TerminalWrite,
     ExitHook, HookWrite
<1>3. QED
  BY <1>1, <1>2 DEF Next, RunStep, StepNode, MapNode, Finished

\* Steps before the rounds of the active map.
LEMMA IdleTold ==
    ASSUME Known, Known', [Next]_vars, pc \in IdlePlaces, pos <= Len(NodeOrder), ActiveNode \in StepIds
    PROVE  /\ MapTold(history', manifest'.steps[ActiveNode], ActiveNode)
           /\ UNCHANGED pos => RoundsHere'
<1>1. ~InvokeStep /\ ~MapInvoke
  BY DEF IdlePlaces, InvokeStep, MapInvoke
<1>2. UNCHANGED history /\ \A h \in history' : h[1] # ActiveNode
  BY <1>1, HistoryStep, ActiveUndispatched DEF Known
<1>3. /\ MapTold(history', manifest'.steps[ActiveNode], ActiveNode)
      /\ NoEnding(history', manifest'.steps[ActiveNode], ActiveNode)
  BY <1>2, Unreported
<1>4. ASSUME UNCHANGED pos PROVE RoundsHere'
  <2>1. ActiveNode' = ActiveNode /\ ActiveEntry' = manifest'.steps[ActiveNode]
    BY <1>4 DEF ActiveNode, ActiveEntry
  <2>2. CASE pc' \notin RoundOpen \cup {"mapDone", "collect"}
    BY <1>3, <2>1, <2>2, RoundsQuiet
  <2>3. CASE pc' \in RoundOpen \cup {"mapDone", "collect"}
    <3>1. ItemsWrite
      BY <2>3, ArriveRounds DEF Known
    <3>2. /\ pending' = DOMAIN ActiveItems /\ collected' = {}
          /\ pc' = IF DOMAIN ActiveItems = {} THEN "mapDone" ELSE "mapInvoke"
          /\ UNCHANGED manifest
      BY <2>3, <3>1 DEF ItemsWrite, StartRound, Goto, Fail, RoundOpen, RoundPlaces
    <3>3. ActiveEntry'.items = ActiveItems
      BY <2>1, <3>2 DEF ActiveItems
    <3>4. EarlierFine'
      BY <1>2, <2>1 DEF EarlierFine
    <3>5. RestFinal' /\ CollectedRest' /\ InfraReported'
      BY <3>2, <3>3 DEF RestFinal, CollectedRest, InfraReported
    <3>6. RoundsEnded'
      BY <3>2, <3>3 DEF RoundsEnded, EndedIn
    <3>7. QED
      BY <3>4, <3>5, <3>6 DEF RoundsHere
  <2>4. QED
    BY <2>2, <2>3
<1>5. QED
  BY <1>3, <1>4

\* Only the active step runs.
LEMMA RunningIsActive ==
    ASSUME TypeOK, JournalInv, NEW s \in StepIds, Running(manifest.steps[s])
    PROVE  pos <= Len(NodeOrder) /\ s = ActiveNode
<1>1. PICK i \in 1..Len(NodeOrder) : s = NodeOrder[i]
  BY StepPosition
<1>2. pos \in Nat /\ Len(NodeOrder) \in Nat
  BY PlanFacts DEF TypeOK, PlaceOK
<1>3. manifest.steps[s].status = "running"
  BY DEF Running, Unfinished, Open, Waiting
<1>4. ~(i < pos)
  BY <1>1, <1>3 DEF JournalInv, PastDone, Done
<1>5. ~(i > pos)
  BY <1>1, <1>3 DEF JournalInv, FutureBlank, Inactive, Blank, Fresh
<1>6. i = pos
  BY <1>2, <1>4, <1>5
<1>7. QED
  BY <1>1, <1>6 DEF ActiveNode

\* Closing what is still open when the run ends.
LEMMA TerminateTold ==
    ASSUME Known, Known', ActiveTold, MapsTold, TerminateRun, NEW s \in StepIds, manifest.steps[s].isMap
    PROVE  MapTold(history', manifest'.steps[s], s)
<1> DEFINE e == manifest.steps[s]
           f == manifest'.steps[s]
<1>0. TypeOK /\ TypeOK' /\ Control /\ JournalInv /\ Legal(e) /\ UNCHANGED <<history, pos>> /\ pc = "terminal"
  BY DEF Known, EntriesLegal, TerminateRun
<1>1. MapTold(history, e, s)
  BY DEF MapsTold
<1>2. /\ Blank(e) => Inactive(f)
      /\ Inactive(e) => Inactive(f)
      /\ Running(e) \/ Stopped(e) => Stopped(f)
      /\ f.collect = e.collect
  BY <1>0, TerminateShapes
<1>3. ASSUME Inactive(f) PROVE MapTold(history', f, s)
  BY <1>3 DEF Inactive, MapTold
<1>4. CASE e.status = "succeeded"
  <2>1. f = e
    BY <1>0, <1>4, TerminateKeeps DEF Keeps, Preserved
  <2>2. QED
    BY <1>0, <1>1, <2>1
<1>5. CASE Stopped(e)
  <2>1. e \in StepRecs /\ f \in StepRecs /\ e \in Entries
    BY <1>0, StepEntry DEF TypeOK, JournalsOK
  <2>2. /\ f.status = TerminateEntry(e, TerminalStatus).status
        /\ f.attempts = TerminateEntry(e, TerminalStatus).attempts
        /\ f.isMap = e.isMap /\ DOMAIN f.items = DOMAIN e.items
        /\ \A i \in DOMAIN e.items : f.items[i] = TerminateEntry(e.items[i], TerminalStatus)
        /\ TerminalStatus \in {"failed", "cancelled"}
    BY <1>0, TerminateRunIs
  <2>3. f.status = e.status /\ f.attempts = e.attempts
    BY <1>5, <2>1, <2>2, EntryEnds DEF Stopped
  <2>4. ASSUME NEW i \in DOMAIN e.items PROVE f.items[i] = e.items[i]
    <3>1. e.items[i] \in Entries /\ (Closed(e.items[i]) \/ NotStarted(e.items[i]))
      BY <1>0, <1>5, <2>1, StepEntry DEF Stopped, Entries, TypeOK, JournalsOK
    <3>2. QED
      BY <2>2, <3>1, EntryEnds
  <2>5. f = e
    BY <1>2, <2>1, <2>2, <2>3, <2>4, SameStep
  <2>6. QED
    BY <1>0, <1>1, <2>5
<1>6. CASE Running(e)
  <2>1. pos <= Len(NodeOrder) /\ s = ActiveNode /\ ActiveEntry = e /\ e.status = "running"
    BY <1>0, <1>6, RunningIsActive DEF ActiveEntry, Running, Unfinished, Open, Waiting
  <2>2. NoEnding(history, e, s)
    BY <1>0, <2>1 DEF ActiveTold, RoundsHere, RoundsEnded
  <2>3. ~MapInvoke /\ [Next]_vars
    BY <1>0 DEF MapInvoke, Next, RunStep
  <2>4. ItemLogs(e, f)
    BY <1>0, <2>3, ItemLogsStep
  <2>5. NoEnding(history, f, s)
    BY <1>2, <2>2, <2>4, NoEndingStays
  <2>6. f.status \in {"failed", "cancelled"}
    BY <1>2, <1>6 DEF Stopped
  <2>7. QED
    BY <1>0, <2>5, <2>6 DEF MapTold
<1>7. QED
  BY <1>0, <1>2, <1>3, <1>4, <1>5, <1>6 DEF Legal, Done

\* Every step keeps the active map told, and its rounds until Run moves on.
LEMMA ActiveStep ==
    ASSUME Known, Known', ActiveTold, MapsTold, [Next]_vars, ~TerminateRun,
           pos <= Len(NodeOrder), ActiveNode \in StepIds, ActiveEntry.isMap
    PROVE  /\ MapTold(history', manifest'.steps[ActiveNode], ActiveNode)
           /\ UNCHANGED pos => RoundsHere'
<1>1. TypeOK /\ RoundsHere /\ MapTold(history, ActiveEntry, ActiveNode)
  BY DEF Known, ActiveTold, MapsTold, ActiveEntry
<1>2. pc \notin StepPlaces
  BY DEF Known, TypeOK, PlaceOK, JournalInv, AsPlanned, ActiveEntry
<1>3. CASE pc \in IdlePlaces
  BY <1>3, IdleTold
<1>4. CASE pc \in LatePlaces
  <2>1. CASE UNCHANGED <<pc, pos, attempt, pending, round, collected, manifest, history>>
    <3>1. MapTold(history', manifest'.steps[ActiveNode], ActiveNode)
      BY <1>1, <2>1 DEF ActiveEntry
    <3>2. QED
      BY <1>1, <2>1, <3>1, RoundsStay
  <2>2. CASE pc' \in SettledPlaces /\ manifest'.steps = manifest.steps /\ UNCHANGED <<pos, history>>
    <3>1. MapTold(history', manifest'.steps[ActiveNode], ActiveNode)
      BY <1>1, <2>2 DEF ActiveEntry
    <3>2. QED
      BY <2>2, <3>1, RoundsQuiet DEF SettledPlaces, RoundOpen, RoundPlaces
  <2>3. QED
    BY <1>1, <1>4, <2>1, <2>2, LateStep, InvokeTold, MapSettleTold, RoundTold, DoneTold, CollectTold,
       WrittenTold
<1>5. QED
  BY <1>1, <1>2, <1>3, <1>4, PlacesSplit

\* One step preserves what is told of every map,
LEMMA MapsToldStep ==
    ASSUME Known, Known', ActiveTold, MapsTold, [Next]_vars
    PROVE  MapsTold'
<1>1. SUFFICES ASSUME NEW s \in StepIds, manifest'.steps[s].isMap
               PROVE  MapTold(history', manifest'.steps[s], s)
  BY DEF MapsTold
<1>2. manifest.steps[s].isMap
  BY <1>1 DEF Known, JournalInv, AsPlanned
<1>3. CASE TerminateRun
  BY <1>2, <1>3, TerminateTold
<1>4. CASE ~TerminateRun /\ pos <= Len(NodeOrder) /\ s = ActiveNode
  BY <1>2, <1>4, ActiveStep DEF ActiveEntry
<1>5. CASE ~TerminateRun /\ ~(pos <= Len(NodeOrder) /\ s = ActiveNode)
  <2>1. manifest'.steps[s] = manifest.steps[s] /\ MapTold(history, manifest.steps[s], s)
    BY <1>2, <1>5, OtherSteps DEF Known, MapsTold
  <2>2. history \subseteq history'
    BY HistoryGrows DEF Known
  <2>3. \A h \in history' : h[1] = s => h \in history
    <3>1. CASE InvokeStep
      <4>1. pos <= Len(NodeOrder)
        BY <3>1 DEF InvokeStep, Known, TypeOK, PlaceOK, StepPlaces
      <4>2. QED
        BY <1>5, <3>1, <4>1, InvokeStepIs DEF Known
    <3>2. CASE MapInvoke
      <4>1. pos <= Len(NodeOrder)
        BY <3>2 DEF MapInvoke, Known, TypeOK, PlaceOK, MapPlaces
      <4>2. QED
        BY <1>5, <3>2, <4>1, MapInvokeIs DEF Known
    <3>3. QED
      BY <3>1, <3>2, HistoryStep
  <2>4. QED
    BY <2>1, <2>2, <2>3, MapToldStays
<1>6. QED
  BY <1>3, <1>4, <1>5

\* of the rounds of the active one,
LEMMA ActiveToldStep ==
    ASSUME Known, Known', ActiveTold, MapsTold, [Next]_vars
    PROVE  ActiveTold'
<1>1. SUFFICES ASSUME (pos <= Len(NodeOrder))', ActiveNode' \in StepIds, ActiveEntry'.isMap PROVE RoundsHere'
  BY DEF ActiveTold
<1>2. CASE TerminateRun
  BY <1>2, RoundsQuiet DEF TerminateRun, Goto, RoundOpen, RoundPlaces
<1>3. CASE pos' # pos
  <2>1. pc' = "node"
    BY <1>3, ProgressStep DEF Known
  <2>2. QED
    BY <2>1, RoundsQuiet DEF RoundOpen, RoundPlaces
<1>4. CASE ~TerminateRun /\ UNCHANGED pos
  <2>1. ActiveNode' = ActiveNode
    BY <1>4 DEF ActiveNode
  <2>2. ActiveEntry.isMap
    BY <1>1, <2>1 DEF Known, JournalInv, AsPlanned, ActiveEntry
  <2>3. pos <= Len(NodeOrder)
    BY <1>1, <1>4
  <2>4. QED
    BY <1>1, <1>4, <2>1, <2>2, <2>3, ActiveStep
<1>5. QED
  BY <1>2, <1>3, <1>4

\* A step gets a new attempt only when it starts and after the wait for a retry.
LEMMA NewAttempts ==
    ASSUME Known, Known', [Next]_vars, NEW s \in StepIds, Node[s].kind = "step",
           NEW a \in DOMAIN manifest'.steps[s].attempts, a \notin DOMAIN manifest.steps[s].attempts
    PROVE  \/ a = 1
           \/ pc = "retryWait" /\ s = ActiveNode /\ a = attempt + 1
<1> DEFINE e == manifest.steps[s]
           f == manifest'.steps[s]
<1>0. TypeOK /\ TypeOK' /\ Control /\ JournalInv /\ manifest \in Manifests /\ e \in Entries
  BY StepEntry DEF Known, TypeOK, JournalsOK
<1>1. SUFFICES ASSUME ~(DOMAIN f.attempts \subseteq DOMAIN e.attempts)
               PROVE  a = 1 \/ (pc = "retryWait" /\ s = ActiveNode /\ a = attempt + 1)
  OBVIOUS
<1>2. CASE TerminateRun
  <2>1. PICK g : g = TerminateEntry(e, TerminalStatus)
    OBVIOUS
  <2>2. f.attempts = g.attempts /\ TerminalStatus \in {"failed", "cancelled"}
    BY <1>0, <1>2, <2>1, TerminateRunIs
  <2>3. Legal(e)
    BY <1>0, AllLegal
  <2>4. SameLog(e, g)
    <3>1. CASE Fresh(e) \/ NotStarted(e) \/ Closed(e) \/ Unfinished(e)
      BY <1>0, <2>1, <2>2, <3>1, LogEnds
    <3>2. CASE Inactive(e)
      <4>1. g = e
        BY <1>0, <2>1, <2>2, <3>2, TerminateEntryIs DEF Inactive
      <4>2. QED
        BY <4>1, LogSelf
    <3>3. QED
      BY <2>3, <3>1, <3>2 DEF Legal, Blank, Done, Running, Stopped
  <2>5. QED
    BY <1>1, <2>2, <2>4 DEF SameLog
<1>3. CASE ~TerminateRun /\ ~(pos <= Len(NodeOrder) /\ s = ActiveNode)
  BY <1>0, <1>1, <1>3, OtherSteps
<1>4. CASE ~TerminateRun /\ pos <= Len(NodeOrder) /\ s = ActiveNode
  <2>1. ShapeHere /\ pc \notin MapPlaces
    BY <1>0, <1>4 DEF JournalInv, Shape, TypeOK, PlaceOK
  <2>2. ~(MapInput \/ Expand \/ ItemInputs \/ MapInvoke \/ MapSettle \/ RoundWait \/ MapDone \/ Collect)
    BY <2>1 DEF MapInput, Expand, ItemInputs, MapInvoke, MapSettle, RoundWait, MapDone, Collect, MapPlaces
  <2>3. f.attempts # e.attempts
    BY <1>1
  <2>4. CASE Result \/ ExitHook \/ UNCHANGED manifest
    BY <1>0, <2>3, <2>4, ResultIs, ExitHookIs
  <2>5. CASE SkipNode
    <3>1. manifest' = MarkStepSkipped(manifest, s)
      BY <1>4, <2>5 DEF SkipNode, AtNode, StepIds
    <3>2. QED
      BY <1>0, <2>3, <3>1, MarkSkippedIs
  <2>6. CASE DecideNode
    BY <1>4, <2>6 DEF DecideNode, Active, StepIds
  <2>7. CASE StepInput
    <3>1. e.attempts = Trail(0, "failed")
      BY <1>4, <2>1, <2>7, NoTrail DEF StepInput, ShapeHere, BlankShape, BlankPlaces, Blank, Fresh, ActiveEntry
    <3>2. manifest' = MarkAttemptRunning(manifest, s, 1)
      BY <1>4, <2>3, <2>7 DEF StepInput
    <3>3. f.attempts = Trail(1, "running")
      BY <1>0, <3>1, <3>2, MarkRunningIs, EntryRunningIs
    <3>4. QED
      BY <3>3, TrailStatus, StatusNames
  <2>8. CASE RetryWait
    <3>1. PICK next \in Nat : next = attempt + 1
      BY DEF Known, TypeOK, RoundOK
    <3>2. manifest' = MarkAttemptRunning(manifest, s, next) /\ pc = "retryWait"
      BY <1>4, <2>3, <2>8, <3>1 DEF RetryWait
    <3>3. e.attempts = Trail(attempt, "failed") /\ attempt \in Nat
      BY <1>4, <2>1, <2>8 DEF RetryWait, ShapeHere, StepShape, Waiting, ActiveEntry, Known, TypeOK, RoundOK
    <3>4. f.attempts = Trail(next, "running")
      BY <1>0, <3>1, <3>2, <3>3, MarkRunningIs, EntryRunningIs
    <3>5. a \in 1..next /\ a \notin 1..attempt
      BY <3>1, <3>3, <3>4, TrailStatus, StatusNames
    <3>6. QED
      BY <1>4, <3>1, <3>2, <3>3, <3>5
  <2>9. CASE Settle
    <3>1. \/ manifest' = MarkAttemptSucceeded(manifest, s)
          \/ manifest' = MarkAttemptTerminal(manifest, s, "failed")
      BY <1>4, <2>9 DEF Settle
    <3>2. Open(e, attempt) /\ attempt \in Nat \ {0}
      BY <1>4, <2>1, <2>9 DEF Settle, ShapeHere, StepShape, ActiveEntry, Known, TypeOK, RoundOK
    <3>3. f.attempts = Trail(attempt, "succeeded") \/ f.attempts = Trail(attempt, "failed")
      BY <1>0, <3>1, <3>2, MarkSucceededIs, MarkTerminalIs, OpenSucceeds, OpenEnds
    <3>4. QED
      BY <1>1, <3>2, <3>3, StatusNames, TrailStatus DEF Open
  <2>10. CASE InvokeStep
    <3>1. Open(e, attempt) /\ attempt \in Nat \ {0}
      BY <1>4, <2>1, <2>10 DEF InvokeStep, ShapeHere, StepShape, ActiveEntry, Known, TypeOK, RoundOK
    <3>2. \/ manifest' = MarkUndispatched(manifest, s)
          \/ manifest' = MarkAttemptRetrying(manifest, s)
          \/ \E status \in {"failed", "cancelled"} : manifest' = MarkAttemptTerminal(manifest, s, status)
      BY <1>0, <1>4, <2>3, <2>10, InvokeStepIs DEF RecordedStatus
    <3>3. CASE manifest' = MarkUndispatched(manifest, s)
      <4>1. f = DropUndispatched(e)
        BY <1>0, <3>3, DropIs
      <4>2. f.attempts = Trail(attempt - 1, "failed")
        BY <1>0, <3>1, <4>1, DropUndispatchedIs DEF Open
      <4>3. attempt - 1 \in Nat /\ DOMAIN f.attempts = 1..(attempt - 1)
        BY <3>1, <4>2, TrailStatus, StatusNames
      <4>4. DOMAIN e.attempts = 1..attempt
        BY <3>1, TrailStatus, StatusNames DEF Open
      <4>5. QED
        BY <1>1, <3>1, <4>3, <4>4
    <3>4. CASE manifest' # MarkUndispatched(manifest, s)
      <4>1. \E last \in {"failed", "cancelled"} : f.attempts = Trail(attempt, last)
        BY <1>0, <3>1, <3>2, <3>4, MarkRetryingIs, MarkTerminalIs, OpenRetries, OpenEnds DEF Waiting
      <4>2. QED
        BY <1>1, <3>1, <4>1, StatusNames, TrailStatus DEF Open
    <3>5. QED
      BY <3>3, <3>4
  <2>11. QED
    BY <1>4, <2>1, <2>2, <2>4, <2>5, <2>6, <2>7, <2>8, <2>9, <2>10, ManifestChanges
<1>5. QED
  BY <1>2, <1>3, <1>4

\* and of every step.
LEMMA StepsToldStep ==
    ASSUME Known, Known', StepsTold, [Next]_vars
    PROVE  StepsTold'
<1>1. SUFFICES ASSUME NEW s \in StepIds, ~manifest'.steps[s].isMap,
                      NEW a \in DOMAIN manifest'.steps[s].attempts
               PROVE  /\ a <= Node[s].maxAttempts
                      /\ a > 1 => \E o \in OutcomeKinds :
                            RetryableOutcome(o) /\ <<s, 0, a - 1, o>> \in history'
  BY DEF StepsTold
<1>2. ~manifest.steps[s].isMap /\ Node[s].kind = "step" /\ Node[s].maxAttempts \in Nat \ {0}
  BY <1>1, PlanAssumption DEF Known, JournalInv, AsPlanned, StepIds
<1>3. history \subseteq history'
  BY HistoryGrows DEF Known
<1>4. CASE a \in DOMAIN manifest.steps[s].attempts
  BY <1>2, <1>3, <1>4 DEF StepsTold
<1>5. CASE a \notin DOMAIN manifest.steps[s].attempts
  <2>1. a = 1 \/ (pc = "retryWait" /\ s = ActiveNode /\ a = attempt + 1)
    BY <1>2, <1>5, NewAttempts
  <2>2. CASE a = 1
    BY <1>2, <2>2
  <2>3. CASE pc = "retryWait" /\ s = ActiveNode /\ a = attempt + 1
    <3>1. MaySpend(s, 0, a)
      BY <2>3 DEF Known, SpendInv, StepMaySpend
    <3>2. QED
      BY <1>2, <1>3, <3>1 DEF MaySpend
  <2>4. QED
    BY <2>1, <2>2, <2>3
<1>6. QED
  BY <1>4, <1>5

\* A new journal has no reports.
LEMMA TellsInit == ASSUME Init PROVE TellsRounds
<1>1. history = {} /\ pc = "claim"
  BY DEF Init
<1>2. ASSUME NEW s \in StepIds
      PROVE  manifest.steps[s].status = "pending" /\ manifest.steps[s].attempts = <<>>
  BY DEF Init, NewManifest, NewStep
<1>3. ActiveTold
  BY <1>1 DEF ActiveTold, RoundsHere, EarlierFine, RestFinal, CollectedRest, InfraReported, RoundsEnded,
     RoundOpen, RoundPlaces
<1>4. MapsTold
  BY <1>2 DEF MapsTold, MapTold
<1>5. StepsTold
  BY <1>2 DEF StepsTold
<1>6. QED
  BY <1>3, <1>4, <1>5 DEF TellsRounds

\* Everything shown above holds together.
LEMMA KnownInvariant == Spec => []Known
<1>1. TypeOK /\ Control /\ JournalInv /\ EntriesLegal /\ Dispatched /\ Cause /\ SpendInv /\ HistoryInv => Known
  BY DEF Known
<1>2. QED
  BY <1>1, TypeCorrect, ControlInvariant, JournalInvariant, LegalInvariant, DispatchedInvariant,
     CauseInvariant, SpendInvariant, HistoryInvariant, PTL

(***************************************************************************)
(* What Run's retry loop and runMapNode's rounds tell while they go on:    *)
(* reports of earlier rounds could all be retried, were verified or are    *)
(* kept, items outside the round are final, and a map that ended failed    *)
(* either has no ending report, met a lost process, or ended with the last *)
(* round of its items.                                                     *)
(***************************************************************************)
THEOREM TellsInvariant == Spec => []TellsRounds
<1>1. Init => TellsRounds
  BY TellsInit
<1>2. Known /\ Known' /\ TellsRounds /\ [Next]_vars => TellsRounds'
  BY ActiveToldStep, MapsToldStep, StepsToldStep DEF TellsRounds
<1>3. QED
  BY <1>1, <1>2, KnownInvariant, PTL DEF Spec

-----------------------------------------------------------------------------
\* The settled journal plays the script its reports make.

\* The script of a step is what its reports say.
LEMMA ScriptIs ==
    ASSUME Known, NEW s \in StepIds, NEW count \in Nat, NEW i \in 0..count, NEW a, NEW o \in OutcomeKinds,
           <<s, i, a, o>> \in history
    PROVE  a \in 1..Node[s].maxAttempts /\ Script(s, count)[<<i, a>>] = FaultOf(s, i, a, o)
<1>1. PICK h \in history : h = <<s, i, a, o>>
  OBVIOUS
<1>2. a \in 1..Node[s].maxAttempts
  BY <1>1, ReportIs
<1> DEFINE reported == {p \in OutcomeKinds : <<s, i, a, p>> \in history}
<1>3. ASSUME NEW p \in reported PROVE p = o
  <2>1. PICK g \in history : g = <<s, i, a, p>>
    BY <1>3
  <2>2. g = h
    BY <1>1, <2>1, OneReport
  <2>3. QED
    BY <1>1, <2>1, <2>2
<1>4. reported # {} /\ (CHOOSE p \in reported : TRUE) = o
  BY <1>3
<1>5. <<i, a>> \in (0..count) \X (1..Node[s].maxAttempts) /\ <<i, a>>[1] = i /\ <<i, a>>[2] = a
  BY <1>2
<1>6. QED
  BY <1>2, <1>4, <1>5 DEF Script

\* The fault of a scripted outcome.
LEMMA FaultIs ==
    ASSUME NEW s, NEW i, NEW a, NEW o \in Scripted, NEW status,
           status = EntryOf(manifest, s, i).attempts[a].status, status \in RecordedAs(o)
    PROVE  LET f == FaultOf(s, i, a, o) IN
           /\ f # "FailFatal"
           /\ FaultRetryable(f) <=> RetryableOutcome(o)
           /\ f = "Succeed" <=> status = "succeeded"
           /\ f = "Succeed" => o = "succeeded"
           /\ CollectedFailure(f) <=> MapItemFailure(o)
<1>1. o \in {"schema", "step", "nonretryable", "timeout", "signal", "succeeded"}
  BY DEF Scripted, Outcomes, FailedOutcomes, DiagnosticExits, ErrorOutcomes
<1>2. CASE o = "succeeded"
  <2>1. status \in {"succeeded", "failed"}
    BY <1>2 DEF RecordedAs
  <2>2. FaultOf(s, i, a, o) = IF status = "failed" THEN "MissingOutput" ELSE "Succeed"
    BY <1>2 DEF FaultOf
  <2>3. QED
    BY <1>2, <2>1, <2>2 DEF FaultRetryable, RetryableOutcome, CollectedFailure, MapItemFailure, Faults,
       FailedOutcomes, DiagnosticExits
<1>3. CASE o # "succeeded"
  <2>1. status = "failed"
    BY <1>1, <1>3 DEF RecordedAs
  <2>2. FaultOf(s, i, a, o) =
          IF o = "signal" THEN "Crash" ELSE IF o = "timeout" THEN "Timeout"
          ELSE IF o = "nonretryable" THEN "FailNonRetryable" ELSE IF o = "schema" THEN "FailSchema"
          ELSE "FailRetryable"
    BY <1>1, <1>3 DEF FaultOf
  <2>3. QED
    BY <1>1, <1>3, <2>1, <2>2 DEF FaultRetryable, RetryableOutcome, CollectedFailure, MapItemFailure, Faults,
       FailedOutcomes, DiagnosticExits
<1>4. QED
  BY <1>2, <1>3

\* In a settled journal every report has its attempt, recorded as its outcome asks.
LEMMA SettledReport ==
    ASSUME Known, Settled, NEW h \in history
    PROVE  /\ EntryOf(manifest, h[1], h[2]).attempts[h[3]].status \in RecordedAs(h[4])
           /\ h[3] \in DOMAIN EntryOf(manifest, h[1], h[2]).attempts
           /\ h[2] = 0 <=> ~manifest.steps[h[1]].isMap
<1>1. Logged(h) /\ ~Unsettled(h)
  BY DEF Known, HistoryInv, ReportsLogged, Unsettled, Settled
<1>2. h[1] \in StepIds /\ manifest.steps[h[1]].isMap = (Node[h[1]].kind = "map")
  BY ReportIs DEF Known, JournalInv, AsPlanned
<1>3. Node[h[1]].kind \in {"step", "map"}
  BY <1>2 DEF StepIds
<1>4. QED
  BY <1>1, <1>2, <1>3 DEF Logged

\* A settled step is the interpreter's prediction for it.
LEMMA StepPlays ==
    ASSUME Known, StepsTold, Settled, NEW s \in StepIds, ~manifest.steps[s].isMap, Predictable(s)
    PROVE  LET step == manifest.steps[s] IN
           [attempts |-> Len(step.attempts), status |-> step.status] =
                PredictAttempts(Script(s, 0), Node[s].maxAttempts)
<1> DEFINE step == manifest.steps[s]
           script == Script(s, 0)
           max == Node[s].maxAttempts
           Stops(a) == ~FaultRetryable(script[<<0, a>>]) \/ a = max
           First(a) == Stops(a) /\ \A b \in 1..(a - 1) : ~Stops(b)
           last == CHOOSE a \in 1..max : First(a)
<1>1. max \in Nat \ {0}
  BY PlanAssumption, PlanFacts
<1>2. step.status \in {"succeeded", "failed"} /\ \A h \in history : h[1] = s => h[4] \in Scripted
  BY DEF Predictable
<1>3. Closed(step)
  BY <1>2 DEF Known, EntriesLegal, Legal, Blank, Fresh, Inactive, Done, Running, Unfinished, Open, Waiting,
     Stopped
<1>4. PICK k \in Nat \ {0} : step.attempts = Trail(k, step.status)
  BY <1>2, <1>3 DEF Closed
<1>5. Len(step.attempts) = k /\ DOMAIN step.attempts = 1..k /\ step.attempts[k].status = step.status
  BY <1>2, <1>4, TrailSeq, TrailStatus, StatusNames
<1>6. k \in 1..max
  <2>1. k <= max
    BY <1>5 DEF StepsTold
  <2>2. QED
    BY <1>1, <2>1
<1>7. ASSUME NEW h \in history, h[1] = s
      PROVE  /\ h[2] = 0 /\ h[3] \in 1..k
             /\ script[<<0, h[3]>>] = FaultOf(s, 0, h[3], h[4])
             /\ FaultRetryable(script[<<0, h[3]>>]) <=> RetryableOutcome(h[4])
             /\ script[<<0, h[3]>>] = "Succeed" <=> step.attempts[h[3]].status = "succeeded"
  <2>1. /\ h = <<s, 0, h[3], h[4]>> /\ h[4] \in OutcomeKinds /\ h[4] \in Scripted
        /\ h[3] \in DOMAIN step.attempts
        /\ step.attempts[h[3]].status \in RecordedAs(h[4])
    BY <1>2, <1>7, ReportIs, SettledReport DEF EntryOf
  <2>2. script[<<0, h[3]>>] = FaultOf(s, 0, h[3], h[4])
    <3>1. 0 \in Nat /\ 0 \in 0..0 /\ <<s, 0, h[3], h[4]>> \in history
      BY <2>1
    <3>2. QED
      BY <2>1, <3>1, ScriptIs
  <2> HIDE DEF script
  <2>3. step.attempts[h[3]].status = EntryOf(manifest, s, 0).attempts[h[3]].status
    BY DEF EntryOf
  <2>4. QED
    BY <1>5, <2>1, <2>2, <2>3, FaultIs
<1> HIDE DEF script
<1>8. ASSUME NEW b \in 1..(k - 1)
      PROVE  /\ ~Stops(b)
             /\ \A h \in history : h[1] = s /\ h[3] = b => RetryableOutcome(h[4]) /\ b < max
  <2>1. b + 1 \in 1..k /\ b + 1 > 1 /\ (b + 1) - 1 = b /\ b < max
    BY <1>1, <1>6
  <2>2. PICK o \in OutcomeKinds : RetryableOutcome(o) /\ <<s, 0, b, o>> \in history
    BY <1>5, <2>1 DEF StepsTold
  <2>3. PICK g \in history : g = <<s, 0, b, o>>
    BY <2>2
  <2>4. FaultRetryable(script[<<0, b>>])
    BY <1>7, <2>2, <2>3
  <2>5. ASSUME NEW h \in history, h[1] = s, h[3] = b PROVE RetryableOutcome(h[4])
    BY <1>7, <2>2, <2>3, <2>5, OneReport
  <2>6. QED
    BY <1>1, <2>1, <2>4, <2>5
<1>9. Stops(k) /\ (script[<<0, k>>] = "Succeed" <=> step.status = "succeeded")
  <2>1. CASE step.status = "succeeded"
    <3>0. k \in DOMAIN step.attempts /\ step.attempts[k].status = "succeeded"
      BY <1>5, <2>1
    <3>1. PICK h \in history : h = <<s, 0, k, "succeeded">>
      BY <3>0 DEF Known, HistoryInv, SuccessReported
    <3>2. script[<<0, k>>] = "Succeed"
      BY <1>5, <1>7, <2>1, <3>1
    <3>3. QED
      BY <2>1, <3>2, SuccessIsFinal
  <2>2. CASE step.status = "failed"
    <3>1. PICK h \in history :
            /\ h[1] = s /\ FaultOf(h[1], h[2], h[3], h[4]) # "Succeed"
            /\ ~FaultRetryable(FaultOf(h[1], h[2], h[3], h[4])) \/ h[3] = max
      BY <2>2 DEF Predictable
    <3>2. /\ h[2] = 0 /\ h[3] \in 1..k /\ script[<<0, h[3]>>] = FaultOf(h[1], h[2], h[3], h[4])
          /\ FaultRetryable(script[<<0, h[3]>>]) <=> RetryableOutcome(h[4])
      BY <1>7, <3>1
    <3>3. h[3] \notin 1..(k - 1)
      BY <1>1, <1>8, <3>1, <3>2
    <3>4. h[3] = k
      BY <3>2, <3>3
    <3>5. QED
      BY <2>2, <3>1, <3>2, <3>4
  <2>3. QED
    BY <1>2, <2>1, <2>2
<1>10. First(k)
  BY <1>8, <1>9
<1>11. ASSUME NEW a \in 1..max, First(a) PROVE a = k
  <2>1. CASE a < k
    BY <1>8, <1>11, <2>1
  <2>2. CASE k < a
    BY <1>6, <1>9, <1>11, <2>2
  <2>3. QED
    BY <1>6, <2>1, <2>2
<1> HIDE DEF First
<1>12. last = k
  BY <1>6, <1>10, <1>11
<1>13. PredictAttempts(script, max) =
         [attempts |-> last, status |-> IF script[<<0, last>>] = "Succeed" THEN "succeeded" ELSE "failed"]
  BY DEF PredictAttempts, First
<1>14. QED
  BY <1>2, <1>5, <1>9, <1>12, <1>13 DEF script

\* Attempt a of item i of a settled map as the history and the script tell it.
ItemTold(s, count, i, a, item, h) ==
    LET f == Script(s, count)[<<i, a>>] IN
    /\ h[1] = s /\ h[2] = i /\ h[3] = a /\ a \in 1..Node[s].maxAttempts
    /\ f # "FailFatal"
    /\ FaultRetryable(f) <=> RetryableOutcome(h[4])
    /\ f = "Succeed" <=> item.attempts[a].status = "succeeded"
    /\ CollectedFailure(f) <=> MapItemFailure(h[4])
    /\ a + 1 \in DOMAIN item.attempts => RetryableOutcome(h[4])

\* What the script has for each attempt of a settled map's item.
LEMMA ItemScript ==
    ASSUME Known, Settled, NEW s \in StepIds, manifest.steps[s].isMap,
           \A h \in history : h[1] = s => h[4] \in Scripted,
           NEW count, count = Len(manifest.steps[s].items), NEW i \in 1..count,
           NEW item, item = manifest.steps[s].items[i], NEW a \in DOMAIN item.attempts
    PROVE  \E h \in history : ItemTold(s, count, i, a, item, h)
<1> DEFINE items == manifest.steps[s].items
           f == Script(s, count)[<<i, a>>]
<1>1. items \in Seq(ItemRecs)
  BY StepEntry DEF Known, TypeOK, JournalsOK
<1>2. count \in Nat /\ i \in DOMAIN items /\ i \in 0..count /\ i # 0
  BY <1>1, LenProperties
<1>3. PICK o \in OutcomeKinds : <<s, i, a, o>> \in history
  BY <1>2 DEF Known, HistoryInv, ItemsReported
<1>4. PICK h \in history : h = <<s, i, a, o>>
  BY <1>3
<1>5. f = FaultOf(s, i, a, o) /\ a \in 1..Node[s].maxAttempts
  BY <1>2, <1>3, ScriptIs, SMTT(60)
<1>6. /\ items[i].attempts[a].status \in RecordedAs(o) /\ o \in Scripted
      /\ items[i].attempts[a].status = EntryOf(manifest, s, i).attempts[a].status
  BY <1>2, <1>4, SettledReport DEF EntryOf
<1> HIDE DEF f
<1>7. /\ f # "FailFatal"
      /\ FaultRetryable(f) <=> RetryableOutcome(o)
      /\ f = "Succeed" <=> items[i].attempts[a].status = "succeeded"
      /\ CollectedFailure(f) <=> MapItemFailure(o)
  BY <1>5, <1>6, FaultIs
<1>8. ASSUME a + 1 \in DOMAIN items[i].attempts PROVE RetryableOutcome(o)
  <2>1. PICK p \in OutcomeKinds : <<s, i, a + 1, p>> \in history
    BY <1>2, <1>8 DEF Known, HistoryInv, ItemsReported
  <2>2. PICK g \in history : g = <<s, i, a + 1, p>>
    BY <2>1
  <2>3. QED
    BY <1>4, <2>2, RetriedReport
<1>9. h[1] = s /\ h[2] = i /\ h[3] = a /\ h[4] = o
  BY <1>4, SMTT(60)
<1>10. QED
  BY <1>5, <1>7, <1>8, <1>9 DEF f, ItemTold

\* A report that ends its map, as the script has it, is none that lets it go on.
LEMMA EndingReport ==
    ASSUME Known, Settled, NEW h \in history, h[4] \in Scripted, manifest.steps[h[1]].isMap,
           FaultOf(h[1], h[2], h[3], h[4]) # "Succeed",
           \/ ~FaultRetryable(FaultOf(h[1], h[2], h[3], h[4])) \/ h[3] = Node[h[1]].maxAttempts,
           ~(Node[h[1]].collect /\ CollectedFailure(FaultOf(h[1], h[2], h[3], h[4])))
    PROVE  ~Fine(manifest.steps[h[1]], h[1], h)
<1> DEFINE f == FaultOf(h[1], h[2], h[3], h[4])
           status == EntryOf(manifest, h[1], h[2]).attempts[h[3]].status
<1>1. h[1] \in StepIds /\ h[3] \in Nat /\ Node[h[1]].maxAttempts \in Nat
  BY ReportIs
<1>2. status \in RecordedAs(h[4]) /\ h[2] # 0
  BY SettledReport
<1>3. /\ FaultRetryable(f) <=> RetryableOutcome(h[4])
      /\ f = "Succeed" <=> status = "succeeded"
      /\ CollectedFailure(f) <=> MapItemFailure(h[4])
  BY <1>2, FaultIs
<1>4. manifest.steps[h[1]].collect = Node[h[1]].collect
  BY <1>1 DEF Known, JournalInv, AsPlanned
<1>5. status = manifest.steps[h[1]].items[h[2]].attempts[h[3]].status
  BY <1>2, SMTT(60) DEF EntryOf
<1> HIDE DEF f, status
<1>6. /\ ~(RetryableOutcome(h[4]) /\ h[3] < Node[h[1]].maxAttempts)
      /\ manifest.steps[h[1]].items[h[2]].attempts[h[3]].status # "succeeded"
      /\ ~(manifest.steps[h[1]].collect /\ MapItemFailure(h[4]))
  BY <1>1, <1>3, <1>4, <1>5, SMTT(60) DEF f
<1>7. QED
  BY <1>6 DEF Fine

\* Item i ended with attempt k, the way its script has it.
ItemPlayed(s, count, i, item, k) ==
    LET f == Script(s, count)
        max == Node[s].maxAttempts
        step == manifest.steps[s]
    IN  /\ k \in 1..max /\ DOMAIN item.attempts = 1..k
        /\ item.status = IF f[<<i, k>>] = "Succeed" THEN "succeeded" ELSE "failed"
        /\ \A a \in 1..k : f[<<i, a>>] # "FailFatal"
        /\ \A a \in 1..(k - 1) : FaultRetryable(f[<<i, a>>])
        /\ Final(history, step, s, i) =>
            /\ FaultRetryable(f[<<i, k>>]) => k = max
            /\ f[<<i, k>>] = "Succeed" \/ Collectable(step.collect, f[<<i, k>>])

\* An item of a settled map follows its script attempt by attempt.
LEMMA ItemPlays ==
    ASSUME Known, Settled, NEW s \in StepIds, manifest.steps[s].isMap,
           \A h \in history : h[1] = s => h[4] \in Scripted,
           NEW count, count = Len(manifest.steps[s].items), NEW i \in 1..count,
           NEW item, item = manifest.steps[s].items[i],
           Closed(item), item.status # "cancelled", NEW k, k = Len(item.attempts)
    PROVE  ItemPlayed(s, count, i, item, k)
<1> DEFINE script == Script(s, count)
           max == Node[s].maxAttempts
           step == manifest.steps[s]
           Told(a, h) ==
                /\ h[1] = s /\ h[2] = i /\ h[3] = a /\ a \in 1..max
                /\ script[<<i, a>>] # "FailFatal"
                /\ FaultRetryable(script[<<i, a>>]) <=> RetryableOutcome(h[4])
                /\ script[<<i, a>>] = "Succeed" <=> item.attempts[a].status = "succeeded"
                /\ CollectedFailure(script[<<i, a>>]) <=> MapItemFailure(h[4])
                /\ a + 1 \in DOMAIN item.attempts => RetryableOutcome(h[4])
<1>1. item.status \in {"succeeded", "failed"} /\ max \in Nat \ {0}
  BY PlanAssumption, PlanFacts DEF Closed
<1>2. PICK n \in Nat \ {0} : item.attempts = Trail(n, item.status)
  BY <1>1 DEF Closed
<1>3. n = k /\ DOMAIN item.attempts = 1..n /\ item.attempts[n].status = item.status
  BY <1>1, <1>2, TrailSeq, TrailStatus, StatusNames
<1>4. ASSUME NEW a \in DOMAIN item.attempts PROVE \E h \in history : Told(a, h)
  <2>1. PICK h \in history : ItemTold(s, count, i, a, item, h)
    <3> HIDE DEF script, max, step, Told
    <3>1. QED
      BY <1>4, ItemScript
  <2>2. QED
    BY <2>1 DEF ItemTold
<1>k. k \in DOMAIN item.attempts
  BY <1>2, <1>3
<1> HIDE DEF script
<1>5. PICK h \in history : Told(k, h)
  <2> HIDE DEF Told
  <2>1. QED
    BY <1>k, <1>4
<1>6. k \in 1..max
  BY <1>5
<1>7. item.status = IF script[<<i, k>>] = "Succeed" THEN "succeeded" ELSE "failed"
  BY <1>1, <1>3, <1>5, SMTT(60)
<1>8. \A a \in 1..k : script[<<i, a>>] # "FailFatal"
  BY <1>3, <1>4, ZenonT(60)
<1>9. ASSUME NEW a \in 1..(k - 1) PROVE FaultRetryable(script[<<i, a>>])
  <2>1. a \in DOMAIN item.attempts /\ a + 1 \in DOMAIN item.attempts
    BY <1>2, <1>3, <1>9
  <2>2. QED
    BY <1>4, <2>1
<1>10. ASSUME Final(history, step, s, i)
       PROVE  /\ FaultRetryable(script[<<i, k>>]) => k = max
              /\ \/ script[<<i, k>>] = "Succeed"
                 \/ Collectable(step.collect, script[<<i, k>>])
  <2>1. CASE item.status = "succeeded"
    <3>1. script[<<i, k>>] = "Succeed"
      BY <1>7, <2>1, SMTT(60)
    <3>2. QED
      BY <3>1, SuccessIsFinal
  <2>2. CASE item.status # "succeeded"
    <3>1. PICK o \in OutcomeKinds : /\ step.collect /\ <<s, i, k, o>> \in history /\ MapItemFailure(o)
                                    /\ RetryableOutcome(o) => k = max
      BY <1>10, <2>2 DEF Final
    <3>2. PICK g \in history : g = <<s, i, k, o>>
      BY <3>1
    <3>3. g = h
      BY <1>5, <3>2, OneReport
    <3>4. h[4] = o
      BY <3>2, <3>3
    <3>5. QED
      BY <1>5, <3>1, <3>4 DEF Collectable
  <2>3. QED
    BY <2>1, <2>2
<1>11. QED
  BY <1>3, <1>6, <1>7, <1>8, <1>9, <1>10 DEF script, ItemPlayed

\* A settled map is the interpreter's prediction for it.
LEMMA MapPlays ==
    ASSUME Known, MapsTold, Settled, NEW s \in StepIds, manifest.steps[s].isMap, Predictable(s)
    PROVE  LET step == manifest.steps[s]
               count == Len(step.items)
           IN  [status |-> step.status,
                items |-> [i \in 1..count |-> [attempts |-> Len(step.items[i].attempts),
                                               status |-> step.items[i].status]]] =
                  PredictMap(Script(s, count), count, Node[s].maxAttempts, step.collect)
<1> DEFINE step == manifest.steps[s]
           items == step.items
           count == Len(items)
           script == Script(s, count)
           max == Node[s].maxAttempts
           K == [i \in 1..count |-> Len(items[i].attempts)]
           st == [i \in 1..count |-> items[i].status]
           Item(i) ==
               /\ K[i] \in 1..max
               /\ st[i] = IF script[<<i, K[i]>>] = "Succeed" THEN "succeeded" ELSE "failed"
               /\ \A a \in 1..K[i] : script[<<i, a>>] # "FailFatal"
               /\ \A a \in 1..(K[i] - 1) : FaultRetryable(script[<<i, a>>])
               /\ Final(history, step, s, i) =>
                    /\ FaultRetryable(script[<<i, K[i]>>]) => K[i] = max
                    /\ \/ script[<<i, K[i]>>] = "Succeed"
                       \/ Collectable(step.collect, script[<<i, K[i]>>])
<1>1. /\ count \in Nat /\ DOMAIN items = 1..count /\ max \in Nat \ {0}
      /\ step.status \in {"succeeded", "failed"} /\ MapTold(history, step, s)
      /\ \A h \in history : h[1] = s => h[4] \in Scripted
      /\ step.collect = Node[s].collect
  <2>1. items \in Seq(ItemRecs)
    BY StepEntry DEF Known, TypeOK, JournalsOK
  <2>2. QED
    BY <2>1, LenProperties, PlanAssumption, PlanFacts DEF Predictable, MapsTold, Known, JournalInv, AsPlanned
<1>2. ASSUME NEW i \in 1..count, Closed(items[i]), items[i].status # "cancelled" PROVE Item(i)
  <2>1. PICK k : k = Len(items[i].attempts)
    OBVIOUS
  <2>2. PICK item : item = manifest.steps[s].items[i]
    OBVIOUS
  <2>3. Closed(item) /\ item.status # "cancelled" /\ k = Len(item.attempts)
    BY <1>2, <2>1, <2>2
  <2>4. ItemPlayed(s, count, i, item, k)
    <3> HIDE DEF script, max, K, st, Item, step
    <3>1. \A h \in history : h[1] = s => h[4] \in Scripted
      BY <1>1
    <3>2. count = Len(manifest.steps[s].items)
      BY DEF step
    <3> HIDE DEF count, items
    <3>3. QED
      BY <2>2, <2>3, <3>1, <3>2, ItemPlays
  <2>5. K[i] = k /\ st[i] = item.status
    BY <2>1, <2>2, SMTT(60)
  <2> HIDE DEF K, st, count
  <2>6. QED
    BY <2>4, <2>5 DEF ItemPlayed
<1>3. ASSUME NEW r, NEW failed, Plays(script, count, max, step.collect, K, st, r, failed),
             step.status = IF failed THEN "failed" ELSE "succeeded"
      PROVE  [status |-> step.status,
              items |-> [i \in 1..count |-> [attempts |-> Len(items[i].attempts), status |-> items[i].status]]] =
             PredictMap(script, count, max, step.collect)
  <2>1. PredictMap(script, count, max, step.collect) = PlayedOut(count, K, st, failed)
    <3> HIDE DEF script, K, st, count, max, step
    <3>1. QED
      BY <1>3, PredictionIs
  <2>2. [i \in 1..count |-> [attempts |-> K[i], status |-> st[i]]] =
        [i \in 1..count |-> [attempts |-> Len(items[i].attempts), status |-> items[i].status]]
    OBVIOUS
  <2>3. QED
    BY <1>3, <2>1, <2>2 DEF PlayedOut
<1>4. CASE step.status = "succeeded"
  <2>1. Done(step)
    BY <1>4 DEF Known, EntriesLegal, Legal, Blank, Fresh, Inactive, Running, Unfinished, Open, Waiting, Stopped
  <2>2. ASSUME NEW i \in 1..count PROVE Item(i) /\ Final(history, step, s, i)
    <3>1. Closed(items[i]) /\ items[i].status # "cancelled"
      BY <1>1, <1>4, <2>1 DEF Done, Kept
    <3>2. Final(history, step, s, i)
      BY <1>1, <1>4 DEF MapTold, AllFinal
    <3>3. QED
      BY <1>2, <3>1, <3>2
  <2> HIDE DEF script, K, st
  <2>3. Plays(script, count, max, step.collect, K, st, max, FALSE)
    BY <1>1, <2>2, SMTT(60) DEF Plays, Ends
  <2>4. QED
    BY <1>3, <1>4, <2>3 DEF script, K, st
<1>5. CASE step.status = "failed"
  <2>1. PICK h \in history :
            /\ h[1] = s /\ FaultOf(h[1], h[2], h[3], h[4]) # "Succeed"
            /\ ~FaultRetryable(FaultOf(h[1], h[2], h[3], h[4])) \/ h[3] = max
            /\ ~(Node[s].collect /\ CollectedFailure(FaultOf(h[1], h[2], h[3], h[4])))
    BY <1>5 DEF Predictable
  <2>2. ~Fine(step, s, h)
    BY <1>1, <2>1, EndingReport
  <2>3. PICK r \in Nat : EndedIn(history, step, s, r)
    BY <1>1, <1>5, <2>1, <2>2, SMTT(60) DEF MapTold, Unscripted, NoEnding
  <2>4. ASSUME NEW i \in 1..count
        PROVE  /\ Item(i) /\ Closed(items[i]) /\ K[i] <= r
               /\ K[i] < r => Final(history, step, s, i)
    <3>1. /\ Closed(items[i]) /\ items[i].status # "cancelled" /\ K[i] <= r
          /\ K[i] < r => Final(history, step, s, i)
      BY <1>1, <2>3, SMTT(60) DEF EndedIn
    <3>2. QED
      BY <1>2, <3>1
  <2> DEFINE j == h[2]
  <2>5. j \in 1..count /\ h[3] \in DOMAIN items[j].attempts
    BY <1>1, <2>1, ItemReport
  <2>6. K[j] = r
    <3>1. ~Final(history, step, s, j)
      BY <2>1, <2>2, <2>4, <2>5, FinalFine
    <3>2. K[j] \in Nat /\ K[j] <= r /\ ~(K[j] < r)
      <4> HIDE DEF Item, K, j
      <4>1. Item(j) /\ K[j] <= r /\ (K[j] < r => Final(history, step, s, j))
        BY <2>4, <2>5
      <4>2. K[j] \in 1..max
        BY <4>1 DEF Item
      <4>3. QED
        BY <1>1, <3>1, <4>1, <4>2
    <3>3. QED
      BY <2>3, <3>2, SMTT(60)
  <2>7. h[3] = r
    <3>1. DOMAIN items[j].attempts = 1..K[j]
      BY <1>1, <2>3, <2>5, SMTT(60) DEF EndedIn
    <3>2. h[3] \in 1..r /\ r \in Nat
      BY <2>5, <2>6, <3>1
    <3>3. ASSUME h[3] < r PROVE FALSE
      <4>1. h[3] + 1 \in DOMAIN items[j].attempts
        BY <2>6, <3>1, <3>2, <3>3, SMTT(60)
      <4>2. PICK o \in OutcomeKinds : <<s, j, h[3] + 1, o>> \in history
        BY <1>1, <2>5, <4>1 DEF Known, HistoryInv, ItemsReported
      <4>3. PICK g \in history : g = <<s, j, h[3] + 1, o>>
        BY <4>2
      <4>4. RetryableOutcome(h[4]) /\ h[3] < max
        BY <2>1, <4>3, RetriedReport
      <4>5. QED
        BY <2>2, <4>4 DEF Fine
    <3>4. QED
      BY <3>2, <3>3
  <2>8. script[<<j, r>>] = FaultOf(s, j, r, h[4])
    <3>1. h = <<s, j, r, h[4]>> /\ h[4] \in OutcomeKinds /\ j \in 0..count
      BY <1>1, <2>1, <2>5, <2>7, ReportIs
    <3>2. QED
      BY <1>1, <3>1, ScriptIs
  <2>9. Ends(script[<<j, r>>], r, max) /\ ~Collectable(step.collect, script[<<j, r>>])
    BY <1>1, <2>1, <2>7, <2>8 DEF Ends, Collectable
  <2>10. r \in 1..max
    BY <2>4, <2>5, <2>6
  <2> HIDE DEF script, K, st, j
  <2>11. ASSUME NEW i \in 1..count
         PROVE  /\ K[i] \in 1..r
                /\ K[i] < r => /\ ~FaultRetryable(script[<<i, K[i]>>])
                               /\ \/ script[<<i, K[i]>>] = "Succeed"
                                  \/ Collectable(step.collect, script[<<i, K[i]>>])
    BY <1>1, <2>4, <2>10
  <2>12. Plays(script, count, max, step.collect, K, st, r, TRUE)
    BY <1>1, <2>4, <2>5, <2>6, <2>9, <2>10, <2>11 DEF Plays, j
  <2>13. QED
    BY <1>3, <1>5, <2>12 DEF script, K, st
<1>6. QED
  BY <1>1, <1>4, <1>5

(***************************************************************************)
(* The settled journal of a step or a map is the one the execution         *)
(* fuzzer's interpreter (graphgen predict) computes from the outcomes of   *)
(* its attempts: Run's retry loop and runMapNode's rounds keep the retry   *)
(* and collection contract for every plan, script and interleaving.        *)
(***************************************************************************)
THEOREM PredictionCorrect == Spec => []JournalMatchesPrediction
<1>1. Known /\ TellsRounds => JournalMatchesPrediction
  <2>1. SUFFICES ASSUME Known, TellsRounds, Settled, NEW s \in StepIds, Predictable(s)
                 PROVE  LET step == manifest.steps[s] IN
                        IF ~step.isMap
                        THEN [attempts |-> Len(step.attempts), status |-> step.status] =
                                PredictAttempts(Script(s, 0), Node[s].maxAttempts)
                        ELSE LET count == Len(step.items) IN
                             [status |-> step.status,
                              items |-> [i \in 1..count |-> [attempts |-> Len(step.items[i].attempts),
                                                              status |-> step.items[i].status]]] =
                                PredictMap(Script(s, count), count, Node[s].maxAttempts, step.collect)
    BY DEF JournalMatchesPrediction
  <2>2. StepsTold /\ MapsTold
    BY <2>1 DEF TellsRounds
  <2>3. CASE ~manifest.steps[s].isMap
    BY <2>1, <2>2, <2>3, StepPlays
  <2>4. CASE manifest.steps[s].isMap
    BY <2>1, <2>2, <2>4, MapPlays
  <2>5. QED
    BY <2>3, <2>4
<1>2. QED
  BY <1>1, KnownInvariant, TellsInvariant, PTL
==============================================================================
