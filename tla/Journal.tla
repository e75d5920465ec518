------------------------------- MODULE Journal -------------------------------
(***************************************************************************)
(* The run journal (run-manifest.json): its entries, the operations the    *)
(* orchestrator applies to them, the terminalization every failed or       *)
(* cancelled run goes through, and the reader that decides which journals  *)
(* are well formed.                                                        *)
(*                                                                         *)
(* A step and a map item are both an entry: a status and its attempts, in  *)
(* order; so is the record of the exit hook. Diagnostics, keys and hashes  *)
(* are left out; an attempt keeps whether it records a published output, a *)
(* manifest whether it names a result.                                     *)
(***************************************************************************)
EXTENDS Naturals, Sequences

Terminal == {"succeeded", "failed", "cancelled", "skipped", "not-started"}

RunTerminal == {"succeeded", "failed", "cancelled"}

NewAttempt(n, status) == [attempt |-> n, status |-> status, output |-> "none"]

PublishedAttempt(n) == [attempt |-> n, status |-> "succeeded", output |-> "published"]

PendingItem == [status |-> "pending", attempts |-> <<>>]

\* newRunManifest: every planned step and map is pending, no item is known yet.
NewStep(isMap, collect) ==
    [status |-> "pending", attempts |-> <<>>, isMap |-> isMap, items |-> <<>>,
     collect |-> collect]

\* No exit hook has run: the record is left out of the journal.
NoExitHook == [status |-> "none", attempts |-> <<>>]

NewManifest(steps) ==
    [status |-> "running", steps |-> steps, decisions |-> <<>>, failure |-> "none",
     result |-> "none", exitHook |-> NoExitHook]

-----------------------------------------------------------------------------
\* Operations on one entry, step or map item alike.

EntryRunning(e, n) ==
    [e EXCEPT !.status = "running", !.attempts = Append(@, NewAttempt(n, "running"))]

CloseLast(attempts, status) ==
    [attempts EXCEPT ![Len(attempts)].status = status]

\* The latest attempt failed; the entry stays running until a later one settles it.
EntryRetrying(e) == [e EXCEPT !.attempts = CloseLast(@, "failed")]

PublishLast(attempts) == [attempts EXCEPT ![Len(attempts)] = PublishedAttempt(@.attempt)]

EntrySucceeded(e) == [e EXCEPT !.status = "succeeded", !.attempts = PublishLast(@)]

EntryTerminal(e, status) ==
    IF e.attempts = <<>>
    THEN [e EXCEPT !.status = status, !.attempts = <<NewAttempt(1, status)>>]
    ELSE [e EXCEPT !.status = status, !.attempts = CloseLast(@, status)]

\* The attempt was written ahead of a dispatch that never happened: it is removed,
\* and a step left without attempts was not started.
DropUndispatched(e) ==
    LET kept == SubSeq(e.attempts, 1, Len(e.attempts) - 1)
    IN  [e EXCEPT !.attempts = kept,
                  !.status = IF kept = <<>> THEN "not-started" ELSE @]

-----------------------------------------------------------------------------
\* Operations on the manifest.

MarkAttemptRunning(m, s, n) == [m EXCEPT !.steps[s] = EntryRunning(@, n)]
MarkAttemptRetrying(m, s) == [m EXCEPT !.steps[s] = EntryRetrying(@)]
MarkAttemptSucceeded(m, s) == [m EXCEPT !.steps[s] = EntrySucceeded(@)]
MarkAttemptTerminal(m, s, status) == [m EXCEPT !.steps[s] = EntryTerminal(@, status)]
MarkStepSkipped(m, s) == [m EXCEPT !.steps[s].status = "skipped"]

MarkDecision(m, d, status, case) ==
    [m EXCEPT !.decisions = Append(@, [node |-> d, status |-> status, case |-> case])]

MarkMapItemsPending(m, s, count) ==
    [m EXCEPT !.steps[s].items = [i \in 1..count |-> PendingItem]]

\* Pending items were never dispatched; a running item takes the map's status, and
\* so does its last attempt unless that attempt already failed before its retry.
UnfinishedItemTerminal(item, status) ==
    CASE item.status = "pending" -> [item EXCEPT !.status = "not-started"]
      [] item.status = "running" ->
            [item EXCEPT !.status = status,
                         !.attempts = IF @[Len(@)].status = "running"
                                      THEN CloseLast(@, status) ELSE @]
      [] OTHER -> item

\* failMapNode: unfinished items first, then the map's own collection attempt.
FailMapNode(m, s, status) ==
    MarkAttemptTerminal(
        [m EXCEPT !.steps[s].items =
            [i \in DOMAIN @ |-> UnfinishedItemTerminal(@[i], status)]],
        s, status)

TerminateEntryKeepsRunning(e, status) ==
    CASE e.status = "pending" -> [e EXCEPT !.status = "not-started"]
      [] e.status = "running" -> [e EXCEPT !.status = status]
      [] OTHER -> e

TerminateEntryAll(e, status) ==
    IF e.status = "pending" THEN [e EXCEPT !.status = "not-started"]
    ELSE [e EXCEPT !.status = status]

CloseRunning(a, status) == IF a.status = "running" THEN [a EXCEPT !.status = status] ELSE a

\* Completed entries are preserved. Every running attempt of an unfinished entry
\* takes the run's status; earlier failed attempts keep their own outcome.
TerminateEntry(e, status) ==
    CASE e.status = "pending" -> [e EXCEPT !.status = "not-started"]
      [] e.status = "running" ->
            [e EXCEPT !.status = status,
                      !.attempts = [i \in DOMAIN @ |-> CloseRunning(@[i], status)]]
      [] OTHER -> e

Terminate(m, status) ==
    [m EXCEPT !.status = status,
              !.result = "none",
              !.steps = [s \in DOMAIN m.steps |->
                    [TerminateEntry(m.steps[s], status) EXCEPT
                        !.items = [i \in DOMAIN @ |-> TerminateEntry(@[i], status)]]]]

-----------------------------------------------------------------------------
\* The reader.

\* The schema's shape of an attempt and of an entry: only a succeeded attempt
\* carries an output; inactive entries have no attempts, all others have some.
AttemptShape(a) == a.output # "none" <=> a.status = "succeeded"

EntryShape(e) ==
    /\ \A i \in DOMAIN e.attempts : AttemptShape(e.attempts[i])
    /\ e.attempts = <<>> <=> e.status \in {"pending", "skipped", "not-started"}

ManifestShape(m) ==
    /\ m.result # "none" <=> m.status = "succeeded"
    /\ m.failure # "none" => m.status = "failed"
    /\ m.exitHook # NoExitHook => m.status # "running"

\* Attempts are dense and 1-based, every retried attempt failed, and the last one
\* carries the entry's status or failed before a retry that never settled.
ValidateAttempts(attempts, status) ==
    /\ \A i \in DOMAIN attempts :
        /\ attempts[i].attempt = i
        /\ i < Len(attempts) => attempts[i].status = "failed"
    /\ attempts # <<>> =>
        LET last == attempts[Len(attempts)].status
        IN  last = status \/ (last = "failed" /\ status \in {"running", "cancelled"})

\* A fatal cause names a failed step that was dispatched; for a map, one of its
\* items failed after a dispatch.
FailureNamed(m) ==
    m.failure # "none" =>
        LET step == m.steps[m.failure]
        IN  /\ step.status = "failed"
            /\ step.attempts # <<>>
            /\ step.isMap => \E i \in DOMAIN step.items :
                    step.items[i].status = "failed" /\ step.items[i].attempts # <<>>

ParseItem(step, item) ==
    /\ EntryShape(item)
    /\ ValidateAttempts(item.attempts, item.status)
    /\ item.status = "not-started" => step.status \in {"failed", "cancelled"}
    /\ step.status = "succeeded" =>
            item.status = "succeeded" \/ (step.collect /\ item.status = "failed")
    /\ step.status \in {"failed", "cancelled"} => item.status \notin {"pending", "running"}

ParseStep(m, step) ==
    /\ EntryShape(step)
    /\ m.status # "running" => step.status \in Terminal
    /\ m.status = "succeeded" => step.status \in {"succeeded", "skipped"}
    /\ ValidateAttempts(step.attempts, step.status)
    /\ step.status \in {"pending", "skipped", "not-started"} => step.items = <<>>
    /\ \A i \in DOMAIN step.items : ParseItem(step, step.items[i])

\* The record of the exit hook, where there is one: a single attempt of the schema's
\* shape, which carries the hook's status.
ParseExitHook(hook) ==
    hook # NoExitHook =>
        /\ hook.status \in {"succeeded", "failed"}
        /\ Len(hook.attempts) = 1
        /\ AttemptShape(hook.attempts[1])
        /\ ValidateAttempts(hook.attempts, hook.status)

\* What the reader asks of the journal beside the record of its exit hook.
ParseRun(m) ==
    /\ ManifestShape(m)
    /\ FailureNamed(m)
    /\ \A s \in DOMAIN m.steps : ParseStep(m, m.steps[s])

Parse(m) == ParseRun(m) /\ ParseExitHook(m.exitHook)
==============================================================================
