# A TLA+ model of massive

massive runs workflows: a specification (a graph of steps, maps, decisions and
selects) is validated and compiled to a plan; the plan is executed by a local
orchestrator that starts one runner process per step, records every transition
in a run journal and keeps artifacts and journals in a datastore, or it is
lowered to an Argo workflow whose pods run one step or map item each. This
directory holds TLA+ modules for the parts of that system whose behaviour
depends on the order in which things happen, TLC configurations that check
them on small instances, and TLAPS proofs.

`tlc -config <cfg> <module>` runs a model; `tlapm <module>.tla` checks proofs.
`PROJECT.json` lists the runs, maps every definition to the lines it
translates, and lists the hazards the properties are for.

## Inventory

| Component | State | Operations | Interacts with |
|---|---|---|---|
| Step process pool, `invoker.go`, `taskprocess/run.go` | job channel, per-step outcomes, first error, batch context | `InvokeSteps`, `invokeOne` | called by the orchestrator with one step or one round of map items; starts runner processes |
| Run orchestrator, `orchestrator.go`, `exithook.go` | node position, attempt or round, journal in memory, run error | `Run`, `runMapNode`, terminalization, exit hook | resolver, journal, datastore, pool |
| Graph resolution, `resolution.go` | outputs, chosen cases, inactive nodes | inputs, decisions, selects, skipping | read by the node loop |
| Run journal, `runjournal/` | manifest: run, steps, attempts, map items, decisions, hook | `Mark*`, `Terminate`, `Parse` | written whole to the datastore; read by `inspect` |
| Local datastore, `datastore/local.go` | a body file and a content-type sidecar per key | `Put` (replace, create), `Get`, `Open`, `Exists`, `List` | used by every process of every run on the same root |
| Artifact runtime, `artifact/runtime.go` | manifest object and content-addressed body | `PublishJSON`, `ResolveJSON` | datastore; used by runners and orchestrator |
| Source snapshots, `orchestrator.go` | one directory per source package, shared by all runs on a store | `ensureSourceSnapshot`, `deterministicSourceArchive` | filesystem |
| Run events, `events.go` | sequence number, one clock per attempt | emit under a mutex | worker callbacks and the orchestrator; observed by the progress writer |
| Progress, `cmd/massive/progress.go` | queue, closing flag, wake-up token | `event`, `write`, `render`, `close` | called by run events; closed by the run command |
| Specification, `spec.go`; plan, `plan/` | none (pure) | semantic validation, schedule, compilation | read by every executor and target |
| Generator and interpreter, `graphgen/` | none (pure) | `Generate`, `Predict` | the repository's differential fuzzers |
| Argo target, `target/argo/` | the workflow document; evidence of lost items | lowering, `ReadMissingItemFailures`, `ExitStatus` | the Argo controller; runtime commands |
| Runtime commands, `cmd/massive/main.go`, `isolated.go`, `control.go` | result file, termination log, exit code of a pod | entry, control, step, map expand, item, collect, exit hook | pool, artifact runtime, fatal marker |
| Fatal marker, `fatal.go` | first-writer-wins object of a run | publish, read, poll | every pod of a run |
| Value parameters, `valueparam.go`, `mapexec/` | none (pure, over the store) | encode, decode, expand, collect | runtime commands |
| S3 datastore, control plane, environments, SDKs | external objects and processes | | |

The behaviours that are hard, and that the models are about:

- the pool's dispatcher, workers, callback order and two contexts: a step must
  not be started twice or lost, and the error that ended the batch must not be
  replaced by the cancellations it caused;
- a run is cancelled, or passes its deadline, between any two steps, while
  every journal write may fail, or fail after it took effect; the process may
  die at any point, so every stored journal must be one the reader accepts;
- attempts of steps and rounds of maps are retried up to a bound, never after
  a fatal failure, and finished work must survive what happens afterwards;
- decisions make regions of the graph inactive, nested and merged again;
- the graph rules of the validator are what every executor relies on, and the
  local and the remote executor read the graph in different ways;
- a pod reports through a termination log, a result file and an exit code, any
  of which a kill can leave behind or suppress, while siblings keep running;
- one attempt is reported by two goroutines, and the reader of the reports must
  not lose the last ones;
- several processes work on the same datastore keys, artifact slots and
  snapshot directory without locks, only with `link`, `rename` and `unlink`.

## Modules

| Module | Models | Role |
|---|---|---|
| `StepInvocation` | `invokeOne`, exit codes, retry classes | what the end of a runner means, and the contract of `InvokeSteps` |
| `StepInvoker` | `InvokeSteps` | the pool, goroutine by goroutine; `ReturnContract` says it keeps the contract |
| `Journal` | `runjournal` | mutations of a manifest and `Parse`, the reader: `ParseRun` and `ParseExitHook` |
| `Resolution` | `resolution.go` | pure operators over the plan's graph |
| `RunOrchestrator` | `Run` | composes the three above: the invoker is its contract, the journal its operators |
| `Prediction` | `graphgen.go`, `predict.go` | what a scripted step or map must do, the reference `RunOrchestrator` is compared with |
| `RunEvents` | `events.go`, the reports of `Run` | the events of a run, by its worker callbacks and the orchestrator |
| `RunProgress` | `progress.go` | the writer, renderer and close; `RunEvents` extends it |
| `WorkflowGraph` | `spec.go`, `schedule.go` | the rules a graph is accepted by and the topological orders, as operators |
| `ArgoTarget` | `argo.go`, `decisions.go` | the tasks a graph is lowered to, as operators |
| `GraphRun` | local node loop, Argo controller | one accepted graph run by both: composes `Resolution` and `ArgoTarget` |
| `GraphGen` | `graphgen/` | region trees, their emission, and the interpreter as the reference |
| `ValueParameters` | `valueparam.go`, `mapexec/values.go` | parameters and map envelopes, as operators |
| `RemoteRun` | runtime commands, `isolated.go`, `fatal.go`, `item_status.go`, `exit.go` | the pods of a map and a step of a run; uses `ValueParameters` and `StepInvocation` |
| `ConditionalStore` | `datastore.Datastore` | the abstract store: atomic create, replace and read of one key |
| `LocalDatastore` | `local.go` | the same key as two files; implements `ConditionalStore` |
| `ArtifactPublication` | `PublishJSON`, `ResolveJSON` | concurrent calls on atomic store operations |
| `SourceSnapshot` | `ensureSourceSnapshot`, `deterministicSourceArchive` | runs sharing one snapshot path |
| `StepInvokerProofs`, `LocalDatastoreProofs`, `ArtifactPublicationProofs`, `SourceSnapshotProofs` | | theorems about the module of the name |
| `RunOrchestratorProofs` | | lemmas on the journal's operators (types, trails of attempts, what each mutation keeps); a run's places, cause, dispatches and attempts |
| `RunJournalProofs` | | a run's journal and what its resolver decided; extends `RunOrchestratorProofs` |
| `RemoteRunProofs` | | the pods, the map and the exit hook of `RemoteRun` |
| `RunEventsProofs` | | the stream of events of a run and its delivery |
| `MC*` | | instances for TLC |

### StepInvoker

The calling goroutine (`dpc`) validates, offers steps one by one on an
unbuffered channel (`next`), and waits. A worker (`wpc`, `wjob`) selects
between the channel and the batch context, starts its step, waits for its
process (`proc`), classifies the end, records the outcome and reports an error
to `sync.Once`; storing the first error (`once`, `firstError`) and cancelling
the batch are two steps, as in the code. `ctxErr` is the caller's context and
`batchErr` the derived one, which is cancelled later than its parent by a step
of its own (`PropagateCancel`). Go's `select` takes either ready case.
Descriptor encoding and argv building are one step that may fail.

### RunOrchestrator

`pc` names the place in `Run` between two operations that can fail or be
interrupted: journal writes, artifact writes, invocations and waits are each
one step. `manifest` is the journal in memory and `durable` the stored one, so
a crash needs no action: what a crash leaves is `durable`, and the properties
about the stored journal hold in every state. `Put` answers ok, fault, applied
(failed after it took effect) or, with a context that is over, a context
error; a detached context (the code's `context.WithoutCancel`) never gives the
last. A retry delay ends at any time. Values are abstracted to the case they
select and their length as an array. A run that `Run` refuses before it claims
a run id leaves nothing behind (`RefuseRun`). `materializePrerequisites` is one
fallible step (`SourceSnapshot` is about what happens inside it);
descriptor-construction errors and the overflow check of `maxConcurrency` are
left out. An attempt's `output` and the manifest's `result` are kept as whether
they were published. The exit hook's record is made of whether its output was
settled and whether its own deadline or signal was there by the time of the
record (`HookRecord`). `JournalMatchesPrediction` turns the outcomes a run
reported into a script of `Prediction` and compares the journal with what the
repository's interpreter predicts for it.

### LocalDatastore

One action per filesystem operation: create links the sidecar, then the body;
replace renames the body, then the sidecar; get reads the body, then the
sidecar. A client may stop for good between any two operations. Staging files are
private and left out. The refinement mapping is: the object is the body with
the content type beside it; a create or a replacement takes effect where the
body becomes visible.

### ArtifactPublication

A call publishes a value into a slot or resolves a slot. A slot stands for a
producer identity and the manifest key it determines, a value for its bytes,
its digest and its blob key. Each store operation is one step, which is what
`LocalDatastore` is shown to give; it may fail, before or after it took effect,
a call may crash between any two, and a blob may be damaged. A retry is another
call on the same slot with the same or another value. The Python and
TypeScript runners follow the same order of operations in `artifact.py` and
`artifact/runtime.ts`.

### SourceSnapshot

Runs of one plan on one store share a directory and have no lock. `at` is the
directory the path names; a directory is known by the run that staged it, so
that `RemoveAll`, which keeps unlinking in the directory it opened, and the
final `rmdir` and `chmod`, which follow the path, can meet different
directories. Modes matter: a directory locked while it is being removed keeps
its remaining files. `os.Rename` looks at the path and refuses any directory it
sees, an empty one too (`LookAtPath`); the system call behind it, which comes
later, replaces nothing or an empty directory (`Vacant`). `RemoveAll`
is modelled after the Go runtime's use of `openat`, `unlinkat` and `rmdir`.
`overlapped` is a history variable that names the runs that were not alone.

### WorkflowGraph, ArgoTarget, GraphRun and GraphGen

A graph is built first, then judged by `ValidateSemantics` and, if accepted, by
`ValidateStaticGraph`, then run. `LocalRun` folds the resolver over the executor's
topological order; the Argo controller is a state machine over the tasks
`ArgoTarget` makes (`Succeed`, `Omit`, `Skip`, `PodFails`), in any order their
`depends` allows. Values are symbolic (which node computed them from what), so
equal values mean equal data flow; `choice` fixes, before the run, the case
every computed value selects. Graphs come from two sources: `MCGraphs` grows all
graphs of the bounded numbers of nodes, keeping only rules a single node can
break and leaving everything about regions to the validator; `GraphGen` emits the
region trees of the repository's generator, with the records from which its
interpreter predicts the outcome of every node, sharing nothing with the executors.

### RemoteRun

A unit is a map item or the step beside the map. `place` is where its command
is, and the three channels a pod reports through are variables of their own:
`evidence` (termination log), `file` (result file) and `exit`. `KillContainer`
takes a pod at any place, for memory or by eviction, and leaves what it had
written. Preparation ends in one of the results of installing the archives
(`InstallEnds`) or of the interpreter's preflight (`PreflightEnds`), which
separate what a retry can mend from what it cannot. `MaxItems` is at least one
because an empty list has a pod too, the one its marker is given to. `marker` is the run's fatal marker: read when a pod starts, polled
until the invocation has settled (`PollMarker`), published once. The runner hydrates,
runs author code and publishes; the attempt's deadline (`AttemptExpires`), a kill and a
cancellation may fall into any of the three, an exception of the runner's own into the first
and the last (`RunnerBreaks`). A success that is reaped after the poller cancelled the
context is dropped, as `InvokeSteps` returns the context's error beside it
(`IsolatedOutcome`). `truth` records what ended the attempt: what author code did, or
`late` (a deadline outside it), `uncaught` (an exit of the runner's own), `exit70` and
`broken` otherwise; `CollectedIsTruthful` compares it with what the map's consumer sees.

### RunEvents and RunProgress

The run loop is reduced to the places where it reports. A batch starts and ends
its attempts through the callbacks, in any order; afterwards the orchestrator
reports the returned outcomes again, those of a map one by one (`observed`), and
terminalization closes whatever is open, in the order a Go map is iterated in, that
is in any, and then finishes the steps that are left one by one.
A `StepInvoker` that never calls back, or whose outcomes are rejected, is
included, as the interface allows it. `attemptStarts` holds the clocks whose zero
value marks a reported end. The writer's batches, the closing flag, the token in
the wake-up channel and the two waits of `close` are steps of their own.

## Runs

| Run | Instance | Shows |
|---|---|---|
| `invoker` | 3 steps, 2 workers | return contract, exclusive jobs, root cause kept; liveness of the call |
| `run_branch` | classify, route, then a retried step, a retried map (3 items, none, no array) or a retried collecting map (2 items), select, last; an undeclared case; hook and deadline; 2 faults | journal readable (but for one record of the hook) and truthful, retry discipline, attempts and collection as predicted, skips follow decisions, terminal outcomes, termination |
| `hook_late` | as `run_branch`, with a hook and no faults | violated: see Findings |
| `object` | 3 clients creating, replacing and reading one key, 2 bodies, 2 content types | refinement, creates are final, conflicts are real |
| `publication` | 3 calls, 2 slots, 3 values: one invalid, one equal to the schema's bytes | one value per slot, no visible manifest without body, retries converge |
| `snapshot` | 3 runs, 2 files, any earlier content, cancellation and crashes | convergence when undisturbed, repair by a run that is alone |
| `snapshot_cancelled` | 2 runs from an empty store, cancellation | violated: see Findings |
| `graphs` | up to 8 nodes: 2 decisions, 1 merge, 1 map, 1 plain step; all region trees of budget 2 with up to 2 branches and 11 nodes; 1 pod failure | acceptance implies resolution, local, remote and predicted runs agree, one schedule |
| `remote` | lists of up to 2 items, a step beside a shorter one, 2 attempts, 1 kill, 1 fault, 5 author ends | collected failures say what ended the attempt, fatal runs fail and stop, returned successes are kept |
| `remote_retry` | 1 item, 2 attempts, 1 fault | violated: see Findings |
| `remote_discarded` | 1 item beside a step, no fault | violated: see Findings |
| `events` | 2 steps or a map of up to 2 items, 2 attempts, a hook, 1 failure, display with and without a file | attempts bracketed, delivery in order, the command returns |

Bounds. Three steps on two workers is the least where one step is running, one
is being handed over and one is still to be offered, and where two errors
race for `sync.Once`. Two attempts give a retry that may be the last one; three
items let one succeed, one retry and one fail for good in the same round. Two
faults let the terminal write fail after another write failed. Three clients
let two race while a third reads or has stopped; one key is enough as
operations on different keys touch different files. Clients are
interchangeable, so `object` uses symmetry (it checks no liveness).
Three calls are a publisher that stops half-way, its retry and a rival or a
consumer; two slots share one blob. Three runs on a snapshot are one that
crashes, one that repairs and one that races; two files are enough for a
directory that is half removed.
Eight nodes are enough for a decision in a branch of another with both selects, or
for two decisions side by side with a merge over them; the generator's trees reach
the same shapes from the other side, with calls, fans and maps. `Rank` is not
the order of the ids, so an order taken from insertion would show. Two pods
(two items, or an item and the step) are the least where one fails while the
other runs, polls, retries or is still to start; the longest list and odd results travel by reference, the others
inline. `MaxBacklog` bounds the queue of events, which the code leaves unbounded:
the run waits where the code would not, which removes no order of the events.
`CHECK_DEADLOCK FALSE` is set for the snapshot runs only: there every run may have ended.

Fairness. `StepInvoker` assumes that goroutines are scheduled, that a derived
context is eventually cancelled and that a killed process group dies. It does
not assume that a runner ends on its own: `CancelReturns` needs a
cancellation, and `EndingStepsReturn` has the runners' ending as its
hypothesis. `RunOrchestrator` assumes weak fairness of its own steps; for the
invocation that is what `CancelReturns` and `EndingStepsReturn` give when runners
end. Cancellation, deadline and faults are never assumed to happen. `RemoteRun` assumes
that commands, pollers and the controller go on and that author code need not: `FatalStopsRun`
holds because every place of a running invocation is polled. `RunEvents` assumes that the writer,
the renderer and the waiting `close` are scheduled, not that the run itself ends:
`CommandReturns` starts where `close` is called. A renderer blocked by its
terminal is the exception the comment on `close` names; it is excluded by the
renderer's fairness.

## Proofs

`StepInvokerProofs` proves, for every number of steps, workers and every set
of runner ends (`InvokerAssumption`): types, `JobsExclusive`,
`StartedIffOutcome`, `ReturnContract` and the action property `RootCauseKept`.
The contract speaks of the state at return, which says nothing about how it
came about, so the induction goes through `IInv`: a step is held by at most
one worker (`JobsExclusive`); a worker's place says whether its step is
started and has an outcome (`HeldSteps`); a step that was offered is started, held or
dropped by a batch that is over (`StepsAccounted`); the first error belongs to
a recorded outcome, and an outcome with an error is reported or still held by
the worker that will report it (`ErrorsAccounted`); the caller's place says
when the pool is idle and when all workers are gone (`CallerPlace`). Each has
a lemma with a step per action, and the theorems follow from `IInv` at return.

`LocalDatastoreProofs` proves that `LocalDatastore` implements
`ConditionalStore` for any clients and requests (`RequestAssumption`) under
`StableType`: nothing replaces the key, or it is claimed by a create
first and replaced by objects of its content type. The hypothesis is what the code's
users keep to, and it is needed: without it a reader can pair a new body
with an old or a missing content type. `LInv` adds to the types that a
client's place agrees with its request (`OnPath`) and that a visible body has
its sidecar (`SidecarFirst`); `Simulation` shows each file operation to be a
step of the store or a stutter. `CreatedIsImmutable` follows from the same
invariant: a create finds the object and its sidecar there, and a replacement
the content type it writes. `RefusalIsConflict` needs no stable
content type, only that a recorded one is never unrecorded (`RInv`).

`ArtifactPublicationProofs` proves `CommittedHasBody` and `SlotHasOneValue`
for any calls, slots and values (`PublicationAssumption`). `PInv` adds to them the
types and `PlaceInv`: a call past the storing of its body has a stored body,
a call that compares a manifest has one to compare with. Blobs and manifests
are never removed, so no other call can undo it. `RetryConverges` is inductive
once a body is known to exist where it is compared (`RefusedInv`): a manifest is
never replaced and no blob but the schema's is repaired, so the reason for a
refusal stays.

`SourceSnapshotProofs` proves `UndisturbedRunsConverge` for any number of runs
and files (`SnapshotAssumption`). `PathInv` says that while nobody was cancelled
and nothing stale was there, what is at the path is whole, a staged directory
is whole before its rename, and nobody is removing: a whole directory is neither
missing nor empty, so both halves of a late rename refuse it, and the recheck reads
every file.
`LoneRunRepairs` is proved with cancellation and stale directories: `LoneInv`
says what a run that never overlapped another knows at each place (the files
read so far are good, its staged directory is whole, the directory it removes is
open to it and lists no other file), and that nobody else is active. `FreshInv` adds
that its directory is not yet at the path, so the removal never hits its own.

`RunOrchestratorProofs` and `RunJournalProofs` are about `Run`, for every plan
(`PlanAssumption`, `GraphAssumption`: nodes once each and after their sources,
positive attempts; `RouteAssumption`: a select comes after its decision and only a
decision's edge has a case, as `ValidateControlFlow` makes sure) and every set of
outcomes, hook, deadline and number of faults (`RunAssumption`). None of the run's properties is inductive, as each speaks of
a settled journal or of two journals and not of how `Run` got there. The
induction goes through what each place of `Run` says:

- `TypeOK`: among the types, that a step or map place has an active step or
  map, and that an error leads to termination;
- `Control`: the status of the two journals and `Run`'s error at each place;
  from it `ReportedIsDurable` and `TerminalNeverReopens`;
- `Cause`: a reported fatal failure is the active node's and is, or is about to
  become, the run's error; from it `CauseIsKept`;
- `Dispatched`: what was dispatched lies before the active node or is the active
  node past its first write;
- `SpendInv`: where an attempt may be dispatched none is reported from it on and
  the one before failed retryably; from it `RetryDiscipline`;
- `JournalInv`: the shape of every entry. Nodes before the active one are done,
  those after it blank (or cut off by termination), and the active one has the
  shape its place demands, down to each item of a map's round (idle, recorded,
  kept). From it come `NoDispatchAfterFailure` (a failed entry is at a place that
  dispatches nothing) and, with `DurableInv`, `CompletedWorkPreserved`;
- `HeadInv`: the journal's header; with the shapes, each clause of
  `runjournal.Parse` holds of what is written, and the reader accepts each record of
  the exit hook but the one `DurableReadable` names (`HookParses`); hence `DurableReadable`;
- `HookInv`: the node given to the hook is the active one, dispatched and not
  succeeded; with `Dispatched`, `HookBlamesLastDispatch`;
- `HistoryInv`: each report has its attempt, and each item attempt and success
  its report; with `EntriesLegal`, `HistoryJournaled`;
- `RouteInv`: the resolver has judged the nodes before the active one by its rules and
  says nothing of later ones (`RoutedPast`, `RoutedHere`, `RoutedAhead`), the journal
  records the selections the resolver made (`SelectionsTold`), and the skipped
  entries are those of the nodes it found inactive (`SkipsTold`). From it
  `SkipsFollowDecisions`, which recomputes the active region from the stored journal
  alone: that the recursive definition of the region has its intended values
  is shown without an induction rule, from the least index at which it would not
  (`RegionsGrow`), and the region then agrees with the resolver node by node
  (`RegionAgrees`);
- `TellsRounds`: what the reports say of steps and maps. While a map's rounds go on,
  every report of an earlier round was retried, was verified or is a kept item failure
  (`EarlierFine`), and the items outside the round are final (`RestFinal`); a map that
  failed met an outcome no script has, or has no report that ends it, or ended in the
  round its last items were in (`MapTold`); a step's later attempts follow retryable
  failures (`StepsTold`). From it `JournalMatchesPrediction`: a settled map `Plays` its
  script, and for such a map the interpreter's recursive function has exactly one
  solution, its state after each round (`After`, `RoundFollows`, `RoundsAre`, again from the
  least round at which they would differ), whose last value is the journal's.

`RemoteRunProofs` is about a workflow on Argo, for any number of items, attempts,
kills and faults, any `Parallelism` and any limits of the parameters
(`RemoteAssumption`, `LimitsAssumption`). `PodInv` is the heart of it: what a
pod's place says of its exit code (`ExitInv`: a success the invocation returned is lost
only if it cannot be reported, and a published output before that only to a cancellation
with the marker's cause), its termination log and its result file (`ItemInv`, `FileInv`:
evidence `author` means that author code was entered and did not return, a failure file
says what ended the last attempt: the end of author code, the deadline, or an unstructured
exit). `ListInv` says that the envelopes are those of the
list, `Quiet` that a map that has ended runs no pod. `SuccessIsKept` follows from
`PodInv`. `FatalRunFails` needs a witness that survives: the pod that published
the marker is `Doomed`, it fails, its retries read the marker, and neither
collector accepts what it leaves (`FatalInv`); the exit hook starts after
everything has ended, so what it was told stands (`HookInv`). For
`CollectedIsTruthful` the collectors are shown to return, for each position, the
body the item's envelope stands for (`ReadBack`, `Collected`,
`OutcomesCollected`, `ResultsCollected`), and `PodInv` says what that body is
(`TruthInv`).

`RunEventsProofs` is about the events of a run, for any plans, items, attempts,
failures, outlets and backlog (`EventsAssumption`, `ProgressAssumption`). `RunInv` says
that the clocks tell the stream: an attempt without a clock has no event, one with a
running clock was started once and not finished, one with a zero clock was both, in that
order. A node's status tells whether its `step.finished` was reported, and the place of
the run which clocks can be open, so that a step's end comes after the ends of its
attempts and the run's after all. From it `AttemptsBracketed`. For `DeliveredInOrder` the
writer's file or summary and the queue are one stream, the one the run reported, and a
writer that saw `closing` with an empty queue has nothing left to miss, as the run
reports nothing once `close` was called.

The type invariants of the modules with proofs are conjuncts of their inductive
invariants, so every proof goes through them; the runs list only
`StepInvoker`'s, as a theorem of its own states it and the others are stated in
the proof modules. The inductive invariants of `RunOrchestrator` and `RemoteRun`
were model-checked on the instances of `run_branch` and `remote` before they
were proved. The properties of the violation runs are proved nowhere; `DurableReadable`
and `SuccessIsKept` say how much of two of them holds.

Only model-checked: liveness (`CancelReturns`, `EndingStepsReturn`,
`RunTerminates`, `FatalStopsRun`, `CommandReturns`), which is beyond the prover;
and the graph modules, as `GraphGen`'s region trees are recursive data and what
`GraphRun` says of all graphs needs induction over them.

## Findings

- `hook_late`: the exit hook's output is put into its attempt before the record is made,
  and the record fails the attempt if the hook's own deadline or signal has arrived by then.
  A failed attempt may not carry an output (`run-manifest.schema.json:622-648`), so
  `Parse` rejects the whole journal, although the Python README (413-416) says that a
  signal during the hook preserves the run's outcome and records the cancellation.
- `snapshot_cancelled`: a run that lost the rename rechecks the winner's
  snapshot under its own context. If it was cancelled, the recheck fails for
  that reason alone, is taken for a mismatch, and the good snapshot is removed
  while the winner is about to archive it. The comment on
  `ensureSourceSnapshot` promises that concurrent runs converge. The same
  happens without cancellation when two runs find a stale directory; there a
  `chmod` in between can even leave the directory half removed with every run
  failing, until the next run that is alone repairs it (`LoneRunRepairs`).
- `remote_retry`: a runner that exits 70 could not publish its result. The
  pool turns that into a plain infrastructure error, for which the runtime command exits
  1, so the pod is retried although `docs/spec/argo-backend.md:653-656` says
  that publication failures (70) stop immediately and the retry expression names 70.
- `remote_discarded`: a runner has published its output and exits 0; before that exit is
  looked at, the poller finds a sibling's marker and cancels the context. `InvokeSteps`
  returns the context's error beside the success, `runIsolatedInvocation` returns only the
  error and `settleRuntimeInvocation` makes it the sibling's fatal failure, although the
  comment on it (`main.go:779-780`) says that a late sibling fatal "must not discard output
  that the invocation successfully published". It is kept only when the cancellation comes
  after `runIsolatedInvocation` has returned (`SuccessIsKept`).

What the models showed besides:

- an attempt is marked running in memory before the journal write that records it. When
  that write is refused because the run was just cancelled, terminalization records the
  attempt, which nobody dispatched, as cancelled, although
  `docs/spec/ir-and-datastore.md:422-423` says that "undispatched work has no attempts";
- a datastore error while the runner reads its input or publishes its output is caught
  nowhere in the runner: it exits 1, and a collecting map keeps that as an `error` of the
  item; a deadline in those phases is kept as a `timeout`. The Python README (598-600)
  says that only failures of the item's own code are collected and that infrastructure
  errors fail the map. Deaths by a signal are checked against the phase
  (`CollectedIsTruthful` says how much holds);
- `docs/spec/ir-and-datastore.md:336` says that the retry expression excludes only
  64, 65, 67 and 68; it also has 69 and 70, of which 70 never reaches it (above);
- at these bounds `validateExclusiveDecisionBranches` rejects nothing that the
  lineage rule does not reject too;
- an accepted graph may end in a node that is inactive for some case; the local
  run then fails at its result;
- failures of control pods (entry, decision, select, collect) are outside the
  interpreter's script, so `PredictionAgrees` compares failures of steps and maps only.

## Not modelled

Descriptor encoding, path containment, pod specifications and placement, flag
parsing and rendering are data without control. The S3 store is one conditional
request per operation: what it promises is `ConditionalStore`, which the other
modules assume, and the rest is the service's. The control plane and the
environment code call external tools in sequence and keep no state of their own.
The SDKs are authoring libraries and runners in other languages; `RemoteRun` has the
phases and exits of the Python runner, its failure file and order of store operations are
modelled from the Go side.
Specification parsing and the JSON-schema subset are modelled as far as the graph
rules compare schemas. Retry delays are any delay: the schema bounds the factors,
so their product cannot overflow. Byte-level conversions (canonical JSON, number
formatting, tar headers, hashes) are left out for good: they have golden
files, and nothing here depends on their bytes.

`Resolution` takes a topological order and well-nested regions as assumptions;
`AcceptedGraphsResolve` shows for every graph of the `graphs` run that the
validator gives them.

## Plan

Done, in this order: the pool and its contract; journal, resolution and run;
the local datastore and its refinement; artifact publication; source snapshots;
the graph rules, the Argo lowering and the two executions of a graph; the
generator and its interpreter; the remote run and the fatal marker; run events
and progress; proofs for `RunOrchestrator` and `RemoteRun`, for the remaining
safety properties of the store, publication and snapshots, for the events of a run and
for the resolver's skips.
