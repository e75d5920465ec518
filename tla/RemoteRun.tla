------------------------------ MODULE RemoteRun ------------------------------
(***************************************************************************)
(* A workflow on Argo: a map whose items run in pods of their own, a step  *)
(* beside it, a collector, and the exit hook. A pod is one `massive        *)
(* runtime` command around one runner process; it reports through three    *)
(* channels that a crash can separate: its termination log (evidence), its *)
(* result file and its exit code. Pods meet in the run's fatal marker,     *)
(* which is written once, read before author code starts and polled while  *)
(* it runs.                                                                *)
(*                                                                         *)
(* The controller and the kubelet are external: they are modelled by the   *)
(* templates and flags the code gives them. The runner is the Python one:  *)
(* it hydrates, calls author code and publishes. Bounds on faults:         *)
(* MaxKills containers are killed, MaxFaults store or control operations   *)
(* fail.                                                                   *)
(***************************************************************************)
EXTENDS ValueParameters, StepInvocation

CONSTANTS
    MaxItems,     \* the longest list the map is given; an empty list has a pod too
    MaxPods,      \* the most items and steps that run side by side
    MaxAttempts,  \* the contract's retry.maxAttempts
    Parallelism,  \* the map's maxConcurrency
    AuthorEnds,   \* the ways author code may end; "deadline" if attempts have a timeout
    MaxKills, MaxFaults

ASSUME RemoteAssumption ==
    /\ MaxItems \in Nat \ {0} /\ MaxPods \in Nat /\ MaxAttempts \in Nat \ {0} /\ Parallelism \in Nat \ {0}
    /\ AuthorEnds \subseteq {"exit0", "step", "nonretryable", "fatal", "signal", "other", "deadline"}
    /\ MaxKills \in Nat /\ MaxFaults \in Nat

Step == -1                          \* the step beside the map
None == "none"
NoFile == [tag |-> "none"]
NoHook == [status |-> None, failedNode |-> None, fatal |-> None]

VARIABLES
    collecting,  \* the map's itemFailures is collect
    list,        \* the map's input
    envelopes,   \* what the expand pod made of it; <<>> before
    store,       \* published bodies
    marker,      \* fatal.json: the node that raised, None while absent
    place,       \* where each pod is
    attempt,     \* the attempt it runs
    cancelled,   \* its context was cancelled with the marker's cause
    outcome,     \* what its runner or its preparation came to
    err,         \* the error its command returns
    evidence,    \* its termination log
    file,        \* its result file
    exit,        \* its exit code
    killed,      \* how its container was killed: None, "oom" or "evicted"
    truth,       \* what author code did in this attempt, or what ended its runner instead
    map,         \* the map task: "expanding", "running", "Succeeded", "Failed"
    collected,   \* the map's result
    failedAt,    \* when the step and the map failed; 0 if they did not
    hook,        \* the outcome the exit hook was given
    kills, faults

podVars == <<place, attempt, cancelled, outcome, err, evidence, file, exit, killed, truth>>
vars == <<collecting, list, envelopes, store, marker, podVars, map, collected, failedAt,
          hook, kills, faults>>

Units == {Step} \cup 0..(MaxItems - 1)
IsItem(u) == u # Step
Items == {u \in Units : IsItem(u) /\ u < Len(envelopes)}
NodeOf(u) == IF IsItem(u) THEN "map" ELSE "step"

ItemBody(i) == [what |-> "item", index |-> i, size |-> 1]
\* The longest list travels by reference.
ListOf(n) ==
    [what |-> "list", items |-> [p \in 1..n |-> ItemBody(p - 1)],
     size |-> IF n = MaxItems THEN InlineLimit + 1 ELSE n]

\* What author code returns for an item: odd items return a large value.
ResultBody(u, input) ==
    [what |-> "result", of |-> input, size |-> IF u % 2 = 1 THEN ItemInlineLimit + 1 ELSE 1]

FailureKind(o) ==
    CASE o = "timeout" -> "timeout"
      [] o = "nonretryable" -> "non-retryable"
      [] o = "signal" -> "killed"
      [] OTHER -> "error"

\* NewFailure: a record with a runner's message does not fit an envelope.
NewFailure(kind, attempts) ==
    [what |-> "failure", kind |-> kind, attempts |-> attempts,
     size |-> IF kind = "error" THEN ItemInlineLimit + 1 ELSE 1]

Init ==
    /\ collecting \in BOOLEAN
    /\ \E n \in 0..MaxItems : list = ListOf(n)
    /\ envelopes = <<>>
    /\ store = {list}
    /\ marker = None
    /\ \/ place = [u \in Units |-> "waiting"] /\ Len(list.items) < MaxPods
       \/ place = [u \in Units |-> IF u = Step THEN "done" ELSE "waiting"]
    /\ attempt = [u \in Units |-> 0]
    /\ cancelled = [u \in Units |-> FALSE]
    /\ outcome = [u \in Units |-> None]
    /\ err = [u \in Units |-> None]
    /\ evidence = [u \in Units |-> None]
    /\ file = [u \in Units |-> NoFile]
    /\ exit = [u \in Units |-> 0]
    /\ killed = [u \in Units |-> None]
    /\ truth = [u \in Units |-> None]
    /\ map = "expanding" /\ collected = <<>>
    /\ failedAt = [t \in {"step", "map"} |-> 0]
    /\ hook = NoHook
    /\ kills = 0 /\ faults = 0

-----------------------------------------------------------------------------
(* The command in a pod.                                                   *)

\* Only item pods keep a termination log.
Record(u, phase) ==
    evidence' = IF IsItem(u) THEN [evidence EXCEPT ![u] = phase] ELSE evidence

Fault == faults < MaxFaults /\ faults' = faults + 1

\* The empty marker's item invokes nothing.
IsEmptyItem(u) == IsItem(u) /\ envelopes[u + 1] = EmptyMarker

NoMarkerRead == FALSE

\* ReadFatalRun at the start of an invocation.
ReadFatalRun == marker # None

\* A new pod, up to the reading of the marker, which author code cannot precede.
StartPod(u, n) ==
    /\ attempt' = [attempt EXCEPT ![u] = n]
    /\ cancelled' = [cancelled EXCEPT ![u] = FALSE]
    /\ outcome' = [outcome EXCEPT ![u] = None]
    /\ exit' = [exit EXCEPT ![u] = 0]
    /\ killed' = [killed EXCEPT ![u] = None]
    /\ truth' = [truth EXCEPT ![u] = None]
    /\ IF IsEmptyItem(u)
       THEN /\ Record(u, "publish")
            /\ file' = [file EXCEPT ![u] = EmptyMarker]
            /\ place' = [place EXCEPT ![u] = "exited"]
            /\ err' = [err EXCEPT ![u] = None]
            /\ UNCHANGED faults
       ELSE /\ Record(u, "hydrate")
            /\ file' = [file EXCEPT ![u] = NoFile]
            /\ \/ /\ ~ReadFatalRun
                  /\ err' = [err EXCEPT ![u] = None]
                  /\ place' = [place EXCEPT ![u] = "hydrating"]
                  /\ UNCHANGED faults
               \/ /\ ReadFatalRun
                  /\ err' = [err EXCEPT ![u] = "fatal"]
                  /\ place' = [place EXCEPT ![u] = "failing"]
                  /\ UNCHANGED faults
               \/ \* The datastore cannot be opened, or the marker cannot be read.
                  /\ Fault
                  /\ err' = [err EXCEPT ![u] = "infra"]
                  /\ place' = [place EXCEPT ![u] = "failing"]

PolledBeforeAuthor == {"hydrating"}

\* WithFatalRunCancellation: the poller reads the marker until the invocation settled.
PolledPlaces == {"hydrating", "author", "publishing", "settling"}

PollMarker(u) ==
    /\ place[u] \in PolledPlaces
    /\ marker # None /\ ~cancelled[u]
    /\ cancelled' = [cancelled EXCEPT ![u] = TRUE]
    /\ UNCHANGED <<collecting, list, envelopes, store, marker, place, attempt, outcome, err,
                   evidence, file, exit, killed, truth, map, collected, failedAt, hook, kills, faults>>

\* install: an embedded archive is verified against its pin and put; one published
\* before needs its pin only.
Install(embedded, pinned, put) ==
    IF ~pinned THEN "infra"
    ELSE IF ~embedded \/ put \in {"ok", "exists"} THEN "ok"
    ELSE "infra"

\* fetchSourceArchive of a pinned archive that was published before: what no retry can
\* mend is refused, any other error may be retried.
FetchSourceArchive(opened, copied) ==
    CASE opened \in {"not-found", "denied", "oversized"} -> "refused"
      [] opened = "ok" /\ copied \in {"oversized", "mismatched"} -> "refused"
      [] opened = "ok" /\ copied = "ok" -> "ok"
      [] OTHER -> "failed"

\* isolatedPreflight: findings, or a project that cannot be read, are final; a context
\* that ended during the check is not, whatever the check found.
IsolatedPreflight(u, fetched, extracted, checked, recorded) ==
    IF fetched = "refused" \/ (fetched = "ok" /\ ~extracted) THEN "preflight"
    ELSE IF fetched = "failed" \/ cancelled[u] THEN "infra"
    ELSE IF checked \in {"project", "findings"} THEN "preflight"
    ELSE IF checked = "ok" /\ recorded THEN "ok"
    ELSE "infra"

\* The ends of a preparation: of the puts before the runner, and of its preflight.
InstallEnds(embedded) ==
    {Install(embedded, pinned, put) : pinned \in BOOLEAN, put \in {"ok", "exists", "error"}}

PreflightEnds(u, embedded) ==
    LET fetched == IF embedded THEN {"ok"}
                   ELSE {FetchSourceArchive(opened, copied) :
                            opened \in {"ok", "not-found", "denied", "oversized", "error"},
                            copied \in {"ok", "short", "error", "oversized", "mismatched"}}
    IN  {IsolatedPreflight(u, f, extracted, checked, recorded) :
            f \in fetched, extracted \in BOOLEAN, recorded \in BOOLEAN,
            checked \in {"ok", "project", "findings", "error"}}

\* Schemas, archives and the input are put and the interpreter is checked before the
\* runner starts.
PrepareFails(u) ==
    /\ place[u] = "hydrating" /\ Fault
    /\ \E embedded \in BOOLEAN :
        \E why \in (InstallEnds(embedded) \cup PreflightEnds(u, embedded)) \ {"ok"} :
            outcome' = [outcome EXCEPT ![u] = why]
    /\ place' = [place EXCEPT ![u] = "settling"]
    /\ UNCHANGED <<collecting, list, envelopes, store, marker, attempt, cancelled, err, evidence,
                   file, exit, killed, truth, map, collected, failedAt, hook, kills>>

\* The runner calls author code.
EnterAuthor(u) ==
    /\ place[u] = "hydrating"
    /\ place' = [place EXCEPT ![u] = "author"]
    /\ Record(u, "author")
    /\ truth' = [truth EXCEPT ![u] = "entered"]
    /\ UNCHANGED <<collecting, list, envelopes, store, marker, attempt, cancelled, outcome, err,
                   file, exit, killed, map, collected, failedAt, hook, kills, faults>>

\* Author code returns or raises; what follows is the runner's work again.
AuthorReturns(u, end) ==
    /\ place[u] = "author"
    /\ place' = [place EXCEPT ![u] = "publishing"]
    /\ Record(u, "publish")
    /\ truth' = [truth EXCEPT ![u] = end]
    /\ UNCHANGED <<collecting, list, envelopes, store, marker, attempt, cancelled, outcome, err,
                   file, exit, killed, map, collected, failedAt, hook, kills, faults>>

\* runIsolatedInvocation once the process has ended. A runner that died of a signal must
\* have died in author code. InvokeSteps returns the context's error even beside a
\* success, which is then dropped; otherwise a success is read back from the store.
IsolatedOutcome(u, result, written, verified) ==
    LET o == InvokeOne(result, written, cancelled[u], result = "deadline") IN
    IF o = "signal" /\ IsItem(u) /\ evidence[u] # "author" THEN "infra"
    ELSE IF o = "succeeded" /\ cancelled[u] THEN "cancelled"
    ELSE IF o = "succeeded" /\ ~verified THEN "infra"
    ELSE o

InputOf(u) == IF IsItem(u) THEN DecodeItem(envelopes[u + 1], store).value ELSE ItemBody(u)

RunnerReturns(u, result, written, verified) ==
    /\ outcome' = [outcome EXCEPT ![u] = IsolatedOutcome(u, result, written, verified)]
    /\ store' = IF result = "exit0" THEN store \cup {ResultBody(u, InputOf(u))} ELSE store
    /\ Record(u, "publish")
    /\ place' = [place EXCEPT ![u] = "settling"]
    /\ UNCHANGED <<collecting, list, envelopes, marker, attempt, cancelled, err, file, exit,
                   killed, map, collected, failedAt, hook, kills>>

\* The runner publishes what author code returned, or the failure it raised.
RunnerEnds(u) ==
    /\ place[u] = "publishing"
    /\ RunnerReturns(u, truth[u], "valid", TRUE)
    /\ UNCHANGED <<truth, faults>>

\* Author code takes the process with it.
AuthorDies(u, result) ==
    /\ place[u] = "author"
    /\ truth' = [truth EXCEPT ![u] = result]
    /\ RunnerReturns(u, result, "absent", TRUE)
    /\ UNCHANGED faults

RunnerPlaces == {"hydrating", "author", "publishing"}

\* The attempt's deadline kills the runner, in author code or around it ("late").
AttemptExpires(u) ==
    /\ place[u] \in RunnerPlaces
    /\ truth' = [truth EXCEPT ![u] = IF place[u] = "author" THEN "deadline" ELSE "late"]
    /\ RunnerReturns(u, "deadline", "absent", TRUE)
    /\ UNCHANGED faults

\* The runner fails around author code: it reports so, it cannot report, an exception of
\* its own ends it ("uncaught"), it is killed, or what it published cannot be used. The
\* pipe to the process may break at any time.
BrokenEnds(u) ==
    IF place[u] = "author" THEN {"not-exit"}
    ELSE {"descriptor", "schema", "exit70", "other", "signal", "not-exit"}

RunnerBreaks(u) ==
    /\ place[u] \in RunnerPlaces /\ Fault
    /\ \/ \E result \in BrokenEnds(u) :
            /\ RunnerReturns(u, result, IF result \in DiagnosticExits THEN "valid" ELSE "absent", TRUE)
            /\ truth' = [truth EXCEPT ![u] = CASE result = "exit70" -> "exit70"
                                               [] result = "other" -> "uncaught"
                                               [] OTHER -> "broken"]
       \/ /\ place[u] = "publishing"
          /\ RunnerReturns(u, truth[u], "invalid", FALSE)
          /\ truth' = [truth EXCEPT ![u] = "broken"]

\* The cancelled context kills the runner's process group.
RunnerCancelled(u) ==
    /\ place[u] \in RunnerPlaces /\ cancelled[u]
    /\ RunnerReturns(u, "signal", "absent", TRUE)
    /\ truth' = [truth EXCEPT ![u] = "broken"]
    /\ UNCHANGED faults

SettledErrorCancelFirst(u) ==
    IF cancelled[u] THEN "fatal" ELSE IF outcome[u] = "succeeded" THEN None ELSE outcome[u]

\* settleRuntimeInvocation: a failure under a cancelled context is the run's fatal
\* failure; a success is kept.
SettledError(u) ==
    IF outcome[u] = "succeeded" THEN None
    ELSE IF cancelled[u] THEN "fatal"
    ELSE outcome[u]

\* InvocationFailure.Retryable and the failure a collecting map keeps.
Retryable(u, e) == attempt[u] < MaxAttempts /\ RetryableOutcome(e)

KeptFailure(u, e) == IsItem(u) /\ collecting /\ ~Retryable(u, e) /\ MapItemFailure(e)

\* A fatal error is published before the pod reports anything; the first cause stays.
\* Only a success and a failure the map keeps are results, any other error leaves the
\* command.
SettleRuntimeInvocation(u) ==
    /\ place[u] = "settling"
    /\ err' = [err EXCEPT ![u] = SettledError(u)]
    /\ place' = [place EXCEPT ![u] =
                    IF SettledError(u) = None \/ KeptFailure(u, SettledError(u))
                    THEN "reporting" ELSE "failing"]
    /\ \/ /\ marker' = IF SettledError(u) = "fatal" /\ marker = None THEN NodeOf(u) ELSE marker
          /\ UNCHANGED faults
       \/ SettledError(u) = "fatal" /\ marker = None /\ Fault /\ UNCHANGED marker
    /\ UNCHANGED <<collecting, list, envelopes, store, attempt, cancelled, outcome, evidence, file,
                   exit, killed, truth, map, collected, failedAt, hook, kills>>

\* RuntimeMapItemCommand.Run and reportFailure after the invocation.
Report(u) ==
    /\ place[u] = "reporting"
    /\ IF err[u] = None
       THEN /\ file' = [file EXCEPT ![u] =
                           IF IsItem(u) THEN EncodePublishedItemResult(u, ResultBody(u, InputOf(u)))
                           ELSE EncodePublished(ResultBody(u, InputOf(u)))]
            /\ UNCHANGED store
       ELSE LET failure == NewFailure(FailureKind(err[u]), attempt[u]) IN
            /\ file' = [file EXCEPT ![u] = EncodeItemFailure(u, failure)]
            /\ store' = store \cup Published(failure, ItemInlineLimit)
    /\ place' = [place EXCEPT ![u] = "exited"]
    /\ UNCHANGED <<collecting, list, envelopes, marker, attempt, cancelled, outcome, err, evidence,
                   exit, killed, truth, map, collected, failedAt, hook, kills, faults>>

\* A result or a failure record that cannot be stored or written fails the pod.
ReportFails(u) ==
    /\ place[u] = "reporting" /\ Fault
    /\ err' = [err EXCEPT ![u] = "infra"]
    /\ place' = [place EXCEPT ![u] = "failing"]
    /\ UNCHANGED <<collecting, list, envelopes, store, marker, attempt, cancelled, outcome,
                   evidence, file, exit, killed, truth, map, collected, failedAt, hook, kills>>

ExitCodeFor(e) ==
    CASE e = "fatal" -> 69
      [] e = "preflight" -> 68
      [] e = "timeout" -> 124
      [] e = "descriptor" -> 64
      [] e = "schema" -> 65
      [] e = "step" -> 66
      [] e = "nonretryable" -> 67
      [] e = "other" -> 3
      [] OTHER -> 1

\* The deferred report of a failed item: fatal evidence first, then the envelope.
FailItem(u) ==
    /\ place[u] = "failing"
    /\ IF IsItem(u) /\ evidence[u] # "fatal"
       THEN Record(u, "fatal") /\ UNCHANGED <<file, exit, place>>
       ELSE /\ file' = IF IsItem(u) THEN [file EXCEPT ![u] = FatalItemEnvelope] ELSE file
            /\ exit' = [exit EXCEPT ![u] = ExitCodeFor(err[u])]
            /\ place' = [place EXCEPT ![u] = "exited"]
            /\ UNCHANGED evidence
    /\ UNCHANGED <<collecting, list, envelopes, store, marker, attempt, cancelled, outcome, err,
                   killed, truth, map, collected, failedAt, hook, kills, faults>>

Alive(u) == place[u] \notin {"waiting", "done"} /\ killed[u] = None

\* The container dies with everything in it: out of memory, or its node evicts it, in
\* which case the executor captures no result.
KillContainer(u, how) ==
    /\ Alive(u) /\ kills < MaxKills
    /\ kills' = kills + 1
    /\ killed' = [killed EXCEPT ![u] = how]
    /\ file' = IF how = "evicted" THEN [file EXCEPT ![u] = NoFile] ELSE file
    /\ exit' = [exit EXCEPT ![u] = 137]
    /\ place' = [place EXCEPT ![u] = "exited"]
    /\ UNCHANGED <<collecting, list, envelopes, store, marker, attempt, cancelled, outcome, err,
                   evidence, truth, map, collected, failedAt, hook, faults>>

-----------------------------------------------------------------------------
(* The controller.                                                         *)

ItemFailed == \E i \in Items : place[i] = "done" /\ exit[i] # 0

Schedule(u) ==
    /\ place[u] = "waiting"
    /\ IsItem(u) => /\ map = "running" /\ u \in Items
                    /\ Cardinality({i \in Items : place[i] \notin {"waiting", "done"}}) < Parallelism
                    /\ collecting \/ ~ItemFailed
    /\ StartPod(u, 1)
    /\ UNCHANGED <<collecting, list, envelopes, store, marker, map, collected, failedAt, hook, kills>>

\* retryStrategy: limit, policy Always, and the exits that are final.
RunnerNonRetryableExitCodes == {64, 65, 67, 68, 69, 70}

MayRetry(u) ==
    exit[u] # 0 /\ attempt[u] < MaxAttempts /\ exit[u] \notin RunnerNonRetryableExitCodes

RetryPod(u) ==
    /\ place[u] = "exited" /\ MayRetry(u)
    /\ StartPod(u, attempt[u] + 1)
    /\ UNCHANGED <<collecting, list, envelopes, store, marker, map, collected, failedAt, hook, kills>>

\* A clock that ticks between two failures or does not.
FailTask(task) ==
    LET latest == IF failedAt["step"] > failedAt["map"] THEN failedAt["step"] ELSE failedAt["map"]
    IN  \E now \in {latest, latest + 1} \ {0} : failedAt' = [failedAt EXCEPT ![task] = now]

PodDone(u) ==
    /\ place[u] = "exited" /\ ~MayRetry(u)
    /\ place' = [place EXCEPT ![u] = "done"]
    /\ IF u = Step /\ exit[u] # 0 THEN FailTask("step") ELSE UNCHANGED failedAt
    /\ UNCHANGED <<collecting, list, envelopes, store, marker, attempt, cancelled, outcome, err,
                   evidence, file, exit, killed, truth, map, collected, hook, kills, faults>>

MapEnds(phase, result) ==
    /\ map' = phase
    /\ collected' = result
    /\ IF phase = "Failed" THEN FailTask("map") ELSE UNCHANGED failedAt

\* Control pods run once.
ControlPodFails ==
    /\ Fault
    /\ \/ map = "expanding"
       \/ map = "running" /\ \A i \in Items : place[i] = "done"
    /\ MapEnds("Failed", <<>>)
    /\ UNCHANGED <<collecting, list, envelopes, store, marker, podVars, hook, kills>>

Expand ==
    /\ map = "expanding"
    /\ LET items == ExpandItems(EncodePublished(list), store) IN
       IF items.error = "none"
       THEN /\ envelopes' = items.value /\ map' = "running"
            /\ UNCHANGED <<collected, failedAt>>
       ELSE MapEnds("Failed", <<>>) /\ UNCHANGED envelopes
    /\ UNCHANGED <<collecting, list, store, marker, podVars, hook, kills, faults>>

\* mapItemOutcomeExpression: the envelope of the last attempt, or its pod.
ItemOutcome(i) == IF file[i] = NoFile THEN LostEnvelope(i) ELSE file[i]
Aggregate == [p \in 1..Len(envelopes) |-> ItemOutcome(p - 1)]

EstablishedByKill(i) == killed[i] = "oom"

\* missingItemFailure: what the scheduler's records establish about a pod that left
\* no envelope.
EstablishedFailure(i) ==
    /\ killed[i] = "oom"
    /\ evidence[i] = "author"

ReadMissingItemFailures(pods) == [i \in pods |-> NewFailure("killed", attempt[i])]

AllItemsDone == map = "running" /\ \A i \in Items : place[i] = "done"

CollectItemOutcomes ==
    /\ AllItemsDone /\ collecting
    /\ LET missing == MissingOutcomeNodes(Aggregate)
           result == IF \A i \in missing : EstablishedFailure(i)
                     THEN CollectOutcomes(Aggregate, MaxAttempts,
                                          ReadMissingItemFailures(missing), store)
                     ELSE Err("lost")
       IN  MapEnds(IF result.error = "none" THEN "Succeeded" ELSE "Failed", result.value)
    /\ UNCHANGED <<collecting, list, envelopes, store, marker, podVars, hook, kills, faults>>

CollectItemResults ==
    /\ AllItemsDone /\ ~collecting /\ ~ItemFailed
    /\ LET result == CollectResults(Aggregate, store)
       IN  MapEnds(IF result.error = "none" THEN "Succeeded" ELSE "Failed", result.value)
    /\ UNCHANGED <<collecting, list, envelopes, store, marker, podVars, hook, kills, faults>>

\* A map that does not collect fails with its first failed item, once the items it
\* started have ended.
MapFails ==
    /\ map = "running" /\ ~collecting /\ ItemFailed
    /\ \A i \in Items : place[i] \in {"waiting", "done"}
    /\ MapEnds("Failed", <<>>)
    /\ UNCHANGED <<collecting, list, envelopes, store, marker, podVars, hook, kills, faults>>

-----------------------------------------------------------------------------
(* The exit hook.                                                          *)

Settled == map \in {"Succeeded", "Failed"} /\ place[Step] = "done"

FailedTasks == {t \in {"step", "map"} : failedAt[t] > 0}

\* ExitStatus: the earliest failed task, none if two failed in the same second.
ExitStatus ==
    LET first == {t \in FailedTasks : \A s \in FailedTasks : failedAt[t] <= failedAt[s]}
    IN  [status |-> IF FailedTasks = {} THEN "succeeded" ELSE "failed",
         failedNode |-> IF Cardinality(first) = 1 THEN CHOOSE t \in first : TRUE ELSE None,
         fatal |-> None]

\* RuntimeExitHookCommand: the marker, if one of three reads succeeds, overrides.
ExitHook ==
    /\ Settled /\ hook = NoHook
    /\ \/ /\ hook' = IF marker = None THEN ExitStatus
                     ELSE [status |-> "failed", failedNode |-> marker, fatal |-> marker]
          /\ UNCHANGED faults
       \/ Fault /\ hook' = ExitStatus
    /\ UNCHANGED <<collecting, list, envelopes, store, marker, podVars, map, collected, failedAt,
                   kills>>

-----------------------------------------------------------------------------
Prompt(u) ==
    \/ Schedule(u) \/ RetryPod(u) \/ PodDone(u)
    \/ PollMarker(u) \/ RunnerCancelled(u)
    \/ SettleRuntimeInvocation(u) \/ Report(u) \/ FailItem(u)

Unhurried(u) ==
    \/ EnterAuthor(u) \/ PrepareFails(u) \/ RunnerBreaks(u) \/ ReportFails(u)
    \/ RunnerEnds(u)
    \/ \E end \in AuthorEnds \cap {"exit0", "step", "nonretryable", "fatal"} : AuthorReturns(u, end)
    \/ \E result \in AuthorEnds \cap {"signal", "other"} : AuthorDies(u, result)
    \/ "deadline" \in AuthorEnds /\ AttemptExpires(u)
    \/ \E how \in {"oom", "evicted"} : KillContainer(u, how)

MapStep == Expand \/ CollectItemOutcomes \/ CollectItemResults \/ MapFails

Over == hook # NoHook /\ UNCHANGED vars

Next == (\E u \in Units : Prompt(u) \/ Unhurried(u)) \/ ControlPodFails \/ MapStep \/ ExitHook \/ Over

Spec == Init /\ [][Next]_vars

\* Pods, pollers and the controller make progress; author code need not.
FairSpec == Spec /\ WF_vars(MapStep) /\ WF_vars(ExitHook) /\ \A u \in Units : WF_vars(Prompt(u))

-----------------------------------------------------------------------------
(* Properties.                                                             *)

\* What ended an item's last attempt, against the record kept of it.
Explains(i, failure) ==
    CASE failure.kind = "killed" -> truth[i] \in {"entered", "signal"}
      [] failure.kind = "timeout" -> truth[i] \in {"deadline", "late"}
      [] failure.kind = "non-retryable" -> truth[i] = "nonretryable"
      [] OTHER -> truth[i] \in {"step", "other", "uncaught"}

\* The list a map task returns holds, in source order, the value author code computed
\* for each item or, when the map collects, a failure after the last attempt that says
\* what ended it: "killed" and "non-retryable" are author code's own, "timeout" is the
\* attempt's deadline, "error" an exception of author code or an unstructured exit of
\* the process. No kill outside author code, store fault or lost container gets in.
CollectedIsTruthful ==
    map = "Succeeded" =>
        /\ Len(collected) = Len(list.items)
        /\ \A p \in DOMAIN collected :
              \/ truth[p - 1] = "exit0" /\ collected[p] = ResultBody(p - 1, list.items[p])
              \/ /\ collecting /\ collected[p].what = "failure"
                 /\ Explains(p - 1, collected[p])
                 /\ collected[p].attempts = attempt[p - 1]
                 /\ collected[p].kind = "non-retryable" \/ attempt[p - 1] = MaxAttempts

\* A run whose fatal marker was published fails and its exit hook is told so, even when
\* the pod that published it dies before it reports, or a retry finds the marker.
FatalRunFails ==
    marker # None => /\ Settled => FailedTasks # {}
                     /\ hook.status # "succeeded"
                     /\ hook.fatal \in {None, marker}

\* settleRuntimeInvocation: what the invocation returned is kept, whatever the poller
\* finds, and lost only if it cannot be reported; and an output that the runner
\* published is lost before that only to the run's fatal marker, which is there.
SuccessIsKept ==
    \A u \in Units : place[u] = "done" /\ killed[u] = None =>
        /\ outcome[u] = "succeeded" => exit[u] = 0 \/ err[u] = "infra"
        /\ truth[u] = "exit0" => outcome[u] = "succeeded" \/ (marker # None /\ err[u] = "fatal")

\* "A late sibling fatal must not discard output that the invocation successfully
\* published": a runner that published its output and exited 0 makes its pod succeed.
PublishedIsKept ==
    \A u \in Units : place[u] = "done" /\ killed[u] = None /\ truth[u] = "exit0" => exit[u] = 0

\* Once the marker is there the run comes to its end, author code that never returns
\* included: pollers cancel it.
FatalStopsRun == marker # None ~> hook # NoHook

\* "runner-result publication (70) failures stop immediately": the attempt in which the
\* runner exited 70 is the last.
PublicationFailureStops ==
    [][\A u \in Units : truth[u] = "exit70" => attempt'[u] = attempt[u]]_vars
==============================================================================
