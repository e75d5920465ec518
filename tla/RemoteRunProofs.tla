--------------------------- MODULE RemoteRunProofs ---------------------------
(***************************************************************************)
(* TLAPS proofs about a workflow on Argo (RemoteRun): what a pod's place   *)
(* says of its evidence, its result file, its exit code and the author     *)
(* code it ran, and from it that a published fatal marker fails the run,   *)
(* which successes are kept, and what the entries of a map's result stand  *)
(* for.                                                                    *)
(***************************************************************************)
EXTENDS RemoteRun, WellFoundedInduction, TLAPS

Live == {"hydrating", "author", "publishing", "settling", "reporting", "failing"}
Places == Live \cup {"waiting", "exited", "done"}
Ends == Outcomes \cup {None, "preflight"}
Truths == ProcessResults \cup {None, "entered", "deadline", "late", "uncaught", "broken"}

\* How author code can hand over to the runner's own work.
Handed == {"exit0", "step", "nonretryable", "fatal"}

TypeOK ==
    /\ collecting \in BOOLEAN
    /\ marker \in {None, "step", "map"}
    /\ place \in [Units -> Places]
    /\ attempt \in [Units -> 0..MaxAttempts]
    /\ cancelled \in [Units -> BOOLEAN]
    /\ outcome \in [Units -> Ends]
    /\ err \in [Units -> Ends]
    /\ evidence \in [Units -> {None, "hydrate", "author", "publish", "fatal"}]
    /\ DOMAIN file = Units
    /\ exit \in [Units -> Nat]
    /\ killed \in [Units -> {None, "oom", "evicted"}]
    /\ truth \in [Units -> Truths]
    /\ \A u \in Units : place[u] = "publishing" => truth[u] \in Handed
    /\ map \in {"expanding", "running", "Succeeded", "Failed"}
    /\ failedAt \in [{"step", "map"} -> Nat]
    /\ kills \in Nat /\ faults \in Nat

\* The map's input, published, and the envelopes the expand pod makes of it.
ItemEnvelope(p) ==
    IF list.size > InlineLimit THEN [tag |-> "listRef", index |-> p - 1, ref |-> RefFor(list)]
    ELSE [tag |-> "value", index |-> p - 1, body |-> ItemBody(p - 1)]

ListInv ==
    \E n \in 0..MaxItems :
        /\ list = ListOf(n) /\ list \in store
        /\ \/ envelopes = <<>> /\ map \in {"expanding", "Failed"}
           \/ n = 0 /\ envelopes = <<EmptyMarker>> /\ map # "expanding"
           \/ n > 0 /\ envelopes = [p \in 1..n |-> ItemEnvelope(p)] /\ map # "expanding"

\* The ends an outcome can stand for: an attempt's deadline, and an unstructured exit of
\* the process, need not be author code's.
TruthsOf(o) ==
    CASE o = "succeeded" -> {"exit0"}
      [] o = "timeout" -> {"deadline", "late"}
      [] o = "other" -> {"other", "uncaught"}
      [] OTHER -> {o}

KeptOutcomes == {"succeeded", "timeout", "nonretryable", "signal", "step", "other"}

\* Any pod: a success is not lost on the way to its exit code unless it cannot be
\* reported, and an output the runner published becomes a success unless the poller
\* cancelled the invocation first.
ExitInv(u) ==
    /\ place[u] \in Live => exit[u] = 0 /\ killed[u] = None
    /\ place[u] \in RunnerPlaces => outcome[u] = None
    /\ place[u] = "settling" => outcome[u] # None
    /\ outcome[u] = "succeeded" /\ killed[u] = None =>
        \/ place[u] = "settling"
        \/ place[u] = "reporting" /\ err[u] = None
        \/ place[u] = "failing" /\ err[u] = "infra"
        \/ place[u] \in {"exited", "done"} /\ (exit[u] = 0 \/ err[u] = "infra")
    /\ truth[u] = "exit0" /\ killed[u] = None =>
        place[u] = "publishing" \/ outcome[u] \in {"succeeded", "cancelled"}
    /\ outcome[u] = "cancelled" => cancelled[u]
    /\ outcome[u] = "cancelled" /\ killed[u] = None =>
        place[u] = "settling" \/ (place[u] \in {"failing", "exited", "done"} /\ err[u] = "fatal")
    /\ cancelled[u] => marker # None
    /\ killed[u] # None => /\ place[u] \in {"exited", "done"} /\ exit[u] = 137
                           /\ place[u] = "done" => attempt[u] = MaxAttempts

\* A failure the map keeps, after the last attempt.
Final(u, o) ==
    /\ collecting /\ o \in KeptOutcomes \ {"succeeded"}
    /\ truth[u] \in TruthsOf(o)
    /\ o = "nonretryable" \/ attempt[u] = MaxAttempts

\* The result file of an item pod.
FileInv(u) ==
    IF IsEmptyItem(u) THEN file[u] \in {NoFile, EmptyMarker}
    ELSE \/ file[u] \in {NoFile, FatalItemEnvelope}
         \/ /\ truth[u] = "exit0"
            /\ file[u] = EncodePublishedItemResult(u, ResultBody(u, ItemBody(u)))
         \/ \E o \in KeptOutcomes :
                /\ Final(u, o)
                /\ file[u] = EncodeItemFailure(u, NewFailure(FailureKind(o), attempt[u]))

\* An item pod: its termination log, its outcome and what ended its attempt.
ItemInv(u) ==
    /\ place[u] # "waiting" => u \in Items
    /\ place[u] = "waiting" => file[u] = NoFile
    /\ place[u] \in Live => file[u] = NoFile /\ ~IsEmptyItem(u)
    /\ evidence[u] = "author" =>
        /\ truth[u] = "entered" /\ u \in Items /\ ~IsEmptyItem(u)
        /\ place[u] = "author" \/ (place[u] \in {"exited", "done"} /\ killed[u] # None)
    /\ place[u] = "author" => evidence[u] = "author"
    /\ outcome[u] \in KeptOutcomes => truth[u] \in TruthsOf(outcome[u])
    /\ place[u] = "reporting" =>
        \/ err[u] = None /\ outcome[u] = "succeeded"
        \/ err[u] = outcome[u] /\ Final(u, err[u])
    /\ u \in Items => FileInv(u)

PodInv == \A u \in Units : ExitInv(u) /\ (IsItem(u) => ItemInv(u))

\* Once a map has ended no item pod runs.
Quiet ==
    /\ map \in {"Succeeded", "Failed"} =>
        \A u \in Units : IsItem(u) => place[u] \in {"waiting", "done"}
    /\ map = "Succeeded" => \A i \in Items : place[i] = "done"

\* A pod that is bound to fail, and whose failure no collector keeps.
Doomed(u) ==
    /\ place[u] = "failing" \/ (place[u] \in {"exited", "done"} /\ exit[u] # 0)
    /\ IsItem(u) => /\ u \in Items /\ ~IsEmptyItem(u)
                    /\ evidence[u] # "author" /\ file[u] \in {NoFile, FatalItemEnvelope}

FatalInv ==
    /\ marker # None => \E u \in Units : NodeOf(u) = marker /\ Doomed(u)
    /\ place[Step] = "done" /\ exit[Step] # 0 => failedAt["step"] > 0
    /\ map = "Failed" => failedAt["map"] > 0
    /\ map = "Succeeded" => \A i \in Items : ~Doomed(i)

HookInv ==
    hook # NoHook =>
        /\ Settled
        /\ marker # None => hook.status = "failed" /\ hook.fatal \in {None, marker}

-----------------------------------------------------------------------------
\* Types.

LEMMA UnitFacts ==
    /\ Step \in Units /\ ~IsItem(Step)
    /\ \A u \in Units : IsItem(u) <=> u \in Nat
    /\ \A u \in Units : u \in Int /\ (IsItem(u) => u + 1 \in 1..MaxItems)
    /\ MaxItems \in Nat \ {0} /\ MaxAttempts \in Nat \ {0}
BY RemoteAssumption DEF Units, Step, IsItem

\* What a runner came to is an outcome.
LEMMA OutcomeType ==
    ASSUME NEW u \in Units, NEW result \in ProcessResults \cup {"deadline"}, NEW written, NEW verified
    PROVE  IsolatedOutcome(u, result, written, verified) \in Outcomes
BY DEF IsolatedOutcome, InvokeOne, Outcomes, FailedOutcomes, DiagnosticExits, ProcessResults

LEMMA PreparedOutcome ==
    ASSUME NEW u, PrepareFails(u)
    PROVE  \E why \in {"infra", "preflight"} : outcome' = [outcome EXCEPT ![u] = why]
<1>1. \A embedded, pinned, put : Install(embedded, pinned, put) \in {"ok", "infra"}
  BY DEF Install
<1>2. \A f, extracted, checked, recorded :
        IsolatedPreflight(u, f, extracted, checked, recorded) \in {"ok", "infra", "preflight"}
  BY DEF IsolatedPreflight
<1>3. \A e \in BOOLEAN : InstallEnds(e) \subseteq {"ok", "infra"}
  BY <1>1 DEF InstallEnds
<1>4. \A e \in BOOLEAN : PreflightEnds(u, e) \subseteq {"ok", "infra", "preflight"}
  BY <1>2 DEF PreflightEnds
<1>5. QED
  BY <1>3, <1>4 DEF PrepareFails

\* The steps in which a runner returns.
RunnerStep(u) ==
    \/ RunnerCancelled(u) \/ RunnerBreaks(u) \/ RunnerEnds(u) \/ AttemptExpires(u)
    \/ \E result \in {"signal", "other"} : AuthorDies(u, result)

LEMMA RunnerStepIs ==
    ASSUME TypeOK, NEW u \in Units, RunnerStep(u)
    PROVE  /\ place[u] \in RunnerPlaces /\ faults' \in Nat
           /\ \E result \in ProcessResults \cup {"deadline"}, written \in FailureFiles, verified \in BOOLEAN :
                RunnerReturns(u, result, written, verified)
           /\ \E t \in Truths : truth' = [truth EXCEPT ![u] = t]
<1>1. CASE RunnerCancelled(u)
  BY <1>1 DEF TypeOK, RunnerCancelled, ProcessResults, Truths, FailureFiles
<1>2. CASE RunnerBreaks(u)
  <2>1. place[u] \in RunnerPlaces /\ faults' \in Nat
    BY <1>2 DEF TypeOK, RunnerBreaks, Fault
  <2>2. BrokenEnds(u) \subseteq ProcessResults
    BY DEF BrokenEnds, ProcessResults, DiagnosticExits
  <2>3. place[u] = "publishing" => truth[u] \in ProcessResults
    BY DEF TypeOK, Handed, ProcessResults, DiagnosticExits
  <2>4. \E result \in ProcessResults, written \in FailureFiles, verified \in BOOLEAN :
            RunnerReturns(u, result, written, verified)
    <3>1. ASSUME NEW result \in BrokenEnds(u),
                 RunnerReturns(u, result, IF result \in DiagnosticExits THEN "valid" ELSE "absent", TRUE)
          PROVE  \E written \in FailureFiles : RunnerReturns(u, result, written, TRUE)
      BY <3>1 DEF FailureFiles
    <3>2. "invalid" \in FailureFiles
      BY DEF FailureFiles
    <3>3. QED
      BY <1>2, <2>2, <2>3, <3>1, <3>2 DEF RunnerBreaks
  <2>5. \E t \in {"exit70", "uncaught", "broken"} : truth' = [truth EXCEPT ![u] = t]
    BY <1>2 DEF RunnerBreaks
  <2>6. QED
    BY <2>1, <2>4, <2>5 DEF Truths, ProcessResults
<1>3. CASE RunnerEnds(u)
  <2>1. place[u] = "publishing" /\ truth[u] \in ProcessResults /\ truth' = [truth EXCEPT ![u] = truth[u]]
    BY <1>3 DEF TypeOK, RunnerEnds, Handed, ProcessResults, DiagnosticExits
  <2>2. RunnerReturns(u, truth[u], "valid", TRUE) /\ faults' \in Nat
    BY <1>3 DEF TypeOK, RunnerEnds
  <2>3. QED
    BY <2>1, <2>2 DEF RunnerPlaces, Truths, FailureFiles
<1>4. CASE AttemptExpires(u)
  BY <1>4 DEF TypeOK, AttemptExpires, Truths, FailureFiles
<1>5. ASSUME NEW result \in {"signal", "other"}, AuthorDies(u, result)
      PROVE  /\ place[u] \in RunnerPlaces /\ faults' \in Nat
             /\ RunnerReturns(u, result, "absent", TRUE) /\ result \in ProcessResults
             /\ truth' = [truth EXCEPT ![u] = result] /\ result \in Truths
  BY <1>5 DEF TypeOK, AuthorDies, RunnerPlaces, ProcessResults, Truths
<1>6. QED
  BY <1>1, <1>2, <1>3, <1>4, <1>5 DEF RunnerStep, FailureFiles

LEMMA InitType == ASSUME Init PROVE TypeOK
BY UnitFacts DEF Init, TypeOK, Places, Live, Ends, Truths, Outcomes, None

LEMMA StartType ==
    ASSUME TypeOK, NEW u \in Units, NEW n \in 1..MaxAttempts, StartPod(u, n)
    PROVE  /\ place' \in [Units -> Places] /\ attempt' \in [Units -> 0..MaxAttempts]
           /\ cancelled' \in [Units -> BOOLEAN] /\ outcome' \in [Units -> Ends]
           /\ err' \in [Units -> Ends]
           /\ evidence' \in [Units -> {None, "hydrate", "author", "publish", "fatal"}]
           /\ DOMAIN file' = Units /\ exit' \in [Units -> Nat]
           /\ killed' \in [Units -> {None, "oom", "evicted"}]
           /\ truth' \in [Units -> Truths] /\ faults' \in Nat
           /\ \A v \in Units : place'[v] = "publishing" => truth'[v] \in Handed
<1>1. /\ attempt' \in [Units -> 0..MaxAttempts] /\ cancelled' \in [Units -> BOOLEAN]
      /\ outcome' \in [Units -> Ends] /\ exit' \in [Units -> Nat]
      /\ killed' \in [Units -> {None, "oom", "evicted"}] /\ truth' \in [Units -> Truths]
  BY UnitFacts DEF TypeOK, StartPod, Ends, Truths
<1>2. DOMAIN file' = Units
  BY DEF TypeOK, StartPod
<1>3. evidence' \in [Units -> {None, "hydrate", "author", "publish", "fatal"}]
  BY DEF TypeOK, StartPod, Record
<1>4. place' \in [Units -> Places]
  BY DEF TypeOK, StartPod, Places, Live
<1>5. err' \in [Units -> Ends] /\ faults' \in Nat
  BY DEF TypeOK, StartPod, Fault, Ends, Outcomes, FailedOutcomes, DiagnosticExits
<1>6. /\ place'[u] # "publishing"
      /\ \A v \in Units \ {u} : place'[v] = place[v] /\ truth'[v] = truth[v]
  BY DEF TypeOK, StartPod
<1>7. QED
  BY <1>1, <1>2, <1>3, <1>4, <1>5, <1>6 DEF TypeOK

LEMMA ReturnType ==
    ASSUME TypeOK, NEW u \in Units, NEW result \in ProcessResults \cup {"deadline"}, NEW written,
           NEW verified, RunnerReturns(u, result, written, verified)
    PROVE  /\ outcome' \in [Units -> Ends] /\ place' = [place EXCEPT ![u] = "settling"]
           /\ evidence' \in [Units -> {None, "hydrate", "author", "publish", "fatal"}]
           /\ UNCHANGED <<collecting, list, envelopes, marker, attempt, cancelled, err, file, exit,
                          killed, map, collected, failedAt, hook, kills>>
<1>1. PICK o \in Outcomes : o = IsolatedOutcome(u, result, written, verified)
  BY OutcomeType
<1>2. outcome' = [outcome EXCEPT ![u] = o] /\ o \in Ends
  BY <1>1 DEF RunnerReturns, Ends
<1>3. QED
  BY <1>2 DEF TypeOK, RunnerReturns, Record

\* A task that fails gets its time, the other keeps its own.
LEMMA FailTaskIs ==
    ASSUME TypeOK, NEW task \in {"step", "map"}, FailTask(task)
    PROVE  /\ failedAt' \in [{"step", "map"} -> Nat]
           /\ failedAt'[task] > 0
           /\ \A t \in {"step", "map"} \ {task} : failedAt'[t] = failedAt[t]
BY DEF TypeOK, FailTask

LEMMA TypeStep == ASSUME TypeOK, [Next]_vars PROVE TypeOK'
<1> USE UnitFacts
<1>1. ASSUME NEW u \in Units, Schedule(u) PROVE TypeOK'
  BY <1>1, StartType DEF TypeOK, Schedule
<1>2. ASSUME NEW u \in Units, RetryPod(u) PROVE TypeOK'
  <2>1. PICK n \in 1..MaxAttempts : n = attempt[u] + 1
    BY <1>2 DEF TypeOK, RetryPod, MayRetry
  <2>2. StartPod(u, n)
    BY <1>2, <2>1 DEF RetryPod
  <2>3. QED
    BY <1>2, <2>2, StartType DEF TypeOK, RetryPod
<1>3. ASSUME NEW u \in Units, PodDone(u) PROVE TypeOK'
  BY <1>3, FailTaskIs DEF TypeOK, PodDone, Places
<1>4. ASSUME NEW u \in Units, PollMarker(u) PROVE TypeOK'
  BY <1>4 DEF TypeOK, PollMarker
<1>5. ASSUME NEW u \in Units, RunnerStep(u) PROVE TypeOK'
  <2>1. /\ faults' \in Nat
        /\ \E result \in ProcessResults \cup {"deadline"}, written \in FailureFiles, verified \in BOOLEAN :
                RunnerReturns(u, result, written, verified)
        /\ \E t \in Truths : truth' = [truth EXCEPT ![u] = t]
    BY <1>5, RunnerStepIs
  <2>2. /\ outcome' \in [Units -> Ends]
        /\ evidence' \in [Units -> {None, "hydrate", "author", "publish", "fatal"}]
        /\ place' = [place EXCEPT ![u] = "settling"]
        /\ UNCHANGED <<collecting, list, envelopes, marker, attempt, cancelled, err, file, exit,
                       killed, map, collected, failedAt, hook, kills>>
    BY <2>1, ReturnType
  <2>3. QED
    BY <2>1, <2>2 DEF TypeOK, Places, Live
<1>6. ASSUME NEW u \in Units, SettleRuntimeInvocation(u) PROVE TypeOK'
  <2>1. SettledError(u) \in Ends
    BY DEF TypeOK, SettledError, Ends, Outcomes, FailedOutcomes, DiagnosticExits
  <2>2. NodeOf(u) \in {"step", "map"}
    BY DEF NodeOf
  <2>3. QED
    BY <1>6, <2>1, <2>2 DEF TypeOK, SettleRuntimeInvocation, Places, Live, Fault
<1>7. ASSUME NEW u \in Units, Report(u) PROVE TypeOK'
  <2>1. DOMAIN file' = Units
    BY <1>7 DEF TypeOK, Report
  <2>2. QED
    BY <1>7, <2>1 DEF TypeOK, Report, Places
<1>8. ASSUME NEW u \in Units, FailItem(u) PROVE TypeOK'
  <2>1. ExitCodeFor(err[u]) \in Nat
    BY DEF ExitCodeFor
  <2>2. QED
    BY <1>8, <2>1 DEF TypeOK, FailItem, Record, Places
<1>9. ASSUME NEW u \in Units, EnterAuthor(u) PROVE TypeOK'
  BY <1>9 DEF TypeOK, EnterAuthor, Record, Places, Live, Truths
<1>10. ASSUME NEW u \in Units, PrepareFails(u) PROVE TypeOK'
  <2>1. outcome' \in [Units -> Ends]
    BY <1>10, PreparedOutcome DEF TypeOK, Ends, Outcomes
  <2>2. QED
    BY <1>10, <2>1 DEF TypeOK, PrepareFails, Fault, Places, Live
<1>11. ASSUME NEW u \in Units, NEW end \in Handed, AuthorReturns(u, end) PROVE TypeOK'
  <2>1. Handed \subseteq Truths
    BY DEF Handed, Truths, ProcessResults, DiagnosticExits
  <2>2. QED
    BY <1>11, <2>1 DEF TypeOK, AuthorReturns, Record, Places, Live
<1>12. ASSUME NEW u \in Units, ReportFails(u) PROVE TypeOK'
  BY <1>12 DEF TypeOK, ReportFails, Fault, Places, Live, Ends, Outcomes
<1>13. ASSUME NEW u \in Units, NEW how \in {"oom", "evicted"}, KillContainer(u, how) PROVE TypeOK'
  BY <1>13 DEF TypeOK, KillContainer, Places
<1>14. CASE ControlPodFails
  <2>1. FailTask("map") /\ map' = "Failed" /\ faults' \in Nat
    BY <1>14 DEF TypeOK, ControlPodFails, MapEnds, Fault
  <2>2. QED
    BY <1>14, <2>1, FailTaskIs DEF TypeOK, ControlPodFails, podVars
<1>15. CASE Expand
  BY <1>15, FailTaskIs DEF TypeOK, Expand, MapEnds, podVars
<1>16. CASE CollectItemOutcomes
  BY <1>16, FailTaskIs DEF TypeOK, CollectItemOutcomes, MapEnds, podVars
<1>17. CASE CollectItemResults
  BY <1>17, FailTaskIs DEF TypeOK, CollectItemResults, MapEnds, podVars
<1>18. CASE MapFails
  BY <1>18, FailTaskIs DEF TypeOK, MapFails, MapEnds, podVars
<1>19. CASE ExitHook
  BY <1>19 DEF TypeOK, ExitHook, podVars, Fault
<1>20. CASE UNCHANGED vars
  BY <1>20 DEF TypeOK, vars, podVars
<1>21. QED
  BY <1>1, <1>2, <1>3, <1>4, <1>5, <1>6, <1>7, <1>8, <1>9, <1>10, <1>11, <1>12, <1>13,
     <1>14, <1>15, <1>16, <1>17, <1>18, <1>19, <1>20
     DEF Next, Prompt, Unhurried, MapStep, Over, RunnerStep, Handed

\* The controller and the pods keep their variables well typed; no attempt goes past the
\* contract's retry.maxAttempts.
THEOREM TypeCorrect == Spec => []TypeOK
<1>1. Init => TypeOK
  BY InitType
<1>2. TypeOK /\ [Next]_vars => TypeOK'
  BY TypeStep
<1>3. QED
  BY <1>1, <1>2, PTL DEF Spec

-----------------------------------------------------------------------------
\* The map's input.

LEMMA ListFacts ==
    ASSUME NEW n \in 0..MaxItems, NEW l, l = ListOf(n)
    PROVE  /\ l.items = [p \in 1..n |-> ItemBody(p - 1)] /\ Len(l.items) = n
           /\ l.items = <<>> <=> n = 0
           /\ l.size \in Nat /\ n \in Nat
<1>1. n \in Nat /\ l.size \in Nat
  BY UnitFacts, LimitsAssumption DEF ListOf
<1>2. l.items = [p \in 1..n |-> ItemBody(p - 1)]
  BY DEF ListOf
<1>3. QED
  BY <1>1, <1>2

\* expand: an envelope per item, the marker for an empty list, or an error.
LEMMA Expanded ==
    ASSUME NEW n \in 0..MaxItems, list = ListOf(n), list \in store,
           NEW result, result = ExpandItems(EncodePublished(list), store), result.error = "none"
    PROVE  IF n = 0 THEN result.value = <<EmptyMarker>>
           ELSE result.value = [p \in 1..n |-> ItemEnvelope(p)]
<1>1. /\ list.items = [p \in 1..n |-> ItemBody(p - 1)] /\ Len(list.items) = n
      /\ list.items = <<>> <=> n = 0
      /\ list.size \in Nat /\ n \in Nat
  BY ListFacts
<1> DEFINE parameter == EncodePublished(list)
<1>2. parameter.form = (IF list.size > InlineLimit THEN "ref" ELSE "inline")
  BY <1>1, LimitsAssumption DEF EncodePublished, Inline, Reference
<1>3. parameter.form = "ref" => parameter.ref = RefFor(list)
  BY <1>1, LimitsAssumption DEF EncodePublished, Inline, Reference
<1>4. Decode(parameter, store) = Ok(list)
  <2>1. Resolve(RefFor(list), store) = Ok(list)
    BY DEF Resolve, RefFor
  <2>2. list.size > InlineLimit => ParseRef(RefFor(list), InlineLimit, store) = Ok(list)
    BY <1>1, <2>1, LimitsAssumption DEF ParseRef, RefFor
  <2>3. list.size <= InlineLimit => parameter.body = list
    BY <1>1, LimitsAssumption DEF EncodePublished, Inline
  <2>4. QED
    BY <1>1, <1>2, <1>3, <2>2, <2>3, LimitsAssumption DEF Decode
<1> HIDE DEF parameter
<1>5. result = ExpandItems(parameter, store)
  BY DEF parameter
<1>6. Ok(list).error = "none" /\ Ok(list).value = list
  BY DEF Ok
<1>7. ~(Len(list.items) > MaxMapItems)
  BY <1>4, <1>5, <1>6 DEF ExpandItems, Err
<1>8. CASE n = 0
  <2>1. result = Ok(<<EmptyMarker>>)
    BY <1>1, <1>4, <1>5, <1>6, <1>7, <1>8 DEF ExpandItems
  <2>2. QED
    BY <1>8, <2>1 DEF Ok
<1>9. CASE n # 0
  <2> DEFINE Envelopes(items) ==
                Ok([p \in DOMAIN items |->
                     IF parameter.form = "ref"
                     THEN [tag |-> "listRef", index |-> p - 1, ref |-> parameter.ref]
                     ELSE [tag |-> "value", index |-> p - 1, body |-> items[p]]])
  <2>1. PICK input : input = Decode(parameter, store)
    OBVIOUS
  <2>2. input.error = "none" /\ input.value.items = list.items
    BY <1>4, <1>6, <2>1
  <2>3. result = Envelopes(input.value.items)
    BY <1>1, <1>5, <1>7, <1>9, <2>1, <2>2 DEF ExpandItems
  <2> HIDE DEF Envelopes
  <2>4. result = Envelopes(list.items)
    BY <2>2, <2>3
  <2>5. result = Ok([p \in DOMAIN list.items |->
                       IF parameter.form = "ref"
                       THEN [tag |-> "listRef", index |-> p - 1, ref |-> parameter.ref]
                       ELSE [tag |-> "value", index |-> p - 1, body |-> list.items[p]]])
    BY <2>4 DEF Envelopes
  <2>6. result.value = [p \in 1..n |->
                       IF parameter.form = "ref"
                       THEN [tag |-> "listRef", index |-> p - 1, ref |-> parameter.ref]
                       ELSE [tag |-> "value", index |-> p - 1, body |-> list.items[p]]]
    BY <1>1, <2>5 DEF Ok
  <2>7. ASSUME NEW p \in 1..n PROVE result.value[p] = ItemEnvelope(p)
    BY <1>1, <1>2, <1>3, <2>6 DEF ItemEnvelope
  <2>8. QED
    BY <1>9, <2>6, <2>7
<1>10. QED
  BY <1>8, <1>9

LEMMA EnvelopeFacts ==
    ASSUME ListInv
    PROVE  /\ Len(envelopes) \in Nat /\ DOMAIN envelopes = 1..Len(envelopes)
           /\ \A u \in Units : u \in Items <=> u \in 0..(Len(envelopes) - 1)
           /\ 0..(Len(envelopes) - 1) \subseteq Units
           /\ map = "expanding" => Items = {}
           /\ map \in {"running", "Succeeded"} => envelopes # <<>>
           /\ \A u \in Items : IsEmptyItem(u) <=> Len(list.items) = 0
           /\ Len(list.items) > 0 /\ envelopes # <<>> => Len(envelopes) = Len(list.items)
<1>1. PICK n \in 0..MaxItems :
        /\ list = ListOf(n)
        /\ \/ envelopes = <<>> /\ map \in {"expanding", "Failed"}
           \/ n = 0 /\ envelopes = <<EmptyMarker>> /\ map # "expanding"
           \/ n > 0 /\ envelopes = [p \in 1..n |-> ItemEnvelope(p)] /\ map # "expanding"
  BY DEF ListInv
<1>2. Len(list.items) = n /\ n \in Nat
  BY <1>1, ListFacts
<1>3. \A p : ItemEnvelope(p) # EmptyMarker
  BY DEF ItemEnvelope, EmptyMarker
<1>4. CASE envelopes = <<>>
  BY <1>1, <1>4, UnitFacts DEF Items
<1>5. CASE n = 0 /\ envelopes = <<EmptyMarker>> /\ map # "expanding"
  BY <1>2, <1>5, UnitFacts DEF Items, Units, IsEmptyItem
<1>6. CASE n > 0 /\ envelopes = [p \in 1..n |-> ItemEnvelope(p)] /\ map # "expanding"
  <2>1. Len(envelopes) = n /\ DOMAIN envelopes = 1..n /\ \A p \in 1..n : envelopes[p] = ItemEnvelope(p)
    BY <1>2, <1>6
  <2>2. 0..(n - 1) \subseteq Units
    BY <1>2, UnitFacts DEF Units
  <2>3. \A u \in Units : u \in Items <=> u \in 0..(n - 1)
    BY <1>2, <2>1, UnitFacts DEF Items
  <2>4. \A u \in Items : ~IsEmptyItem(u)
    BY <1>2, <1>3, <2>1, <2>3, UnitFacts DEF IsEmptyItem, Items
  <2>5. QED
    BY <1>2, <1>6, <2>1, <2>2, <2>3, <2>4
<1>7. QED
  BY <1>1, <1>4, <1>5, <1>6

\* DecodeItem finds the item in the list, inline or by reference.
LEMMA DecodedItem ==
    ASSUME ListInv, NEW u \in Items, ~IsEmptyItem(u)
    PROVE  InputOf(u) = ItemBody(u)
<1>1. PICK n \in 0..MaxItems :
        /\ list = ListOf(n) /\ list \in store
        /\ \/ envelopes = <<>> /\ map \in {"expanding", "Failed"}
           \/ n = 0 /\ envelopes = <<EmptyMarker>> /\ map # "expanding"
           \/ n > 0 /\ envelopes = [p \in 1..n |-> ItemEnvelope(p)] /\ map # "expanding"
  BY DEF ListInv
<1>2. /\ list.items = [p \in 1..n |-> ItemBody(p - 1)] /\ Len(list.items) = n
      /\ list.size \in Nat /\ n \in Nat
  BY <1>1, ListFacts
<1>3. u \in Units /\ u \in Nat /\ IsItem(u) /\ u < Len(envelopes)
  BY UnitFacts DEF Items
<1>4. n > 0 /\ envelopes = [p \in 1..n |-> ItemEnvelope(p)]
  <2>1. n # 0
    BY <1>2, EnvelopeFacts
  <2>2. envelopes # <<>>
    BY <1>3
  <2>3. QED
    BY <1>1, <2>1, <2>2
<1>5. PICK p \in 1..n : p = u + 1 /\ p - 1 = u
  BY <1>2, <1>3, <1>4
<1>6. PICK e : e = envelopes[p] /\ e = ItemEnvelope(p)
  BY <1>4
<1>7. InputOf(u) = DecodeItem(e, store).value
  BY <1>3, <1>5, <1>6 DEF InputOf
<1>8. list.items[p] = ItemBody(u)
  BY <1>2, <1>5
<1>9. CASE list.size > InlineLimit
  <2>1. e.tag = "listRef" /\ e.index = u /\ e.ref = RefFor(list)
    BY <1>5, <1>6, <1>9 DEF ItemEnvelope
  <2>2. ParseRef(RefFor(list), InlineLimit, store) = Ok(list)
    BY <1>1, <1>2, <1>9, LimitsAssumption DEF ParseRef, RefFor, Resolve
  <2>3. PICK found : found = ParseRef(e.ref, InlineLimit, store) /\ found.error = "none" /\ found.value = list
    BY <2>1, <2>2 DEF Ok
  <2>4. DecodeItem(e, store) = Ok(list.items[p])
    BY <1>2, <1>5, <2>1, <2>3 DEF DecodeItem
  <2>5. QED
    BY <1>7, <1>8, <2>4 DEF Ok
<1>10. CASE ~(list.size > InlineLimit)
  <2>1. e.tag = "value" /\ e.body = ItemBody(u)
    BY <1>5, <1>6, <1>10 DEF ItemEnvelope
  <2>2. DecodeItem(e, store) = Ok(ItemBody(u))
    BY <2>1 DEF DecodeItem
  <2>3. QED
    BY <1>7, <2>2 DEF Ok
<1>11. QED
  BY <1>9, <1>10

\* The map's input stays published and is expanded once.
LEMMA StoreGrows ==
    ASSUME [Next]_vars
    PROVE  /\ store \subseteq store' /\ UNCHANGED <<collecting, list>>
           /\ Expand \/ UNCHANGED envelopes
<1>1. ASSUME NEW u \in Units, Prompt(u) \/ Unhurried(u)
      PROVE  store \subseteq store' /\ UNCHANGED <<collecting, list, envelopes>>
  BY <1>1 DEF Prompt, Unhurried, Schedule, RetryPod, PodDone, PollMarker, RunnerCancelled,
     SettleRuntimeInvocation, Report, FailItem, EnterAuthor, PrepareFails, RunnerBreaks,
     ReportFails, RunnerEnds, AuthorReturns, AuthorDies, AttemptExpires, KillContainer, RunnerReturns
<1>2. CASE ControlPodFails \/ MapStep \/ ExitHook
  BY <1>2 DEF ControlPodFails, MapStep, Expand, CollectItemOutcomes, CollectItemResults, MapFails,
     ExitHook
<1>3. CASE UNCHANGED vars
  BY <1>3 DEF vars
<1>4. QED
  BY <1>1, <1>2, <1>3 DEF Next, Over

\* How a map goes from one phase to the next.
LEMMA MapPhase ==
    ASSUME [Next]_vars
    PROVE  \/ UNCHANGED <<map, collected>>
           \/ Expand \/ CollectItemOutcomes \/ CollectItemResults
           \/ (ControlPodFails \/ MapFails) /\ map' = "Failed"
<1>1. ASSUME NEW u \in Units, Prompt(u) \/ Unhurried(u) PROVE UNCHANGED <<map, collected>>
  BY <1>1 DEF Prompt, Unhurried, Schedule, RetryPod, PodDone, PollMarker, RunnerCancelled,
     SettleRuntimeInvocation, Report, FailItem, EnterAuthor, PrepareFails, RunnerBreaks,
     ReportFails, RunnerEnds, AuthorReturns, AuthorDies, AttemptExpires, KillContainer, RunnerReturns
<1>2. CASE ControlPodFails \/ MapFails
  BY <1>2 DEF ControlPodFails, MapFails, MapEnds
<1>3. CASE ExitHook
  BY <1>3 DEF ExitHook
<1>4. CASE UNCHANGED vars
  BY <1>4 DEF vars
<1>5. QED
  BY <1>1, <1>2, <1>3, <1>4 DEF Next, Over, MapStep

LEMMA ListStep == ASSUME ListInv, [Next]_vars PROVE ListInv'
<1>1. PICK n \in 0..MaxItems :
        /\ list = ListOf(n) /\ list \in store
        /\ \/ envelopes = <<>> /\ map \in {"expanding", "Failed"}
           \/ n = 0 /\ envelopes = <<EmptyMarker>> /\ map # "expanding"
           \/ n > 0 /\ envelopes = [p \in 1..n |-> ItemEnvelope(p)] /\ map # "expanding"
  BY DEF ListInv
<1>2. list' = list /\ list' = ListOf(n) /\ list' \in store' /\ \A p : ItemEnvelope(p)' = ItemEnvelope(p)
  BY <1>1, StoreGrows DEF ItemEnvelope
<1>3. CASE Expand
  <2>1. map = "expanding" /\ envelopes = <<>>
    BY <1>1, <1>3 DEF Expand
  <2>2. PICK result : result = ExpandItems(EncodePublished(list), store)
    OBVIOUS
  <2>3. \/ result.error = "none" /\ envelopes' = result.value /\ map' = "running"
        \/ envelopes' = envelopes /\ map' = "Failed"
    BY <1>3, <2>2 DEF Expand, MapEnds
  <2>4. CASE result.error = "none" /\ envelopes' = result.value /\ map' = "running"
    <3>1. IF n = 0 THEN envelopes' = <<EmptyMarker>>
          ELSE envelopes' = [p \in 1..n |-> ItemEnvelope(p)]
      BY <1>1, <2>2, <2>4, Expanded
    <3>2. n # 0 => n > 0
      BY UnitFacts
    <3>3. QED
      BY <1>2, <2>4, <3>1, <3>2 DEF ListInv
  <2>5. QED
    BY <1>2, <2>1, <2>3, <2>4 DEF ListInv
<1>4. CASE ~Expand
  <2>1. envelopes' = envelopes
    BY <1>4, StoreGrows
  <2>2. \/ map' = map
        \/ map = "running" /\ map' \in {"Succeeded", "Failed"}
        \/ map' = "Failed"
    BY <1>4, MapPhase DEF CollectItemOutcomes, CollectItemResults, AllItemsDone, MapEnds
  <2>3. QED
    BY <1>1, <1>2, <2>1, <2>2 DEF ListInv
<1>5. QED
  BY <1>3, <1>4

\* The map's input is published before its expand pod decodes it, and its envelopes are
\* the ones ExpandItems makes.
THEOREM ListInvariant == Spec => []ListInv
<1>1. Init => ListInv
  BY DEF Init, ListInv
<1>2. ListInv /\ [Next]_vars => ListInv'
  BY ListStep
<1>3. QED
  BY <1>1, <1>2, PTL DEF Spec

-----------------------------------------------------------------------------
\* The pods. A step moves one pod at most.

Same(v) ==
    /\ place'[v] = place[v] /\ attempt'[v] = attempt[v] /\ cancelled'[v] = cancelled[v]
    /\ outcome'[v] = outcome[v] /\ err'[v] = err[v] /\ evidence'[v] = evidence[v]
    /\ file'[v] = file[v] /\ exit'[v] = exit[v] /\ killed'[v] = killed[v] /\ truth'[v] = truth[v]

PodStep(u) == Prompt(u) \/ Unhurried(u)

LEMMA StartFrame ==
    ASSUME TypeOK, NEW u \in Units, NEW n, StartPod(u, n), NEW v \in Units, v # u
    PROVE  Same(v)
<1>1. /\ attempt'[v] = attempt[v] /\ cancelled'[v] = cancelled[v] /\ outcome'[v] = outcome[v]
      /\ exit'[v] = exit[v] /\ killed'[v] = killed[v] /\ truth'[v] = truth[v]
  BY DEF TypeOK, StartPod
<1>2. file'[v] = file[v] /\ place'[v] = place[v]
  BY DEF TypeOK, StartPod
<1>3. err'[v] = err[v] /\ evidence'[v] = evidence[v]
  BY DEF TypeOK, StartPod, Record
<1>4. QED
  BY <1>1, <1>2, <1>3 DEF Same

LEMMA ReturnFrame ==
    ASSUME TypeOK, NEW u \in Units, NEW result, NEW written, NEW verified,
           RunnerReturns(u, result, written, verified), NEW v \in Units, v # u, truth'[v] = truth[v]
    PROVE  Same(v)
BY DEF TypeOK, RunnerReturns, Record, Same

LEMMA PodFrame ==
    ASSUME TypeOK, [Next]_vars, NEW v \in Units
    PROVE  Same(v) \/ PodStep(v)
<1>1. ASSUME NEW u \in Units, PodStep(u), u # v PROVE Same(v)
  <2>1. CASE Schedule(u) \/ RetryPod(u)
    BY <1>1, <2>1, StartFrame DEF Schedule, RetryPod
  <2>2. CASE PodDone(u) \/ PollMarker(u)
    BY <1>1, <2>2 DEF TypeOK, PodDone, PollMarker, Same
  <2>3. CASE SettleRuntimeInvocation(u)
    BY <1>1, <2>3 DEF TypeOK, SettleRuntimeInvocation, Same
  <2>4. CASE Report(u) \/ ReportFails(u)
    <3>1. file'[v] = file[v] /\ place'[v] = place[v] /\ err'[v] = err[v]
      BY <1>1, <2>4 DEF TypeOK, Report, ReportFails
    <3>2. QED
      BY <2>4, <3>1 DEF Report, ReportFails, Same
  <2>5. CASE FailItem(u)
    <3>1. /\ file'[v] = file[v] /\ place'[v] = place[v] /\ exit'[v] = exit[v]
          /\ evidence'[v] = evidence[v]
      BY <1>1, <2>5 DEF TypeOK, FailItem, Record
    <3>2. QED
      BY <2>5, <3>1 DEF FailItem, Same
  <2>6. CASE EnterAuthor(u) \/ PrepareFails(u)
    <3>1. PrepareFails(u) => outcome'[v] = outcome[v]
      BY <1>1, PreparedOutcome DEF TypeOK
    <3>2. QED
      BY <1>1, <2>6, <3>1 DEF TypeOK, EnterAuthor, PrepareFails, Record, Same
  <2>7. CASE \E end \in Handed : AuthorReturns(u, end)
    BY <1>1, <2>7 DEF TypeOK, AuthorReturns, Record, Same
  <2>8. CASE RunnerStep(u)
    <3>1. truth'[v] = truth[v]
      BY <1>1, <2>8, RunnerStepIs DEF TypeOK
    <3>2. PICK result, written, verified : RunnerReturns(u, result, written, verified)
      BY <2>8, RunnerStepIs
    <3>3. QED
      BY <1>1, <3>1, <3>2, ReturnFrame
  <2>9. CASE \E how \in {"oom", "evicted"} : KillContainer(u, how)
    BY <1>1, <2>9 DEF TypeOK, KillContainer, Same
  <2>10. QED
    BY <1>1, <2>1, <2>2, <2>3, <2>4, <2>5, <2>6, <2>7, <2>8, <2>9
       DEF PodStep, Prompt, Unhurried, RunnerStep, Handed
<1>2. CASE ControlPodFails \/ MapStep \/ ExitHook
  BY <1>2 DEF ControlPodFails, MapStep, Expand, CollectItemOutcomes, CollectItemResults, MapFails,
     ExitHook, podVars, Same
<1>3. CASE UNCHANGED vars
  BY <1>3 DEF vars, podVars, Same
<1>4. QED
  BY <1>1, <1>2, <1>3 DEF Next, Over, PodStep

\* A new pod: it ran nothing yet.
Started(u, n) ==
    /\ attempt'[u] = n /\ cancelled'[u] = FALSE /\ outcome'[u] = None /\ exit'[u] = 0 /\ killed'[u] = None
    /\ truth'[u] = None
    /\ \/ /\ IsEmptyItem(u) /\ place'[u] = "exited"
          /\ file'[u] = EmptyMarker /\ evidence'[u] = "publish"
       \/ /\ ~IsEmptyItem(u) /\ file'[u] = NoFile /\ (IsItem(u) => evidence'[u] = "hydrate")
          /\ \/ place'[u] = "hydrating" /\ marker = None
             \/ place'[u] = "failing" /\ err'[u] \in {"fatal", "infra"}

LEMMA StartIs ==
    ASSUME TypeOK, NEW u \in Units, NEW n, StartPod(u, n)
    PROVE  Started(u, n)
<1>1. /\ attempt'[u] = n /\ cancelled'[u] = FALSE /\ outcome'[u] = None /\ exit'[u] = 0 /\ killed'[u] = None
      /\ truth'[u] = None
  BY DEF TypeOK, StartPod
<1>2. CASE IsEmptyItem(u)
  <2>1. place'[u] = "exited" /\ file'[u] = EmptyMarker /\ evidence'[u] = "publish"
    BY <1>2 DEF TypeOK, StartPod, Record, IsEmptyItem
  <2>2. QED
    BY <1>1, <1>2, <2>1 DEF Started
<1>3. CASE ~IsEmptyItem(u)
  <2>1. file'[u] = NoFile /\ (IsItem(u) => evidence'[u] = "hydrate")
    BY <1>3 DEF TypeOK, StartPod, Record
  <2>2. \/ place'[u] = "hydrating" /\ marker = None
        \/ place'[u] = "failing" /\ err'[u] \in {"fatal", "infra"}
    BY <1>3 DEF TypeOK, StartPod, ReadFatalRun
  <2>3. QED
    BY <1>1, <1>3, <2>1, <2>2 DEF Started
<1>4. QED
  BY <1>2, <1>3

\* A runner that returned.
Returned(u, o) ==
    /\ place[u] \in RunnerPlaces /\ place'[u] = "settling"
    /\ outcome'[u] = o /\ cancelled'[u] = cancelled[u]
    /\ evidence'[u] = IF IsItem(u) THEN "publish" ELSE evidence[u]
    /\ attempt'[u] = attempt[u] /\ file'[u] = file[u] /\ exit'[u] = exit[u]
    /\ killed'[u] = killed[u] /\ err'[u] = err[u]
    /\ UNCHANGED <<marker, map, collected, failedAt, hook>>

LEMMA ReturnIs ==
    ASSUME TypeOK, NEW u \in Units, NEW result \in ProcessResults \cup {"deadline"}, NEW written,
           NEW verified, RunnerReturns(u, result, written, verified),
           place[u] \in RunnerPlaces
    PROVE  Returned(u, IsolatedOutcome(u, result, written, verified))
<1>1. PICK o : o = IsolatedOutcome(u, result, written, verified)
  OBVIOUS
<1>2. outcome' = [outcome EXCEPT ![u] = o]
  BY <1>1 DEF RunnerReturns
<1>3. evidence'[u] = IF IsItem(u) THEN "publish" ELSE evidence[u]
  BY DEF TypeOK, RunnerReturns, Record
<1>4. QED
  BY <1>1, <1>2, <1>3 DEF TypeOK, RunnerReturns, Returned

\* What a runner can come to, and what ended it then.
LEMMA ReturnedRunner ==
    ASSUME TypeOK, NEW u \in Units, RunnerStep(u)
    PROVE  \E o \in Outcomes :
                /\ Returned(u, o)
                /\ o = "cancelled" => cancelled[u]
                /\ truth'[u] = "exit0" => o \in {"succeeded", "cancelled"}
                /\ IsItem(u) /\ ItemInv(u) /\ o \in KeptOutcomes => truth'[u] \in TruthsOf(o)
<1>1. CASE RunnerCancelled(u)
  <2>1. PICK o \in Outcomes : o = IsolatedOutcome(u, "signal", "absent", TRUE)
    BY OutcomeType DEF ProcessResults
  <2>2. o \in {"cancelled", "infra"}
    BY <1>1, <2>1 DEF RunnerCancelled, IsolatedOutcome, InvokeOne
  <2>3. Returned(u, o)
    BY <1>1, <2>1, ReturnIs DEF RunnerCancelled, ProcessResults
  <2>4. cancelled[u] /\ truth'[u] = "broken"
    BY <1>1 DEF TypeOK, RunnerCancelled
  <2>5. QED
    BY <2>2, <2>3, <2>4 DEF KeptOutcomes
<1>2. CASE RunnerBreaks(u)
  <2>1. PICK result \in ProcessResults, written \in FailureFiles, verified \in BOOLEAN :
            /\ RunnerReturns(u, result, written, verified)
            /\ truth'[u] \in {"exit70", "uncaught", "broken"}
            /\ result = "other" => truth'[u] = "uncaught"
            /\ result = "signal" => place[u] # "author"
            /\ result \in {"step", "nonretryable"} => written = "invalid"
            /\ result = "exit0" => ~verified
            /\ result # "deadline"
    <3>1. ASSUME NEW result \in BrokenEnds(u),
                 RunnerReturns(u, result, IF result \in DiagnosticExits THEN "valid" ELSE "absent", TRUE),
                 truth' = [truth EXCEPT ![u] = CASE result = "exit70" -> "exit70"
                                                 [] result = "other" -> "uncaught"
                                                 [] OTHER -> "broken"]
          PROVE  /\ result \in ProcessResults /\ result \notin {"deadline", "step", "nonretryable", "exit0"}
                 /\ truth'[u] \in {"exit70", "uncaught", "broken"}
                 /\ result = "other" => truth'[u] = "uncaught"
                 /\ result = "signal" => place[u] # "author"
      BY <3>1 DEF TypeOK, BrokenEnds, ProcessResults, DiagnosticExits
    <3>2. ASSUME place[u] = "publishing", RunnerReturns(u, truth[u], "invalid", FALSE),
                 truth' = [truth EXCEPT ![u] = "broken"]
          PROVE  /\ truth[u] \in Handed /\ Handed \subseteq ProcessResults
                 /\ truth'[u] = "broken"
      BY <3>2 DEF TypeOK, Handed, ProcessResults, DiagnosticExits
    <3>3. ASSUME NEW result \in BrokenEnds(u),
                 RunnerReturns(u, result, IF result \in DiagnosticExits THEN "valid" ELSE "absent", TRUE)
          PROVE  \E written \in FailureFiles : RunnerReturns(u, result, written, TRUE)
      BY <3>3 DEF FailureFiles
    <3>4. CASE place[u] = "publishing" /\ RunnerReturns(u, truth[u], "invalid", FALSE)
               /\ truth' = [truth EXCEPT ![u] = "broken"]
      <4>1. PICK result \in ProcessResults : result = truth[u] /\ result \in Handed
        BY <3>2, <3>4
      <4>2. RunnerReturns(u, result, "invalid", FALSE) /\ truth'[u] = "broken" /\ "invalid" \in FailureFiles
        BY <3>2, <3>4, <4>1 DEF FailureFiles
      <4>3. QED
        BY <3>4, <4>1, <4>2 DEF Handed
    <3>5. CASE \E result \in BrokenEnds(u) :
                  /\ RunnerReturns(u, result, IF result \in DiagnosticExits THEN "valid" ELSE "absent", TRUE)
                  /\ truth' = [truth EXCEPT ![u] = CASE result = "exit70" -> "exit70"
                                                      [] result = "other" -> "uncaught"
                                                      [] OTHER -> "broken"]
      <4>1. PICK result \in BrokenEnds(u) :
                  /\ result \in ProcessResults /\ result \notin {"deadline", "step", "nonretryable", "exit0"}
                  /\ truth'[u] \in {"exit70", "uncaught", "broken"}
                  /\ result = "other" => truth'[u] = "uncaught"
                  /\ result = "signal" => place[u] # "author"
                  /\ \E written \in FailureFiles : RunnerReturns(u, result, written, TRUE)
        BY <3>1, <3>3, <3>5
      <4>2. QED
        BY <4>1
    <3>6. QED
      BY <1>2, <3>4, <3>5 DEF RunnerBreaks
  <2>2. PICK o \in Outcomes : o = IsolatedOutcome(u, result, written, verified)
    BY OutcomeType
  <2>3. Returned(u, o)
    BY <1>2, <2>1, <2>2, ReturnIs DEF RunnerBreaks
  <2>4. o = "cancelled" => cancelled[u]
    BY <2>1, <2>2 DEF IsolatedOutcome, InvokeOne, ProcessResults, DiagnosticExits
  <2>5. ASSUME IsItem(u), ItemInv(u), o \in KeptOutcomes PROVE truth'[u] \in TruthsOf(o)
    <3>1. result = "signal" => evidence[u] # "author"
      BY <1>2, <2>1, <2>5 DEF ItemInv, RunnerBreaks, RunnerPlaces
    <3>2. o = "other" /\ result = "other"
      BY <2>1, <2>2, <2>5, <3>1 DEF IsolatedOutcome, InvokeOne, ReadRunnerFailure, ProcessResults,
         DiagnosticExits, KeptOutcomes
    <3>3. QED
      BY <2>1, <3>2 DEF TruthsOf
  <2>6. QED
    BY <2>1, <2>3, <2>4, <2>5
<1>3. ASSUME NEW result \in Handed \cup {"signal", "other", "deadline"}, NEW written, written \in {"valid", "absent"},
             result \in Handed => written = "valid",
             place[u] \in RunnerPlaces, RunnerReturns(u, result, written, TRUE),
             truth'[u] = result \/ (result = "deadline" /\ truth'[u] = "late")
      PROVE  \E o \in Outcomes :
                /\ Returned(u, o)
                /\ o = "cancelled" => cancelled[u]
                /\ truth'[u] = "exit0" => o \in {"succeeded", "cancelled"}
                /\ o \in KeptOutcomes => truth'[u] \in TruthsOf(o)
  <2>1. result \in ProcessResults \cup {"deadline"}
    BY DEF Handed, ProcessResults, DiagnosticExits
  <2>2. PICK o \in Outcomes : o = IsolatedOutcome(u, result, written, TRUE)
    BY <2>1, OutcomeType
  <2>3. Returned(u, o)
    BY <1>3, <2>1, <2>2, ReturnIs
  <2>4. o = "cancelled" => cancelled[u]
    BY <2>1, <2>2 DEF IsolatedOutcome, InvokeOne, ProcessResults, DiagnosticExits
  <2>5. truth'[u] = "exit0" => o \in {"succeeded", "cancelled"}
    BY <1>3, <2>2 DEF IsolatedOutcome, InvokeOne
  <2>6. o \in KeptOutcomes => truth'[u] \in TruthsOf(o)
    BY <1>3, <2>2 DEF IsolatedOutcome, InvokeOne, KeptOutcomes, TruthsOf, Handed, DiagnosticExits
  <2>7. QED
    BY <2>3, <2>4, <2>5, <2>6
<1>4. CASE RunnerEnds(u)
  <2>1. /\ truth[u] \in Handed /\ truth'[u] = truth[u] /\ place[u] \in RunnerPlaces
        /\ RunnerReturns(u, truth[u], "valid", TRUE)
    BY <1>4 DEF TypeOK, RunnerEnds, RunnerPlaces
  <2>2. QED
    BY <1>3, <2>1
<1>5. CASE AttemptExpires(u)
  <2>1. /\ place[u] \in RunnerPlaces /\ RunnerReturns(u, "deadline", "absent", TRUE)
        /\ truth'[u] \in {"deadline", "late"}
    BY <1>5 DEF TypeOK, AttemptExpires
  <2>2. QED
    BY <1>3, <2>1 DEF Handed
<1>6. ASSUME NEW result \in {"signal", "other"}, AuthorDies(u, result)
      PROVE  /\ place[u] \in RunnerPlaces /\ RunnerReturns(u, result, "absent", TRUE)
             /\ truth'[u] = result /\ result \notin Handed
  BY <1>6 DEF TypeOK, AuthorDies, RunnerPlaces, Handed
<1>7. CASE \E result \in {"signal", "other"} : AuthorDies(u, result)
  BY <1>3, <1>6, <1>7
<1>8. QED
  BY <1>1, <1>2, <1>4, <1>5, <1>7 DEF RunnerStep

\* An invocation that is settled: a result to report, or a failure.
LEMMA SettleIs ==
    ASSUME TypeOK, NEW u \in Units, ExitInv(u), SettleRuntimeInvocation(u)
    PROVE  /\ place[u] = "settling"
           /\ \/ place'[u] = "reporting" /\ err'[u] = None /\ outcome[u] = "succeeded"
              \/ /\ place'[u] = "reporting" /\ err'[u] = outcome[u] /\ outcome[u] # "succeeded"
                 /\ KeptFailure(u, outcome[u])
              \/ place'[u] = "failing" /\ err'[u] # None /\ outcome[u] # "succeeded"
           /\ outcome[u] = "cancelled" => place'[u] = "failing" /\ err'[u] = "fatal"
           /\ attempt'[u] = attempt[u] /\ cancelled'[u] = cancelled[u] /\ outcome'[u] = outcome[u] /\ evidence'[u] = evidence[u]
           /\ file'[u] = file[u] /\ exit'[u] = exit[u] /\ killed'[u] = killed[u]
           /\ truth'[u] = truth[u]
           /\ UNCHANGED <<map, collected, failedAt, hook>>
           /\ marker' = marker \/ (marker = None /\ marker' = NodeOf(u) /\ place'[u] = "failing")
<1>1. PICK e \in Ends : e = SettledError(u)
  BY DEF TypeOK, SettledError, Ends, Outcomes, FailedOutcomes, DiagnosticExits
<1>2. /\ place[u] = "settling" /\ err'[u] = e
      /\ place'[u] = IF e = None \/ KeptFailure(u, e) THEN "reporting" ELSE "failing"
  BY <1>1 DEF TypeOK, SettleRuntimeInvocation
<1>3. /\ e = None => outcome[u] \in {"succeeded", None}
      /\ e # None => e = outcome[u] \/ (e = "fatal" /\ outcome[u] # "succeeded")
      /\ outcome[u] = "succeeded" => e = None
      /\ outcome[u] = "cancelled" => e = "fatal"
  BY <1>1 DEF SettledError, None, ExitInv
<1>4. ~KeptFailure(u, "fatal")
  BY DEF KeptFailure, MapItemFailure
<1>5. marker' = marker \/ (marker = None /\ marker' = NodeOf(u) /\ e = "fatal")
  BY <1>1 DEF SettleRuntimeInvocation
<1>6. QED
  BY <1>1, <1>2, <1>3, <1>4, <1>5 DEF TypeOK, SettleRuntimeInvocation, None, ExitInv

\* The marker is written once, by a pod that fails.
LEMMA MarkerChange ==
    ASSUME [Next]_vars
    PROVE  UNCHANGED marker \/ \E u \in Units : SettleRuntimeInvocation(u)
<1>1. ASSUME NEW u \in Units, PodStep(u) PROVE UNCHANGED marker \/ SettleRuntimeInvocation(u)
  BY <1>1 DEF PodStep, Prompt, Unhurried, Schedule, RetryPod, PodDone, PollMarker, RunnerCancelled,
     Report, FailItem, EnterAuthor, PrepareFails, RunnerBreaks, ReportFails, RunnerEnds, AuthorReturns,
     AuthorDies, AttemptExpires, KillContainer, RunnerReturns
<1>2. CASE ControlPodFails \/ MapStep \/ ExitHook
  BY <1>2 DEF ControlPodFails, MapStep, Expand, CollectItemOutcomes, CollectItemResults, MapFails,
     ExitHook
<1>3. CASE UNCHANGED vars
  BY <1>3 DEF vars
<1>4. QED
  BY <1>1, <1>2, <1>3 DEF Next, Over, PodStep

LEMMA MarkerStays == ASSUME [Next]_vars, marker # None PROVE marker' = marker
BY MarkerChange DEF SettleRuntimeInvocation

LEMMA ExitStep ==
    ASSUME TypeOK, NEW u \in Units, ExitInv(u), PodStep(u), [Next]_vars
    PROVE  ExitInv(u)'
<1> USE MarkerStays DEF RunnerPlaces
<1>0. attempt[u] \in 0..MaxAttempts /\ MaxAttempts \in Nat
  BY UnitFacts DEF TypeOK
<1>1. CASE Schedule(u) \/ RetryPod(u)
  <2>1. PICK n : Started(u, n)
    BY <1>1, StartIs DEF Schedule, RetryPod
  <2>2. QED
    BY <2>1 DEF Started, ExitInv, Live, None
<1>2. CASE PodDone(u)
  <2>1. place[u] = "exited" /\ place'[u] = "done" /\ ~MayRetry(u)
    BY <1>2 DEF TypeOK, PodDone
  <2>2. killed[u] # None => attempt[u] = MaxAttempts
    BY <1>0, <2>1 DEF ExitInv, MayRetry, RunnerNonRetryableExitCodes
  <2>3. QED
    BY <1>2, <2>1, <2>2 DEF PodDone, ExitInv, Live
<1>3. CASE PollMarker(u)
  <2>1. marker' # None
    BY <1>3 DEF PollMarker
  <2>2. QED
    BY <1>3, <2>1 DEF PollMarker, ExitInv
<1>4. CASE SettleRuntimeInvocation(u)
  BY <1>4, SettleIs DEF ExitInv, Live
<1>5. CASE Report(u) \/ ReportFails(u)
  BY <1>5 DEF TypeOK, Report, ReportFails, ExitInv, Live
<1>6. CASE FailItem(u)
  BY <1>6 DEF TypeOK, FailItem, ExitInv, Live
<1>7. CASE EnterAuthor(u) \/ PrepareFails(u) \/ \E end \in Handed : AuthorReturns(u, end)
  <2>1. PrepareFails(u) => outcome'[u] \in {"infra", "preflight"}
    BY PreparedOutcome DEF TypeOK
  <2>2. QED
    BY <1>7, <2>1 DEF TypeOK, EnterAuthor, PrepareFails, AuthorReturns, ExitInv, Live, None
<1>8. CASE RunnerStep(u)
  <2>1. None \notin Outcomes
    BY DEF Outcomes, FailedOutcomes, DiagnosticExits, None
  <2>2. QED
    BY <1>8, <2>1, ReturnedRunner DEF Returned, ExitInv, Live
<1>9. CASE \E how \in {"oom", "evicted"} : KillContainer(u, how)
  BY <1>9 DEF TypeOK, KillContainer, ExitInv, Live, None
<1>10. QED
  BY <1>1, <1>2, <1>3, <1>4, <1>5, <1>6, <1>7, <1>8, <1>9
     DEF PodStep, Prompt, Unhurried, RunnerStep, Handed

\* A kept failure, in terms of what ended the attempt.
LEMMA KeptIsFinal ==
    ASSUME TypeOK, NEW u \in Units, ItemInv(u), outcome[u] # "succeeded", KeptFailure(u, outcome[u])
    PROVE  Final(u, outcome[u])
<1>1. PICK o : o = outcome[u]
  OBVIOUS
<1>2. o \in KeptOutcomes \ {"succeeded"}
  BY <1>1 DEF KeptFailure, MapItemFailure, FailedOutcomes, DiagnosticExits, KeptOutcomes
<1>3. o = "nonretryable" \/ attempt[u] = MaxAttempts
  <2>1. attempt[u] \in 0..MaxAttempts /\ MaxAttempts \in Nat
    BY UnitFacts DEF TypeOK
  <2>2. o # "nonretryable" => RetryableOutcome(o)
    BY <1>2 DEF KeptOutcomes, RetryableOutcome, FailedOutcomes, DiagnosticExits
  <2>3. QED
    BY <1>1, <2>1, <2>2 DEF KeptFailure, Retryable
<1>4. QED
  BY <1>1, <1>2, <1>3 DEF Final, ItemInv, KeptFailure

\* What stays the same for a pod whose attempt and author code do.
LEMMA KeptFile ==
    ASSUME NEW u, FileInv(u), UNCHANGED <<collecting, envelopes>>, attempt'[u] = attempt[u],
           truth'[u] = truth[u], file'[u] = file[u]
    PROVE  FileInv(u)'
<1>1. \A o : Final(u, o)' <=> Final(u, o)
  BY DEF Final
<1>2. IsEmptyItem(u)' <=> IsEmptyItem(u)
  BY DEF IsEmptyItem
<1>3. QED
  BY <1>1, <1>2 DEF FileInv

LEMMA NewFile ==
    ASSUME NEW u, ~IsEmptyItem(u)', file'[u] \in {NoFile, FatalItemEnvelope}
    PROVE  FileInv(u)'
BY DEF FileInv

LEMMA ItemStep ==
    ASSUME TypeOK, ListInv, NEW u \in Units, IsItem(u), ExitInv(u), ItemInv(u), PodStep(u), [Next]_vars
    PROVE  ItemInv(u)'
<1>1. UNCHANGED <<collecting, envelopes>>
  <2>1. ~Expand \/ UNCHANGED envelopes
    BY DEF PodStep, Prompt, Unhurried, Schedule, RetryPod, PodDone, PollMarker, RunnerCancelled,
     SettleRuntimeInvocation, Report, FailItem, EnterAuthor, PrepareFails, RunnerBreaks,
     ReportFails, RunnerEnds, AuthorReturns, AuthorDies, AttemptExpires, KillContainer, RunnerReturns
  <2>2. QED
    BY <2>1, StoreGrows
<1>2. Items' = Items /\ (IsEmptyItem(u)' <=> IsEmptyItem(u))
  BY <1>1 DEF Items, IsEmptyItem
<1>3. CASE Schedule(u) \/ RetryPod(u)
  <2>1. PICK n : Started(u, n)
    BY <1>3, StartIs DEF Schedule, RetryPod
  <2>2. u \in Items
    BY <1>3 DEF Schedule, RetryPod, ItemInv
  <2>3. FileInv(u)'
    BY <1>2, <2>1 DEF Started, FileInv
  <2>4. QED
    BY <1>2, <2>1, <2>2, <2>3 DEF Started, ItemInv, Live, KeptOutcomes, None
<1>4. CASE PodDone(u)
  <2>1. /\ place[u] = "exited" /\ place'[u] = "done" /\ outcome'[u] = outcome[u]
        /\ evidence'[u] = evidence[u] /\ truth'[u] = truth[u] /\ file'[u] = file[u]
        /\ attempt'[u] = attempt[u] /\ killed'[u] = killed[u]
    BY <1>4 DEF TypeOK, PodDone
  <2>2. u \in Items => FileInv(u)'
    BY <1>1, <2>1, KeptFile DEF ItemInv
  <2>3. QED
    BY <1>2, <2>1, <2>2 DEF ItemInv, Live
<1>5. CASE PollMarker(u)
  <2>1. /\ place'[u] = place[u] /\ outcome'[u] = outcome[u] /\ err'[u] = err[u]
        /\ evidence'[u] = evidence[u] /\ truth'[u] = truth[u] /\ file'[u] = file[u]
        /\ attempt'[u] = attempt[u] /\ killed'[u] = killed[u]
    BY <1>5 DEF PollMarker
  <2>2. u \in Items => FileInv(u)'
    BY <1>1, <2>1, KeptFile DEF ItemInv
  <2>3. \A o : Final(u, o)' <=> Final(u, o)
    BY <1>1, <2>1 DEF Final
  <2>4. QED
    BY <1>2, <2>1, <2>2, <2>3 DEF ItemInv
<1>6. CASE SettleRuntimeInvocation(u)
  <2>1. /\ place[u] = "settling" /\ place'[u] \in {"reporting", "failing"}
        /\ outcome'[u] = outcome[u]
        /\ evidence'[u] = evidence[u] /\ truth'[u] = truth[u] /\ file'[u] = file[u]
        /\ attempt'[u] = attempt[u] /\ killed'[u] = killed[u]
    BY <1>6, SettleIs
  <2>2. u \in Items => FileInv(u)'
    BY <1>1, <2>1, KeptFile DEF ItemInv
  <2>3. \A o : Final(u, o)' <=> Final(u, o)
    BY <1>1, <2>1 DEF Final
  <2>4. place'[u] = "reporting" =>
            \/ err'[u] = None /\ outcome[u] = "succeeded"
            \/ err'[u] = outcome[u] /\ Final(u, outcome[u])
    BY <1>6, SettleIs, KeptIsFinal
  <2>5. QED
    BY <1>2, <2>1, <2>2, <2>3, <2>4 DEF ItemInv, Live
<1>7. CASE Report(u)
  <2>1. /\ place[u] = "reporting" /\ place'[u] = "exited" /\ outcome'[u] = outcome[u]
        /\ evidence'[u] = evidence[u] /\ truth'[u] = truth[u]
        /\ attempt'[u] = attempt[u] /\ killed'[u] = killed[u]
    BY <1>7 DEF TypeOK, Report
  <2>2. u \in Items /\ ~IsEmptyItem(u) /\ evidence[u] # "author"
    BY <2>1 DEF ItemInv, Live
  <2>3. InputOf(u) = ItemBody(u)
    BY <2>2, DecodedItem
  <2>4. file'[u] = IF err[u] = None THEN EncodePublishedItemResult(u, ResultBody(u, ItemBody(u)))
                   ELSE EncodeItemFailure(u, NewFailure(FailureKind(err[u]), attempt[u]))
    BY <1>7, <2>3 DEF TypeOK, Report
  <2>5. FileInv(u)'
    <3>1. CASE err[u] = None /\ outcome[u] = "succeeded"
      <4>1. truth'[u] = "exit0"
        BY <2>1, <3>1 DEF ItemInv, KeptOutcomes, TruthsOf
      <4>2. QED
        BY <1>2, <2>2, <2>4, <3>1, <4>1 DEF FileInv
    <3>2. CASE Final(u, err[u])
      <4>1. PICK o \in KeptOutcomes : o = err[u] /\ Final(u, o)' /\ o # None
        BY <1>1, <2>1, <3>2 DEF Final, KeptOutcomes, None
      <4>2. file'[u] = EncodeItemFailure(u, NewFailure(FailureKind(o), attempt'[u]))
        BY <2>1, <2>4, <4>1
      <4>3. QED
        BY <1>2, <2>2, <4>1, <4>2 DEF FileInv
    <3>3. QED
      BY <2>1, <3>1, <3>2 DEF ItemInv
  <2>6. QED
    BY <1>2, <2>1, <2>2, <2>5 DEF ItemInv, Live
<1>8. CASE ReportFails(u)
  <2>1. /\ place[u] = "reporting" /\ place'[u] = "failing" /\ outcome'[u] = outcome[u]
        /\ evidence'[u] = evidence[u] /\ truth'[u] = truth[u] /\ file'[u] = file[u]
        /\ attempt'[u] = attempt[u] /\ killed'[u] = killed[u]
    BY <1>8 DEF TypeOK, ReportFails
  <2>2. u \in Items => FileInv(u)'
    BY <1>1, <2>1, KeptFile DEF ItemInv
  <2>3. QED
    BY <1>2, <2>1, <2>2 DEF ItemInv, Live
<1>9. CASE FailItem(u)
  <2>1. /\ place[u] = "failing" /\ place'[u] \in {"failing", "exited"} /\ outcome'[u] = outcome[u]
        /\ truth'[u] = truth[u] /\ attempt'[u] = attempt[u] /\ killed'[u] = killed[u]
        /\ evidence'[u] \in {evidence[u], "fatal"}
        /\ place'[u] = "failing" => file'[u] = file[u]
        /\ place'[u] = "exited" => file'[u] = FatalItemEnvelope
    BY <1>9 DEF TypeOK, FailItem, Record
  <2>2. u \in Items /\ ~IsEmptyItem(u) /\ evidence[u] # "author" /\ file[u] = NoFile
    BY <2>1 DEF ItemInv, Live
  <2>3. FileInv(u)'
    BY <1>2, <2>1, <2>2, NewFile
  <2>4. QED
    BY <1>2, <2>1, <2>2, <2>3 DEF ItemInv, Live
<1>10. CASE \E end \in Handed : AuthorReturns(u, end)
  <2>1. /\ place[u] = "author" /\ place'[u] = "publishing" /\ outcome'[u] = outcome[u]
        /\ evidence'[u] = "publish" /\ file'[u] = file[u]
    BY <1>10 DEF TypeOK, AuthorReturns, Record
  <2>2. u \in Items /\ ~IsEmptyItem(u) /\ file[u] = NoFile /\ outcome[u] = None
    BY <2>1 DEF ItemInv, ExitInv, Live, RunnerPlaces
  <2>3. FileInv(u)'
    BY <1>2, <2>1, <2>2, NewFile
  <2>4. QED
    BY <1>2, <2>1, <2>2, <2>3 DEF ItemInv, Live, KeptOutcomes, None
<1>11. CASE EnterAuthor(u)
  <2>1. /\ place[u] = "hydrating" /\ place'[u] = "author" /\ outcome'[u] = outcome[u]
        /\ evidence'[u] = "author" /\ truth'[u] = "entered" /\ file'[u] = file[u]
    BY <1>11 DEF TypeOK, EnterAuthor, Record
  <2>2. u \in Items /\ ~IsEmptyItem(u) /\ file[u] = NoFile /\ outcome[u] = None
    BY <2>1 DEF ItemInv, ExitInv, Live, RunnerPlaces
  <2>3. FileInv(u)'
    BY <1>2, <2>1, <2>2, NewFile
  <2>4. QED
    BY <1>2, <2>1, <2>2, <2>3 DEF ItemInv, Live, KeptOutcomes, None
<1>12. CASE PrepareFails(u)
  <2>1. /\ place[u] = "hydrating" /\ place'[u] = "settling"
        /\ evidence'[u] = evidence[u] /\ truth'[u] = truth[u] /\ file'[u] = file[u]
    BY <1>12 DEF TypeOK, PrepareFails
  <2>2. outcome'[u] \in {"infra", "preflight"}
    BY <1>12, PreparedOutcome DEF TypeOK
  <2>3. u \in Items /\ ~IsEmptyItem(u) /\ file[u] = NoFile /\ evidence[u] # "author"
    BY <2>1 DEF ItemInv, Live
  <2>4. FileInv(u)'
    BY <1>2, <2>1, <2>3, NewFile
  <2>5. QED
    BY <1>2, <2>1, <2>2, <2>3, <2>4 DEF ItemInv, Live, KeptOutcomes
<1>13. CASE RunnerStep(u)
  <2>1. PICK o \in Outcomes : Returned(u, o) /\ (o \in KeptOutcomes => truth'[u] \in TruthsOf(o))
    BY <1>13, ReturnedRunner
  <2>2. u \in Items /\ ~IsEmptyItem(u) /\ file[u] = NoFile
    BY <2>1 DEF ItemInv, Live, Returned, RunnerPlaces
  <2>3. FileInv(u)'
    BY <1>2, <2>1, <2>2, NewFile DEF Returned
  <2>4. QED
    BY <1>2, <2>1, <2>2, <2>3 DEF ItemInv, Live, Returned
<1>14. ASSUME NEW how \in {"oom", "evicted"}, KillContainer(u, how) PROVE ItemInv(u)'
  <2>1. /\ place[u] \notin {"waiting", "done"} /\ place'[u] = "exited" /\ outcome'[u] = outcome[u]
        /\ evidence'[u] = evidence[u] /\ truth'[u] = truth[u] /\ attempt'[u] = attempt[u]
        /\ file'[u] \in {file[u], NoFile} /\ killed'[u] # None
    BY <1>14 DEF TypeOK, KillContainer, Alive, None
  <2>2. u \in Items
    BY <2>1 DEF ItemInv
  <2>3. FileInv(u)'
    <3>1. CASE file'[u] = file[u]
      BY <1>1, <2>1, <2>2, <3>1, KeptFile DEF ItemInv
    <3>2. CASE file'[u] = NoFile
      BY <3>2 DEF FileInv
    <3>3. QED
      BY <2>1, <3>1, <3>2
  <2>4. QED
    BY <1>2, <2>1, <2>2, <2>3 DEF ItemInv, Live
<1>15. QED
  BY <1>3, <1>4, <1>5, <1>6, <1>7, <1>8, <1>9, <1>10, <1>11, <1>12, <1>13, <1>14
     DEF PodStep, Prompt, Unhurried, RunnerStep, Handed

LEMMA PodInvStep ==
    ASSUME TypeOK, ListInv, PodInv, [Next]_vars
    PROVE  PodInv'
<1>1. ASSUME NEW v \in Units, ~PodStep(v) PROVE ExitInv(v)' /\ (IsItem(v) => ItemInv(v)')
  <2>1. Same(v) /\ ExitInv(v)
    BY <1>1, PodFrame DEF PodInv
  <2>2. ExitInv(v)'
    BY <2>1, MarkerStays DEF Same, ExitInv
  <2>3. ASSUME IsItem(v) PROVE ItemInv(v)'
    <3>1. ItemInv(v)
      BY <2>3 DEF PodInv
    <3>2. CASE UNCHANGED envelopes
      <4>1. UNCHANGED <<collecting, envelopes>> /\ Items' = Items /\ (IsEmptyItem(v)' <=> IsEmptyItem(v))
        BY <3>2, StoreGrows DEF Items, IsEmptyItem
      <4>2. v \in Items => FileInv(v)'
        BY <2>1, <3>1, <4>1, KeptFile DEF Same, ItemInv
      <4>3. \A o : Final(v, o)' <=> Final(v, o)
        BY <2>1, <4>1 DEF Same, Final
      <4>4. QED
        BY <2>1, <3>1, <4>1, <4>2, <4>3 DEF Same, ItemInv
    <3>3. CASE Expand
      <4>1. place[v] = "waiting" /\ file[v] = NoFile
        BY <3>1, <3>3, EnvelopeFacts DEF Expand, ItemInv
      <4>2. place'[v] = "waiting" /\ file'[v] = NoFile
        BY <2>1, <4>1 DEF Same
      <4>3. FileInv(v)'
        BY <4>2 DEF FileInv
      <4>4. QED
        BY <2>1, <3>1, <4>1, <4>2, <4>3 DEF Same, ItemInv, Live
    <3>4. QED
      BY <3>2, <3>3, StoreGrows
  <2>4. QED
    BY <2>2, <2>3
<1>2. ASSUME NEW v \in Units, PodStep(v) PROVE ExitInv(v)' /\ (IsItem(v) => ItemInv(v)')
  BY <1>2, ExitStep, ItemStep DEF PodInv
<1>3. \A v \in Units : IsItem(v)' <=> IsItem(v)
  BY DEF IsItem
<1>4. QED
  BY <1>1, <1>2, <1>3 DEF PodInv

(***************************************************************************)
(* What a pod's place says of its exit code, its termination log and its   *)
(* result file, and what can have ended an attempt with each outcome       *)
(* (runIsolatedInvocation, settleRuntimeInvocation, reportFailure): a      *)
(* "timeout" or an "other" exit may come from the runner's own work, and a *)
(* published output becomes a success unless the poller cancelled first.   *)
(***************************************************************************)
THEOREM PodInvariant == Spec => []PodInv
<1>1. Init => PodInv
  <2>1. SUFFICES ASSUME Init, NEW u \in Units PROVE ExitInv(u) /\ (IsItem(u) => ItemInv(u))
    BY DEF PodInv
  <2>2. /\ place[u] \in {"waiting", "done"} /\ (IsItem(u) => place[u] = "waiting")
        /\ outcome[u] = None /\ evidence[u] = None /\ file[u] = NoFile /\ killed[u] = None
    BY <2>1 DEF Init, IsItem
  <2>3. FileInv(u)
    BY <2>2 DEF FileInv
  <2>4. ~cancelled[u] /\ truth[u] = None
    BY <2>1 DEF Init
  <2>5. QED
    BY <2>2, <2>3, <2>4 DEF ExitInv, ItemInv, Live, RunnerPlaces, KeptOutcomes, None
<1>2. TypeOK /\ ListInv /\ PodInv /\ [Next]_vars => PodInv'
  BY PodInvStep
<1>3. QED
  BY <1>1, <1>2, TypeCorrect, ListInvariant, PTL DEF Spec

(***************************************************************************)
(* settleRuntimeInvocation keeps what the invocation returned, whatever    *)
(* the poller finds then: it is lost only if it cannot be reported. Before *)
(* that InvokeSteps returns the context's error beside a success, so an    *)
(* output that the runner published is lost to the run's fatal marker, and *)
(* to nothing else, as long as the container is not killed.                *)
(***************************************************************************)
THEOREM SuccessCorrect == Spec => []SuccessIsKept
<1>1. PodInv => SuccessIsKept
  BY DEF PodInv, ExitInv, SuccessIsKept
<1>2. QED
  BY <1>1, PodInvariant, PTL

-----------------------------------------------------------------------------
\* The end of the map.

\* A step of a pod asks for a place it is not done with.
LEMMA DonePods ==
    ASSUME TypeOK, [Next]_vars, NEW u \in Units,
           place[u] = "done" \/ (place[u] = "waiting" /\ IsItem(u) /\ map # "running")
    PROVE  Same(u)
<1>1. ~PodStep(u)
  BY DEF PodStep, Prompt, Unhurried, Schedule, RetryPod, PodDone, PollMarker, RunnerCancelled,
     SettleRuntimeInvocation, Report, FailItem, EnterAuthor, PrepareFails, RunnerBreaks,
     ReportFails, RunnerEnds, AuthorReturns, AuthorDies, AttemptExpires, KillContainer, Alive,
     RunnerPlaces, PolledPlaces
<1>2. QED
  BY <1>1, PodFrame

\* The map ends once; then its envelopes and its result stay.
LEMMA EndedMap ==
    ASSUME [Next]_vars, map \in {"Succeeded", "Failed"}
    PROVE  UNCHANGED <<map, collected, envelopes>>
<1>1. ~Expand /\ ~CollectItemOutcomes /\ ~CollectItemResults /\ ~ControlPodFails /\ ~MapFails
  BY DEF Expand, CollectItemOutcomes, CollectItemResults, ControlPodFails, MapFails, AllItemsDone
<1>2. QED
  BY <1>1, MapPhase, StoreGrows

\* When a map ends, the item pods it started are done.
LEMMA MapEndsQuiet ==
    ASSUME TypeOK, ListInv, PodInv, [Next]_vars, map \notin {"Succeeded", "Failed"},
           map' \in {"Succeeded", "Failed"}
    PROVE  /\ UNCHANGED <<podVars, marker, hook>> /\ UNCHANGED envelopes
           /\ \A u \in Units : IsItem(u) => place[u] \in {"waiting", "done"}
           /\ map' = "Succeeded" => /\ \A i \in Items : place[i] = "done"
                                    /\ CollectItemOutcomes \/ CollectItemResults
           /\ map' = "Failed" => FailTask("map")
<1>1. \A u \in Units : IsItem(u) /\ u \notin Items => place[u] = "waiting"
  BY DEF PodInv, ItemInv
<1>2. CASE Expand
  <2>1. map = "expanding" /\ map' = "Failed" /\ FailTask("map") /\ UNCHANGED <<podVars, marker, envelopes, hook>>
    BY <1>2 DEF Expand, MapEnds
  <2>2. Items = {}
    BY <2>1, EnvelopeFacts
  <2>3. QED
    BY <1>1, <2>1, <2>2
<1>3. CASE CollectItemOutcomes \/ CollectItemResults
  <2>1. /\ \A i \in Items : place[i] = "done"
        /\ UNCHANGED <<podVars, marker, envelopes, hook>>
        /\ map' = "Failed" => FailTask("map")
    BY <1>3 DEF CollectItemOutcomes, CollectItemResults, AllItemsDone, MapEnds
  <2>2. QED
    BY <1>1, <1>3, <2>1
<1>4. CASE (ControlPodFails \/ MapFails) /\ map' = "Failed"
  <2>1. FailTask("map") /\ UNCHANGED <<podVars, marker, envelopes, hook>>
    BY <1>4 DEF ControlPodFails, MapFails, MapEnds
  <2>2. map = "expanding" \/ \A i \in Items : place[i] \in {"waiting", "done"}
    BY <1>4 DEF ControlPodFails, MapFails
  <2>3. map = "expanding" => Items = {}
    BY EnvelopeFacts
  <2>4. QED
    BY <1>1, <1>4, <2>1, <2>2, <2>3
<1>5. QED
  BY <1>2, <1>3, <1>4, MapPhase

LEMMA QuietStep ==
    ASSUME TypeOK, ListInv, PodInv, Quiet, [Next]_vars
    PROVE  Quiet'
<1>1. CASE map' \notin {"Succeeded", "Failed"}
  BY <1>1 DEF Quiet
<1>2. CASE map' \in {"Succeeded", "Failed"} /\ map \notin {"Succeeded", "Failed"}
  <2>1. UNCHANGED <<place, envelopes>>
    BY <1>2, MapEndsQuiet DEF podVars
  <2>2. \A u \in Units : IsItem(u)' <=> IsItem(u)
    BY DEF IsItem
  <2>3. Items' = Items
    BY <2>1 DEF Items, IsItem
  <2>4. QED
    BY <1>2, <2>1, <2>2, <2>3, MapEndsQuiet DEF Quiet
<1>3. CASE map \in {"Succeeded", "Failed"}
  <2>1. UNCHANGED <<map, envelopes>>
    BY <1>3, EndedMap
  <2>2. Items' = Items /\ \A u \in Units : IsItem(u)' <=> IsItem(u)
    BY <2>1 DEF Items, IsItem
  <2>3. \A u \in Units : IsItem(u) => place'[u] = place[u]
    BY <1>3, DonePods DEF Quiet, Same
  <2>4. Items \subseteq {u \in Units : IsItem(u)}
    BY DEF Items
  <2>5. QED
    BY <1>3, <2>1, <2>2, <2>3, <2>4 DEF Quiet
<1>4. QED
  BY <1>1, <1>2, <1>3

\* The map task ends once the item pods it started have ended.
THEOREM QuietInvariant == Spec => []Quiet
<1>1. Init => Quiet
  BY DEF Init, Quiet
<1>2. TypeOK /\ ListInv /\ PodInv /\ Quiet /\ [Next]_vars => Quiet'
  BY QuietStep
<1>3. QED
  BY <1>1, <1>2, TypeCorrect, ListInvariant, PodInvariant, PTL DEF Spec

-----------------------------------------------------------------------------
\* The collectors.

\* A nonempty set of naturals has a least element.
LEMMA NatLeast ==
    ASSUME NEW S \in SUBSET Nat, S # {}
    PROVE  \E i \in S : \A j \in S : i <= j
<1> DEFINE Less == OpToRel(<, Nat)
<1>1. \A i, j \in Nat : <<i, j>> \in Less <=> i < j
  BY DEF OpToRel
<1>2. IsWellFoundedOn(Less, Nat)
  BY NatLessThanWellFounded
<1> HIDE DEF Less
<1>3. \E i \in S : \A j \in S : ~ (<<j, i>> \in Less)
  BY <1>2, WFMin
<1>4. PICK i \in S : \A j \in S : ~ (<<j, i>> \in Less)
  BY <1>3
<1>5. ASSUME NEW j \in S PROVE i <= j
  <2>1. i \in Nat /\ j \in Nat /\ ~ (<<j, i>> \in Less)
    BY <1>4
  <2>2. ~ (j < i)
    BY <1>1, <2>1
  <2>3. QED
    BY <2>1, <2>2
<1>6. QED
  BY <1>5

\* An error anywhere is an error of the whole.
LEMMA FirstErrorNone ==
    ASSUME NEW results, NEW n \in Nat, DOMAIN results = 1..n, FirstError(results) = "none"
    PROVE  \A p \in 1..n : results[p].error = "none"
<1> DEFINE failed == {p \in DOMAIN results : results[p].error # "none"}
<1>1. SUFFICES ASSUME failed # {} PROVE FALSE
  OBVIOUS
<1>2. PICK least \in failed : \A q \in failed : least <= q
  <2>1. failed \subseteq Nat
    OBVIOUS
  <2> HIDE DEF failed
  <2>2. QED
    BY <1>1, <2>1, NatLeast
<1>3. PICK chosen : chosen = CHOOSE p \in failed : \A q \in failed : p <= q
  OBVIOUS
<1>4. chosen \in failed
  BY <1>2, <1>3
<1>5. FirstError(results) = results[chosen].error
  BY <1>1, <1>3 DEF FirstError
<1>6. QED
  BY <1>4, <1>5

\* mapexec.Collect: the entry with an item's index, in its place.
LEMMA Collected ==
    ASSUME NEW n \in Nat, NEW entries, DOMAIN entries = 1..n, Len(entries) = n,
           \A p \in 1..n : entries[p].index = p - 1,
           NEW result, result = Collect(entries)
    PROVE  /\ DOMAIN result.value = 1..n /\ Len(result.value) = n
           /\ \A p \in 1..n : result.value[p] = entries[p].entry
<1>1. {entries[p].index : p \in DOMAIN entries} = 0..(Len(entries) - 1)
  <2> DEFINE S == {entries[p].index : p \in DOMAIN entries}
  <2>1. \A i \in 0..(n - 1) : i \in S
    <3>1. \A i \in 0..(n - 1) : i + 1 \in 1..n /\ entries[i + 1].index = i
      OBVIOUS
    <3>2. QED
      BY <3>1
  <2>2. \A i \in S : i \in 0..(n - 1)
    OBVIOUS
  <2> HIDE DEF S
  <2>3. S = 0..(n - 1)
    BY <2>1, <2>2
  <2>4. QED
    BY <2>3 DEF S
<1> DEFINE At(i) == CHOOSE p \in DOMAIN entries : entries[p].index = i - 1
           values == [i \in DOMAIN entries |-> entries[At(i)].entry]
<1>2. result = Ok(values)
  BY <1>1 DEF Collect
<1>3. result.value = values
  BY <1>2 DEF Ok
<1>4. \A i \in 1..n : At(i) = i
  <2>1. SUFFICES ASSUME NEW i \in 1..n PROVE At(i) = i
    OBVIOUS
  <2>2. At(i) \in 1..n /\ entries[At(i)].index = i - 1
    OBVIOUS
  <2> HIDE DEF At
  <2>3. QED
    BY <2>2
<1> HIDE DEF At
<1>5. QED
  BY <1>3, <1>4

\* A value an item's file or a failure record refers to is the value itself.
LEMMA ReadBack ==
    ASSUME NEW body, NEW at, NEW published, NEW e,
           e = EncodePublishedItemResult(at, body) \/ e = EncodeItemFailure(at, body)
    PROVE  /\ e.index = at
           /\ InlineOrReferenced(e, published).error = "none" =>
                InlineOrReferenced(e, published).value = body
<1>1. CASE e = [tag |-> "ref", index |-> at, ref |-> RefFor(body)]
           \/ e = [tag |-> "failureRef", index |-> at, ref |-> RefFor(body)]
  <2>1. e.index = at /\ e.tag \in {"ref", "failureRef"} /\ e.ref = RefFor(body)
    BY <1>1
  <2>2. InlineOrReferenced(e, published) = ParseRef(RefFor(body), ItemInlineLimit, published)
    BY <2>1 DEF InlineOrReferenced
  <2>3. ParseRef(RefFor(body), ItemInlineLimit, published) \in {Err("contract"), Err("store"), Ok(body)}
    BY DEF ParseRef, RefFor, Resolve
  <2>4. QED
    BY <2>1, <2>2, <2>3 DEF Err, Ok
<1>2. CASE e = [tag |-> "value", index |-> at, body |-> body]
           \/ e = [tag |-> "failure", index |-> at, body |-> body]
  <2>1. e.index = at /\ e.tag \notin {"ref", "failureRef"} /\ e.body = body
    BY <1>2
  <2>2. InlineOrReferenced(e, published) \in {Err("contract"), Ok(body)}
    BY <2>1 DEF InlineOrReferenced
  <2>3. QED
    BY <2>1, <2>2 DEF Err, Ok
<1>3. QED
  BY <1>1, <1>2 DEF EncodePublishedItemResult, EncodeItemFailure

\* The outcomes of n items, which are not those of an empty list.
ItemOutcomes(envs, n) ==
    n \in Nat /\ DOMAIN envs = 1..n /\ Len(envs) = n /\ envs # <<EmptyMarker>>

\* The entries a collecting map returns.
LEMMA OutcomesCollected ==
    ASSUME NEW n, NEW envs, ItemOutcomes(envs, n), NEW limit, NEW missing, NEW published, NEW result,
           result = CollectOutcomes(envs, limit, missing, published), result.error = "none"
    PROVE  /\ DOMAIN result.value = 1..n /\ Len(result.value) = n
           /\ \A p \in 1..n :
                /\ OutcomeEntry(envs[p], p, limit, missing, published).error = "none"
                /\ result.value[p] = OutcomeEntry(envs[p], p, limit, missing, published).value
<1>0. n \in Nat /\ DOMAIN envs = 1..n /\ Len(envs) = n /\ envs # <<EmptyMarker>>
  BY DEF ItemOutcomes
<1> DEFINE entries == [p \in DOMAIN envs |-> OutcomeEntry(envs[p], p, limit, missing, published)]
<1>1. /\ FirstError(entries) = "none"
      /\ result = CollectOutcomeList([p \in DOMAIN entries |-> entries[p].value])
  <2>1. PICK e : e = FirstError(entries)
    OBVIOUS
  <2>2. CollectOutcomes(envs, limit, missing, published) =
            IF ~AggregateValid(envs) THEN Err("contract")
            ELSE IF e # "none" THEN Err(e)
            ELSE CollectOutcomeList([p \in DOMAIN entries |-> entries[p].value])
    BY <1>0, <2>1 DEF CollectOutcomes
  <2> HIDE DEF entries
  <2>3. QED
    BY <2>1, <2>2 DEF Err
<1>2. DOMAIN entries = 1..n
  BY <1>0
<1>3. \A p \in 1..n : entries[p] = OutcomeEntry(envs[p], p, limit, missing, published)
  BY <1>0
<1> HIDE DEF entries
<1>4. \A p \in 1..n : entries[p].error = "none"
  BY <1>0, <1>1, <1>2, FirstErrorNone
<1> DEFINE values == [p \in DOMAIN entries |-> entries[p].value]
           indexed == [p \in DOMAIN values |-> [index |-> p - 1, entry |-> values[p]]]
<1>5. result = Collect(indexed)
  BY <1>1 DEF CollectOutcomeList
<1>6. /\ DOMAIN indexed = 1..n /\ Len(indexed) = n
      /\ \A p \in 1..n : indexed[p].index = p - 1 /\ indexed[p].entry = entries[p].value
  BY <1>0, <1>2
<1> HIDE DEF values, indexed
<1>7. QED
  BY <1>0, <1>3, <1>4, <1>5, <1>6, Collected

\* The entries of a map that does not collect failures.
LEMMA ResultsCollected ==
    ASSUME NEW n, NEW envs, ItemOutcomes(envs, n), NEW published,
           NEW result, result = CollectResults(envs, published), result.error = "none"
    PROVE  /\ \A p \in 1..n : /\ envs[p].tag \notin OutcomeTags
                              /\ InlineOrReferenced(envs[p], published).error = "none"
           /\ (\A p \in 1..n : envs[p].index = p - 1) =>
                /\ DOMAIN result.value = 1..n /\ Len(result.value) = n
                /\ \A p \in 1..n : result.value[p] = InlineOrReferenced(envs[p], published).value
<1>0. n \in Nat /\ DOMAIN envs = 1..n /\ Len(envs) = n /\ envs # <<EmptyMarker>>
  BY DEF ItemOutcomes
<1> DEFINE values == [p \in DOMAIN envs |-> InlineOrReferenced(envs[p], published)]
           indexed == [p \in DOMAIN envs |-> [index |-> envs[p].index, entry |-> values[p].value]]
           bad == \E p \in DOMAIN envs : envs[p].tag \in OutcomeTags
<1>1. ~bad /\ FirstError(values) = "none" /\ result = Collect(indexed)
  <2>1. PICK e : e = FirstError(values)
    OBVIOUS
  <2>2. CollectResults(envs, published) =
            IF ~AggregateValid(envs) THEN Err("contract")
            ELSE IF bad THEN Err("contract")
            ELSE IF e # "none" THEN Err(e)
            ELSE Collect(indexed)
    BY <1>0, <2>1 DEF CollectResults
  <2> HIDE DEF values, indexed, bad
  <2>3. QED
    BY <2>1, <2>2 DEF Err
<1>2. /\ DOMAIN values = 1..n /\ DOMAIN indexed = 1..n /\ Len(indexed) = n
      /\ \A p \in 1..n : values[p] = InlineOrReferenced(envs[p], published)
  BY <1>0
<1>3. \A p \in 1..n : indexed[p].index = envs[p].index /\ indexed[p].entry = values[p].value
  <2> HIDE DEF values
  <2>1. QED
    BY <1>0
<1>4. \A p \in 1..n : envs[p].tag \notin OutcomeTags
  BY <1>0, <1>1
<1> HIDE DEF values, indexed, bad
<1>5. \A p \in 1..n : values[p].error = "none"
  BY <1>0, <1>1, <1>2, FirstErrorNone
<1>6. QED
  BY <1>0, <1>1, <1>2, <1>3, <1>4, <1>5, Collected

-----------------------------------------------------------------------------
\* A fatal marker and the pod that is bound to fail for it.

\* What a map task is told of its items.
LEMMA AggregateFacts ==
    ASSUME ListInv
    PROVE  /\ DOMAIN Aggregate = 1..Len(envelopes) /\ Len(Aggregate) = Len(envelopes)
           /\ Len(envelopes) \in Nat
           /\ \A p \in 1..Len(envelopes) : Aggregate[p] = ItemOutcome(p - 1) /\ p - 1 \in Items
           /\ \A i \in Items : i \in Nat /\ i + 1 \in 1..Len(envelopes) /\ Aggregate[i + 1] = ItemOutcome(i)
<1>1. PICK n \in Nat : n = Len(envelopes)
  BY EnvelopeFacts
<1>2. \A u \in Items : u \in 0..(n - 1)
  BY <1>1, EnvelopeFacts DEF Items
<1>3. \A u \in 0..(n - 1) : u \in Items
  BY <1>1, EnvelopeFacts
<1>4. Aggregate = [p \in 1..n |-> ItemOutcome(p - 1)]
  BY <1>1 DEF Aggregate
<1>5. \A i \in Items : i \in Nat /\ i + 1 \in 1..n /\ (i + 1) - 1 = i
  BY <1>2
<1>6. \A p \in 1..n : p - 1 \in Items
  BY <1>3
<1>7. QED
  BY <1>1, <1>4, <1>5, <1>6

LEMMA CollectedOutcomes ==
    ASSUME CollectItemOutcomes, map' = "Succeeded"
    PROVE  \E missing, result :
              /\ \A i \in missing : EstablishedFailure(i)
              /\ result = CollectOutcomes(Aggregate, MaxAttempts, ReadMissingItemFailures(missing), store)
              /\ result.error = "none" /\ collected' = result.value
<1>1. PICK missing : missing = MissingOutcomeNodes(Aggregate)
  OBVIOUS
<1>2. PICK result : result = CollectOutcomes(Aggregate, MaxAttempts, ReadMissingItemFailures(missing), store)
  OBVIOUS
<1>3. PICK final : /\ final = IF \A i \in missing : EstablishedFailure(i) THEN result ELSE Err("lost")
                   /\ MapEnds(IF final.error = "none" THEN "Succeeded" ELSE "Failed", final.value)
  BY <1>1, <1>2 DEF CollectItemOutcomes
<1>4. final.error = "none" /\ collected' = final.value
  BY <1>3 DEF MapEnds
<1>5. \A i \in missing : EstablishedFailure(i)
  BY <1>3, <1>4 DEF Err
<1>6. QED
  BY <1>2, <1>3, <1>4, <1>5

\* No map succeeds with a doomed item.
LEMMA DoomedFails ==
    ASSUME ListInv, CollectItemOutcomes \/ CollectItemResults, map' = "Succeeded", NEW i \in Items
    PROVE  ~Doomed(i)
<1>1. SUFFICES ASSUME Doomed(i) PROVE FALSE
  OBVIOUS
<1>2. IsItem(i) /\ place[i] = "done"
  BY DEF Items, CollectItemOutcomes, CollectItemResults, AllItemsDone
<1>3. exit[i] # 0 /\ evidence[i] # "author" /\ file[i] \in {NoFile, FatalItemEnvelope}
  BY <1>1, <1>2 DEF Doomed
<1>4. CASE CollectItemResults
  BY <1>2, <1>3, <1>4 DEF CollectItemResults, ItemFailed
<1>5. CASE CollectItemOutcomes
  <2>1. PICK missing, result :
              /\ \A j \in missing : EstablishedFailure(j)
              /\ result = CollectOutcomes(Aggregate, MaxAttempts, ReadMissingItemFailures(missing), store)
              /\ result.error = "none"
    BY <1>5, CollectedOutcomes
  <2>2. PICK p \in 1..Len(envelopes) : p = i + 1 /\ Aggregate[p] = ItemOutcome(i)
    BY AggregateFacts
  <2>3. PICK e : e = Aggregate[p] /\ e \in {LostEnvelope(i), FatalItemEnvelope}
    BY <1>3, <2>2 DEF ItemOutcome
  <2>4. e.tag \in {"lost", "fatal"} /\ (e.tag = "lost" => e.pod = i) /\ e # EmptyMarker
    BY <2>3 DEF LostEnvelope, FatalItemEnvelope, EmptyMarker
  <2>5. Aggregate # <<EmptyMarker>>
    <3>1. SUFFICES ASSUME Aggregate = <<EmptyMarker>> PROVE FALSE
      OBVIOUS
    <3>2. p \in DOMAIN <<EmptyMarker>>
      BY <3>1, AggregateFacts
    <3>3. p = 1
      BY <3>2
    <3>4. Aggregate[p] = EmptyMarker
      BY <3>1, <3>3
    <3>5. QED
      BY <2>3, <2>4, <3>4
  <2>6. PICK pods : pods = ReadMissingItemFailures(missing) /\ DOMAIN pods = missing
    <3>1. DOMAIN ReadMissingItemFailures(missing) = missing
      BY DEF ReadMissingItemFailures
    <3>2. QED
      BY <3>1
  <2>7. OutcomeEntry(e, p, MaxAttempts, pods, store).error = "none"
    <3>1. PICK n, envs :
            /\ n \in Nat /\ n = Len(envelopes) /\ envs = Aggregate /\ DOMAIN envs = 1..n /\ Len(envs) = n
      BY AggregateFacts
    <3>2. result = CollectOutcomes(envs, MaxAttempts, pods, store) /\ ItemOutcomes(envs, n)
      BY <2>1, <2>5, <2>6, <3>1 DEF ItemOutcomes
    <3>3. OutcomeEntry(envs[p], p, MaxAttempts, pods, store).error = "none"
      BY <2>1, <2>2, <3>1, <3>2, OutcomesCollected
    <3>4. QED
      BY <2>3, <3>1, <3>3
  <2>8. i \notin missing
    BY <1>3, <2>1 DEF EstablishedFailure
  <2>9. OutcomeEntry(e, p, MaxAttempts, pods, store) \in {Err("fatal"), Err("contract")}
    BY <2>4, <2>6, <2>8 DEF OutcomeEntry
  <2>10. QED
    BY <2>7, <2>9 DEF Err
<1>6. QED
  BY <1>4, <1>5

\* The step of a pod leaves the map's envelopes alone.
LEMMA PodKeepsEnvelopes ==
    ASSUME NEW u \in Units, PodStep(u)
    PROVE  /\ UNCHANGED envelopes /\ Items' = Items
           /\ \A v \in Units : (IsItem(v)' <=> IsItem(v)) /\ (IsEmptyItem(v)' <=> IsEmptyItem(v))
<1>1. UNCHANGED envelopes
  BY DEF PodStep, Prompt, Unhurried, Schedule, RetryPod, PodDone, PollMarker, RunnerCancelled,
     SettleRuntimeInvocation, Report, FailItem, EnterAuthor, PrepareFails, RunnerBreaks,
     ReportFails, RunnerEnds, AuthorReturns, AuthorDies, AttemptExpires, KillContainer, RunnerReturns
<1>2. QED
  BY <1>1 DEF Items, IsEmptyItem, IsItem

\* A doomed pod stays doomed: a retry finds the marker.
LEMMA DoomedStep ==
    ASSUME TypeOK, ListInv, [Next]_vars, NEW u \in Units, Doomed(u), marker # None
    PROVE  Doomed(u)'
<1>1. CASE ~PodStep(u)
  <2>1. Same(u)
    BY <1>1, PodFrame
  <2>2. IsItem(u) => UNCHANGED envelopes
    BY EnvelopeFacts, StoreGrows DEF Doomed, Expand
  <2>3. IsItem(u) => Items' = Items /\ (IsEmptyItem(u)' <=> IsEmptyItem(u))
    BY <2>2 DEF Items, IsEmptyItem, IsItem
  <2>4. IsItem(u)' <=> IsItem(u)
    BY DEF IsItem
  <2>5. QED
    BY <2>1, <2>3, <2>4 DEF Same, Doomed
<1>2. CASE PodStep(u)
  <2>1. Items' = Items /\ (IsItem(u)' <=> IsItem(u)) /\ (IsEmptyItem(u)' <=> IsEmptyItem(u))
    BY <1>2, PodKeepsEnvelopes
  <2>2. CASE RetryPod(u)
    <3>1. PICK n : Started(u, n)
      BY <2>2, StartIs DEF RetryPod
    <3>2. ~IsEmptyItem(u)
      BY DEF Doomed, IsEmptyItem
    <3>3. place'[u] = "failing" /\ file'[u] = NoFile /\ (IsItem(u) => evidence'[u] = "hydrate")
      BY <3>1, <3>2 DEF Started
    <3>4. QED
      BY <2>1, <3>3 DEF Doomed
  <2>3. CASE PodDone(u)
    <3>1. /\ place[u] = "exited" /\ place'[u] = "done"
          /\ evidence'[u] = evidence[u] /\ file'[u] = file[u] /\ exit'[u] = exit[u]
      BY <2>3 DEF TypeOK, PodDone
    <3>2. QED
      BY <2>1, <3>1 DEF Doomed
  <2>4. CASE FailItem(u)
    <3>1. PICK code \in {69, 68, 124, 64, 65, 66, 67, 3, 1} : code = ExitCodeFor(err[u])
      BY DEF ExitCodeFor
    <3>2. /\ place'[u] = "failing" \/ (place'[u] = "exited" /\ exit'[u] = code)
          /\ IsItem(u) => evidence'[u] \in {evidence[u], "fatal"} /\ file'[u] \in {file[u], FatalItemEnvelope}
      BY <2>4, <3>1 DEF TypeOK, FailItem, Record
    <3>3. QED
      BY <2>1, <3>2 DEF Doomed
  <2>5. ASSUME NEW how \in {"oom", "evicted"}, KillContainer(u, how) PROVE Doomed(u)'
    <3>1. /\ place'[u] = "exited" /\ exit'[u] = 137
          /\ evidence'[u] = evidence[u] /\ file'[u] \in {file[u], NoFile}
      BY <2>5 DEF TypeOK, KillContainer
    <3>2. QED
      BY <2>1, <3>1 DEF Doomed
  <2>6. QED
    BY <1>2, <2>2, <2>3, <2>4, <2>5 DEF PodStep, Prompt, Unhurried, Schedule, PollMarker,
       RunnerCancelled, SettleRuntimeInvocation, Report, EnterAuthor, PrepareFails, RunnerBreaks,
       ReportFails, RunnerEnds, AuthorReturns, AuthorDies, AttemptExpires, RunnerPlaces, PolledPlaces,
       Doomed
<1>3. QED
  BY <1>1, <1>2

\* A failed task stays failed.
LEMMA FailedGrows ==
    ASSUME TypeOK, [Next]_vars
    PROVE  \A t \in {"step", "map"} : failedAt[t] > 0 => failedAt'[t] > 0
<1>1. \/ UNCHANGED failedAt \/ FailTask("step") \/ FailTask("map")
  <2>1. ASSUME NEW u \in Units, PodStep(u) PROVE UNCHANGED failedAt \/ FailTask("step")
    BY <2>1 DEF PodStep, Prompt, Unhurried, Schedule, RetryPod, PodDone, PollMarker, RunnerCancelled,
       SettleRuntimeInvocation, Report, FailItem, EnterAuthor, PrepareFails, RunnerBreaks,
       ReportFails, RunnerEnds, AuthorReturns, AuthorDies, AttemptExpires, KillContainer, RunnerReturns
  <2>2. CASE ControlPodFails \/ MapStep \/ ExitHook
    BY <2>2 DEF ControlPodFails, MapStep, Expand, CollectItemOutcomes, CollectItemResults, MapFails,
       ExitHook, MapEnds
  <2>3. CASE UNCHANGED vars
    BY <2>3 DEF vars
  <2>4. QED
    BY <2>1, <2>2, <2>3 DEF Next, Over, PodStep
<1>2. QED
  BY <1>1, FailTaskIs

\* The pod that writes the marker is doomed.
LEMMA NewMarker ==
    ASSUME TypeOK, PodInv, [Next]_vars, marker = None, marker' # None
    PROVE  \E u \in Units : NodeOf(u) = marker' /\ Doomed(u)'
<1>1. PICK u \in Units : SettleRuntimeInvocation(u)
  BY MarkerChange
<1>2. /\ place[u] = "settling" /\ place'[u] = "failing" /\ marker' = NodeOf(u)
      /\ evidence'[u] = evidence[u] /\ file'[u] = file[u]
  BY <1>1, SettleIs DEF PodInv
<1>3. Items' = Items /\ (IsItem(u)' <=> IsItem(u)) /\ (IsEmptyItem(u)' <=> IsEmptyItem(u))
  BY <1>1, PodKeepsEnvelopes DEF PodStep, Prompt
<1>4. IsItem(u) => /\ u \in Items /\ ~IsEmptyItem(u) /\ evidence[u] # "author" /\ file[u] = NoFile
  BY <1>2 DEF PodInv, ItemInv, Live
<1>5. Doomed(u)'
  BY <1>2, <1>3, <1>4 DEF Doomed
<1>6. QED
  BY <1>2, <1>5

LEMMA FatalInvStep ==
    ASSUME TypeOK, ListInv, PodInv, Quiet, FatalInv, [Next]_vars
    PROVE  FatalInv'
<1>1. marker' # None => \E u \in Units : NodeOf(u)' = marker' /\ Doomed(u)'
  <2>1. \A u \in Units : NodeOf(u)' = NodeOf(u)
    BY DEF NodeOf, IsItem
  <2>2. CASE marker = None
    BY <2>1, <2>2, NewMarker
  <2>3. CASE marker # None
    <3>1. marker' = marker
      BY <2>3, MarkerChange, SettleIs DEF PodInv
    <3>2. QED
      BY <2>1, <2>3, <3>1, DoomedStep DEF FatalInv
  <2>4. QED
    BY <2>2, <2>3
<1>2. place'[Step] = "done" /\ exit'[Step] # 0 => failedAt'["step"] > 0
  <2>1. CASE Same(Step)
    BY <2>1, FailedGrows DEF Same, FatalInv
  <2>2. CASE PodStep(Step) /\ place'[Step] = "done"
    <3>1. Step \in Units
      BY UnitFacts
    <3>2. PodDone(Step)
      <4>1. CASE Schedule(Step) \/ RetryPod(Step)
        <5>1. PICK n : Started(Step, n)
          BY <3>1, <4>1, StartIs DEF Schedule, RetryPod
        <5>2. QED
          BY <2>2, <5>1 DEF Started
      <4>2. CASE SettleRuntimeInvocation(Step)
        BY <2>2, <3>1, <4>2, SettleIs DEF PodInv
      <4>3. CASE PollMarker(Step) \/ Report(Step) \/ ReportFails(Step) \/ FailItem(Step)
                 \/ EnterAuthor(Step) \/ PrepareFails(Step) \/ \E end \in Handed : AuthorReturns(Step, end)
                 \/ \E how \in {"oom", "evicted"} : KillContainer(Step, how)
        BY <2>2, <3>1, <4>3 DEF TypeOK, PollMarker, PolledPlaces, Report, ReportFails, FailItem,
           EnterAuthor, PrepareFails, AuthorReturns, KillContainer
      <4>4. CASE RunnerStep(Step)
        BY <2>2, <3>1, <4>4, ReturnedRunner DEF Returned
      <4>5. QED
        BY <2>2, <4>1, <4>2, <4>3, <4>4 DEF PodStep, Prompt, Unhurried, RunnerStep, Handed
    <3>3. exit'[Step] # 0 => FailTask("step")
      BY <3>2 DEF PodDone
    <3>4. QED
      BY <3>3, FailTaskIs
  <2>3. QED
    BY <2>1, <2>2, UnitFacts, PodFrame
<1>3. map' = "Failed" => failedAt'["map"] > 0
  <2>1. CASE map \in {"Succeeded", "Failed"}
    BY <2>1, EndedMap, FailedGrows DEF FatalInv
  <2>2. CASE map \notin {"Succeeded", "Failed"}
    BY <2>2, MapEndsQuiet, FailTaskIs
  <2>3. QED
    BY <2>1, <2>2
<1>4. ASSUME map' = "Succeeded" PROVE \A i \in Items' : ~Doomed(i)'
  <2>1. UNCHANGED envelopes
    BY <1>4, EndedMap, MapEndsQuiet
  <2>2. /\ Items' = Items
        /\ \A i \in Items : i \in Units /\ (IsItem(i)' <=> IsItem(i)) /\ (IsEmptyItem(i)' <=> IsEmptyItem(i))
    BY <2>1 DEF Items, IsItem, IsEmptyItem
  <2>3. CASE map \in {"Succeeded", "Failed"}
    <3>1. map = "Succeeded"
      BY <1>4, <2>3, EndedMap
    <3>2. \A i \in Items : Same(i) /\ ~Doomed(i)
      BY <2>2, <3>1, DonePods DEF Quiet, FatalInv
    <3>3. QED
      BY <2>2, <3>2 DEF Same, Doomed
  <2>4. CASE map \notin {"Succeeded", "Failed"}
    <3>1. UNCHANGED podVars /\ (CollectItemOutcomes \/ CollectItemResults)
      BY <1>4, <2>4, MapEndsQuiet
    <3>2. \A i \in Items : ~Doomed(i)
      BY <1>4, <3>1, DoomedFails
    <3>3. QED
      BY <2>2, <3>1, <3>2 DEF podVars, Doomed
  <2>5. QED
    BY <2>3, <2>4
<1>5. QED
  BY <1>1, <1>2, <1>3, <1>4 DEF FatalInv

(***************************************************************************)
(* A published marker (PublishFatalRun) has a pod behind it that fails:    *)
(* its retries read the marker and its failure is none a collector keeps.  *)
(***************************************************************************)
THEOREM FatalInvariant == Spec => []FatalInv
<1>1. Init => FatalInv
  BY UnitFacts DEF Init, FatalInv, None
<1>2. TypeOK /\ ListInv /\ PodInv /\ Quiet /\ FatalInv /\ [Next]_vars => FatalInv'
  BY FatalInvStep
<1>3. QED
  BY <1>1, <1>2, TypeCorrect, ListInvariant, PodInvariant, QuietInvariant, PTL DEF Spec

LEMMA FatalFails ==
    ASSUME TypeOK, FatalInv, Settled, marker # None
    PROVE  FailedTasks # {}
<1>1. PICK u \in Units : NodeOf(u) = marker /\ Doomed(u)
  BY DEF FatalInv
<1>2. CASE IsItem(u)
  BY <1>1, <1>2 DEF FatalInv, Settled, FailedTasks, Doomed
<1>3. CASE ~IsItem(u)
  BY <1>1, <1>3 DEF FatalInv, Settled, FailedTasks, Doomed, IsItem
<1>4. QED
  BY <1>2, <1>3

LEMMA HookInvStep ==
    ASSUME TypeOK, ListInv, PodInv, Quiet, FatalInv, HookInv, [Next]_vars
    PROVE  HookInv'
<1>1. UNCHANGED hook \/ ExitHook
  <2>1. ASSUME NEW u \in Units, PodStep(u) PROVE UNCHANGED hook
    BY <2>1 DEF PodStep, Prompt, Unhurried, Schedule, RetryPod, PodDone, PollMarker, RunnerCancelled,
       SettleRuntimeInvocation, Report, FailItem, EnterAuthor, PrepareFails, RunnerBreaks,
       ReportFails, RunnerEnds, AuthorReturns, AuthorDies, AttemptExpires, KillContainer, RunnerReturns
  <2>2. CASE ControlPodFails \/ MapStep \/ ExitHook
    BY <2>2 DEF ControlPodFails, MapStep, Expand, CollectItemOutcomes, CollectItemResults, MapFails
  <2>3. CASE UNCHANGED vars
    BY <2>3 DEF vars
  <2>4. QED
    BY <2>1, <2>2, <2>3 DEF Next, Over, PodStep
<1>2. CASE ExitHook
  <2>1. Settled /\ UNCHANGED <<marker, map, place, failedAt>>
    BY <1>2 DEF ExitHook, podVars
  <2>2. Settled'
    BY <2>1 DEF Settled
  <2>3. ASSUME marker # None PROVE hook'.status = "failed" /\ hook'.fatal \in {None, marker}
    <3>1. FailedTasks # {}
      BY <2>1, <2>3, FatalFails
    <3>2. ExitStatus.status = "failed" /\ ExitStatus.fatal = None
      BY <3>1 DEF ExitStatus
    <3>3. hook' \in {ExitStatus, [status |-> "failed", failedNode |-> marker, fatal |-> marker]}
      BY <1>2, <2>3 DEF ExitHook
    <3>4. QED
      BY <3>2, <3>3
  <2>4. QED
    BY <2>1, <2>2, <2>3 DEF HookInv
<1>3. CASE UNCHANGED hook /\ hook # NoHook
  <2>1. Settled
    BY <1>3 DEF HookInv
  <2>2. UNCHANGED map /\ Same(Step)
    BY <2>1, EndedMap, DonePods, UnitFacts DEF Settled
  <2>3. Settled'
    BY <2>1, <2>2 DEF Settled, Same
  <2>4. UNCHANGED marker
    <3>1. \A u \in Units : place[u] # "settling"
      BY <2>1 DEF Settled, Quiet, IsItem
    <3>2. QED
      BY <3>1, MarkerChange DEF SettleRuntimeInvocation
  <2>5. QED
    BY <1>3, <2>3, <2>4 DEF HookInv
<1>4. QED
  BY <1>1, <1>2, <1>3 DEF HookInv, NoHook

\* What the exit hook was told stands: nothing runs once it was started, and a marker
\* that is there by then made the run fail (RuntimeExitHookCommand).
THEOREM HookInvariant == Spec => []HookInv
<1>1. Init => HookInv
  BY DEF Init, HookInv
<1>2. TypeOK /\ ListInv /\ PodInv /\ Quiet /\ FatalInv /\ HookInv /\ [Next]_vars => HookInv'
  BY HookInvStep
<1>3. QED
  BY <1>1, <1>2, TypeCorrect, ListInvariant, PodInvariant, QuietInvariant, FatalInvariant, PTL DEF Spec

(***************************************************************************)
(* A run whose fatal marker was published fails, and its exit hook         *)
(* (RuntimeExitHookCommand) is told so, whichever pods die on the way.     *)
(***************************************************************************)
THEOREM FatalCorrect == Spec => []FatalRunFails
<1>1. TypeOK /\ FatalInv /\ HookInv => FatalRunFails
  <2>1. SUFFICES ASSUME TypeOK, FatalInv, HookInv, marker # None
                 PROVE  /\ Settled => FailedTasks # {}
                        /\ hook.status # "succeeded" /\ hook.fatal \in {None, marker}
    BY DEF FatalRunFails
  <2>2. Settled => FailedTasks # {}
    BY <2>1, FatalFails
  <2>3. CASE hook = NoHook
    BY <2>2, <2>3 DEF NoHook, None
  <2>4. CASE hook # NoHook
    BY <2>1, <2>2, <2>4 DEF HookInv
  <2>5. QED
    BY <2>3, <2>4
<1>2. QED
  BY <1>1, TypeCorrect, FatalInvariant, HookInvariant, PTL

-----------------------------------------------------------------------------
\* The result of a map.

\* An entry for item i: what author code computed, or what ended its last attempt.
KeptRecord(i, x) ==
    /\ x.what = "failure" /\ Explains(i, x) /\ x.attempts = attempt[i]
    /\ x.kind = "non-retryable" \/ attempt[i] = MaxAttempts

TrueEntry(i, x) ==
    \/ truth[i] = "exit0" /\ x = ResultBody(i, ItemBody(i))
    \/ collecting /\ KeptRecord(i, x)

TruthInv ==
    map = "Succeeded" =>
        /\ DOMAIN collected = 1..Len(list.items) /\ Len(collected) = Len(list.items)
        /\ \A p \in 1..Len(list.items) : TrueEntry(p - 1, collected[p])

\* A failure the pod reported.
LEMMA ReportedRecord ==
    ASSUME NEW u, NEW o, Final(u, o), NEW x, x = NewFailure(FailureKind(o), attempt[u])
    PROVE  KeptRecord(u, x)
<1>1. PICK k : k = FailureKind(o)
  OBVIOUS
<1>2. x.what = "failure" /\ x.kind = k /\ x.attempts = attempt[u]
  BY <1>1 DEF NewFailure
<1>3. o \in {"timeout", "nonretryable", "signal", "step", "other"} /\ truth[u] \in TruthsOf(o)
  BY DEF Final, KeptOutcomes
<1>4. Explains(u, x)
  BY <1>1, <1>2, <1>3 DEF FailureKind, TruthsOf, Explains
<1>5. k = "non-retryable" \/ attempt[u] = MaxAttempts
  BY <1>1 DEF Final, FailureKind
<1>6. QED
  BY <1>2, <1>4, <1>5 DEF KeptRecord

\* A container that ran out of memory in author code, established by missingItemFailure.
LEMMA EstablishedRecord ==
    ASSUME NEW u \in Units, IsItem(u), PodInv, place[u] = "done", EstablishedFailure(u),
           NEW x, x = NewFailure("killed", attempt[u])
    PROVE  KeptRecord(u, x)
<1>1. x.what = "failure" /\ x.kind = "killed" /\ x.attempts = attempt[u]
  BY DEF NewFailure
<1>2. truth[u] = "entered"
  BY DEF PodInv, ItemInv, EstablishedFailure
<1>3. attempt[u] = MaxAttempts
  BY DEF PodInv, ExitInv, EstablishedFailure, None
<1>4. QED
  BY <1>1, <1>2, <1>3 DEF KeptRecord, Explains

\* What an item's file can hold, by its tag.
LEMMA FileTags ==
    ASSUME NEW u \in Items, FileInv(u), ~IsEmptyItem(u), NEW e, e = ItemOutcome(u)
    PROVE  /\ e.tag \in {"lost", "fatal", "value", "ref", "failure", "failureRef"}
           /\ e.tag = "lost" => e.pod = u
           /\ e.tag \in {"value", "ref"} =>
                truth[u] = "exit0" /\ e = EncodePublishedItemResult(u, ResultBody(u, ItemBody(u)))
           /\ e.tag \in {"failure", "failureRef"} =>
                \E o, x : /\ Final(u, o) /\ x = NewFailure(FailureKind(o), attempt[u])
                          /\ e = EncodeItemFailure(u, x)
<1>1. CASE file[u] = NoFile
  BY <1>1 DEF ItemOutcome, LostEnvelope
<1>2. CASE file[u] = FatalItemEnvelope
  BY <1>2 DEF ItemOutcome, LostEnvelope, FatalItemEnvelope, NoFile
<1>3. ASSUME truth[u] = "exit0", NEW x, x = ResultBody(u, ItemBody(u)),
             file[u] = EncodePublishedItemResult(u, x)
      PROVE  /\ e.tag \in {"value", "ref"} /\ e = EncodePublishedItemResult(u, x)
  <2>1. PICK f : f = file[u] /\ f.tag \in {"value", "ref"}
    BY <1>3 DEF EncodePublishedItemResult
  <2>2. f # NoFile
    BY <2>1 DEF NoFile
  <2>3. e = f
    BY <2>1, <2>2 DEF ItemOutcome
  <2>4. QED
    BY <1>3, <2>1, <2>3
<1>4. ASSUME NEW o, Final(u, o), NEW x, x = NewFailure(FailureKind(o), attempt[u]),
             file[u] = EncodeItemFailure(u, x)
      PROVE  /\ e.tag \in {"failure", "failureRef"} /\ e = EncodeItemFailure(u, x)
  <2>1. PICK f : f = file[u] /\ f.tag \in {"failure", "failureRef"}
    BY <1>4 DEF EncodeItemFailure
  <2>2. f # NoFile
    BY <2>1 DEF NoFile
  <2>3. e = f
    BY <2>1, <2>2 DEF ItemOutcome
  <2>4. QED
    BY <1>4, <2>1, <2>3
<1>5. QED
  BY <1>1, <1>2, <1>3, <1>4 DEF FileInv

\* An entry a collecting map accepts is true.
LEMMA OutcomeIsTrue ==
    ASSUME ListInv, PodInv, collecting, NEW u \in Items, ~IsEmptyItem(u), place[u] = "done",
           NEW missing, \A i \in missing : EstablishedFailure(i),
           NEW pods, pods = ReadMissingItemFailures(missing),
           NEW entry, entry = OutcomeEntry(ItemOutcome(u), u + 1, MaxAttempts, pods, store),
           entry.error = "none"
    PROVE  TrueEntry(u, entry.value)
<1>1. u \in Units /\ IsItem(u) /\ u \in Nat /\ FileInv(u)
  BY UnitFacts DEF Items, PodInv, ItemInv
<1>2. PICK e : e = ItemOutcome(u)
  OBVIOUS
<1>3. e.tag \in {"lost", "fatal", "value", "ref", "failure", "failureRef"}
  BY <1>1, <1>2, FileTags
<1>4. CASE e.tag = "fatal"
  <2>1. entry = Err("fatal")
    BY <1>2, <1>4 DEF OutcomeEntry
  <2>2. QED
    BY <2>1 DEF Err
<1>5. CASE e.tag = "lost"
  <2>1. e.pod = u
    BY <1>1, <1>2, <1>5, FileTags
  <2>2. entry = IF u \in DOMAIN pods THEN ParseFailure(Ok(pods[u]), MaxAttempts) ELSE Err("contract")
    BY <1>2, <1>5, <2>1 DEF OutcomeEntry
  <2>3. DOMAIN pods = missing /\ \A i \in missing : pods[i] = NewFailure("killed", attempt[i])
    BY DEF ReadMissingItemFailures
  <2>4. u \in missing
    BY <2>2, <2>3 DEF Err
  <2>5. PICK x : x = NewFailure("killed", attempt[u]) /\ pods[u] = x
    BY <2>3, <2>4
  <2>6. entry.value = x
    BY <2>2, <2>3, <2>4, <2>5 DEF ParseFailure, Err, Ok
  <2>7. KeptRecord(u, x)
    BY <1>1, <2>4, <2>5, EstablishedRecord
  <2>8. QED
    BY <2>6, <2>7 DEF TrueEntry
<1>6. CASE e.tag \in {"value", "ref"}
  <2>1. PICK x : x = ResultBody(u, ItemBody(u))
    OBVIOUS
  <2>2. truth[u] = "exit0" /\ e = EncodePublishedItemResult(u, x)
    BY <1>1, <1>2, <1>6, <2>1, FileTags
  <2>3. /\ e.index = u
        /\ InlineOrReferenced(e, store).error = "none" => InlineOrReferenced(e, store).value = x
    BY <2>2, ReadBack
  <2>4. entry = InlineOrReferenced(e, store)
    <3>1. e.index = (u + 1) - 1
      BY <1>1, <2>3
    <3>2. QED
      BY <1>2, <1>6, <3>1 DEF OutcomeEntry
  <2>5. QED
    BY <2>1, <2>2, <2>3, <2>4 DEF TrueEntry
<1>7. CASE e.tag \in {"failure", "failureRef"}
  <2>1. PICK o, x : /\ Final(u, o) /\ x = NewFailure(FailureKind(o), attempt[u])
                    /\ e = EncodeItemFailure(u, x)
    BY <1>1, <1>2, <1>7, FileTags
  <2>2. /\ e.index = u
        /\ InlineOrReferenced(e, store).error = "none" => InlineOrReferenced(e, store).value = x
    BY <2>1, ReadBack
  <2>3. entry = ParseFailure(InlineOrReferenced(e, store), MaxAttempts)
    <3>1. e.index = (u + 1) - 1
      BY <1>1, <2>2
    <3>2. QED
      BY <1>2, <1>7, <3>1 DEF OutcomeEntry
  <2>4. PICK body : body = InlineOrReferenced(e, store)
    OBVIOUS
  <2>5. entry = body /\ body.error = "none"
    BY <2>3, <2>4 DEF ParseFailure, Err
  <2>6. entry.value = x /\ KeptRecord(u, x)
    BY <2>1, <2>2, <2>4, <2>5, ReportedRecord
  <2>7. QED
    BY <2>6 DEF TrueEntry
<1>8. QED
  BY <1>3, <1>4, <1>5, <1>6, <1>7

\* The map of an empty list returns an empty list.
LEMMA EmptyCollected ==
    ASSUME TypeOK, ListInv, PodInv, CollectItemOutcomes \/ CollectItemResults, map' = "Succeeded",
           Len(list.items) = 0
    PROVE  collected' = <<>>
<1>1. envelopes = <<EmptyMarker>>
  <2>1. PICK n \in 0..MaxItems :
        /\ list = ListOf(n)
        /\ \/ envelopes = <<>> /\ map \in {"expanding", "Failed"}
           \/ n = 0 /\ envelopes = <<EmptyMarker>>
           \/ n > 0
    BY DEF ListInv
  <2>2. n = 0
    BY <2>1, ListFacts
  <2>3. map = "running"
    BY DEF CollectItemOutcomes, CollectItemResults, AllItemsDone
  <2>4. QED
    BY <2>1, <2>2, <2>3
<1>2. Len(envelopes) = 1
  BY <1>1
<1>3. 1 \in 1..Len(envelopes) /\ 1 - 1 = 0
  BY <1>2
<1>4. 0 \in Items /\ Aggregate[1] = ItemOutcome(0)
  BY <1>3, AggregateFacts
<1>5. IsEmptyItem(0) /\ 0 \in Units /\ IsItem(0)
  BY <1>4, EnvelopeFacts DEF Items
<1>6. FileInv(0) /\ evidence[0] # "author"
  BY <1>4, <1>5 DEF PodInv, ItemInv
<1>7. PICK e : e = ItemOutcome(0) /\ e \in {EmptyMarker, LostEnvelope(0)}
  BY <1>5, <1>6 DEF FileInv, ItemOutcome
<1>8. PICK n, envs :
        n \in Nat /\ n = 1 /\ envs = Aggregate /\ DOMAIN envs = 1..n /\ Len(envs) = n /\ envs[1] = e
  BY <1>2, <1>4, <1>7, AggregateFacts
<1>9. e = EmptyMarker => envs = <<EmptyMarker>>
  <2>1. envs = [p \in 1..1 |-> ItemOutcome(p - 1)]
    BY <1>2, <1>8 DEF Aggregate
  <2>2. ASSUME e = EmptyMarker PROVE envs = [p \in 1..1 |-> EmptyMarker]
    <3>1. \A p \in 1..1 : ItemOutcome(p - 1) = EmptyMarker
      <4>1. \A p \in 1..1 : p - 1 = 0
        OBVIOUS
      <4>2. QED
        BY <1>7, <2>2, <4>1
    <3>2. QED
      BY <2>1, <3>1
  <2>3. [p \in 1..1 |-> EmptyMarker] = <<EmptyMarker>>
    OBVIOUS
  <2>4. QED
    BY <2>2, <2>3
<1>10. e # EmptyMarker => e.tag = "lost" /\ e.pod = 0 /\ envs # <<EmptyMarker>>
  BY <1>7, <1>8 DEF LostEnvelope
<1>11. CASE CollectItemOutcomes
  <2>1. PICK missing, result :
              /\ \A i \in missing : EstablishedFailure(i)
              /\ result = CollectOutcomes(Aggregate, MaxAttempts, ReadMissingItemFailures(missing), store)
              /\ result.error = "none" /\ collected' = result.value
    BY <1>11, CollectedOutcomes
  <2>2. PICK pods : pods = ReadMissingItemFailures(missing)
    OBVIOUS
  <2>3. DOMAIN pods = missing
    BY <2>2 DEF ReadMissingItemFailures
  <2>4. result = CollectOutcomes(envs, MaxAttempts, pods, store)
    BY <1>8, <2>1, <2>2
  <2>5. CASE e = EmptyMarker
    <3>1. result = Err("contract") \/ result = Ok(<<>>)
      BY <1>9, <2>4, <2>5 DEF CollectOutcomes
    <3>2. QED
      BY <2>1, <3>1 DEF Err, Ok
  <2>6. CASE e # EmptyMarker
    <3>1. OutcomeEntry(envs[1], 1, MaxAttempts, pods, store).error = "none"
      <4>1. PICK p \in 1..n : p = 1
        BY <1>8
      <4>2. ItemOutcomes(envs, n)
        BY <1>8, <1>10, <2>6 DEF ItemOutcomes
      <4>3. OutcomeEntry(envs[p], p, MaxAttempts, pods, store).error = "none"
        <5>1. result.error = "none"
          BY <2>1
        <5>2. QED
          BY <2>4, <4>2, <5>1, OutcomesCollected
      <4>4. QED
        BY <4>1, <4>3
    <3>2. 0 \notin missing
      BY <1>6, <2>1 DEF EstablishedFailure
    <3>3. OutcomeEntry(e, 1, MaxAttempts, pods, store) = Err("contract")
      BY <1>10, <2>3, <2>6, <3>2 DEF OutcomeEntry
    <3>4. QED
      BY <1>8, <3>1, <3>3 DEF Err
  <2>7. QED
    BY <2>5, <2>6
<1>12. CASE CollectItemResults
  <2>1. PICK result : /\ result = CollectResults(envs, store)
                      /\ MapEnds(IF result.error = "none" THEN "Succeeded" ELSE "Failed", result.value)
    BY <1>8, <1>12 DEF CollectItemResults
  <2>2. result.error = "none" /\ collected' = result.value
    BY <2>1 DEF MapEnds
  <2>3. CASE e = EmptyMarker
    <3>1. result = Err("contract") \/ result = Ok(<<>>)
      BY <1>9, <2>1, <2>3 DEF CollectResults
    <3>2. QED
      BY <2>2, <3>1 DEF Err, Ok
  <2>4. CASE e # EmptyMarker
    <3>1. PICK p \in 1..n : p = 1
      BY <1>8
    <3>2. ItemOutcomes(envs, n)
      BY <1>8, <1>10, <2>4 DEF ItemOutcomes
    <3>3. envs[p].tag \notin OutcomeTags
      <4>1. result = CollectResults(envs, store) /\ result.error = "none"
        BY <2>1, <2>2
      <4>2. QED
        BY <3>2, <4>1, ResultsCollected
    <3>4. QED
      BY <1>8, <1>10, <2>4, <3>1, <3>3 DEF OutcomeTags
  <2>5. QED
    BY <2>3, <2>4
<1>13. QED
  BY <1>11, <1>12

\* The map of a list with items returns a true entry for each.
LEMMA ItemsCollected ==
    ASSUME TypeOK, ListInv, PodInv, CollectItemOutcomes \/ CollectItemResults, map' = "Succeeded",
           NEW n \in Nat, n = Len(list.items), n > 0
    PROVE  /\ DOMAIN collected' = 1..n /\ Len(collected') = n
           /\ \A p \in 1..n : TrueEntry(p - 1, collected'[p])
<1>1. map = "running" /\ \A i \in Items : place[i] = "done"
  BY DEF CollectItemOutcomes, CollectItemResults, AllItemsDone
<1>2. Len(envelopes) = n /\ \A i \in Items : ~IsEmptyItem(i)
  BY <1>1, EnvelopeFacts
<1>3. \A i \in Items : FileInv(i) /\ i \in Units /\ IsItem(i)
  BY DEF Items, PodInv, ItemInv
<1>4. PICK envs : /\ envs = Aggregate /\ DOMAIN envs = 1..n /\ Len(envs) = n
                  /\ \A p \in 1..n : envs[p] = ItemOutcome(p - 1) /\ p - 1 \in Items
  BY <1>2, AggregateFacts
<1>5. envs # <<EmptyMarker>>
  <2>1. SUFFICES ASSUME envs = <<EmptyMarker>> PROVE FALSE
    OBVIOUS
  <2>2. 1 \in 1..n /\ envs[1] = EmptyMarker
    BY <1>4, <2>1
  <2>3. PICK i \in Items : EmptyMarker = ItemOutcome(i)
    BY <1>4, <2>2
  <2>4. EmptyMarker.tag \in {"lost", "fatal", "value", "ref", "failure", "failureRef"}
    BY <1>2, <1>3, <2>3, FileTags
  <2>5. QED
    BY <2>4 DEF EmptyMarker
<1>6. ItemOutcomes(envs, n)
  BY <1>4, <1>5 DEF ItemOutcomes
<1>7. CASE CollectItemOutcomes
  <2>1. PICK missing, result :
              /\ \A i \in missing : EstablishedFailure(i)
              /\ result = CollectOutcomes(Aggregate, MaxAttempts, ReadMissingItemFailures(missing), store)
              /\ result.error = "none" /\ collected' = result.value
    BY <1>7, CollectedOutcomes
  <2>2. PICK pods : pods = ReadMissingItemFailures(missing)
    OBVIOUS
  <2>3. result = CollectOutcomes(envs, MaxAttempts, pods, store)
    BY <1>4, <2>1, <2>2
  <2>4. /\ DOMAIN result.value = 1..n /\ Len(result.value) = n
        /\ \A p \in 1..n : /\ OutcomeEntry(envs[p], p, MaxAttempts, pods, store).error = "none"
                           /\ result.value[p] = OutcomeEntry(envs[p], p, MaxAttempts, pods, store).value
    <3>1. result.error = "none"
      BY <2>1
    <3>2. QED
      BY <1>6, <2>3, <3>1, OutcomesCollected
  <2>5. ASSUME NEW p \in 1..n PROVE TrueEntry(p - 1, result.value[p])
    <3>1. PICK u \in Items : u = p - 1 /\ u + 1 = p /\ envs[p] = ItemOutcome(u)
      BY <1>4
    <3>2. PICK entry : /\ entry = OutcomeEntry(ItemOutcome(u), u + 1, MaxAttempts, pods, store)
                       /\ entry.error = "none" /\ result.value[p] = entry.value
      BY <2>4, <3>1
    <3>3. collecting
      BY <1>7 DEF CollectItemOutcomes
    <3>4. TrueEntry(u, entry.value)
      BY <1>1, <1>2, <2>1, <2>2, <3>2, <3>3, OutcomeIsTrue
    <3>5. QED
      BY <3>1, <3>2, <3>4
  <2>6. QED
    BY <2>1, <2>4, <2>5
<1>8. CASE CollectItemResults
  <2>1. PICK result : /\ result = CollectResults(envs, store)
                      /\ MapEnds(IF result.error = "none" THEN "Succeeded" ELSE "Failed", result.value)
    BY <1>4, <1>8 DEF CollectItemResults
  <2>2. result.error = "none" /\ collected' = result.value
    BY <2>1 DEF MapEnds
  <2>3. \A p \in 1..n : /\ envs[p].tag \notin OutcomeTags
                        /\ InlineOrReferenced(envs[p], store).error = "none"
    <3>1. result = CollectResults(envs, store) /\ result.error = "none"
      BY <2>1, <2>2
    <3>2. QED
      BY <1>6, <3>1, ResultsCollected
  <2>4. ASSUME NEW p \in 1..n
        PROVE  envs[p].index = p - 1 /\ TrueEntry(p - 1, InlineOrReferenced(envs[p], store).value)
    <3>1. PICK u \in Items : u = p - 1 /\ envs[p] = ItemOutcome(u)
      BY <1>4
    <3>2. PICK x : x = ResultBody(u, ItemBody(u))
      OBVIOUS
    <3>3. PICK e : e = envs[p] /\ e = ItemOutcome(u)
      BY <3>1
    <3>4. truth[u] = "exit0" /\ e = EncodePublishedItemResult(u, x)
      <4>1. e.tag \in {"value", "ref"}
        <5>1. e.tag \notin OutcomeTags
          BY <2>3, <3>3
        <5>2. QED
          BY <1>2, <1>3, <3>3, <5>1, FileTags DEF OutcomeTags
      <4>2. QED
        BY <1>2, <1>3, <3>2, <3>3, <4>1, FileTags
    <3>5. e.index = u /\ InlineOrReferenced(e, store).value = x
      <4>1. InlineOrReferenced(e, store).error = "none"
        BY <2>3, <3>3
      <4>2. QED
        BY <3>4, <4>1, ReadBack
    <3>6. QED
      BY <3>1, <3>2, <3>3, <3>4, <3>5 DEF TrueEntry
  <2>5. /\ DOMAIN result.value = 1..n /\ Len(result.value) = n
        /\ \A p \in 1..n : result.value[p] = InlineOrReferenced(envs[p], store).value
    <3>1. \A p \in 1..n : envs[p].index = p - 1
      BY <2>4
    <3>2. result = CollectResults(envs, store) /\ result.error = "none"
      BY <2>1, <2>2
    <3>3. QED
      BY <1>6, <3>1, <3>2, ResultsCollected
  <2>6. QED
    BY <2>2, <2>4, <2>5
<1>9. QED
  BY <1>7, <1>8

LEMMA TruthInvStep ==
    ASSUME TypeOK, ListInv, PodInv, Quiet, TruthInv, [Next]_vars
    PROVE  TruthInv'
<1>1. SUFFICES ASSUME map' = "Succeeded"
               PROVE  /\ DOMAIN collected' = 1..Len(list.items) /\ Len(collected') = Len(list.items)
                      /\ \A p \in 1..Len(list.items) : TrueEntry(p - 1, collected[p])'
  <2>1. list' = list
    BY StoreGrows
  <2>2. QED
    BY <2>1 DEF TruthInv
<1>2. PICK n \in Nat : n = Len(list.items)
  BY ListFacts DEF ListInv
<1>3. UNCHANGED collecting
  BY StoreGrows
<1>4. CASE map = "Succeeded"
  <2>1. UNCHANGED collected
    BY <1>4, EndedMap
  <2>2. \A p \in 1..n : p - 1 \in Items
    BY <1>2, <1>4, EnvelopeFacts, AggregateFacts
  <2>3. \A i \in Items : i \in Units /\ Same(i)
    BY <1>4, DonePods DEF Quiet, Items
  <2>4. ASSUME NEW p \in 1..n PROVE TrueEntry(p - 1, collected[p])'
    <3>1. PICK u : u = p - 1 /\ Same(u)
      BY <2>2, <2>3
    <3>2. PICK x : x = collected[p] /\ x = collected'[p]
      BY <2>1
    <3>3. TrueEntry(u, x)
      BY <1>2, <1>4, <3>1, <3>2 DEF TruthInv
    <3>4. KeptRecord(u, x) => KeptRecord(u, x)'
      BY <3>1 DEF Same, KeptRecord, Explains
    <3>5. TrueEntry(u, x)'
      BY <1>3, <3>1, <3>3, <3>4 DEF Same, TrueEntry
    <3>6. QED
      BY <3>1, <3>2, <3>5
  <2>5. QED
    BY <1>2, <1>4, <2>1, <2>4 DEF TruthInv
<1>5. CASE map # "Succeeded"
  <2>1. map # "Failed"
    BY <1>1, EndedMap
  <2>2. UNCHANGED podVars /\ (CollectItemOutcomes \/ CollectItemResults)
    BY <1>1, <1>5, <2>1, MapEndsQuiet
  <2>3. CASE n = 0
    BY <1>1, <1>2, <2>2, <2>3, EmptyCollected
  <2>4. CASE n > 0
    <3>1. /\ DOMAIN collected' = 1..n /\ Len(collected') = n
          /\ \A p \in 1..n : TrueEntry(p - 1, collected'[p])
      BY <1>1, <1>2, <2>2, <2>4, ItemsCollected
    <3>2. \A i, x : TrueEntry(i, x)' <=> TrueEntry(i, x)
      BY <1>3, <2>2 DEF podVars, TrueEntry, KeptRecord, Explains
    <3>3. ASSUME NEW p \in 1..n PROVE TrueEntry(p - 1, collected[p])'
      <4>1. PICK i, x : i = p - 1 /\ x = collected'[p]
        OBVIOUS
      <4>2. TrueEntry(i, x)'
        BY <3>1, <3>2, <4>1
      <4>3. QED
        BY <4>1, <4>2
    <3>4. QED
      BY <1>2, <3>1, <3>3
  <2>5. QED
    BY <1>2, <2>3, <2>4
<1>6. QED
  BY <1>4, <1>5

(***************************************************************************)
(* The list a map task returns holds, in source order, the value author    *)
(* code computed for each item or, when the map collects, a failure after  *)
(* the last attempt that says what ended it (Codec.CollectOutcomes,        *)
(* missingItemFailure): author code, the attempt's deadline wherever it    *)
(* struck, or an unstructured exit of the process. No kill outside author  *)
(* code, reported runner or store failure, or lost container gets in.      *)
(***************************************************************************)
THEOREM TruthCorrect == Spec => []CollectedIsTruthful
<1>1. Init => TruthInv
  BY DEF Init, TruthInv
<1>2. TypeOK /\ ListInv /\ PodInv /\ Quiet /\ TruthInv /\ [Next]_vars => TruthInv'
  BY TruthInvStep
<1>3. ListInv /\ TruthInv => CollectedIsTruthful
  <2>1. SUFFICES ASSUME ListInv, TruthInv, map = "Succeeded"
                 PROVE  /\ Len(collected) = Len(list.items)
                        /\ \A p \in DOMAIN collected :
                              \/ truth[p - 1] = "exit0" /\ collected[p] = ResultBody(p - 1, list.items[p])
                              \/ collecting /\ KeptRecord(p - 1, collected[p])
    BY DEF CollectedIsTruthful, KeptRecord
  <2>2. PICK n \in Nat : n = Len(list.items) /\ list.items = [p \in 1..n |-> ItemBody(p - 1)]
    <3>1. PICK n \in 0..MaxItems : list = ListOf(n)
      BY <2>1 DEF ListInv
    <3>2. QED
      BY <3>1, ListFacts
  <2>3. DOMAIN collected = 1..n /\ Len(collected) = n /\ \A p \in 1..n : TrueEntry(p - 1, collected[p])
    BY <2>1, <2>2 DEF TruthInv
  <2>4. \A p \in 1..n : list.items[p] = ItemBody(p - 1)
    BY <2>2
  <2>5. QED
    BY <2>2, <2>3, <2>4 DEF TrueEntry
<1>4. QED
  BY <1>1, <1>2, <1>3, TypeCorrect, ListInvariant, PodInvariant, QuietInvariant, PTL DEF Spec
==============================================================================
