----------------------------- MODULE StepInvoker -----------------------------
(***************************************************************************)
(* ProcessStepInvoker.InvokeSteps: a pool of workers that runs one batch   *)
(* of step processes. A dispatcher hands step indexes to the workers over  *)
(* an unbuffered channel; the first worker to report an error records it   *)
(* under a sync.Once and cancels the batch context; the call returns when  *)
(* every worker has exited.                                                *)
(*                                                                         *)
(* The caller's context (ctxErr) and the batch context derived from it     *)
(* (batchErr) are two variables: Go marks the parent done before it        *)
(* reaches the children, so a worker can still see a live batch context    *)
(* when the caller's is already done.                                      *)
(***************************************************************************)
EXTENDS StepInvocation

CONSTANTS
    NumSteps,        \* len(batch.Steps)
    MaxConcurrency,  \* batch.MaxConcurrency; 0 means no workflow bound
    ProcessLimit,    \* the executor's own ceiling, after its default
    RunnerEnds       \* the ways a runner process may end in this instance

ProcessEnd == [result : ProcessResults, file : FailureFiles, expired : BOOLEAN]

ASSUME InvokerAssumption ==
    /\ NumSteps \in Nat
    /\ MaxConcurrency \in Nat
    /\ ProcessLimit \in Nat \ {0}
    /\ RunnerEnds \subseteq ProcessEnd

Steps == 1..NumSteps

\* The number of workers: the workflow's bound, at most one per step, and never
\* more than the executor's ceiling.
PoolSize ==
    LET wanted == IF MaxConcurrency = 0 \/ MaxConcurrency > NumSteps
                  THEN NumSteps ELSE MaxConcurrency
    IN  IF wanted > ProcessLimit THEN ProcessLimit ELSE wanted

Workers == 1..PoolSize

VARIABLES
    ctxErr,      \* the caller's context is done
    batchErr,    \* the batch context is done
    dpc,         \* where the calling goroutine is
    next,        \* the step the dispatcher offers next
    wpc,         \* where each worker is
    wjob,        \* the step a worker last received; 0 before the first
    proc,        \* how a worker's process ended, until it is classified
    started,     \* started[s]: step s was handed to invokeOne
    outcomes,    \* outcomes[s], "none" until invokeOne returned
    once,        \* firstErrorOnce: "free", "busy" or "done"
    firstError,  \* the error recorded under it
    returned     \* the error InvokeSteps returned, "none" until dpc = "returned"

vars == <<ctxErr, batchErr, dpc, next, wpc, wjob, proc, started, outcomes,
          once, firstError, returned>>

NoProcess == [result |-> "none", file |-> "absent", expired |-> FALSE]

WorkerPlaces == {"select", "received", "prepare", "running", "classify",
                 "report", "cancelling", "exited"}

TypeOK ==
    /\ ctxErr \in BOOLEAN
    /\ batchErr \in BOOLEAN
    /\ dpc \in {"validating", "dispatching", "waiting", "returned"}
    /\ next \in 1..(NumSteps + 1)
    /\ wpc \in [Workers -> WorkerPlaces]
    /\ wjob \in [Workers -> 0..NumSteps]
    /\ proc \in [Workers -> ProcessEnd \cup {NoProcess}]
    /\ started \in [Steps -> BOOLEAN]
    /\ outcomes \in [Steps -> Outcomes \cup {"none"}]
    /\ once \in {"free", "busy", "done"}
    /\ firstError \in Errors
    /\ returned \in Errors

Init ==
    /\ ctxErr = FALSE
    /\ batchErr = FALSE
    /\ dpc = "validating"
    /\ next = 1
    /\ wpc = [w \in Workers |-> "select"]
    /\ wjob = [w \in Workers |-> 0]
    /\ proc = [w \in Workers |-> NoProcess]
    /\ started = [s \in Steps |-> FALSE]
    /\ outcomes = [s \in Steps |-> "none"]
    /\ once = "free"
    /\ firstError = "none"
    /\ returned = "none"

-----------------------------------------------------------------------------
\* The caller's context and its propagation to the batch context.

\* The operator, the plan's deadline or a fatal marker cancels the run.
CancelCaller ==
    /\ ~ctxErr
    /\ dpc # "returned"
    /\ ctxErr' = TRUE
    /\ UNCHANGED <<batchErr, dpc, next, wpc, wjob, proc, started, outcomes,
                   once, firstError, returned>>

PropagateCancel ==
    /\ ctxErr
    /\ ~batchErr
    /\ dpc # "validating"
    /\ batchErr' = TRUE
    /\ UNCHANGED <<ctxErr, dpc, next, wpc, wjob, proc, started, outcomes,
                   once, firstError, returned>>

-----------------------------------------------------------------------------
\* The calling goroutine: validation, the dispatch loop, close(jobs) and Wait.

\* A descriptor or its directory is refused before a worker exists.
RejectBatch ==
    /\ dpc = "validating"
    /\ NumSteps > 0
    /\ dpc' = "returned"
    /\ returned' = "infra"
    /\ UNCHANGED <<ctxErr, batchErr, next, wpc, wjob, proc, started, outcomes,
                   once, firstError>>

\* An empty batch returns at once with neither outcomes nor an error.
AcceptBatch ==
    /\ dpc = "validating"
    /\ dpc' = IF NumSteps = 0 THEN "returned" ELSE "dispatching"
    /\ UNCHANGED <<ctxErr, batchErr, next, wpc, wjob, proc, started, outcomes,
                   once, firstError, returned>>

SendWithoutAdvance(w) ==
    /\ dpc = "dispatching"
    /\ next \in Steps
    /\ wpc[w] = "select"
    /\ wpc' = [wpc EXCEPT ![w] = "received"]
    /\ wjob' = [wjob EXCEPT ![w] = next]
    /\ next' \in {next, next + 1}
    /\ UNCHANGED <<ctxErr, batchErr, dpc, proc, started, outcomes,
                   once, firstError, returned>>

\* The unbuffered channel: the dispatcher's send and a worker's receive are one
\* step. Either select may take it although the batch context is already done.
Send(w) ==
    /\ dpc = "dispatching"
    /\ next \in Steps
    /\ wpc[w] = "select"
    /\ wpc' = [wpc EXCEPT ![w] = "received"]
    /\ wjob' = [wjob EXCEPT ![w] = next]
    /\ next' = next + 1
    /\ UNCHANGED <<ctxErr, batchErr, dpc, proc, started, outcomes,
                   once, firstError, returned>>

StopDispatchNever == FALSE /\ UNCHANGED vars

\* The dispatcher sees the batch context done and closes the channel early.
StopDispatch ==
    /\ dpc = "dispatching"
    /\ next \in Steps
    /\ batchErr
    /\ dpc' = "waiting"
    /\ UNCHANGED <<ctxErr, batchErr, next, wpc, wjob, proc, started, outcomes,
                   once, firstError, returned>>

FinishDispatch ==
    /\ dpc = "dispatching"
    /\ next = NumSteps + 1
    /\ dpc' = "waiting"
    /\ UNCHANGED <<ctxErr, batchErr, next, wpc, wjob, proc, started, outcomes,
                   once, firstError, returned>>

ReturnedErrorOnlyFirst == firstError

\* firstError, else the caller's own context error, else nil.
ReturnedError ==
    IF firstError # "none" THEN firstError
    ELSE IF ctxErr THEN "ctx"
    ELSE "none"

Return ==
    /\ dpc = "waiting"
    /\ \A w \in Workers : wpc[w] = "exited"
    /\ dpc' = "returned"
    /\ returned' = ReturnedError
    /\ UNCHANGED <<ctxErr, batchErr, next, wpc, wjob, proc, started, outcomes,
                   once, firstError>>

-----------------------------------------------------------------------------
\* A worker.

WorkerSeesDone(w) ==
    /\ dpc \in {"dispatching", "waiting"}
    /\ wpc[w] = "select"
    /\ batchErr
    /\ wpc' = [wpc EXCEPT ![w] = "exited"]
    /\ UNCHANGED <<ctxErr, batchErr, dpc, next, wjob, proc, started, outcomes,
                   once, firstError, returned>>

WorkerMissesClose(w) == FALSE /\ UNCHANGED vars

WorkerSeesClose(w) ==
    /\ dpc = "waiting"
    /\ wpc[w] = "select"
    /\ wpc' = [wpc EXCEPT ![w] = "exited"]
    /\ UNCHANGED <<ctxErr, batchErr, dpc, next, wjob, proc, started, outcomes,
                   once, firstError, returned>>

WorkerDropsMarked(w) ==
    /\ wpc[w] = "received"
    /\ batchErr
    /\ wpc' = [wpc EXCEPT ![w] = "exited"]
    /\ started' = [started EXCEPT ![wjob[w]] = TRUE]
    /\ UNCHANGED <<ctxErr, batchErr, dpc, next, wjob, proc, outcomes,
                   once, firstError, returned>>

\* A received step is dropped, unstarted, when the batch is already over.
WorkerDrops(w) ==
    /\ wpc[w] = "received"
    /\ batchErr
    /\ wpc' = [wpc EXCEPT ![w] = "exited"]
    /\ UNCHANGED <<ctxErr, batchErr, dpc, next, wjob, proc, started, outcomes,
                   once, firstError, returned>>

WorkerStarts(w) ==
    /\ wpc[w] = "received"
    /\ ~batchErr
    /\ wpc' = [wpc EXCEPT ![w] = "prepare"]
    /\ started' = [started EXCEPT ![wjob[w]] = TRUE]
    /\ UNCHANGED <<ctxErr, batchErr, dpc, next, wjob, proc, outcomes,
                   once, firstError, returned>>

\* invokeOne cannot encode or write the descriptor, or find a runner command:
\* an infrastructure failure that never looks at the context.
PrepareFails(w) ==
    /\ wpc[w] = "prepare"
    /\ wpc' = [wpc EXCEPT ![w] = "report"]
    /\ outcomes' = [outcomes EXCEPT ![wjob[w]] = "infra"]
    /\ UNCHANGED <<ctxErr, batchErr, dpc, next, wjob, proc, started,
                   once, firstError, returned>>

Launch(w) ==
    /\ wpc[w] = "prepare"
    /\ wpc' = [wpc EXCEPT ![w] = "running"]
    /\ UNCHANGED <<ctxErr, batchErr, dpc, next, wjob, proc, started, outcomes,
                   once, firstError, returned>>

\* The runner ends by itself, or its attempt deadline ends it.
ProcessEnds(w) ==
    /\ wpc[w] = "running"
    /\ \E e \in RunnerEnds : proc' = [proc EXCEPT ![w] = e]
    /\ wpc' = [wpc EXCEPT ![w] = "classify"]
    /\ UNCHANGED <<ctxErr, batchErr, dpc, next, wjob, started, outcomes,
                   once, firstError, returned>>

\* taskprocess kills the process group once the batch context is done.
ProcessKilled(w) ==
    /\ wpc[w] = "running"
    /\ batchErr
    /\ proc' = [proc EXCEPT ![w] = [result |-> "signal", file |-> "absent", expired |-> FALSE]]
    /\ wpc' = [wpc EXCEPT ![w] = "classify"]
    /\ UNCHANGED <<ctxErr, batchErr, dpc, next, wjob, started, outcomes,
                   once, firstError, returned>>

\* The rest of invokeOne: the batch context is read after the process ended.
Classify(w) ==
    /\ wpc[w] = "classify"
    /\ outcomes' = [outcomes EXCEPT ![wjob[w]] =
            InvokeOne(proc[w].result, proc[w].file, batchErr, proc[w].expired)]
    /\ proc' = [proc EXCEPT ![w] = NoProcess]
    /\ wpc' = [wpc EXCEPT ![w] = "report"]
    /\ UNCHANGED <<ctxErr, batchErr, dpc, next, wjob, started,
                   once, firstError, returned>>

\* No error, or the first one is already recorded: back to the select.
ReportNothing(w) ==
    /\ wpc[w] = "report"
    /\ ErrorOf(outcomes[wjob[w]]) = "none" \/ once = "done"
    /\ wpc' = [wpc EXCEPT ![w] = "select"]
    /\ UNCHANGED <<ctxErr, batchErr, dpc, next, wjob, proc, started, outcomes,
                   once, firstError, returned>>

ReportEveryError(w) ==
    /\ wpc[w] = "report"
    /\ ErrorOf(outcomes[wjob[w]]) # "none"
    /\ firstError' = ErrorOf(outcomes[wjob[w]])
    /\ once' = "busy"
    /\ wpc' = [wpc EXCEPT ![w] = "cancelling"]
    /\ UNCHANGED <<ctxErr, batchErr, dpc, next, wjob, proc, started, outcomes, returned>>

\* firstErrorOnce.Do: the error is recorded before the batch is cancelled; a
\* worker that reports while the function runs waits until it has returned.
ReportFirst(w) ==
    /\ wpc[w] = "report"
    /\ ErrorOf(outcomes[wjob[w]]) # "none"
    /\ once = "free"
    /\ firstError' = ErrorOf(outcomes[wjob[w]])
    /\ once' = "busy"
    /\ wpc' = [wpc EXCEPT ![w] = "cancelling"]
    /\ UNCHANGED <<ctxErr, batchErr, dpc, next, wjob, proc, started, outcomes, returned>>

CancelBatch(w) ==
    /\ wpc[w] = "cancelling"
    /\ batchErr' = TRUE
    /\ once' = "done"
    /\ wpc' = [wpc EXCEPT ![w] = "select"]
    /\ UNCHANGED <<ctxErr, dpc, next, wjob, proc, started, outcomes,
                   firstError, returned>>

-----------------------------------------------------------------------------
WorkerStep(w) ==
    \/ WorkerSeesDone(w) \/ WorkerSeesClose(w) \/ WorkerDrops(w) \/ WorkerStarts(w)
    \/ PrepareFails(w) \/ Launch(w) \/ ProcessKilled(w) \/ Classify(w)
    \/ ReportNothing(w) \/ ReportFirst(w) \/ CancelBatch(w)

CallerStep ==
    \/ RejectBatch \/ AcceptBatch \/ StopDispatch \/ FinishDispatch \/ Return

\* The call is over; a late cancellation changes nothing the caller can see.
Finished ==
    /\ dpc = "returned"
    /\ UNCHANGED vars

Next ==
    \/ CancelCaller
    \/ PropagateCancel
    \/ CallerStep
    \/ \E w \in Workers : Send(w) \/ ProcessEnds(w) \/ WorkerStep(w)
    \/ Finished

Spec == Init /\ [][Next]_vars

\* Goroutines are scheduled, context cancellation reaches its children and a
\* killed process group dies. That a runner ends by itself is not assumed.
Fairness ==
    /\ WF_vars(PropagateCancel)
    /\ WF_vars(CallerStep)
    /\ \A w \in Workers : WF_vars(Send(w)) /\ WF_vars(WorkerStep(w))

FairSpec == Spec /\ Fairness

-----------------------------------------------------------------------------
Holding(w) == wpc[w] \in {"received", "prepare", "running", "classify", "report", "cancelling"}

Reported == {s \in Steps : started[s]}

(***************************************************************************)
(* InvokeSteps keeps its contract whatever the workers' interleaving: an   *)
(* error-free return carries an outcome for every step and hides no error; *)
(* a context error is only ever the caller's own and never the echo of the *)
(* cancellation that a failing sibling caused; an infrastructure or fatal  *)
(* error is backed by an outcome the caller can find.                      *)
(***************************************************************************)
ReturnContract ==
    dpc = "returned" =>
        InvokeStepsReturns(Steps, ctxErr, [s \in Reported |-> outcomes[s]], returned)

(***************************************************************************)
(* Every started step has its outcome when InvokeSteps returns, and none   *)
(* has an outcome without having been started: group.Wait and the started  *)
(* slice together never lose or invent an invocation.                      *)
(***************************************************************************)
StartedIffOutcome ==
    dpc = "returned" => \A s \in Steps : started[s] <=> outcomes[s] # "none"

(***************************************************************************)
(* No step is ever held by two workers: the dispatcher hands each index to *)
(* one worker, so two processes never write the same attempt's slot.       *)
(***************************************************************************)
JobsExclusive ==
    \A v, w \in Workers :
        v # w /\ Holding(v) /\ Holding(w) => wjob[v] # wjob[w]

(***************************************************************************)
(* The first error reported is the one returned: once a worker recorded    *)
(* it, no later report (a sibling killed by the cancellation it triggered) *)
(* replaces it.                                                            *)
(***************************************************************************)
RootCauseKept ==
    [][firstError # "none" => firstError' = firstError]_vars

(***************************************************************************)
(* A cancelled caller always gets its answer, even when runner processes   *)
(* would never end by themselves.                                          *)
(***************************************************************************)
CancelReturns == ctxErr ~> dpc = "returned"

(***************************************************************************)
(* When every runner process ends, the batch returns: no order of sends,   *)
(* failures and exits leaves the dispatcher waiting for workers or workers *)
(* waiting for the dispatcher.                                             *)
(***************************************************************************)
EndingStepsReturn ==
    (\A w \in Workers : WF_vars(ProcessEnds(w))) => <>(dpc = "returned")
==============================================================================
