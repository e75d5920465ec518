--------------------------- MODULE StepInvocation ---------------------------
(***************************************************************************)
(* What one runner invocation can report and what a batch of invocations   *)
(* may return: the vocabulary shared by the process worker pool            *)
(* (StepInvoker) and by the run loop that consumes its outcomes            *)
(* (RunOrchestrator).                                                      *)
(*                                                                         *)
(* An outcome is abstracted to the class the control plane tells apart:    *)
(*   "succeeded"  "cancelled"  "infra"      StepInvocationOutcome.Status   *)
(*   "timeout"                              failed, TimedOutAfter > 0      *)
(*   "descriptor" "schema" "step"           failed, exit 64, 65, 66        *)
(*   "nonretryable" "fatal"                 failed, exit 67, 69            *)
(*   "signal" "other"                       failed, killed / any other exit*)
(***************************************************************************)
EXTENDS Naturals

\* Exits for which the runner publishes a structured failure file.
DiagnosticExits == {"descriptor", "schema", "step", "nonretryable", "fatal"}

\* Every way the operating system can report the end of a runner process.
\* "exit70" is the runner's own infrastructure exit, "not-exit" an error that is
\* no process exit at all (the executable is missing, its output pipe broke).
ProcessResults == DiagnosticExits \cup {"exit0", "exit70", "signal", "other", "not-exit"}

FailedOutcomes == DiagnosticExits \cup {"timeout", "signal", "other"}

Outcomes == FailedOutcomes \cup {"succeeded", "cancelled", "infra"}

\* What a runner left as its failure file; "invalid" covers a file that cannot be
\* read, is too large, breaks its schema or names another exit.
FailureFiles == {"absent", "valid", "invalid"}

\* readRunnerFailure: an abrupt exit leaves no file, but a fatal one must.
ReadRunnerFailure(file, r) == file = "valid" \/ (file = "absent" /\ r # "fatal")

InvokeOneRaw(r, file, cancelled, expired) ==
    IF cancelled THEN "cancelled" ELSE IF expired THEN "timeout" ELSE r

(***************************************************************************)
(* invokeOne after the process ended with result r and left file behind:   *)
(* cancelled says that the batch context was done when it was looked at,   *)
(* expired that the attempt's own deadline had passed. A zero exit wins    *)
(* over both; cancellation wins over the attempt's deadline.               *)
(***************************************************************************)
InvokeOne(r, file, cancelled, expired) ==
    IF r = "exit0" THEN "succeeded"
    ELSE IF cancelled THEN "cancelled"
    ELSE IF expired THEN "timeout"
    ELSE IF \/ r \in {"exit70", "not-exit"}
            \/ r \in DiagnosticExits /\ ~ReadRunnerFailure(file, r)
         THEN "infra"
    ELSE r

\* The error a worker reports with an outcome; every other outcome carries none.
ErrorOf(o) ==
    IF o = "cancelled" THEN "ctx" ELSE IF o \in {"infra", "fatal"} THEN o ELSE "none"

ErrorOutcomes == {"cancelled", "infra", "fatal"}

Errors == {"none", "ctx", "infra", "fatal"}

\* Failures another attempt may fix: author errors, timeouts and crashes.
RetryableOutcome(o) ==
    o \in FailedOutcomes \ {"descriptor", "schema", "nonretryable", "fatal"}

\* Failures a collecting map keeps as an item's outcome.
MapItemFailure(o) ==
    o \in FailedOutcomes \ {"descriptor", "schema", "fatal"}

(***************************************************************************)
(* The contract of InvokeSteps: outs maps the steps that were started to   *)
(* their outcomes, err is the returned error and ctxErr says whether the   *)
(* caller's context was done when it returned. An error with no outcome at *)
(* all is a batch rejected before any worker started.                      *)
(***************************************************************************)
InvokeStepsReturns(steps, ctxErr, outs, err) ==
    /\ DOMAIN outs \subseteq steps
    /\ err = "none" => /\ DOMAIN outs = steps
                       /\ \A s \in steps : outs[s] \notin ErrorOutcomes
    /\ err = "ctx" => ctxErr
    /\ err = "infra" => \/ DOMAIN outs = {}
                        \/ \E s \in DOMAIN outs : outs[s] = "infra"
    /\ err = "fatal" => \E s \in DOMAIN outs : outs[s] = "fatal"
==============================================================================
