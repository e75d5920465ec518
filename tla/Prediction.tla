----------------------------- MODULE Prediction ------------------------------
(***************************************************************************)
(* The retry and collection contract as the repository's own execution     *)
(* fuzzer states it: what a step or a map must do when the outcome of each *)
(* of its attempts is scripted. It shares no scheduling, retry or journal  *)
(* code with the orchestrator it is compared with (RunOrchestrator).       *)
(*                                                                         *)
(* A script maps <<item, attempt>> to a fault; a step is item 0, the items *)
(* of a map count from 1. Values and diagnostics are left out.             *)
(***************************************************************************)
EXTENDS Integers

Faults ==
    {"Succeed", "FailRetryable", "Crash", "FailNonRetryable", "FailSchema", "Timeout",
     "OrphanFailure", "MissingOutput", "FailFatal"}

FaultRetryable(f) == f \in {"FailRetryable", "Crash", "Timeout", "OrphanFailure"}

\* collectedFailure: contract violations still fail a collecting map.
CollectedFailure(f) ==
    f \in Faults \ {"Succeed", "FailSchema", "MissingOutput", "FailFatal"}

\* attempts: up to the first success, the first failure that no retry can fix, or the
\* end of the budget.
PredictAttempts(script, maxAttempts) ==
    LET Ends(a) == ~FaultRetryable(script[<<0, a>>]) \/ a = maxAttempts
        last == CHOOSE a \in 1..maxAttempts : Ends(a) /\ \A b \in 1..(a - 1) : ~Ends(b)
    IN  [attempts |-> last,
         status |-> IF script[<<0, last>>] = "Succeed" THEN "succeeded" ELSE "failed"]

\* mapOutcome: items run in rounds, in their order. A terminal failure the map does not
\* keep closes the siblings that wait for a retry; a fatal one stops its round.
PredictStart(count) ==
    [pending |-> 1..count, failed |-> FALSE,
     items |-> [i \in 1..count |-> [attempts |-> 0, status |-> "succeeded"]]]

PredictRound(script, maxAttempts, collect, before, a) ==
    LET fault == [i \in before.pending |-> script[<<i, a>>]]
        fatal == {i \in before.pending : fault[i] = "FailFatal"}
        reached == {i \in before.pending : \A j \in fatal : i <= j}
        retry == {i \in reached : FaultRetryable(fault[i]) /\ a < maxAttempts}
        failing == {i \in reached \ retry : fault[i] # "Succeed"}
        terminal == \E i \in failing : ~(collect /\ CollectedFailure(fault[i]))
        Item(i, item) ==
            IF i \in failing \/ (i \in retry /\ terminal) THEN [attempts |-> a, status |-> "failed"]
            ELSE IF i \in reached THEN [item EXCEPT !.attempts = a]
            ELSE IF i \in before.pending
            THEN [item EXCEPT !.status = IF a = 1 THEN "not-started" ELSE "failed"]
            ELSE item
    IN  [pending |-> IF terminal THEN {} ELSE retry,
         failed |-> before.failed \/ terminal,
         items |-> [i \in DOMAIN before.items |-> Item(i, before.items[i])]]

PredictMap(script, count, maxAttempts, collect) ==
    LET Round[a \in 0..maxAttempts] ==
            IF a = 0 THEN PredictStart(count)
            ELSE PredictRound(script, maxAttempts, collect, Round[a - 1], a)
        last == Round[maxAttempts]
    IN  [status |-> IF last.failed THEN "failed" ELSE "succeeded", items |-> last.items]
==============================================================================
