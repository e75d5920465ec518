-------------------------- MODULE StepInvokerProofs --------------------------
(***************************************************************************)
(* TLAPS proofs about the worker pool of InvokeSteps, for every batch      *)
(* size, concurrency bound, process ceiling and way a runner may end.      *)
(*                                                                         *)
(* The contract of the call speaks of its return only. Its inductive       *)
(* strengthening IInv follows every step of the batch through the          *)
(* dispatcher, the worker that holds it and its outcome, and every error   *)
(* from the outcome that carries it to the sync.Once that keeps it.        *)
(***************************************************************************)
EXTENDS StepInvoker, TLAPS

Starting(w) == wpc[w] \in {"prepare", "running", "classify"}
Reporting(w) == wpc[w] \in {"report", "cancelling"}

\* What a worker's place says about the step it holds.
HeldSteps ==
    \A w \in Workers :
        /\ Holding(w) => wjob[w] \in Steps /\ wjob[w] < next
        /\ wpc[w] = "received" => ~started[wjob[w]] /\ outcomes[wjob[w]] = "none"
        /\ Starting(w) => started[wjob[w]] /\ outcomes[wjob[w]] = "none"
        /\ Reporting(w) => started[wjob[w]] /\ outcomes[wjob[w]] # "none"
        /\ wpc[w] = "classify" => proc[w] \in ProcessEnd

\* No step is lost: one that was offered is started, held by a worker about to
\* start it, or dropped by a batch that is over.
StepsAccounted ==
    \A s \in Steps :
        /\ s >= next => ~started[s]
        /\ outcomes[s] # "none" => started[s]
        /\ s < next => \/ started[s]
                       \/ batchErr
                       \/ \E w \in Workers : wpc[w] = "received" /\ wjob[w] = s
        /\ started[s] => \/ outcomes[s] # "none"
                         \/ \E w \in Workers : Starting(w) /\ wjob[w] = s

\* No error is lost or invented on its way to firstError.
ErrorsAccounted ==
    /\ once = "free" <=> firstError = "none"
    /\ \A w \in Workers : wpc[w] = "cancelling" => once # "free"
    /\ batchErr => ctxErr \/ once = "done"
    /\ firstError = "ctx" => ctxErr
    /\ firstError # "none" => \E s \in Steps : outcomes[s] # "none" /\ ErrorOf(outcomes[s]) = firstError
    /\ \A s \in Steps :
        /\ outcomes[s] = "cancelled" => ctxErr \/ once # "free"
        /\ outcomes[s] \in ErrorOutcomes =>
                \/ firstError # "none"
                \/ \E w \in Workers : wpc[w] = "report" /\ wjob[w] = s

Idle ==
    /\ next = 1
    /\ \A w \in Workers : wpc[w] = "select"
    /\ \A s \in Steps : ~started[s]

\* What the calling goroutine's place says about the pool.
CallerPlace ==
    /\ dpc = "validating" => Idle
    /\ dpc # "returned" => returned = "none"
    /\ dpc = "waiting" => next = NumSteps + 1 \/ batchErr
    /\ dpc = "returned" =>
        \/ Idle /\ returned = IF NumSteps = 0 THEN "none" ELSE "infra"
        \/ /\ \A w \in Workers : wpc[w] = "exited"
           /\ next = NumSteps + 1 \/ batchErr
           /\ returned = ReturnedError

IInv ==
    /\ TypeOK
    /\ JobsExclusive
    /\ HeldSteps
    /\ StepsAccounted
    /\ ErrorsAccounted
    /\ CallerPlace
-----------------------------------------------------------------------------
\* Every way a runner process ends is classified as an outcome.
LEMMA InvokeOneOutcome ==
    ASSUME NEW r \in ProcessResults, NEW file, NEW cancelled \in BOOLEAN,
           NEW expired \in BOOLEAN
    PROVE  InvokeOne(r, file, cancelled, expired) \in Outcomes
  BY DEF InvokeOne, ProcessResults, Outcomes, FailedOutcomes

\* An outcome carries an error exactly when it is one of the error outcomes.
LEMMA ErrorOfOutcome ==
    ASSUME NEW o
    PROVE  /\ ErrorOf(o) \in Errors
           /\ ErrorOf(o) # "none" <=> o \in ErrorOutcomes
           /\ ErrorOf(o) = "ctx" <=> o = "cancelled"
           /\ ErrorOf(o) = "infra" <=> o = "infra"
           /\ ErrorOf(o) = "fatal" <=> o = "fatal"
  BY DEF ErrorOf, Errors, ErrorOutcomes

-----------------------------------------------------------------------------
\* Type correctness of the pool.
LEMMA TypeStep ==
    ASSUME TypeOK, [Next]_vars
    PROVE  TypeOK'
<1>1. ASSUME CancelCaller PROVE TypeOK'
  BY <1>1 DEF CancelCaller, TypeOK
<1>2. ASSUME PropagateCancel PROVE TypeOK'
  BY <1>2 DEF PropagateCancel, TypeOK
<1>3. ASSUME RejectBatch PROVE TypeOK'
  BY <1>3 DEF RejectBatch, TypeOK, Errors
<1>4. ASSUME AcceptBatch PROVE TypeOK'
  BY <1>4 DEF AcceptBatch, TypeOK
<1>5. ASSUME StopDispatch PROVE TypeOK'
  BY <1>5 DEF StopDispatch, TypeOK
<1>6. ASSUME FinishDispatch PROVE TypeOK'
  BY <1>6 DEF FinishDispatch, TypeOK
<1>7. ASSUME Return PROVE TypeOK'
  BY <1>7 DEF Return, TypeOK, ReturnedError, Errors
<1>8. ASSUME NEW w \in Workers, Send(w) PROVE TypeOK'
  BY <1>8, InvokerAssumption DEF Send, TypeOK, WorkerPlaces, Steps
<1>9. ASSUME NEW w \in Workers, ProcessEnds(w) PROVE TypeOK'
  BY <1>9, InvokerAssumption DEF ProcessEnds, TypeOK, WorkerPlaces
<1>10. ASSUME NEW w \in Workers, WorkerSeesDone(w) PROVE TypeOK'
  BY <1>10 DEF WorkerSeesDone, TypeOK, WorkerPlaces
<1>11. ASSUME NEW w \in Workers, WorkerSeesClose(w) PROVE TypeOK'
  BY <1>11 DEF WorkerSeesClose, TypeOK, WorkerPlaces
<1>12. ASSUME NEW w \in Workers, WorkerDrops(w) PROVE TypeOK'
  BY <1>12 DEF WorkerDrops, TypeOK, WorkerPlaces
<1>13. ASSUME NEW w \in Workers, WorkerStarts(w) PROVE TypeOK'
  BY <1>13 DEF WorkerStarts, TypeOK, WorkerPlaces
<1>14. ASSUME NEW w \in Workers, PrepareFails(w) PROVE TypeOK'
  BY <1>14 DEF PrepareFails, TypeOK, WorkerPlaces, Outcomes
<1>15. ASSUME NEW w \in Workers, Launch(w) PROVE TypeOK'
  BY <1>15 DEF Launch, TypeOK, WorkerPlaces
<1>16. ASSUME NEW w \in Workers, ProcessKilled(w) PROVE TypeOK'
  BY <1>16 DEF ProcessKilled, TypeOK, WorkerPlaces, ProcessEnd, ProcessResults, FailureFiles
<1>17. ASSUME NEW w \in Workers, Classify(w) PROVE TypeOK'
  <2> DEFINE o == InvokeOne(proc[w].result, proc[w].file, batchErr, proc[w].expired)
  <2>1. o \in Outcomes \cup {"none"}
    <3>1. CASE proc[w] \in ProcessEnd
      BY <3>1, InvokeOneOutcome DEF TypeOK, ProcessEnd
    <3>2. CASE proc[w] = NoProcess
      BY <3>2 DEF NoProcess, InvokeOne, Outcomes
    <3>3. QED
      BY <3>1, <3>2 DEF TypeOK
  <2> HIDE DEF o
  <2>2. /\ outcomes' = [outcomes EXCEPT ![wjob[w]] = o]
        /\ proc' = [proc EXCEPT ![w] = NoProcess]
        /\ wpc' = [wpc EXCEPT ![w] = "report"]
    BY <1>17 DEF Classify, o
  <2>3. QED
    BY <1>17, <2>1, <2>2 DEF Classify, TypeOK, WorkerPlaces
<1>18. ASSUME NEW w \in Workers, ReportNothing(w) PROVE TypeOK'
  BY <1>18 DEF ReportNothing, TypeOK, WorkerPlaces
<1>19. ASSUME NEW w \in Workers, ReportFirst(w) PROVE TypeOK'
  BY <1>19, ErrorOfOutcome DEF ReportFirst, TypeOK, WorkerPlaces
<1>20. ASSUME NEW w \in Workers, CancelBatch(w) PROVE TypeOK'
  BY <1>20 DEF CancelBatch, TypeOK, WorkerPlaces
<1>21. ASSUME UNCHANGED vars PROVE TypeOK'
  BY <1>21 DEF vars, TypeOK
<1>22. QED
  BY <1>1, <1>2, <1>3, <1>4, <1>5, <1>6, <1>7, <1>8, <1>9, <1>10, <1>11, <1>12, <1>13,
     <1>14, <1>15, <1>16, <1>17, <1>18, <1>19, <1>20, <1>21 DEF Next, CallerStep,
     WorkerStep, Finished
-----------------------------------------------------------------------------
\* The inductive invariant: one lemma per part.

\* What invokeOne stores in the slot of its step once the process has ended: a
\* cancelled outcome only under a batch context that is done.
LEMMA ClassifiedOutcome ==
    ASSUME TypeOK, HeldSteps, NEW w \in Workers, Classify(w)
    PROVE  \E o \in Outcomes :
              /\ outcomes' = [outcomes EXCEPT ![wjob[w]] = o]
              /\ o = "cancelled" => batchErr
<1> DEFINE o == InvokeOne(proc[w].result, proc[w].file, batchErr, proc[w].expired)
<1>1. proc[w] \in ProcessEnd
  BY DEF Classify, HeldSteps
<1>2. o \in Outcomes
  BY <1>1, InvokeOneOutcome DEF TypeOK, ProcessEnd
<1>3. o = "cancelled" => batchErr
  BY <1>1 DEF InvokeOne, ProcessEnd, ProcessResults, DiagnosticExits
<1>4. QED
  BY <1>2, <1>3 DEF Classify

\* No outcome is the mark of a step without one.
LEMMA NoneIsNoOutcome == "none" \notin Outcomes
  BY DEF Outcomes, FailedOutcomes, DiagnosticExits

\* No step is handed to two workers.
LEMMA JobsStep ==
    ASSUME TypeOK, TypeOK', JobsExclusive, HeldSteps, [Next]_vars
    PROVE  JobsExclusive'
<1>1. ASSUME CancelCaller PROVE JobsExclusive'
  BY <1>1 DEF CancelCaller, JobsExclusive, Holding
<1>2. ASSUME PropagateCancel PROVE JobsExclusive'
  BY <1>2 DEF PropagateCancel, JobsExclusive, Holding
<1>3. ASSUME RejectBatch PROVE JobsExclusive'
  BY <1>3 DEF RejectBatch, JobsExclusive, Holding
<1>4. ASSUME AcceptBatch PROVE JobsExclusive'
  BY <1>4 DEF AcceptBatch, JobsExclusive, Holding
<1>5. ASSUME StopDispatch PROVE JobsExclusive'
  BY <1>5 DEF StopDispatch, JobsExclusive, Holding
<1>6. ASSUME FinishDispatch PROVE JobsExclusive'
  BY <1>6 DEF FinishDispatch, JobsExclusive, Holding
<1>7. ASSUME Return PROVE JobsExclusive'
  BY <1>7 DEF Return, JobsExclusive, Holding
<1>8. ASSUME NEW w \in Workers, Send(w) PROVE JobsExclusive'
  BY <1>8 DEF Send, TypeOK, JobsExclusive, HeldSteps, Holding
<1>9. ASSUME NEW w \in Workers, ProcessEnds(w) PROVE JobsExclusive'
  BY <1>9 DEF ProcessEnds, JobsExclusive, Holding
<1>10. ASSUME NEW w \in Workers, WorkerSeesDone(w) PROVE JobsExclusive'
  BY <1>10 DEF WorkerSeesDone, JobsExclusive, Holding
<1>11. ASSUME NEW w \in Workers, WorkerSeesClose(w) PROVE JobsExclusive'
  BY <1>11 DEF WorkerSeesClose, JobsExclusive, Holding
<1>12. ASSUME NEW w \in Workers, WorkerDrops(w) PROVE JobsExclusive'
  BY <1>12 DEF WorkerDrops, JobsExclusive, Holding
<1>13. ASSUME NEW w \in Workers, WorkerStarts(w) PROVE JobsExclusive'
  BY <1>13 DEF WorkerStarts, JobsExclusive, Holding
<1>14. ASSUME NEW w \in Workers, PrepareFails(w) PROVE JobsExclusive'
  BY <1>14 DEF PrepareFails, JobsExclusive, Holding
<1>15. ASSUME NEW w \in Workers, Launch(w) PROVE JobsExclusive'
  BY <1>15 DEF Launch, JobsExclusive, Holding
<1>16. ASSUME NEW w \in Workers, ProcessKilled(w) PROVE JobsExclusive'
  BY <1>16 DEF ProcessKilled, JobsExclusive, Holding
<1>17. ASSUME NEW w \in Workers, Classify(w) PROVE JobsExclusive'
  BY <1>17 DEF Classify, JobsExclusive, Holding
<1>18. ASSUME NEW w \in Workers, ReportNothing(w) PROVE JobsExclusive'
  BY <1>18 DEF ReportNothing, JobsExclusive, Holding
<1>19. ASSUME NEW w \in Workers, ReportFirst(w) PROVE JobsExclusive'
  BY <1>19 DEF ReportFirst, JobsExclusive, Holding
<1>20. ASSUME NEW w \in Workers, CancelBatch(w) PROVE JobsExclusive'
  BY <1>20 DEF CancelBatch, JobsExclusive, Holding
<1>21. ASSUME UNCHANGED vars PROVE JobsExclusive'
  BY <1>21 DEF vars, JobsExclusive, Holding
<1>22. QED
  BY <1>1, <1>2, <1>3, <1>4, <1>5, <1>6, <1>7, <1>8, <1>9, <1>10, <1>11, <1>12, <1>13,
     <1>14, <1>15, <1>16, <1>17, <1>18, <1>19, <1>20, <1>21 DEF Next, CallerStep,
     WorkerStep, Finished

\* A worker's place tells the state of the step it holds.
LEMMA HeldStep ==
    ASSUME TypeOK, TypeOK', JobsExclusive, HeldSteps, StepsAccounted, [Next]_vars
    PROVE  HeldSteps'
<1>1. ASSUME CancelCaller PROVE HeldSteps'
  BY <1>1 DEF CancelCaller, HeldSteps, Holding, Starting, Reporting
<1>2. ASSUME PropagateCancel PROVE HeldSteps'
  BY <1>2 DEF PropagateCancel, HeldSteps, Holding, Starting, Reporting
<1>3. ASSUME RejectBatch PROVE HeldSteps'
  BY <1>3 DEF RejectBatch, HeldSteps, Holding, Starting, Reporting
<1>4. ASSUME AcceptBatch PROVE HeldSteps'
  BY <1>4 DEF AcceptBatch, HeldSteps, Holding, Starting, Reporting
<1>5. ASSUME StopDispatch PROVE HeldSteps'
  BY <1>5 DEF StopDispatch, HeldSteps, Holding, Starting, Reporting
<1>6. ASSUME FinishDispatch PROVE HeldSteps'
  BY <1>6 DEF FinishDispatch, HeldSteps, Holding, Starting, Reporting
<1>7. ASSUME Return PROVE HeldSteps'
  BY <1>7 DEF Return, HeldSteps, Holding, Starting, Reporting
<1>8. ASSUME NEW w \in Workers, Send(w) PROVE HeldSteps'
  BY <1>8 DEF Send, TypeOK, HeldSteps, StepsAccounted, Holding, Starting, Reporting
<1>9. ASSUME NEW w \in Workers, ProcessEnds(w) PROVE HeldSteps'
  BY <1>9, InvokerAssumption DEF ProcessEnds, TypeOK, HeldSteps, Holding, Starting,
     Reporting
<1>10. ASSUME NEW w \in Workers, WorkerSeesDone(w) PROVE HeldSteps'
  BY <1>10 DEF WorkerSeesDone, HeldSteps, Holding, Starting, Reporting
<1>11. ASSUME NEW w \in Workers, WorkerSeesClose(w) PROVE HeldSteps'
  BY <1>11 DEF WorkerSeesClose, HeldSteps, Holding, Starting, Reporting
<1>12. ASSUME NEW w \in Workers, WorkerDrops(w) PROVE HeldSteps'
  BY <1>12 DEF WorkerDrops, HeldSteps, Holding, Starting, Reporting
<1>13. ASSUME NEW w \in Workers, WorkerStarts(w) PROVE HeldSteps'
  BY <1>13 DEF WorkerStarts, TypeOK, JobsExclusive, HeldSteps, Holding, Starting, Reporting
<1>14. ASSUME NEW w \in Workers, PrepareFails(w) PROVE HeldSteps'
  BY <1>14 DEF PrepareFails, TypeOK, JobsExclusive, HeldSteps, Holding, Starting, Reporting
<1>15. ASSUME NEW w \in Workers, Launch(w) PROVE HeldSteps'
  BY <1>15 DEF Launch, HeldSteps, Holding, Starting, Reporting
<1>16. ASSUME NEW w \in Workers, ProcessKilled(w) PROVE HeldSteps'
  BY <1>16 DEF ProcessKilled, TypeOK, HeldSteps, Holding, Starting, Reporting, ProcessEnd,
     ProcessResults, FailureFiles
<1>17. ASSUME NEW w \in Workers, Classify(w) PROVE HeldSteps'
  <2>1. PICK o \in Outcomes :
              /\ outcomes' = [outcomes EXCEPT ![wjob[w]] = o]
              /\ o = "cancelled" => batchErr
    BY <1>17, ClassifiedOutcome
  <2>2. QED
    BY <1>17, <2>1, NoneIsNoOutcome DEF Classify, TypeOK, JobsExclusive, HeldSteps,
       Holding, Starting, Reporting
<1>18. ASSUME NEW w \in Workers, ReportNothing(w) PROVE HeldSteps'
  BY <1>18 DEF ReportNothing, HeldSteps, Holding, Starting, Reporting
<1>19. ASSUME NEW w \in Workers, ReportFirst(w) PROVE HeldSteps'
  BY <1>19 DEF ReportFirst, HeldSteps, Holding, Starting, Reporting
<1>20. ASSUME NEW w \in Workers, CancelBatch(w) PROVE HeldSteps'
  BY <1>20 DEF CancelBatch, HeldSteps, Holding, Starting, Reporting
<1>21. ASSUME UNCHANGED vars PROVE HeldSteps'
  BY <1>21 DEF vars, HeldSteps, Holding, Starting, Reporting
<1>22. QED
  BY <1>1, <1>2, <1>3, <1>4, <1>5, <1>6, <1>7, <1>8, <1>9, <1>10, <1>11, <1>12, <1>13,
     <1>14, <1>15, <1>16, <1>17, <1>18, <1>19, <1>20, <1>21 DEF Next, CallerStep,
     WorkerStep, Finished

\* No step is lost.
LEMMA AccountedStep ==
    ASSUME TypeOK, TypeOK', JobsExclusive, HeldSteps, StepsAccounted, CallerPlace, [Next]_vars
    PROVE  StepsAccounted'
<1>1. ASSUME CancelCaller PROVE StepsAccounted'
  BY <1>1 DEF CancelCaller, StepsAccounted, Starting
<1>2. ASSUME PropagateCancel PROVE StepsAccounted'
  BY <1>2 DEF PropagateCancel, StepsAccounted, Starting
<1>3. ASSUME RejectBatch PROVE StepsAccounted'
  BY <1>3 DEF RejectBatch, StepsAccounted, Starting
<1>4. ASSUME AcceptBatch PROVE StepsAccounted'
  BY <1>4 DEF AcceptBatch, StepsAccounted, Starting
<1>5. ASSUME StopDispatch PROVE StepsAccounted'
  BY <1>5 DEF StopDispatch, StepsAccounted, Starting
<1>6. ASSUME FinishDispatch PROVE StepsAccounted'
  BY <1>6 DEF FinishDispatch, StepsAccounted, Starting
<1>7. ASSUME Return PROVE StepsAccounted'
  BY <1>7 DEF Return, StepsAccounted, Starting
<1>8. ASSUME NEW w \in Workers, Send(w) PROVE StepsAccounted'
  BY <1>8 DEF Send, TypeOK, JobsExclusive, HeldSteps, StepsAccounted, CallerPlace,
     Idle, Holding, Starting, Reporting, Steps
<1>9. ASSUME NEW w \in Workers, ProcessEnds(w) PROVE StepsAccounted'
  BY <1>9 DEF ProcessEnds, StepsAccounted, Starting
<1>10. ASSUME NEW w \in Workers, WorkerSeesDone(w) PROVE StepsAccounted'
  BY <1>10 DEF WorkerSeesDone, StepsAccounted, Starting
<1>11. ASSUME NEW w \in Workers, WorkerSeesClose(w) PROVE StepsAccounted'
  BY <1>11 DEF WorkerSeesClose, StepsAccounted, CallerPlace, Starting
<1>12. ASSUME NEW w \in Workers, WorkerDrops(w) PROVE StepsAccounted'
  BY <1>12 DEF WorkerDrops, StepsAccounted, Starting
<1>13. ASSUME NEW w \in Workers, WorkerStarts(w) PROVE StepsAccounted'
  BY <1>13 DEF WorkerStarts, TypeOK, HeldSteps, StepsAccounted, Holding, Starting
<1>14. ASSUME NEW w \in Workers, PrepareFails(w) PROVE StepsAccounted'
  BY <1>14 DEF PrepareFails, TypeOK, HeldSteps, StepsAccounted, Starting
<1>15. ASSUME NEW w \in Workers, Launch(w) PROVE StepsAccounted'
  BY <1>15 DEF Launch, StepsAccounted, Starting
<1>16. ASSUME NEW w \in Workers, ProcessKilled(w) PROVE StepsAccounted'
  BY <1>16 DEF ProcessKilled, StepsAccounted, Starting
<1>17. ASSUME NEW w \in Workers, Classify(w) PROVE StepsAccounted'
  <2>1. PICK o \in Outcomes :
              /\ outcomes' = [outcomes EXCEPT ![wjob[w]] = o]
              /\ o = "cancelled" => batchErr
    BY <1>17, ClassifiedOutcome
  <2>2. QED
    BY <1>17, <2>1, NoneIsNoOutcome DEF Classify, TypeOK, HeldSteps, StepsAccounted,
       Starting
<1>18. ASSUME NEW w \in Workers, ReportNothing(w) PROVE StepsAccounted'
  BY <1>18 DEF ReportNothing, StepsAccounted, Starting
<1>19. ASSUME NEW w \in Workers, ReportFirst(w) PROVE StepsAccounted'
  BY <1>19 DEF ReportFirst, StepsAccounted, Starting
<1>20. ASSUME NEW w \in Workers, CancelBatch(w) PROVE StepsAccounted'
  BY <1>20 DEF CancelBatch, StepsAccounted, Starting
<1>21. ASSUME UNCHANGED vars PROVE StepsAccounted'
  BY <1>21 DEF vars, StepsAccounted, Starting
<1>22. QED
  BY <1>1, <1>2, <1>3, <1>4, <1>5, <1>6, <1>7, <1>8, <1>9, <1>10, <1>11, <1>12, <1>13,
     <1>14, <1>15, <1>16, <1>17, <1>18, <1>19, <1>20, <1>21 DEF Next, CallerStep,
     WorkerStep, Finished

\* No error is lost or invented.
LEMMA ErrorsStep ==
    ASSUME TypeOK, TypeOK', JobsExclusive, HeldSteps, StepsAccounted, ErrorsAccounted, [Next]_vars
    PROVE  ErrorsAccounted'
<1>1. ASSUME CancelCaller PROVE ErrorsAccounted'
  BY <1>1 DEF CancelCaller, ErrorsAccounted
<1>2. ASSUME PropagateCancel PROVE ErrorsAccounted'
  BY <1>2 DEF PropagateCancel, ErrorsAccounted
<1>3. ASSUME RejectBatch PROVE ErrorsAccounted'
  BY <1>3 DEF RejectBatch, ErrorsAccounted
<1>4. ASSUME AcceptBatch PROVE ErrorsAccounted'
  BY <1>4 DEF AcceptBatch, ErrorsAccounted
<1>5. ASSUME StopDispatch PROVE ErrorsAccounted'
  BY <1>5 DEF StopDispatch, ErrorsAccounted
<1>6. ASSUME FinishDispatch PROVE ErrorsAccounted'
  BY <1>6 DEF FinishDispatch, ErrorsAccounted
<1>7. ASSUME Return PROVE ErrorsAccounted'
  BY <1>7 DEF Return, ErrorsAccounted
<1>8. ASSUME NEW w \in Workers, Send(w) PROVE ErrorsAccounted'
  BY <1>8 DEF Send, ErrorsAccounted
<1>9. ASSUME NEW w \in Workers, ProcessEnds(w) PROVE ErrorsAccounted'
  BY <1>9 DEF ProcessEnds, ErrorsAccounted
<1>10. ASSUME NEW w \in Workers, WorkerSeesDone(w) PROVE ErrorsAccounted'
  BY <1>10 DEF WorkerSeesDone, ErrorsAccounted
<1>11. ASSUME NEW w \in Workers, WorkerSeesClose(w) PROVE ErrorsAccounted'
  BY <1>11 DEF WorkerSeesClose, ErrorsAccounted
<1>12. ASSUME NEW w \in Workers, WorkerDrops(w) PROVE ErrorsAccounted'
  BY <1>12 DEF WorkerDrops, ErrorsAccounted
<1>13. ASSUME NEW w \in Workers, WorkerStarts(w) PROVE ErrorsAccounted'
  BY <1>13 DEF WorkerStarts, ErrorsAccounted
<1>14. ASSUME NEW w \in Workers, PrepareFails(w) PROVE ErrorsAccounted'
  <2>1. wjob[w] \in Steps /\ outcomes[wjob[w]] = "none"
    BY <1>14 DEF PrepareFails, HeldSteps, Holding, Starting
  <2>2. QED
    BY <1>14, <2>1 DEF PrepareFails, TypeOK, ErrorsAccounted
<1>15. ASSUME NEW w \in Workers, Launch(w) PROVE ErrorsAccounted'
  BY <1>15 DEF Launch, ErrorsAccounted
<1>16. ASSUME NEW w \in Workers, ProcessKilled(w) PROVE ErrorsAccounted'
  BY <1>16 DEF ProcessKilled, ErrorsAccounted
<1>17. ASSUME NEW w \in Workers, Classify(w) PROVE ErrorsAccounted'
  <2>1. PICK o \in Outcomes :
              /\ outcomes' = [outcomes EXCEPT ![wjob[w]] = o]
              /\ o = "cancelled" => batchErr
    BY <1>17, ClassifiedOutcome
  <2>2. wjob[w] \in Steps /\ outcomes[wjob[w]] = "none"
    BY <1>17 DEF Classify, HeldSteps, Holding, Starting
  <2>3. QED
    BY <1>17, <2>1, <2>2 DEF Classify, TypeOK, ErrorsAccounted
<1>18. ASSUME NEW w \in Workers, ReportNothing(w) PROVE ErrorsAccounted'
  <2>1. outcomes[wjob[w]] \in ErrorOutcomes => firstError # "none"
    BY <1>18, ErrorOfOutcome DEF ReportNothing, ErrorsAccounted
  <2>2. QED
    BY <1>18, <2>1 DEF ReportNothing, ErrorsAccounted
<1>19. ASSUME NEW w \in Workers, ReportFirst(w) PROVE ErrorsAccounted'
  <2>1. wjob[w] \in Steps /\ outcomes[wjob[w]] # "none"
    BY <1>19 DEF ReportFirst, HeldSteps, Holding, Reporting
  <2>2. firstError' = "ctx" => ctxErr
    BY <1>19, <2>1 DEF ReportFirst, ErrorsAccounted, ErrorOf
  <2>3. QED
    BY <1>19, <2>1, <2>2 DEF ReportFirst, ErrorsAccounted
<1>20. ASSUME NEW w \in Workers, CancelBatch(w) PROVE ErrorsAccounted'
  BY <1>20 DEF CancelBatch, ErrorsAccounted
<1>21. ASSUME UNCHANGED vars PROVE ErrorsAccounted'
  BY <1>21 DEF vars, ErrorsAccounted
<1>22. QED
  BY <1>1, <1>2, <1>3, <1>4, <1>5, <1>6, <1>7, <1>8, <1>9, <1>10, <1>11, <1>12, <1>13,
     <1>14, <1>15, <1>16, <1>17, <1>18, <1>19, <1>20, <1>21 DEF Next, CallerStep,
     WorkerStep, Finished

\* The caller's place tells the state of the pool.
LEMMA CallerStepInv ==
    ASSUME TypeOK, TypeOK', HeldSteps, CallerPlace, [Next]_vars
    PROVE  CallerPlace'
<1>1. ASSUME CancelCaller PROVE CallerPlace'
  BY <1>1 DEF CancelCaller, CallerPlace, Idle
<1>2. ASSUME PropagateCancel PROVE CallerPlace'
  BY <1>2 DEF PropagateCancel, CallerPlace, Idle, ReturnedError
<1>3. ASSUME RejectBatch PROVE CallerPlace'
  BY <1>3 DEF RejectBatch, CallerPlace, Idle
<1>4. ASSUME AcceptBatch PROVE CallerPlace'
  BY <1>4 DEF AcceptBatch, CallerPlace, Idle
<1>5. ASSUME StopDispatch PROVE CallerPlace'
  BY <1>5 DEF StopDispatch, CallerPlace
<1>6. ASSUME FinishDispatch PROVE CallerPlace'
  BY <1>6 DEF FinishDispatch, CallerPlace
<1>7. ASSUME Return PROVE CallerPlace'
  BY <1>7 DEF Return, CallerPlace, ReturnedError
<1>8. ASSUME NEW w \in Workers, Send(w) PROVE CallerPlace'
  BY <1>8 DEF Send, CallerPlace
<1>9. ASSUME NEW w \in Workers, ProcessEnds(w) PROVE CallerPlace'
  BY <1>9 DEF ProcessEnds, CallerPlace, Idle
<1>10. ASSUME NEW w \in Workers, WorkerSeesDone(w) PROVE CallerPlace'
  BY <1>10 DEF WorkerSeesDone, CallerPlace
<1>11. ASSUME NEW w \in Workers, WorkerSeesClose(w) PROVE CallerPlace'
  BY <1>11 DEF WorkerSeesClose, CallerPlace
<1>12. ASSUME NEW w \in Workers, WorkerDrops(w) PROVE CallerPlace'
  BY <1>12 DEF WorkerDrops, CallerPlace, Idle
<1>13. ASSUME NEW w \in Workers, WorkerStarts(w) PROVE CallerPlace'
  BY <1>13 DEF WorkerStarts, CallerPlace, Idle
<1>14. ASSUME NEW w \in Workers, PrepareFails(w) PROVE CallerPlace'
  BY <1>14 DEF PrepareFails, CallerPlace, Idle
<1>15. ASSUME NEW w \in Workers, Launch(w) PROVE CallerPlace'
  BY <1>15 DEF Launch, CallerPlace, Idle
<1>16. ASSUME NEW w \in Workers, ProcessKilled(w) PROVE CallerPlace'
  BY <1>16 DEF ProcessKilled, CallerPlace, Idle
<1>17. ASSUME NEW w \in Workers, Classify(w) PROVE CallerPlace'
  BY <1>17 DEF Classify, CallerPlace, Idle
<1>18. ASSUME NEW w \in Workers, ReportNothing(w) PROVE CallerPlace'
  BY <1>18 DEF ReportNothing, CallerPlace, Idle
<1>19. ASSUME NEW w \in Workers, ReportFirst(w) PROVE CallerPlace'
  BY <1>19 DEF ReportFirst, CallerPlace, Idle
<1>20. ASSUME NEW w \in Workers, CancelBatch(w) PROVE CallerPlace'
  BY <1>20 DEF CancelBatch, CallerPlace, Idle
<1>21. ASSUME UNCHANGED vars PROVE CallerPlace'
  BY <1>21 DEF vars, CallerPlace, Idle, ReturnedError
<1>22. QED
  BY <1>1, <1>2, <1>3, <1>4, <1>5, <1>6, <1>7, <1>8, <1>9, <1>10, <1>11, <1>12, <1>13,
     <1>14, <1>15, <1>16, <1>17, <1>18, <1>19, <1>20, <1>21 DEF Next, CallerStep,
     WorkerStep, Finished

-----------------------------------------------------------------------------
\* The call starts in the invariant: no worker holds a step and nothing is recorded.
LEMMA IInvInit == Init => IInv
<1> SUFFICES ASSUME Init PROVE IInv
  OBVIOUS
<1>1. TypeOK
  <2>1. next \in 1..(NumSteps + 1) /\ wjob \in [Workers -> 0..NumSteps]
    BY InvokerAssumption DEF Init
  <2>2. QED
    BY <2>1 DEF Init, TypeOK, WorkerPlaces, Errors
<1>2. JobsExclusive /\ HeldSteps /\ StepsAccounted /\ ErrorsAccounted
  BY DEF Init, JobsExclusive, HeldSteps, StepsAccounted, ErrorsAccounted, Holding,
     Starting, Reporting, ErrorOutcomes, Steps
<1>3. CallerPlace
  BY DEF Init, CallerPlace, Idle
<1>4. QED
  BY <1>1, <1>2, <1>3 DEF IInv

\* Every step of the caller, the workers and the contexts preserves the invariant.
LEMMA IInvStep == IInv /\ [Next]_vars => IInv'
<1> SUFFICES ASSUME IInv, [Next]_vars PROVE IInv'
  OBVIOUS
<1>1. TypeOK'
  BY TypeStep DEF IInv
<1>2. JobsExclusive' /\ HeldSteps'
  BY <1>1, JobsStep, HeldStep DEF IInv
<1>3. StepsAccounted' /\ ErrorsAccounted'
  BY <1>1, AccountedStep, ErrorsStep DEF IInv
<1>4. CallerPlace'
  BY <1>1, CallerStepInv DEF IInv
<1>5. QED
  BY <1>1, <1>2, <1>3, <1>4 DEF IInv

(***************************************************************************)
(* The pool of InvokeSteps stays in IInv.                                  *)
(***************************************************************************)
THEOREM Invariance == Spec => []IInv
  BY IInvInit, IInvStep, PTL DEF Spec

(***************************************************************************)
(* Every variable of the pool keeps its type: in particular every stored   *)
(* outcome is one of the classes invokeOne can report.                     *)
(***************************************************************************)
THEOREM TypeCorrect == Spec => []TypeOK
<1>1. IInv => TypeOK
  BY DEF IInv
<1>2. QED
  BY <1>1, Invariance, PTL

(***************************************************************************)
(* No step of the batch is ever held by two workers.                       *)
(***************************************************************************)
THEOREM JobsAreExclusive == Spec => []JobsExclusive
<1>1. IInv => JobsExclusive
  BY DEF IInv
<1>2. QED
  BY <1>1, Invariance, PTL

\* When the call is over, a started step has its outcome: nobody holds it any more.
LEMMA StartedHasOutcome ==
    ASSUME IInv, dpc = "returned", NEW s \in Steps
    PROVE  started[s] <=> outcomes[s] # "none"
  BY DEF IInv, StepsAccounted, CallerPlace, Idle, Starting

(***************************************************************************)
(* group.Wait and the started slice together never lose or invent an       *)
(* invocation: at the return, the started steps are those with an outcome. *)
(***************************************************************************)
THEOREM StartedStepsReported == Spec => []StartedIffOutcome
<1>1. IInv => StartedIffOutcome
  BY StartedHasOutcome DEF StartedIffOutcome
<1>2. QED
  BY <1>1, Invariance, PTL

(***************************************************************************)
(* InvokeSteps keeps the contract the run loop relies on, for every batch  *)
(* and every interleaving of dispatcher, workers, failures and             *)
(* cancellation.                                                           *)
(***************************************************************************)
THEOREM ContractKept == Spec => []ReturnContract
<1>1. ASSUME IInv, dpc = "returned"
      PROVE  InvokeStepsReturns(Steps, ctxErr, [s \in Reported |-> outcomes[s]], returned)
  <2> DEFINE outs == [s \in Reported |-> outcomes[s]]
  <2>1. DOMAIN outs = Reported /\ Reported \subseteq Steps
    BY DEF Reported
  <2>2. \A s \in Steps : s \in Reported <=> outcomes[s] # "none"
    BY <1>1, StartedHasOutcome DEF Reported
  <2>3. CASE Idle /\ returned = IF NumSteps = 0 THEN "none" ELSE "infra"
    <3>1. Reported = {}
      BY <2>3 DEF Idle, Reported
    <3>2. NumSteps = 0 => Steps = {}
      BY DEF Steps
    <3>3. QED
      BY <2>1, <2>3, <3>1, <3>2 DEF InvokeStepsReturns
  <2>4. CASE /\ \A w \in Workers : wpc[w] = "exited"
             /\ next = NumSteps + 1 \/ batchErr
             /\ returned = ReturnedError
    <3>1. returned = "none" => firstError = "none" /\ ~ctxErr
      BY <2>4 DEF ReturnedError
    <3>2. returned = "none" => next = NumSteps + 1
      BY <1>1, <2>4, <3>1 DEF IInv, ErrorsAccounted
    <3>3. returned = "none" => \A s \in Steps : started[s] /\ outcomes[s] \notin ErrorOutcomes
      BY <1>1, <2>4, <3>1, <3>2, InvokerAssumption DEF IInv, StepsAccounted,
         ErrorsAccounted, Steps
    <3>4. returned = "ctx" => ctxErr
      BY <1>1, <2>4 DEF IInv, ErrorsAccounted, ReturnedError
    <3>5. returned \in {"infra", "fatal"} => firstError = returned
      BY <2>4 DEF ReturnedError
    <3>6. returned \in {"infra", "fatal"} => \E s \in Reported : outcomes[s] = returned
      BY <1>1, <2>2, <3>5, ErrorOfOutcome DEF IInv, ErrorsAccounted
    <3>7. QED
      BY <2>1, <3>3, <3>4, <3>6 DEF InvokeStepsReturns, Reported
  <2>5. QED
    BY <1>1, <2>3, <2>4 DEF IInv, CallerPlace
<1>2. IInv => ReturnContract
  BY <1>1 DEF ReturnContract
<1>3. QED
  BY <1>2, Invariance, PTL

(***************************************************************************)
(* The root cause survives: once firstErrorOnce recorded an error, no      *)
(* later report replaces it.                                               *)
(***************************************************************************)
THEOREM RootCauseSurvives == Spec => RootCauseKept
<1>1. IInv /\ [Next]_vars => [firstError # "none" => firstError' = firstError]_vars
  <2> SUFFICES ASSUME IInv, [Next]_vars, firstError # "none" PROVE firstError' = firstError
    OBVIOUS
  <2>1. ASSUME NEW w \in Workers, ReportFirst(w) PROVE FALSE
    BY <2>1 DEF IInv, ErrorsAccounted, ReportFirst
  <2>2. QED
    BY <2>1 DEF Next, CallerStep, WorkerStep, Finished, vars, CancelCaller,
       PropagateCancel, RejectBatch, AcceptBatch, StopDispatch, FinishDispatch, Return,
       Send, ProcessEnds, WorkerSeesDone, WorkerSeesClose, WorkerDrops, WorkerStarts,
       PrepareFails, Launch, ProcessKilled, Classify, ReportNothing, CancelBatch
<1>2. QED
  BY <1>1, Invariance, PTL DEF Spec, RootCauseKept
==============================================================================
