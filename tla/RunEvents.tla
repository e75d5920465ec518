------------------------------ MODULE RunEvents ------------------------------
(***************************************************************************)
(* The events a local run reports. Worker callbacks and the orchestrator   *)
(* report the same attempts from different goroutines; runEvents keeps one *)
(* clock per attempt under a mutex so that each is reported once. Every    *)
(* event goes to the command line's observer (RunProgress).                *)
(*                                                                         *)
(* The run loop is modelled by the places where it reports: a step with    *)
(* retries, a map with its items, terminalization, the exit hook. What it  *)
(* journals is RunOrchestrator's. A batch returns under the contract of    *)
(* InvokeSteps; a StepInvoker may also not call back at all, or return     *)
(* outcomes that the orchestrator rejects. An event is its type and what   *)
(* it is about: statuses, diagnostics and durations are left out.          *)
(***************************************************************************)
EXTENDS RunProgress, StepInvocation, SequencesExt

CONSTANTS
    Plans,         \* the plans: the kinds of their executable nodes, in order
    MaxItems,      \* the longest list a map is given
    MaxAttempts,   \* retry.maxAttempts of every contract
    Ends,          \* the outcomes an invocation may have in this instance
    MaxFailures    \* how many operations of the orchestrator fail; a failed event file counts

ASSUME EventsAssumption ==
    /\ IsFiniteSet(Plans) /\ Plans \subseteq Seq({"step", "map"})
    /\ MaxItems \in Nat /\ MaxAttempts \in Nat \ {0} /\ MaxFailures \in Nat
    /\ Ends \subseteq Outcomes

AllNodes == UNION {DOMAIN p : p \in Plans}
Hook == 0   \* the nodes of a plan count from 1
Unscoped == 0
Items == 1..MaxItems
Attempt(node, item, n) == [node |-> node, item |-> item, attempt |-> n]
Identities ==
    [node : AllNodes, item : {Unscoped} \cup Items, attempt : 1..MaxAttempts]
        \cup {Attempt(Hook, Unscoped, 1)}

VARIABLES
    kinds,          \* the plan of this run
    attemptStarts,  \* the clock of each attempt: "absent", "running" or "zero"
    emitted,        \* every event the hook was called with
    place,          \* where the orchestrator is
    node,           \* the node it executes
    round,          \* the attempt of the batch
    pending,        \* the items of the batch
    callbacks,      \* the StepInvoker calls OnStarted and OnFinished
    work,           \* work[i]: "idle", "running" or an outcome
    observed,       \* the last item of a returned batch that was observed
    status,         \* status[n]: "pending", "running" or "terminal"
    ctxErr,         \* the run's context is done
    failures        \* orchestrator operations that failed

runVars == <<kinds, attemptStarts, emitted, place, node, round, pending, callbacks, work,
             observed, status, ctxErr, failures>>
vars == <<progressVars, runVars>>

Nodes == DOMAIN kinds

-----------------------------------------------------------------------------
\* runEvents. An operator below is given the clocks and the events reported so far in
\* the critical section, and returns both.

RunEvent(type) == [type |-> type, node |-> 0, item |-> Unscoped, attempt |-> 0]
AttemptEvent(type, id) == [type |-> type, node |-> id.node, item |-> id.item, attempt |-> id.attempt]
StepEvent(n) == [type |-> "step.finished", node |-> n, item |-> Unscoped, attempt |-> 0]

Said(clocks, events) == [clocks |-> clocks, events |-> events]
Nothing == Said(attemptStarts, <<>>)

StartAttempt(said, id) ==
    IF said.clocks[id] # "absent" THEN said
    ELSE Said([said.clocks EXCEPT ![id] = "running"],
              Append(said.events, AttemptEvent("step.attempt.started", id)))

\* A zero clock marks an attempt that is closed already.
FinishOpenAttempt(said, id) ==
    IF said.clocks[id] # "running" THEN said
    ELSE Said([said.clocks EXCEPT ![id] = "zero"],
              Append(said.events, AttemptEvent("step.attempt.finished", id)))

FinishTwice(said, id) ==
    LET started == StartAttempt(said, id)
    IN  Said([started.clocks EXCEPT ![id] = "zero"],
             Append(started.events, AttemptEvent("step.attempt.finished", id)))

FinishAttempt(said, id) == FinishOpenAttempt(StartAttempt(said, id), id)

OpenAttempts(said, nodes) ==
    {id \in Identities : id.node \in nodes /\ said.clocks[id] = "running"}

\* finishOpenAttempt for each of the open attempts, in the order of map iteration.
CloseInOrder(said, order) ==
    Said([id \in Identities |-> IF \E k \in DOMAIN order : order[k] = id THEN "zero"
                                ELSE said.clocks[id]],
         said.events \o [k \in DOMAIN order |-> AttemptEvent("step.attempt.finished", order[k])])

\* The attempts of nodes that are still open, in any order.
CloseOpenAttempts(said, nodes) ==
    LET open == OpenAttempts(said, nodes)
    IN  {CloseInOrder(said, order) : order \in Bijection(1..Cardinality(open), open)}

SayStep(said, n) == Said(said.clocks, Append(said.events, StepEvent(n)))

StepFinished(said, n) == {SayStep(closed, n) : closed \in CloseOpenAttempts(said, {n})}

\* The events of one or more critical sections between which no other goroutine reports.
Report(said) ==
    /\ attemptStarts' = said.clocks
    /\ emitted' = emitted \o said.events
    /\ Enqueue(said.events)

Silent == UNCHANGED <<progressVars, attemptStarts, emitted>>

-----------------------------------------------------------------------------
RunStarted == <<RunEvent("run.started")>>

Init ==
    /\ ProgressInit
    /\ kinds \in Plans
    /\ attemptStarts = [id \in Identities |-> "absent"]
    /\ emitted = <<>>
    /\ place = "starting"
    /\ node = 1
    /\ round = 1
    /\ pending = {}
    /\ callbacks \in BOOLEAN
    /\ work = [i \in {Unscoped} \cup Items |-> "idle"]
    /\ observed = 0
    /\ status = [n \in Nodes |-> "pending"]
    /\ ctxErr = FALSE
    /\ failures = 0

batchVars == <<round, pending, work, observed>>
settings == <<kinds, callbacks>>
orderVars == <<node, batchVars, settings>>

BeginRun ==
    /\ place = "starting"
    /\ Report(Said(attemptStarts, RunStarted))
    /\ place' = "node"
    /\ UNCHANGED <<orderVars, status, ctxErr, failures>>

\* An interrupt or the run's deadline.
Cancel ==
    /\ ~ctxErr
    /\ place \in {"node", "batch"}
    /\ ctxErr' = TRUE
    /\ Silent
    /\ UNCHANGED <<place, orderVars, status, failures>>

\* One budget for the orchestrator and the event file.
MayFail == failures + (IF eventErr THEN 1 ELSE 0) < MaxFailures
Fails == MayFail /\ failures' = failures + 1
Works == UNCHANGED failures

\* What a batch leaves behind is of no further use.
NoBatch ==
    /\ round' = 1
    /\ pending' = {}
    /\ work' = [i \in DOMAIN work |-> "idle"]
    /\ observed' = 0

\* The node has its outcome; the loop goes on to the next one, or the run is over.
Settle(ok) ==
    /\ status' = [status EXCEPT ![node] = "terminal"]
    /\ node' = IF ok THEN node + 1 ELSE node
    /\ place' = IF ok THEN "node" ELSE "ending"
    /\ NoBatch
    /\ UNCHANGED <<settings, ctxErr>>

\* The loop stops with an error and leaves the node as it is.
Stop ==
    /\ place' = "ending"
    /\ NoBatch
    /\ UNCHANGED <<node, settings, status, ctxErr>>

Dispatch(items, n) ==
    /\ place' = "batch"
    /\ round' = n
    /\ pending' = items
    /\ work' = [i \in DOMAIN work |-> "idle"]
    /\ observed' = 0
    /\ UNCHANGED <<node, settings, ctxErr>>

AtNode(kind) == place = "node" /\ node \in Nodes /\ kinds[node] = kind

\* The context is done, an input cannot be resolved or written.
StopAtNode ==
    /\ place = "node"
    /\ \/ ctxErr /\ Works
       \/ Fails
    /\ Silent
    /\ Stop

\* The node is on a branch that was not taken; publishing that may fail.
SkipNode ==
    /\ place = "node"
    /\ node \in Nodes
    /\ \E said \in StepFinished(Nothing, node) : Report(said)
    /\ \/ Works /\ Settle(TRUE)
       \/ Fails /\ Settle(FALSE)

BeginStep ==
    /\ AtNode("step")
    /\ status' = [status EXCEPT ![node] = "running"]
    /\ Silent
    /\ \/ Works /\ Dispatch({Unscoped}, 1)
       \/ /\ Fails
          /\ place' = "ending"
          /\ UNCHANGED <<orderVars, ctxErr>>

MapAttempt == Attempt(node, Unscoped, 1)

\* The deferred report of a map: its own attempt, then the step.
MapFinished(said) == StepFinished(FinishAttempt(said, MapAttempt), node)

\* The map's own attempt covers expansion and collection. It is started before the
\* journal is written; an empty list has no batch.
BeginMap ==
    /\ AtNode("map")
    /\ \/ /\ Report(StartAttempt(Nothing, MapAttempt))
          /\ status' = [status EXCEPT ![node] = "running"]
          /\ \/ Works /\ \E n \in Items : Dispatch(1..n, 1)
             \/ /\ Fails
                /\ place' = "ending"
                /\ UNCHANGED <<orderVars, ctxErr>>
       \/ /\ Fails
          /\ \E said \in MapFinished(StartAttempt(Nothing, MapAttempt)) : Report(said)
          /\ Settle(FALSE)
       \/ /\ Works
          /\ \E said \in MapFinished(StartAttempt(Nothing, MapAttempt)) : Report(said)
          /\ Settle(TRUE)

-----------------------------------------------------------------------------
\* Workers of the batch, through OnStarted and OnFinished. The exit hook's batch has no
\* OnStarted: the orchestrator reported its attempt already.

InBatch(i) == place \in {"batch", "hookBatch"} /\ i \in pending

StartWork(i) ==
    /\ InBatch(i)
    /\ work[i] = "idle"
    /\ work' = [work EXCEPT ![i] = "running"]
    /\ IF callbacks /\ place = "batch"
       THEN Report(StartAttempt(Nothing, Attempt(node, i, round)))
       ELSE Silent
    /\ UNCHANGED <<place, node, round, pending, observed, settings, status, ctxErr, failures>>

EndWork(i) ==
    /\ InBatch(i)
    /\ work[i] = "running"
    /\ \E o \in Ends :
        /\ work' = [work EXCEPT ![i] = o]
        /\ IF callbacks
           THEN Report(FinishAttempt(Nothing, Attempt(node, i, round)))
           ELSE Silent
    /\ UNCHANGED <<place, node, round, pending, observed, settings, status, ctxErr, failures>>

\* Every worker has exited.
Returned(err) ==
    /\ \A i \in pending : work[i] # "running"
    /\ InvokeStepsReturns(pending, ctxErr,
                          [i \in {j \in pending : work[j] # "idle"} |-> work[i]], err)

Outs == [i \in {j \in pending : work[j] # "idle"} |-> work[i]]

\* No step was dispatched: the attempt is dropped, and the step with it if it was the first.
StepUndispatched ==
    /\ place = "batch" /\ kinds[node] = "step"
    /\ \E err \in Errors \ {"none"} : Returned(err)
    /\ Outs = <<>>
    /\ Works
    /\ IF round = 1
       THEN /\ \E said \in StepFinished(Nothing, node) : Report(said)
            /\ Settle(FALSE)
       ELSE Silent /\ Stop

\* A StepInvoker that returns what it should not: the orchestrator looks no further.
RejectOutcomes ==
    /\ place = "batch"
    /\ \A i \in pending : work[i] # "running"
    /\ Fails
    /\ IF kinds[node] = "step"
       THEN Silent /\ Stop
       ELSE /\ \E said \in MapFinished(Nothing) : Report(said)
            /\ Settle(FALSE)

\* A success is kept even if the batch returned an error; a retry may be refused by the
\* journal or the context.
StepReturned ==
    /\ place = "batch" /\ kinds[node] = "step"
    /\ Outs # <<>>
    /\ \E err \in Errors :
        /\ Returned(err)
        /\ LET o == work[Unscoped]
               said == FinishAttempt(Nothing, Attempt(node, Unscoped, round))
               End(ok) ==
                   /\ \E ended \in StepFinished(said, node) : Report(ended)
                   /\ Settle(ok)
           IN  \/ /\ o = "succeeded"
                  /\ \/ Works /\ End(err = "none")
                     \/ Fails /\ End(FALSE)
               \/ /\ o # "succeeded"
                  /\ err = "none" /\ round < MaxAttempts /\ RetryableOutcome(o)
                  /\ Report(said)
                  /\ \/ Works /\ ~ctxErr /\ Dispatch({Unscoped}, round + 1) /\ UNCHANGED status
                     \/ Works /\ ctxErr /\ Stop
                     \/ Fails /\ Stop
               \/ /\ o # "succeeded"
                  /\ ~(err = "none" /\ round < MaxAttempts /\ RetryableOutcome(o))
                  /\ Works
                  /\ End(FALSE)

\* A map's batch returned something usable: every reported item is observed, in order.
MapObserves ==
    /\ place = "batch" /\ kinds[node] = "map"
    /\ \E err \in Errors : Returned(err)
    /\ place' = "observing"
    /\ Silent
    /\ UNCHANGED <<orderVars, status, ctxErr, failures>>

Unobserved == {i \in DOMAIN Outs : i > observed}

ObserveItem ==
    /\ place = "observing"
    /\ \E i \in Unobserved :
        /\ \A j \in Unobserved : i <= j
        /\ Report(FinishAttempt(Nothing, Attempt(node, i, round)))
        /\ observed' = i
    /\ UNCHANGED <<place, node, round, pending, work, settings, status, ctxErr, failures>>

\* Then all are settled: an item whose output fails its verification fails the map as
\* a failed item does. The map may collect failures.
MapReturned ==
    /\ place = "observing"
    /\ Unobserved = {}
    /\ \E err \in Errors, collecting \in BOOLEAN :
        /\ Returned(err)
        /\ LET retry == {i \in DOMAIN Outs : RetryableOutcome(Outs[i]) /\ round < MaxAttempts}
               terminal == \E i \in DOMAIN Outs \ retry :
                   Outs[i] # "succeeded" /\ ~(collecting /\ MapItemFailure(Outs[i]))
               End(ok) ==
                   /\ \E said \in MapFinished(Nothing) : Report(said)
                   /\ Settle(ok)
           IN  \/ /\ err # "none" \/ ctxErr
                  /\ Works
                  /\ End(FALSE)
               \/ /\ err = "none" /\ ~ctxErr
                  /\ \/ terminal /\ Works
                     \/ Fails
                  /\ End(FALSE)
               \/ /\ err = "none" /\ ~ctxErr /\ ~terminal /\ retry # {}
                  /\ Silent
                  /\ \/ Works /\ Dispatch(retry, round + 1) /\ UNCHANGED status
                     \/ Fails /\ Stop
               \/ /\ err = "none" /\ ~ctxErr /\ ~terminal /\ retry = {}
                  /\ \/ Works /\ End(TRUE)
                     \/ Fails /\ End(FALSE)

-----------------------------------------------------------------------------
\* The end of the run.

Succeed ==
    /\ place = "node"
    /\ node = Len(kinds) + 1
    /\ Works
    /\ Silent
    /\ place' = "hook"
    /\ UNCHANGED <<orderVars, status, ctxErr>>

Unfinished == {n \in Nodes : status[n] \in {"pending", "running"}}

\* The deferred terminalization: all open attempts are closed, then each unfinished step
\* is finished, in order.
Terminate ==
    /\ place = "ending"
    /\ \E closed \in CloseOpenAttempts(Nothing, Nodes \cup {Hook}) : Report(closed)
    /\ place' = IF Unfinished = {} THEN "hook" ELSE "terminating"
    /\ UNCHANGED <<orderVars, status, ctxErr, failures>>

TerminateStep ==
    /\ place = "terminating"
    /\ \E n \in Unfinished :
        /\ \A m \in Unfinished : n <= m
        /\ \E said \in StepFinished(Nothing, n) : Report(said)
        /\ status' = [status EXCEPT ![n] = "terminal"]
        /\ place' = IF Unfinished = {n} THEN "hook" ELSE "terminating"
    /\ UNCHANGED <<orderVars, ctxErr, failures>>

HookAttempt == Attempt(Hook, Unscoped, 1)

\* The exit hook's record: its attempt, if the invocation was not observed, and the step.
HookFinished(said) == StepFinished(FinishAttempt(said, HookAttempt), Hook)

\* The hook runs under a context of its own; a plan without one ends at once.
BeginHook ==
    /\ place = "hook"
    /\ \/ /\ Report(StartAttempt(Nothing, HookAttempt))
          /\ place' = "hookBatch"
          /\ Works
       \/ /\ \E said \in HookFinished(StartAttempt(Nothing, HookAttempt)) : Report(said)
          /\ place' = "finishing"
          /\ Fails
       \/ /\ Silent
          /\ place' = "finishing"
          /\ Works
    /\ node' = Hook
    /\ pending' = {Unscoped}
    /\ UNCHANGED <<round, work, observed, settings, status, ctxErr>>

\* Its outcome is used only if it is the one outcome of a batch without an infrastructure
\* or context error; the hook's own context may be done whatever the outcome.
HookReturned ==
    /\ place = "hookBatch"
    /\ work[Unscoped] # "running"
    /\ LET o == work[Unscoped]
           said == FinishAttempt(Nothing, HookAttempt)
       IN  \/ /\ o # "fatal"
              /\ \E ended \in HookFinished(Nothing) : Report(ended)
           \/ /\ o \notin {"idle", "cancelled", "infra"}
              /\ \E ended \in HookFinished(said) : Report(ended)
    /\ Works
    /\ place' = "finishing"
    /\ NoBatch
    /\ UNCHANGED <<node, settings, status, ctxErr>>

\* runFinished, and the command's deferred progress.close.
RunFinished ==
    /\ place = "finishing"
    /\ \E closed \in CloseOpenAttempts(Nothing, Nodes \cup {Hook}) :
        Report(Said(closed.clocks, Append(closed.events, RunEvent("run.finished"))))
    /\ place' = "finished"
    /\ UNCHANGED <<orderVars, status, ctxErr, failures>>

CommandEnds ==
    /\ place = "finished"
    /\ closer = "open"
    /\ closer' = "closing"
    /\ UNCHANGED <<outlets, queue, closing, wake, writerVars, renderVars, runVars>>

WriterStep == Writing /\ (eventErr' # eventErr => MayFail) /\ UNCHANGED runVars
RendererStep == RenderSummary /\ UNCHANGED runVars
CloseStep == Closing /\ UNCHANGED runVars
Observer == WriterStep \/ RendererStep \/ (Redraw /\ UNCHANGED runVars) \/ CloseStep

Over == closer = "closed" /\ UNCHANGED vars

Loop ==
    \/ BeginRun \/ Cancel \/ StopAtNode \/ SkipNode \/ BeginStep \/ BeginMap
    \/ StepUndispatched \/ RejectOutcomes \/ StepReturned
    \/ MapObserves \/ ObserveItem \/ MapReturned
    \/ Succeed \/ Terminate \/ TerminateStep \/ BeginHook \/ HookReturned \/ RunFinished \/ CommandEnds

Next ==
    \/ Loop
    \/ \E i \in {Unscoped} \cup Items : StartWork(i) \/ EndWork(i)
    \/ Observer
    \/ Over

Spec == Init /\ [][Next]_vars

\* The writer and the renderer are goroutines that are scheduled; stderr is assumed not
\* to stall for ever, which would block close as its comment says.
FairSpec ==
    /\ Spec
    /\ WF_vars(WriterStep)
    /\ WF_vars(RendererStep)
    /\ WF_vars(CloseStep)

-----------------------------------------------------------------------------
\* What a stream says before position q.

IdentityOf(e) == Attempt(e.node, e.item, e.attempt)

SaidBefore(stream, q, type, id) ==
    \E p \in 1..(q - 1) : stream[p].type = type /\ IdentityOf(stream[p]) = id

FinishedBefore(stream, q, n) ==
    \E p \in 1..(q - 1) : stream[p].type = "step.finished" /\ stream[p].node = n

AttemptsClosedBefore(stream, q, nodes) ==
    \A p \in 1..(q - 1) :
        stream[p].type = "step.attempt.started" /\ stream[p].node \in nodes =>
            SaidBefore(stream, q, "step.attempt.finished", IdentityOf(stream[p]))

\* The event at position q is in its place among those before it.
InOrder(stream, q) ==
    LET e == stream[q]
        id == IdentityOf(e)
    IN  /\ e.type = "run.started" => q = 1
        /\ e.type = "step.attempt.started" =>
            /\ ~SaidBefore(stream, q, e.type, id)
            /\ ~FinishedBefore(stream, q, e.node)
            /\ e.attempt > 1 =>
                SaidBefore(stream, q, "step.attempt.finished", Attempt(e.node, e.item, e.attempt - 1))
        /\ e.type = "step.attempt.finished" =>
            /\ SaidBefore(stream, q, "step.attempt.started", id)
            /\ ~SaidBefore(stream, q, e.type, id)
            /\ ~FinishedBefore(stream, q, e.node)
        /\ e.type = "step.finished" =>
            /\ ~FinishedBefore(stream, q, e.node)
            /\ AttemptsClosedBefore(stream, q, {e.node})

\* The run ends at position q with nothing left open, and nothing follows.
EndsRun(stream, q) ==
    /\ q = Len(stream)
    /\ AttemptsClosedBefore(stream, q, Nodes \cup {Hook})
    /\ \A n \in Nodes : FinishedBefore(stream, q, n)

(***************************************************************************)
(* The stream is well formed whatever the order in which workers and the   *)
(* orchestrator report, and whichever of them reports at all: an attempt   *)
(* starts once, after the one before it has finished, and finishes once; a *)
(* step finishes once, after all its attempts, and none of them is heard   *)
(* of later; the run finishes last, when every step of the plan has. The   *)
(* clocks of runEvents are all that keeps callbacks, returned outcomes,    *)
(* step completion and terminalization from repeating one another.         *)
(***************************************************************************)
AttemptsBracketed ==
    \A q \in DOMAIN emitted :
        /\ InOrder(emitted, q)
        /\ emitted[q].type = "run.finished" => EndsRun(emitted, q)

(***************************************************************************)
(* No event is lost between the hook and the outlets: the whole events in  *)
(* the file are a gapless prefix of what was reported at every moment (and *)
(* so after a crash, which may tear the line that follows them), and when  *)
(* close returns without an error they are all of it; the printed summary  *)
(* was built from every event although the renderer's own channel drops    *)
(* some.                                                                   *)
(***************************************************************************)
DeliveredInOrder ==
    /\ IsPrefix(file, emitted)
    /\ closer = "closed" =>
        /\ recording /\ ~eventErr => file = emitted
        /\ rendering => printed = emitted

(***************************************************************************)
(* The command ends: once the run is over and close was called, the writer *)
(* takes the last of the queue and both goroutines stop. No order of       *)
(* events, tokens and the closing flag leaves the writer asleep, and a     *)
(* failed event file does not either.                                      *)
(***************************************************************************)
CommandReturns == closer = "closing" ~> closer = "closed"
==============================================================================
