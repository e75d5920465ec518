--------------------------- MODULE RunOrchestrator ---------------------------
(***************************************************************************)
(* orchestrator.Run: one local workflow run, from the claim of its run id  *)
(* to the record of its exit hook. Nodes run one after the other in        *)
(* topological order; every journal write, artifact write, invocation and  *)
(* wait is a step of its own, so that the run's context may be cancelled,  *)
(* or its deadline pass, between any two of them. Every state's durable    *)
(* journal is what a crash of the process in that state leaves behind.     *)
(*                                                                         *)
(* The invoker is its contract (InvokeStepsReturns), which StepInvoker is  *)
(* shown to keep. The datastore's Put is one step that succeeds, fails, or *)
(* fails after it took effect; MaxFaults bounds the failures of a run.     *)
(***************************************************************************)
EXTENDS Resolution, Journal, StepInvocation, Prediction

CONSTANTS
    OutcomeKinds,  \* the outcomes the invoker reports in this instance
    HasExitHook,   \* the plan declares an exit hook
    HasDeadline,   \* the plan declares a deadline
    MaxFaults      \* bound on datastore and verification faults

ASSUME RunAssumption ==
    /\ OutcomeKinds \subseteq Outcomes
    /\ HasExitHook \in BOOLEAN
    /\ HasDeadline \in BOOLEAN
    /\ MaxFaults \in Nat

\* What buildExecutionIndex and the compiled plan guarantee: every node once, an input
\* edge for each, attempts to spend, values whose length is known.
ASSUME PlanAssumption ==
    /\ NodeOrder \in Seq(NodeIds)
    /\ \A i, j \in DOMAIN NodeOrder : NodeOrder[i] = NodeOrder[j] => i = j
    /\ "none" \notin NodeIds
    /\ StartValue.items \in Int
    /\ \A n \in NodeIds :
        /\ Node[n].maxAttempts \in Nat \ {0}
        /\ Node[n].collect \in BOOLEAN
        /\ DOMAIN Node[n].inbound = 1..Len(Node[n].inbound)
        /\ Len(Node[n].inbound) \in Nat \ {0}
        /\ \A v \in Node[n].values : v.items \in Int
        /\ \A c \in DOMAIN Node[n].selectInputs :
                Node[n].selectInputs[c] \in NodeIds \cup {StartNode}

\* What ValidateControlFlow guarantees: a select comes after its decision, and an edge
\* with a case leaves a decision, which the start node is not.
ASSUME RouteAssumption ==
    \A i \in DOMAIN NodeOrder :
        LET n == NodeOrder[i] IN
        /\ Node[n].kind = "select" => \E j \in 1..(i - 1) : NodeOrder[j] = Node[n].decisionRef
        /\ \A k \in DOMAIN Node[n].inbound :
                Node[n].inbound[k].case # "" => Node[n].inbound[k].from # StartNode

VARIABLES
    ctx,         \* "live", "cancelled" by the caller or past the plan's "deadline"
    pc,          \* where Run is
    pos,         \* index of the active node in NodeOrder
    attempt,     \* attempt of the active step, or round of the active map
    pending,     \* items of the active map to dispatch in this round
    round,       \* the outcomes of the round being settled and the invoker's error
    collected,   \* items whose failure a collecting map keeps as an outcome
    invokeErr,   \* the invoker's error next to a successful step outcome
    res,         \* the resolver
    manifest,    \* the journal in memory
    durable,     \* the journal in the datastore, NoJournal before the claim
    runErr,      \* the error Run is about to return
    dispatchedNodes, \* nodes with a reported dispatch
    hookFailed,  \* FailedNode of the outcome given to the exit hook
    unpublished, \* a terminal journal write failed, which Run's error reports
    faults,      \* faults so far
    history      \* every reported dispatch: <<node, item, attempt, outcome>>

vars == <<ctx, pc, pos, attempt, pending, round, collected, invokeErr, res, manifest,
          durable, runErr, dispatchedNodes, hookFailed, unpublished, faults, history>>

NoJournal == [status |-> "none"]
NoRound == [outs |-> <<>>, err |-> "none"]

ActiveNode == NodeOrder[pos]
ActiveItems == manifest.steps[ActiveNode].items

Init ==
    /\ ctx = "live"
    /\ pc = "claim"
    /\ pos = 1
    /\ attempt = 0
    /\ pending = {}
    /\ round = NoRound
    /\ collected = {}
    /\ invokeErr = "none"
    /\ res = NewResolver
    /\ manifest = NewManifest([s \in StepIds |->
                        NewStep(Node[s].kind = "map", Node[s].collect)])
    /\ durable = NoJournal
    /\ runErr = "none"
    /\ dispatchedNodes = {}
    /\ hookFailed = "none"
    /\ unpublished = FALSE
    /\ faults = 0
    /\ history = {}

-----------------------------------------------------------------------------
\* Context and datastore.

Over == pc \in {"done", "rejected"}

Cancel ==
    /\ ctx = "live"
    /\ ~Over
    /\ ctx' = "cancelled"
    /\ UNCHANGED <<pc, pos, attempt, pending, round, collected, invokeErr, res, manifest,
                   durable, runErr, dispatchedNodes, hookFailed, unpublished, faults, history>>

\* The deadline's timer starts once the run id is claimed.
DeadlinePasses ==
    /\ HasDeadline
    /\ ctx = "live"
    /\ ~Over
    /\ pc # "claim"
    /\ ctx' = "deadline"
    /\ UNCHANGED <<pc, pos, attempt, pending, round, collected, invokeErr, res, manifest,
                   durable, runErr, dispatchedNodes, hookFailed, unpublished, faults, history>>

\* What a Put can answer: a done context is refused on entry; otherwise it works,
\* fails, or fails after the object was already replaced.
PutResults(detached) ==
    IF ~detached /\ ctx # "live" THEN {"ctx"}
    ELSE {"ok"} \cup IF faults < MaxFaults THEN {"fault", "applied"} ELSE {}

\* What any other fallible operation on the store can answer.
StoreResults(detached) == PutResults(detached) \ {"applied"}

Charge(r) == faults' = IF r \in {"fault", "applied"} THEN faults + 1 ELSE faults

ErrorFor(r) == IF r = "ctx" THEN "ctx" ELSE "other"

\* Run returns an error: the deferred terminalization is next.
Fail(err) ==
    /\ pc' = "terminal"
    /\ runErr' = err

Goto(place) ==
    /\ pc' = place
    /\ UNCHANGED runErr

\* writeRunManifest: the whole journal replaces the stored one.
Persist(r) == durable' = IF r \in {"ok", "applied"} THEN manifest ELSE durable

NextNode ==
    /\ pos' = pos + 1
    /\ Goto("node")

-----------------------------------------------------------------------------
\* Before the first node.

\* What Run refuses before it touches the run: a missing plan, root or project, an
\* identity that is no safe path segment, a datastore it cannot open.
RefuseRun ==
    /\ pc = "claim"
    /\ Goto("rejected")
    /\ UNCHANGED <<ctx, pos, attempt, pending, round, collected, invokeErr, res, manifest,
                   durable, dispatchedNodes, hookFailed, unpublished, faults, history>>

\* Creating the journal claims the run id. A taken id, or any error, ends Run
\* before the terminalization is registered.
Claim ==
    /\ pc = "claim"
    /\ \E r \in PutResults(FALSE) \cup {"exists"} :
        /\ Persist(r)
        /\ Charge(r)
        /\ Goto(IF r = "ok" THEN "prerequisites" ELSE "rejected")
    /\ UNCHANGED <<ctx, pos, attempt, pending, round, collected, invokeErr, res, manifest,
                   dispatchedNodes, hookFailed, unpublished, history>>

\* materializePrerequisites: schema blobs, source snapshots and source archives.
Prerequisites ==
    /\ pc = "prerequisites"
    /\ \E r \in StoreResults(FALSE) :
        /\ Charge(r)
        /\ IF r = "ok" THEN Goto("node") ELSE Fail(ErrorFor(r))
    /\ UNCHANGED <<ctx, pos, attempt, pending, round, collected, invokeErr, res, manifest,
                   durable, dispatchedNodes, hookFailed, unpublished, history>>

-----------------------------------------------------------------------------
\* The node loop.

AtNode == pc = "node" /\ pos <= Len(NodeOrder)

\* The errors of resolution. An accepted graph never meets one: AcceptedGraphsResolve
\* of GraphRun.
CannotResolve(n) ==
    \/ Unresolvable(res, n)
    \/ /\ ~Skipped(res, n)
       /\ IF Node[n].kind = "select" THEN res.outputs[SelectSource(res, n)] = NoValue
          ELSE InputForNode(res, n) = NoValue

Active(kind) ==
    /\ AtNode
    /\ ctx = "live"
    /\ ~CannotResolve(ActiveNode)
    /\ ~Skipped(res, ActiveNode)
    /\ Node[ActiveNode].kind = kind

StopAtNode ==
    /\ AtNode
    /\ ctx # "live" \/ CannotResolve(ActiveNode)
    /\ Fail(IF ctx # "live" THEN "ctx" ELSE "other")
    /\ UNCHANGED <<ctx, pos, attempt, pending, round, collected, invokeErr, res, manifest,
                   durable, dispatchedNodes, hookFailed, unpublished, faults, history>>

\* An inactive region suppresses every kind of node; selects leave no record.
SkipNode ==
    /\ AtNode
    /\ ctx = "live"
    /\ ~CannotResolve(ActiveNode)
    /\ Skipped(res, ActiveNode)
    /\ res' = Deactivate(res, ActiveNode)
    /\ manifest' = CASE ActiveNode \in StepIds -> MarkStepSkipped(manifest, ActiveNode)
                     [] Node[ActiveNode].kind = "decision" ->
                            MarkDecision(manifest, ActiveNode, "skipped", "none")
                     [] OTHER -> manifest
    /\ Goto("nodeWrite")
    /\ UNCHANGED <<ctx, pos, attempt, pending, round, collected, invokeErr, durable,
                   dispatchedNodes, hookFailed, unpublished, faults, history>>

DecideNodeUnrecorded ==
    /\ Active("decision")
    /\ LET case == DecisionCase(ActiveNode, InputForNode(res, ActiveNode)) IN
       IF case = "none"
       THEN Fail("other") /\ UNCHANGED res
       ELSE /\ res' = RouteDecision(res, ActiveNode, case)
            /\ Goto("nodeWrite")
    /\ UNCHANGED <<ctx, pos, attempt, pending, round, collected, invokeErr, manifest, durable,
                   dispatchedNodes, hookFailed, unpublished, faults, history>>

DecideNode ==
    /\ Active("decision")
    /\ LET case == DecisionCase(ActiveNode, InputForNode(res, ActiveNode)) IN
       IF case = "none"
       THEN /\ manifest' = MarkDecision(manifest, ActiveNode, "failed", "none")
            /\ Fail("other")
            /\ UNCHANGED res
       ELSE /\ manifest' = MarkDecision(manifest, ActiveNode, "selected", case)
            /\ res' = RouteDecision(res, ActiveNode, case)
            /\ Goto("nodeWrite")
    /\ UNCHANGED <<ctx, pos, attempt, pending, round, collected, invokeErr, durable,
                   dispatchedNodes, hookFailed, unpublished, faults, history>>

\* The journal write of a skipped node or a routed decision.
NodeWrite ==
    /\ pc = "nodeWrite"
    /\ \E r \in PutResults(FALSE) :
        /\ Persist(r)
        /\ Charge(r)
        /\ IF r = "ok" THEN NextNode ELSE Fail(ErrorFor(r)) /\ UNCHANGED pos
    /\ UNCHANGED <<ctx, attempt, pending, round, collected, invokeErr, res, manifest,
                   dispatchedNodes, hookFailed, unpublished, history>>

SelectNode ==
    /\ Active("select")
    /\ res' = SelectOutput(res, ActiveNode)
    /\ NextNode
    /\ UNCHANGED <<ctx, attempt, pending, round, collected, invokeErr, manifest, durable,
                   dispatchedNodes, hookFailed, unpublished, faults, history>>

EnterNode ==
    /\ \/ Active("step") /\ Goto("stepInput")
       \/ Active("map") /\ Goto("mapInput")
    /\ UNCHANGED <<ctx, pos, attempt, pending, round, collected, invokeErr, res, manifest,
                   durable, dispatchedNodes, hookFailed, unpublished, faults, history>>

-----------------------------------------------------------------------------
\* A step node.

\* The input artifact is stored and the first attempt marked running, in memory.
StepInput ==
    /\ pc = "stepInput"
    /\ \E r \in PutResults(FALSE) :
        /\ Charge(r)
        /\ IF r = "ok"
           THEN /\ attempt' = 1
                /\ manifest' = MarkAttemptRunning(manifest, ActiveNode, 1)
                /\ Goto("attemptWrite")
           ELSE /\ Fail(ErrorFor(r))
                /\ UNCHANGED <<attempt, manifest>>
    /\ UNCHANGED <<ctx, pos, pending, round, collected, invokeErr, res, durable,
                   dispatchedNodes, hookFailed, unpublished, history>>

\* The attempt is journaled before it is dispatched.
AttemptWrite ==
    /\ pc = "attemptWrite"
    /\ \E r \in PutResults(FALSE) :
        /\ Persist(r)
        /\ Charge(r)
        /\ IF r = "ok" THEN Goto("invoke") ELSE Fail(ErrorFor(r))
    /\ UNCHANGED <<ctx, pos, attempt, pending, round, collected, invokeErr, res, manifest,
                   dispatchedNodes, hookFailed, unpublished, history>>

\* Run's classification of the invoker's error.
InvokeError(err) == IF err \in {"ctx", "fatal"} THEN err ELSE "other"

Retries(o, err) ==
    /\ err = "none"
    /\ attempt < Node[ActiveNode].maxAttempts
    /\ RetryableOutcome(o)

\* The journal's status for an unsuccessful outcome.
RecordedStatus(o) == IF o = "cancelled" THEN "cancelled" ELSE "failed"

\* The invoker reports an outcome for the attempt.
StepOutcome(o, err) ==
    /\ dispatchedNodes' = dispatchedNodes \cup {ActiveNode}
    /\ history' = history \cup {<<ActiveNode, 0, attempt, o>>}
    /\ CASE o = "succeeded" ->
                /\ invokeErr' = err
                /\ Goto("settle")
                /\ UNCHANGED manifest
         [] Retries(o, err) ->
                /\ manifest' = MarkAttemptRetrying(manifest, ActiveNode)
                /\ Goto("retryWrite")
                /\ UNCHANGED invokeErr
         [] OTHER ->
                /\ manifest' = MarkAttemptTerminal(manifest, ActiveNode, RecordedStatus(o))
                /\ Fail(IF o = "fatal" THEN "fatal" ELSE InvokeError(err))
                /\ UNCHANGED invokeErr

\* The invoker returned an error and no outcome: the attempt was not dispatched.
StepUndispatched(err) ==
    /\ manifest' = [manifest EXCEPT !.steps[ActiveNode] = DropUndispatched(@)]
    /\ Fail(InvokeError(err))
    /\ UNCHANGED <<invokeErr, dispatchedNodes, history>>

InvokeStep ==
    /\ pc = "invoke"
    /\ \E err \in Errors :
        \/ /\ InvokeStepsReturns({0}, ctx # "live", <<>>, err)
           /\ StepUndispatched(err)
        \/ \E o \in OutcomeKinds :
              /\ InvokeStepsReturns({0}, ctx # "live", [i \in {0} |-> o], err)
              /\ StepOutcome(o, err)
    /\ UNCHANGED <<ctx, pos, attempt, pending, round, collected, res, durable,
                   hookFailed, unpublished, faults>>

RetryWrite ==
    /\ pc = "retryWrite"
    /\ \E r \in PutResults(FALSE) :
        /\ Persist(r)
        /\ Charge(r)
        /\ IF r = "ok" THEN Goto("retryWait") ELSE Fail(ErrorFor(r))
    /\ UNCHANGED <<ctx, pos, attempt, pending, round, collected, invokeErr, res, manifest,
                   dispatchedNodes, hookFailed, unpublished, history>>

RetryWaitOnlyCancel ==
    /\ pc = "retryWait"
    /\ ctx # "live"
    /\ Fail("ctx")
    /\ UNCHANGED <<ctx, pos, attempt, pending, round, collected, invokeErr, res, manifest,
                   durable, dispatchedNodes, hookFailed, unpublished, faults, history>>

\* waitBeforeRetry: the timer and the context's end race. The next attempt is
\* marked running as soon as the wait is over.
RetryWait ==
    /\ pc = "retryWait"
    /\ \/ /\ attempt' = attempt + 1
          /\ manifest' = MarkAttemptRunning(manifest, ActiveNode, attempt + 1)
          /\ Goto("attemptWrite")
       \/ /\ ctx # "live"
          /\ Fail("ctx")
          /\ UNCHANGED <<attempt, manifest>>
    /\ UNCHANGED <<ctx, pos, pending, round, collected, invokeErr, res, durable,
                   dispatchedNodes, hookFailed, unpublished, faults, history>>

\* settleInvocation resolves the published manifest under a detached context; only
\* then does the attempt succeed.
Settle ==
    /\ pc = "settle"
    /\ \/ \E value \in Node[ActiveNode].values :
            /\ res' = SetOutput(res, ActiveNode, value)
            /\ manifest' = MarkAttemptSucceeded(manifest, ActiveNode)
            /\ Goto("successWrite")
            /\ UNCHANGED faults
       \/ /\ "fault" \in StoreResults(TRUE)
          /\ Charge("fault")
          /\ manifest' = MarkAttemptTerminal(manifest, ActiveNode, "failed")
          /\ Fail("other")
          /\ UNCHANGED res
    /\ UNCHANGED <<ctx, pos, attempt, pending, round, collected, invokeErr, durable,
                   dispatchedNodes, hookFailed, unpublished, history>>

\* Completed work is journaled even when the context is done; an invoker error
\* that came with the success is returned afterwards.
SuccessWrite ==
    /\ pc = "successWrite"
    /\ invokeErr' = "none"
    /\ \E r \in PutResults(TRUE) :
        /\ Persist(r)
        /\ Charge(r)
        /\ IF r # "ok" THEN Fail("other") /\ UNCHANGED pos
           ELSE IF invokeErr # "none" THEN Fail(InvokeError(invokeErr)) /\ UNCHANGED pos
           ELSE NextNode
    /\ UNCHANGED <<ctx, attempt, pending, round, collected, res, manifest,
                   dispatchedNodes, hookFailed, unpublished, history>>

-----------------------------------------------------------------------------
\* A map node.

\* failMapNode: the map is cancelled only when its cause is the context's error.
FailMap(m, err) ==
    /\ manifest' = FailMapNode(m, ActiveNode, IF err = "ctx" THEN "cancelled" ELSE "failed")
    /\ Fail(err)

MapInput ==
    /\ pc = "mapInput"
    /\ \E r \in PutResults(FALSE) :
        /\ Charge(r)
        /\ IF r = "ok"
           THEN /\ manifest' = MarkAttemptRunning(manifest, ActiveNode, 1)
                /\ Goto("mapWrite")
           ELSE /\ Fail(ErrorFor(r))
                /\ UNCHANGED manifest
    /\ UNCHANGED <<ctx, pos, attempt, pending, round, collected, invokeErr, res, durable,
                   dispatchedNodes, hookFailed, unpublished, history>>

MapWrite ==
    /\ pc = "mapWrite"
    /\ \E r \in PutResults(FALSE) :
        /\ Persist(r)
        /\ Charge(r)
        /\ IF r = "ok" THEN Goto("expand") ELSE Fail(ErrorFor(r))
    /\ UNCHANGED <<ctx, pos, attempt, pending, round, collected, invokeErr, res, manifest,
                   dispatchedNodes, hookFailed, unpublished, history>>

\* mapexec.Expand: the input must be an array; one pending item per element.
Expand ==
    /\ pc = "expand"
    /\ LET count == InputForNode(res, ActiveNode).items IN
       IF count < 0 THEN FailMap(manifest, "other")
       ELSE /\ manifest' = MarkMapItemsPending(manifest, ActiveNode, count)
            /\ Goto("itemInputs")
    /\ UNCHANGED <<ctx, pos, attempt, pending, round, collected, invokeErr, res, durable,
                   dispatchedNodes, hookFailed, unpublished, faults, history>>

\* One Put per item; an empty map writes nothing and cannot fail here.
ItemInputs ==
    /\ pc = "itemInputs"
    /\ \E r \in IF ActiveItems = <<>> THEN {"ok"} ELSE PutResults(FALSE) :
        /\ Charge(r)
        /\ IF r = "ok" THEN Goto("itemsWrite") /\ UNCHANGED manifest
           ELSE FailMap(manifest, ErrorFor(r))
    /\ UNCHANGED <<ctx, pos, attempt, pending, round, collected, invokeErr, res, durable,
                   dispatchedNodes, hookFailed, unpublished, history>>

\* The round loop: with nothing pending it is over.
StartRound(items) ==
    /\ pending' = items
    /\ Goto(IF items = {} THEN "mapDone" ELSE "mapInvoke")

ItemsWrite ==
    /\ pc = "itemsWrite"
    /\ \E r \in PutResults(FALSE) :
        /\ Persist(r)
        /\ Charge(r)
        /\ IF r = "ok"
           THEN /\ attempt' = 1
                /\ collected' = {}
                /\ StartRound(DOMAIN ActiveItems)
           ELSE Fail(ErrorFor(r)) /\ UNCHANGED <<attempt, collected, pending>>
    /\ UNCHANGED <<ctx, pos, round, invokeErr, res, manifest,
                   dispatchedNodes, hookFailed, unpublished, history>>

PartialOutcomes(items) == UNION {[started -> OutcomeKinds] : started \in SUBSET items}

RecordDispatchSkipsCancelled(item, o) ==
    CASE o = "cancelled" -> item
      [] o = "infra"     -> EntryTerminal(EntryRunning(item, attempt), "failed")
      [] OTHER           -> EntryRunning(item, attempt)

\* Every reported dispatch is recorded before verification can fail; cancelled and
\* infrastructure outcomes are terminal at once.
RecordDispatch(item, o) ==
    LET running == EntryRunning(item, attempt) IN
    CASE o = "cancelled" -> EntryTerminal(running, "cancelled")
      [] o = "infra"     -> EntryTerminal(running, "failed")
      [] OTHER           -> running

MapInvoke ==
    /\ pc = "mapInvoke"
    /\ \E outs \in PartialOutcomes(pending), err \in Errors :
        /\ InvokeStepsReturns(pending, ctx # "live", outs, err)
        /\ round' = [outs |-> outs, err |-> err]
        /\ manifest' = [manifest EXCEPT !.steps[ActiveNode].items =
                [i \in DOMAIN @ |-> IF i \in DOMAIN outs
                                    THEN RecordDispatch(@[i], outs[i]) ELSE @[i]]]
        /\ history' = history \cup {<<ActiveNode, i, attempt, outs[i]>> : i \in DOMAIN outs}
        /\ dispatchedNodes' = IF DOMAIN outs = {} THEN dispatchedNodes
                              ELSE dispatchedNodes \cup {ActiveNode}
    /\ Goto("mapSettle")
    /\ UNCHANGED <<ctx, pos, attempt, pending, collected, invokeErr, res, durable,
                   hookFailed, unpublished, faults>>

RetryItemsAlways ==
    {i \in DOMAIN round.outs : RetryableOutcome(round.outs[i])}

\* Items whose attempt failed retryably with attempts left.
RetryItems ==
    {i \in DOMAIN round.outs :
        RetryableOutcome(round.outs[i]) /\ attempt < Node[ActiveNode].maxAttempts}

CollectedNowAny ==
    {i \in DOMAIN round.outs \ RetryItems :
        Node[ActiveNode].collect /\ round.outs[i] \in FailedOutcomes}

\* Items whose terminal failure a collecting map keeps as their outcome.
CollectedNow ==
    {i \in DOMAIN round.outs \ RetryItems :
        Node[ActiveNode].collect /\ MapItemFailure(round.outs[i])}

SucceededNow(verified) == {i \in verified : round.outs[i] = "succeeded"}

\* Items that fail the map: an uncollected runner failure or an output that does
\* not verify. Cancelled and infrastructure outcomes were recorded already.
FailedNow(verified) ==
    {i \in DOMAIN round.outs \ (RetryItems \cup CollectedNow) :
        \/ round.outs[i] \in FailedOutcomes
        \/ round.outs[i] = "succeeded" /\ i \notin verified}

SettledItems(verified) ==
    [i \in DOMAIN ActiveItems |->
        CASE i \in SucceededNow(verified) -> EntrySucceeded(ActiveItems[i])
          [] i \in RetryItems -> EntryRetrying(ActiveItems[i])
          [] i \in CollectedNow \cup FailedNow(verified) ->
                    EntryTerminal(ActiveItems[i], "failed")
          [] OTHER -> ActiveItems[i]]

RoundErrorFirst ==
    IF round.err # "none" THEN InvokeError(round.err)
    ELSE IF ctx # "live" THEN "ctx"
    ELSE "none"

\* A fatal outcome overrides the error the invoker happened to return.
RoundError ==
    IF \E i \in DOMAIN round.outs : round.outs[i] = "fatal" THEN "fatal"
    ELSE IF round.err # "none" THEN InvokeError(round.err)
    ELSE IF ctx # "live" THEN "ctx"
    ELSE "none"

\* Items waiting for a retry that a failing map closes.
CloseRetries(items, retry) ==
    [i \in DOMAIN items |-> IF i \in retry THEN EntryTerminal(items[i], "failed") ELSE items[i]]

SettleRoundRetriesSiblings(verified) ==
    LET settled == [manifest EXCEPT !.steps[ActiveNode].items = SettledItems(verified)]
        retry == RetryItems
    IN  /\ collected' = collected \cup CollectedNow
        /\ CASE RoundError # "none" ->
                    FailMap(settled, RoundError) /\ UNCHANGED <<attempt, pending>>
             [] RoundError = "none" /\ retry = {} ->
                    manifest' = settled /\ StartRound({}) /\ UNCHANGED attempt
             [] OTHER ->
                    /\ manifest' = settled
                    /\ pending' = retry
                    /\ attempt' = attempt + 1
                    /\ Goto("roundWrite")

SettleRound(verified) ==
    LET items == SettledItems(verified)
        settled == [manifest EXCEPT !.steps[ActiveNode].items = items]
        retry == RetryItems
        failing == FailedNow(verified) # {}
    IN  /\ collected' = collected \cup CollectedNow
        /\ IF RoundError # "none"
           THEN /\ FailMap(settled, RoundError)
                /\ UNCHANGED <<attempt, pending>>
           ELSE IF failing \/ retry = {}
           THEN /\ manifest' = [settled EXCEPT !.steps[ActiveNode].items =
                                    IF failing THEN CloseRetries(@, retry) ELSE @]
                /\ StartRound({})
                /\ UNCHANGED attempt
           ELSE /\ manifest' = settled
                /\ pending' = retry
                /\ attempt' = attempt + 1
                /\ Goto("roundWrite")

\* Verification of each successful item may fail on its own.
MapSettle ==
    /\ pc = "mapSettle"
    /\ LET won == {i \in DOMAIN round.outs : round.outs[i] = "succeeded"} IN
       \E verified \in SUBSET won :
        /\ verified # won => "fault" \in StoreResults(TRUE)
        /\ Charge(IF verified = won THEN "ok" ELSE "fault")
        /\ SettleRound(verified)
    /\ round' = NoRound
    /\ UNCHANGED <<ctx, pos, invokeErr, res, durable, dispatchedNodes, hookFailed,
                   unpublished, history>>

\* A failed write between rounds leaves the items to the run's terminalization.
RoundWrite ==
    /\ pc = "roundWrite"
    /\ \E r \in PutResults(FALSE) :
        /\ Persist(r)
        /\ Charge(r)
        /\ IF r = "ok" THEN Goto("roundWait") ELSE Fail(ErrorFor(r))
    /\ UNCHANGED <<ctx, pos, attempt, pending, round, collected, invokeErr, res, manifest,
                   dispatchedNodes, hookFailed, unpublished, history>>

RoundWait ==
    /\ pc = "roundWait"
    /\ \/ Goto("mapInvoke") /\ UNCHANGED manifest
       \/ ctx # "live" /\ FailMap(manifest, "ctx")
    /\ UNCHANGED <<ctx, pos, attempt, pending, round, collected, invokeErr, res, durable,
                   dispatchedNodes, hookFailed, unpublished, faults, history>>

\* mapHasFailedItem: an item that neither succeeded nor was collected.
MapDone ==
    /\ pc = "mapDone"
    /\ IF \E i \in DOMAIN ActiveItems \ collected : ActiveItems[i].status # "succeeded"
       THEN FailMap(manifest, "other")
       ELSE Goto("collect") /\ UNCHANGED manifest
    /\ UNCHANGED <<ctx, pos, attempt, pending, round, collected, invokeErr, res, durable,
                   dispatchedNodes, hookFailed, unpublished, faults, history>>

\* The source-ordered list is published and resolved again before the map's own
\* attempt succeeds.
Collect ==
    /\ pc = "collect"
    /\ \E r \in StoreResults(FALSE) :
        /\ Charge(r)
        /\ IF r = "ok"
           THEN /\ manifest' = MarkAttemptSucceeded(manifest, ActiveNode)
                /\ res' = SetOutput(res, ActiveNode, ListOf(Len(ActiveItems)))
                /\ Goto("collectWrite")
           ELSE FailMap(manifest, ErrorFor(r)) /\ UNCHANGED res
    /\ UNCHANGED <<ctx, pos, attempt, pending, round, collected, invokeErr, durable,
                   dispatchedNodes, hookFailed, unpublished, history>>

CollectWrite ==
    /\ pc = "collectWrite"
    /\ \E r \in PutResults(FALSE) :
        /\ Persist(r)
        /\ Charge(r)
        /\ IF r = "ok" THEN NextNode ELSE Fail(ErrorFor(r)) /\ UNCHANGED pos
    /\ UNCHANGED <<ctx, attempt, pending, round, collected, invokeErr, res, manifest,
                   dispatchedNodes, hookFailed, unpublished, history>>

-----------------------------------------------------------------------------
\* The end of the run.

\* resultForEnd stores the result, then the run succeeds in memory.
Result ==
    /\ pc = "node"
    /\ pos = Len(NodeOrder) + 1
    /\ \E r \in PutResults(FALSE) :
        /\ Charge(r)
        /\ IF r = "ok" /\ res.outputs[EndSource] # NoValue
           THEN /\ manifest' = [manifest EXCEPT !.status = "succeeded", !.result = "stored"]
                /\ Goto("resultWrite")
           ELSE Fail(ErrorFor(r)) /\ UNCHANGED manifest
    /\ UNCHANGED <<ctx, pos, attempt, pending, round, collected, invokeErr, res, durable,
                   dispatchedNodes, hookFailed, unpublished, history>>

ResultWrite ==
    /\ pc = "resultWrite"
    /\ \E r \in PutResults(FALSE) :
        /\ Persist(r)
        /\ Charge(r)
        /\ IF r = "ok" THEN Goto("hook") ELSE Fail(ErrorFor(r))
    /\ UNCHANGED <<ctx, pos, attempt, pending, round, collected, invokeErr, res, manifest,
                   dispatchedNodes, hookFailed, unpublished, history>>

\* A run stopped by its context is cancelled, unless the plan's own deadline ended
\* it; every other error fails it.
TerminalStatus == IF runErr = "ctx" /\ ctx = "cancelled" THEN "cancelled" ELSE "failed"

TerminateRun ==
    /\ pc = "terminal"
    /\ manifest' = [Terminate(manifest, TerminalStatus) EXCEPT
                        !.failure = IF runErr = "fatal" THEN ActiveNode ELSE @]
    /\ Goto("terminalWrite")
    /\ UNCHANGED <<ctx, pos, attempt, pending, round, collected, invokeErr, res, durable,
                   dispatchedNodes, hookFailed, unpublished, faults, history>>

\* The terminal journal is published under a detached context; its failure is
\* reported to the caller and stops nothing.
TerminalWrite ==
    /\ pc = "terminalWrite"
    /\ \E r \in PutResults(TRUE) :
        /\ Persist(r)
        /\ Charge(r)
        /\ unpublished' = (r # "ok")
    /\ Goto("hook")
    /\ UNCHANGED <<ctx, pos, attempt, pending, round, collected, invokeErr, res, manifest,
                   dispatchedNodes, hookFailed, history>>

FailedNodeAnyStatus ==
    LET blamed == {i \in DOMAIN NodeOrder : /\ NodeOrder[i] \in StepIds
                        /\ manifest.steps[NodeOrder[i]].status \in {"failed", "cancelled"}}
    IN  IF blamed = {} THEN "none"
        ELSE NodeOrder[CHOOSE i \in blamed : \A j \in blamed : i <= j]

\* The node named in the outcome the hook receives: the fatal node, else the first
\* unsuccessful step that was really dispatched; only a failed run names one.
FailedNode ==
    LET blamed == {i \in DOMAIN NodeOrder :
                        /\ NodeOrder[i] \in dispatchedNodes
                        /\ manifest.steps[NodeOrder[i]].status \in {"failed", "cancelled"}}
    IN  IF manifest.failure # "none" THEN manifest.failure
        ELSE IF manifest.status # "failed" \/ blamed = {} THEN "none"
        ELSE NodeOrder[CHOOSE i \in blamed : \A j \in blamed : i <= j]

\* runExitHook's record. It fails when the hook's own deadline or signal is there by the
\* time the record is made, whatever came before; the output of a hook that was settled
\* is in the attempt by then, and stays.
HookRecord(settled, expired) ==
    LET status == IF settled /\ ~expired THEN "succeeded" ELSE "failed"
    IN  [status |-> status,
         attempts |-> <<[attempt |-> 1, status |-> status,
                         output |-> IF settled THEN "published" ELSE "none"]>>]

ExitHookDecidesStatus ==
    /\ pc = "hook"
    /\ HasExitHook
    /\ hookFailed' = FailedNode
    /\ \E settled, expired \in BOOLEAN :
            LET hook == HookRecord(settled, expired)
            IN  manifest' = [manifest EXCEPT !.exitHook = hook, !.status = hook.status]
    /\ Goto("hookWrite")
    /\ UNCHANGED <<ctx, pos, attempt, pending, round, collected, invokeErr, res, durable,
                   dispatchedNodes, unpublished, faults, history>>

\* runExitHook: one attempt under a lifetime of its own. Its failure is recorded.
ExitHook ==
    /\ pc = "hook"
    /\ IF HasExitHook
       THEN /\ hookFailed' = FailedNode
            /\ \E settled, expired \in BOOLEAN :
                    manifest' = [manifest EXCEPT !.exitHook = HookRecord(settled, expired)]
            /\ Goto("hookWrite")
       ELSE Goto("done") /\ UNCHANGED <<hookFailed, manifest>>
    /\ UNCHANGED <<ctx, pos, attempt, pending, round, collected, invokeErr, res, durable,
                   dispatchedNodes, unpublished, faults, history>>

HookWriteSilent ==
    /\ pc = "hookWrite"
    /\ \E r \in PutResults(TRUE) : Persist(r) /\ Charge(r)
    /\ Goto("done")
    /\ UNCHANGED <<ctx, pos, attempt, pending, round, collected, invokeErr, res, manifest,
                   dispatchedNodes, hookFailed, unpublished, history>>

HookWrite ==
    /\ pc = "hookWrite"
    /\ \E r \in PutResults(TRUE) :
        /\ Persist(r)
        /\ Charge(r)
        /\ unpublished' = (unpublished \/ r # "ok")
    /\ Goto("done")
    /\ UNCHANGED <<ctx, pos, attempt, pending, round, collected, invokeErr, res, manifest,
                   dispatchedNodes, hookFailed, history>>

-----------------------------------------------------------------------------
StepNode ==
    \/ StepInput \/ AttemptWrite \/ InvokeStep \/ RetryWrite \/ RetryWait
    \/ Settle \/ SuccessWrite

MapNode ==
    \/ MapInput \/ MapWrite \/ Expand \/ ItemInputs \/ ItemsWrite \/ MapInvoke
    \/ MapSettle \/ RoundWrite \/ RoundWait \/ MapDone \/ Collect \/ CollectWrite

RunStep ==
    \/ RefuseRun \/ Claim \/ Prerequisites
    \/ StopAtNode \/ SkipNode \/ DecideNode \/ NodeWrite \/ SelectNode \/ EnterNode
    \/ StepNode \/ MapNode
    \/ Result \/ ResultWrite \/ TerminateRun \/ TerminalWrite \/ ExitHook \/ HookWrite

Finished == Over /\ UNCHANGED vars

Next == Cancel \/ DeadlinePasses \/ RunStep \/ Finished

Spec == Init /\ [][Next]_vars

\* Run is one goroutine that keeps being scheduled; that the invoker returns is
\* what StepInvoker shows.
FairSpec == Spec /\ WF_vars(RunStep)

-----------------------------------------------------------------------------
Settled == pc \in {"terminalWrite", "hook", "hookWrite", "done"}

EntryOf(m, n, item) == IF item = 0 THEN m.steps[n] ELSE m.steps[n].items[item]

(***************************************************************************)
(* Whatever instant the process stops at, runjournal.Parse accepts the     *)
(* stored journal of a run that crashed, was cancelled or lost a write,    *)
(* with one exception: a hook that runExitHook settled and whose own       *)
(* lifetime ended before its record was made. All else in that journal is  *)
(* as Parse wants it.                                                      *)
(***************************************************************************)
DurableReadable ==
    durable # NoJournal =>
        /\ ParseRun(durable)
        /\ ParseExitHook(durable.exitHook) \/ durable.exitHook = HookRecord(TRUE, TRUE)

(***************************************************************************)
(* runjournal.Parse accepts every journal that Run stores. runExitHook     *)
(* breaks this: it puts the settled output into the attempt and then lets  *)
(* the hook's deadline or signal turn it into a failed one, which may not  *)
(* carry an output.                                                        *)
(***************************************************************************)
EveryJournalReadable == durable # NoJournal => Parse(durable)

\* The statuses an attempt may be journaled with after the invoker reported o.
RecordedAs(o) ==
    CASE o = "succeeded" -> {"succeeded", "failed"}
      [] o = "cancelled" -> {"cancelled"}
      [] OTHER           -> {"failed"}

(***************************************************************************)
(* The settled journal accounts for every invocation: each reported        *)
(* dispatch has its attempt, in its slot, with the outcome it had, and     *)
(* every map item attempt and every successful attempt was dispatched.     *)
(***************************************************************************)
HistoryJournaled ==
    Settled =>
        /\ \A h \in history :
            LET attempts == EntryOf(manifest, h[1], h[2]).attempts
            IN  /\ h[3] \in DOMAIN attempts
                /\ attempts[h[3]].status \in RecordedAs(h[4])
        /\ \A s \in StepIds : \A i \in DOMAIN manifest.steps[s].items :
            \A a \in DOMAIN manifest.steps[s].items[i].attempts :
                \E o \in OutcomeKinds : <<s, i, a, o>> \in history
        /\ \A s \in StepIds : ~manifest.steps[s].isMap =>
            \A a \in DOMAIN manifest.steps[s].attempts :
                manifest.steps[s].attempts[a].status = "succeeded" =>
                    <<s, 0, a, "succeeded">> \in history

(***************************************************************************)
(* Attempts are spent only as the contract allows: never more than         *)
(* maxAttempts, a later one only after a retryable failure of the one      *)
(* before it, and at most one outcome for each attempt.                    *)
(***************************************************************************)
RetryDiscipline ==
    \A h \in history :
        /\ h[3] \in 1..Node[h[1]].maxAttempts
        /\ h[3] > 1 => \E o \in OutcomeKinds :
                RetryableOutcome(o) /\ <<h[1], h[2], h[3] - 1, o>> \in history
        /\ \A g \in history : (g[1] = h[1] /\ g[2] = h[2] /\ g[3] = h[3]) => g = h

\* The script a settled step or map behaved like: the fault that makes an attempt end
\* the way it was reported; a success whose output did not verify has none to show.
FaultOf(s, i, a, o) ==
    CASE o = "succeeded" -> IF EntryOf(manifest, s, i).attempts[a].status = "failed"
                            THEN "MissingOutput" ELSE "Succeed"
      [] o = "signal" -> "Crash"
      [] o = "timeout" -> "Timeout"
      [] o = "nonretryable" -> "FailNonRetryable"
      [] o = "schema" -> "FailSchema"
      [] OTHER -> "FailRetryable"

Scripted == Outcomes \ (ErrorOutcomes \cup {"descriptor", "other"})

Script(s, count) ==
    [x \in (0..count) \X (1..Node[s].maxAttempts) |->
        LET reported == {o \in OutcomeKinds : <<s, x[1], x[2], o>> \in history}
        IN  IF reported = {} THEN "Succeed"
            ELSE FaultOf(s, x[1], x[2], CHOOSE o \in reported : TRUE)]

\* A step or map whose fate is the script's: it succeeded, or it failed after an attempt
\* that no retry follows and no map keeps; no process was lost under it.
Predictable(s) ==
    /\ \A h \in history : h[1] = s => h[4] \in Scripted
    /\ \/ manifest.steps[s].status = "succeeded"
       \/ /\ manifest.steps[s].status = "failed"
          /\ \E h \in history :
                LET fault == FaultOf(h[1], h[2], h[3], h[4]) IN
                /\ h[1] = s /\ fault # "Succeed"
                /\ ~FaultRetryable(fault) \/ h[3] = Node[s].maxAttempts
                /\ ~(Node[s].collect /\ CollectedFailure(fault))

(***************************************************************************)
(* The journal of a step or a map is the one the fuzzer's interpreter      *)
(* predicts from the outcomes of its attempts: the same attempts of every  *)
(* item in the same rounds, the same items failed, collected or never      *)
(* started, the same end of the map, in whatever order items finished.     *)
(***************************************************************************)
JournalMatchesPrediction ==
    Settled => \A s \in StepIds : Predictable(s) =>
        LET step == manifest.steps[s] IN
        IF ~step.isMap
        THEN [attempts |-> Len(step.attempts), status |-> step.status] =
                PredictAttempts(Script(s, 0), Node[s].maxAttempts)
        ELSE LET count == Len(step.items) IN
             [status |-> step.status,
              items |-> [i \in 1..count |-> [attempts |-> Len(step.items[i].attempts),
                                              status |-> step.items[i].status]]] =
                PredictMap(Script(s, count), count, Node[s].maxAttempts, step.collect)

SelectedCases(m) ==
    {<<m.decisions[i].node, m.decisions[i].case>> :
        i \in {j \in DOMAIN m.decisions : m.decisions[j].status = "selected"}}

\* Whether node n is active, given the active nodes before it and the selections a
\* journal records.
Activated(m, before, n) ==
    IF Node[n].kind = "select" THEN Node[n].decisionRef \in before
    ELSE \A k \in DOMAIN Node[n].inbound :
            LET e == Node[n].inbound[k]
            IN  e.from \in before /\ (e.case = "" \/ <<e.from, e.case>> \in SelectedCases(m))

Extended(m, before, n) == IF Activated(m, before, n) THEN before \cup {n} ELSE before

\* The active nodes of the plan given only the selections a journal records.
ActiveRegion(m) ==
    LET region[i \in 0..Len(NodeOrder)] ==
          IF i = 0 THEN {StartNode} ELSE Extended(m, region[i - 1], NodeOrder[i])
    IN  region[Len(NodeOrder)]

(***************************************************************************)
(* The journal alone explains its skips: a durable skipped step lies       *)
(* outside the region its recorded selections activate, and a successful   *)
(* run skipped exactly the steps outside it.                               *)
(***************************************************************************)
SkipsFollowDecisions ==
    durable # NoJournal =>
        \A s \in StepIds :
            /\ durable.steps[s].status = "skipped" => s \notin ActiveRegion(durable)
            /\ durable.status = "succeeded" =>
                    (durable.steps[s].status = "skipped" <=> s \notin ActiveRegion(durable))

(***************************************************************************)
(* What Run reports is what the datastore holds: unless it says that a     *)
(* terminal write failed, the durable journal of a returned run is its     *)
(* final one, with the status the caller sees.                             *)
(***************************************************************************)
ReportedIsDurable ==
    pc = "done" /\ ~unpublished =>
        /\ durable = manifest
        /\ durable.status \in RunTerminal
        /\ durable.status = "succeeded" <=> runErr = "none"

(***************************************************************************)
(* The exit hook blames the right node: the one it names was dispatched,   *)
(* did not succeed, and nothing was dispatched after it.                   *)
(***************************************************************************)
HookBlamesLastDispatch ==
    hookFailed # "none" =>
        /\ \E h \in history : h[1] = hookFailed
        /\ manifest.steps[hookFailed].status # "succeeded"
        /\ \A h \in history : \E i, j \in DOMAIN NodeOrder :
              NodeOrder[i] = h[1] /\ NodeOrder[j] = hookFailed /\ i <= j

(***************************************************************************)
(* A fatal author failure reaches the journal as the run's cause, whatever *)
(* its siblings in a map or the run's context did meanwhile, and only a    *)
(* caller's cancellation makes a run cancelled.                            *)
(***************************************************************************)
CauseIsKept ==
    Settled =>
        /\ \A h \in history : h[4] = "fatal" =>
              manifest.status = "failed" /\ manifest.failure = h[1]
        /\ manifest.status = "cancelled" => ctx = "cancelled" /\ runErr = "ctx"

Preserved(before, after) == before.status = "succeeded" => after = before

(***************************************************************************)
(* Completed work is never lost: a step or map item that succeeded keeps   *)
(* its status and its published output in the journal Run holds, and a     *)
(* step's success in the datastore is never overwritten by a journal that  *)
(* forgets it.                                                             *)
(***************************************************************************)
CompletedWorkPreserved ==
    [][\A s \in StepIds :
          /\ Preserved(manifest.steps[s], manifest'.steps[s])
          /\ \A i \in DOMAIN manifest.steps[s].items :
                Preserved(manifest.steps[s].items[i], manifest'.steps[s].items[i])
          /\ durable # NoJournal => Preserved(durable.steps[s], durable'.steps[s])]_vars

\* An uncollected failure or a cancellation somewhere in the journal.
HasFailed(m) ==
    \E s \in StepIds :
        \/ m.steps[s].status \in {"failed", "cancelled"}
        \/ \E i \in DOMAIN m.steps[s].items :
              /\ m.steps[s].items[i].status \in {"failed", "cancelled"}
              /\ ~m.steps[s].collect

(***************************************************************************)
(* The run fails fast: after a terminal failure of a step, or of an item   *)
(* the map does not collect, no further runner is dispatched, retries      *)
(* included.                                                               *)
(***************************************************************************)
NoDispatchAfterFailure == [][HasFailed(manifest) => history' = history]_vars

(***************************************************************************)
(* A durable terminal journal is never reopened, and a failed or cancelled *)
(* one never turns into another status.                                    *)
(***************************************************************************)
TerminalNeverReopens ==
    [][durable.status \in RunTerminal =>
          /\ durable'.status \in RunTerminal
          /\ durable.status # "succeeded" => durable'.status = durable.status]_vars

(***************************************************************************)
(* Every run ends: retries, rounds and skipped regions never make the loop *)
(* wait for something that cannot happen.                                  *)
(***************************************************************************)
RunTerminates == <>(pc \in {"done", "rejected"})
==============================================================================
