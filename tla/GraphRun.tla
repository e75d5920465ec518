------------------------------ MODULE GraphRun -------------------------------
(***************************************************************************)
(* One accepted graph executed twice: by the local executor, which walks   *)
(* the nodes in topological order through the resolver (Resolution), and   *)
(* by an Argo controller, which runs the tasks ArgoTarget lowers it to as  *)
(* their dependencies end, in any order, with pods that fail.              *)
(*                                                                         *)
(* A value is symbolic: which node computed it from what, the case its     *)
(* selector names and whether it is an array, so two values are equal only *)
(* when the whole data flow behind them is. choice says which case the     *)
(* value a node computes selects; both executions see the same choices.    *)
(* The controller is external: it evaluates depends once the named tasks   *)
(* have ended, omits a task whose depends is false and skips one whose     *)
(* when is false; after a failure it may stop scheduling.                  *)
(***************************************************************************)
EXTENDS ArgoTarget

CONSTANT MaxPodFailures

VARIABLES
    stage,      \* "author": the graph is being written; "rejected"; "run"; "over"
    graph,      \* the graph
    choice,     \* choice[n]: the case the value computed by node n selects
    local,      \* what the local executor makes of the graph: see LocalRun
    phase,      \* Argo's phase of every task
    output,     \* result parameters of the tasks that succeeded
    selection,  \* selection parameters of the decisions that succeeded
    podFailures

runVars == <<local, phase, output, selection, podFailures>>
graphVars == <<stage, graph, choice, local, phase, output, selection, podFailures>>

WorkflowInput(g) ==
    [case |-> "undeclared", items |-> IF g.node[g.start].out = "list" THEN 1 ELSE -1,
     by |-> g.start, of |-> <<>>]

\* What the author's code of step or map n returns for its input.
Computed(g, ch, n, input) ==
    [case |-> ch[n], items |-> IF g.node[n].out = "object" THEN -1 ELSE 1, by |-> n, of |-> input]

-----------------------------------------------------------------------------
(* The local executor.                                                     *)

InboundOf(g, n) ==
    IF g.node[n].merge # <<>>
    THEN [i \in DOMAIN g.node[n].merge |-> [from |-> g.node[n].merge[i], case |-> ""]]
    ELSE SetToSeq({[from |-> e.from, case |-> e.case] : e \in Inbound(g, n)})

\* compileGraph: the plan's record of a node.
CompileNode(g, n) ==
    LET node == g.node[n]
        inputs == Range(node.selectInputs)
    IN  [kind |-> node.kind, inbound |-> InboundOf(g, n), merge |-> node.merge # <<>>,
         cases |-> Tags(g, n), decisionRef |-> node.decisionRef,
         selectInputs |-> [c \in {i.case : i \in inputs} |->
                              (CHOOSE i \in inputs : i.case = c).source]]

\* topologicalPlanOrder of the compiled plan, without the sentinels.
PlanOrder(g) == SelectSeq(GraphTopologicalOrder(g), LAMBDA n : n \in ExecutableNodes(g))

\* The resolver after every node, and the first error that is not a runner's: a node
\* that cannot be resolved, an input that is missing, a case nobody declared.
LocalRun(g, ch) ==
    LET order == PlanOrder(g)
        nodes == [n \in ExecutableNodes(g) |-> CompileNode(g, n)]
        R == INSTANCE Resolution WITH NodeOrder <- order, Node <- nodes,
                 EndSource <- CHOOSE p \in Sources(g, g.end) : TRUE,
                 StartNode <- g.start, StartValue <- WorkflowInput(g)
        Visit(res, n) ==
            LET input == R!InputForNode(res, n) IN
            CASE R!Unresolvable(res, n) -> [res |-> res, error |-> "unresolvable"]
              [] ~R!Unresolvable(res, n) /\ R!Skipped(res, n) ->
                    [res |-> R!Deactivate(res, n), error |-> "none"]
              [] OTHER ->
                 IF nodes[n].kind = "select"
                 THEN IF res.outputs[R!SelectSource(res, n)] = R!NoValue
                      THEN [res |-> res, error |-> "missing"]
                      ELSE [res |-> R!SelectOutput(res, n), error |-> "none"]
                 ELSE IF input = R!NoValue THEN [res |-> res, error |-> "missing"]
                 ELSE IF nodes[n].kind # "decision"
                      THEN [res |-> R!SetOutput(res, n, Computed(g, ch, n, input)),
                            error |-> "none"]
                 ELSE IF R!DecisionCase(n, input) = "none"
                      THEN [res |-> res, error |-> "case"]
                      ELSE [res |-> R!RouteDecision(res, n, R!DecisionCase(n, input)),
                            error |-> "none"]
        Walk[k \in 0..Len(order)] ==
            IF k = 0 THEN [res |-> R!NewResolver, error |-> "none"]
            ELSE LET before == Walk[k - 1] IN
                 IF before.error # "none" THEN before ELSE Visit(before.res, order[k])
    IN  Walk[Len(order)]

-----------------------------------------------------------------------------
(* The Argo controller and the pods it runs.                               *)

Finished == {"Succeeded", "Failed", "Skipped", "Omitted"}

Failing == \E t \in DOMAIN phase : phase[t] = "Failed"

\* The controller looks at a pending task whose named dependencies have all ended.
Assessable(t) == phase[t] = "Pending" /\ \A d \in DependsOn(graph, t) : phase[d] \in Finished

Omit(t) ==
    /\ stage = "run" /\ Assessable(t)
    /\ ~Depends(graph, t, phase)
    /\ phase' = [phase EXCEPT ![t] = "Omitted"]
    /\ UNCHANGED <<stage, graph, choice, local, output, selection, podFailures>>

Skip(t) ==
    /\ stage = "run" /\ Assessable(t)
    /\ Depends(graph, t, phase)
    /\ ~When(graph, t, selection)
    /\ phase' = [phase EXCEPT ![t] = "Skipped"]
    /\ UNCHANGED <<stage, graph, choice, local, output, selection, podFailures>>

ParameterValue(source) == IF source = graph.start THEN WorkflowInput(graph) ELSE output[source]

TaskInput(t) ==
    LET sources == InputParameters(graph, t, selection)
        values == [i \in DOMAIN sources |-> ParameterValue(sources[i])]
    IN  IF t # EntryTask /\ graph.node[t].merge # <<>>
        THEN [case |-> "undeclared", items |-> Len(values), parts |-> values]
        ELSE values[1]

\* ResolveControlValue: a decision reports the index of the declared case its value
\* selects and forwards the value, a select forwards the value it was given.
PodResult(t) ==
    LET input == TaskInput(t) IN
    IF t = EntryTask \/ graph.node[t].kind \in {"decision", "select"} THEN input
    ELSE Computed(graph, choice, t, input)

Succeed(t) ==
    /\ stage = "run" /\ Assessable(t)
    /\ Depends(graph, t, phase)
    /\ When(graph, t, selection)
    /\ phase' = [phase EXCEPT ![t] = "Succeeded"]
    /\ output' = [output EXCEPT ![t] = PodResult(t)]
    /\ selection' = IF t # EntryTask /\ graph.node[t].kind = "decision"
                    THEN [selection EXCEPT ![t] = CaseIndex(graph, t, TaskInput(t).case)]
                    ELSE selection
    /\ UNCHANGED <<stage, graph, choice, local, podFailures>>

\* A pod that exhausts its attempts: author code, or the infrastructure of a control pod.
PodFails(t) ==
    /\ stage = "run" /\ Assessable(t)
    /\ podFailures < MaxPodFailures
    /\ Depends(graph, t, phase)
    /\ When(graph, t, selection)
    /\ phase' = [phase EXCEPT ![t] = "Failed"]
    /\ podFailures' = podFailures + 1
    /\ UNCHANGED <<stage, graph, choice, local, output, selection>>

WorkflowEnds ==
    /\ stage = "run"
    /\ Failing \/ \A t \in DOMAIN phase : phase[t] \in Finished
    /\ stage' = "over"
    /\ UNCHANGED <<graph, choice, local, phase, output, selection, podFailures>>

RunNext ==
    \/ \E t \in Tasks(graph) : Omit(t) \/ Skip(t) \/ Succeed(t) \/ PodFails(t)
    \/ WorkflowEnds

-----------------------------------------------------------------------------
(* Both executions start from an accepted graph.                           *)

NoOutput == [case |-> "none", items |-> -2]

\* The nodes whose values a decision reads, directly or through a select.
Classifiers(g, d) ==
    LET producers == Sources(g, d) IN
    {s \in ValueProducers(g) \ OfKind(g, "select") :
        s \in producers \/ Targets(g, s) \cap producers \cap OfKind(g, "select") # {}}

\* Author code returns cases its readers declare; what nobody reads is "a".
RoutingChoices(g) ==
    LET Read(n) == {Tags(g, d) : d \in {d \in OfKind(g, "decision") : n \in Classifiers(g, d)}}
    IN  {ch \in [ExecutableNodes(g) -> {"a", "b"}] :
            \A n \in ExecutableNodes(g) : /\ \A tags \in Read(n) : ch[n] \in tags
                                          /\ Read(n) = {} => ch[n] = "a"}

StartRun(g) ==
    \E ch \in RoutingChoices(g) :
        /\ stage' = "run"
        /\ graph' = g
        /\ choice' = ch
        /\ local' = LocalRun(g, ch)
        /\ phase' = [t \in Tasks(g) |-> "Pending"]
        /\ output' = [t \in Tasks(g) |-> NoOutput]
        /\ selection' = [n \in ExecutableNodes(g) |-> -1]
        /\ podFailures' = 0

-----------------------------------------------------------------------------
(* Properties.                                                             *)

\* The rules validateSemantics accepts a graph by are enough: whatever the classifiers
\* return, activationSkipReason and inputForNode find every decision resolved, every
\* chosen select source active and every input of an active node published.
AcceptedGraphsResolve == stage = "run" => local.error = "none"

FailedAncestor(t) ==
    \E f \in DOMAIN phase : /\ phase[f] = "Failed"
                            /\ f = EntryTask \/ t \in GraphReachable(graph, f)

\* "Exhaustive decisions execute locally and on Argo with the same routing and
\* artifact-selection semantics": a task succeeds on Argo only when its node is active
\* locally, with the same value from the same data flow, and the controller leaves a
\* task out only when its node is inactive locally or something it needs failed.
RemoteMatchesLocal ==
    stage \in {"run", "over"} =>
        \A n \in ExecutableNodes(graph) :
            /\ phase[n] = "Succeeded" => /\ ~local.res.inactive[n]
                                         /\ output[n] = local.res.outputs[n]
            /\ phase[n] \in {"Skipped", "Omitted"} =>
                  local.res.inactive[n] \/ FailedAncestor(n)

\* The insertion-sorted queue of BuildSchedule gives the plan the very order that the
\* validator and the orchestrator compute by sorting: the journal lists the steps as the
\* plan does.
SchedulesAgree == stage = "run" => BuildSchedule(graph) = GraphTopologicalOrder(graph)
==============================================================================
