----------------------------- MODULE ArgoTarget ------------------------------
(***************************************************************************)
(* The Argo target: which plans it accepts, and the tasks it lowers a plan *)
(* to. A task is its depends and when expressions and the values its input *)
(* parameters name; phase maps the tasks to their Argo phases and          *)
(* selection the decisions to the case index their pods reported (-1       *)
(* before). Pod specifications, placement and names are left out.          *)
(***************************************************************************)
EXTENDS WorkflowGraph

\* validateStaticGraph: what ValidateSemantics asks of a plan's graph and, besides,
\* that every node reaches the end.
ReachesEnd(g) == \A n \in Ids(g) : g.end \in GraphReachable(g, n)

ValidateStaticGraph(g) ==
    /\ ValidSentinels(g)
    /\ \A n \in OfKind(g, "step") :
          (Cardinality(Inbound(g, n)) > 1 \/ g.node[n].merge # <<>>) =>
              Range(g.node[n].merge) = Sources(g, n)
    /\ GraphReachable(g, g.start) = Ids(g)
    /\ ReachesEnd(g)
    /\ Len(GraphTopologicalOrder(g)) = Cardinality(Ids(g))
    /\ ValidateControlFlow(g)

-----------------------------------------------------------------------------
(* workflowTemplate: one task per node between start and end, and an entry *)
(* task that normalizes the submitted input for a map that consumes it.    *)

ExecutableNodes(g) == Ids(g) \ {g.start, g.end}

EntryTask == -2

ReadsWorkflowInput(g, n) == g.node[n].merge = <<>> /\ Sources(g, n) = {g.start}

NeedsEntry(g, n) == g.node[n].kind \in {"decision", "map"} /\ ReadsWorkflowInput(g, n)

Tasks(g) ==
    ExecutableNodes(g) \cup
    IF \E n \in ExecutableNodes(g) : NeedsEntry(g, n) THEN {EntryTask} ELSE {}

Dependencies(g, n) ==
    (Sources(g, n) \cap ExecutableNodes(g)) \cup IF NeedsEntry(g, n) THEN {EntryTask} ELSE {}

\* The tasks a depends expression names; Argo evaluates it once they have all ended.
DependsOn(g, n) ==
    IF n = EntryTask THEN {}
    ELSE Dependencies(g, n) \cup
         IF g.node[n].kind = "select" THEN {g.node[n].decisionRef} ELSE {}

\* A select runs once its decision and a source succeeded, whatever kept the other
\* sources from running; every other task needs all its sources.
Depends(g, n, phase) ==
    IF n = EntryTask THEN TRUE
    ELSE IF g.node[n].kind = "select"
    THEN /\ \A d \in Dependencies(g, n) : phase[d] \in {"Succeeded", "Skipped", "Omitted"}
         /\ phase[g.node[n].decisionRef] = "Succeeded"
         /\ \E d \in Dependencies(g, n) : phase[d] = "Succeeded"
    ELSE \A d \in Dependencies(g, n) : phase[d] = "Succeeded"

\* argoCaseExpression compares the reported index with the case's place.
CaseIndex(g, d, tag) ==
    (CHOOSE i \in DOMAIN g.node[d].cases : g.node[d].cases[i].tag = tag) - 1

When(g, n, selection) ==
    n # EntryTask =>
        \A e \in Inbound(g, n) :
            e.case # "" => selection[e.from] = CaseIndex(g, e.from, e.case)

\* argoSelectExpression: the first select input whose case the decision reported.
SelectExpression(g, n, selection) ==
    LET inputs == g.node[n].selectInputs
        chosen == {i \in DOMAIN inputs :
                      selection[g.node[n].decisionRef] =
                          CaseIndex(g, g.node[n].decisionRef, inputs[i].case)}
    IN  inputs[Min(chosen)].source

InputParametersSorted(g, n, selection) ==
    IF n = EntryTask THEN <<g.start>>
    ELSE IF g.node[n].kind = "select" THEN <<SelectExpression(g, n, selection)>>
    ELSE IF NeedsEntry(g, n) THEN <<EntryTask>>
    ELSE SetToSortSeq(Sources(g, n), LAMBDA a, b : Rank[a] < Rank[b])

\* argoInputParameters: the tasks whose results the parameters carry, in order.
InputParameters(g, n, selection) ==
    IF n = EntryTask THEN <<g.start>>
    ELSE IF g.node[n].kind = "select" THEN <<SelectExpression(g, n, selection)>>
    ELSE IF g.node[n].merge # <<>> THEN g.node[n].merge
    ELSE IF NeedsEntry(g, n) THEN <<EntryTask>>
    ELSE <<CHOOSE p \in Sources(g, n) : TRUE>>
==============================================================================
