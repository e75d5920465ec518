------------------------------ MODULE Resolution ------------------------------
(***************************************************************************)
(* Graph resolution: which nodes of a plan are active, what each of them   *)
(* reads, and how decisions and selects route values (executionResolver).  *)
(*                                                                         *)
(* A published JSON value is abstracted to the two things the control      *)
(* plane reads of it: the case its decision selector names and the number  *)
(* of its items when it is an array (-1 when it is none).                  *)
(***************************************************************************)
EXTENDS Integers, Sequences

CONSTANTS
    NodeOrder,   \* the topological order of the nodes, start and end left out
    Node,        \* Node[n]: the plan's record of node n
    EndSource,   \* the source of the end node's only inbound edge
    StartNode,   \* the start node, which carries the workflow input
    StartValue   \* the workflow input

NodeIds == {NodeOrder[i] : i \in DOMAIN NodeOrder}

\* A node's inbound edges are a sequence of [from, case]; case is "" on an
\* unconditional edge. A merge node reads all of them, listed in the order of its
\* declared merge inputs, any other node exactly one.
Predecessors(n) == {Node[n].inbound[i].from : i \in DOMAIN Node[n].inbound}

ASSUME GraphAssumption ==
    /\ \A i \in DOMAIN NodeOrder : \A p \in Predecessors(NodeOrder[i]) :
            p = StartNode \/ \E j \in 1..(i - 1) : NodeOrder[j] = p
    /\ EndSource \in NodeIds
    /\ StartNode \notin NodeIds

StepIds == {n \in NodeIds : Node[n].kind \in {"step", "map"}}

NoValue == [case |-> "none", items |-> -2]
ListOf(count) == [case |-> "undeclared", items |-> count]

\* The array a merge node reads: its sources' values, in their declared order.
MergeOf(values) == [case |-> "undeclared", items |-> Len(values), parts |-> values]

\* newExecutionResolver: only the start node has an output, nothing is selected.
NewResolver ==
    [outputs  |-> [n \in NodeIds \cup {StartNode} |->
                      IF n = StartNode THEN StartValue ELSE NoValue],
     selected |-> [n \in NodeIds |-> "none"],
     inactive |-> [n \in NodeIds \cup {StartNode} |-> FALSE]]

\* inputForNode: NoValue stands for its missing-output error.
InputForNode(res, n) ==
    LET inbound == Node[n].inbound
        sources == [i \in DOMAIN inbound |-> res.outputs[inbound[i].from]]
    IN  IF \E i \in DOMAIN sources : sources[i] = NoValue THEN NoValue
        ELSE IF Node[n].merge THEN MergeOf(sources)
        ELSE sources[1]

\* decisionCaseForValue: the declared case the value selects, "none" for the error
\* of a missing selector, an undeclared case or a value its case schema rejects.
DecisionCase(n, value) == IF value.case \in Node[n].cases THEN value.case ELSE "none"

\* routeDecision forwards the classifier's own artifact.
RouteDecision(res, n, case) ==
    [res EXCEPT !.selected[n] = case, !.outputs[n] = InputForNode(res, n)]

\* selectOutput aliases the chosen branch's output.
SelectSource(res, n) == Node[n].selectInputs[res.selected[Node[n].decisionRef]]
SelectOutput(res, n) == [res EXCEPT !.outputs[n] = res.outputs[SelectSource(res, n)]]

\* An inbound edge deactivates its target when its source is inactive, or when it
\* is the edge of a case its decision did not select.
EdgeSkips(res, e) ==
    \/ res.inactive[e.from]
    \/ e.case # "" /\ res.selected[e.from] # e.case

\* activationSkipReason: a select follows the decision it closes, never its
\* branches; every other node follows its inbound edges.
Skipped(res, n) ==
    IF Node[n].kind = "select" THEN res.inactive[Node[n].decisionRef]
    ELSE \E i \in DOMAIN Node[n].inbound : EdgeSkips(res, Node[n].inbound[i])

\* The errors of activationSkipReason: a decision no one has resolved yet, or a
\* select whose chosen branch is inactive.
Unresolvable(res, n) ==
    IF Node[n].kind = "select"
    THEN LET d == Node[n].decisionRef IN
         /\ ~res.inactive[d]
         /\ \/ res.selected[d] \notin DOMAIN Node[n].selectInputs
            \/ res.inactive[SelectSource(res, n)]
    ELSE \E i \in DOMAIN Node[n].inbound :
            LET e == Node[n].inbound[i] IN
            e.case # "" /\ ~res.inactive[e.from] /\ res.selected[e.from] = "none"

Deactivate(res, n) == [res EXCEPT !.inactive[n] = TRUE]

SetOutput(res, n, value) == [res EXCEPT !.outputs[n] = value]
==============================================================================
