---------------------------- MODULE WorkflowGraph ----------------------------
(***************************************************************************)
(* The graph of a workflow specification, the rules validateSemantics      *)
(* accepts it by, and the deterministic topological order every reader of  *)
(* a graph walks it in.                                                    *)
(*                                                                         *)
(* A graph is [node, edges, start, end]: node maps ids to records, edges   *)
(* is a set of [from, to, case] with case "" on an ordinary edge. Ids are  *)
(* numbers; Rank orders them the way canonical.LessUTF16 orders strings.   *)
(* A schema is the name of its shape; references from a node to schemas,   *)
(* symbols and contracts are taken to exist, and so is the uniqueness of   *)
(* ids and edges, which a function and a set have by construction. The     *)
(* start node's out and the end node's in are the workflow's own schemas.  *)
(***************************************************************************)
EXTENDS Integers, Sequences, FiniteSets, FiniteSetsExt, SequencesExt

CONSTANT Rank    \* Rank[id]: the place of id in the order of LessUTF16

None == -1       \* no decisionRef

Ids(g) == DOMAIN g.node

ASSUME RankAssumption == IsInjective(Rank)

GraphNode ==
    [kind |-> "step", in |-> "object", out |-> "object", itemIn |-> "object",
     itemOut |-> "object", cases |-> <<>>, merge |-> <<>>, decisionRef |-> None,
     selectInputs |-> <<>>, maxConcurrency |-> 1, collect |-> FALSE]

Inbound(g, n) == {e \in g.edges : e.to = n}
Outbound(g, n) == {e \in g.edges : e.from = n}
Sources(g, n) == {e.from : e \in Inbound(g, n)}
Targets(g, n) == {e.to : e \in Outbound(g, n)}
OfKind(g, kind) == {n \in Ids(g) : g.node[n].kind = kind}
Tags(g, d) == {g.node[d].cases[i].tag : i \in DOMAIN g.node[d].cases}

\* Nodes reachable from x on edges whose source is not in stop (graphReachable,
\* graphReachableBefore and the breadth-first searches of the validators).
ReachableBefore(g, x, stop) ==
    LET Reach[k \in 0..Cardinality(Ids(g))] ==
            IF k = 0 THEN {x}
            ELSE LET known == Reach[k - 1] IN
                 known \cup {e.to : e \in {f \in g.edges : f.from \in known \ stop}}
    IN  Reach[Cardinality(Ids(g))]

GraphReachable(g, x) == ReachableBefore(g, x, {})

FindCycle(g) == \E n \in Ids(g) : \E m \in Targets(g, n) : n \in GraphReachable(g, m)

-----------------------------------------------------------------------------
(* Topological order: among the nodes whose predecessors are all placed,   *)
(* the one that sorts first. A cycle leaves the order short.               *)

GraphTopologicalOrder(g) ==
    LET Order[k \in 0..Cardinality(Ids(g))] ==
            IF k = 0 THEN <<>>
            ELSE LET order == Order[k - 1]
                     placed == Range(order)
                     ready == {n \in Ids(g) \ placed : Sources(g, n) \subseteq placed}
                 IN  IF ready = {} THEN order
                     ELSE Append(order, CHOOSE n \in ready : \A m \in ready : Rank[n] <= Rank[m])
    IN  Order[Cardinality(Ids(g))]

InsertLast(queue, n) == Append(queue, n)

\* BuildSchedule keeps a queue sorted by insertion instead of sorting it: edges of a
\* popped node release their targets in rank order.
InsertSorted(queue, n) ==
    LET before == Cardinality({i \in DOMAIN queue : Rank[queue[i]] < Rank[n]})
    IN  InsertAt(queue, before + 1, n)

BuildSchedule(g) ==
    LET Released(placed) == {n \in Ids(g) \ placed : Sources(g, n) \subseteq placed}
        First == FoldSet(LAMBDA n, q : InsertSorted(q, n), <<>>, Released({}))
        Pop[k \in 0..Cardinality(Ids(g))] ==
            IF k = 0 THEN [order |-> <<>>, ready |-> First]
            ELSE LET s == Pop[k - 1] IN
                 IF s.ready = <<>> THEN s
                 ELSE LET order == Append(s.order, Head(s.ready))
                          freed == Released(Range(order)) \ Range(s.ready)
                      IN  [order |-> order,
                           ready |-> FoldSet(LAMBDA n, q : InsertSorted(q, n),
                                             Tail(s.ready), freed)]
    IN  Pop[Cardinality(Ids(g))].order

-----------------------------------------------------------------------------
(* Structure: validateSemantics up to reachability.                        *)

ValidSentinels(g) ==
    /\ OfKind(g, "start") = {g.start}
    /\ OfKind(g, "end") = {g.end}
    /\ \A e \in g.edges : {e.from, e.to} \subseteq Ids(g)
    /\ Inbound(g, g.start) = {}
    /\ Cardinality(Outbound(g, g.start)) = 1
    /\ Outbound(g, g.end) = {}
    /\ Cardinality(Inbound(g, g.end)) = 1

ValueProducers(g) == OfKind(g, "step") \cup OfKind(g, "select") \cup OfKind(g, "map")

\* A step reads one value, or names every one of its sources in mergeInputs.
ValidMerges(g) ==
    \A n \in OfKind(g, "step") :
        LET merge == g.node[n].merge IN
        IF merge = <<>> THEN Cardinality(Inbound(g, n)) <= 1
        ELSE /\ Range(merge) \subseteq ValueProducers(g)
             /\ Len(merge) = Cardinality(Inbound(g, n))
             /\ Cardinality(Range(merge)) = Len(merge)
             /\ Range(merge) = Sources(g, n)

ItemsSchema == [list |-> "object"]
ArraySchemaItemsMatch(array, item) ==
    array \in DOMAIN ItemsSchema /\ ItemsSchema[array] = item

\* The list of item values, or of item outcomes when the map collects failures.
ValidMapOutput(node) ==
    IF node.collect THEN node.out = "outcomes" ELSE ArraySchemaItemsMatch(node.out, node.itemOut)

ValidMaps(g) ==
    \A n \in OfKind(g, "map") :
        LET node == g.node[n] IN
        /\ node.maxConcurrency > 0
        /\ ArraySchemaItemsMatch(node.in, node.itemIn)
        /\ ValidMapOutput(node)
        /\ Cardinality(Inbound(g, n)) = 1
        /\ \A p \in Sources(g, n) : /\ p = g.start \/ p \in ValueProducers(g)
                                    /\ g.node[p].out = node.in
        /\ \A t \in Targets(g, n) :
              \/ g.node[t].kind = "select"
              \/ g.node[t].merge # <<>>
              \/ g.node[t].kind \in {"step", "decision", "map", "end"} /\ g.node[t].in = node.out

-----------------------------------------------------------------------------
(* Decisions and selects.                                                  *)

SchemaAdmitsObject(schema) == schema = "object"

ValidDecisions(g) ==
    \A d \in OfKind(g, "decision") :
        LET node == g.node[d] IN
        /\ SchemaAdmitsObject(node.in)
        /\ node.cases # <<>>
        /\ Cardinality(Tags(g, d)) = Len(node.cases)
        /\ \A i \in DOMAIN node.cases : SchemaAdmitsObject(node.cases[i].schema)
        /\ Cardinality(Inbound(g, d)) = 1
        /\ \A e \in Inbound(g, d) :
              /\ e.from \in ValueProducers(g) /\ e.case = ""
              /\ g.node[e.from].out = node.in
        /\ \A tag \in Tags(g, d) :
              Cardinality({e \in Outbound(g, d) : e.case = tag}) = 1

CaseSchema(g, d, tag) ==
    g.node[d].cases[CHOOSE i \in DOMAIN g.node[d].cases : g.node[d].cases[i].tag = tag].schema

ValidConditionalEdges(g) ==
    \A e \in g.edges :
        IF e.case = "" THEN g.node[e.from].kind # "decision"
        ELSE /\ g.node[e.from].kind = "decision"
             /\ e.case \in Tags(g, e.from)
             /\ g.node[e.to].kind = "step"
             /\ g.node[e.to].in = CaseSchema(g, e.from, e.case)
             /\ {f \in Inbound(g, e.to) : f.case # ""} = {e}

BranchTarget(g, d, tag) == (CHOOSE e \in Outbound(g, d) : e.case = tag).to

ValidSelects(g) ==
    \A n \in OfKind(g, "select") :
        LET node == g.node[n]
            inputs == Range(node.selectInputs)
            sources == {i.source : i \in inputs}
        IN  /\ node.decisionRef \in OfKind(g, "decision")
            /\ Cardinality({i.case : i \in inputs}) = Len(node.selectInputs)
            /\ Cardinality(sources) = Len(node.selectInputs)
            /\ {i.case : i \in inputs} = Tags(g, node.decisionRef)
            /\ sources = Sources(g, n)
            /\ \A e \in Inbound(g, n) : e.case = ""
            /\ \A i \in inputs :
                  /\ i.source \in ValueProducers(g)
                  /\ g.node[i.source].out = node.out
                  /\ i.source \in GraphReachable(g, BranchTarget(g, node.decisionRef, i.case))

\* A decision's cases meet only at its one select.
ExclusiveDecisionBranches(g) ==
    \A d \in OfKind(g, "decision") :
        LET selects == {n \in OfKind(g, "select") : g.node[n].decisionRef = d} IN
        /\ Cardinality(selects) = 1
        /\ \A t1, t2 \in Tags(g, d) :
              t1 # t2 =>
                (ReachableBefore(g, BranchTarget(g, d, t1), selects) \cap
                 ReachableBefore(g, BranchTarget(g, d, t2), selects)) \subseteq selects

\* The decision cases a node needs to be active, as pairs <<decision, tag>>: those of
\* its sources and of its own conditional edge. A select has those of the decision it
\* closes. Two cases of one decision never meet in a graph of exclusive branches.
Lineages(g) ==
    LET order == GraphTopologicalOrder(g)
        Lineage[k \in 0..Len(order)] ==
            IF k = 0 THEN [n \in {} |-> {}]
            ELSE LET n == order[k]
                     known == Lineage[k - 1]
                     own == IF g.node[n].kind = "select" THEN known[g.node[n].decisionRef]
                            ELSE UNION {known[e.from] \cup
                                        (IF e.case = "" THEN {} ELSE {<<e.from, e.case>>}) :
                                            e \in Inbound(g, n)}
                 IN  [m \in DOMAIN known \cup {n} |-> IF m = n THEN own ELSE known[m]]
    IN  Lineage[Len(order)]

LineageUnchecked(g) == TRUE

\* Every select source needs exactly the case it stands for, besides the cases that
\* enclose the decision.
DecisionActivationLineage(g) ==
    LET lineage == Lineages(g) IN
    \A n \in OfKind(g, "select") :
        \A i \in Range(g.node[n].selectInputs) :
            lineage[i.source] =
                lineage[g.node[n].decisionRef] \cup {<<g.node[n].decisionRef, i.case>>}

\* ValidateControlFlow, which compiled plans pass through again.
ValidateControlFlow(g) ==
    /\ ValidDecisions(g)
    /\ ValidConditionalEdges(g)
    /\ ValidSelects(g)
    /\ ExclusiveDecisionBranches(g)
    /\ DecisionActivationLineage(g)

ValidateSemantics(g) ==
    /\ ValidSentinels(g)
    /\ ~FindCycle(g)
    /\ GraphReachable(g, g.start) = Ids(g)
    /\ ValidMerges(g)
    /\ ValidMaps(g)
    /\ ValidateControlFlow(g)
==============================================================================
