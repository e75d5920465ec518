------------------------------ MODULE MCGraphs -------------------------------
(***************************************************************************)
(* Every graph of up to MaxNodes nodes that an author can write, one node  *)
(* after the other, with the local rules of each kind of node kept and all *)
(* rules about regions left to the validator; and the graphs of GraphGen.  *)
(***************************************************************************)
EXTENDS GraphGen

CONSTANTS MaxNodes, MaxSteps, MaxMerges, MaxMaps, MaxDecisions, MaxGenerated

End == MaxNodes + 1
\* An order of the ids in which neighbours are far apart.
MCRank == [i \in 0..(MaxGenerated + 1) |-> (5 * i) % (MaxGenerated + 2)]

Empty(input) ==
    [node |-> [i \in {0} |-> [GraphNode EXCEPT !.kind = "start", !.out = input]],
     edges |-> {}, start |-> 0, end |-> End]

NextId == Cardinality(DOMAIN graph.node)
Readable == {n \in Ids(graph) : graph.node[n].kind \in {"step", "select", "map"}}

\* The first node reads the workflow input, every later one other nodes.
Feeds == IF NextId = 1 THEN {0} ELSE Readable

Edge(from, to, case) == [from |-> from, to |-> to, case |-> case]

\* The ids the author has left, once every decision has its select.
IsClosed(d) == \E n \in OfKind(graph, "select") : graph.node[n].decisionRef = d
Owed == Cardinality({d \in OfKind(graph, "decision") : ~IsClosed(d)})
Spare(more) == NextId + Owed + more <= MaxNodes + 1

Extend(nodes, edges) ==
    /\ stage = "author"
    /\ graph' = [graph EXCEPT !.node = [i \in DOMAIN @ \cup (NextId..(NextId + Len(nodes) - 1)) |->
                                           IF i < NextId THEN @[i] ELSE nodes[i - NextId + 1]],
                              !.edges = @ \cup edges]
    /\ UNCHANGED <<stage, choice, runVars, records>>

\* Steps that are neither the head of a branch nor a merge.
PlainSteps ==
    {n \in OfKind(graph, "step") : /\ graph.node[n].merge = <<>>
                                   /\ \A e \in Inbound(graph, n) : e.case = ""}

AddStep ==
    \E p \in Feeds, out \in {"object", "list"} :
        /\ Cardinality(PlainSteps) < MaxSteps /\ Spare(1)
        /\ Extend(<<[GraphNode EXCEPT !.in = graph.node[p].out, !.out = out]>>,
                  {Edge(p, NextId, "")})

AddMerge ==
    \E p, q \in Readable :
        /\ p # q /\ Spare(1)
        /\ Cardinality({n \in Ids(graph) : graph.node[n].merge # <<>>}) < MaxMerges
        /\ Extend(<<[GraphNode EXCEPT !.merge = <<p, q>>]>>,
                  {Edge(p, NextId, ""), Edge(q, NextId, "")})

AddMap ==
    \E p \in Feeds, collect \in BOOLEAN :
        /\ graph.node[p].out = "list" /\ Spare(1)
        /\ Cardinality(OfKind(graph, "map")) < MaxMaps
        /\ Extend(<<[GraphNode EXCEPT !.kind = "map", !.in = "list", !.collect = collect,
                                      !.out = IF collect THEN "outcomes" ELSE "list"]>>,
                  {Edge(p, NextId, "")})

\* A decision comes with the steps its cases lead to.
AddDecision ==
    \E p \in Readable, tags \in {<<"a">>, <<"b", "a">>} :
        /\ graph.node[p].out = "object" /\ Spare(2 + Len(tags))
        /\ Cardinality(OfKind(graph, "decision")) < MaxDecisions
        /\ Extend(<<[GraphNode EXCEPT !.kind = "decision",
                       !.cases = [i \in DOMAIN tags |-> [tag |-> tags[i], schema |-> "object"]]]>>
                     \o [i \in DOMAIN tags |-> GraphNode],
                  {Edge(p, NextId, "")} \cup
                  {Edge(NextId, NextId + i, tags[i]) : i \in DOMAIN tags})

AddSelect ==
    \E d \in OfKind(graph, "decision") :
        /\ ~IsClosed(d)
        /\ \E src \in [Tags(graph, d) -> {n \in Readable : graph.node[n].out = "object"}] :
            /\ IsInjective(src)
            /\ Extend(<<[GraphNode EXCEPT !.kind = "select", !.decisionRef = d,
                           !.selectInputs = SetToSeq({[case |-> t, source |-> src[t]] :
                                                         t \in Tags(graph, d)})]>>,
                      {Edge(src[t], NextId, "") : t \in Tags(graph, d)})

\* The author closes the graph with the node whose value is the result.
Submitted(p) ==
    [graph EXCEPT !.node = [i \in DOMAIN @ \cup {End} |->
                               IF i = End THEN [GraphNode EXCEPT !.kind = "end",
                                                   !.in = graph.node[p].out]
                               ELSE @[i]],
                  !.edges = @ \cup {Edge(p, End, "")}]

\* Both the compiler and the Argo target look at a graph.
Judge(g) ==
    IF ValidateSemantics(g) /\ ValidateStaticGraph(g) THEN StartRun(g)
    ELSE stage' = "rejected" /\ UNCHANGED <<graph, choice, runVars>>

\* Every value is used.
Submit ==
    \E p \in Readable :
        /\ stage = "author" /\ Owed = 0
        /\ \A n \in Ids(graph) : Outbound(graph, n) = {} <=> n = p
        /\ Judge(Submitted(p))
        /\ UNCHANGED records

\* Templates whose graph has at most MaxGenerated nodes between start and end.
Generate ==
    \E template \in {p[1] : p \in ParseTemplate(Budget)} :
        LET workflow == EmitWorkflow(template) IN
        /\ stage = "author" /\ graph = Empty("object")
        /\ Cardinality(Ids(workflow.graph)) <= MaxGenerated + 2
        /\ Judge(workflow.graph)
        /\ records' = workflow.records

MCTagPool == <<"b", "a">>

MCInit ==
    /\ stage = "author"
    /\ \E input \in {"object", "list"} : graph = Empty(input)
    /\ choice = <<>> /\ local = <<>> /\ phase = <<>> /\ output = <<>> /\ selection = <<>>
    /\ podFailures = 0
    /\ records = <<>>

\* The author may stop; a run may not.
Done == stage # "run" /\ UNCHANGED <<graphVars, records>>

MCNext ==
    \/ AddStep \/ AddMerge \/ AddMap \/ AddDecision \/ AddSelect \/ Submit
    \/ Generate
    \/ RunNext /\ UNCHANGED records
    \/ Done

MCSpec == MCInit /\ [][MCNext]_<<graphVars, records>>
==============================================================================
