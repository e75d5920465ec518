------------------------------ MODULE GraphGen -------------------------------
(***************************************************************************)
(* The generator behind the repository's own fuzzers: region trees, their  *)
(* lowering to a graph with the generator's records of it, and the         *)
(* interpreter that predicts from those records what an execution must do, *)
(* sharing no order, activation or routing with the executors (GraphRun).  *)
(*                                                                         *)
(* The fuzzer's bytes are the nondeterministic choices. A template is its  *)
(* region; symbols, contracts, id styles and the values' bytes are left    *)
(* out; ids are numbers in the order of emission. Attempts are GraphRun's: *)
(* a step or map fails or not.                                             *)
(***************************************************************************)
EXTENDS GraphRun, TLC

CONSTANTS
    Budget,       \* templateBudget: composite regions per template
    StepTypes,    \* the types of the values its steps return
    MaxBranches,  \* branches of a fan, cases of a decision
    TagPool       \* the decision tags

VARIABLE records  \* records[id]: the generator's record; <<>> of a hand-written graph

-----------------------------------------------------------------------------
(* Region trees. Parsing consumes the template's budget from left to right: *)
(* an operator returns the pairs <<region, budget left>> it may end with.   *)

StepRegion(out) == [kind |-> "step", out |-> out]
Chain(parts) == [kind |-> "chain", parts |-> parts]

RECURSIVE OutType(_)
OutType(r) ==
    CASE r.kind = "step" -> r.out
      [] r.kind = "chain" -> OutType(Last(r.parts))
      [] r.kind = "fan" -> r.out
      [] r.kind = "decision" -> r.out
      [] r.kind = "map" -> "list"
      [] r.kind = "call" -> OutType(r.child)

RECURSIVE ParseRegion(_)

\* Parse n regions one after the other.
ParseAll(n, budget) ==
    LET Parse[k \in 0..n] ==
            IF k = 0 THEN {<< <<>>, budget >>}
            ELSE UNION {{<<Append(before[1], next[1]), next[2]>> : next \in ParseRegion(before[2])} :
                            before \in Parse[k - 1]}
    IN  Parse[n]

\* A graph, and a branch, has one entry step.
ParseTemplate(budget) ==
    {<<Chain(<<StepRegion(out)>>), budget>> : out \in StepTypes} \cup
    {<<Chain(<<StepRegion(out), p[1]>>), p[2]>> : out \in StepTypes, p \in ParseRegion(budget)}

\* Of the permutations: as drawn, and reversed.
Orders(n) == {[i \in 1..n |-> i], [i \in 1..n |-> n + 1 - i]}

ParseFan(budget) ==
    UNION {{<<[kind |-> "fan", branches |-> p[1], includeSource |-> include, order |-> order,
               out |-> "object"], p[2]>> :
                p \in ParseAll(n, budget), include \in BOOLEAN, order \in Orders(n + 1)} :
            n \in 1..MaxBranches}

NoAdapter(branch, out) == branch

\* A branch that ends with another type than the first one's gets an adapter.
Adapted(branch, out) ==
    IF OutType(branch) = out THEN branch ELSE Chain(Append(branch.parts, StepRegion(out)))

ParseBranches(n, budget) ==
    LET Parse[k \in 0..n] ==
            IF k = 0 THEN {<< <<>>, budget >>}
            ELSE UNION {{<<Append(before[1], next[1]), next[2]>> : next \in ParseTemplate(before[2])} :
                            before \in Parse[k - 1]}
    IN  {<<[i \in 1..n |-> Adapted(p[1][i], OutType(p[1][1]))], p[2]>> : p \in Parse[n]}

ParseDecision(budget) ==
    UNION {{<<[kind |-> "decision", tags |-> SubSeq(TagPool, 1, n), branches |-> p[1],
               order |-> order, out |-> OutType(p[1][1])], p[2]>> :
                p \in ParseBranches(n, budget), order \in Orders(n)} :
            n \in 1..MaxBranches}

\* A child has a budget of its own; here it is what the caller has left.
ParseCall(budget) ==
    {<<[kind |-> "call", child |-> p[1], times |-> times], p[2]>> :
        p \in ParseTemplate(budget), times \in 1..2}

ParseRegion(budget) ==
    {<<StepRegion(out), budget>> : out \in StepTypes} \cup
    IF budget = 0 THEN {}
    ELSE {<<Chain(p[1]), p[2]>> : p \in ParseAll(2, budget - 1)}
         \cup ParseFan(budget - 1) \cup ParseDecision(budget - 1) \cup ParseCall(budget - 1)
         \cup {<<[kind |-> "map", collect |-> collect], budget - 1>> : collect \in BOOLEAN}

-----------------------------------------------------------------------------
(* Emission. The builder b is [node, edges, records]; a scope is the cases *)
(* that enclose a region, outermost first; case marks a conditional edge   *)
(* to the first node the region emits. A region returns its builder and    *)
(* the id and type of its value.                                           *)

Record ==
    [kind |-> "step", sources |-> <<>>, merge |-> FALSE, context |-> <<>>,
     decisionRef |-> None, selectSources |-> <<>>]

Emitted(b, id, type) == [b |-> b, id |-> id, type |-> type]

AddNode(b, node, record, edges) ==
    LET id == Cardinality(DOMAIN b.node) IN
    [node |-> b.node @@ (id :> node), edges |-> b.edges \cup edges, records |-> b.records @@ (id :> record)]

Edges(from, to, case) == {[from |-> f, to |-> to, case |-> case] : f \in from}

EmitStep(b, inputs, in, out, case, context, merge) ==
    LET id == Cardinality(DOMAIN b.node) IN
    Emitted(AddNode(b, [GraphNode EXCEPT !.in = in, !.out = out, !.merge = IF merge THEN inputs ELSE <<>>],
                       [Record EXCEPT !.sources = inputs, !.merge = merge, !.context = context],
                       Edges(Range(inputs), id, case)),
            id, out)

ScopeUnchanged(context, d, tag) == context

BranchScope(context, d, tag) == Append(context, [decision |-> d, case |-> tag])

RECURSIVE EmitRegion(_, _, _, _)

\* Regions of a chain, or of repeated calls: each reads the value before it.
EmitChain(parts, source, case, context) ==
    FoldLeft(LAMBDA at, i : EmitRegion(parts[i], at, IF i = 1 THEN case ELSE "", context),
             source, [i \in 1..Len(parts) |-> i])

EmitFan(r, source, case, context) ==
    LET Branch(acc, branch) ==
            LET exit == EmitRegion(branch, Emitted(acc.b, source.id, source.type), case, context)
            IN  [b |-> exit.b, exits |-> Append(acc.exits, exit.id)]
        after == FoldLeft(Branch, [b |-> source.b, exits |-> <<>>], r.branches)
        candidates == after.exits \o IF r.includeSource /\ source.id # 0 THEN <<source.id>> ELSE <<>>
        chosen == SelectSeq(r.order, LAMBDA i : i <= Len(candidates))
    IN  EmitStep(after.b, [i \in DOMAIN chosen |-> candidates[chosen[i]]], "object", r.out, "", context, TRUE)

EmitDecision(r, source, case, context) ==
    LET classifier == EmitStep(source.b, <<source.id>>, source.type, "object", case, context, FALSE)
        d == classifier.id + 1
        cases == [i \in DOMAIN r.tags |-> [tag |-> r.tags[i], schema |-> "object"]]
        decided == AddNode(classifier.b, [GraphNode EXCEPT !.kind = "decision", !.cases = cases],
                           [Record EXCEPT !.kind = "decision", !.sources = <<classifier.id>>, !.context = context],
                           Edges({classifier.id}, d, ""))
        Branch(acc, i) ==
            LET exit == EmitRegion(r.branches[i], Emitted(acc.b, d, "object"), r.tags[i],
                                   BranchScope(context, d, r.tags[i]))
            IN  [b |-> exit.b, exits |-> Append(acc.exits, exit.id)]
        after == FoldLeft(Branch, [b |-> decided, exits |-> <<>>], [i \in DOMAIN r.tags |-> i])
        id == Cardinality(DOMAIN after.b.node)
        inputs == [i \in DOMAIN r.order |-> [case |-> r.tags[r.order[i]], source |-> after.exits[r.order[i]]]]
        exitOf == [t \in Range(r.tags) |-> after.exits[CHOOSE i \in DOMAIN r.tags : r.tags[i] = t]]
    IN  Emitted(AddNode(after.b, [GraphNode EXCEPT !.kind = "select", !.decisionRef = d, !.out = r.out,
                                                   !.selectInputs = inputs],
                        [Record EXCEPT !.kind = "select", !.context = context, !.decisionRef = d,
                                       !.selectSources = exitOf],
                        Edges(Range(after.exits), id, "")),
                id, r.out)

\* A value that is no list, or comes through a conditional edge, is expanded first; a
\* step reads the outcomes of a collecting map.
EmitMap(r, source, case, context) ==
    LET input == IF source.type # "list" \/ case # ""
                 THEN EmitStep(source.b, <<source.id>>, source.type, "list", case, context, FALSE)
                 ELSE source
        id == Cardinality(DOMAIN input.b.node)
        out == IF r.collect THEN "outcomes" ELSE "list"
        mapped == AddNode(input.b, [GraphNode EXCEPT !.kind = "map", !.in = "list", !.out = out,
                                                     !.collect = r.collect],
                          [Record EXCEPT !.kind = "map", !.sources = <<input.id>>, !.context = context],
                          Edges({input.id}, id, ""))
    IN  IF r.collect THEN EmitStep(mapped, <<id>>, "outcomes", "list", "", context, FALSE)
        ELSE Emitted(mapped, id, "list")

EmitRegion(r, source, case, context) ==
    CASE r.kind = "step" -> EmitStep(source.b, <<source.id>>, source.type, r.out, case, context, FALSE)
      [] r.kind = "chain" -> EmitChain(r.parts, source, case, context)
      [] r.kind = "fan" -> EmitFan(r, source, case, context)
      [] r.kind = "decision" -> EmitDecision(r, source, case, context)
      [] r.kind = "map" -> EmitMap(r, source, case, context)
      [] r.kind = "call" -> EmitChain([i \in 1..r.times |-> r.child], source, case, context)

\* The end node's id sorts after no other in particular.
EmitWorkflow(main) ==
    LET start == [node |-> (0 :> [GraphNode EXCEPT !.kind = "start"]), edges |-> {},
                  records |-> (0 :> [Record EXCEPT !.kind = "start"])]
        exit == EmitRegion(main, Emitted(start, 0, "object"), "", <<>>)
        end == Cardinality(DOMAIN exit.b.node)
        all == AddNode(exit.b, [GraphNode EXCEPT !.kind = "end", !.in = exit.type],
                       [Record EXCEPT !.kind = "end", !.sources = <<exit.id>>], Edges({exit.id}, end, ""))
    IN  [graph |-> [node |-> all.node, edges |-> all.edges, start |-> 0, end |-> end],
         records |-> all.records]

-----------------------------------------------------------------------------
(* The interpreter. failed is the set of steps and maps whose last attempt *)
(* fails whenever they run.                                                *)

Outcome(status, value) == [status |-> status, value |-> value]
Blocked == Outcome("blocked", NoOutput)

\* The first enclosing case that was not selected, in order; 0 if all were.
FirstUnselected(context, known) ==
    LET open == {i \in DOMAIN context :
                    \/ known[context[i].decision].status # "succeeded"
                    \/ known[context[i].decision].value.case # context[i].case}
    IN  IF open = {} THEN 0 ELSE Min(open)

Compute(id, known, failed) ==
    LET record == records[id]
        first == FirstUnselected(record.context, known)
        inputs == [i \in DOMAIN record.sources |-> known[record.sources[i]]]
        input == IF record.merge
                 THEN [case |-> "undeclared", items |-> Len(inputs),
                       parts |-> [i \in DOMAIN inputs |-> inputs[i].value]]
                 ELSE inputs[1].value
    IN  IF record.kind = "start" THEN Outcome("succeeded", WorkflowInput(graph))
        ELSE IF first # 0
        THEN LET status == known[record.context[first].decision].status IN
             CASE status = "blocked" -> Blocked
               [] status = "skipped" -> Outcome("error", NoOutput)
               [] OTHER -> Outcome("skipped", NoOutput)
        ELSE IF record.kind = "select"
        THEN LET decision == known[record.decisionRef] IN
             IF decision.status # "succeeded" THEN Blocked
             ELSE LET source == known[record.selectSources[decision.value.case]] IN
                  IF source.status # "succeeded" THEN Blocked ELSE source
        ELSE IF \E i \in DOMAIN inputs : inputs[i].status \in {"failed", "blocked"} THEN Blocked
        ELSE IF \E i \in DOMAIN inputs : inputs[i].status # "succeeded" THEN Outcome("error", NoOutput)
        ELSE IF record.kind \in {"decision", "end"} THEN Outcome("succeeded", input)
        ELSE IF id \in failed THEN Outcome("failed", NoOutput)
        ELSE Outcome("succeeded", Computed(graph, choice, id, input))

\* Nodes in the order of emission, which is the order of the ids.
Predict(failed) ==
    LET Predicted[k \in 0..Cardinality(DOMAIN records)] ==
            IF k = 0 THEN <<>>
            ELSE LET known == Predicted[k - 1] IN known @@ ((k - 1) :> Compute(k - 1, known, failed))
    IN  Predicted[Cardinality(DOMAIN records)]

-----------------------------------------------------------------------------
(* Properties.                                                             *)

IsGenerated == records # <<>>

\* "Package graphgen derives valid Graph IR workflows from fuzz input": whatever regions
\* the bytes describe, the compiler and the Argo target accept the graph, so the two
\* region disciplines, the generator's nesting and the validator's lineage, agree.
GeneratedGraphsAccepted == IsGenerated => stage # "rejected"

\* What the interpreter predicts is what both executors do: the local one skips and
\* computes the same nodes from the same data flow, and on Argo, given the steps and maps
\* that failed, a task succeeds only where the interpreter says so and is left out only
\* where it says skipped or blocked, in whatever order the controller looks at the tasks.
PredictionAgrees ==
    IsGenerated /\ stage \in {"run", "over"} =>
        LET expected == Predict({})
            failed == {t \in ExecutableNodes(graph) : phase[t] = "Failed"}
            remote == IF failed = {} THEN expected ELSE Predict(failed)
            scripted == \A n \in failed : graph.node[n].kind \in {"step", "map"}
        IN  \A n \in ExecutableNodes(graph) :
                /\ local.res.inactive[n] <=> expected[n].status = "skipped"
                /\ ~local.res.inactive[n] => expected[n] = Outcome("succeeded", local.res.outputs[n])
                /\ scripted =>
                    /\ phase[n] = "Succeeded" => remote[n] = Outcome("succeeded", output[n])
                    /\ phase[n] = "Failed" => remote[n].status = "failed"
                    /\ phase[n] \in {"Skipped", "Omitted"} => remote[n].status \in {"skipped", "blocked"}
==============================================================================
