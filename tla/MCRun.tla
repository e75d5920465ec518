-------------------------------- MODULE MCRun --------------------------------
(***************************************************************************)
(* Plans and values for model-checking RunOrchestrator.                    *)
(***************************************************************************)
EXTENDS RunOrchestrator, SequencesExt

Edge(from, case) == [from |-> from, case |-> case]
Value(case, items) == [case |-> case, items |-> items]

Plain ==
    [kind |-> "step", inbound |-> <<>>, merge |-> FALSE, cases |-> {}, decisionRef |-> "none",
     selectInputs |-> <<>>, maxAttempts |-> 1, collect |-> FALSE, values |-> {Value("undeclared", -1)}]

StepFrom(n) == [Plain EXCEPT !.inbound = <<Edge(n, "")>>]
StepOn(d, case) == [Plain EXCEPT !.inbound = <<Edge(d, case)>>]

Decision(n, cases) == [StepFrom(n) EXCEPT !.kind = "decision", !.cases = cases]

\* input[c] is the branch that case c ends with.
Select(d, cases, input) ==
    [Plain EXCEPT !.kind = "select", !.decisionRef = d, !.selectInputs = input,
                  !.inbound = SetToSeq({Edge(input[c], "") : c \in cases})]

-----------------------------------------------------------------------------
\* classify -> route -[a]-> left, -[b]-> right (a map), -[c]-> each (a map that
\* collects failures), joined by a select, then a last step. The classifier's value
\* decides the branch and the map's length.

BranchOrder == <<"classify", "route", "left", "right", "each", "join", "last">>
Cases == {"a", "b", "c"}
Branch == [c \in Cases |-> CASE c = "a" -> "left" [] c = "b" -> "right" [] c = "c" -> "each"]

BranchNode ==
    [n \in {BranchOrder[i] : i \in DOMAIN BranchOrder} |->
        CASE n = "classify" -> [StepFrom("start") EXCEPT
                    !.values = {Value("a", -1), Value("b", 3), Value("b", 0), Value("b", -1),
                                Value("c", 2), Value("undeclared", 1)}]
          [] n = "route" -> Decision("classify", Cases)
          [] n = "left" -> [StepOn("route", "a") EXCEPT !.maxAttempts = 2]
          [] n = "right" -> [StepOn("route", "b") EXCEPT !.kind = "map", !.maxAttempts = 2]
          [] n = "each" -> [StepOn("route", "c") EXCEPT !.kind = "map", !.maxAttempts = 2,
                                                        !.collect = TRUE]
          [] n = "join" -> Select("route", Cases, Branch)
          [] n = "last" -> StepFrom("join")]

StartOfRun == Value("undeclared", -1)
==============================================================================
