---------------------------- MODULE MCAstarSearch ----------------------------
(***************************************************************************)
(* Problems for AstarSearch: a grammar times a right automaton, and every  *)
(* heuristic that is exact on some product states and blind on the others. *)
(* These are the extremes of admissibility; most are not consistent.       *)
(***************************************************************************)
EXTENDS AstarSearch

MCInfinity == 9

Rule(symbol, children, result, cost) ==
    [symbol |-> symbol, children |-> children, result |-> result, cost |-> cost]

MCNodes == {"x", "y", "z", "s"}

(* y improves x, x is a child of z twice, z leads back to x, and a goal is  *)
(* reached from x, z or directly.                                           *)
MCRuleSets ==
    {{Rule("a", <<>>, "x", 3), Rule("a", <<>>, "y", 0), Rule("g", <<"y">>, "x", 1)}
     \cup optional : optional \in
        {o \in SUBSET {Rule("f", <<"x", "x">>, "z", 0), Rule("g", <<"x">>, "z", 0),
                       Rule("h", <<"z">>, "x", 0), Rule("f", <<"z", "y">>, "s", 1),
                       Rule("h", <<"x">>, "s", 4), Rule("b", <<>>, "s", 6)} :
            Cardinality(o) \in 2..4}}

(* The problem over these rules with the heuristic that is exact on the     *)
(* given product states and gives nothing away on the others; the hopeless  *)
(* ones among the former are filtered, or come last.                        *)
Problem(rules, goals, exact, filters) ==
    LET inner == BestInside(rules)
        outer == BestOutside(rules, goals, inner)
    IN  [rules |-> rules, goals |-> goals, inside |-> inner, outside |-> outer,
         estimate |-> [q \in Nodes |-> IF q \in exact THEN outer[q] ELSE 0],
         filtered |-> {q \in exact : filters /\ outer[q] = Infinity}]

MCProblems ==
    {Problem(rules, {"s"}, exact, filters) :
        rules \in MCRuleSets, exact \in SUBSET Nodes, filters \in BOOLEAN}

MCOptions ==
    {[chart |-> FALSE, stop_at_first_goal |-> TRUE, beam |-> Infinity],
     [chart |-> TRUE, stop_at_first_goal |-> FALSE, beam |-> Infinity],
     [chart |-> TRUE, stop_at_first_goal |-> FALSE, beam |-> 5],
     [chart |-> TRUE, stop_at_first_goal |-> TRUE, beam |-> Infinity]}
=============================================================================
