--------------------------- MODULE MCAutomatonQueries ---------------------------
(* Small automata for AutomatonQueries: shared states, several accepting    *)
(* states, equal scores, repeated children, states without derivations,     *)
(* loops, and in MCCyclic longer cycles, productive or not.                 *)
EXTENDS AutomatonQueries

MCInfinity == 40

Rule(symbol, children, result, cost) ==
    [symbol |-> symbol, children |-> children, result |-> result, cost |-> cost]

MCNodes == {"x", "y", "z", "s"}

ProblemsOver(base, optional, goals) ==
    {[rules |-> base \cup more, goals |-> g, inside |-> BestInside(base \cup more)] :
        more \in SUBSET optional, g \in goals}

Acyclic ==
    ProblemsOver({Rule("f", <<"z", "y">>, "s", 1), Rule("a", <<>>, "y", 2)},
                 {Rule("a", <<>>, "x", 1), Rule("g", <<"x">>, "y", 1),
                  Rule("f", <<"x", "x">>, "z", 0), Rule("g", <<"y">>, "z", 1),
                  Rule("b", <<>>, "x", 3), Rule("t", <<"x", "y", "x">>, "s", 4)},
                 {{"s"}, {"z", "s"}})

Loop ==
    ProblemsOver({Rule("f", <<"z", "y">>, "s", 1), Rule("h", <<"z">>, "z", 0),
                  Rule("g", <<"y">>, "z", 1), Rule("a", <<>>, "y", 2)},
                 {Rule("a", <<>>, "x", 1), Rule("g", <<"x">>, "y", 1), Rule("f", <<"x", "x">>, "z", 0)},
                 {{"s"}, {"z", "s"}})

Cyclic ==
    ProblemsOver({Rule("f", <<"x", "y">>, "s", 1), Rule("a", <<>>, "x", 5)},
                 {Rule("g", <<"y">>, "x", 1), Rule("h", <<"x">>, "y", 1), Rule("a", <<>>, "y", 1),
                  Rule("g", <<"z">>, "x", 0), Rule("h", <<"s">>, "z", 0), Rule("b", <<>>, "z", 2)},
                 {{"s"}, {"y", "s"}})

AllProblems == Acyclic \cup Loop \cup Cyclic

OneGoal == {p \in AllProblems : p.goals = {"s"}}

(* Words at the leaves, concatenation in either order, a word after a child, *)
(* and h, which yields what its child yields.                               *)
MCWord(w)  == <<"word", w>>
MCChild(k) == <<"child", k>>

Images ==
    [a |-> <<MCWord("a")>>, b |-> <<MCWord("b")>>, f |-> <<MCChild(2), MCChild(1)>>,
     g |-> <<MCChild(1), MCWord("a")>>, h |-> <<MCChild(1)>>,
     t |-> <<MCChild(2), MCChild(1), MCChild(3)>>]

Spoken == {<<"a", "a">>, <<"a", "b", "a">>, <<"b", "a", "a">>, <<"a", "a", "a">>}

(* Definitions that only name another are evaluated once. *)
MCProblems       == AllProblems
MCCyclic         == Cyclic
MCStringProblems == OneGoal
MCYields         == Images
MCSentences      == Spoken
=============================================================================
