------------------------------- MODULE Languages -------------------------------
(***************************************************************************)
(* The automata that the queries of AutomatonQueries are asked of, and     *)
(* their derivations, for reference: which states have any, which rules    *)
(* occur in the accepted ones, and how many there are.  Rules are the      *)
(* weighted rules of Scores.                                               *)
(***************************************************************************)
EXTENDS Scores, SequencesExt

CONSTANT Problems     \* automata: rules, goals (accepting states), and, for
                      \* reference, inside

VARIABLE problem      \* the automaton that is asked, never written

ASSUME ProblemsAreWeighted ==
    \A p \in Problems :
        /\ IsFiniteSet(p.rules)
        /\ \A r \in p.rules : IsWeighted(r)
        /\ p.goals \subseteq Nodes
        /\ p.inside \in [Nodes -> Costs]
        /\ IsInside(p.rules, p.inside)

(* The states with a derivation. *)
Productive(rules) ==
    {q \in Nodes : \A S \in SUBSET Nodes :
        (\A r \in rules : Range(r.children) \subseteq S => r.result \in S) => q \in S}

(* The rules that apply in some derivation. *)
Applicable(rules) ==
    LET productive == Productive(rules)
    IN  {r \in rules : Range(r.children) \subseteq productive}

(* The states that occur in derivations of the given states. *)
Below(rules, roots) ==
    LET applicable == Applicable(rules)
        derived == roots \cap {r.result : r \in applicable}
    IN  {q \in Nodes : \A S \in SUBSET Nodes :
            /\ derived \subseteq S
            /\ \A r \in applicable : r.result \in S => Range(r.children) \subseteq S
            => q \in S}

(* The rules that occur in accepted derivations. *)
Useful(rules, goals) ==
    LET below == Below(rules, goals)
    IN  {r \in Applicable(rules) : r.result \in below}

(* Some of these rules lead from a state back to it. *)
HasCycle(rules) ==
    \E S \in (SUBSET Nodes) \ {{}} : \A q \in S :
        \E r \in rules : r.result = q /\ Range(r.children) \cap S # {}

(* The number of derivations of each state, none higher than the automaton  *)
(* has states: all of them, if there are no cycles.                         *)
DerivationsOf(rules) ==
    LET rooted(r, number) == FoldLeft(LAMBDA n, child : n * number[child], 1, r.children)
        more(number) ==
            [q \in Nodes |-> SumFunction([r \in {s \in rules : s.result = q} |-> rooted(r, number)])]
        round[n \in 0..Cardinality(Nodes)] ==
            IF n = 0 THEN Pairs([q \in Nodes |-> 0]) ELSE Pairs(more(ScoreOf(round[n - 1])))
    IN  ScoreOf(round[Cardinality(Nodes)])

(* The number of accepted derivations. *)
AcceptedDerivations(rules, goals) ==
    LET number == DerivationsOf(rules)
    IN  SumFunction([q \in goals |-> number[q]])
-----------------------------------------------------------------------------
(* The same for each automaton of the run. *)

ProductiveIn   == [p \in Problems |-> Productive(p.rules)]
UsefulIn       == [p \in Problems |-> Useful(p.rules, p.goals)]
HasCycleIn     == [p \in Problems |-> HasCycle(Applicable(p.rules))]
HasUsefulCycle == [p \in Problems |-> HasCycle(UsefulIn[p])]
AcceptedIn     == [p \in Problems |-> AcceptedDerivations(UsefulIn[p], p.goals)]
=============================================================================
