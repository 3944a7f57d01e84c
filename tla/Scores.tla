-------------------------------- MODULE Scores --------------------------------
(***************************************************************************)
(* Scores of derivations, as score.rs gives them to the one-best searches. *)
(* A score is written as a cost, minus the logarithm of the weight: the    *)
(* product of weights is a sum of costs, weight 1 is 0, weight 0 is        *)
(* Infinity, and a better score is a smaller number.  Weights above 1 do   *)
(* not occur.  Rounding is left out.                                       *)
(*                                                                         *)
(* A weighted rule is [symbol, children, result, cost]; its nodes are the  *)
(* states of an automaton or the pairs of states of a product.             *)
(***************************************************************************)
EXTENDS Naturals, Sequences, FiniteSets, Functions, FiniteSetsExt, SequencesExt

CONSTANTS Nodes,      \* the states the rules are over
          Infinity    \* the cost of the impossible

ASSUME InfinityIsPositive == Infinity \in Nat \ {0}

(* States are numbered. *)
ASSUME NodesAreFinite == IsFiniteSet(Nodes)

Costs == 0..Infinity

IsWeighted(rule) ==
    /\ rule.children \in Seq(Nodes)
    /\ rule.result \in Nodes
    /\ rule.cost \in Costs

Capped(n) == IF n < Infinity THEN n ELSE Infinity

(* The cost of a rule with its first i children. *)
PartialCosts(rule, score) ==
    LET sum[i \in 0..Len(rule.children)] ==
            IF i = 0 THEN rule.cost ELSE sum[i - 1] + score[rule.children[i]]
    IN  sum

(* The score of a rule whose children have the given scores. *)
Inside(rule, score) == Capped(PartialCosts(rule, score)[Len(rule.children)])

(* The score of a rule without its child at p: its context for that child. *)
WithoutChild(rule, p) ==
    [children |-> RemoveAt(rule.children, p), result |-> rule.result, cost |-> rule.cost]

Context(rule, p, score) == Inside(WithoutChild(rule, p), score)

Impossible == [q \in Nodes |-> Infinity]

-----------------------------------------------------------------------------
(* What the scores of states should be. *)

(* inner[q] is the score of the best derivation of q: no rule improves it,  *)
(* and the rules that attain it derive every state that has a score.        *)
IsInside(rules, inner) ==
    /\ \A r \in rules : inner[r.result] <= Inside(r, inner)
    /\ \A S \in SUBSET Nodes :
          (\A r \in rules : /\ Inside(r, inner) = inner[r.result]
                            /\ Range(r.children) \subseteq S
                            => r.result \in S)
          => {q \in Nodes : inner[q] < Infinity} \subseteq S

(* One rule for each of some states, and these rules derive them all.       *)
Derive(rule) ==
    \A S \in SUBSET Nodes :
       (\A q \in DOMAIN rule : Range(rule[q].children) \subseteq S => q \in S)
       => DOMAIN rule \subseteq S

(* outer[q] is at most the score of the best completion of a derivation     *)
(* of q to one of a goal.                                                   *)
BoundsOutside(rules, goals, inner, outer) ==
    /\ \A q \in goals : outer[q] = 0
    /\ \A r \in {s \in rules : Inside(s, inner) < Infinity} : \A q \in Range(r.children) :
          outer[q] + inner[q] <= Inside(r, inner) + outer[r.result]

(* The same, computed by rounds.  Scores are carried from round to round as *)
(* sets of pairs, which TLC evaluates once.                                 *)
Pairs(score) == {<<q, score[q]>> : q \in Nodes}
ScoreOf(pairs) == [q \in Nodes |-> (CHOOSE p \in pairs : p[1] = q)[2]]

(* What the rules make of scores: for each node, the best rule into it. *)
Improved(rules, score) ==
    [q \in Nodes |-> Min({Infinity} \cup {Inside(r, score) : r \in {s \in rules : s.result = q}})]

(* Round n is over derivations of height at most n: no best derivation      *)
(* repeats a state on a path.                                               *)
InsideRounds(rules) ==
    LET round[n \in 0..Cardinality(Nodes)] ==
            IF n = 0 THEN Pairs(Impossible) ELSE Pairs(Improved(rules, ScoreOf(round[n - 1])))
    IN  round

BestInside(rules) == ScoreOf(InsideRounds(rules)[Cardinality(Nodes)])

(* The children of rules, with the rule and the position they stand at. *)
ChildPlaces(rules) == UNION {{<<r, p>> : p \in DOMAIN r.children} : r \in rules}

PlaceCost(place, inner, score) ==
    Capped(Context(place[1], place[2], inner) + score[place[1].result])

Completed(rules, inner, score) ==
    [q \in Nodes |-> Min({score[q]} \cup
        {PlaceCost(x, inner, score) : x \in {y \in ChildPlaces(rules) : y[1].children[y[2]] = q}})]

(* Round n is over completions with at most n rules from the state to the   *)
(* goal.                                                                    *)
OutsideRounds(rules, goals, inner) ==
    LET round[n \in 0..Cardinality(Nodes)] ==
            IF n = 0 THEN Pairs([q \in Nodes |-> IF q \in goals THEN 0 ELSE Infinity])
            ELSE Pairs(Completed(rules, inner, ScoreOf(round[n - 1])))
    IN  round

BestOutside(rules, goals, inner) ==
    ScoreOf(OutsideRounds(rules, goals, inner)[Cardinality(Nodes)])

(* The score of the best accepted derivation. *)
Optimum(goals, inner) == Min({Infinity} \cup {inner[q] : q \in goals})
=============================================================================
