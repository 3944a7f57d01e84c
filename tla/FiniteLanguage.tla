---------------------------- MODULE FiniteLanguage ----------------------------
(***************************************************************************)
(* FiniteLanguagePlan and FiniteLanguageIterator: all accepted derivations *)
(* of an automaton, if there are finitely many, after it was analyzed and  *)
(* its derivations were counted.                                           *)
(*                                                                         *)
(* The iterator holds one derivation as the sequence of its nodes in       *)
(* pre-order.  To advance, it takes the last node that has a rule left,    *)
(* gives it that rule, and expands it and everything to the right of it    *)
(* anew.  The order of the rules of a state is arbitrary but fixed.        *)
(***************************************************************************)
EXTENDS LanguageAnalysis

VARIABLES
    iterator,       \* "none", "error", "idle", "expanding", "current" or "exhausted"
    accepting,      \* accepting states not enumerated yet
    nodes,          \* pre-order: [rule, state, parent, position, choice]
    alternatives,   \* nodes with further rules, ascending
    pending,        \* nodes to be expanded, the next first: [state, parent, position, choice]
    changed_from,   \* first node that differs from the previous derivation
    derivations     \* the derivations so far: sequences of rules

traversal == <<accepting, nodes, alternatives, pending, changed_from, derivations>>
enumeration == <<iterator, traversal>>

finite_vars == <<vars, enumeration>>

-----------------------------------------------------------------------------
(* rules_by_state: the rules of the plan. *)
Options(q) == SetToSeq({r \in DependencyRules : r.result = q})

Expected(q, parent, position, choice) ==
    [state |-> q, parent |-> parent, position |-> position, choice |-> choice]

(* The children of a rule below node i, from one position on. *)
ChildrenFrom(rule, i, first) ==
    [k \in 1..(Len(rule.children) + 1 - first) |->
        Expected(rule.children[first + k - 1], i, first + k - 1, 1)]

(* Faulty variant: only the siblings of the changed node are expanded anew. *)
RightOf_Siblings(i) ==
    IF nodes[i].parent = 0 THEN <<>>
    ELSE ChildrenFrom(nodes[nodes[i].parent].rule, nodes[i].parent, nodes[i].position + 1)

(* What is to the right of a node: its right siblings, then those of its    *)
(* parent, and so on up.                                                    *)
RightOf(i) ==
    LET right[k \in 0..i] ==
            IF k = 0 THEN <<>>
            ELSE LET parent == nodes[k].parent
                 IN  IF parent = 0 THEN <<>>
                     ELSE ChildrenFrom(nodes[parent].rule, parent, nodes[k].position + 1) \o right[parent]
    IN  right[i]

-----------------------------------------------------------------------------
FiniteInit ==
    /\ Init
    /\ iterator = "none"
    /\ accepting = {}
    /\ nodes = <<>>
    /\ alternatives = <<>>
    /\ pending = <<>>
    /\ changed_from = 0
    /\ derivations = <<>>

(* The analysis, and a count of the derivations. *)
Analyze == Next /\ UNCHANGED enumeration

(* FiniteLanguagePlan::new: no order, no plan. *)
NewPlan ==
    /\ pc = "done"
    /\ iterator = "none"
    /\ IF IsOrdered
         THEN iterator' = "idle" /\ accepting' = problem.goals \cap productive
         ELSE iterator' = "error" /\ UNCHANGED accepting
    /\ UNCHANGED <<vars, nodes, alternatives, pending, changed_from, derivations>>

(* No node has a further rule. *)
IsDone == iterator = "idle" \/ (iterator = "current" /\ alternatives = <<>>)

(* start_accepting_state. *)
StartAcceptingState(q) ==
    /\ IsDone
    /\ q \in accepting
    /\ iterator' = "expanding"
    /\ accepting' = accepting \ {q}
    /\ nodes' = <<>>
    /\ alternatives' = <<>>
    /\ pending' = <<Expected(q, 0, 0, 1)>>
    /\ changed_from' = 1
    /\ UNCHANGED <<vars, derivations>>

Exhaust ==
    /\ IsDone
    /\ accepting = {}
    /\ iterator' = "exhausted"
    /\ nodes' = <<>>
    /\ alternatives' = <<>>
    /\ changed_from' = 0
    /\ UNCHANGED <<vars, accepting, pending, derivations>>

NextChoice(node) == node.choice + 1

(* advance with a node that has a further rule: rebuild_suffix. *)
RebuildSuffix ==
    /\ iterator = "current"
    /\ alternatives # <<>>
    /\ LET changed == Last(alternatives)
           node == nodes[changed]
       IN  /\ pending' = <<Expected(node.state, node.parent, node.position, NextChoice(node))>>
                           \o RightOf(changed)
           /\ nodes' = SubSeq(nodes, 1, changed - 1)
           /\ changed_from' = changed
    /\ alternatives' = Front(alternatives)
    /\ iterator' = "expanding"
    /\ UNCHANGED <<vars, accepting, derivations>>

HasAlternative(node) == node.choice < Len(Options(node.state))

(* expand: one node. *)
Expand ==
    /\ iterator = "expanding"
    /\ LET node == Head(pending)
           rule == Options(node.state)[node.choice]
           i == Len(nodes) + 1
       IN  /\ nodes' = Append(nodes, [rule |-> rule, state |-> node.state, parent |-> node.parent,
                                      position |-> node.position, choice |-> node.choice])
           /\ alternatives' = IF HasAlternative(node) THEN Append(alternatives, i) ELSE alternatives
           /\ pending' = ChildrenFrom(rule, i, 1) \o Tail(pending)
    /\ IF pending' = <<>>
         THEN /\ iterator' = "current"
              /\ derivations' = Append(derivations, [i \in DOMAIN nodes' |-> nodes'[i].rule])
         ELSE UNCHANGED <<iterator, derivations>>
    /\ UNCHANGED <<vars, accepting, changed_from>>

FiniteNext ==
    \/ Analyze
    \/ NewPlan
    \/ \E q \in accepting : StartAcceptingState(q)
    \/ Exhaust
    \/ RebuildSuffix
    \/ Expand

FiniteSpec == FiniteInit /\ [][FiniteNext]_finite_vars /\ WF_finite_vars(FiniteNext)

-----------------------------------------------------------------------------
(* Properties. *)

(* A sequence of rules is the pre-order of a derivation of q: each rule     *)
(* derives the state that is due next.                                      *)
IsDerivation(rules, q) ==
    LET due == FoldLeft(LAMBDA states, r :
                   IF states # <<>> /\ Head(states) = r.result THEN r.children \o Tail(states)
                   ELSE <<"none">>, <<q>>, rules)
    IN  due = <<>>

(* What the iterator shows is an accepted derivation, with every node below *)
(* its parent at the position it gives, however much of it was taken over   *)
(* from the previous one.                                                   *)
CurrentIsDerivation ==
    iterator = "current" =>
        /\ nodes[1].state \in problem.goals
        /\ IsDerivation(Last(derivations), nodes[1].state)
        /\ \A i \in 2..Len(nodes) :
              LET parent == nodes[nodes[i].parent]
              IN  nodes[i].parent < i /\ parent.rule.children[nodes[i].position] = nodes[i].state

(* No derivation is shown twice, and as many are shown as were counted      *)
(* before: all of them.                                                     *)
EachDerivationOnce ==
    /\ \A i, j \in DOMAIN derivations : derivations[i] = derivations[j] => i = j
    /\ iterator = "exhausted" => Len(derivations) = AcceptedIn[problem]

(* "Everything before the returned position is identical to the preceding   *)
(* derivation", and the node at that position is not.                       *)
ChangedFromHere ==
    LET n == Len(derivations)
    IN  iterator = "current" /\ n > 1 =>
            /\ \A i \in 1..(changed_from - 1) : derivations[n][i] = derivations[n - 1][i]
            /\ derivations[n][changed_from] # derivations[n - 1][changed_from]

(* A plan is refused exactly if the language is infinite. *)
RefusedIfInfinite == iterator # "none" => (iterator = "error" <=> HasUsefulCycle[problem])

(* The caller sees the end of every finite language. *)
EnumerationEnds == <>(iterator \in {"error", "exhausted"})
=============================================================================
