------------------------------ MODULE Relaxation ------------------------------
(***************************************************************************)
(* What a best-first search promises: it lowers the scores of states, each *)
(* time to what a rule over scored children gives, and it answers only     *)
(* when a goal has the score of the best accepted derivation.              *)
(***************************************************************************)
EXTENDS Scores

VARIABLES problem,    \* the input, any [rules, goals, inside, ...], never written
          score,      \* the best score found for each node
          outcome     \* "running", "answer" or "none"

vars == <<problem, score, outcome>>

Init == /\ score = Impossible
        /\ outcome = "running"

Relax(rule) ==
    /\ outcome = "running"
    /\ Inside(rule, score) < score[rule.result]
    /\ score' = [score EXCEPT ![rule.result] = Inside(rule, score)]
    /\ UNCHANGED <<problem, outcome>>

Answer ==
    /\ outcome = "running"
    /\ Optimum(problem.goals, score) = Optimum(problem.goals, problem.inside)
    /\ outcome' = "answer"
    /\ UNCHANGED <<problem, score>>

(* Cancelled: nothing is returned. *)
Abandon ==
    /\ outcome = "running"
    /\ outcome' = "none"
    /\ UNCHANGED <<problem, score>>

Next == \/ \E rule \in problem.rules : Relax(rule)
        \/ Answer
        \/ Abandon

Spec == Init /\ [][Next]_vars /\ WF_vars(Next)
=============================================================================
