---------------------------- MODULE ProductClosure ----------------------------
(***************************************************************************)
(* What an intersection promises: a chart that grows by product rules over *)
(* already derived product states, and is handed out only when no product  *)
(* rule is missing; or no chart at all, if the job was cancelled.          *)
(***************************************************************************)
EXTENDS Automata

VARIABLES left, right,    \* the inputs, never written
          states,         \* product states of the chart
          rules,          \* product rules of the chart
          outcome         \* "running", "chart" or "none"

vars == <<left, right, states, rules, outcome>>

Init == /\ left \in Lefts
        /\ right \in Rights
        /\ states = {}
        /\ rules = {}
        /\ outcome = "running"

(* One product rule whose children are all derived is added. *)
AddRule(p) ==
    /\ outcome = "running"
    /\ p \notin rules
    /\ Range(p.children) \subseteq states
    /\ rules' = rules \cup {p}
    /\ states' = states \cup {p.result}
    /\ UNCHANGED <<left, right, outcome>>

(* The chart is returned, and it is closed. *)
Return ==
    /\ outcome = "running"
    /\ \A p \in ProductRules(left, right) : Range(p.children) \subseteq states => p \in rules
    /\ outcome' = "chart"
    /\ UNCHANGED <<left, right, states, rules>>

(* Cancelled: nothing is returned. *)
Abandon ==
    /\ outcome = "running"
    /\ outcome' = "none"
    /\ UNCHANGED <<left, right, states, rules>>

Next == \/ \E p \in ProductRules(left, right) : AddRule(p)
        \/ Return
        \/ Abandon

Spec == Init /\ [][Next]_vars /\ WF_vars(Next)
=============================================================================
