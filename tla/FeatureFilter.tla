----------------------------- MODULE FeatureFilter -----------------------------
(***************************************************************************)
(* filter_feature_chart: a chart is intersected with the feature-structure *)
(* filter by sweeping over its rules, in the order in which the chart      *)
(* lists them, until a sweep finds no new pair of a chart state and a      *)
(* value.  left is the chart; a product state pairs a chart state with a   *)
(* value that one of its derivations has.                                  *)
(***************************************************************************)
EXTENDS Chart

VARIABLES
    phase,      \* "sweep", "next", "combine", "done" or "cancelled"
    order,      \* the chart's rules as they are listed, never written
    at,         \* index of the current rule
    combos,     \* child tuples of the current rule not yet evaluated
    changed,    \* this sweep has found a new pair
    cancelled   \* the shared ParseControl flag

input == <<left, right, order>>
chart == <<product_pairs, accepting, rules, duplicate>>
vars  == <<input, chart, phase, at, combos, changed, cancelled>>

Init ==
    /\ InitChart
    /\ phase = "sweep"
    /\ at = 1
    /\ combos = {}
    /\ changed = FALSE
    /\ cancelled = FALSE

(* A check that sees the flag: the filter ends with Err(Cancelled). *)
GiveUp ==
    /\ cancelled
    /\ phase' = "cancelled"
    /\ UNCHANGED <<input, chart, at, combos, changed, cancelled>>

(* The next sweep. *)
Sweep ==
    /\ phase = "sweep"
    /\ \/ GiveUp
       \/ /\ ~cancelled
          /\ phase' = "next"
          /\ at' = 1
          /\ changed' = FALSE
          /\ UNCHANGED <<input, chart, combos, cancelled>>

(* The pools: for every child the product states it has now.  A rule        *)
(* without children has the empty tuple.                                    *)
Combinations(l) ==
    {c \in [DOMAIN l.children -> Ids] :
        \A i \in DOMAIN c : product_pairs[c[i]][1] = l.children[i]}

NextRule ==
    /\ phase = "next"
    /\ at <= Len(order)
    /\ \/ GiveUp
       \/ /\ ~cancelled
          /\ combos' = Combinations(order[at])
          /\ IF combos' = {} THEN at' = at + 1 /\ UNCHANGED phase
                             ELSE phase' = "combine" /\ UNCHANGED at
          /\ UNCHANGED <<input, chart, changed, cancelled>>

(* InvHom::step: the value of the rule's image at these children, if it has *)
(* one; the operations are partial functions.                               *)
Evaluate(l, c) ==
    {r.result : r \in {x \in right.rules :
        /\ l.symbol \in x.symbols
        /\ x.children = [i \in DOMAIN c |-> product_pairs[c[i]][2]]}}

(* intern, and the rule unless an earlier sweep has added it. *)
Emit(l, c, pair) ==
    /\ changed' = (changed \/ ~Known(pair))
    /\ IF Known(pair) /\ [symbol |-> l.symbol, children |-> c, parent |-> IdOf(pair)] \in rules
         THEN UNCHANGED chart
         ELSE AddProductRule(l.symbol, c, pair)

(* One child tuple.  Nothing is written once the flag is up, but the loop   *)
(* goes on.                                                                 *)
Combine(c) ==
    LET l == order[at]
    IN  /\ phase = "combine"
        /\ combos' = combos \ {c}
        /\ \/ /\ cancelled \/ Evaluate(l, c) = {}
              /\ UNCHANGED <<chart, changed>>
           \/ /\ ~cancelled
              /\ \E v \in Evaluate(l, c) : Emit(l, c, <<l.result, v>>)
        /\ UNCHANGED <<input, phase, at, cancelled>>

(* A rule without children is left without a check. *)
EndRule ==
    /\ phase = "combine"
    /\ combos = {}
    /\ \/ /\ order[at].children # <<>>
          /\ GiveUp
       \/ /\ ~cancelled \/ order[at].children = <<>>
          /\ phase' = "next"
          /\ at' = at + 1
          /\ UNCHANGED <<input, chart, combos, changed, cancelled>>

(* The chart is returned after a sweep that has found nothing. *)
EndSweep ==
    /\ phase = "next"
    /\ at > Len(order)
    /\ phase' = IF changed THEN "sweep" ELSE "done"
    /\ UNCHANGED <<input, chart, at, combos, changed, cancelled>>

Work ==
    \/ Sweep \/ NextRule
    \/ \E c \in combos : Combine(c)
    \/ EndRule \/ EndSweep

-----------------------------------------------------------------------------
(* Every variable has its type; the tuples still to be evaluated are tuples *)
(* of the current rule.                                                     *)
TypeOK ==
    /\ ChartTypeOK
    /\ phase \in {"sweep", "next", "combine", "done", "cancelled"}
    /\ order # <<>> => Range(order) = left.rules /\ at \in 1..Len(order) + 1
    /\ phase = "combine" => at \in DOMAIN order /\ combos \subseteq Combinations(order[at])
    /\ changed \in BOOLEAN

(* What the caller gets. *)
Outcome == CASE phase = "done" -> "chart"
             [] phase = "cancelled" -> "none"
             [] OTHER -> "running"
=============================================================================
