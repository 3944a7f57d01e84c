-------------------------- MODULE LazyMaterialization --------------------------
(***************************************************************************)
(* materialize over the lazy product of the grammar and the inverse image  *)
(* of a decomposition automaton: both are known only by their transitions, *)
(* which are asked for by symbol and child tuple through a memo.  Every    *)
(* popped state is combined with all states known at that moment; the      *)
(* cached transitions are the resulting chart.                             *)
(*                                                                         *)
(* The memo's interner and the known states are product_pairs, its cache   *)
(* is rules.  Lookups without an answer are not followed.                  *)
(***************************************************************************)
EXTENDS Chart, InverseHomomorphism

VARIABLES
    decomp,     \* the decomposition automaton; right is its inverse image
    hom,        \* source symbol |-> term id
    stage,      \* "start", "run" or "done"
    worklist,   \* ids not yet combined with the others, last in first out
    lookups,    \* [symbol, children] of the current state to be asked for
    cached,     \* the lookups that the memo can answer
    answers     \* what the current lookup has found and not yet reported

input == <<left, right, decomp, hom>>
chart == <<product_pairs, accepting, rules, duplicate>>
vars  == <<input, chart, stage, worklist, lookups, cached, answers>>

-----------------------------------------------------------------------------
(* Product::step: every pair of what the two sides answer. *)
ProductStep(symbol, pairs) ==
    LET component(k) == [i \in DOMAIN pairs |-> pairs[i][k]]
    IN  {l.result : l \in {x \in left.rules : x.symbol = symbol /\ x.children = component(1)}}
        \X StepOf(decomp, hom, symbol, component(2))

Answers(key) ==
    ProductStep(key.symbol, [i \in DOMAIN key.children |-> product_pairs[key.children[i]]])

(* The alphabet: the grammar's signature. *)
Alphabet == {<<l.symbol, Len(l.children)>> : l \in left.rules}

(* Faulty variant: the popped state is tried as the first child only. *)
LookupsOf_First(id) ==
    {k \in UNION {[symbol : {s[1]}, children : [1..s[2] -> Ids]] : s \in Alphabet} :
        k.children # <<>> /\ k.children[1] = id}

(* The lookups that involve a state and only known ones. *)
LookupsOf(id) ==
    {k \in UNION {[symbol : {s[1]}, children : [1..s[2] -> Ids]] : s \in Alphabet} :
        id \in Range(k.children)}

NullaryLookups ==
    UNION {[symbol : {s[1]}, children : {<<>>}] : s \in {t \in Alphabet : t[2] = 0}}

Productive(keys) == {k \in keys \ cached : Answers(k) # {}}

-----------------------------------------------------------------------------
Init ==
    /\ InitChart
    /\ stage = "start"
    /\ worklist = <<>>
    /\ lookups = {}
    /\ cached = {}
    /\ answers = {}

Start ==
    /\ stage = "start"
    /\ stage' = "run"
    /\ lookups' = Productive(NullaryLookups)
    /\ UNCHANGED <<input, chart, worklist, cached, answers>>

(* Memo::step: a transition is computed once. *)
Lookup(k) ==
    /\ stage = "run"
    /\ answers = {}
    /\ k \in lookups
    /\ lookups' = lookups \ {k}
    /\ cached' = cached \cup {k}
    /\ answers' = {[key |-> k, pair |-> p] : p \in Answers(k)}
    /\ UNCHANGED <<input, chart, stage, worklist>>

(* collect_step: a state that is reported for the first time is put on the  *)
(* worklist.                                                                *)
Report(a) ==
    /\ stage = "run"
    /\ a \in answers
    /\ answers' = answers \ {a}
    /\ AddProductRule(a.key.symbol, a.key.children, a.pair)
    /\ worklist' = IF Known(a.pair) THEN worklist ELSE Append(worklist, ProductId(a.pair))
    /\ UNCHANGED <<input, stage, lookups, cached>>

Pop ==
    /\ stage = "run"
    /\ answers = {} /\ lookups = {} /\ worklist # <<>>
    /\ worklist' = SubSeq(worklist, 1, Len(worklist) - 1)
    /\ lookups' = Productive(LookupsOf(worklist[Len(worklist)]))
    /\ UNCHANGED <<input, chart, stage, cached, answers>>

Finish ==
    /\ stage = "run"
    /\ answers = {} /\ lookups = {} /\ worklist = <<>>
    /\ stage' = "done"
    /\ UNCHANGED <<input, chart, worklist, lookups, cached, answers>>

Work ==
    \/ Start
    \/ \E k \in lookups : Lookup(k)
    \/ \E a \in answers : Report(a)
    \/ Pop \/ Finish

-----------------------------------------------------------------------------
(* Every variable has its type. *)
TypeOK ==
    /\ ChartTypeOK
    /\ stage \in {"start", "run", "done"}
    /\ Range(worklist) \subseteq Ids
    /\ \A k \in lookups \cup cached : Range(k.children) \subseteq Ids
    /\ \A a \in answers : a.key \in cached

(* What the caller gets; there is no control to cancel it. *)
Outcome == IF stage = "done" THEN "chart" ELSE "running"
=============================================================================
