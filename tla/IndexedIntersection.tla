------------------------- MODULE IndexedIntersection -------------------------
(***************************************************************************)
(* materialize_indexed_condensed_intersection: the bottom-up intersection  *)
(* of a grammar automaton (Explicit) with a condensed right automaton that *)
(* is only queried, never enumerated.                                      *)
(*                                                                         *)
(* Product states get dense ids in discovery order and wait in a FIFO      *)
(* queue.  For each popped product state (the trigger) the algorithm first *)
(* collects candidate edges in which the trigger is the child at one       *)
(* position, then applies them: an edge is kept only if the trigger is its *)
(* latest child and stands at that child's first position.  Another thread *)
(* may raise the cancellation flag at any moment.                          *)
(*                                                                         *)
(* The order in which the oracle reports rules, and hence the order of the *)
(* candidate edges, is left open.                                          *)
(***************************************************************************)
EXTENDS Chart

VARIABLES
    pc,               \* where the algorithm stands
    queue,            \* product ids still to be popped
    current,          \* the popped trigger, 0 before the first pop
    candidate_edges,  \* edges collected and not yet applied
    right_by_child_cache,  \* <<position, right state>> |-> condensed rules
    cancelled         \* the shared ParseControl flag

vars == <<left, right, pc, product_pairs, accepting, queue, current, candidate_edges,
          right_by_child_cache, rules, duplicate, cancelled>>

input == <<left, right>>
chart == <<product_pairs, accepting, queue, rules, duplicate>>

-----------------------------------------------------------------------------
(* Indexes and lookups. *)

(* left_index.by_state: the rules that have q as a child, with the position. *)
Occurrences(q) ==
    UNION {{<<l, p>> : p \in {i \in DOMAIN l.children : l.children[i] = q}} : l \in left.rules}

(* The oracle's answer to a query by child. *)
CondensedRulesByChild(position, q) ==
    {r \in right.rules : position \in DOMAIN r.children /\ r.children[position] = q}

NullaryEdges ==
    {[left |-> x[1], right |-> x[2], position |-> 0, children |-> <<>>] :
        x \in {y \in left.rules \X right.rules : Joins(y[1], y[2]) /\ y[2].children = <<>>}}

(* All children of the joined rules have product ids. *)
ChildrenKnown(l, r) ==
    \A i \in DOMAIN l.children : Known(<<l.children[i], r.children[i]>>)

Edge(l, r, p) ==
    [left |-> l, right |-> r, position |-> p,
     children |-> [i \in DOMAIN l.children |-> IdOf(<<l.children[i], r.children[i]>>)]]

(* The keys under which the trigger's occurrences query the oracle. *)
QueryKeys(trigger) ==
    {<<o[2], product_pairs[trigger][2]>> : o \in Occurrences(product_pairs[trigger][1])}

(* The edges that for_each_candidate_edge reports, given the cached answers. *)
CandidateEdges(trigger, cache) ==
    UNION {{Edge(o[1], r, o[2]) :
               r \in {x \in cache[<<o[2], product_pairs[trigger][2]>>] :
                         Joins(o[1], x) /\ ChildrenKnown(o[1], x)}} :
           o \in Occurrences(product_pairs[trigger][1])}

(* Faulty variants: any position of the trigger; no second child as late. *)
CurrentProductIsLatest_AnyPosition(children, position, trigger) ==
    /\ children[position] = trigger
    /\ \A i \in DOMAIN children : children[i] <= trigger

CurrentProductIsLatest_Strict(children, position, trigger) ==
    /\ children[position] = trigger
    /\ \A i \in DOMAIN children \ {position} : children[i] < trigger

(* The trigger is the child with the largest id, at its first position. *)
CurrentProductIsLatest(children, position, trigger) ==
    /\ children[position] = trigger
    /\ \A i \in DOMAIN children : children[i] <= trigger
    /\ \A i \in 1..(position - 1) : children[i] < trigger

-----------------------------------------------------------------------------
Init ==
    /\ InitChart
    /\ pc = "start"
    /\ queue = <<>>
    /\ current = 0
    /\ candidate_edges = {}
    /\ right_by_child_cache = <<>>
    /\ cancelled = FALSE

(* control.check()?: on a raised flag the run returns Err(Cancelled). *)
GiveUp ==
    /\ cancelled
    /\ pc' = "cancelled"
    /\ UNCHANGED <<input, chart, current, candidate_edges, right_by_child_cache, cancelled>>

(* The check on entry. *)
Start ==
    /\ pc = "start"
    /\ \/ GiveUp
       \/ /\ ~cancelled
          /\ pc' = "seed"
          /\ UNCHANGED <<input, chart, current, candidate_edges, right_by_child_cache, cancelled>>

(* for_each_nullary_edge stops reporting as soon as it sees the flag. *)
CollectNullary ==
    /\ pc = "seed"
    /\ candidate_edges' \in IF cancelled THEN SUBSET NullaryEdges ELSE {NullaryEdges}
    /\ pc' = "check"
    /\ UNCHANGED <<input, chart, current, right_by_child_cache, cancelled>>

(* Faulty variant: no check between collecting and applying. *)
CheckCollected_Unchecked ==
    /\ pc = "check"
    /\ pc' = "apply"
    /\ UNCHANGED <<input, chart, current, candidate_edges, right_by_child_cache, cancelled>>

(* The check between collecting and applying. *)
CheckCollected ==
    /\ pc = "check"
    /\ \/ GiveUp
       \/ /\ ~cancelled
          /\ pc' = "apply"
          /\ UNCHANGED <<input, chart, current, candidate_edges, right_by_child_cache, cancelled>>

(* The rule of an edge; a new product state is pushed on the queue. *)
EmitRule(e) ==
    LET pair == <<e.left.result, e.right.result>>
    IN  /\ AddProductRule(e.left.symbol, e.children, pair)
        /\ queue' = IF Known(pair) THEN queue ELSE Append(queue, ProductId(pair))

(* One collected edge: check the flag, then skip or emit it. *)
ApplyEdge(e) ==
    /\ pc = "apply"
    /\ e \in candidate_edges
    /\ \/ GiveUp
       \/ /\ ~cancelled
          /\ candidate_edges' = candidate_edges \ {e}
          /\ IF e.position = 0 \/ CurrentProductIsLatest(e.children, e.position, current)
               THEN EmitRule(e)
               ELSE UNCHANGED chart
          /\ UNCHANGED <<input, pc, current, right_by_child_cache, cancelled>>

(* All edges are applied: back to the head of the queue loop. *)
EndApply ==
    /\ pc = "apply"
    /\ candidate_edges = {}
    /\ pc' = "pop"
    /\ UNCHANGED <<input, chart, current, candidate_edges, right_by_child_cache, cancelled>>

(* queue.pop_front() and the check that follows it. *)
Pop ==
    /\ pc = "pop"
    /\ queue # <<>>
    /\ queue' = Tail(queue)
    /\ current' = Head(queue)
    /\ pc' = IF cancelled THEN "cancelled" ELSE "collect"
    /\ UNCHANGED <<input, product_pairs, accepting, candidate_edges, right_by_child_cache,
                   rules, duplicate, cancelled>>

(* for_each_candidate_edge.  The answers are cached by position and right   *)
(* state.  Once the flag is up, the oracle's answers are cut short, the     *)
(* cut-short answers stay in the cache, and fewer edges are reported.       *)
CollectCandidates ==
    /\ pc = "collect"
    /\ LET cached == DOMAIN right_by_child_cache
           missed == QueryKeys(current) \ cached
           Answer(k) == CondensedRulesByChild(k[1], k[2])
           Extended(answers) == [k \in cached \cup missed |->
                                    IF k \in cached THEN right_by_child_cache[k] ELSE answers[k]]
       IN  IF cancelled
             THEN \E answers \in [missed -> SUBSET right.rules] :
                     /\ \A k \in missed : answers[k] \subseteq Answer(k)
                     /\ right_by_child_cache' = Extended(answers)
                     /\ candidate_edges' \in SUBSET CandidateEdges(current, right_by_child_cache')
             ELSE /\ right_by_child_cache' = Extended([k \in missed |-> Answer(k)])
                  /\ candidate_edges' = CandidateEdges(current, right_by_child_cache')
    /\ pc' = "check"
    /\ UNCHANGED <<input, chart, current, cancelled>>

(* The queue is empty: build_trusted, Ok(chart). *)
Finish ==
    /\ pc = "pop"
    /\ queue = <<>>
    /\ pc' = "done"
    /\ UNCHANGED <<input, chart, current, candidate_edges, right_by_child_cache, cancelled>>

(* ParseControl::cancel, from any thread; the flag is never lowered. *)
Cancel ==
    /\ ~cancelled
    /\ cancelled' = TRUE
    /\ UNCHANGED <<input, pc, chart, current, candidate_edges, right_by_child_cache>>

Work ==
    \/ Start
    \/ CollectNullary
    \/ CheckCollected
    \/ \E e \in candidate_edges : ApplyEdge(e)
    \/ EndApply
    \/ Pop
    \/ CollectCandidates
    \/ Finish

Next == Work \/ Cancel

(* The parsing thread keeps running; nobody has to cancel it. *)
Spec == Init /\ [][Next]_vars /\ WF_vars(Work)

-----------------------------------------------------------------------------
(* Properties. *)

(* Every variable has its type, and ids in the queue and in the rules are   *)
(* ids of existing product states.                                          *)
TypeOK ==
    /\ ChartTypeOK
    /\ pc \in {"start", "seed", "check", "apply", "pop", "collect", "done", "cancelled"}
    /\ queue \in Seq(Ids)
    /\ current \in Ids \cup {0}
    /\ pc = "collect" => current \in Ids
    /\ \A e \in candidate_edges :
          /\ e \in [left : left.rules, right : right.rules, position : Nat, children : Seq(Ids)]
          /\ Joins(e.left, e.right)
          /\ DOMAIN e.children = DOMAIN e.left.children
          /\ e.position \in DOMAIN e.children \cup {0}
    /\ \A k \in DOMAIN right_by_child_cache : right_by_child_cache[k] \subseteq right.rules
    /\ cancelled \in BOOLEAN

(* A returned chart has exactly the derivable product states and exactly    *)
(* the product rules over them, and accepts where both sides do, whether or *)
(* not the flag was raised while it was built: a chart cut short by         *)
(* cancellation, or built from an answer cut short, is never returned.      *)
ChartComplete ==
    pc = "done" =>
        /\ Pairs = Derivable(ProductRules(left, right))
        /\ {Decode(rule) : rule \in rules} = ReachableRules(left, right)
        /\ {product_pairs[i] : i \in accepting} = Pairs \cap AcceptingPairs(left, right)

(* The algorithm implements the abstract intersection: it adds justified    *)
(* rules one at a time, returns only a closed chart, and always ends.       *)
Promise == INSTANCE ProductClosure
             WITH states  <- Pairs,
                  rules   <- {Decode(rule) : rule \in rules},
                  outcome <- IF pc = "done" THEN "chart"
                             ELSE IF pc = "cancelled" THEN "none" ELSE "running"

ImplementsProductClosure == Promise!Spec
-----------------------------------------------------------------------------
(* The inductive invariant behind NoDuplicateRule, WellFounded and          *)
(* ChartComplete.                                                           *)

(* The edge survives the filter of the apply loop. *)
Kept(e) == e.position = 0 \/ CurrentProductIsLatest(e.children, e.position, current)

(* The rule is the one the edge of l and r over the product ids c emits. *)
Emits(rule, l, r, c) ==
    /\ rule.symbol = l.symbol
    /\ rule.children = c
    /\ product_pairs[rule.parent] = <<l.result, r.result>>

(* The product ids c are the children of the joined rules l and r. *)
Combination(l, r, c) ==
    /\ Joins(l, r)
    /\ \A i \in DOMAIN l.children : product_pairs[c[i]] = <<l.children[i], r.children[i]>>

(* No product state has two ids; the queue holds the ids above the trigger, *)
(* in order; no edge outlives its round.                                    *)
IdsInOrder ==
    /\ \A i, j \in Ids : product_pairs[i] = product_pairs[j] => i = j
    /\ Len(product_pairs) = current + Len(queue)
    /\ \A i \in DOMAIN queue : queue[i] = current + i
    /\ pc \in {"start", "seed"} => current = 0 /\ rules = {}
    /\ pc \in {"pop", "collect"} => candidate_edges = {}

(* Edges and rules stand for joined rules over their product children; the  *)
(* children of a rule have been popped.                                     *)
Faithful ==
    /\ \A e \in candidate_edges :
          /\ Combination(e.left, e.right, e.children)
          /\ e.position = 0 => e.children = <<>>
    /\ \A rule \in rules :
          /\ \E l \in left.rules, r \in right.rules :
                /\ DOMAIN rule.children = DOMAIN l.children
                /\ Combination(l, r, rule.children)
                /\ Emits(rule, l, r, rule.children)
          /\ \A i \in DOMAIN rule.children :
                /\ rule.children[i] <= current
                /\ pc = "collect" => rule.children[i] < current

(* A collected edge that survives the filter has not been emitted yet. *)
Fresh ==
    \A e \in candidate_edges : Kept(e) =>
        \A rule \in rules : ~Emits(rule, e.left, e.right, e.children)

(* Product states are derivable, and accepted exactly when both sides accept. *)
Sound ==
    /\ Pairs \subseteq Derivable(ProductRules(left, right))
    /\ accepting = {i \in Ids : product_pairs[i] \in AcceptingPairs(left, right)}

(* A cached answer is the whole answer, unless the flag cut it short and    *)
(* the run is about to give up.                                             *)
CacheComplete ==
    pc # "cancelled" /\ (pc = "check" => ~cancelled) =>
        \A k \in DOMAIN right_by_child_cache :
            right_by_child_cache[k] = CondensedRulesByChild(k[1], k[2])

(* All rules over children with ids up to n are in the chart. *)
CoveredUpTo(n) ==
    \A l \in left.rules, r \in right.rules : \A c \in [DOMAIN l.children -> Ids] :
        Combination(l, r, c) /\ (\A i \in DOMAIN c : c[i] <= n) =>
            \E rule \in rules : Emits(rule, l, r, c)

(* All rules over children up to the trigger are in the chart or collected. *)
CoveredOrCollected ==
    \A l \in left.rules, r \in right.rules : \A c \in [DOMAIN l.children -> Ids] :
        Combination(l, r, c) /\ (\A i \in DOMAIN c : c[i] <= current) =>
            \/ \E rule \in rules : Emits(rule, l, r, c)
            \/ \E e \in candidate_edges :
                  e.left = l /\ e.right = r /\ e.children = c /\ Kept(e)

Covered ==
    /\ pc = "collect" => CoveredUpTo(current - 1)
    /\ pc \in {"pop", "done"} => CoveredUpTo(current)
    /\ pc = "apply" \/ (pc = "check" /\ ~cancelled) => CoveredOrCollected

IInv ==
    /\ TypeOK
    /\ IdsInOrder
    /\ Faithful
    /\ Fresh
    /\ NoDuplicateRule
    /\ WellFounded
    /\ Sound
    /\ CacheComplete
    /\ Covered
=============================================================================
