--------------------- MODULE IndexedIntersection_proofs ---------------------
(***************************************************************************)
(* Proofs about the indexed condensed intersection, for every pair of      *)
(* automata and every interleaving with a cancelling thread.               *)
(***************************************************************************)
EXTENDS IndexedIntersection, SequenceTheorems, WellFoundedInduction, TLAPS

-----------------------------------------------------------------------------
(* Lemmas about the lookups.                                                *)

LEMMA IdsAreInterval ==
  ASSUME TypeOK
  PROVE  /\ Len(product_pairs) \in Nat
         /\ Ids = 1..Len(product_pairs)
BY DEF TypeOK, ChartTypeOK, Ids

(* A known pair has an id, and the id leads back to the pair.               *)
LEMMA IdOfKnown ==
  ASSUME NEW pair, Known(pair)
  PROVE  IdOf(pair) \in Ids /\ product_pairs[IdOf(pair)] = pair
BY DEF Known, IdOf

(* Sequences over a set are sequences over a larger one.                    *)
LEMMA SeqWiden ==
  ASSUME NEW S, NEW T, S \subseteq T, NEW s \in Seq(S)
  PROVE  s \in Seq(T)
<1>1. Len(s) \in Nat /\ DOMAIN s = 1..Len(s)
  OBVIOUS
<1>2. \A i \in 1..Len(s) : s[i] \in T
  OBVIOUS
<1>. QED  BY <1>1, <1>2, SMT

(* A function on an initial segment of the naturals is a sequence.          *)
LEMMA FunctionIsSeq ==
  ASSUME NEW S, NEW n \in Nat, NEW f \in [1..n -> S]
  PROVE  f \in Seq(S) /\ Len(f) = n
OBVIOUS

(* What the inputs give: rules over the states of each side.                *)
LEMMA InputTypes ==
  ASSUME TypeOK
  PROVE  /\ left.rules \subseteq ExplicitRules
         /\ right.rules \subseteq CondensedRules
BY InputsAreAutomata DEF TypeOK, ChartTypeOK, IsExplicit, IsCondensed

-----------------------------------------------------------------------------
(* Type correctness of the chart under one emitted rule.                    *)

LEMMA EmitGrows ==
  ASSUME TypeOK, NEW e \in candidate_edges, EmitRule(e)
  PROVE  /\ product_pairs' \in Seq(LeftStates \X RightStates)
         /\ Ids \subseteq Ids'
         /\ \A i \in Ids : product_pairs'[i] = product_pairs[i]
<1>. DEFINE pair == <<e.left.result, e.right.result>>
<1>1. pair \in LeftStates \X RightStates
  BY InputTypes DEF TypeOK, ChartTypeOK, ExplicitRules, CondensedRules
<1>2. CASE Known(pair)
  BY <1>2 DEF EmitRule, AddProductRule, ProductId, TypeOK, ChartTypeOK, Ids
<1>3. CASE ~Known(pair)
  <2>1. product_pairs' = Append(product_pairs, pair)
    BY <1>3 DEF EmitRule, AddProductRule, ProductId
  <2>. QED  BY <1>1, <2>1 DEF TypeOK, ChartTypeOK, Ids
<1>. QED  BY <1>2, <1>3

LEMMA EmitTypes ==
  ASSUME TypeOK, NEW e \in candidate_edges, EmitRule(e)
  PROVE  /\ accepting' \subseteq Ids'
         /\ queue' \in Seq(Ids')
         /\ rules' \subseteq [symbol : Symbols, children : Seq(Ids'), parent : Ids']
         /\ duplicate' \in BOOLEAN
<1>. DEFINE pair   == <<e.left.result, e.right.result>>
            parent == IF ~Known(pair) THEN Len(product_pairs) + 1 ELSE IdOf(pair)
            rule   == [symbol |-> e.left.symbol, children |-> e.children, parent |-> parent]
<1>1. Ids \subseteq Ids'
  BY EmitGrows
<1>2. parent \in Ids'
  <2>1. CASE Known(pair)
    BY <2>1, <1>1, IdOfKnown
  <2>2. CASE ~Known(pair)
    <3>1. product_pairs' = Append(product_pairs, pair)
      BY <2>2 DEF EmitRule, AddProductRule, ProductId
    <3>. QED  BY <2>2, <3>1 DEF TypeOK, ChartTypeOK, Ids
  <2>. QED  BY <2>1, <2>2
<1>3. rule \in [symbol : Symbols, children : Seq(Ids'), parent : Ids']
  <2>1. e.children \in Seq(Ids')
    BY <1>1, SeqWiden DEF TypeOK, ChartTypeOK
  <2>2. e.left.symbol \in Symbols
    BY InputTypes DEF TypeOK, ChartTypeOK, ExplicitRules
  <2>. QED  BY <1>2, <2>1, <2>2
<1>4. queue' \in Seq(Ids')
  <2>1. queue \in Seq(Ids')
    BY <1>1, SeqWiden DEF TypeOK, ChartTypeOK
  <2>. QED  BY <1>2, <2>1 DEF EmitRule, AddProductRule, ProductId
<1>5. rules' \subseteq [symbol : Symbols, children : Seq(Ids'), parent : Ids']
  <2>1. rules' = rules \cup {rule}
    BY DEF EmitRule, AddProductRule, ProductId
  <2>2. \A x \in rules : x \in [symbol : Symbols, children : Seq(Ids'), parent : Ids']
    BY <1>1, SeqWiden DEF TypeOK, ChartTypeOK
  <2>. QED  BY <1>3, <2>1, <2>2
<1>6. accepting' \subseteq Ids'
  BY <1>1, <1>2 DEF EmitRule, AddProductRule, ProductId, TypeOK, ChartTypeOK
<1>7. duplicate' \in BOOLEAN
  BY DEF EmitRule, AddProductRule, ProductId, TypeOK, ChartTypeOK
<1>. QED  BY <1>4, <1>5, <1>6, <1>7
-----------------------------------------------------------------------------
(* The candidate edges of a trigger.                                        *)

LEMMA CandidateShape ==
  ASSUME NEW trigger, NEW cache, NEW e \in CandidateEdges(trigger, cache)
  PROVE  \E l \in left.rules : \E p \in DOMAIN l.children :
           \E r \in cache[<<p, product_pairs[trigger][2]>>] :
             /\ <<p, product_pairs[trigger][2]>> \in QueryKeys(trigger)
             /\ l.children[p] = product_pairs[trigger][1]
             /\ Joins(l, r)
             /\ ChildrenKnown(l, r)
             /\ e = Edge(l, r, p)
<1>1. PICK o \in Occurrences(product_pairs[trigger][1]) :
        \E r \in {x \in cache[<<o[2], product_pairs[trigger][2]>>] :
                     Joins(o[1], x) /\ ChildrenKnown(o[1], x)} : e = Edge(o[1], r, o[2])
  BY DEF CandidateEdges
<1>2. PICK l \in left.rules : \E p \in DOMAIN l.children :
             l.children[p] = product_pairs[trigger][1] /\ o = <<l, p>>
  BY DEF Occurrences
<1>3. PICK p \in DOMAIN l.children : l.children[p] = product_pairs[trigger][1] /\ o = <<l, p>>
  BY <1>2
<1>4. o[1] = l /\ o[2] = p
  BY <1>3
<1>5. <<p, product_pairs[trigger][2]>> \in QueryKeys(trigger)
  BY <1>4 DEF QueryKeys
<1>. QED  BY <1>1, <1>3, <1>4, <1>5

LEMMA EdgeChildren ==
  ASSUME TypeOK, NEW l \in left.rules, NEW r \in right.rules, NEW p \in DOMAIN l.children,
         Joins(l, r), ChildrenKnown(l, r), NEW e, e = Edge(l, r, p)
  PROVE  /\ e \in [left : left.rules, right : right.rules, position : Nat, children : Seq(Ids)]
         /\ e.left = l /\ e.right = r /\ e.position = p
         /\ DOMAIN e.children = DOMAIN l.children
         /\ \A i \in DOMAIN l.children :
               product_pairs[e.children[i]] = <<l.children[i], r.children[i]>>
<1>. DEFINE C(i) == IdOf(<<l.children[i], r.children[i]>>)
<1>1. e = [left |-> l, right |-> r, position |-> p, children |-> [i \in DOMAIN l.children |-> C(i)]]
  BY DEF Edge
<1>2. \A i \in DOMAIN l.children :
         C(i) \in Ids /\ product_pairs[C(i)] = <<l.children[i], r.children[i]>>
  BY IdOfKnown DEF ChildrenKnown
<1>3. l.children \in Seq(LeftStates)
  BY InputTypes DEF ExplicitRules
<1>4. PICK n \in Nat : DOMAIN l.children = 1..n
  BY <1>3
<1>5. e.children = [i \in 1..n |-> C(i)]
  BY <1>1, <1>4
<1>6. e.children \in [1..n -> Ids]
  <2>. HIDE DEF C
  <2>. QED  BY <1>2, <1>4, <1>5
<1>7. e.children \in Seq(Ids)
  BY <1>6, FunctionIsSeq
<1>. QED  BY <1>1, <1>2, <1>4, <1>5, <1>7

LEMMA EdgePairs ==
  ASSUME NEW l, NEW r, NEW p, ChildrenKnown(l, r)
  PROVE  /\ Edge(l, r, p).left = l
         /\ Edge(l, r, p).right = r
         /\ Edge(l, r, p).position = p
         /\ \A i \in DOMAIN l.children :
               product_pairs[Edge(l, r, p).children[i]] = <<l.children[i], r.children[i]>>
<1>. DEFINE C(i) == IdOf(<<l.children[i], r.children[i]>>)
<1>1. \A i \in DOMAIN l.children : product_pairs[C(i)] = <<l.children[i], r.children[i]>>
  BY IdOfKnown DEF ChildrenKnown
<1>2. Edge(l, r, p).children = [i \in DOMAIN l.children |-> C(i)]
  BY DEF Edge
<1>3. \A i \in DOMAIN l.children : Edge(l, r, p).children[i] = C(i)
  BY <1>2
<1>4. Edge(l, r, p).left = l /\ Edge(l, r, p).right = r /\ Edge(l, r, p).position = p
  BY DEF Edge
<1>. HIDE DEF C
<1>. QED  BY <1>1, <1>3, <1>4

LEMMA CandidateTypes ==
  ASSUME TypeOK, NEW trigger \in Ids, NEW cache,
         \A k \in QueryKeys(trigger) : cache[k] \subseteq right.rules,
         NEW e \in CandidateEdges(trigger, cache)
  PROVE  /\ e \in [left : left.rules, right : right.rules, position : Nat, children : Seq(Ids)]
         /\ Joins(e.left, e.right)
         /\ DOMAIN e.children = DOMAIN e.left.children
         /\ e.position \in DOMAIN e.children
<1>1. PICK l \in left.rules : \E p \in DOMAIN l.children :
         \E r \in cache[<<p, product_pairs[trigger][2]>>] :
             /\ <<p, product_pairs[trigger][2]>> \in QueryKeys(trigger)
             /\ Joins(l, r)
             /\ ChildrenKnown(l, r)
             /\ e = Edge(l, r, p)
  BY ONLY CandidateShape, e \in CandidateEdges(trigger, cache)
<1>2. PICK p \in DOMAIN l.children :
         \E r \in cache[<<p, product_pairs[trigger][2]>>] :
             /\ <<p, product_pairs[trigger][2]>> \in QueryKeys(trigger)
             /\ Joins(l, r)
             /\ ChildrenKnown(l, r)
             /\ e = Edge(l, r, p)
  BY <1>1
<1>3. PICK r \in right.rules : Joins(l, r) /\ ChildrenKnown(l, r) /\ e = Edge(l, r, p)
  BY <1>2
<1>. QED  BY <1>3, EdgeChildren

LEMMA NullaryTypes ==
  ASSUME TypeOK, NEW e \in NullaryEdges
  PROVE  /\ e \in [left : left.rules, right : right.rules, position : Nat, children : Seq(Ids)]
         /\ Joins(e.left, e.right)
         /\ e.left.children = <<>> /\ e.children = <<>>
         /\ e.position = 0
<1>1. PICK x \in left.rules \X right.rules :
        /\ Joins(x[1], x[2])
        /\ x[2].children = <<>>
        /\ e = [left |-> x[1], right |-> x[2], position |-> 0, children |-> <<>>]
  BY DEF NullaryEdges
<1>2. x[1].children \in Seq(LeftStates) /\ Len(x[1].children) = 0
  BY <1>1, InputTypes DEF Joins, ExplicitRules
<1>. QED  BY <1>1, <1>2

(* The oracle's answers are rules of the right automaton.                   *)
LEMMA CollectCaches ==
  ASSUME TypeOK, CollectCandidates
  PROVE  /\ \A k \in DOMAIN right_by_child_cache' : right_by_child_cache'[k] \subseteq right.rules
         /\ QueryKeys(current) \subseteq DOMAIN right_by_child_cache'
         /\ candidate_edges' \subseteq CandidateEdges(current, right_by_child_cache')
<1>. DEFINE cached == DOMAIN right_by_child_cache
            missed == QueryKeys(current) \ cached
            Extended(answers) == [k \in cached \cup missed |->
                                    IF k \in cached THEN right_by_child_cache[k] ELSE answers[k]]
<1>1. \A k \in cached : right_by_child_cache[k] \subseteq right.rules
  BY DEF TypeOK, ChartTypeOK
<1>2. PICK answers : /\ \A k \in missed : answers[k] \subseteq right.rules
                     /\ right_by_child_cache' = Extended(answers)
                     /\ candidate_edges' \subseteq CandidateEdges(current, right_by_child_cache')
  <2>1. CASE cancelled
    BY <2>1, Zenon DEF CollectCandidates, CondensedRulesByChild
  <2>2. CASE ~cancelled
    <3>. DEFINE answers == [k \in missed |-> CondensedRulesByChild(k[1], k[2])]
    <3>1. right_by_child_cache' = Extended(answers)
      BY <2>2 DEF CollectCandidates
    <3>2. candidate_edges' = CandidateEdges(current, right_by_child_cache')
      BY <2>2 DEF CollectCandidates
    <3>3. \A k \in missed : answers[k] \subseteq right.rules
      BY DEF CondensedRulesByChild
    <3>. QED  BY <3>1, <3>2, <3>3
  <2>. QED  BY <2>1, <2>2
<1>3. DOMAIN right_by_child_cache' = cached \cup missed
  BY <1>2
<1>. QED  BY <1>1, <1>2, <1>3
-----------------------------------------------------------------------------
(* Type correctness.                                                        *)

LEMMA TypeInit == Init => TypeOK
<1>. SUFFICES ASSUME Init PROVE TypeOK
  OBVIOUS
<1>1. product_pairs \in Seq(LeftStates \X RightStates) /\ queue \in Seq(Ids)
  BY EmptySeq DEF Init, InitChart
<1>2. DOMAIN right_by_child_cache = {}
  BY DEF Init, InitChart
<1>. QED  BY <1>1, <1>2 DEF Init, InitChart, TypeOK, ChartTypeOK

LEMMA TypeGiveUp ==
  ASSUME TypeOK, GiveUp
  PROVE  TypeOK'
BY DEF TypeOK, ChartTypeOK, GiveUp, input, chart, Ids

LEMMA TypeApplyEdge ==
  ASSUME TypeOK, NEW e \in candidate_edges, ApplyEdge(e)
  PROVE  TypeOK'
<1>1. CASE GiveUp
  BY <1>1, TypeGiveUp
<1>2. CASE EmitRule(e) /\ ~cancelled /\ candidate_edges' = candidate_edges \ {e}
           /\ UNCHANGED <<input, pc, current, right_by_child_cache, cancelled>>
  <2>1. Ids \subseteq Ids' /\ product_pairs' \in Seq(LeftStates \X RightStates)
    BY <1>2, EmitGrows
  <2>2. \A x \in candidate_edges' :
          /\ x \in [left : left.rules, right : right.rules, position : Nat, children : Seq(Ids')]
          /\ Joins(x.left, x.right)
          /\ DOMAIN x.children = DOMAIN x.left.children
          /\ x.position \in DOMAIN x.children \cup {0}
    <3>. SUFFICES ASSUME NEW x \in candidate_edges
                  PROVE  x \in [left : left.rules, right : right.rules, position : Nat,
                                children : Seq(Ids')]
      BY <1>2 DEF TypeOK, ChartTypeOK
    <3>1. x.children \in Seq(Ids')
      BY <2>1, SeqWiden DEF TypeOK, ChartTypeOK
    <3>. QED  BY <3>1 DEF TypeOK, ChartTypeOK
  <2>3. pc = "apply" /\ pc' = "apply"
    BY <1>2 DEF ApplyEdge
  <2>. QED  BY <1>2, <2>1, <2>2, <2>3, EmitTypes DEF TypeOK, ChartTypeOK, input
<1>3. CASE UNCHANGED chart /\ candidate_edges' = candidate_edges \ {e}
           /\ UNCHANGED <<input, pc, current, right_by_child_cache, cancelled>>
  BY <1>3 DEF TypeOK, ChartTypeOK, Ids, input, chart
<1>. QED  BY <1>1, <1>2, <1>3 DEF ApplyEdge

LEMMA TypePop ==
  ASSUME TypeOK, Pop
  PROVE  TypeOK'
<1>1. Head(queue) \in Ids /\ Tail(queue) \in Seq(Ids)
  BY DEF TypeOK, ChartTypeOK, Pop
<1>2. Ids' = Ids
  BY DEF Pop, Ids
<1>. QED  BY <1>1, <1>2 DEF TypeOK, ChartTypeOK, Pop, input

LEMMA TypeCollectCandidates ==
  ASSUME TypeOK, CollectCandidates
  PROVE  TypeOK'
<1>1. current \in Ids
  BY DEF TypeOK, ChartTypeOK, CollectCandidates
<1>2. \A k \in DOMAIN right_by_child_cache' : right_by_child_cache'[k] \subseteq right.rules
  BY CollectCaches
<1>3. \A e \in candidate_edges' :
        /\ e \in [left : left.rules, right : right.rules, position : Nat, children : Seq(Ids)]
        /\ Joins(e.left, e.right)
        /\ DOMAIN e.children = DOMAIN e.left.children
        /\ e.position \in DOMAIN e.children \cup {0}
  BY <1>1, CollectCaches, CandidateTypes
<1>4. Ids' = Ids /\ pc' = "check" /\ UNCHANGED <<input, chart, current, cancelled>>
  BY DEF CollectCandidates, chart, Ids
<1>. QED  BY <1>2, <1>3, <1>4 DEF TypeOK, ChartTypeOK, input, chart

LEMMA TypeCollectNullary ==
  ASSUME TypeOK, CollectNullary
  PROVE  TypeOK'
<1>1. candidate_edges' \subseteq NullaryEdges
  BY DEF CollectNullary
<1>2. \A e \in candidate_edges' :
        /\ e \in [left : left.rules, right : right.rules, position : Nat, children : Seq(Ids)]
        /\ Joins(e.left, e.right)
        /\ DOMAIN e.children = DOMAIN e.left.children
        /\ e.position \in DOMAIN e.children \cup {0}
  BY <1>1, NullaryTypes
<1>3. Ids' = Ids /\ pc' = "check" /\ UNCHANGED <<input, chart, current, right_by_child_cache, cancelled>>
  BY DEF CollectNullary, chart, Ids
<1>. QED  BY <1>2, <1>3 DEF TypeOK, ChartTypeOK, input, chart

LEMMA TypeNext == TypeOK /\ [Next]_vars => TypeOK'
<1>. SUFFICES ASSUME TypeOK, [Next]_vars PROVE TypeOK'
  OBVIOUS
<1>1. CASE Start
  BY <1>1, TypeGiveUp DEF Start, TypeOK, ChartTypeOK, input, chart, Ids
<1>2. CASE CollectNullary
  BY <1>2, TypeCollectNullary
<1>3. CASE CheckCollected
  BY <1>3, TypeGiveUp DEF CheckCollected, TypeOK, ChartTypeOK, input, chart, Ids
<1>4. ASSUME NEW e \in candidate_edges, ApplyEdge(e) PROVE TypeOK'
  BY <1>4, TypeApplyEdge
<1>5. CASE EndApply
  BY <1>5 DEF EndApply, TypeOK, ChartTypeOK, input, chart, Ids
<1>6. CASE Pop
  BY <1>6, TypePop
<1>7. CASE CollectCandidates
  BY <1>7, TypeCollectCandidates
<1>8. CASE Finish
  BY <1>8 DEF Finish, TypeOK, ChartTypeOK, input, chart, Ids
<1>9. CASE Cancel
  BY <1>9 DEF Cancel, TypeOK, ChartTypeOK, input, chart, Ids
<1>10. CASE UNCHANGED vars
  BY <1>10 DEF vars, TypeOK, ChartTypeOK, Ids
<1>. QED
  BY <1>1, <1>2, <1>3, <1>4, <1>5, <1>6, <1>7, <1>8, <1>9, <1>10 DEF Next, Work

(* The intersection keeps its state well typed: in particular every id in   *)
(* the queue and in a rule of the chart is the id of a product state.       *)
THEOREM TypeCorrect == Spec => []TypeOK
<1>1. Init => TypeOK
  BY TypeInit
<1>2. TypeOK /\ [Next]_vars => TypeOK'
  BY TypeNext
<1>. QED  BY <1>1, <1>2, PTL DEF Spec
-----------------------------------------------------------------------------
(* The kinds of steps.  A quiet step moves the program counter or raises    *)
(* the flag; every other step is one of five.                               *)

QuietStep ==
    /\ UNCHANGED <<input, chart, current, candidate_edges, right_by_child_cache>>
    /\ \/ pc' = pc /\ (cancelled' = cancelled \/ cancelled' = TRUE)
       \/ pc' = "cancelled" /\ cancelled' = cancelled
       \/ pc = "start" /\ pc' = "seed" /\ cancelled' = cancelled
       \/ pc = "check" /\ pc' = "apply" /\ ~cancelled /\ cancelled' = cancelled
       \/ pc = "apply" /\ pc' = "pop" /\ candidate_edges = {} /\ cancelled' = cancelled
       \/ pc = "pop" /\ pc' = "done" /\ queue = <<>> /\ cancelled' = cancelled

EdgeStep(e) ==
    /\ pc = "apply" /\ pc' = "apply"
    /\ e \in candidate_edges
    /\ candidate_edges' = candidate_edges \ {e}
    /\ UNCHANGED <<input, current, right_by_child_cache, cancelled>>

EmitStep(e) == EdgeStep(e) /\ Kept(e) /\ EmitRule(e)

SkipStep(e) == EdgeStep(e) /\ ~Kept(e) /\ UNCHANGED chart

LEMMA StepKinds ==
  ASSUME [Next]_vars
  PROVE  \/ QuietStep
         \/ CollectNullary
         \/ \E e \in candidate_edges : EmitStep(e)
         \/ \E e \in candidate_edges : SkipStep(e)
         \/ Pop
         \/ CollectCandidates
<1>1. CASE Start
  BY <1>1 DEF Start, GiveUp, QuietStep
<1>2. CASE CheckCollected
  BY <1>2 DEF CheckCollected, GiveUp, QuietStep
<1>3. ASSUME NEW e \in candidate_edges, ApplyEdge(e)
      PROVE  QuietStep \/ EmitStep(e) \/ SkipStep(e)
  <2>1. CASE GiveUp
    BY <2>1 DEF GiveUp, QuietStep
  <2>2. CASE ~GiveUp
    <3>1. EdgeStep(e)
      BY <1>3, <2>2 DEF ApplyEdge, EdgeStep
    <3>2. IF Kept(e) THEN EmitRule(e) ELSE UNCHANGED chart
      BY <1>3, <2>2 DEF ApplyEdge, Kept
    <3>. QED  BY <3>1, <3>2 DEF EmitStep, SkipStep
  <2>. QED  BY <2>1, <2>2
<1>4. CASE EndApply
  BY <1>4 DEF EndApply, QuietStep
<1>5. CASE Finish
  BY <1>5 DEF Finish, QuietStep
<1>6. CASE Cancel
  BY <1>6 DEF Cancel, QuietStep
<1>7. CASE UNCHANGED vars
  BY <1>7 DEF vars, QuietStep, input, chart
<1>. QED
  BY <1>1, <1>2, <1>3, <1>4, <1>5, <1>6, <1>7 DEF Next, Work

-----------------------------------------------------------------------------
(* What emitting an edge does to the chart.                                 *)

LEMMA EmitEffect ==
  ASSUME TypeOK, NEW e \in candidate_edges, EmitRule(e)
  PROVE  LET pair   == <<e.left.result, e.right.result>>
             parent == IF Known(pair) THEN IdOf(pair) ELSE Len(product_pairs) + 1
             rule   == [symbol |-> e.left.symbol, children |-> e.children, parent |-> parent]
         IN  /\ rules' = rules \cup {rule}
             /\ parent \in Ids'
             /\ product_pairs'[parent] = pair
             /\ duplicate' = (duplicate \/ rule \in rules)
             /\ Known(pair) => UNCHANGED <<product_pairs, accepting, queue>>
             /\ ~Known(pair) => /\ product_pairs' = Append(product_pairs, pair)
                                /\ Ids' = Ids \cup {parent}
                                /\ parent \notin Ids
                                /\ queue' = Append(queue, parent)
                                /\ accepting' = IF pair \in AcceptingPairs(left, right)
                                                  THEN accepting \cup {parent} ELSE accepting
<1>. DEFINE pair   == <<e.left.result, e.right.result>>
            parent == IF Known(pair) THEN IdOf(pair) ELSE Len(product_pairs) + 1
            rule   == [symbol |-> e.left.symbol, children |-> e.children, parent |-> parent]
<1>1. /\ rules' = rules \cup {rule}
      /\ duplicate' = (duplicate \/ rule \in rules)
  <2>1. CASE Known(pair)
    BY <2>1, Zenon DEF EmitRule, AddProductRule, ProductId
  <2>2. CASE ~Known(pair)
    BY <2>2, Zenon DEF EmitRule, AddProductRule, ProductId
  <2>. QED  BY <2>1, <2>2
<1>2. CASE Known(pair)
  <2>1. UNCHANGED <<product_pairs, accepting, queue>>
    BY <1>2 DEF EmitRule, AddProductRule, ProductId
  <2>2. Ids' = Ids
    BY <2>1 DEF Ids
  <2>. QED  BY <1>1, <1>2, <2>1, <2>2, IdOfKnown
<1>3. CASE ~Known(pair)
  <2>1. /\ product_pairs' = Append(product_pairs, pair)
        /\ queue' = Append(queue, parent)
        /\ accepting' = IF pair \in AcceptingPairs(left, right)
                          THEN accepting \cup {parent} ELSE accepting
    BY <1>3 DEF EmitRule, AddProductRule, ProductId
  <2>2. Ids' = Ids \cup {parent} /\ parent \notin Ids /\ product_pairs'[parent] = pair
    BY <1>3, <2>1 DEF TypeOK, ChartTypeOK, Ids
  <2>. QED  BY <1>1, <1>3, <2>1, <2>2
<1>. QED  BY <1>2, <1>3

(* The emitted rule, named. *)
LEMMA EmittedRule ==
  ASSUME TypeOK, NEW e \in candidate_edges, EmitRule(e)
  PROVE  \E new :
           /\ rules' = rules \cup {new}
           /\ new.symbol = e.left.symbol
           /\ new.children = e.children
           /\ new.parent \in Ids'
           /\ product_pairs'[new.parent] = <<e.left.result, e.right.result>>
           /\ new \in rules => product_pairs[new.parent] = <<e.left.result, e.right.result>>
           /\ duplicate' = (duplicate \/ new \in rules)
<1>. DEFINE pair   == <<e.left.result, e.right.result>>
            parent == IF Known(pair) THEN IdOf(pair) ELSE Len(product_pairs) + 1
            rule   == [symbol |-> e.left.symbol, children |-> e.children, parent |-> parent]
<1>1. /\ rules' = rules \cup {rule} /\ parent \in Ids' /\ product_pairs'[parent] = pair
      /\ duplicate' = (duplicate \/ rule \in rules)
      /\ ~Known(pair) => parent \notin Ids
  BY EmitEffect
<1>2. rule \in rules => parent \in Ids
  BY DEF TypeOK, ChartTypeOK
<1>3. Known(pair) => product_pairs[parent] = pair
  BY IdOfKnown
<1>4. rule.symbol = e.left.symbol /\ rule.children = e.children /\ rule.parent = parent
  OBVIOUS
<1>. HIDE DEF rule, parent
<1>. QED  BY <1>1, <1>2, <1>3, <1>4

-----------------------------------------------------------------------------
(* Ids and queue.                                                           *)

LEMMA OrderNext ==
  ASSUME TypeOK, IdsInOrder, [Next]_vars
  PROVE  IdsInOrder'
<1>1. CASE QuietStep
  BY <1>1 DEF QuietStep, IdsInOrder, Ids, input, chart
<1>2. CASE CollectNullary
  BY <1>2 DEF CollectNullary, IdsInOrder, Ids, input, chart
<1>3. ASSUME NEW e \in candidate_edges, EmitStep(e) PROVE IdsInOrder'
  <2>. DEFINE pair   == <<e.left.result, e.right.result>>
              parent == IF Known(pair) THEN IdOf(pair) ELSE Len(product_pairs) + 1
  <2>1. pc' = "apply" /\ current' = current
    BY <1>3 DEF EmitStep, EdgeStep
  <2>2. CASE Known(pair)
    <3>1. UNCHANGED <<product_pairs, queue>>
      BY <1>3, <2>2, EmitEffect DEF EmitStep
    <3>. QED  BY <2>1, <3>1 DEF IdsInOrder, Ids
  <2>3. CASE ~Known(pair)
    <3>1. /\ product_pairs' = Append(product_pairs, pair)
          /\ queue' = Append(queue, Len(product_pairs) + 1)
      BY <1>3, <2>3, EmitEffect DEF EmitStep
    <3>2. \A i \in Ids : product_pairs[i] # pair
      BY <2>3 DEF Known
    <3>3. \A i, j \in Ids' : product_pairs'[i] = product_pairs'[j] => i = j
      BY <3>1, <3>2 DEF IdsInOrder, TypeOK, ChartTypeOK, Ids
    <3>4. Len(product_pairs') = current + Len(queue')
      <4>1. /\ Len(product_pairs') = Len(product_pairs) + 1 /\ Len(queue') = Len(queue) + 1
            /\ Len(queue) \in Nat /\ current \in Nat
        BY <3>1 DEF TypeOK, ChartTypeOK, Ids
      <4>2. Len(product_pairs) = current + Len(queue)
        BY DEF IdsInOrder
      <4>. QED  BY <4>1, <4>2
    <3>5. \A i \in DOMAIN queue' : queue'[i] = current + i
      <4>1. /\ DOMAIN queue' = 1..(Len(queue) + 1)
            /\ \A i \in 1..Len(queue) : queue'[i] = queue[i] /\ i \in DOMAIN queue
            /\ queue'[Len(queue) + 1] = Len(product_pairs) + 1
            /\ Len(queue) \in Nat
        BY <3>1 DEF TypeOK, ChartTypeOK
      <4>2. current \in Nat
        BY DEF TypeOK, ChartTypeOK, Ids
      <4>3. \A i \in 1..Len(queue) : queue'[i] = current + i
        BY <4>1 DEF IdsInOrder
      <4>4. queue'[Len(queue) + 1] = current + (Len(queue) + 1)
        <5>1. Len(product_pairs) = current + Len(queue)
          BY DEF IdsInOrder
        <5>. QED  BY <4>1, <4>2, <5>1
      <4>5. \A i \in 1..(Len(queue) + 1) : i \in 1..Len(queue) \/ i = Len(queue) + 1
        BY <4>1
      <4>. QED  BY <4>1, <4>3, <4>4, <4>5
    <3>. QED  BY <2>1, <3>3, <3>4, <3>5 DEF IdsInOrder
  <2>. QED  BY <2>2, <2>3
<1>4. ASSUME NEW e \in candidate_edges, SkipStep(e) PROVE IdsInOrder'
  BY <1>4 DEF SkipStep, EdgeStep, IdsInOrder, Ids, input, chart
<1>5. CASE Pop
  <2>1. /\ queue # <<>> /\ queue' = Tail(queue) /\ current' = Head(queue)
        /\ product_pairs' = product_pairs
        /\ pc' \notin {"start", "seed"} /\ candidate_edges' = {}
    BY <1>5 DEF Pop, IdsInOrder
  <2>2. Head(queue) = current + 1 /\ Len(queue) > 0 /\ current \in Nat
    BY <2>1 DEF IdsInOrder, TypeOK, ChartTypeOK, Ids
  <2>3. Len(queue') = Len(queue) - 1 /\ \A i \in DOMAIN queue' : queue'[i] = queue[i + 1] /\ i + 1 \in DOMAIN queue
    BY <2>1 DEF TypeOK, ChartTypeOK
  <2>4. Len(product_pairs') = current' + Len(queue')
    <3>1. Len(product_pairs) = current + Len(queue)
      BY DEF IdsInOrder
    <3>2. Len(queue) \in Nat
      BY DEF TypeOK, ChartTypeOK
    <3>. QED  BY <2>1, <2>2, <2>3, <3>1, <3>2
  <2>5. \A i \in DOMAIN queue' : queue'[i] = current' + i
    <3>1. \A i \in DOMAIN queue : queue[i] = current + i
      BY DEF IdsInOrder
    <3>2. \A i \in DOMAIN queue' : i \in Nat
      BY <2>1 DEF TypeOK, ChartTypeOK
    <3>. QED  BY <2>1, <2>2, <2>3, <3>1, <3>2
  <2>6. \A i, j \in Ids' : product_pairs'[i] = product_pairs'[j] => i = j
    BY <2>1 DEF IdsInOrder, Ids
  <2>. QED  BY <2>1, <2>4, <2>5, <2>6 DEF IdsInOrder
<1>6. CASE CollectCandidates
  BY <1>6 DEF CollectCandidates, IdsInOrder, Ids, input, chart
<1>. QED  BY <1>1, <1>2, <1>3, <1>4, <1>5, <1>6, StepKinds
-----------------------------------------------------------------------------
(* Edges and rules stand for joined rules.                                  *)

LEMMA PopNext ==
  ASSUME TypeOK, IdsInOrder, Pop
  PROVE  current' = current + 1 /\ current \in Nat
BY DEF Pop, IdsInOrder, TypeOK, ChartTypeOK, Ids

LEMMA CandidateFaithful ==
  ASSUME TypeOK, NEW trigger \in Ids, NEW cache,
         \A k \in QueryKeys(trigger) : cache[k] \subseteq right.rules,
         NEW e \in CandidateEdges(trigger, cache)
  PROVE  /\ Combination(e.left, e.right, e.children)
         /\ e.position \in DOMAIN e.left.children
         /\ e.left.children[e.position] = product_pairs[trigger][1]
         /\ e.right \in cache[<<e.position, product_pairs[trigger][2]>>]
<1>1. PICK l \in left.rules : \E p \in DOMAIN l.children :
         \E r \in cache[<<p, product_pairs[trigger][2]>>] :
             /\ <<p, product_pairs[trigger][2]>> \in QueryKeys(trigger)
             /\ l.children[p] = product_pairs[trigger][1]
             /\ Joins(l, r)
             /\ ChildrenKnown(l, r)
             /\ e = Edge(l, r, p)
  BY ONLY CandidateShape, e \in CandidateEdges(trigger, cache)
<1>2. PICK p \in DOMAIN l.children :
         \E r \in cache[<<p, product_pairs[trigger][2]>>] :
             /\ <<p, product_pairs[trigger][2]>> \in QueryKeys(trigger)
             /\ l.children[p] = product_pairs[trigger][1]
             /\ Joins(l, r)
             /\ ChildrenKnown(l, r)
             /\ e = Edge(l, r, p)
  BY <1>1
<1>3. PICK r \in right.rules :
             /\ r \in cache[<<p, product_pairs[trigger][2]>>]
             /\ l.children[p] = product_pairs[trigger][1]
             /\ Joins(l, r)
             /\ ChildrenKnown(l, r)
             /\ e = Edge(l, r, p)
  BY <1>2
<1>4. /\ e.left = l /\ e.right = r /\ e.position = p
      /\ \A i \in DOMAIN l.children :
            product_pairs[e.children[i]] = <<l.children[i], r.children[i]>>
  <2>1. ChildrenKnown(l, r) /\ e = Edge(l, r, p)
    BY <1>3
  <2>2. /\ Edge(l, r, p).left = l /\ Edge(l, r, p).right = r /\ Edge(l, r, p).position = p
        /\ \A i \in DOMAIN l.children :
              product_pairs[Edge(l, r, p).children[i]] = <<l.children[i], r.children[i]>>
    BY ONLY <2>1, EdgePairs
  <2>. DEFINE edge == Edge(l, r, p)
  <2>3. e = edge
    BY <2>1
  <2>. HIDE DEF edge
  <2>. QED  BY ONLY <2>2, <2>3 DEF edge
<1>. QED  BY <1>3, <1>4 DEF Combination

LEMMA FaithfulNext ==
  ASSUME TypeOK, IdsInOrder, Faithful, [Next]_vars
  PROVE  Faithful'
<1>1. CASE QuietStep
  BY <1>1 DEF QuietStep, Faithful, Combination, Emits, input, chart
<1>2. CASE CollectNullary
  <2>1. rules' = {}
    BY <1>2 DEF CollectNullary, IdsInOrder, chart
  <2>2. candidate_edges' \subseteq NullaryEdges
    BY <1>2 DEF CollectNullary
  <2>3. \A e \in NullaryEdges : Joins(e.left, e.right) /\ e.left.children = <<>> /\ e.children = <<>>
    BY NullaryTypes
  <2>. QED  BY <2>1, <2>2, <2>3 DEF Faithful, Combination
<1>3. ASSUME NEW e \in candidate_edges, EmitStep(e) PROVE Faithful'
  <2>1. PICK new : /\ rules' = rules \cup {new}
                   /\ new.symbol = e.left.symbol
                   /\ new.children = e.children
                   /\ product_pairs'[new.parent] = <<e.left.result, e.right.result>>
    BY <1>3, EmittedRule DEF EmitStep
  <2>2. /\ pc' = "apply" /\ candidate_edges' = candidate_edges \ {e}
        /\ left' = left /\ right' = right /\ current' = current
    BY <1>3 DEF EmitStep, EdgeStep, input
  <2>3. \A i \in Ids : product_pairs'[i] = product_pairs[i]
    BY <1>3, EmitGrows DEF EmitStep
  <2>4. \A x \in candidate_edges :
          Combination(x.left, x.right, x.children)' /\ (x.position = 0 => x.children = <<>>)
    <3>. SUFFICES ASSUME NEW x \in candidate_edges
                  PROVE  /\ Combination(x.left, x.right, x.children)'
                         /\ x.position = 0 => x.children = <<>>
      OBVIOUS
    <3>1. \A i \in DOMAIN x.left.children : x.children[i] \in Ids
      BY DEF TypeOK, ChartTypeOK
    <3>. QED  BY <2>3, <3>1 DEF Faithful, Combination
  <2>5. ASSUME NEW rule \in rules
        PROVE  /\ \E l \in left.rules, r \in right.rules :
                     /\ DOMAIN rule.children = DOMAIN l.children
                     /\ Combination(l, r, rule.children)'
                     /\ Emits(rule, l, r, rule.children)'
               /\ \A i \in DOMAIN rule.children : rule.children[i] <= current
    <3>1. PICK l \in left.rules, r \in right.rules :
             /\ DOMAIN rule.children = DOMAIN l.children
             /\ Combination(l, r, rule.children)
             /\ Emits(rule, l, r, rule.children)
      BY DEF Faithful
    <3>2. rule.parent \in Ids /\ \A i \in DOMAIN rule.children : rule.children[i] \in Ids
      BY DEF TypeOK, ChartTypeOK
    <3>3. Combination(l, r, rule.children)' /\ Emits(rule, l, r, rule.children)'
      BY <2>3, <3>1, <3>2 DEF Combination, Emits
    <3>. QED  BY <3>1, <3>3 DEF Faithful
  <2>6. /\ \E l \in left.rules, r \in right.rules :
              /\ DOMAIN new.children = DOMAIN l.children
              /\ Combination(l, r, new.children)'
              /\ Emits(new, l, r, new.children)'
        /\ \A i \in DOMAIN new.children : new.children[i] <= current
    <3>1. e.left \in left.rules /\ e.right \in right.rules /\ DOMAIN e.children = DOMAIN e.left.children
      BY DEF TypeOK, ChartTypeOK
    <3>2. Emits(new, e.left, e.right, new.children)'
      BY <2>1 DEF Emits
    <3>3. \A i \in DOMAIN e.children : e.children[i] <= current
      <4>1. CASE e.position = 0
        BY <4>1 DEF Faithful
      <4>2. CASE e.position # 0
        BY <1>3, <4>2 DEF EmitStep, Kept, CurrentProductIsLatest
      <4>. QED  BY <4>1, <4>2
    <3>. QED  BY <2>1, <2>4, <3>1, <3>2, <3>3
  <2>. QED  BY <2>1, <2>2, <2>4, <2>5, <2>6 DEF Faithful
<1>4. ASSUME NEW e \in candidate_edges, SkipStep(e) PROVE Faithful'
  BY <1>4 DEF SkipStep, EdgeStep, Faithful, Combination, Emits, input, chart
<1>5. CASE Pop
  <2>1. /\ UNCHANGED <<left, right, product_pairs, rules, candidate_edges>>
        /\ current' = current + 1 /\ current \in Nat
    BY <1>5, PopNext DEF Pop, input
  <2>2. \A rule \in rules : \A i \in DOMAIN rule.children :
           rule.children[i] \in Nat /\ rule.children[i] <= current
    BY DEF TypeOK, ChartTypeOK, Ids, Faithful
  <2>3. \A rule \in rules : \A i \in DOMAIN rule.children :
           rule.children[i] <= current + 1 /\ rule.children[i] < current + 1
    BY <2>1, <2>2
  <2>. QED  BY <2>1, <2>3 DEF Faithful, Combination, Emits
<1>6. CASE CollectCandidates
  <2>1. /\ current \in Ids /\ pc' = "check"
        /\ UNCHANGED <<left, right, product_pairs, rules, current>>
    BY <1>6 DEF CollectCandidates, TypeOK, ChartTypeOK, input, chart
  <2>2. \A e \in candidate_edges' : Combination(e.left, e.right, e.children) /\ e.position # 0
    <3>. SUFFICES ASSUME NEW e \in candidate_edges'
                  PROVE  Combination(e.left, e.right, e.children) /\ e.position # 0
      OBVIOUS
    <3>1. Combination(e.left, e.right, e.children) /\ e.position \in DOMAIN e.left.children
      BY <1>6, <2>1, CollectCaches, CandidateFaithful
    <3>2. e.left.children \in Seq(LeftStates)
      BY <1>6, <2>1, CollectCaches, CandidateTypes, InputTypes DEF ExplicitRules
    <3>. QED  BY <3>1, <3>2
  <2>. QED  BY <2>1, <2>2 DEF Faithful, Combination, Emits
<1>. QED  BY <1>1, <1>2, <1>3, <1>4, <1>5, <1>6, StepKinds
-----------------------------------------------------------------------------
(* No transition is handed to the builder twice.                            *)

(* Sequences that agree at every position of their common domain are equal. *)
LEMMA SeqExtensional ==
  ASSUME NEW S, NEW s \in Seq(S), NEW t \in Seq(S),
         DOMAIN s = DOMAIN t, \A i \in DOMAIN s : s[i] = t[i]
  PROVE  s = t
<1>1. /\ DOMAIN s = 1..Len(s) /\ DOMAIN t = 1..Len(t)
      /\ Len(s) \in Nat /\ Len(t) \in Nat
  OBVIOUS
<1>2. ~(Len(s) < Len(t))
  <2>1. Len(s) < Len(t) => Len(t) \in 1..Len(t) /\ Len(t) \notin 1..Len(s)
    BY <1>1
  <2>. QED  BY <1>1, <2>1
<1>3. ~(Len(t) < Len(s))
  <2>1. Len(t) < Len(s) => Len(s) \in 1..Len(s) /\ Len(s) \notin 1..Len(t)
    BY <1>1
  <2>. QED  BY <1>1, <2>1
<1>. QED  BY <1>1, <1>2, <1>3, SeqEqual

(* Two rules of a side that join over the same product ids have the same    *)
(* children.                                                                *)
LEMMA SameChildren ==
  ASSUME TypeOK,
         NEW l1 \in left.rules, NEW r1 \in right.rules,
         NEW l2 \in left.rules, NEW r2 \in right.rules, NEW c,
         DOMAIN c = DOMAIN l1.children, DOMAIN c = DOMAIN l2.children,
         Combination(l1, r1, c), Combination(l2, r2, c)
  PROVE  l1.children = l2.children /\ r1.children = r2.children
<1>1. /\ l1.children \in Seq(LeftStates) /\ l2.children \in Seq(LeftStates)
      /\ r1.children \in Seq(RightStates) /\ r2.children \in Seq(RightStates)
  BY InputTypes DEF ExplicitRules, CondensedRules
<1>2. \A i \in DOMAIN c : l1.children[i] = l2.children[i] /\ r1.children[i] = r2.children[i]
  <2>. SUFFICES ASSUME NEW i \in DOMAIN c
                PROVE  l1.children[i] = l2.children[i] /\ r1.children[i] = r2.children[i]
    OBVIOUS
  <2>1. /\ product_pairs[c[i]] = <<l1.children[i], r1.children[i]>>
        /\ product_pairs[c[i]] = <<l2.children[i], r2.children[i]>>
    BY DEF Combination
  <2>. QED  BY <2>1
<1>3. l1.children = l2.children
  BY <1>1, <1>2, SeqExtensional
<1>4. DOMAIN r1.children = DOMAIN c /\ DOMAIN r2.children = DOMAIN c
  <2>1. Len(l1.children) = Len(r1.children) /\ Len(l2.children) = Len(r2.children)
    BY DEF Combination, Joins
  <2>2. /\ DOMAIN l1.children = 1..Len(l1.children) /\ DOMAIN r1.children = 1..Len(r1.children)
        /\ DOMAIN l2.children = 1..Len(l2.children) /\ DOMAIN r2.children = 1..Len(r2.children)
    BY ONLY <1>1, LenProperties
  <2>. QED  BY <2>1, <2>2
<1>5. r1.children = r2.children
  BY <1>1, <1>2, <1>4, SeqExtensional
<1>. QED  BY <1>3, <1>5

(* A rule is its symbol, its children and its result.                       *)
LEMMA RuleFields ==
  ASSUME NEW l \in ExplicitRules, NEW m \in ExplicitRules,
         l.symbol = m.symbol, l.children = m.children, l.result = m.result
  PROVE  l = m
BY DEF ExplicitRules

(* An emitted transition determines the two rules it was joined from.       *)
LEMMA SameRules ==
  ASSUME TypeOK,
         NEW l1 \in left.rules, NEW r1 \in right.rules,
         NEW l2 \in left.rules, NEW r2 \in right.rules, NEW c,
         DOMAIN c = DOMAIN l1.children, DOMAIN c = DOMAIN l2.children,
         Combination(l1, r1, c), Combination(l2, r2, c),
         l1.symbol = l2.symbol, l1.result = l2.result, r1.result = r2.result
  PROVE  l1 = l2 /\ r1 = r2
<1>1. l1.children = l2.children /\ r1.children = r2.children
  BY SameChildren, ZenonT(60)
<1>2. l1 \in ExplicitRules /\ l2 \in ExplicitRules
  BY InputTypes
<1>3. l1 = l2
  <2>1. l1.symbol = l2.symbol /\ l1.result = l2.result
    OBVIOUS
  <2>2. l1.children = l2.children
    BY <1>1
  <2>. QED  BY ONLY <1>2, <2>1, <2>2, RuleFields, Zenon
<1>4. r1.symbols \cap r2.symbols # {}
  BY DEF Combination, Joins
<1>5. IsCondensed(right)
  BY InputsAreAutomata DEF TypeOK, ChartTypeOK
<1>. QED  BY <1>1, <1>3, <1>4, <1>5 DEF IsCondensed

LEMMA KeptInjective ==
  ASSUME TypeOK, Faithful,
         NEW e1 \in candidate_edges, NEW e2 \in candidate_edges, Kept(e1), Kept(e2),
         e1.children = e2.children, e1.left.symbol = e2.left.symbol,
         e1.left.result = e2.left.result, e1.right.result = e2.right.result
  PROVE  e1 = e2
<1>1. /\ e1 \in [left : left.rules, right : right.rules, position : Nat, children : Seq(Ids)]
      /\ e2 \in [left : left.rules, right : right.rules, position : Nat, children : Seq(Ids)]
      /\ DOMAIN e1.children = DOMAIN e1.left.children
      /\ DOMAIN e2.children = DOMAIN e2.left.children
      /\ e1.position \in DOMAIN e1.children \cup {0}
      /\ e2.position \in DOMAIN e2.children \cup {0}
  BY DEF TypeOK, ChartTypeOK
<1>2. /\ Combination(e1.left, e1.right, e1.children)
      /\ Combination(e2.left, e2.right, e1.children)
      /\ e1.position = 0 => e1.children = <<>>
      /\ e2.position = 0 => e1.children = <<>>
  BY DEF Faithful
<1>3. e1.left = e2.left /\ e1.right = e2.right
  <2>1. /\ e1.left \in left.rules /\ e2.left \in left.rules
        /\ e1.right \in right.rules /\ e2.right \in right.rules
    BY <1>1
  <2>. QED  BY <1>1, <1>2, <2>1, SameRules
<1>4. e1.position = e2.position
  <2>1. CASE e1.position = 0 \/ e2.position = 0
    BY <1>1, <1>2, <2>1
  <2>2. CASE e1.position # 0 /\ e2.position # 0
    <3>1. /\ CurrentProductIsLatest(e1.children, e1.position, current)
          /\ CurrentProductIsLatest(e1.children, e2.position, current)
      BY <2>2 DEF Kept
    <3>2. \A i \in DOMAIN e1.children : e1.children[i] \in Nat /\ i \in Nat
      BY <1>1 DEF TypeOK, ChartTypeOK, Ids
    <3>3. e1.position \in Nat /\ e2.position \in Nat
      BY <1>1
    <3>4. ~(e1.position < e2.position) /\ ~(e2.position < e1.position)
      BY <1>1, <2>2, <3>1, <3>2, <3>3 DEF CurrentProductIsLatest
    <3>. QED  BY <3>3, <3>4
  <2>. QED  BY <2>1, <2>2
<1>. QED  BY <1>1, <1>3, <1>4

LEMMA FreshNext ==
  ASSUME TypeOK, IdsInOrder, Faithful, Fresh, [Next]_vars
  PROVE  Fresh'
<1>1. CASE QuietStep
  BY <1>1 DEF QuietStep, Fresh, Kept, Emits, input, chart
<1>2. CASE CollectNullary
  BY <1>2 DEF CollectNullary, IdsInOrder, Fresh, chart
<1>3. ASSUME NEW e \in candidate_edges, EmitStep(e) PROVE Fresh'
  <2>1. PICK new : /\ rules' = rules \cup {new}
                   /\ new.symbol = e.left.symbol
                   /\ product_pairs'[new.parent] = <<e.left.result, e.right.result>>
                   /\ new.children = e.children
    BY <1>3, EmittedRule DEF EmitStep
  <2>2. candidate_edges' = candidate_edges \ {e} /\ current' = current /\ Kept(e)
    BY <1>3 DEF EmitStep, EdgeStep
  <2>3. \A i \in Ids : product_pairs'[i] = product_pairs[i]
    BY <1>3, EmitGrows DEF EmitStep
  <2>4. SUFFICES ASSUME NEW x \in candidate_edges, x # e, Kept(x),
                        NEW rule \in rules', Emits(rule, x.left, x.right, x.children)'
                 PROVE  FALSE
    BY <2>2 DEF Fresh, Kept
  <2>5. CASE rule \in rules
    <3>1. rule.parent \in Ids
      BY <2>5 DEF TypeOK, ChartTypeOK
    <3>2. Emits(rule, x.left, x.right, x.children)
      BY <2>3, <2>4, <3>1 DEF Emits
    <3>. QED  BY <2>4, <2>5, <3>2 DEF Fresh
  <2>6. CASE rule = new
    <3>1. /\ e.children = x.children /\ e.left.symbol = x.left.symbol
          /\ <<e.left.result, e.right.result>> = <<x.left.result, x.right.result>>
      BY <2>1, <2>4, <2>6 DEF Emits
    <3>2. e.left.result = x.left.result /\ e.right.result = x.right.result
      BY <3>1
    <3>. QED  BY <2>2, <2>4, <3>1, <3>2, KeptInjective
  <2>. QED  BY <2>1, <2>4, <2>5, <2>6
<1>4. ASSUME NEW e \in candidate_edges, SkipStep(e) PROVE Fresh'
  BY <1>4 DEF SkipStep, EdgeStep, Fresh, Kept, Emits, chart
<1>5. CASE Pop
  BY <1>5 DEF Pop, IdsInOrder, Fresh
<1>6. CASE CollectCandidates
  <2>1. /\ current \in Ids /\ pc = "collect"
        /\ UNCHANGED <<product_pairs, rules, current>>
    BY <1>6 DEF CollectCandidates, TypeOK, ChartTypeOK, chart
  <2>2. SUFFICES ASSUME NEW e \in candidate_edges', Kept(e), NEW rule \in rules
                 PROVE  rule.children # e.children
    BY <2>1 DEF Fresh, Kept, Emits
  <2>3. e.position \in DOMAIN e.children /\ e.position # 0
    <3>1. /\ e.position \in DOMAIN e.left.children
          /\ e.left \in left.rules
          /\ DOMAIN e.children = DOMAIN e.left.children
      BY <1>6, <2>1, CollectCaches, CandidateFaithful, CandidateTypes
    <3>2. e.left.children \in Seq(LeftStates)
      BY <3>1, InputTypes DEF ExplicitRules
    <3>. QED  BY <3>1, <3>2
  <2>4. e.children[e.position] = current
    BY <2>2, <2>3 DEF Kept, CurrentProductIsLatest
  <2>5. \A i \in DOMAIN rule.children : rule.children[i] < current
    BY <2>1 DEF Faithful
  <2>6. ~(current < current)
    BY <2>1, IdsAreInterval
  <2>. QED  BY <2>3, <2>4, <2>5, <2>6
<1>. QED  BY <1>1, <1>2, <1>3, <1>4, <1>5, <1>6, StepKinds

LEMMA NoDuplicateNext ==
  ASSUME TypeOK, Fresh, NoDuplicateRule, [Next]_vars
  PROVE  NoDuplicateRule'
<1>1. ASSUME NEW e \in candidate_edges, EmitStep(e) PROVE NoDuplicateRule'
  <2>1. PICK new : /\ new.symbol = e.left.symbol
                   /\ new.children = e.children
                   /\ new \in rules => product_pairs[new.parent] = <<e.left.result, e.right.result>>
                   /\ duplicate' = (duplicate \/ new \in rules)
    BY <1>1, EmittedRule DEF EmitStep
  <2>2. new \in rules => Emits(new, e.left, e.right, e.children)
    BY <2>1 DEF Emits
  <2>3. new \notin rules
    BY <1>1, <2>2 DEF Fresh, EmitStep
  <2>. QED  BY <2>1, <2>3 DEF NoDuplicateRule
<1>2. ~(\E e \in candidate_edges : EmitStep(e)) => duplicate' = duplicate
  BY StepKinds DEF QuietStep, CollectNullary, SkipStep, Pop, CollectCandidates, chart
<1>. QED  BY <1>1, <1>2 DEF NoDuplicateRule

-----------------------------------------------------------------------------
(* Every product state is supported by a rule over older product states.    *)

LEMMA WellFoundedNext ==
  ASSUME TypeOK, WellFounded, [Next]_vars
  PROVE  WellFounded'
<1>1. ASSUME NEW e \in candidate_edges, EmitStep(e) PROVE WellFounded'
  <2>. DEFINE pair   == <<e.left.result, e.right.result>>
  <2>1. rules \subseteq rules'
    BY <1>1 DEF EmitStep, EmitRule, AddProductRule
  <2>2. CASE Known(pair)
    <3>1. Ids' = Ids
      BY <1>1, <2>2, EmitEffect DEF EmitStep, Ids
    <3>. QED  BY <2>1, <3>1 DEF WellFounded
  <2>3. CASE ~Known(pair)
    <3>. DEFINE top  == Len(product_pairs) + 1
                rule == [symbol |-> e.left.symbol, children |-> e.children, parent |-> top]
    <3>1. rule \in rules' /\ Ids' = Ids \cup {top}
      BY <1>1, <2>3, EmitEffect DEF EmitStep
    <3>2. \A c \in DOMAIN e.children : e.children[c] \in Ids
      BY DEF TypeOK, ChartTypeOK
    <3>3. rule.parent = top /\ \A c \in DOMAIN rule.children : rule.children[c] < top
      BY <3>2, IdsAreInterval
    <3>. HIDE DEF rule, top
    <3>. QED  BY <2>1, <3>1, <3>3 DEF WellFounded
  <2>. QED  BY <2>2, <2>3
<1>2. ~(\E e \in candidate_edges : EmitStep(e)) => UNCHANGED <<product_pairs, rules>>
  BY StepKinds DEF QuietStep, CollectNullary, SkipStep, Pop, CollectCandidates, chart
<1>. QED  BY <1>1, <1>2 DEF WellFounded, Ids

-----------------------------------------------------------------------------
(* Product states are derivable.                                            *)

(* The derivable states are closed under the rules. *)
LEMMA DerivableClosed ==
  ASSUME NEW set, NEW r \in set, Range(r.children) \subseteq Derivable(set)
  PROVE  r.result \in Derivable(set)
<1>1. r.result \in Results(set)
  BY DEF Results
<1>2. ASSUME NEW S \in SUBSET Results(set), Closed(S, set) PROVE r.result \in S
  <2>1. Range(r.children) \subseteq S
    BY <1>2 DEF Derivable
  <2>. QED  BY <1>2, <2>1 DEF Closed
<1>. QED  BY <1>1, <1>2 DEF Derivable

(* Every closed set of results contains the derivable states. *)
LEMMA DerivableLeast ==
  ASSUME NEW set, NEW S, S \subseteq Results(set), Closed(S, set)
  PROVE  Derivable(set) \subseteq S
BY DEF Derivable

(* What it takes to be a rule of the product. *)
LEMMA ProductRuleIn ==
  ASSUME NEW l \in left.rules, NEW r \in right.rules, Joins(l, r)
  PROVE  ProductRule(l, r) \in ProductRules(left, right)
<1>1. <<l, r>> \in {y \in left.rules \X right.rules : Joins(y[1], y[2])}
  OBVIOUS
<1>2. ProductRule(<<l, r>>[1], <<l, r>>[2]) = ProductRule(l, r)
  OBVIOUS
<1>. QED  BY <1>1, <1>2 DEF ProductRules

(* Children of a combination are the members of the product rule's children. *)
LEMMA CombinationMembers ==
  ASSUME NEW l, NEW r, NEW c, Combination(l, r, c), \A i \in DOMAIN l.children : c[i] \in Ids
  PROVE  Range(ProductRule(l, r).children) \subseteq Pairs
<1>1. ProductRule(l, r).children = [i \in DOMAIN l.children |-> <<l.children[i], r.children[i]>>]
  BY DEF ProductRule
<1>2. \A i \in DOMAIN l.children : <<l.children[i], r.children[i]>> \in Pairs
  BY DEF Combination, Pairs
<1>. QED  BY <1>1, <1>2 DEF Range

LEMMA SoundNext ==
  ASSUME TypeOK, Faithful, Sound, [Next]_vars
  PROVE  Sound'
<1>0. left' = left /\ right' = right
  BY StepKinds DEF QuietStep, CollectNullary, EmitStep, SkipStep, EdgeStep, Pop, CollectCandidates,
                   input
<1>1. ASSUME NEW e \in candidate_edges, EmitStep(e) PROVE Sound'
  <2>. DEFINE pair == <<e.left.result, e.right.result>>
              top  == Len(product_pairs) + 1
  <2>1. CASE Known(pair)
    <3>1. UNCHANGED <<product_pairs, accepting>>
      BY <1>1, <2>1, EmitEffect DEF EmitStep
    <3>. QED  BY <1>0, <3>1 DEF Sound, Pairs, Ids
  <2>2. CASE ~Known(pair)
    <3>1. /\ Ids' = Ids \cup {top} /\ top \notin Ids
          /\ product_pairs'[top] = pair
          /\ accepting' = IF pair \in AcceptingPairs(left, right)
                            THEN accepting \cup {top} ELSE accepting
      BY <1>1, <2>2, EmitEffect DEF EmitStep
    <3>2. \A i \in Ids : product_pairs'[i] = product_pairs[i]
      BY <1>1, EmitGrows DEF EmitStep
    <3>3. pair \in Derivable(ProductRules(left, right))
      <4>1. /\ e.left \in left.rules /\ e.right \in right.rules
            /\ Joins(e.left, e.right)
            /\ \A i \in DOMAIN e.left.children : e.children[i] \in Ids
        BY DEF TypeOK, ChartTypeOK
      <4>2. Range(ProductRule(e.left, e.right).children) \subseteq Pairs
        BY <4>1, CombinationMembers DEF Faithful
      <4>3. Range(ProductRule(e.left, e.right).children) \subseteq Derivable(ProductRules(left, right))
        BY <4>2 DEF Sound
      <4>4. ProductRule(e.left, e.right) \in ProductRules(left, right)
        BY <4>1, ProductRuleIn
      <4>5. ProductRule(e.left, e.right).result = pair
        BY DEF ProductRule
      <4>. QED  BY <4>3, <4>4, <4>5, DerivableClosed
    <3>4. Pairs' \subseteq Derivable(ProductRules(left, right))
      <4>1. Pairs' = Pairs \cup {pair}
        BY <3>1, <3>2 DEF Pairs
      <4>. QED  BY <3>3, <4>1 DEF Sound
    <3>5. accepting' = {i \in Ids' : product_pairs'[i] \in AcceptingPairs(left, right)}
      BY <3>1, <3>2 DEF Sound
    <3>. QED  BY <1>0, <3>4, <3>5 DEF Sound
  <2>. QED  BY <2>1, <2>2
<1>2. ~(\E e \in candidate_edges : EmitStep(e)) => UNCHANGED <<product_pairs, accepting>>
  BY StepKinds DEF QuietStep, CollectNullary, SkipStep, Pop, CollectCandidates, chart
<1>. QED  BY <1>0, <1>1, <1>2 DEF Sound, Pairs, Ids

-----------------------------------------------------------------------------
(* Cached answers.                                                          *)

LEMMA CacheNext ==
  ASSUME TypeOK, CacheComplete, [Next]_vars
  PROVE  CacheComplete'
<1>1. CASE QuietStep
  BY <1>1 DEF QuietStep, CacheComplete, CondensedRulesByChild, input
<1>2. CASE CollectNullary
  BY <1>2 DEF CollectNullary, CacheComplete, CondensedRulesByChild, input
<1>3. ASSUME NEW e \in candidate_edges, EmitStep(e) \/ SkipStep(e) PROVE CacheComplete'
  BY <1>3 DEF EmitStep, SkipStep, EdgeStep, CacheComplete, CondensedRulesByChild, input
<1>4. CASE Pop
  BY <1>4 DEF Pop, CacheComplete, CondensedRulesByChild, input
<1>5. CASE CollectCandidates
  <2>1. CASE cancelled
    BY <1>5, <2>1 DEF CollectCandidates, CacheComplete
  <2>2. CASE ~cancelled
    <3>. DEFINE cached == DOMAIN right_by_child_cache
                missed == QueryKeys(current) \ cached
                Answer(k) == CondensedRulesByChild(k[1], k[2])
    <3>1. right_by_child_cache' = [k \in cached \cup missed |->
             IF k \in cached THEN right_by_child_cache[k] ELSE [m \in missed |-> Answer(m)][k]]
      BY <1>5, <2>2 DEF CollectCandidates
    <3>2. \A k \in cached : right_by_child_cache[k] = Answer(k)
      BY <1>5 DEF CollectCandidates, CacheComplete
    <3>3. \A k \in DOMAIN right_by_child_cache' : right_by_child_cache'[k] = Answer(k)
      BY <3>1, <3>2
    <3>4. right' = right
      BY <1>5 DEF CollectCandidates, input
    <3>. QED  BY <3>3, <3>4 DEF CacheComplete, CondensedRulesByChild
  <2>. QED  BY <2>1, <2>2
<1>. QED  BY <1>1, <1>2, <1>3, <1>4, <1>5, StepKinds
-----------------------------------------------------------------------------
(* Coverage: no combination of popped product states is missed.             *)

LEMMA LeastIndex ==
  ASSUME NEW T, T \subseteq Nat, T # {}
  PROVE  \E m \in T : \A k \in T : m <= k
<1>1. PICK m \in T : \A k \in T : ~(<<k, m>> \in OpToRel(<, Nat))
  BY NatLessThanWellFounded, WFMin
<1>2. \A k \in T : k \in Nat /\ m \in Nat
  OBVIOUS
<1>3. \A k \in T : ~(k < m)
  BY <1>1, <1>2, Zenon DEF OpToRel
<1>. QED  BY <1>2, <1>3

(* The converse of CandidateShape: a joined pair of rules whose children    *)
(* are known is reported at each position where the trigger stands.         *)
LEMMA CandidateReported ==
  ASSUME NEW trigger, NEW cache, NEW l \in left.rules, NEW p \in DOMAIN l.children, NEW r,
         r \in cache[<<p, product_pairs[trigger][2]>>],
         l.children[p] = product_pairs[trigger][1],
         Joins(l, r), ChildrenKnown(l, r)
  PROVE  Edge(l, r, p) \in CandidateEdges(trigger, cache)
<1>1. <<l, p>> \in Occurrences(product_pairs[trigger][1])
  BY DEF Occurrences
<1>2. <<l, p>>[1] = l /\ <<l, p>>[2] = p
  OBVIOUS
<1>3. r \in {x \in cache[<<p, product_pairs[trigger][2]>>] : Joins(l, x) /\ ChildrenKnown(l, x)}
  OBVIOUS
<1>. DEFINE Answers(o) == {x \in cache[<<o[2], product_pairs[trigger][2]>>] :
                              Joins(o[1], x) /\ ChildrenKnown(o[1], x)}
            Reported(o) == {Edge(o[1], x, o[2]) : x \in Answers(o)}
<1>4. r \in Answers(<<l, p>>)
  BY <1>2, <1>3
<1>5. Edge(l, r, p) \in Reported(<<l, p>>)
  BY <1>2, <1>4
<1>6. CandidateEdges(trigger, cache) = UNION {Reported(o) : o \in Occurrences(product_pairs[trigger][1])}
  BY DEF CandidateEdges
<1>. HIDE DEF Reported
<1>. QED  BY <1>1, <1>5, <1>6

(* Under one coding of pairs by ids, a combination is the edge's children.  *)
LEMMA CombinationIsEdge ==
  ASSUME TypeOK, IdsInOrder, NEW l \in left.rules, NEW r \in right.rules, NEW p,
         NEW c \in [DOMAIN l.children -> Ids], Combination(l, r, c)
  PROVE  ChildrenKnown(l, r) /\ Edge(l, r, p).children = c
<1>1. ChildrenKnown(l, r)
  BY DEF Combination, ChildrenKnown, Known
<1>2. \A i \in DOMAIN l.children : IdOf(<<l.children[i], r.children[i]>>) = c[i]
  <2>. SUFFICES ASSUME NEW i \in DOMAIN l.children
                PROVE  IdOf(<<l.children[i], r.children[i]>>) = c[i]
    OBVIOUS
  <2>1. product_pairs[c[i]] = <<l.children[i], r.children[i]>> /\ c[i] \in Ids
    BY DEF Combination
  <2>2. Known(<<l.children[i], r.children[i]>>)
    BY <2>1 DEF Known
  <2>. QED  BY <2>1, <2>2, IdOfKnown DEF IdsInOrder
<1>3. Edge(l, r, p).children = [i \in DOMAIN l.children |-> IdOf(<<l.children[i], r.children[i]>>)]
  BY DEF Edge
<1>. QED  BY <1>1, <1>2, <1>3, Zenon

LEMMA CollectCovers ==
  ASSUME TypeOK, IdsInOrder, CacheComplete, CoveredUpTo(current - 1), CollectCandidates, ~cancelled
  PROVE  CoveredOrCollected'
<1>1. /\ current \in Ids
      /\ UNCHANGED <<left, right, product_pairs, rules, current>>
      /\ candidate_edges' = CandidateEdges(current, right_by_child_cache')
  BY DEF CollectCandidates, TypeOK, ChartTypeOK, input, chart
<1>2. \A k \in QueryKeys(current) : right_by_child_cache'[k] = CondensedRulesByChild(k[1], k[2])
  <2>. DEFINE cached == DOMAIN right_by_child_cache
              missed == QueryKeys(current) \ cached
              Answer(k) == CondensedRulesByChild(k[1], k[2])
  <2>1. right_by_child_cache' = [k \in cached \cup missed |->
           IF k \in cached THEN right_by_child_cache[k] ELSE [m \in missed |-> Answer(m)][k]]
    BY DEF CollectCandidates
  <2>2. \A k \in cached : right_by_child_cache[k] = Answer(k)
    BY DEF CollectCandidates, CacheComplete
  <2>. QED  BY <2>1, <2>2
<1>3. SUFFICES ASSUME NEW l \in left.rules, NEW r \in right.rules,
                      NEW c \in [DOMAIN l.children -> Ids],
                      Combination(l, r, c), \A i \in DOMAIN c : c[i] <= current
               PROVE  \/ \E rule \in rules : Emits(rule, l, r, c)
                      \/ \E e \in CandidateEdges(current, right_by_child_cache') :
                            e.left = l /\ e.right = r /\ e.children = c /\ Kept(e)
  <2>1. Ids' = Ids
    BY <1>1 DEF Ids
  <2>2. \A l, r, c : Combination(l, r, c)' <=> Combination(l, r, c)
    BY <1>1 DEF Combination
  <2>3. \A rule, l, r, c : Emits(rule, l, r, c)' <=> Emits(rule, l, r, c)
    BY <1>1 DEF Emits
  <2>4. \A e : Kept(e)' <=> Kept(e)
    BY <1>1 DEF Kept
  <2>. QED  BY <1>1, <2>1, <2>2, <2>3, <2>4 DEF CoveredOrCollected
<1>4. /\ \A i \in DOMAIN c : c[i] \in Nat
      /\ current \in Nat
      /\ DOMAIN c = DOMAIN l.children
      /\ DOMAIN l.children \subseteq Nat \ {0}
  <2>1. l.children \in Seq(LeftStates)
    BY InputTypes DEF ExplicitRules
  <2>. QED  BY <1>1, <2>1, IdsAreInterval
<1>5. CASE \A i \in DOMAIN c : c[i] # current
  <2>1. \A i \in DOMAIN c : c[i] <= current - 1
    BY <1>3, <1>4, <1>5
  <2>. QED  BY <1>3, <2>1 DEF CoveredUpTo
<1>6. CASE ~(\A i \in DOMAIN c : c[i] # current)
  <2>1. PICK p \in DOMAIN c : c[p] = current /\ \A i \in DOMAIN c : c[i] = current => p <= i
    <3>. DEFINE T == {i \in DOMAIN c : c[i] = current}
    <3>1. T \subseteq Nat /\ T # {}
      BY <1>4, <1>6
    <3>2. PICK m \in T : \A k \in T : m <= k
      BY <3>1, LeastIndex
    <3>. QED  BY <3>2
  <2>2. product_pairs[current] = <<l.children[p], r.children[p]>> /\ p \in DOMAIN l.children
    BY <1>3, <1>4, <2>1 DEF Combination
  <2>3. l.children[p] = product_pairs[current][1] /\ r.children[p] = product_pairs[current][2]
    BY <2>2
  <2>4. <<p, product_pairs[current][2]>> \in QueryKeys(current)
    <3>1. <<l, p>> \in Occurrences(product_pairs[current][1])
      BY <2>2, <2>3 DEF Occurrences
    <3>. QED  BY <3>1 DEF QueryKeys
  <2>5. p \in DOMAIN r.children
    <3>1. l.children \in Seq(LeftStates) /\ r.children \in Seq(RightStates)
      BY InputTypes DEF ExplicitRules, CondensedRules
    <3>2. Len(l.children) = Len(r.children)
      BY <1>3 DEF Combination, Joins
    <3>. QED  BY <2>2, <3>1, <3>2
  <2>6. r \in right_by_child_cache'[<<p, product_pairs[current][2]>>]
    <3>1. right_by_child_cache'[<<p, product_pairs[current][2]>>]
             = CondensedRulesByChild(p, product_pairs[current][2])
      BY <1>2, <2>4
    <3>. QED  BY <2>3, <2>5, <3>1 DEF CondensedRulesByChild
  <2>7. ChildrenKnown(l, r) /\ Edge(l, r, p).children = c
    BY <1>3, CombinationIsEdge
  <2>8. Edge(l, r, p) \in CandidateEdges(current, right_by_child_cache')
    BY <1>3, <2>2, <2>3, <2>6, <2>7, CandidateReported DEF Combination
  <2>9. Edge(l, r, p).left = l /\ Edge(l, r, p).right = r /\ Edge(l, r, p).position = p
    BY DEF Edge
  <2>10. CurrentProductIsLatest(c, p, current)
    <3>1. \A i \in 1..(p - 1) : i \in DOMAIN c
      <4>1. l.children \in Seq(LeftStates)
        BY InputTypes DEF ExplicitRules
      <4>2. DOMAIN c = 1..Len(l.children) /\ Len(l.children) \in Nat
        BY <1>4, <4>1
      <4>. QED  BY <2>1, <4>2
    <3>2. \A i \in 1..(p - 1) : c[i] <= current /\ c[i] # current /\ c[i] \in Nat
      BY <1>3, <1>4, <2>1, <3>1
    <3>3. \A i \in 1..(p - 1) : c[i] < current
      BY <1>4, <3>2
    <3>. QED  BY <1>3, <2>1, <3>3 DEF CurrentProductIsLatest
  <2>. QED  BY <2>7, <2>8, <2>9, <2>10 DEF Kept
<1>. QED  BY <1>5, <1>6

(* Coverage is a matter of the inputs, the pairs and the rules. *)
LEMMA SameCover ==
  ASSUME UNCHANGED <<left, right, product_pairs, rules>>
  PROVE  /\ \A n : CoveredUpTo(n) => CoveredUpTo(n)'
         /\ UNCHANGED <<current, candidate_edges>> /\ CoveredOrCollected => CoveredOrCollected'
<1>1. Ids' = Ids
  BY DEF Ids
<1>2. \A l, r, c : Combination(l, r, c)' <=> Combination(l, r, c)
  BY DEF Combination
<1>3. \A rule, l, r, c : Emits(rule, l, r, c)' <=> Emits(rule, l, r, c)
  BY DEF Emits
<1>4. \A n : CoveredUpTo(n) => CoveredUpTo(n)'
  BY <1>1, <1>2, <1>3 DEF CoveredUpTo
<1>5. ASSUME UNCHANGED <<current, candidate_edges>>, CoveredOrCollected
      PROVE  CoveredOrCollected'
  <2>1. \A e : Kept(e)' <=> Kept(e)
    BY <1>5 DEF Kept
  <2>. QED  BY <1>1, <1>2, <1>3, <1>5, <2>1 DEF CoveredOrCollected
<1>. QED  BY <1>4, <1>5

(* The nullary edges are all there is to collect before the first pop. *)
LEMMA NullaryCovers ==
  ASSUME TypeOK, IdsInOrder, CollectNullary, ~cancelled
  PROVE  CoveredOrCollected'
<1>1. /\ current = 0 /\ candidate_edges' = NullaryEdges
      /\ UNCHANGED <<left, right, product_pairs, rules, current>>
  BY DEF CollectNullary, IdsInOrder, input, chart
<1>2. Ids' = Ids
  BY <1>1 DEF Ids
<1>3. \A l, r, c : Combination(l, r, c)' <=> Combination(l, r, c)
  BY <1>1 DEF Combination
<1>4. SUFFICES ASSUME NEW l \in left.rules, NEW r \in right.rules,
                      NEW c \in [DOMAIN l.children -> Ids],
                      Combination(l, r, c), \A i \in DOMAIN c : c[i] <= 0
               PROVE  \E e \in NullaryEdges :
                         e.left = l /\ e.right = r /\ e.children = c /\ e.position = 0
  BY <1>1, <1>2, <1>3 DEF CoveredOrCollected, Kept
<1>5. DOMAIN l.children = {}
  <2>1. \A i \in DOMAIN l.children : c[i] \in Nat \ {0} /\ c[i] <= 0
    BY <1>4, IdsAreInterval
  <2>. QED  BY <2>1
<1>6. l.children \in Seq(LeftStates) /\ r.children \in Seq(RightStates)
  BY InputTypes DEF ExplicitRules, CondensedRules
<1>7. Len(l.children) = 0 /\ Len(r.children) = 0
  <2>1. Len(l.children) = 0
    <3>1. DOMAIN l.children = 1..Len(l.children) /\ Len(l.children) \in Nat
      BY <1>6
    <3>2. 1 \notin 1..Len(l.children)
      BY <1>5, <3>1
    <3>. QED  BY <3>1, <3>2
  <2>. QED  BY <1>4, <2>1 DEF Combination, Joins
<1>8. r.children = <<>> /\ l.children = <<>>
  BY <1>6, <1>7, EmptySeq
<1>9. c = <<>>
  <2>1. c \in [1..0 -> Ids]
    BY <1>5
  <2>. QED  BY <2>1
<1>. DEFINE e == [left |-> l, right |-> r, position |-> 0, children |-> <<>>]
<1>10. e \in NullaryEdges
  <2>1. <<l, r>> \in {y \in left.rules \X right.rules : Joins(y[1], y[2]) /\ y[2].children = <<>>}
    BY <1>4, <1>8 DEF Combination
  <2>2. e = [left |-> <<l, r>>[1], right |-> <<l, r>>[2], position |-> 0, children |-> <<>>]
    OBVIOUS
  <2>. QED  BY <2>1, <2>2 DEF NullaryEdges
<1>. QED  BY <1>9, <1>10

(* Emitting or skipping an edge settles the combination it stands for. *)
LEMMA EdgeCovers ==
  ASSUME TypeOK, IdsInOrder, CoveredOrCollected, NEW e \in candidate_edges,
         EmitStep(e) \/ SkipStep(e)
  PROVE  CoveredOrCollected'
<1>1. /\ candidate_edges' = candidate_edges \ {e}
      /\ UNCHANGED <<left, right, current>>
  BY DEF EmitStep, SkipStep, EdgeStep, input
<1>2. CASE EmitStep(e)
  <2>1. PICK new : /\ rules' = rules \cup {new}
                   /\ new.symbol = e.left.symbol
                   /\ product_pairs'[new.parent] = <<e.left.result, e.right.result>>
                   /\ new.children = e.children
    BY <1>2, EmittedRule DEF EmitStep
  <2>2. \A i \in Ids : product_pairs'[i] = product_pairs[i]
    BY <1>2, EmitGrows DEF EmitStep
  <2>3. SUFFICES ASSUME NEW l \in left.rules, NEW r \in right.rules,
                        NEW c \in [DOMAIN l.children -> Ids'],
                        Combination(l, r, c)', \A i \in DOMAIN c : c[i] <= current
                 PROVE  \/ \E rule \in rules' : Emits(rule, l, r, c)'
                        \/ \E x \in candidate_edges' :
                              x.left = l /\ x.right = r /\ x.children = c /\ Kept(x)
    BY <1>1 DEF CoveredOrCollected, Kept
  <2>4. \A i \in DOMAIN c : c[i] \in Ids
    <3>1. Ids' \subseteq Nat \ {0}
      <4>1. product_pairs' \in Seq(LeftStates \X RightStates)
        BY <1>2, EmitGrows DEF EmitStep
      <4>2. Ids' = 1..Len(product_pairs') /\ Len(product_pairs') \in Nat
        BY <4>1 DEF Ids
      <4>. QED  BY <4>2
    <3>2. \A i \in DOMAIN c : c[i] \in Nat \ {0} /\ c[i] <= current
      BY <2>3, <3>1
    <3>3. current \in Nat /\ Len(product_pairs) = current + Len(queue) /\ Len(queue) \in Nat
      BY DEF IdsInOrder, TypeOK, ChartTypeOK, Ids
    <3>4. Len(product_pairs) \in Nat /\ current <= Len(product_pairs)
      BY <3>3
    <3>. QED  BY <3>2, <3>3, <3>4, IdsAreInterval
  <2>5. c \in [DOMAIN l.children -> Ids]
    BY <2>4
  <2>6. Combination(l, r, c)
    BY <2>2, <2>3, <2>4 DEF Combination
  <2>7. CASE \E rule \in rules : Emits(rule, l, r, c)
    <3>1. PICK rule \in rules : Emits(rule, l, r, c)
      BY <2>7
    <3>2. rule.parent \in Ids
      BY DEF TypeOK, ChartTypeOK
    <3>3. Emits(rule, l, r, c)'
      BY <2>2, <3>1, <3>2 DEF Emits
    <3>. QED  BY <2>1, <3>3
  <2>8. ASSUME NEW x \in candidate_edges,
               x.left = l, x.right = r, x.children = c, Kept(x)
        PROVE  \/ \E rule \in rules' : Emits(rule, l, r, c)'
               \/ \E y \in candidate_edges' :
                     y.left = l /\ y.right = r /\ y.children = c /\ Kept(y)
    <3>1. CASE x = e
      <4>1. Emits(new, l, r, c)'
        BY <2>1, <2>8, <3>1 DEF Emits
      <4>. QED  BY <2>1, <4>1
    <3>2. CASE x # e
      BY <1>1, <2>8, <3>2
    <3>. QED  BY <3>1, <3>2
  <2>. QED  BY <2>3, <2>5, <2>6, <2>7, <2>8 DEF CoveredOrCollected
<1>3. CASE SkipStep(e)
  <2>1. UNCHANGED <<product_pairs, rules>> /\ ~Kept(e)
    BY <1>3 DEF SkipStep, chart
  <2>2. Ids' = Ids
    BY <2>1 DEF Ids
  <2>3. \A l, r, c : Combination(l, r, c)' <=> Combination(l, r, c)
    BY <2>1 DEF Combination
  <2>4. \A rule, l, r, c : Emits(rule, l, r, c)' <=> Emits(rule, l, r, c)
    BY <2>1 DEF Emits
  <2>5. \A x : Kept(x)' <=> Kept(x)
    BY <1>1 DEF Kept
  <2>6. \A x \in candidate_edges : Kept(x) => x \in candidate_edges'
    BY <1>1, <2>1
  <2>. QED  BY <1>1, <2>1, <2>2, <2>3, <2>4, <2>5, <2>6 DEF CoveredOrCollected
<1>. QED  BY <1>2, <1>3

LEMMA CoveredNext ==
  ASSUME TypeOK, IdsInOrder, CacheComplete, Covered, [Next]_vars
  PROVE  Covered'
<1>1. CASE QuietStep
  <2>1. UNCHANGED <<left, right, product_pairs, rules, current, candidate_edges>>
    BY <1>1 DEF QuietStep, input, chart
  <2>2. pc = "apply" /\ candidate_edges = {} => CoveredUpTo(current)
    BY DEF Covered, CoveredOrCollected, CoveredUpTo
  <2>3. /\ pc' = "collect" => CoveredUpTo(current - 1)
        /\ pc' \in {"pop", "done"} => CoveredUpTo(current)
        /\ pc' = "apply" \/ (pc' = "check" /\ ~cancelled') => CoveredOrCollected
    BY <1>1, <2>2 DEF QuietStep, Covered
  <2>. QED  BY <2>1, <2>3, SameCover DEF Covered
<1>2. CASE CollectNullary
  <2>1. pc' = "check" /\ cancelled' = cancelled
    BY <1>2 DEF CollectNullary
  <2>. QED  BY <1>2, <2>1, NullaryCovers DEF Covered
<1>3. ASSUME NEW e \in candidate_edges, EmitStep(e) \/ SkipStep(e) PROVE Covered'
  <2>1. pc = "apply" /\ pc' = "apply"
    BY <1>3 DEF EmitStep, SkipStep, EdgeStep
  <2>2. CoveredOrCollected
    BY <2>1 DEF Covered
  <2>3. CoveredOrCollected'
    BY <1>3, <2>2, EdgeCovers
  <2>. QED  BY <2>1, <2>3 DEF Covered
<1>4. CASE Pop
  <2>1. /\ UNCHANGED <<left, right, product_pairs, rules>>
        /\ pc = "pop" /\ pc' \in {"collect", "cancelled"}
        /\ current' = Head(queue) /\ queue # <<>>
    BY <1>4 DEF Pop, input
  <2>2. current' - 1 = current
    <3>1. queue[1] = current + 1 /\ current \in Nat
      BY <2>1 DEF IdsInOrder, TypeOK, ChartTypeOK, Ids
    <3>2. Head(queue) = queue[1]
      BY <2>1 DEF TypeOK, ChartTypeOK
    <3>. QED  BY <2>1, <3>1, <3>2
  <2>3. CoveredUpTo(current)
    BY <2>1 DEF Covered
  <2>4. \A n : CoveredUpTo(n) => CoveredUpTo(n)'
    BY <2>1, SameCover
  <2>. QED  BY <2>1, <2>2, <2>3, <2>4 DEF Covered
<1>5. CASE CollectCandidates
  <2>1. pc = "collect" /\ pc' = "check" /\ cancelled' = cancelled
    BY <1>5 DEF CollectCandidates
  <2>2. CoveredUpTo(current - 1)
    BY <2>1 DEF Covered
  <2>. QED  BY <1>5, <2>1, <2>2, CollectCovers DEF Covered
<1>. QED  BY <1>1, <1>2, <1>3, <1>4, <1>5, StepKinds

-----------------------------------------------------------------------------
(* The inductive invariant.                                                 *)

LEMMA IInvInit == Init => IInv
<1>. SUFFICES ASSUME Init PROVE IInv
  OBVIOUS
<1>1. TypeOK
  BY TypeInit
<1>2. /\ pc = "start" /\ product_pairs = <<>> /\ Ids = {} /\ Len(queue) = 0 /\ DOMAIN queue = {}
      /\ current = 0 /\ Len(product_pairs) = 0 /\ rules = {} /\ candidate_edges = {}
      /\ accepting = {} /\ duplicate = FALSE /\ DOMAIN right_by_child_cache = {}
  BY DEF Init, InitChart, Ids
<1>3. IdsInOrder
  BY <1>2 DEF IdsInOrder
<1>4. Faithful /\ Fresh /\ NoDuplicateRule /\ WellFounded
  BY <1>2 DEF Faithful, Fresh, NoDuplicateRule, WellFounded
<1>5. Sound /\ CacheComplete /\ Covered
  BY <1>2 DEF Sound, Pairs, CacheComplete, Covered
<1>. QED  BY <1>1, <1>3, <1>4, <1>5 DEF IInv

LEMMA IInvNext == IInv /\ [Next]_vars => IInv'
<1>. SUFFICES ASSUME IInv, [Next]_vars PROVE IInv'
  OBVIOUS
<1>. USE DEF IInv
<1>1. TypeOK'
  BY TypeNext
<1>2. IdsInOrder'
  BY OrderNext
<1>3. Faithful'
  BY FaithfulNext
<1>4. Fresh'
  BY FreshNext
<1>5. NoDuplicateRule'
  BY NoDuplicateNext
<1>6. WellFounded'
  BY WellFoundedNext
<1>7. Sound'
  BY SoundNext
<1>8. CacheComplete'
  BY CacheNext
<1>9. Covered'
  BY CoveredNext
<1>. QED  BY <1>1, <1>2, <1>3, <1>4, <1>5, <1>6, <1>7, <1>8, <1>9

(* The inductive invariant holds of every reachable state of the            *)
(* materialization loop.                                                    *)
THEOREM Invariance == Spec => []IInv
<1>. QED  BY IInvInit, IInvNext, PTL DEF Spec

(* build_trusted receives every transition at most once, on all inputs, so  *)
(* skipping its duplicate check is justified.                               *)
THEOREM NeverTwice == Spec => []NoDuplicateRule
<1>1. IInv => NoDuplicateRule
  BY DEF IInv
<1>. QED  BY <1>1, Invariance, PTL

(* Every product state of the chart has a finite derivation in the chart,   *)
(* on all inputs.                                                           *)
THEOREM AlwaysWellFounded == Spec => []WellFounded
<1>1. IInv => WellFounded
  BY DEF IInv
<1>. QED  BY <1>1, Invariance, PTL

-----------------------------------------------------------------------------
(* Completeness of a returned chart.                                        *)

(* An emitted rule decodes to the product rule of the rules it joins.       *)
LEMMA DecodeEmitted ==
  ASSUME NEW rule, NEW l, NEW r, DOMAIN rule.children = DOMAIN l.children,
         Combination(l, r, rule.children), Emits(rule, l, r, rule.children)
  PROVE  Decode(rule) = ProductRule(l, r)
<1>1. [i \in DOMAIN rule.children |-> product_pairs[rule.children[i]]]
        = [i \in DOMAIN l.children |-> <<l.children[i], r.children[i]>>]
  BY DEF Combination
<1>. QED  BY <1>1 DEF Decode, ProductRule, Emits

(* Product rules come from joined rules.                                    *)
LEMMA ProductRuleOf ==
  ASSUME NEW p \in ProductRules(left, right)
  PROVE  \E l \in left.rules, r \in right.rules : Joins(l, r) /\ p = ProductRule(l, r)
BY DEF ProductRules

(* Children that are product states have ids.                               *)
LEMMA ChildIds ==
  ASSUME NEW l, NEW r, Joins(l, r), Range(ProductRule(l, r).children) \subseteq Pairs
  PROVE  \E c \in [DOMAIN l.children -> Ids] : Combination(l, r, c)
<1>1. \A i \in DOMAIN l.children : \E k \in Ids : product_pairs[k] = <<l.children[i], r.children[i]>>
  BY DEF Range, ProductRule, Pairs
<1>. DEFINE c == [i \in DOMAIN l.children |->
                    CHOOSE k \in Ids : product_pairs[k] = <<l.children[i], r.children[i]>>]
<1>2. c \in [DOMAIN l.children -> Ids]
  BY <1>1
<1>3. \A i \in DOMAIN l.children : product_pairs[c[i]] = <<l.children[i], r.children[i]>>
  BY <1>1
<1>. HIDE DEF c
<1>. QED  BY <1>2, <1>3 DEF Combination

(* A finished run has popped every product state it found. *)
LEMMA AllPopped ==
  ASSUME IInv, pc \in {"pop", "done"}, queue = <<>>
  PROVE  \A l \in left.rules, r \in right.rules : \A c \in [DOMAIN l.children -> Ids] :
            Combination(l, r, c) => \E rule \in rules : Emits(rule, l, r, c)
<1>1. CoveredUpTo(current)
  BY DEF IInv, Covered
<1>2. Len(product_pairs) = current + Len(queue) /\ Len(queue) = 0 /\ current \in Nat
  BY DEF IInv, IdsInOrder, TypeOK, ChartTypeOK, Ids
<1>3. \A i \in Ids : i <= current
  BY <1>2, IdsAreInterval DEF IInv
<1>. QED  BY <1>1, <1>3 DEF CoveredUpTo

(* Its product states are all the derivable ones. *)
LEMMA AllDerived ==
  ASSUME IInv, pc \in {"pop", "done"}, queue = <<>>
  PROVE  Pairs = Derivable(ProductRules(left, right))
<1>. DEFINE all == ProductRules(left, right)
<1>1. Pairs \subseteq Derivable(all)
  BY DEF IInv, Sound
<1>2. ASSUME NEW p \in all, Range(p.children) \subseteq Pairs PROVE p.result \in Pairs
  <2>1. PICK l \in left.rules, r \in right.rules : Joins(l, r) /\ p = ProductRule(l, r)
    BY ProductRuleOf
  <2>2. PICK c \in [DOMAIN l.children -> Ids] : Combination(l, r, c)
    BY <1>2, <2>1, ChildIds
  <2>3. PICK rule \in rules : Emits(rule, l, r, c)
    BY <2>2, AllPopped
  <2>4. rule.parent \in Ids /\ product_pairs[rule.parent] = <<l.result, r.result>>
    BY <2>3 DEF Emits, IInv, TypeOK, ChartTypeOK
  <2>5. p.result = <<l.result, r.result>>
    BY <2>1 DEF ProductRule
  <2>. QED  BY <2>4, <2>5 DEF Pairs
<1>3. Pairs \subseteq Results(all)
  BY <1>1 DEF Derivable
<1>. QED  BY <1>1, <1>2, <1>3, DerivableLeast DEF Closed

(* Its rules are all the product rules over them, and no others. *)
LEMMA AllRules ==
  ASSUME IInv, pc \in {"pop", "done"}, queue = <<>>
  PROVE  {Decode(rule) : rule \in rules} = ReachableRules(left, right)
<1>. DEFINE all == ProductRules(left, right)
<1>1. Pairs = Derivable(all)
  BY AllDerived
<1>2. ReachableRules(left, right) = {p \in all : Range(p.children) \subseteq Pairs}
  BY <1>1 DEF ReachableRules
<1>3. ASSUME NEW rule \in rules
      PROVE  Decode(rule) \in all /\ Range(Decode(rule).children) \subseteq Pairs
  <2>1. PICK l \in left.rules, r \in right.rules :
           /\ DOMAIN rule.children = DOMAIN l.children
           /\ Combination(l, r, rule.children)
           /\ Emits(rule, l, r, rule.children)
    BY DEF IInv, Faithful
  <2>2. Decode(rule) = ProductRule(l, r)
    BY <2>1, DecodeEmitted
  <2>3. rule.children \in Seq(Ids)
    BY DEF IInv, TypeOK, ChartTypeOK
  <2>4. \A i \in DOMAIN l.children : rule.children[i] \in Ids
    BY <2>1, <2>3
  <2>5. Range(ProductRule(l, r).children) \subseteq Pairs
    BY <2>1, <2>4, CombinationMembers
  <2>6. ProductRule(l, r) \in all
    BY <2>1, ProductRuleIn DEF Combination
  <2>. QED  BY <2>2, <2>5, <2>6
<1>4. ASSUME NEW p \in all, Range(p.children) \subseteq Pairs
      PROVE  \E rule \in rules : p = Decode(rule)
  <2>1. PICK l \in left.rules, r \in right.rules : Joins(l, r) /\ p = ProductRule(l, r)
    BY ProductRuleOf
  <2>2. PICK c \in [DOMAIN l.children -> Ids] : Combination(l, r, c)
    BY <1>4, <2>1, ChildIds
  <2>3. PICK rule \in rules : Emits(rule, l, r, c)
    BY <2>2, AllPopped
  <2>4. rule.children = c /\ DOMAIN c = DOMAIN l.children
    BY <2>3 DEF Emits
  <2>5. Decode(rule) = ProductRule(l, r)
    BY <2>2, <2>3, <2>4, DecodeEmitted
  <2>. QED  BY <2>1, <2>5
<1>. QED  BY <1>2, <1>3, <1>4

LEMMA AllAccepting ==
  ASSUME IInv
  PROVE  {product_pairs[i] : i \in accepting} = Pairs \cap AcceptingPairs(left, right)
BY DEF IInv, Sound, Pairs

(* The loop ends with an empty queue. *)
LEMMA EmptyAtEnd ==
  ASSUME TypeOK, [Next]_vars, pc = "done" => queue = <<>>
  PROVE  pc' = "done" => queue' = <<>>
<1>1. CASE QuietStep
  BY <1>1 DEF QuietStep, chart
<1>2. CASE ~QuietStep
  BY <1>2, StepKinds DEF CollectNullary, EmitStep, SkipStep, EdgeStep, Pop, CollectCandidates
<1>. QED  BY <1>1, <1>2

(* On all automata, and whenever the cancellation flag is raised, a run     *)
(* that returns a chart returns the whole product: every derivable product  *)
(* state, every rule over derivable product states, and the right accepting *)
(* states.                                                                  *)
THEOREM Completeness == Spec => []ChartComplete
<1>. DEFINE Ended == pc = "done" => queue = <<>>
<1>1. Init => Ended
  BY DEF Init, InitChart
<1>2. TypeOK /\ Ended /\ [Next]_vars => Ended'
  BY EmptyAtEnd
<1>3. IInv /\ Ended => ChartComplete
  BY AllDerived, AllRules, AllAccepting DEF ChartComplete
<1>. QED  BY <1>1, <1>2, <1>3, TypeCorrect, Invariance, PTL DEF Spec

-----------------------------------------------------------------------------
(* Refinement of ProductClosure.                                            *)

(* ProductClosure speaks of the same product. *)
LEMMA SameProduct ==
  /\ Promise!ProductRules(left, right) = ProductRules(left, right)
  /\ \A f : Promise!Range(f) = Range(f)
<1>1. \A l, r : Promise!Joins(l, r) <=> Joins(l, r)
  BY DEF Joins, Promise!Joins
<1>2. \A l, r : Promise!ProductRule(l, r) = ProductRule(l, r)
  BY DEF ProductRule, Promise!ProductRule
<1>3. Promise!ProductRules(left, right) = ProductRules(left, right)
  BY <1>1, <1>2, Zenon DEF ProductRules, Promise!ProductRules
<1>4. \A f : Promise!Range(f) = Range(f)
  BY DEF Range, Promise!Range
<1>. QED  BY <1>3, <1>4

(* What a rule stands for does not change as the chart grows. *)
LEMMA DecodeKept ==
  ASSUME TypeOK, NEW rule \in rules, \A i \in Ids : product_pairs'[i] = product_pairs[i]
  PROVE  Decode(rule)' = Decode(rule)
<1>1. rule.parent \in Ids /\ rule.children \in Seq(Ids)
  BY DEF TypeOK, ChartTypeOK
<1>2. \A i \in DOMAIN rule.children : rule.children[i] \in Ids
  BY <1>1
<1>. QED  BY <1>1, <1>2 DEF Decode

(* An edge that is kept adds a product rule that the chart did not have.    *)
LEMMA EmitAddsRule ==
  ASSUME IInv, NEW e \in candidate_edges, EmitStep(e)
  PROVE  \E p \in ProductRules(left, right) :
            /\ p \notin {Decode(rule) : rule \in rules}
            /\ Range(p.children) \subseteq Pairs
            /\ {Decode(rule) : rule \in rules}' = {Decode(rule) : rule \in rules} \cup {p}
            /\ Pairs' = Pairs \cup {p.result}
<1>. DEFINE l == e.left
            r == e.right
            p == ProductRule(l, r)
<1>1. /\ TypeOK /\ EmitRule(e) /\ Kept(e)
      /\ l \in left.rules /\ r \in right.rules /\ Joins(l, r)
      /\ DOMAIN e.children = DOMAIN l.children
      /\ e.children \in Seq(Ids)
      /\ Combination(l, r, e.children)
  BY DEF EmitStep, IInv, TypeOK, Faithful
<1>2. \A i \in DOMAIN l.children : e.children[i] \in Ids
  BY <1>1
<1>3. p \in ProductRules(left, right)
  BY <1>1, ProductRuleIn
<1>4. Range(p.children) \subseteq Pairs
  BY <1>1, <1>2, CombinationMembers
<1>5. PICK new :
           /\ rules' = rules \cup {new}
           /\ new.symbol = l.symbol
           /\ new.children = e.children
           /\ new.parent \in Ids'
           /\ product_pairs'[new.parent] = <<l.result, r.result>>
  BY <1>1, EmittedRule
<1>6. Ids \subseteq Ids' /\ \A i \in Ids : product_pairs'[i] = product_pairs[i]
  BY <1>1, EmitGrows
<1>7. Decode(new)' = p
  <2>1. Decode(new)' = [symbol |-> new.symbol,
                        children |-> [i \in DOMAIN new.children |-> product_pairs'[new.children[i]]],
                        result |-> product_pairs'[new.parent]]
    BY DEF Decode
  <2>2. [i \in DOMAIN new.children |-> product_pairs'[new.children[i]]]
          = [i \in DOMAIN l.children |-> <<l.children[i], r.children[i]>>]
    BY <1>1, <1>2, <1>5, <1>6 DEF Combination
  <2>. QED  BY <1>5, <2>1, <2>2 DEF ProductRule
<1>8. {Decode(rule) : rule \in rules}' = {Decode(rule) : rule \in rules} \cup {p}
  <2>1. {Decode(rule) : rule \in rules}' = {Decode(rule)' : rule \in rules \cup {new}}
    BY <1>5
  <2>2. \A rule \in rules : Decode(rule)' = Decode(rule)
    BY <1>1, <1>6, DecodeKept
  <2>. HIDE DEF p
  <2>. QED  BY <1>7, <2>1, <2>2
<1>9. p \notin {Decode(rule) : rule \in rules}
  <2>. SUFFICES ASSUME NEW rule \in rules, Decode(rule) = p PROVE FALSE
    OBVIOUS
  <2>1. /\ rule.symbol = l.symbol /\ product_pairs[rule.parent] = <<l.result, r.result>>
        /\ [i \in DOMAIN rule.children |-> product_pairs[rule.children[i]]]
              = [i \in DOMAIN l.children |-> <<l.children[i], r.children[i]>>]
    BY DEF Decode, ProductRule
  <2>2. rule.children \in Seq(Ids)
    BY <1>1 DEF TypeOK, ChartTypeOK
  <2>3. DOMAIN rule.children = DOMAIN e.children
    BY <1>1, <2>1
  <2>4. \A i \in DOMAIN e.children : product_pairs[rule.children[i]] = product_pairs[e.children[i]]
    <3>. TAKE i \in DOMAIN e.children
    <3>1. product_pairs[rule.children[i]] = <<l.children[i], r.children[i]>>
      BY <1>1, <2>1, <2>3
    <3>. QED  BY <1>1, <3>1 DEF Combination
  <2>5. \A i \in DOMAIN e.children : rule.children[i] = e.children[i]
    BY <1>1, <1>2, <2>2, <2>3, <2>4 DEF IInv, IdsInOrder
  <2>6. rule.children = e.children
    BY <1>1, <2>2, <2>3, <2>5, SeqExtensional
  <2>7. Emits(rule, l, r, e.children)
    BY <2>1, <2>6 DEF Emits
  <2>. QED  BY <1>1, <2>7 DEF IInv, Fresh
<1>10. Pairs' = Pairs \cup {p.result}
  <2>. DEFINE pair == <<l.result, r.result>>
  <2>1. p.result = pair
    BY DEF ProductRule
  <2>2. CASE Known(pair)
    <3>1. product_pairs' = product_pairs /\ pair \in Pairs
      BY <1>1, <2>2, EmitEffect DEF Known, Pairs
    <3>. QED  BY <2>1, <3>1 DEF Pairs, Ids
  <2>3. CASE ~Known(pair)
    <3>1. Ids' = Ids \cup {Len(product_pairs) + 1} /\ product_pairs'[Len(product_pairs) + 1] = pair
      BY <1>1, <2>3, EmitEffect
    <3>. QED  BY <1>6, <2>1, <3>1 DEF Pairs
  <2>. QED  BY <2>2, <2>3
<1>. HIDE DEF p
<1>. QED  BY <1>3, <1>4, <1>8, <1>9, <1>10

(* What the caller sees of a step that leaves the chart alone. *)
LEMMA OutcomeStep ==
  ASSUME [Next]_vars
  PROVE  \/ pc' \notin {"done", "cancelled"} /\ pc \notin {"done", "cancelled"}
         \/ pc' = pc
         \/ Finish
         \/ pc \notin {"done", "cancelled"} /\ pc' = "cancelled"
BY DEF Next, Work, Start, CollectNullary, CheckCollected, ApplyEdge, EndApply, Pop,
       CollectCandidates, Cancel, GiveUp, vars

(* Every step of the loop is one of ProductClosure or changes nothing it    *)
(* speaks of: product rules are added one at a time over known product      *)
(* states, none twice, and only a closed chart is returned.                 *)
(* (ImplementsProductClosure without its fairness.)                         *)
THEOREM BuildsProductClosure == Spec => Promise!Init /\ [][Promise!Next]_Promise!vars
<1>1. Init => Promise!Init
  BY DEF Init, InitChart, Promise!Init, Pairs, Ids
<1>2. ASSUME IInv, [Next]_vars PROVE [Promise!Next]_Promise!vars
  <2>0. TypeOK /\ left' = left /\ right' = right
    <3>1. left' = left /\ right' = right
      BY <1>2, StepKinds DEF QuietStep, CollectNullary, EmitStep, SkipStep, EdgeStep, Pop,
                             CollectCandidates, input
    <3>. QED  BY <1>2, <3>1 DEF IInv
  <2>1. ASSUME NEW e \in candidate_edges, EmitStep(e) PROVE Promise!Next
    <3>1. PICK p \in ProductRules(left, right) :
            /\ p \notin {Decode(rule) : rule \in rules}
            /\ Range(p.children) \subseteq Pairs
            /\ {Decode(rule) : rule \in rules}' = {Decode(rule) : rule \in rules} \cup {p}
            /\ Pairs' = Pairs \cup {p.result}
      BY <1>2, <2>1, EmitAddsRule
    <3>2. pc = "apply" /\ pc' = "apply"
      BY <2>1 DEF EmitStep, EdgeStep
    <3>3. Promise!AddRule(p)
      BY <2>0, <3>1, <3>2, SameProduct DEF Promise!AddRule
    <3>. QED  BY <3>1, <3>3, SameProduct DEF Promise!Next
  <2>2. ASSUME UNCHANGED <<product_pairs, rules>>
        PROVE  [Promise!Next]_Promise!vars
    <3>1. Pairs' = Pairs /\ {Decode(rule) : rule \in rules}' = {Decode(rule) : rule \in rules}
      BY <2>2 DEF Pairs, Ids, Decode
    <3>2. CASE Finish
      <4>1. pc = "pop" /\ queue = <<>> /\ pc' = "done"
        BY <3>2 DEF Finish
      <4>2. /\ Pairs = Derivable(ProductRules(left, right))
            /\ {Decode(rule) : rule \in rules} = ReachableRules(left, right)
        BY <1>2, <4>1, AllDerived, AllRules
      <4>3. \A p \in ProductRules(left, right) :
               Range(p.children) \subseteq Pairs => p \in {Decode(rule) : rule \in rules}
        BY <4>2 DEF ReachableRules
      <4>4. Promise!Return
        BY <2>0, <3>1, <4>1, <4>3, SameProduct DEF Promise!Return
      <4>. QED  BY <4>4 DEF Promise!Next
    <3>3. CASE pc \notin {"done", "cancelled"} /\ pc' = "cancelled"
      BY <2>0, <3>1, <3>3 DEF Promise!Next, Promise!Abandon
    <3>4. CASE pc' = pc \/ (pc' \notin {"done", "cancelled"} /\ pc \notin {"done", "cancelled"})
      BY <2>0, <3>1, <3>4 DEF Promise!vars
    <3>. QED  BY <1>2, <3>2, <3>3, <3>4, OutcomeStep
  <2>. QED  BY <1>2, <2>1, <2>2, StepKinds DEF QuietStep, CollectNullary, SkipStep, EdgeStep, Pop,
                                               CollectCandidates, chart
<1>. QED  BY <1>1, <1>2, Invariance, PTL DEF Spec
=============================================================================
