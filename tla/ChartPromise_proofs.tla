------------------------- MODULE ChartPromise_proofs -------------------------
(***************************************************************************)
(* What a caller sees of a parse that fills its chart by the walk, lazily  *)
(* or by filtering: the steps are those of ProductClosure, for all         *)
(* automata, homomorphisms and jobs and under cancellation at any moment.  *)
(***************************************************************************)
EXTENDS ParsingStrategies_proofs

-----------------------------------------------------------------------------
(* The promise: what a step of a strategy is in ProductClosure. *)

(* The chart has every rule of the product with a over derived states. *)
HasAll(a) ==
    \A l \in left.rules : \A r \in a.rules :
        Joins(l, r) /\ Range(ProductRule(l, r).children) \subseteq Pairs => ProductRule(l, r) \in Decoded

LEMMA SameProducts ==
  /\ \A a, b : Promise!ProductRules(a, b) = ProductRules(a, b)
  /\ Promise!vars = <<left, Contribution, Pairs, Decoded, Outcome>>
  /\ \A f : Promise!Range(f) = Range(f)
<1>1. \A l, r : Promise!Joins(l, r) <=> Joins(l, r)
  BY DEF Promise!Joins, Joins
<1>2. \A l, r : Promise!ProductRule(l, r) = ProductRule(l, r)
  BY DEF Promise!ProductRule, ProductRule
<1>3. \A a, b : Promise!ProductRules(a, b) = ProductRules(a, b)
  BY <1>1, <1>2 DEF Promise!ProductRules, ProductRules
<1>. QED  BY <1>3 DEF Promise!vars, Decoded, Promise!Range, Range

LEMMA ProductRulesAre ==
  \A a, b, p : p \in ProductRules(a, b) <=> \E l \in a.rules, r \in b.rules : Joins(l, r) /\ p = ProductRule(l, r)
<1>. TAKE a, b, p
<1>. DEFINE pairs == {y \in a.rules \X b.rules : Joins(y[1], y[2])}
<1>1. p \in ProductRules(a, b) <=> \E x \in pairs : p = ProductRule(x[1], x[2])
  BY DEF ProductRules
<1>2. ASSUME NEW x \in pairs PROVE x[1] \in a.rules /\ x[2] \in b.rules /\ Joins(x[1], x[2])
  OBVIOUS
<1>4. ASSUME p \in ProductRules(a, b) PROVE \E l \in a.rules, r \in b.rules : Joins(l, r) /\ p = ProductRule(l, r)
  <2>1. PICK x \in pairs : p = ProductRule(x[1], x[2])
    BY <1>1, <1>4
  <2>. QED  BY <1>2, <2>1
<1>5. ASSUME NEW l \in a.rules, NEW r \in b.rules, Joins(l, r) PROVE ProductRule(l, r) \in ProductRules(a, b)
  <2>. DEFINE x == <<l, r>>
  <2>1. x \in pairs /\ ProductRule(l, r) = ProductRule(x[1], x[2])
    BY <1>5
  <2>. HIDE DEF x, pairs
  <2>. QED  BY <2>1 DEF ProductRules, pairs
<1>. QED  BY <1>4, <1>5

LEMMA ContributionStays ==
  ASSUME strategy' = strategy, right' = right
  PROVE  Contribution' = Contribution
BY DEF Contribution

(* A step that the caller does not see. *)
LEMMA PromiseKept ==
  ASSUME UNCHANGED <<left, right, strategy, product_pairs, rules>>, Outcome' = Outcome
  PROVE  UNCHANGED Promise!vars
<1>1. Pairs' = Pairs /\ Decoded' = Decoded /\ Contribution' = Contribution
  BY ContributionStays DEF Pairs, Ids, Decoded, Decode
<1>. QED  BY <1>1, SameProducts DEF Promise!vars, Decoded

(* The end of a run. *)
LEMMA PromiseEnds ==
  ASSUME UNCHANGED <<left, right, strategy, product_pairs, rules>>, Outcome = "running",
         \/ Outcome' = "none"
         \/ Outcome' = "chart" /\ HasAll(Contribution)
  PROVE  Promise!Next
<1>1. Pairs' = Pairs /\ Decoded' = Decoded /\ Contribution' = Contribution
  BY ContributionStays DEF Pairs, Ids, Decoded, Decode
<1>2. CASE Outcome' = "none"
  BY <1>1, <1>2 DEF Promise!Next, Promise!Abandon, Decoded
<1>3. CASE Outcome' = "chart" /\ HasAll(Contribution)
  <2>1. ASSUME NEW p \in Promise!ProductRules(left, Contribution), Range(p.children) \subseteq Pairs
        PROVE  p \in Decoded
    <3>1. p \in ProductRules(left, Contribution)
      BY SameProducts
    <3>. QED  BY <1>3, <2>1, <3>1, ProductRulesAre DEF HasAll
  <2>2. Promise!Return
    BY <1>1, <1>3, <2>1, SameProducts DEF Promise!Return, Decoded
  <2>. QED  BY <2>2 DEF Promise!Next
<1>. QED  BY <1>2, <1>3

(* A rule over ids whose children name those of a product rule. *)
LEMMA PromiseAdds ==
  ASSUME ChartInv, UNCHANGED <<left, right, strategy>>, Outcome = "running", Outcome' = "running",
         NEW l \in left.rules, NEW r \in Contribution.rules, Joins(l, r),
         NEW children \in Seq(Ids),
         ProductRule(l, r).children = [i \in DOMAIN children |-> product_pairs[children[i]]],
         AddProductRule(l.symbol, children, <<l.result, r.result>>),
         strategy # "lazy" => <<l.result, r.result>> \in LeftStates \X RightStates
  PROVE  /\ [Promise!Next]_Promise!vars
         /\ Decoded' = Decoded \cup {ProductRule(l, r)}
<1>. DEFINE p == ProductRule(l, r)
            pair == <<l.result, r.result>>
<1>1. l.symbol \in Symbols
  BY InputsAreAutomata DEF ChartInv, IsExplicit, ExplicitRules
<1>2. Pairs' = Pairs \cup {pair}
  BY <1>1, ChartGrows
<1>3. p = [symbol |-> l.symbol, children |-> [i \in DOMAIN children |-> product_pairs[children[i]]], result |-> pair]
  BY DEF ProductRule
<1>4. Decoded' = Decoded \cup {p}
  <2>. HIDE DEF p, pair
  <2>1. Decoded' = Decoded \cup {[symbol |-> l.symbol, children |-> [i \in DOMAIN children |-> product_pairs[children[i]]], result |-> pair]}
    BY <1>1, DecodedGrows DEF pair
  <2>. QED  BY <1>3, <2>1
<1>5. Contribution' = Contribution
  BY ContributionStays
<1>6. p.result = pair /\ Range(p.children) \subseteq Pairs
  <2>1. \A i \in DOMAIN children : children[i] \in Ids
    OBVIOUS
  <2>2. p.children = [i \in DOMAIN children |-> product_pairs[children[i]]]
    BY <1>3
  <2>. QED  BY <1>3, <2>1, <2>2 DEF Range, Pairs
<1>7. p \in Promise!ProductRules(left, Contribution)
  BY SameProducts, ProductRulesAre
<1>8. CASE p \in Decoded
  <2>1. PICK x \in rules : Decode(x) = p
    BY <1>8 DEF Decoded
  <2>2. x.parent \in Ids /\ product_pairs[x.parent] = p.result
    BY <2>1 DEF ChartInv, Decode
  <2>3. pair \in Pairs
    BY <1>6, <2>2 DEF Pairs
  <2>4. Pairs' = Pairs /\ Decoded' = Decoded
    BY <1>2, <1>4, <1>8, <2>3
  <2>5. UNCHANGED Promise!vars
    BY <1>5, <2>4 DEF Promise!vars, Decoded
  <2>. QED  BY <1>4, <2>5
<1>9. CASE p \notin Decoded
  <2>1. Promise!AddRule(p)
    <3>. HIDE DEF p
    <3>. QED  BY <1>2, <1>4, <1>5, <1>6, <1>9, SameProducts DEF Promise!AddRule, Decoded
  <2>. QED  BY <1>4, <1>7, <2>1 DEF Promise!Next
<1>. QED  BY <1>8, <1>9

-----------------------------------------------------------------------------
(* The filter keeps the promise. *)

(* A symbol has at most one value at given children. *)
OneValue(a) ==
    \A r1, r2 \in a.rules :
        r1.children = r2.children /\ r1.symbols \cap r2.symbols # {} => r1.result = r2.result

(* The filter is run on a list of the chart's rules that does not end with  *)
(* a rule without children, which it would leave without a check; and the   *)
(* operations are functions.                                                *)
FiltersListRules ==
    \A job \in Jobs : job.strategy = "filter" =>
        /\ job.order \in Seq(job.left.rules) /\ Range(job.order) = job.left.rules
        /\ job.order # <<>> => job.order[Len(job.order)].children # <<>>
        /\ OneValue(Images[job.input])

(* The rule for l at child tuple c is in the chart, if it has a value. *)
Covers(l, c) ==
    \A r \in right.rules :
        l.symbol \in r.symbols /\ r.children = [i \in DOMAIN c |-> product_pairs[c[i]][2]]
        => ProductRule(l, r) \in Decoded

CoversAll(l) == \A c \in Filter!Combinations(l) : Covers(l, c)

(* The sweep has been over the rules before position n. *)
Swept(n) == \A i \in DOMAIN order : i < n => CoversAll(order[i])

FilterSweeps ==
    /\ order \in Seq(left.rules) /\ Range(order) = left.rules
    /\ order # <<>> => order[Len(order)].children # <<>>
    /\ OneValue(right)
    /\ at \in 1..Len(order) + 1
    /\ phase \in {"sweep", "next", "combine", "done", "cancelled"}
    /\ phase = "combine" => at \in DOMAIN order /\ combos \subseteq Filter!Combinations(order[at])
    /\ changed \in BOOLEAN
    /\ phase = "next" /\ ~changed /\ (~cancelled \/ at > Len(order)) => Swept(at)
    /\ phase = "combine" /\ ~changed /\ ~cancelled =>
          Swept(at) /\ \A c \in Filter!Combinations(order[at]) \ combos : Covers(order[at], c)

LEMMA CoversKept ==
  ASSUME product_pairs' = product_pairs, right' = right, Decoded \subseteq Decoded'
  PROVE  /\ \A l : Filter!Combinations(l)' = Filter!Combinations(l)
         /\ \A l, c : Covers(l, c) => Covers(l, c)'
         /\ \A l : CoversAll(l) => CoversAll(l)'
<1>1. \A l : Filter!Combinations(l)' = Filter!Combinations(l)
  BY FilteredChart DEF Filter!Combinations, Filter!Ids
<1>2. \A l, c : Covers(l, c) => Covers(l, c)'
  BY DEF Covers
<1>. QED  BY <1>1, <1>2 DEF CoversAll

(* What has been swept, when nothing new has been found, is all there is.   *)
LEMMA SweptIsAll ==
  ASSUME ChartInv, FilterSweeps, Swept(Len(order) + 1)
  PROVE  HasAll(right)
<1>. SUFFICES ASSUME NEW l \in left.rules, NEW r \in right.rules, Joins(l, r),
                     Range(ProductRule(l, r).children) \subseteq Pairs
              PROVE  ProductRule(l, r) \in Decoded
  BY DEF HasAll
<1>1. PICK i \in DOMAIN order : order[i] = l
  BY DEF FilterSweeps, Range
<1>2. i < Len(order) + 1
  <2>1. i \in 1..Len(order) /\ Len(order) \in Nat
    BY DEF FilterSweeps
  <2>. QED  BY <2>1
<1>. DEFINE pair(k) == <<l.children[k], r.children[k]>>
            c == [k \in DOMAIN l.children |-> IdOf(pair(k))]
<1>3. \A k \in DOMAIN l.children : IdOf(pair(k)) \in Ids /\ product_pairs[IdOf(pair(k))] = pair(k)
  <2>. TAKE k \in DOMAIN l.children
  <2>1. pair(k) \in Pairs
    BY DEF ProductRule, Range
  <2>2. Known(pair(k))
    BY <2>1, IdsAreInterval
  <2>. QED  BY <2>2, IdOfKnown
<1>4. /\ left.rules \subseteq ExplicitRules /\ right.rules \subseteq CondensedRules
  BY InputsAreAutomata DEF ChartInv, IsExplicit, IsCondensed
<1>5. l.children \in Seq(LeftStates) /\ r.children \in Seq(RightStates)
  BY <1>4 DEF ExplicitRules, CondensedRules
<1>6. DOMAIN r.children = DOMAIN l.children
  BY <1>5 DEF Joins
<1>7. c \in Filter!Combinations(l)
  <2>1. DOMAIN c = DOMAIN l.children /\ c \in [DOMAIN l.children -> Ids]
    BY <1>3
  <2>2. \A k \in DOMAIN c : product_pairs[c[k]][1] = l.children[k]
    BY <1>3
  <2>. QED  BY <2>1, <2>2, FilteredChart DEF Filter!Combinations
<1>8. r.children = [k \in DOMAIN c |-> product_pairs[c[k]][2]]
  <2>1. \A k \in DOMAIN c : product_pairs[c[k]][2] = r.children[k]
    BY <1>3
  <2>2. r.children = [k \in DOMAIN r.children |-> r.children[k]]
    BY <1>5
  <2>. QED  BY <1>6, <2>1, <2>2
<1>. HIDE DEF c
<1>9. Covers(l, c)
  BY <1>1, <1>2, <1>7 DEF Swept, CoversAll
<1>. QED  BY <1>8, <1>9 DEF Covers, Joins

(* The chart stays, and so does what has been swept. *)
LEMMA SweptKept ==
  ASSUME UNCHANGED <<left, right, strategy, product_pairs, accepting, rules, duplicate, order>>
  PROVE  /\ \A n : Swept(n)' <=> Swept(n)
         /\ \A l : Filter!Combinations(l)' = Filter!Combinations(l)
         /\ \A l, c : Covers(l, c)' <=> Covers(l, c)
         /\ \A l : CoversAll(l)' <=> CoversAll(l)
<1>1. \A l : Filter!Combinations(l)' = Filter!Combinations(l)
  BY FilteredChart DEF Filter!Combinations, Filter!Ids
<1>2. \A l, c : Covers(l, c)' <=> Covers(l, c)
  BY DEF Covers, Decoded, Decode
<1>3. \A l : CoversAll(l)' <=> CoversAll(l)
  BY <1>1, <1>2 DEF CoversAll
<1>. QED  BY <1>1, <1>2, <1>3 DEF Swept

(* The steps that do not touch the chart. *)
LEMMA SweepMoves ==
  ASSUME ChartInv, FilterSweeps, strategy = "filter", strategy' = strategy,
         Filter!Sweep \/ Filter!NextRule \/ Filter!EndRule \/ Filter!EndSweep
  PROVE  ChartInv' /\ FilterSweeps' /\ [Promise!Next]_Promise!vars
<1>. USE DEF Filter!input, Filter!chart
<1>1. UNCHANGED <<left, right, strategy, product_pairs, accepting, rules, duplicate, order, cancelled>>
  BY DEF Filter!Sweep, Filter!NextRule, Filter!EndRule, Filter!EndSweep, Filter!GiveUp
<1>2. ChartInv'
  BY <1>1, ChartKept
<1>3. /\ Len(order) \in Nat /\ DOMAIN order = 1..Len(order)
      /\ order \in Seq(left.rules)
      /\ at \in Nat /\ 1 <= at /\ at <= Len(order) + 1
  BY DEF FilterSweeps
<1>4. /\ \A n : Swept(n)' <=> Swept(n)
      /\ \A l : Filter!Combinations(l)' = Filter!Combinations(l)
      /\ \A l, c : Covers(l, c)' <=> Covers(l, c)
  BY <1>1, SweptKept
<1>. DEFINE Same == /\ order \in Seq(left.rules) /\ Range(order) = left.rules
                    /\ order # <<>> => order[Len(order)].children # <<>>
                    /\ OneValue(right)
<1>5. Same'
  BY <1>1 DEF FilterSweeps, OneValue
<1>6. CASE Filter!GiveUp
  <2>1. phase' = "cancelled" /\ UNCHANGED <<at, changed>>
    BY <1>6 DEF Filter!GiveUp
  <2>2. FilterSweeps'
    BY <1>1, <1>5, <2>1 DEF FilterSweeps
  <2>3. phase \in {"sweep", "next", "combine"}
    BY DEF Filter!Sweep, Filter!NextRule, Filter!EndRule, Filter!EndSweep
  <2>4. Outcome = "running" /\ Outcome' = "none"
    BY <1>1, <2>1, <2>3 DEF Outcome, Filter!Outcome
  <2>. QED  BY <1>1, <1>2, <2>2, <2>4, PromiseEnds
<1>7. CASE Filter!Sweep /\ ~Filter!GiveUp
  <2>1. phase = "sweep" /\ ~cancelled /\ phase' = "next" /\ at' = 1 /\ changed' = FALSE /\ combos' = combos
    BY <1>7 DEF Filter!Sweep
  <2>2. Swept(1)
    BY <1>3 DEF Swept
  <2>3. FilterSweeps'
    <3>1. 1 \in 1..Len(order) + 1
      BY <1>3
    <3>. QED  BY <1>1, <1>3, <1>4, <1>5, <2>1, <2>2, <3>1 DEF FilterSweeps
  <2>4. Outcome' = Outcome
    BY <1>1, <2>1 DEF Outcome, Filter!Outcome
  <2>. QED  BY <1>1, <1>2, <2>3, <2>4, PromiseKept
<1>8. CASE Filter!NextRule /\ ~Filter!GiveUp
  <2>1. /\ phase = "next" /\ at <= Len(order) /\ ~cancelled /\ changed' = changed
        /\ combos' = Filter!Combinations(order[at])
        /\ IF combos' = {} THEN at' = at + 1 /\ phase' = phase
                           ELSE phase' = "combine" /\ at' = at
    BY <1>8 DEF Filter!NextRule
  <2>2. ~changed => Swept(at)
    BY <2>1 DEF FilterSweeps
  <2>3. CASE combos' = {}
    <3>1. phase' = "next" /\ at' = at + 1
      BY <2>1, <2>3
    <3>2. ~changed => Swept(at + 1)
      <4>. SUFFICES ASSUME ~changed, NEW i \in DOMAIN order, i < at + 1
                    PROVE  CoversAll(order[i])
        BY DEF Swept
      <4>1. CASE i < at
        BY <2>2, <4>1 DEF Swept
      <4>2. CASE i = at
        BY <2>1, <2>3, <4>2 DEF CoversAll
      <4>. QED  BY <1>3, <4>1, <4>2
    <3>3. at + 1 \in 1..Len(order) + 1
      BY <1>3, <2>1
    <3>4. FilterSweeps'
      BY <1>1, <1>4, <1>5, <2>1, <3>1, <3>2, <3>3 DEF FilterSweeps
    <3>5. Outcome' = Outcome
      BY <1>1, <2>1, <3>1 DEF Outcome, Filter!Outcome
    <3>. QED  BY <1>1, <1>2, <3>4, <3>5, PromiseKept
  <2>4. CASE combos' # {}
    <3>1. phase' = "combine" /\ at' = at
      BY <2>1, <2>4
    <3>2. at \in DOMAIN order
      BY <1>3, <2>1
    <3>3. FilterSweeps'
      BY <1>1, <1>3, <1>4, <1>5, <2>1, <2>2, <3>1, <3>2 DEF FilterSweeps
    <3>4. Outcome' = Outcome
      BY <1>1, <2>1, <3>1 DEF Outcome, Filter!Outcome
    <3>. QED  BY <1>1, <1>2, <3>3, <3>4, PromiseKept
  <2>. QED  BY <2>3, <2>4
<1>9. CASE Filter!EndRule /\ ~Filter!GiveUp
  <2>1. /\ phase = "combine" /\ combos = {} /\ phase' = "next" /\ at' = at + 1 /\ changed' = changed
        /\ ~cancelled \/ order[at].children = <<>>
    BY <1>9 DEF Filter!EndRule
  <2>2. at \in DOMAIN order
    BY <2>1 DEF FilterSweeps
  <2>3. ~changed /\ ~cancelled => Swept(at + 1)
    <3>. SUFFICES ASSUME ~changed, ~cancelled, NEW i \in DOMAIN order, i < at + 1
                  PROVE  CoversAll(order[i])
      BY DEF Swept
    <3>1. Swept(at) /\ \A c \in Filter!Combinations(order[at]) : Covers(order[at], c)
      BY <2>1 DEF FilterSweeps
    <3>2. CASE i < at
      BY <3>1, <3>2 DEF Swept
    <3>3. CASE i = at
      BY <3>1, <3>3 DEF CoversAll
    <3>. QED  BY <1>3, <3>2, <3>3
  <2>4. at + 1 > Len(order) => ~cancelled
    <3>. SUFFICES ASSUME at + 1 > Len(order), cancelled PROVE FALSE
      BY <1>3
    <3>1. order[at].children = <<>>
      BY <2>1, Zenon
    <3>2. at + 1 > Len(order)
      OBVIOUS
    <3>3. at = Len(order)
      <4>. DEFINE n == Len(order)
      <4>1. n \in Nat /\ DOMAIN order = 1..n /\ at \in DOMAIN order /\ at + 1 > n
        BY <1>3, <2>2, <3>2
      <4>. HIDE DEF n
      <4>2. at = n
        BY ONLY <4>1
      <4>. QED  BY <4>2 DEF n
    <3>4. order # <<>>
      BY <2>2
    <3>. QED  BY <3>1, <3>3, <3>4 DEF FilterSweeps
  <2>5. at + 1 \in 1..Len(order) + 1
    BY <1>3, <2>2
  <2>6. FilterSweeps'
    BY <1>1, <1>4, <1>5, <2>1, <2>3, <2>4, <2>5 DEF FilterSweeps
  <2>7. Outcome' = Outcome
    BY <1>1, <2>1 DEF Outcome, Filter!Outcome
  <2>. QED  BY <1>1, <1>2, <2>6, <2>7, PromiseKept
<1>10. CASE Filter!EndSweep
  <2>1. /\ phase = "next" /\ at > Len(order) /\ UNCHANGED <<at, changed>>
        /\ phase' = IF changed THEN "sweep" ELSE "done"
    BY <1>10 DEF Filter!EndSweep
  <2>2. FilterSweeps'
    BY <1>1, <1>3, <1>5, <2>1 DEF FilterSweeps
  <2>3. CASE changed
    <3>1. Outcome' = Outcome
      BY <1>1, <2>1, <2>3 DEF Outcome, Filter!Outcome
    <3>. QED  BY <1>1, <1>2, <2>2, <3>1, PromiseKept
  <2>4. CASE ~changed
    <3>1. Swept(Len(order) + 1)
      <4>1. at = Len(order) + 1
        BY <1>3, <2>1
      <4>. QED  BY <2>1, <2>4, <4>1 DEF FilterSweeps
    <3>2. HasAll(Contribution)
      BY <3>1, SweptIsAll DEF Contribution
    <3>3. Outcome = "running" /\ Outcome' = "chart"
      BY <1>1, <2>1, <2>4 DEF Outcome, Filter!Outcome
    <3>. QED  BY <1>1, <1>2, <2>2, <3>2, <3>3, PromiseEnds
  <2>. QED  BY <2>3, <2>4
<1>. QED  BY <1>6, <1>7, <1>8, <1>9, <1>10

(* One child tuple is evaluated. *)
LEMMA SweepCombines ==
  ASSUME ChartInv, FilterSweeps, strategy = "filter", strategy' = strategy, NEW c \in combos, Filter!Combine(c)
  PROVE  ChartInv' /\ FilterSweeps' /\ [Promise!Next]_Promise!vars
<1>. USE DEF Filter!input, Filter!chart
<1>. DEFINE l == order[at]
<1>1. /\ UNCHANGED <<left, right, strategy, order, phase, at, cancelled>>
      /\ phase = "combine" /\ combos' = combos \ {c}
  BY DEF Filter!Combine
<1>2. /\ at \in DOMAIN order /\ l \in left.rules /\ c \in Filter!Combinations(l)
      /\ combos \subseteq Filter!Combinations(l)
  BY <1>1 DEF FilterSweeps
<1>3. Outcome = "running" /\ Outcome' = "running"
  BY <1>1 DEF Outcome, Filter!Outcome
<1>. DEFINE Same == /\ order \in Seq(left.rules) /\ Range(order) = left.rules
                    /\ order # <<>> => order[Len(order)].children # <<>>
                    /\ OneValue(right)
                    /\ at \in 1..Len(order) + 1
<1>4. Same'
  BY <1>1 DEF FilterSweeps, OneValue
<1>5. CASE /\ UNCHANGED <<product_pairs, accepting, rules, duplicate>>
           /\ changed' \in BOOLEAN /\ (~changed' => ~changed)
           /\ cancelled \/ Covers(l, c)
  <2>1. ChartInv'
    BY <1>1, <1>5, ChartKept
  <2>2. /\ \A n : Swept(n)' <=> Swept(n)
        /\ \A k : Filter!Combinations(k)' = Filter!Combinations(k)
        /\ \A k, d : Covers(k, d)' <=> Covers(k, d)
    BY <1>1, <1>5, SweptKept
  <2>3. FilterSweeps'
    BY <1>1, <1>2, <1>4, <1>5, <2>2 DEF FilterSweeps
  <2>. QED  BY <1>1, <1>3, <1>5, <2>1, <2>3, PromiseKept
<1>6. ASSUME NEW v \in Filter!Evaluate(l, c), Filter!Emit(l, c, <<l.result, v>>), ~cancelled
      PROVE  ChartInv' /\ FilterSweeps' /\ [Promise!Next]_Promise!vars
  <2>. DEFINE pair == <<l.result, v>>
  <2>1. PICK r \in right.rules : /\ l.symbol \in r.symbols /\ r.result = v
                                 /\ r.children = [i \in DOMAIN c |-> product_pairs[c[i]][2]]
    BY <1>6 DEF Filter!Evaluate
  <2>2. left.rules \subseteq ExplicitRules /\ right.rules \subseteq CondensedRules
    BY InputsAreAutomata DEF ChartInv, IsExplicit, IsCondensed
  <2>3. /\ l.children \in Seq(LeftStates) /\ l.result \in LeftStates /\ r.children \in Seq(RightStates)
        /\ r.result \in RightStates
    BY <1>2, <2>2 DEF ExplicitRules, CondensedRules
  <2>4. /\ c \in [DOMAIN l.children -> Ids]
        /\ \A i \in DOMAIN c : product_pairs[c[i]][1] = l.children[i]
    BY <1>2, FilteredChart DEF Filter!Combinations
  <2>5. c \in Seq(Ids) /\ DOMAIN c = DOMAIN l.children /\ Joins(l, r)
    <3>1. DOMAIN l.children = 1..Len(l.children) /\ Len(l.children) \in Nat
      BY <2>3
    <3>2. c \in Seq(Ids)
      BY <2>4, <3>1
    <3>3. DOMAIN r.children = DOMAIN l.children
      BY <2>1, <2>4
    <3>4. Len(l.children) = Len(r.children)
      BY <2>3, <3>3
    <3>. QED  BY <2>1, <2>4, <3>2, <3>4 DEF Joins
  <2>6. ProductRule(l, r).children = [i \in DOMAIN c |-> product_pairs[c[i]]]
    <3>1. \A i \in DOMAIN c : product_pairs[c[i]] = <<l.children[i], r.children[i]>>
      <4>. TAKE i \in DOMAIN c
      <4>1. product_pairs[c[i]] \in LeftStates \X RightStates
        <5>1. c[i] \in Ids
          BY <2>4
        <5>2. product_pairs[c[i]] \in Pairs
          BY <5>1 DEF Pairs
        <5>. QED  BY <5>2 DEF ChartInv
      <4>2. product_pairs[c[i]][1] = l.children[i] /\ product_pairs[c[i]][2] = r.children[i]
        BY <2>1, <2>4
      <4>. QED  BY <4>1, <4>2
    <3>. QED  BY <2>5, <3>1 DEF ProductRule
  <2>7. \A p \in right.rules : l.symbol \in p.symbols /\ p.children = r.children => p.result = v
    BY <2>1 DEF FilterSweeps, OneValue
  <2>8. ASSUME ProductRule(l, r) \in Decoded' PROVE Covers(l, c)'
    <3>1. \A p \in right.rules : l.symbol \in p.symbols /\ p.children = r.children
             => ProductRule(l, p) = ProductRule(l, r)
      BY <2>1, <2>7 DEF ProductRule
    <3>2. \A i \in DOMAIN c : product_pairs'[c[i]] = product_pairs[c[i]]
      <4>1. CASE product_pairs' = product_pairs
        BY <4>1
      <4>2. CASE AddProductRule(l.symbol, c, pair)
        <5>1. \A i \in Ids : product_pairs'[i] = product_pairs[i]
          <6>1. l.symbol \in Symbols /\ pair \in LeftStates \X RightStates
            BY <1>2, <2>1, <2>2, <2>3 DEF ExplicitRules
          <6>. HIDE DEF l, pair
          <6>. QED  BY <1>1, <2>5, <4>2, <6>1, ChartGrows
        <5>. QED  BY <2>4, <5>1
      <4>. QED  BY <1>6, <4>1, <4>2, FilteredChart DEF Filter!Emit
    <3>3. [i \in DOMAIN c |-> product_pairs'[c[i]][2]] = [i \in DOMAIN c |-> product_pairs[c[i]][2]]
      BY <3>2
    <3>. QED  BY <1>1, <2>1, <2>8, <3>1, <3>3 DEF Covers
  <2>9. CASE UNCHANGED <<product_pairs, accepting, rules, duplicate>>
    <3>1. changed' = (changed \/ ~Known(pair))
      BY <1>6, FilteredChart DEF Filter!Emit
    <3>2. ProductRule(l, r) \in Decoded
      <4>1. CASE AddProductRule(l.symbol, c, pair)
        <5>1. Decoded' = Decoded \cup {ProductRule(l, r)}
          <6>1. r \in Contribution.rules
            BY DEF Contribution
          <6>. HIDE DEF l
          <6>. QED  BY <1>1, <1>2, <1>3, <2>1, <2>3, <2>5, <2>6, <4>1, <6>1, PromiseAdds
        <5>2. Decoded' = Decoded
          BY <2>9 DEF Decoded, Decode
        <5>. QED  BY <5>1, <5>2
      <4>2. CASE Known(pair) /\ [symbol |-> l.symbol, children |-> c, parent |-> IdOf(pair)] \in rules
        <5>. DEFINE x == [symbol |-> l.symbol, children |-> c, parent |-> IdOf(pair)]
        <5>1. product_pairs[IdOf(pair)] = pair
          BY <4>2, IdOfKnown
        <5>2. Decode(x) = ProductRule(l, r)
          BY <2>1, <2>6, <5>1 DEF Decode, ProductRule
        <5>. HIDE DEF x
        <5>. QED  BY <4>2, <5>2 DEF Decoded, x
      <4>. QED  BY <1>6, <4>1, <4>2, FilteredChart DEF Filter!Emit
    <3>3. Covers(l, c)
      <4>1. ProductRule(l, r) \in Decoded'
        BY <2>9, <3>2 DEF Decoded, Decode
      <4>2. Covers(l, c)'
        BY <2>8, <4>1
      <4>. QED  BY <1>1, <2>9, <4>2, SweptKept
    <3>4. changed' \in BOOLEAN /\ (~changed' => ~changed)
      BY <3>1 DEF FilterSweeps
    <3>. QED  BY <1>5, <2>9, <3>3, <3>4
  <2>10. CASE AddProductRule(l.symbol, c, pair)
    <3>1. changed' = (changed \/ ~Known(pair))
      BY <1>6, FilteredChart DEF Filter!Emit
    <3>2. pair \in LeftStates \X RightStates /\ r \in Contribution.rules /\ pair = <<l.result, r.result>>
      BY <2>1, <2>3 DEF Contribution
    <3>3. [Promise!Next]_Promise!vars /\ Decoded' = Decoded \cup {ProductRule(l, r)}
      <4>. HIDE DEF l
      <4>. QED  BY <1>1, <1>2, <1>3, <2>5, <2>6, <2>10, <3>2, PromiseAdds
    <3>4. ChartInv'
      <4>1. l.symbol \in Symbols
        BY <1>2, <2>2 DEF ExplicitRules
      <4>. HIDE DEF l, pair
      <4>. QED  BY <1>1, <2>5, <2>10, <3>2, <4>1, ChartGrows
    <3>5. FilterSweeps'
      <4>1. CASE changed'
        <5>1. Ids \subseteq Ids' /\ \A i \in Ids : product_pairs'[i] = product_pairs[i]
          <6>1. l.symbol \in Symbols
            BY <1>2, <2>2 DEF ExplicitRules
          <6>. HIDE DEF l, pair
          <6>. QED  BY <1>1, <2>5, <2>10, <3>2, <6>1, ChartGrows
        <5>2. \A k : Filter!Combinations(k) \subseteq Filter!Combinations(k)'
          BY <5>1, FilteredChart DEF Filter!Combinations, Filter!Ids, Ids
        <5>3. combos' \subseteq Filter!Combinations(order[at])'
          BY <1>1, <1>2, <5>2
        <5>4. at' \in DOMAIN order' /\ changed' \in BOOLEAN
          BY <1>1, <1>2, <4>1
        <5>. QED  BY <1>1, <1>4, <4>1, <5>3, <5>4 DEF FilterSweeps
      <4>2. CASE ~changed'
        <5>1. ~changed /\ Known(pair)
          BY <3>1, <4>2
        <5>2. product_pairs' = product_pairs
          BY <2>10, <5>1 DEF AddProductRule
        <5>3. /\ \A k : Filter!Combinations(k)' = Filter!Combinations(k)
              /\ \A k, d : Covers(k, d) => Covers(k, d)'
              /\ \A k : CoversAll(k) => CoversAll(k)'
          BY <1>1, <3>3, <5>2, CoversKept
        <5>4. Swept(at) => Swept(at)'
          BY <1>1, <5>3 DEF Swept
        <5>5. Covers(l, c)'
          BY <2>8, <3>3
        <5>6. combos' \subseteq Filter!Combinations(order[at])'
          BY <1>1, <1>2, <5>3
        <5>7. ASSUME ~cancelled, NEW d \in Filter!Combinations(order[at])' \ combos' PROVE Covers(order[at], d)'
          <6>1. d \in Filter!Combinations(order[at]) /\ (d = c \/ d \notin combos)
            BY <1>1, <5>3, <5>7
          <6>2. d \notin combos => Covers(order[at], d)
            BY <1>1, <5>1, <5>7, <6>1 DEF FilterSweeps
          <6>. QED  BY <1>1, <5>3, <5>5, <6>1, <6>2
        <5>8. ~cancelled => Swept(at)'
          BY <1>1, <5>1, <5>4 DEF FilterSweeps
        <5>9. at' \in DOMAIN order' /\ changed' \in BOOLEAN
          BY <1>1, <1>2, <3>1 DEF FilterSweeps
        <5>. HIDE DEF l
        <5>. QED  BY <1>1, <1>4, <5>6, <5>7, <5>8, <5>9 DEF FilterSweeps
      <4>. QED  BY <4>1, <4>2
    <3>. QED  BY <3>3, <3>4, <3>5
  <2>. QED  BY <1>6, <2>9, <2>10, FilteredChart DEF Filter!Emit
<1>7. CASE (cancelled \/ Filter!Evaluate(l, c) = {}) /\ UNCHANGED <<product_pairs, accepting, rules, duplicate, changed>>
  <2>1. cancelled \/ Covers(l, c)
    <3>1. ASSUME Filter!Evaluate(l, c) = {} PROVE Covers(l, c)
      BY <3>1 DEF Filter!Evaluate, Covers
    <3>. QED  BY <1>7, <3>1
  <2>2. changed' \in BOOLEAN /\ (~changed' => ~changed)
    BY <1>7 DEF FilterSweeps
  <2>. QED  BY <1>5, <1>7, <2>1, <2>2
<1>. QED  BY <1>6, <1>7 DEF Filter!Combine

FilterSafe == strategy = "filter" => ChartInv /\ FilterSweeps

LEMMA FilterInit ==
  ASSUME FiltersListRules, Init
  PROVE  FilterSafe
<1>. SUFFICES ASSUME strategy = "filter" PROVE ChartInv /\ FilterSweeps
  BY DEF FilterSafe
<1>1. PICK job \in Jobs : /\ strategy = job.strategy /\ left = job.left /\ order = job.order
                          /\ right = (IF job.strategy = "top-down" THEN ImagesByParent ELSE Images)[job.input]
  BY DEF Init
<1>2. /\ order \in Seq(left.rules) /\ Range(order) = left.rules /\ OneValue(right)
      /\ order # <<>> => order[Len(order)].children # <<>>
  BY <1>1 DEF FiltersListRules
<1>3. phase = "sweep" /\ at = 1 /\ changed = FALSE
  BY DEF Init, Filter!Init
<1>4. FilterSweeps
  <2>1. 1 \in 1..Len(order) + 1
    BY <1>2
  <2>. QED  BY <1>2, <1>3, <2>1 DEF FilterSweeps
<1>. QED  BY <1>4, WalkInit

LEMMA FilterStep ==
  ASSUME FilterSafe, [Next]_vars
  PROVE  FilterSafe' /\ (strategy = "filter" => [Promise!Next]_Promise!vars)
<1>1. strategy' = strategy
  BY DEF Next, vars, ParseTopDown, ParseWithSiblings, FilterChart, MaterializeLazily, Cancel
<1>. SUFFICES ASSUME strategy = "filter" PROVE ChartInv' /\ FilterSweeps' /\ [Promise!Next]_Promise!vars
  BY <1>1 DEF FilterSafe
<1>2. ChartInv /\ FilterSweeps
  BY DEF FilterSafe
<1>3. CASE Filter!Work
  BY <1>1, <1>2, <1>3, SweepMoves, SweepCombines DEF Filter!Work
<1>4. CASE Cancel \/ UNCHANGED vars
  <2>1. /\ UNCHANGED <<left, right, strategy, product_pairs, accepting, rules, duplicate, sweep_vars>>
        /\ cancelled => cancelled'
    BY <1>4 DEF Cancel, vars, Sibling!Cancel, Sibling!input, Sibling!chart
  <2>2. ChartInv'
    BY <1>2, <2>1, ChartKept
  <2>3. /\ \A n : Swept(n)' <=> Swept(n)
        /\ \A l : Filter!Combinations(l)' = Filter!Combinations(l)
        /\ \A l, c : Covers(l, c)' <=> Covers(l, c)
    BY <2>1, SweptKept DEF sweep_vars
  <2>4. FilterSweeps'
    BY <1>2, <2>1, <2>3 DEF FilterSweeps, OneValue, sweep_vars
  <2>5. Outcome' = Outcome
    BY <2>1 DEF Outcome, Filter!Outcome, sweep_vars
  <2>. QED  BY <2>1, <2>2, <2>4, <2>5, PromiseKept
<1>. QED  BY <1>3, <1>4 DEF Next, ParseTopDown, ParseWithSiblings, FilterChart, MaterializeLazily

-----------------------------------------------------------------------------
(* The lazy product keeps the promise. *)

(* Asked for a symbol of l and child states, the lazy inverse image answers *)
(* with what the transitions of the inverse image lead to.                  *)
AnswersFor(a, algebra, images, l) ==
    \A q \in [DOMAIN l.children -> algebra.states] :
        Lazy!StepOf(algebra, images, l.symbol, q)
          = {r.result : r \in {x \in a.rules : l.symbol \in x.symbols /\ x.children = q}}

LazyImagesEvaluate ==
    \A job \in Jobs : job.strategy = "lazy" =>
        /\ \A r \in Images[job.input].rules : r.result \in job.input.decomp.states
        /\ \A l \in job.left.rules : AnswersFor(Images[job.input], job.input.decomp, job.input.hom, l)

(* The lookups that there can be. *)
Keys == UNION {[symbol : {s[1]}, children : [1..s[2] -> Ids]] : s \in Lazy!Alphabet}

(* What a lookup should find: the parents of the product rules over its     *)
(* children.                                                                *)
IsAnswer(k, pair) ==
    \E l \in left.rules, r \in right.rules :
        /\ Joins(l, r) /\ l.symbol = k.symbol /\ pair = <<l.result, r.result>>
        /\ ProductRule(l, r).children = [i \in DOMAIN k.children |-> product_pairs[k.children[i]]]

Recorded(k, pair) ==
    \E x \in rules : x.symbol = k.symbol /\ x.children = k.children /\ product_pairs[x.parent] = pair

(* A lookup that would find something and has not been made: one of its     *)
(* states is on the worklist.                                               *)
Waits(k) == stage = "start" \/ \E i \in DOMAIN k.children : k.children[i] \in Range(worklist)

MemoWorks ==
    /\ \A r \in right.rules : r.result \in decomp.states
    /\ \A l \in left.rules : AnswersFor(right, decomp, hom, l)
    /\ Pairs \subseteq LeftStates \X decomp.states
    /\ stage \in {"start", "run", "done"}
    /\ stage = "start" => Ids = {}
    /\ worklist \in Seq(Ids)
    /\ lookups \cup cached \subseteq Keys
    /\ \A a \in answers : /\ a.key \in cached /\ a = [key |-> a.key, pair |-> a.pair]
                          /\ IsAnswer(a.key, a.pair)
    /\ \A k \in cached, pair \in LeftStates \X decomp.states :
          IsAnswer(k, pair) => Recorded(k, pair) \/ [key |-> k, pair |-> pair] \in answers
    /\ \A k \in Keys \ (cached \cup lookups), pair \in LeftStates \X decomp.states :
          IsAnswer(k, pair) => Waits(k)

LEMMA LeftRulesAre ==
  ASSUME ChartInv, NEW l \in left.rules
  PROVE  /\ l.symbol \in Symbols /\ l.result \in LeftStates /\ l.children \in Seq(LeftStates)
         /\ Len(l.children) \in Nat /\ DOMAIN l.children = 1..Len(l.children)
<1>1. l \in ExplicitRules
  BY InputsAreAutomata DEF ChartInv, IsExplicit
<1>. QED  BY <1>1 DEF ExplicitRules

LEMMA RightRulesAre ==
  ASSUME ChartInv, NEW r \in right.rules
  PROVE  /\ r.result \in RightStates /\ r.children \in Seq(RightStates)
         /\ Len(r.children) \in Nat /\ DOMAIN r.children = 1..Len(r.children)
<1>1. r \in CondensedRules
  BY InputsAreAutomata DEF ChartInv, IsCondensed
<1>. QED  BY <1>1 DEF CondensedRules

KeysOfRules ==
    \A k : k \in Keys <=> \E l \in left.rules : /\ k = [symbol |-> l.symbol, children |-> k.children]
                                               /\ k.children \in [DOMAIN l.children -> Ids]

LEMMA KeysAreOfRules ==
  ASSUME ChartInv
  PROVE  KeysOfRules
<1>. SUFFICES ASSUME NEW k
              PROVE  k \in Keys <=> \E l \in left.rules : /\ k = [symbol |-> l.symbol, children |-> k.children]
                                                          /\ k.children \in [DOMAIN l.children -> Ids]
  BY DEF KeysOfRules
<1>. DEFINE s(l) == <<l.symbol, Len(l.children)>>
<1>1. k \in Keys <=> \E l \in left.rules : k \in [symbol : {s(l)[1]}, children : [1..s(l)[2] -> Ids]]
  BY DEF Keys, Lazy!Alphabet
<1>2. ASSUME NEW l \in left.rules
      PROVE  k \in [symbol : {s(l)[1]}, children : [1..s(l)[2] -> Ids]]
             <=> k = [symbol |-> l.symbol, children |-> k.children] /\ k.children \in [DOMAIN l.children -> Ids]
  <2>1. DOMAIN l.children = 1..Len(l.children)
    BY LeftRulesAre
  <2>2. s(l)[1] = l.symbol /\ s(l)[2] = Len(l.children)
    OBVIOUS
  <2>. HIDE DEF s
  <2>. QED  BY <2>1, <2>2
<1>. HIDE DEF s
<1>. QED  BY <1>1, <1>2

(* A lookup is of a sequence of ids. *)
LEMMA KeyShape ==
  ASSUME ChartInv, NEW k \in Keys
  PROVE  /\ k = [symbol |-> k.symbol, children |-> k.children]
         /\ k.children \in Seq(Ids) /\ k.symbol \in Symbols
         /\ \A i \in DOMAIN k.children : k.children[i] \in Ids
<1>1. PICK l \in left.rules : k = [symbol |-> l.symbol, children |-> k.children] /\ k.children \in [DOMAIN l.children -> Ids]
  BY KeysAreOfRules DEF KeysOfRules
<1>2. DOMAIN l.children = 1..Len(l.children) /\ Len(l.children) \in Nat /\ l.symbol \in Symbols
  BY LeftRulesAre
<1>3. k.children \in Seq(Ids)
  BY <1>1, <1>2
<1>. QED  BY <1>1, <1>2, <1>3

LEMMA AnswersAre ==
  ASSUME ChartInv, MemoWorks, NEW k \in Keys, NEW pair
  PROVE  pair \in Lazy!Answers(k) <=> IsAnswer(k, pair)
<1>. DEFINE states == [i \in DOMAIN k.children |-> product_pairs[k.children[i]]]
            component(n) == [i \in DOMAIN states |-> states[i][n]]
            lefts == {l.result : l \in {x \in left.rules : x.symbol = k.symbol /\ x.children = component(1)}}
            rights == Lazy!StepOf(decomp, hom, k.symbol, component(2))
<1>1. Lazy!Answers(k) = lefts \X rights
  BY DEF Lazy!Answers, Lazy!ProductStep
<1>2. k.children \in Seq(Ids) /\ \A i \in DOMAIN k.children : k.children[i] \in Ids
  BY KeyShape
<1>3. \A i \in DOMAIN k.children : states[i] \in LeftStates \X decomp.states
  BY <1>2 DEF MemoWorks, Pairs
<1>4. ASSUME NEW l \in left.rules, l.symbol = k.symbol, l.children = component(1)
      PROVE  rights = {r.result : r \in {x \in right.rules : l.symbol \in x.symbols /\ x.children = component(2)}}
  <2>1. DOMAIN l.children = DOMAIN k.children
    BY <1>4
  <2>2. component(2) \in [DOMAIN l.children -> decomp.states]
    BY <1>3, <2>1
  <2>3. AnswersFor(right, decomp, hom, l)
    BY DEF MemoWorks
  <2>. HIDE DEF states
  <2>. QED  BY <1>4, <2>2, <2>3 DEF AnswersFor
<1>5. ASSUME NEW l \in left.rules, NEW r \in right.rules
      PROVE  Joins(l, r) /\ ProductRule(l, r).children = states
             <=> l.symbol \in r.symbols /\ l.children = component(1) /\ r.children = component(2)
  <2>1. /\ DOMAIN l.children = 1..Len(l.children) /\ Len(l.children) \in Nat
        /\ DOMAIN r.children = 1..Len(r.children) /\ Len(r.children) \in Nat
        /\ l.children \in Seq(LeftStates) /\ r.children \in Seq(RightStates)
    BY LeftRulesAre, RightRulesAre
  <2>2. ProductRule(l, r).children = [i \in DOMAIN l.children |-> <<l.children[i], r.children[i]>>]
    BY DEF ProductRule
  <2>3. DOMAIN states = DOMAIN k.children /\ DOMAIN component(1) = DOMAIN states /\ DOMAIN component(2) = DOMAIN states
    OBVIOUS
  <2>4. ASSUME Joins(l, r), ProductRule(l, r).children = states
        PROVE  l.symbol \in r.symbols /\ l.children = component(1) /\ r.children = component(2)
    <3>1. DOMAIN l.children = DOMAIN states /\ DOMAIN r.children = DOMAIN states
      BY <2>1, <2>2, <2>4 DEF Joins
    <3>2. \A i \in DOMAIN states : states[i] = <<l.children[i], r.children[i]>>
      BY <2>2, <2>4, <3>1
    <3>3. l.children = [i \in DOMAIN l.children |-> l.children[i]] /\ r.children = [i \in DOMAIN r.children |-> r.children[i]]
      BY <2>1, SMTT(30)
    <3>. HIDE DEF states
    <3>. QED  BY <2>4, <3>1, <3>2, <3>3 DEF Joins
  <2>5. ASSUME l.symbol \in r.symbols, l.children = component(1), r.children = component(2)
        PROVE  Joins(l, r) /\ ProductRule(l, r).children = states
    <3>1. DOMAIN l.children = DOMAIN states /\ DOMAIN r.children = DOMAIN states
      BY <2>3, <2>5
    <3>2. Len(l.children) = Len(r.children)
      <4>. DEFINE m == Len(l.children)
                  n == Len(r.children)
      <4>1. m \in Nat /\ n \in Nat /\ 1..m = 1..n
        BY <2>1, <3>1
      <4>. HIDE DEF m, n
      <4>2. m = n
        BY ONLY <4>1
      <4>. QED  BY <4>2 DEF m, n
    <3>3. \A i \in DOMAIN states : <<l.children[i], r.children[i]>> = states[i]
      <4>. TAKE i \in DOMAIN states
      <4>1. states[i] \in LeftStates \X decomp.states
        BY <1>3
      <4>2. l.children[i] = states[i][1] /\ r.children[i] = states[i][2]
        BY <2>5
      <4>. HIDE DEF states
      <4>. QED  BY <4>1, <4>2
    <3>4. states = [i \in DOMAIN states |-> states[i]]
      OBVIOUS
    <3>. HIDE DEF states
    <3>. QED  BY <2>2, <2>5, <3>1, <3>2, <3>3, <3>4 DEF Joins
  <2>. QED  BY <2>4, <2>5
<1>. HIDE DEF states, component
<1>6. ASSUME pair \in Lazy!Answers(k) PROVE IsAnswer(k, pair)
  <2>1. PICK l \in left.rules : l.symbol = k.symbol /\ l.children = component(1) /\ pair[1] = l.result
    BY <1>1, <1>6
  <2>2. pair[2] \in rights /\ pair = <<pair[1], pair[2]>>
    BY <1>1, <1>6
  <2>3. PICK r \in right.rules : l.symbol \in r.symbols /\ r.children = component(2) /\ pair[2] = r.result
    <3>1. rights = {r.result : r \in {x \in right.rules : l.symbol \in x.symbols /\ x.children = component(2)}}
      BY <1>4, <2>1
    <3>. HIDE DEF rights
    <3>. QED  BY <2>2, <3>1
  <2>4. Joins(l, r) /\ ProductRule(l, r).children = states
    BY <1>5, <2>1, <2>3
  <2>. QED  BY <2>1, <2>2, <2>3, <2>4 DEF IsAnswer, states
<1>7. ASSUME IsAnswer(k, pair) PROVE pair \in Lazy!Answers(k)
  <2>1. PICK l \in left.rules, r \in right.rules :
           /\ Joins(l, r) /\ l.symbol = k.symbol /\ pair = <<l.result, r.result>>
           /\ ProductRule(l, r).children = states
    BY <1>7 DEF IsAnswer, states
  <2>2. l.symbol \in r.symbols /\ l.children = component(1) /\ r.children = component(2)
    BY <1>5, <2>1
  <2>3. rights = {x.result : x \in {y \in right.rules : l.symbol \in y.symbols /\ y.children = component(2)}}
    BY <1>4, <2>1, <2>2
  <2>4. l.result \in lefts /\ r.result \in rights
    <3>. HIDE DEF rights
    <3>. QED  BY <2>1, <2>2, <2>3
  <2>. HIDE DEF lefts, rights
  <2>. QED  BY <1>1, <2>1, <2>4
<1>. QED  BY <1>6, <1>7

LEMMA LookupsAre ==
  ASSUME ChartInv
  PROVE  /\ \A id : Lazy!LookupsOf(id) = {k \in Keys : id \in Range(k.children)}
         /\ Lazy!NullaryLookups \subseteq Keys
         /\ \A k \in Keys : k.children = <<>> => k \in Lazy!NullaryLookups
<1>1. \A id : Lazy!LookupsOf(id) = {k \in Keys : id \in Range(k.children)}
  BY MemoChart DEF Lazy!LookupsOf, Keys, Lazy!Range, Range
<1>2. ASSUME NEW k \in Lazy!NullaryLookups PROVE k \in Keys
  <2>1. PICK s \in Lazy!Alphabet : s[2] = 0 /\ k \in [symbol : {s[1]}, children : {<<>>}]
    BY <1>2 DEF Lazy!NullaryLookups
  <2>2. PICK l \in left.rules : s = <<l.symbol, Len(l.children)>>
    BY <2>1 DEF Lazy!Alphabet
  <2>3. k = [symbol |-> l.symbol, children |-> k.children] /\ k.children = <<>> /\ Len(l.children) = 0
    BY <2>1, <2>2
  <2>4. DOMAIN l.children = {}
    BY <2>3, LeftRulesAre
  <2>5. k.children \in [DOMAIN l.children -> Ids]
    BY <2>3, <2>4
  <2>. QED  BY <2>3, <2>5, KeysAreOfRules DEF KeysOfRules
<1>3. ASSUME NEW k \in Keys, k.children = <<>> PROVE k \in Lazy!NullaryLookups
  <2>1. PICK l \in left.rules : k = [symbol |-> l.symbol, children |-> k.children] /\ k.children \in [DOMAIN l.children -> Ids]
    BY KeysAreOfRules DEF KeysOfRules
  <2>2. Len(l.children) = 0
    <3>1. DOMAIN l.children = {} /\ DOMAIN l.children = 1..Len(l.children) /\ Len(l.children) \in Nat
      BY <1>3, <2>1, LeftRulesAre
    <3>. DEFINE m == Len(l.children)
    <3>2. m \in Nat /\ 1..m = {}
      BY <3>1
    <3>. HIDE DEF m
    <3>3. m = 0
      BY ONLY <3>2
    <3>. QED  BY <3>3 DEF m
  <2>. DEFINE s == <<l.symbol, Len(l.children)>>
  <2>3. s \in Lazy!Alphabet /\ s[2] = 0 /\ s[1] = l.symbol
    BY <2>2 DEF Lazy!Alphabet
  <2>. HIDE DEF s
  <2>4. k \in [symbol : {s[1]}, children : {<<>>}]
    BY <1>3, <2>1, <2>3
  <2>. QED  BY <2>3, <2>4 DEF Lazy!NullaryLookups
<1>. QED  BY <1>1, <1>2, <1>3

(* What a lookup should find depends on the states that its ids name.       *)
LEMMA AnswerStays ==
  ASSUME ChartInv, Ids \subseteq Ids', \A i \in Ids : product_pairs'[i] = product_pairs[i],
         UNCHANGED <<left, right>>, NEW k \in Keys, NEW pair
  PROVE  IsAnswer(k, pair)' <=> IsAnswer(k, pair)
<1>1. \A i \in DOMAIN k.children : k.children[i] \in Ids
  BY KeyShape
<1>2. [i \in DOMAIN k.children |-> product_pairs'[k.children[i]]] = [i \in DOMAIN k.children |-> product_pairs[k.children[i]]]
  BY <1>1
<1>3. ASSUME IsAnswer(k, pair) PROVE IsAnswer(k, pair)'
  <2>1. PICK l \in left.rules, r \in right.rules :
           /\ Joins(l, r) /\ l.symbol = k.symbol /\ pair = <<l.result, r.result>>
           /\ ProductRule(l, r).children = [i \in DOMAIN k.children |-> product_pairs[k.children[i]]]
    BY <1>3 DEF IsAnswer
  <2>2. l \in left'.rules /\ r \in right'.rules
    OBVIOUS
  <2>. QED  BY <1>2, <2>1, <2>2 DEF IsAnswer
<1>4. ASSUME IsAnswer(k, pair)' PROVE IsAnswer(k, pair)
  <2>1. PICK l \in left'.rules, r \in right'.rules :
           /\ Joins(l, r) /\ l.symbol = k.symbol /\ pair = <<l.result, r.result>>
           /\ ProductRule(l, r).children = [i \in DOMAIN k.children |-> product_pairs'[k.children[i]]]
    BY <1>4 DEF IsAnswer
  <2>2. l \in left.rules /\ r \in right.rules
    OBVIOUS
  <2>. QED  BY <1>2, <2>1, <2>2, ZenonT(30) DEF IsAnswer
<1>. QED  BY <1>3, <1>4

LEMMA KeysAreOfRulesNext == ChartInv' => KeysOfRules'
<1>1. ChartInv => KeysOfRules
  BY KeysAreOfRules
<1>. QED  BY <1>1, PTL

LEMMA KeysStay ==
  ASSUME ChartInv, ChartInv', Ids \subseteq Ids', UNCHANGED <<left, right>>
  PROVE  Keys \subseteq Keys'
<1>. SUFFICES ASSUME NEW k \in Keys PROVE k \in Keys'
  OBVIOUS
<1>1. PICK l \in left.rules : k = [symbol |-> l.symbol, children |-> k.children] /\ k.children \in [DOMAIN l.children -> Ids]
  BY KeysAreOfRules DEF KeysOfRules
<1>2. k.children \in [DOMAIN l.children -> Ids']
  BY <1>1
<1>. QED  BY <1>1, <1>2, KeysAreOfRulesNext DEF KeysOfRules

(* The chart is not touched: only what is looked up changes. *)
LEMMA MemoMoves ==
  ASSUME ChartInv, MemoWorks, strategy = "lazy", strategy' = strategy,
         Lazy!Start \/ Lazy!Pop \/ Lazy!Finish \/ \E k \in lookups : Lazy!Lookup(k)
  PROVE  ChartInv' /\ MemoWorks' /\ [Promise!Next]_Promise!vars
<1>. USE DEF Lazy!input, Lazy!chart
<1>1. UNCHANGED <<left, right, decomp, hom, strategy, product_pairs, accepting, rules, duplicate>>
  BY DEF Lazy!Start, Lazy!Pop, Lazy!Finish, Lazy!Lookup
<1>2. ChartInv' /\ Ids' = Ids /\ Pairs' = Pairs
  BY <1>1, ChartKept
<1>3. /\ Keys' = Keys
      /\ \A k, pair : IsAnswer(k, pair)' <=> IsAnswer(k, pair)
      /\ \A k, pair : Recorded(k, pair)' <=> Recorded(k, pair)
  BY <1>1, <1>2 DEF Keys, Lazy!Alphabet, IsAnswer, Recorded
<1>4. \A keys : \A k \in keys \cap Keys : \A pair : IsAnswer(k, pair) => k \in Lazy!Productive(keys) \cup cached
  BY AnswersAre DEF Lazy!Productive
<1>5. \A keys : Lazy!Productive(keys) \subseteq keys
  BY DEF Lazy!Productive
<1>. DEFINE Same == /\ \A r \in right.rules : r.result \in decomp.states
                    /\ \A l \in left.rules : AnswersFor(right, decomp, hom, l)
                    /\ Pairs \subseteq LeftStates \X decomp.states
<1>6. Same'
  BY <1>1, <1>2 DEF MemoWorks, AnswersFor
<1>7. CASE Lazy!Start
  <2>1. /\ stage = "start" /\ stage' = "run" /\ UNCHANGED <<worklist, cached, answers>>
        /\ lookups' = Lazy!Productive(Lazy!NullaryLookups)
    BY <1>7 DEF Lazy!Start
  <2>2. \A k \in Keys : k \in Lazy!NullaryLookups
    <3>1. ASSUME NEW k \in Keys PROVE k.children = <<>>
      <4>1. k.children \in Seq(Ids) /\ Ids = {}
        BY <2>1, KeyShape DEF MemoWorks
      <4>. QED  BY <4>1
    <3>. QED  BY <3>1, LookupsAre
  <2>3. lookups' \subseteq Keys
    BY <2>1, <1>5, LookupsAre
  <2>4. \A k \in Keys \ (cached \cup lookups') : \A pair : ~IsAnswer(k, pair)
    BY <1>4, <2>1, <2>2
  <2>5. MemoWorks'
    <3>1. \A a \in answers' : /\ a.key \in cached' /\ a = [key |-> a.key, pair |-> a.pair]
                               /\ IsAnswer(a.key, a.pair)'
      BY <1>3, <2>1 DEF MemoWorks
    <3>2. \A k \in cached', pair \in LeftStates \X decomp'.states :
             IsAnswer(k, pair)' => Recorded(k, pair)' \/ [key |-> k, pair |-> pair] \in answers'
      BY <1>1, <1>3, <2>1 DEF MemoWorks
    <3>3. \A k \in Keys' \ (cached' \cup lookups'), pair \in LeftStates \X decomp'.states : IsAnswer(k, pair)' => Waits(k)'
      BY <1>3, <2>1, <2>4
    <3>4. /\ stage' \in {"start", "run", "done"} /\ (stage' = "start" => Ids' = {}) /\ worklist' \in Seq(Ids')
          /\ lookups' \cup cached' \subseteq Keys'
      BY <1>2, <1>3, <2>1, <2>3 DEF MemoWorks
    <3>. QED  BY <1>6, <3>1, <3>2, <3>3, <3>4 DEF MemoWorks
  <2>6. Outcome' = Outcome
    BY <1>1, <2>1 DEF Outcome, Lazy!Outcome
  <2>. QED  BY <1>1, <1>2, <2>5, <2>6, PromiseKept
<1>8. ASSUME NEW k \in lookups, Lazy!Lookup(k) PROVE ChartInv' /\ MemoWorks' /\ [Promise!Next]_Promise!vars
  <2>1. /\ stage = "run" /\ stage' = stage /\ answers = {} /\ worklist' = worklist
        /\ lookups' = lookups \ {k} /\ cached' = cached \cup {k}
        /\ answers' = {[key |-> k, pair |-> p] : p \in Lazy!Answers(k)}
    BY <1>8 DEF Lazy!Lookup
  <2>2. k \in Keys /\ \A p : p \in Lazy!Answers(k) <=> IsAnswer(k, p)
    <3>1. k \in Keys
      BY DEF MemoWorks
    <3>. QED  BY <3>1, AnswersAre
  <2>3. \A a \in answers' : a.key = k /\ a = [key |-> a.key, pair |-> a.pair] /\ IsAnswer(k, a.pair)
    BY <2>1, <2>2
  <2>4. \A p : IsAnswer(k, p) => [key |-> k, pair |-> p] \in answers'
    BY <2>1, <2>2
  <2>5. \A y \in cached, p \in LeftStates \X decomp.states : IsAnswer(y, p) => Recorded(y, p)
    BY <2>1 DEF MemoWorks
  <2>6. \A y \in Keys : Waits(y) => Waits(y)'
    BY <2>1 DEF Waits
  <2>7. \A a \in answers' : a.key \in cached' /\ a = [key |-> a.key, pair |-> a.pair] /\ IsAnswer(a.key, a.pair)'
    BY <1>3, <2>1, <2>3
  <2>8. \A y \in cached', p \in LeftStates \X decomp'.states :
           IsAnswer(y, p)' => Recorded(y, p)' \/ [key |-> y, pair |-> p] \in answers'
    BY <1>1, <1>3, <2>1, <2>4, <2>5
  <2>9. \A y \in Keys' \ (cached' \cup lookups'), p \in LeftStates \X decomp'.states : IsAnswer(y, p)' => Waits(y)'
    <3>. SUFFICES ASSUME NEW y \in Keys' \ (cached' \cup lookups'), NEW p \in LeftStates \X decomp'.states, IsAnswer(y, p)'
                  PROVE  Waits(y)'
      OBVIOUS
    <3>1. y \in Keys \ (cached \cup lookups) /\ p \in LeftStates \X decomp.states /\ IsAnswer(y, p)
      BY <1>1, <1>3, <2>1
    <3>. QED  BY <2>6, <3>1 DEF MemoWorks
  <2>10. /\ stage' \in {"start", "run", "done"} /\ (stage' = "start" => Ids' = {}) /\ worklist' \in Seq(Ids')
         /\ lookups' \cup cached' \subseteq Keys'
    BY <1>2, <1>3, <2>1, <2>2 DEF MemoWorks
  <2>11. MemoWorks'
    BY <1>6, <2>7, <2>8, <2>9, <2>10 DEF MemoWorks
  <2>12. Outcome' = Outcome
    BY <1>1, <2>1 DEF Outcome, Lazy!Outcome
  <2>. QED  BY <1>1, <1>2, <2>11, <2>12, PromiseKept
<1>9. CASE Lazy!Pop
  <2>. DEFINE id == worklist[Len(worklist)]
  <2>1. /\ stage = "run" /\ stage' = stage /\ answers = {} /\ lookups = {} /\ worklist # <<>>
        /\ worklist' = SubSeq(worklist, 1, Len(worklist) - 1)
        /\ lookups' = Lazy!Productive(Lazy!LookupsOf(id)) /\ UNCHANGED <<cached, answers>>
    BY <1>9 DEF Lazy!Pop
  <2>2. worklist' \in Seq(Ids) /\ \A i \in Range(worklist) : i = id \/ i \in Range(worklist')
    <3>. DEFINE n == Len(worklist)
    <3>1. n \in Nat /\ n > 0 /\ DOMAIN worklist = 1..n /\ worklist \in Seq(Ids)
      BY <2>1 DEF MemoWorks
    <3>2. /\ worklist' \in Seq(Ids) /\ Len(worklist') = n - 1
          /\ \A i \in 1..n - 1 : worklist'[i] = worklist[i]
      BY <2>1, <3>1
    <3>3. DOMAIN worklist' = 1..n - 1
      BY <3>2
    <3>4. ASSUME NEW i \in DOMAIN worklist PROVE worklist[i] = id \/ worklist[i] \in Range(worklist')
      <4>1. i = n \/ i \in 1..n - 1
        <5>. HIDE DEF n
        <5>. QED  BY <3>1
      <4>. QED  BY <3>2, <3>3, <4>1 DEF Range
    <3>. QED  BY <3>2, <3>4 DEF Range
  <2>3. lookups' \subseteq Keys
    BY <2>1, <1>5, LookupsAre
  <2>4. \A k \in Keys \ (cached \cup lookups'), pair \in LeftStates \X decomp.states : IsAnswer(k, pair) => Waits(k)'
    <3>. SUFFICES ASSUME NEW k \in Keys \ (cached \cup lookups'), NEW pair \in LeftStates \X decomp.states, IsAnswer(k, pair)
                  PROVE  Waits(k)'
      OBVIOUS
    <3>1. Waits(k)
      BY <2>1 DEF MemoWorks
    <3>2. PICK i \in DOMAIN k.children : k.children[i] \in Range(worklist)
      BY <2>1, <3>1 DEF Waits
    <3>3. k \notin Lazy!LookupsOf(id)
      BY <1>4, <2>1
    <3>4. k.children[i] # id
      BY <3>3, LookupsAre DEF Range
    <3>. QED  BY <2>2, <3>2, <3>4 DEF Waits
  <2>5. MemoWorks'
    BY <1>1, <1>2, <1>3, <1>6, <2>1, <2>2, <2>3, <2>4 DEF MemoWorks
  <2>6. Outcome' = Outcome
    BY <1>1, <2>1 DEF Outcome, Lazy!Outcome
  <2>. QED  BY <1>1, <1>2, <2>5, <2>6, PromiseKept
<1>10. CASE Lazy!Finish
  <2>1. /\ stage = "run" /\ stage' = "done" /\ answers = {} /\ lookups = {} /\ worklist = <<>>
        /\ UNCHANGED <<worklist, lookups, cached, answers>>
    BY <1>10 DEF Lazy!Finish
  <2>2. \A k : Waits(k)' <=> Waits(k)
    BY <2>1 DEF Waits
  <2>3. MemoWorks'
    BY <1>1, <1>2, <1>3, <1>6, <2>1, <2>2 DEF MemoWorks
  <2>4. HasAll(right)
    <3>. SUFFICES ASSUME NEW l \in left.rules, NEW r \in right.rules, Joins(l, r),
                         Range(ProductRule(l, r).children) \subseteq Pairs
                  PROVE  ProductRule(l, r) \in Decoded
      BY DEF HasAll
    <3>. DEFINE pair(i) == <<l.children[i], r.children[i]>>
                c == [i \in DOMAIN l.children |-> IdOf(pair(i))]
                k == [symbol |-> l.symbol, children |-> c]
                parent == <<l.result, r.result>>
    <3>1. \A i \in DOMAIN l.children : IdOf(pair(i)) \in Ids /\ product_pairs[IdOf(pair(i))] = pair(i)
      <4>. TAKE i \in DOMAIN l.children
      <4>1. pair(i) \in Pairs
        BY DEF ProductRule, Range
      <4>2. Known(pair(i))
        BY <4>1, IdsAreInterval
      <4>. QED  BY <4>2, IdOfKnown
    <3>2. /\ c \in [DOMAIN l.children -> Ids]
          /\ ProductRule(l, r).children = [i \in DOMAIN c |-> product_pairs[c[i]]]
      BY <3>1 DEF ProductRule
    <3>. HIDE DEF c
    <3>3. k \in Keys
      BY <3>2, KeysAreOfRules DEF KeysOfRules
    <3>4. IsAnswer(k, parent) /\ parent \in LeftStates \X decomp.states
      BY <3>2, LeftRulesAre DEF IsAnswer, MemoWorks
    <3>5. ~Waits(k)
      BY <2>1 DEF Waits, Range
    <3>6. k \in cached
      BY <2>1, <3>3, <3>4, <3>5 DEF MemoWorks
    <3>7. Recorded(k, parent)
      BY <2>1, <3>4, <3>6 DEF MemoWorks
    <3>8. PICK x \in rules : x.symbol = l.symbol /\ x.children = c /\ product_pairs[x.parent] = parent
      BY <3>7 DEF Recorded
    <3>9. Decode(x) = ProductRule(l, r)
      BY <3>2, <3>8 DEF Decode, ProductRule
    <3>. QED  BY <3>9 DEF Decoded
  <2>5. Outcome = "running" /\ Outcome' = "chart" /\ Contribution = right
    BY <1>1, <2>1 DEF Outcome, Lazy!Outcome, Contribution
  <2>. QED  BY <1>1, <1>2, <2>3, <2>4, <2>5, PromiseEnds
<1>. QED  BY <1>7, <1>8, <1>9, <1>10

(* What a lookup has found is added. *)
LEMMA MemoReports ==
  ASSUME ChartInv, MemoWorks, strategy = "lazy", strategy' = strategy, NEW a \in answers, Lazy!Report(a)
  PROVE  ChartInv' /\ MemoWorks' /\ [Promise!Next]_Promise!vars
<1>. DEFINE k == a.key
            pair == a.pair
<1>1. /\ UNCHANGED <<left, right, decomp, hom, strategy, stage, lookups, cached>>
      /\ stage = "run" /\ answers' = answers \ {a}
      /\ AddProductRule(k.symbol, k.children, pair)
      /\ worklist' = IF Known(pair) THEN worklist ELSE Append(worklist, ProductId(pair))
  BY MemoChart DEF Lazy!Report, Lazy!input
<1>2. k \in cached /\ k \in Keys /\ IsAnswer(k, pair) /\ a = [key |-> k, pair |-> pair]
  BY DEF MemoWorks
<1>3. /\ k = [symbol |-> k.symbol, children |-> k.children] /\ k.children \in Seq(Ids) /\ k.symbol \in Symbols
  BY <1>2, KeyShape
<1>. HIDE DEF k, pair
<1>. DEFINE s == k.symbol
            c == k.children
<1>20. /\ s \in Symbols /\ c \in Seq(Ids) /\ AddProductRule(s, c, pair)
       /\ left' = left /\ right' = right /\ strategy' = strategy
       /\ (strategy # "lazy" => pair \in LeftStates \X RightStates)
  BY <1>1, <1>3
<1>. HIDE DEF s, c
<1>21. /\ ChartInv'
       /\ Ids \subseteq Ids'
       /\ \A i \in Ids : product_pairs'[i] = product_pairs[i]
       /\ Pairs' = Pairs \cup {pair}
       /\ \E parent \in Ids' :
             /\ product_pairs'[parent] = pair
             /\ parent \in Ids <=> Known(pair)
             /\ parent = ProductId(pair)
             /\ rules' = rules \cup {[symbol |-> s, children |-> c, parent |-> parent]}
             /\ duplicate' = (duplicate \/ [symbol |-> s, children |-> c, parent |-> parent] \in rules)
  BY <1>20, ChartGrows
<1>4. /\ ChartInv' /\ Ids \subseteq Ids' /\ Pairs' = Pairs \cup {pair}
      /\ \A i \in Ids : product_pairs'[i] = product_pairs[i]
      /\ \E n \in Ids' : /\ product_pairs'[n] = pair /\ n = ProductId(pair) /\ (n \in Ids <=> Known(pair))
                         /\ rules' = rules \cup {[symbol |-> k.symbol, children |-> k.children, parent |-> n]}
  BY <1>21 DEF s, c
<1>5. PICK n \in Ids' : /\ product_pairs'[n] = pair /\ n = ProductId(pair) /\ (n \in Ids <=> Known(pair))
                        /\ rules' = rules \cup {[symbol |-> k.symbol, children |-> k.children, parent |-> n]}
  BY <1>4
<1>6. PICK l \in left.rules, r \in right.rules :
         /\ Joins(l, r) /\ l.symbol = k.symbol /\ pair = <<l.result, r.result>>
         /\ ProductRule(l, r).children = [i \in DOMAIN k.children |-> product_pairs[k.children[i]]]
  BY <1>2 DEF IsAnswer
<1>7. [Promise!Next]_Promise!vars
  <2>1. Outcome = "running" /\ Outcome' = "running" /\ r \in Contribution.rules
    BY <1>1 DEF Outcome, Lazy!Outcome, Contribution
  <2>2. AddProductRule(l.symbol, k.children, <<l.result, r.result>>)
    BY <1>1, <1>6
  <2>. QED  BY <1>1, <1>3, <1>6, <2>1, <2>2, PromiseAdds
<1>8. Keys \subseteq Keys'
  BY <1>1, <1>4, KeysStay
<1>9. \A y \in Keys : \A p : IsAnswer(y, p)' <=> IsAnswer(y, p)
  BY <1>1, <1>4, AnswerStays
<1>10. /\ worklist' \in Seq(Ids') /\ Range(worklist) \subseteq Range(worklist')
       /\ ~Known(pair) => n \in Range(worklist')
       /\ Ids' = Ids \cup {n}
  <2>0. worklist \in Seq(Ids) /\ worklist \in Seq(Ids')
    BY <1>4, SeqWiden DEF MemoWorks
  <2>1. CASE Known(pair)
    <3>1. worklist' = worklist /\ product_pairs' = product_pairs
      BY <1>1, <2>1 DEF AddProductRule
    <3>. QED  BY <1>5, <2>0, <2>1, <3>1 DEF Ids
  <2>2. CASE ~Known(pair)
    <3>1. worklist' = Append(worklist, n) /\ product_pairs' = Append(product_pairs, pair)
      BY <1>1, <1>5, <2>2 DEF AddProductRule
    <3>2. /\ worklist' \in Seq(Ids') /\ Len(worklist') = Len(worklist) + 1
          /\ \A i \in 1..Len(worklist) : worklist'[i] = worklist[i]
          /\ worklist'[Len(worklist) + 1] = n
      BY <2>0, <3>1
    <3>3. /\ DOMAIN worklist = 1..Len(worklist) /\ DOMAIN worklist' = 1..Len(worklist) + 1
          /\ Len(worklist) \in Nat
      BY <2>0, <3>2
    <3>4. DOMAIN worklist \subseteq DOMAIN worklist' /\ Len(worklist) + 1 \in DOMAIN worklist'
      BY <3>3
    <3>5. \A i \in DOMAIN worklist : worklist'[i] = worklist[i]
      BY <3>2, <3>3
    <3>6. Range(worklist) \subseteq Range(worklist') /\ n \in Range(worklist')
      BY <3>2, <3>4, <3>5 DEF Range
    <3>7. Ids' = Ids \cup {n}
      <4>1. /\ product_pairs \in Seq(Pairs) /\ Ids = 1..Len(product_pairs) /\ Len(product_pairs) \in Nat
        BY IdsAreInterval DEF ChartInv
      <4>2. product_pairs \in Seq(Pairs \cup {pair})
        BY <4>1, SeqWiden
      <4>3. Ids' = 1..Len(product_pairs) + 1
        BY <3>1, <4>2 DEF Ids
      <4>4. n = Len(product_pairs) + 1
        BY <1>5, <2>2 DEF ProductId
      <4>. QED  BY <4>1, <4>3, <4>4
    <3>. QED  BY <2>2, <3>2, <3>6, <3>7
  <2>. QED  BY <2>1, <2>2
<1>11. pair \in LeftStates \X decomp.states
  BY <1>6, LeftRulesAre DEF MemoWorks
<1>12. \A y, p : Recorded(y, p) => Recorded(y, p)'
  <2>. SUFFICES ASSUME NEW y, NEW p, Recorded(y, p) PROVE Recorded(y, p)'
    OBVIOUS
  <2>1. PICK x \in rules : x.symbol = y.symbol /\ x.children = y.children /\ product_pairs[x.parent] = p
    BY DEF Recorded
  <2>2. x \in rules' /\ product_pairs'[x.parent] = p
    BY <1>4, <1>5, <2>1 DEF ChartInv
  <2>. QED  BY <2>1, <2>2 DEF Recorded
<1>13. Recorded(k, pair)'
  <2>. DEFINE x == [symbol |-> k.symbol, children |-> k.children, parent |-> n]
  <2>1. x \in rules' /\ x.symbol = k.symbol /\ x.children = k.children /\ product_pairs'[x.parent] = pair
    BY <1>5
  <2>. HIDE DEF x
  <2>. QED  BY <2>1 DEF Recorded
<1>14. \A b \in answers' : b.key \in cached' /\ b = [key |-> b.key, pair |-> b.pair] /\ IsAnswer(b.key, b.pair)'
  BY <1>1, <1>9 DEF MemoWorks
<1>15. ASSUME NEW y \in cached', NEW p \in LeftStates \X decomp'.states, IsAnswer(y, p)'
       PROVE  Recorded(y, p)' \/ [key |-> y, pair |-> p] \in answers'
  <2>1. y \in cached /\ y \in Keys /\ p \in LeftStates \X decomp.states
    BY <1>1 DEF MemoWorks
  <2>2. Recorded(y, p) \/ [key |-> y, pair |-> p] \in answers
    BY <1>9, <1>15, <2>1 DEF MemoWorks
  <2>3. CASE Recorded(y, p)
    BY <1>12, <2>3
  <2>4. CASE [key |-> y, pair |-> p] = a
    BY <1>2, <1>13, <2>4
  <2>5. CASE [key |-> y, pair |-> p] \in answers \ {a}
    BY <1>1, <2>5
  <2>. QED  BY <2>2, <2>3, <2>4, <2>5
<1>16. ASSUME NEW y \in Keys' \ (cached' \cup lookups'), NEW p \in LeftStates \X decomp'.states, IsAnswer(y, p)'
       PROVE  Waits(y)'
  <2>1. CASE y \in Keys
    <3>1. Waits(y)
      BY <1>1, <1>9, <1>16, <2>1 DEF MemoWorks
    <3>. QED  BY <1>1, <1>10, <3>1 DEF Waits
  <2>2. CASE y \notin Keys
    <3>1. PICK x \in left.rules : y = [symbol |-> x.symbol, children |-> y.children] /\ y.children \in [DOMAIN x.children -> Ids']
      BY <1>1, <1>4, KeysAreOfRulesNext DEF KeysOfRules
    <3>2. y.children \notin [DOMAIN x.children -> Ids]
      BY <2>2, <3>1, KeysAreOfRules DEF KeysOfRules
    <3>3. PICK i \in DOMAIN y.children : y.children[i] \notin Ids
      BY <3>1, <3>2
    <3>4. y.children[i] = n /\ ~Known(pair)
      BY <1>5, <1>10, <3>1, <3>3
    <3>. QED  BY <1>10, <3>4 DEF Waits
  <2>. QED  BY <2>1, <2>2
<1>17. /\ stage' \in {"start", "run", "done"} /\ (stage' = "start" => Ids' = {})
       /\ lookups' \cup cached' \subseteq Keys' /\ Pairs' \subseteq LeftStates \X decomp'.states
  BY <1>1, <1>4, <1>8, <1>11 DEF MemoWorks
<1>18. /\ \A x \in right'.rules : x.result \in decomp'.states
       /\ \A x \in left'.rules : AnswersFor(right', decomp', hom', x)
  BY <1>1 DEF MemoWorks
<1>19. MemoWorks'
  BY <1>10, <1>14, <1>15, <1>16, <1>17, <1>18 DEF MemoWorks, AnswersFor
<1>. QED  BY <1>4, <1>7, <1>19

LazySafe == strategy = "lazy" => ChartInv /\ MemoWorks

LEMMA LazyInit ==
  ASSUME LazyImagesEvaluate, Init
  PROVE  LazySafe
<1>. SUFFICES ASSUME strategy = "lazy" PROVE ChartInv /\ MemoWorks
  BY DEF LazySafe
<1>1. PICK job \in Jobs : /\ strategy = job.strategy /\ left = job.left /\ decomp = job.input.decomp /\ hom = job.input.hom
                          /\ right = (IF job.strategy = "top-down" THEN ImagesByParent ELSE Images)[job.input]
  BY DEF Init
<1>2. /\ stage = "start" /\ worklist = <<>> /\ lookups = {} /\ cached = {} /\ answers = {} /\ product_pairs = <<>>
  BY DEF Init, Lazy!Init, TopDown!Init, TopDown!InitChart
<1>3. Ids = {} /\ Pairs = {}
  BY <1>2 DEF Ids, Pairs
<1>4. /\ \A r \in right.rules : r.result \in decomp.states
      /\ \A l \in left.rules : AnswersFor(right, decomp, hom, l)
  BY <1>1 DEF LazyImagesEvaluate
<1>5. MemoWorks
  BY <1>2, <1>3, <1>4 DEF MemoWorks, Waits
<1>. QED  BY <1>5, WalkInit

LEMMA LazyStep ==
  ASSUME LazySafe, [Next]_vars
  PROVE  LazySafe' /\ (strategy = "lazy" => [Promise!Next]_Promise!vars)
<1>1. strategy' = strategy
  BY DEF Next, vars, ParseTopDown, ParseWithSiblings, FilterChart, MaterializeLazily, Cancel
<1>. SUFFICES ASSUME strategy = "lazy" PROVE ChartInv' /\ MemoWorks' /\ [Promise!Next]_Promise!vars
  BY <1>1 DEF LazySafe
<1>2. ChartInv /\ MemoWorks
  BY DEF LazySafe
<1>3. CASE Lazy!Work
  BY <1>1, <1>2, <1>3, MemoMoves, MemoReports DEF Lazy!Work
<1>4. CASE UNCHANGED vars
  <2>1. UNCHANGED <<left, right, decomp, hom, strategy, product_pairs, accepting, rules, duplicate, memo_vars>>
    BY <1>4 DEF vars
  <2>2. ChartInv' /\ Ids' = Ids /\ Pairs' = Pairs
    BY <1>2, <2>1, ChartKept
  <2>3. /\ Keys' = Keys
        /\ \A k, pair : IsAnswer(k, pair)' <=> IsAnswer(k, pair)
        /\ \A k, pair : Recorded(k, pair)' <=> Recorded(k, pair)
        /\ \A k : Waits(k)' <=> Waits(k)
    BY <2>1, <2>2 DEF Keys, Lazy!Alphabet, IsAnswer, Recorded, Waits, memo_vars
  <2>4. MemoWorks'
    BY <1>2, <2>1, <2>2, <2>3 DEF MemoWorks, AnswersFor, memo_vars
  <2>5. Outcome' = Outcome
    BY <2>1 DEF Outcome, Lazy!Outcome, memo_vars
  <2>. QED  BY <2>1, <2>2, <2>4, <2>5, PromiseKept
<1>. QED  BY <1>3, <1>4 DEF Next, ParseTopDown, ParseWithSiblings, FilterChart, MaterializeLazily, Cancel

-----------------------------------------------------------------------------
(* The top-down walk keeps the promise.  First, what is reached top-down.   *)

RulesBelow(a, S) == {r \in a.rules : r.result \in S}

Below(a, S) == UNION {Range(r.children) : r \in RulesBelow(a, S)}

AllChildren(a) == UNION {Range(r.children) : r \in a.rules}

LEMMA ChildrenAreFinite ==
  ASSUME NEW a \in Rights
  PROVE  IsFiniteSet(AllChildren(a))
<1>. DEFINE sets == {Range(r.children) : r \in a.rules}
            f == [r \in a.rules |-> Range(r.children)]
<1>1. IsFiniteSet(a.rules) /\ \A r \in a.rules : r.children \in Seq(RightStates)
  BY RightsAreFinite, InputsAreAutomata DEF IsCondensed, CondensedRules
<1>2. f \in Surjection(a.rules, sets)
  BY DEF Surjection
<1>3. IsFiniteSet(sets)
  <2>. HIDE DEF f, sets
  <2>. QED  BY <1>1, <1>2, FS_Surjection
<1>4. \A T \in sets : IsFiniteSet(T)
  <2>. SUFFICES ASSUME NEW r \in a.rules PROVE IsFiniteSet(Range(r.children))
    OBVIOUS
  <2>. DEFINE c == r.children
              n == Len(c)
  <2>1. c \in Seq(RightStates) /\ n \in Nat /\ DOMAIN c = 1..n /\ c \in [1..n -> RightStates]
    BY <1>1
  <2>. HIDE DEF c, n
  <2>2. c \in Surjection(1..n, Range(c))
    BY <2>1 DEF Surjection, Range
  <2>3. IsFiniteSet(1..n)
    BY <2>1, FS_Interval
  <2>. QED  BY <2>2, <2>3, FS_Surjection DEF c
<1>. QED  BY <1>3, <1>4, FS_UNION DEF AllChildren

LEMMA BelowIs ==
  /\ \A a, S, q : q \in Below(a, S) <=> \E r \in a.rules : r.result \in S /\ q \in Range(r.children)
  /\ \A a, S : Below(a, S) \subseteq AllChildren(a)
BY DEF Below, RulesBelow, AllChildren

(* The recursion of TopDownStates has a value. *)
LEMMA ReachIs ==
  ASSUME NEW a \in Rights
  PROVE  \E f : LET n == Cardinality(AllChildren(a))
                IN  /\ n \in Nat
                    /\ TopDownStates(a) = f[n]
                    /\ f[0] = a.accepting
                    /\ \A k \in 1..n : f[k] = f[k - 1] \cup Below(a, f[k - 1])
<1>. DEFINE len == Cardinality(AllChildren(a))
            Defines(f, m) == f = [k \in 0..m |-> IF k = 0 THEN a.accepting ELSE f[k - 1] \cup Below(a, f[k - 1])]
            U == {m \in Nat : \E f : Defines(f, m)}
<1>0. len \in Nat
  BY ChildrenAreFinite, FS_CardinalityType
<1>1. 0 \in U
  <2>. DEFINE g == [k \in 0..0 |-> a.accepting]
  <2>1. Defines(g, 0)
    OBVIOUS
  <2>. QED  BY <2>1
<1>2. ASSUME NEW m \in Nat, m \in U PROVE m + 1 \in U
  <2>1. PICK f : Defines(f, m)
    BY <1>2
  <2>. DEFINE g == [k \in 0..(m + 1) |-> IF k = m + 1 THEN f[m] \cup Below(a, f[m]) ELSE f[k]]
  <2>2. ASSUME NEW k \in 0..(m + 1)
        PROVE  g[k] = IF k = 0 THEN a.accepting ELSE g[k - 1] \cup Below(a, g[k - 1])
    <3>1. CASE k = m + 1
      <4>1. k # 0 /\ k - 1 = m /\ m \in 0..(m + 1) /\ m # m + 1
        BY <3>1
      <4>. QED  BY <3>1, <4>1
    <3>2. CASE k # m + 1
      <4>1. k \in 0..m /\ (k # 0 => k - 1 \in 0..(m + 1) /\ k - 1 # m + 1 /\ k - 1 \in 0..m)
        BY <3>2
      <4>2. f[k] = IF k = 0 THEN a.accepting ELSE f[k - 1] \cup Below(a, f[k - 1])
        BY <2>1, <4>1
      <4>. QED  BY <3>2, <4>1, <4>2
    <3>. QED  BY <3>1, <3>2
  <2>3. Defines(g, m + 1)
    BY <2>2
  <2>. HIDE DEF g, Defines
  <2>. QED  BY <2>3
<1>3. Nat \subseteq U
  <2>. HIDE DEF U
  <2>. QED  BY <1>1, <1>2, SetInduction
<1>4. \E f : Defines(f, len)
  <2>. HIDE DEF Defines, len
  <2>. QED  BY <1>0, <1>3
<1>. DEFINE f == CHOOSE f : Defines(f, len)
<1>5. TopDownStates(a) = f[len]
  BY DEF TopDownStates, Below, RulesBelow, AllChildren
<1>6. Defines(f, len)
  <2>. HIDE DEF Defines
  <2>. QED  BY <1>4
<1>. HIDE DEF f
<1>7. \A k \in 0..len : f[k] = IF k = 0 THEN a.accepting ELSE f[k - 1] \cup Below(a, f[k - 1])
  BY <1>6
<1>8. 0 \in 0..len
  BY <1>0
<1>. HIDE DEF len, Defines
<1>9. f[0] = a.accepting
  BY <1>7, <1>8
<1>10. ASSUME NEW k \in 1..len PROVE f[k] = f[k - 1] \cup Below(a, f[k - 1])
  <2>1. k \in 0..len /\ k # 0
    BY <1>0
  <2>. QED  BY <1>7, <2>1
<1>. QED  BY <1>0, <1>5, <1>9, <1>10 DEF len

(* The least set of states with the accepting ones and the children of      *)
(* their rules.                                                             *)
LEMMA TopDownStatesAre ==
  ASSUME NEW a \in Rights
  PROVE  /\ a.accepting \subseteq TopDownStates(a)
         /\ \A r \in a.rules : r.result \in TopDownStates(a) => Range(r.children) \subseteq TopDownStates(a)
         /\ \A V : /\ a.accepting \subseteq V
                   /\ \A r \in a.rules : r.result \in V => Range(r.children) \subseteq V
                   => TopDownStates(a) \subseteq V
<1>. DEFINE C == AllChildren(a)
            n == Cardinality(C)
<1>0. IsFiniteSet(C) /\ n \in Nat
  BY ChildrenAreFinite, FS_CardinalityType
<1>1. PICK f : /\ TopDownStates(a) = f[n]
               /\ f[0] = a.accepting
               /\ \A k \in 1..n : f[k] = f[k - 1] \cup Below(a, f[k - 1])
  BY ReachIs
<1>. HIDE DEF n, C
<1>2. ASSUME NEW k \in Nat, k + 1 \in 0..n
      PROVE  k \in 0..n /\ f[k + 1] = f[k] \cup Below(a, f[k])
  <2>1. k + 1 \in 1..n /\ (k + 1) - 1 = k /\ k \in 0..n
    BY <1>0, <1>2
  <2>. QED  BY <1>1, <2>1
<1>3. a.accepting \subseteq f[n]
  <2>. DEFINE V == {k \in Nat : k \in 0..n => a.accepting \subseteq f[k]}
  <2>1. 0 \in V
    BY <1>1
  <2>2. ASSUME NEW k \in Nat, k \in V PROVE k + 1 \in V
    BY <1>2, <2>2
  <2>3. Nat \subseteq V
    <3>. HIDE DEF V
    <3>. QED  BY <2>1, <2>2, SetInduction
  <2>. QED  BY <1>0, <2>3
<1>4. ASSUME NEW W, a.accepting \subseteq W, \A r \in a.rules : r.result \in W => Range(r.children) \subseteq W
      PROVE  f[n] \subseteq W
  <2>. DEFINE V == {k \in Nat : k \in 0..n => f[k] \subseteq W}
  <2>1. 0 \in V
    BY <1>1, <1>4
  <2>2. ASSUME NEW k \in Nat, k \in V PROVE k + 1 \in V
    <3>. SUFFICES ASSUME k + 1 \in 0..n PROVE f[k + 1] \subseteq W
      OBVIOUS
    <3>1. f[k] \subseteq W /\ f[k + 1] = f[k] \cup Below(a, f[k])
      BY <1>2, <2>2
    <3>2. Below(a, f[k]) \subseteq W
      BY <1>4, <3>1, BelowIs
    <3>. QED  BY <3>1, <3>2
  <2>3. Nat \subseteq V
    <3>. HIDE DEF V
    <3>. QED  BY <2>1, <2>2, SetInduction
  <2>. QED  BY <1>0, <2>3
<1>5. Below(a, f[n]) \subseteq f[n]
  <2>. DEFINE D(k) == f[k] \cap C
              Small(k) == Below(a, f[k]) \subseteq f[k] \/ Cardinality(D(k)) >= k
              V == {k \in Nat : k \in 0..n => Small(k)}
  <2>0. \A k : IsFiniteSet(D(k)) /\ Cardinality(D(k)) \in Nat /\ D(k) \subseteq C
    BY <1>0, FS_Subset, FS_CardinalityType
  <2>1. 0 \in V
    <3>1. Cardinality(D(0)) \in Nat
      BY <2>0
    <3>. HIDE DEF D
    <3>. QED  BY <3>1
  <2>2. ASSUME NEW k \in Nat, k \in V PROVE k + 1 \in V
    <3>. SUFFICES ASSUME k + 1 \in 0..n PROVE Small(k + 1)
      OBVIOUS
    <3>1. Small(k) /\ f[k + 1] = f[k] \cup Below(a, f[k])
      BY <1>2, <2>2
    <3>2. CASE Below(a, f[k]) \subseteq f[k]
      <4>1. f[k + 1] = f[k]
        BY <3>1, <3>2
      <4>. QED  BY <3>2, <4>1
    <3>3. CASE ~(Below(a, f[k]) \subseteq f[k])
      <4>1. PICK q \in Below(a, f[k]) : q \notin f[k]
        BY <3>3
      <4>2. q \in C /\ q \notin D(k)
        BY <4>1, BelowIs DEF C
      <4>3. D(k) \cup {q} \subseteq D(k + 1)
        BY <3>1, <4>1, <4>2
      <4>4. Cardinality(D(k)) >= k
        BY <3>1, <3>3
      <4>. HIDE DEF D
      <4>5. Cardinality(D(k) \cup {q}) = Cardinality(D(k)) + 1
        BY <2>0, <4>2, FS_AddElement
      <4>6. Cardinality(D(k) \cup {q}) <= Cardinality(D(k + 1))
        BY <2>0, <4>3, FS_Subset
      <4>. QED  BY <2>0, <4>4, <4>5, <4>6
    <3>. QED  BY <3>2, <3>3
  <2>3. Nat \subseteq V
    <3>. HIDE DEF V
    <3>. QED  BY <2>1, <2>2, SetInduction
  <2>4. Small(n)
    <3>. HIDE DEF Small
    <3>. QED  BY <1>0, <2>3
  <2>5. CASE Cardinality(D(n)) >= n
    <3>. HIDE DEF D
    <3>1. Cardinality(D(n)) <= Cardinality(C)
      BY <1>0, <2>0, FS_Subset
    <3>2. Cardinality(C) = Cardinality(D(n))
      BY <1>0, <2>0, <2>5, <3>1 DEF n
    <3>3. C = D(n)
      BY <1>0, <2>0, <3>2, FS_Subset
    <3>. QED  BY <3>3, BelowIs DEF D, C
  <2>. QED  BY <2>4, <2>5
<1>. QED  BY <1>1, <1>3, <1>4, <1>5, BelowIs

-----------------------------------------------------------------------------
(* The calls of the walk leave nothing out. *)

LEMMA FlattenRange ==
  ASSUME NEW T, NEW seqs \in Seq(Seq(T))
  PROVE  /\ FlattenSeq(seqs) \in Seq(T)
         /\ Range(FlattenSeq(seqs)) = UNION {Range(seqs[i]) : i \in DOMAIN seqs}
<1>. DEFINE len == Len(seqs)
            Holds(s, n) == s \in Seq(T) /\ Range(s) = UNION {Range(seqs[i]) : i \in 1..n}
<1>0. len \in Nat /\ DOMAIN seqs = 1..len /\ \A i \in 1..len : seqs[i] \in Seq(T)
  OBVIOUS
<1>1. CASE len = 0
  <2>1. FlattenSeq(seqs) = <<>> /\ seqs = <<>>
    BY <1>1 DEF FlattenSeq
  <2>2. FlattenSeq(seqs) \in Seq(T) /\ Range(FlattenSeq(seqs)) = {}
    BY <2>1 DEF Range
  <2>. QED  BY <1>0, <1>1, <2>2
<1>2. CASE len # 0
  <2>1. PICK f : /\ FlattenSeq(seqs) = f[len]
                 /\ f[1] = seqs[1]
                 /\ \A n \in 1..len : n # 1 => f[n] = f[n - 1] \o seqs[n]
    BY <1>2, FlattenIs
  <2>. HIDE DEF len
  <2>. DEFINE V == {n \in Nat : n \in 1..len => Holds(f[n], n)}
  <2>2. 0 \in V
    OBVIOUS
  <2>3. ASSUME NEW n \in Nat, n \in V PROVE n + 1 \in V
    <3>. SUFFICES ASSUME n + 1 \in 1..len PROVE Holds(f[n + 1], n + 1)
      OBVIOUS
    <3>1. CASE n = 0
      <4>1. UNION {Range(seqs[i]) : i \in 1..1} = Range(seqs[1])
        OBVIOUS
      <4>2. 1 \in 1..len
        BY <1>0, <3>1
      <4>3. f[n + 1] = seqs[1] /\ n + 1 = 1
        BY <2>1, <3>1
      <4>4. seqs[1] \in Seq(T)
        BY <1>0, <4>2
      <4>. QED  BY <4>1, <4>3, <4>4
    <3>2. CASE n # 0
      <4>1. n \in 1..len /\ n + 1 # 1 /\ (n + 1) - 1 = n
        BY <1>0, <3>2
      <4>2. f[n + 1] = f[n] \o seqs[n + 1]
        BY <2>1, <4>1
      <4>3. Holds(f[n], n) /\ seqs[n + 1] \in Seq(T)
        BY <1>0, <2>3, <4>1
      <4>5. f[n + 1] \in Seq(T) /\ Range(f[n + 1]) = Range(f[n]) \cup Range(seqs[n + 1])
        BY <4>2, <4>3, ConcatRange
      <4>6. \A i \in 1..(n + 1) : i \in 1..n \/ i = n + 1
        OBVIOUS
      <4>7. \A i \in 1..n : i \in 1..(n + 1)
        OBVIOUS
      <4>8. n + 1 \in 1..(n + 1)
        OBVIOUS
      <4>9. UNION {Range(seqs[i]) : i \in 1..(n + 1)} = (UNION {Range(seqs[i]) : i \in 1..n}) \cup Range(seqs[n + 1])
        BY <4>6, <4>7, <4>8, Zenon
      <4>. QED  BY <4>3, <4>5, <4>9
    <3>. QED  BY <3>1, <3>2
  <2>4. Nat \subseteq V
    <3>. HIDE DEF V
    <3>. QED  BY <2>2, <2>3, SetInduction
  <2>5. Holds(f[len], len)
    <3>1. len \in Nat /\ len \in 1..len
      BY <1>0, <1>2
    <3>. HIDE DEF Holds
    <3>. QED  BY <2>4, <3>1
  <2>. QED  BY <1>0, <2>1, <2>5
<1>. QED  BY <1>1, <1>2

(* A loop rule has its other children visited, and every loop position      *)
(* saturated.                                                               *)
LEMMA LoopParts ==
  ASSUME RightRulesOK, NEW r \in right.rules
  PROVE  /\ \A c \in Range(r.children) : c # r.result => TopDown!Visit(c) \in Range(TopDown!VisitOthers(r))
         /\ \A p \in DOMAIN r.children : r.children[p] = r.result =>
               TopDown!Saturate(r, p) \in Range(TopDown!Saturations(r))
<1>. DEFINE n == Len(r.children)
            T == TopDown!Steps
            other(i) == IF r.children[i] = r.result THEN <<>> ELSE <<TopDown!Visit(r.children[i])>>
            others == [i \in DOMAIN r.children |-> other(i)]
            loop(i) == IF r.children[i] = r.result THEN <<TopDown!Saturate(r, i)>> ELSE <<>>
            loops == [i \in DOMAIN r.children |-> loop(i)]
<1>1. /\ n \in Nat /\ DOMAIN r.children = 1..n
      /\ \A i \in 1..n : r.children[i] \in RightStates
      /\ Range(r.children) = {r.children[i] : i \in 1..n}
  <2>1. r.children \in Seq(RightStates)
    BY DEF RightRulesOK
  <2>. QED  BY <2>1 DEF Range
<1>2. /\ TopDown!VisitOthers(r) = FlattenSeq(others)
      /\ TopDown!Saturations(r) = FlattenSeq(loops)
  BY WalkSequences DEF TopDown!VisitOthers, TopDown!Saturations
<1>3. \A i \in 1..n : other(i) \in Seq(T) /\ loop(i) \in Seq(T)
  BY <1>1, StepsAre, OneStep, NoStep
<1>4. /\ others \in Seq(Seq(T)) /\ DOMAIN others = 1..n /\ \A i \in 1..n : others[i] = other(i)
      /\ loops \in Seq(Seq(T)) /\ DOMAIN loops = 1..n /\ \A i \in 1..n : loops[i] = loop(i)
  <2>. HIDE DEF other, loop, T
  <2>. QED  BY <1>1, <1>3
<1>5. \A i \in 1..n : /\ r.children[i] # r.result => TopDown!Visit(r.children[i]) \in Range(other(i))
                      /\ r.children[i] = r.result => TopDown!Saturate(r, i) \in Range(loop(i))
  <2>. SUFFICES ASSUME NEW i \in 1..n
                PROVE  /\ r.children[i] # r.result => TopDown!Visit(r.children[i]) \in Range(other(i))
                       /\ r.children[i] = r.result => TopDown!Saturate(r, i) \in Range(loop(i))
    OBVIOUS
  <2>1. CASE r.children[i] = r.result
    <3>1. loop(i) = <<TopDown!Saturate(r, i)>> /\ TopDown!Saturate(r, i) \in T
      BY <1>1, <2>1, StepsAre
    <3>. HIDE DEF loop, T
    <3>. QED  BY <2>1, <3>1, OneStep
  <2>2. CASE r.children[i] # r.result
    <3>1. other(i) = <<TopDown!Visit(r.children[i])>> /\ TopDown!Visit(r.children[i]) \in T
      BY <1>1, <2>2, StepsAre
    <3>. HIDE DEF other, T
    <3>. QED  BY <2>2, <3>1, OneStep
  <2>. QED  BY <2>1, <2>2
<1>. HIDE DEF n, T, others, loops, other, loop
<1>6. /\ Range(FlattenSeq(others)) = UNION {Range(others[i]) : i \in DOMAIN others}
      /\ Range(FlattenSeq(loops)) = UNION {Range(loops[i]) : i \in DOMAIN loops}
  BY <1>4, FlattenRange
<1>7. \A i \in 1..n : Range(other(i)) \subseteq Range(FlattenSeq(others)) /\ Range(loop(i)) \subseteq Range(FlattenSeq(loops))
  BY <1>4, <1>6
<1>8. ASSUME NEW c \in Range(r.children), c # r.result PROVE TopDown!Visit(c) \in Range(TopDown!VisitOthers(r))
  <2>1. PICK i \in 1..n : c = r.children[i]
    BY <1>1
  <2>2. TopDown!Visit(r.children[i]) \in Range(other(i))
    BY <1>5, <1>8, <2>1, Zenon
  <2>. QED  BY <1>2, <1>7, <2>1, <2>2
<1>9. ASSUME NEW p \in 1..n, r.children[p] = r.result PROVE TopDown!Saturate(r, p) \in Range(TopDown!Saturations(r))
  <2>1. TopDown!Saturate(r, p) \in Range(loop(p))
    BY <1>5, <1>9
  <2>. QED  BY <1>2, <1>7, <2>1
<1>. QED  BY <1>1, <1>8, <1>9

LEMMA FourParts ==
  ASSUME NEW T, NEW A \in Seq(T), NEW B \in Seq(T), NEW C \in Seq(T), NEW D \in Seq(T)
  PROVE  LET s == ((A \o B) \o C) \o D
             m == Len(A \o B)
         IN  /\ s \in Seq(T) /\ m \in Nat
             /\ \A i \in DOMAIN s : i <= m => s[i] \in Range(A) \cup Range(B)
             /\ \A i \in DOMAIN s : i > m => s[i] \in Range(C) \cup Range(D)
             /\ \A x \in Range(A) \cup Range(B) : \E k \in DOMAIN s : k <= m /\ s[k] = x
             /\ Range(C) \cup Range(D) \subseteq Range(s)
<1>. DEFINE AB == A \o B
            ABC == AB \o C
            s == ABC \o D
            m == Len(AB)
            n == Len(ABC)
<1>1. AB \in Seq(T) /\ Range(AB) = Range(A) \cup Range(B)
  BY ConcatRange
<1>. HIDE DEF AB
<1>2. ABC \in Seq(T) /\ Range(ABC) = Range(AB) \cup Range(C) /\ n = m + Len(C)
      /\ m \in Nat /\ Len(C) \in Nat /\ n \in Nat /\ DOMAIN AB = 1..m /\ DOMAIN C = 1..Len(C)
      /\ \A i \in 1..(m + Len(C)) : ABC[i] = IF i <= m THEN AB[i] ELSE C[i - m]
  BY <1>1, ConcatRange
<1>. HIDE DEF ABC, m
<1>3. s \in Seq(T) /\ Range(s) = Range(ABC) \cup Range(D) /\ Len(s) = n + Len(D)
      /\ Len(D) \in Nat /\ DOMAIN s = 1..(n + Len(D)) /\ DOMAIN D = 1..Len(D) /\ DOMAIN ABC = 1..n
      /\ \A i \in 1..(n + Len(D)) : s[i] = IF i <= n THEN ABC[i] ELSE D[i - n]
  BY <1>2, ConcatRange
<1>. HIDE DEF s, n
<1>4. ASSUME NEW i \in DOMAIN s, i <= m PROVE s[i] \in Range(A) \cup Range(B)
  <2>1. i \in 1..m /\ i \in 1..(m + Len(C)) /\ i \in 1..(n + Len(D)) /\ i <= n
    BY <1>2, <1>3, <1>4
  <2>2. s[i] = AB[i]
    BY <1>2, <1>3, <1>4, <2>1
  <2>. QED  BY <1>1, <1>2, <2>1, <2>2 DEF Range
<1>5. ASSUME NEW i \in DOMAIN s, i > m PROVE s[i] \in Range(C) \cup Range(D)
  <2>1. CASE i <= n
    <3>1. i - m \in 1..Len(C) /\ i \in 1..(m + Len(C)) /\ i \in 1..(n + Len(D)) /\ ~(i <= m)
      BY <1>2, <1>3, <1>5, <2>1
    <3>2. s[i] = C[i - m]
      BY <1>2, <1>3, <2>1, <3>1
    <3>. QED  BY <1>2, <3>1, <3>2 DEF Range
  <2>2. CASE ~(i <= n)
    <3>1. i - n \in 1..Len(D) /\ i \in 1..(n + Len(D))
      BY <1>2, <1>3, <1>5, <2>2
    <3>2. s[i] = D[i - n]
      BY <1>3, <2>2, <3>1
    <3>. QED  BY <1>3, <3>1, <3>2 DEF Range
  <2>. QED  BY <2>1, <2>2
<1>6. ASSUME NEW x \in Range(A) \cup Range(B) PROVE \E k \in DOMAIN s : k <= m /\ s[k] = x
  <2>1. PICK k \in 1..m : AB[k] = x
    BY <1>1, <1>2 DEF Range
  <2>2. k \in 1..(m + Len(C)) /\ k \in 1..(n + Len(D)) /\ k <= n /\ k <= m
    BY <1>2, <1>3
  <2>3. s[k] = x
    BY <1>2, <1>3, <2>1, <2>2
  <2>. QED  BY <1>3, <2>2, <2>3
<1>. QED  BY <1>1, <1>2, <1>3, <1>4, <1>5, <1>6 DEF s, ABC, m, AB

(* What is in a call of visit: the visits and the joins come first. *)
Split(b, q, m) ==
    /\ \A i \in DOMAIN b : i <= m => b[i].do \in {"visit", "join"}
    /\ \A i \in DOMAIN b : i > m => b[i].do \in {"saturate", "return"}
    /\ \A r \in right.rules : r.result = q =>
          IF TopDown!IsLoop(r)
            THEN /\ \A c \in Range(r.children) : c # q => \E k \in DOMAIN b : k <= m /\ b[k] = TopDown!Visit(c)
                 /\ \A p \in DOMAIN r.children : r.children[p] = q => TopDown!Saturate(r, p) \in Range(b)
            ELSE TopDown!Join(r) \in Range(b)

LEMMA BodySplits ==
  ASSUME RightRulesOK, IsFiniteSet(right.rules), NEW q \in RightStates,
         NEW listed \in SetToSeqs({r \in right.rules : r.result = q})
  PROVE  \E m \in Nat : Split(TopDown!BodyOf(q, listed), q, m)
<1>. DEFINE S == {r \in right.rules : r.result = q}
            n == Len(listed)
            T == TopDown!Steps
            normal(r) == IF TopDown!IsLoop(r) THEN <<>> ELSE TopDown!VisitAll(r.children) \o <<TopDown!Join(r)>>
            before(r) == IF TopDown!IsLoop(r) THEN TopDown!VisitOthers(r) ELSE <<>>
            loops(r)  == IF TopDown!IsLoop(r) THEN TopDown!Saturations(r) ELSE <<>>
            normals == [i \in DOMAIN listed |-> normal(listed[i])]
            befores == [i \in DOMAIN listed |-> before(listed[i])]
            satura == [i \in DOMAIN listed |-> loops(listed[i])]
            A == FlattenSeq(normals)
            B == FlattenSeq(befores)
            C == FlattenSeq(satura)
            D == <<TopDown!Return(q)>>
            body == TopDown!BodyOf(q, listed)
<1>1. body = ((A \o B) \o C) \o D
  BY WalkSequences DEF TopDown!BodyOf
<1>2. listed \in Seq(S) /\ Range(listed) = S
  <2>1. IsFiniteSet(S)
    BY FS_Subset
  <2>. QED  BY <2>1, OrderIs
<1>3. n \in Nat /\ DOMAIN listed = 1..n /\ \A i \in 1..n : listed[i] \in S
  BY <1>2
<1>4. \A r \in S : /\ normal(r) \in Seq(T)
                   /\ \A x \in Range(normal(r)) : x.do \in {"visit", "join"}
                   /\ ~TopDown!IsLoop(r) => TopDown!Join(r) \in Range(normal(r))
  <2>. SUFFICES ASSUME NEW r \in S
                PROVE  /\ normal(r) \in Seq(T)
                       /\ \A x \in Range(normal(r)) : x.do \in {"visit", "join"}
                       /\ ~TopDown!IsLoop(r) => TopDown!Join(r) \in Range(normal(r))
    OBVIOUS
  <2>1. CASE TopDown!IsLoop(r)
    <3>1. normal(r) = <<>>
      BY <2>1
    <3>. HIDE DEF normal
    <3>. QED  BY <2>1, <3>1, NoStep
  <2>2. CASE ~TopDown!IsLoop(r)
    <3>1. normal(r) = TopDown!VisitAll(r.children) \o <<TopDown!Join(r)>>
      BY <2>2
    <3>. HIDE DEF normal
    <3>2. /\ normal(r) \in Seq(T) /\ Own(normal(r)) = {TopDown!Join(r)}
          /\ \A x \in Range(normal(r)) :
                \/ x = TopDown!Join(r)
                \/ \E c \in Range(r.children) : c # r.result /\ x = TopDown!Visit(c)
      BY <2>2, <3>1, NormalPart
    <3>3. Own(normal(r)) \subseteq Range(normal(r))
      BY DEF Own
    <3>. QED  BY <3>2, <3>3, StepKinds
  <2>. QED  BY <2>1, <2>2
<1>5. \A r \in S : /\ before(r) \in Seq(T)
                   /\ \A x \in Range(before(r)) : x.do = "visit"
                   /\ TopDown!IsLoop(r) => \A c \in Range(r.children) : c # q => TopDown!Visit(c) \in Range(before(r))
  <2>. SUFFICES ASSUME NEW r \in S
                PROVE  /\ before(r) \in Seq(T)
                       /\ \A x \in Range(before(r)) : x.do = "visit"
                       /\ TopDown!IsLoop(r) => \A c \in Range(r.children) : c # q => TopDown!Visit(c) \in Range(before(r))
    OBVIOUS
  <2>1. CASE ~TopDown!IsLoop(r)
    <3>1. before(r) = <<>>
      BY <2>1
    <3>. HIDE DEF before
    <3>. QED  BY <2>1, <3>1, NoStep
  <2>2. CASE TopDown!IsLoop(r)
    <3>1. before(r) = TopDown!VisitOthers(r)
      BY <2>2
    <3>. HIDE DEF before
    <3>2. before(r) \in Seq(T) /\ \A x \in Range(before(r)) : \E c \in Range(r.children) : c # r.result /\ x = TopDown!Visit(c)
      BY <3>1, OthersPart
    <3>. QED  BY <3>1, <3>2, LoopParts, StepKinds
  <2>. QED  BY <2>1, <2>2
<1>6. \A r \in S : /\ loops(r) \in Seq(T)
                   /\ \A x \in Range(loops(r)) : x.do = "saturate"
                   /\ TopDown!IsLoop(r) => \A p \in DOMAIN r.children : r.children[p] = q =>
                                               TopDown!Saturate(r, p) \in Range(loops(r))
  <2>. SUFFICES ASSUME NEW r \in S
                PROVE  /\ loops(r) \in Seq(T)
                       /\ \A x \in Range(loops(r)) : x.do = "saturate"
                       /\ TopDown!IsLoop(r) => \A p \in DOMAIN r.children : r.children[p] = q =>
                                             TopDown!Saturate(r, p) \in Range(loops(r))
    OBVIOUS
  <2>1. CASE ~TopDown!IsLoop(r)
    <3>1. loops(r) = <<>>
      BY <2>1
    <3>. HIDE DEF loops
    <3>. QED  BY <2>1, <3>1, NoStep
  <2>2. CASE TopDown!IsLoop(r)
    <3>1. loops(r) = TopDown!Saturations(r)
      BY <2>2
    <3>. HIDE DEF loops
    <3>2. loops(r) \in Seq(T) /\ \A x \in Range(loops(r)) : x.do = "saturate" /\ x.rule = r
      BY <3>1, LoopsPart
    <3>. QED  BY <3>1, <3>2, LoopParts
  <2>. QED  BY <2>1, <2>2
<1>. HIDE DEF normal, before, loops, T
<1>7. normals \in Seq(Seq(T)) /\ befores \in Seq(Seq(T)) /\ satura \in Seq(Seq(T))
  <2>2. \A i \in 1..n : /\ normal(listed[i]) \in Seq(T)
                        /\ before(listed[i]) \in Seq(T)
                        /\ loops(listed[i]) \in Seq(T)
    BY <1>3, <1>4, <1>5, <1>6
  <2>. HIDE DEF S, n
  <2>3. normals = [i \in 1..n |-> normal(listed[i])] /\ normals \in Seq(Seq(T))
    BY <1>3, <2>2
  <2>4. befores = [i \in 1..n |-> before(listed[i])] /\ befores \in Seq(Seq(T))
    BY <1>3, <2>2
  <2>5. satura = [i \in 1..n |-> loops(listed[i])] /\ satura \in Seq(Seq(T))
    BY <1>3, <2>2
  <2>. QED  BY <2>3, <2>4, <2>5
<1>8. /\ DOMAIN normals = 1..n /\ DOMAIN befores = 1..n /\ DOMAIN satura = 1..n
      /\ \A i \in 1..n : /\ normals[i] = normal(listed[i]) /\ befores[i] = before(listed[i])
                         /\ satura[i] = loops(listed[i]) /\ listed[i] \in S
  BY <1>3
<1>9. \A r \in S : \E i \in 1..n : r = listed[i]
  BY <1>2, <1>3 DEF Range
<1>10. \A r \in S : r \in right.rules /\ r.result = q
  OBVIOUS
<1>11. \A r \in right.rules : r.result = q => r \in S
  OBVIOUS
<1>. HIDE DEF normals, befores, satura, S, n
<1>12. /\ A \in Seq(T) /\ Range(A) = UNION {Range(normals[i]) : i \in 1..n}
       /\ B \in Seq(T) /\ Range(B) = UNION {Range(befores[i]) : i \in 1..n}
       /\ C \in Seq(T) /\ Range(C) = UNION {Range(satura[i]) : i \in 1..n}
  BY <1>7, <1>8, FlattenRange
<1>. HIDE DEF A, B, C
<1>13. /\ \A x \in Range(A) : \E r \in S : x \in Range(normal(r))
       /\ \A r \in S : Range(normal(r)) \subseteq Range(A)
  <2>1. ASSUME NEW x \in Range(A) PROVE \E r \in S : x \in Range(normal(r))
    <3>1. PICK i \in 1..n : x \in Range(normals[i])
      BY <1>12
    <3>. QED  BY <1>8, <3>1
  <2>2. ASSUME NEW r \in S PROVE Range(normal(r)) \subseteq Range(A)
    <3>1. PICK i \in 1..n : r = listed[i]
      BY <1>9
    <3>2. Range(normals[i]) \subseteq Range(A)
      BY <1>12
    <3>. QED  BY <1>8, <3>1, <3>2
  <2>. QED  BY <2>1, <2>2
<1>14. /\ \A x \in Range(B) : \E r \in S : x \in Range(before(r))
       /\ \A r \in S : Range(before(r)) \subseteq Range(B)
  <2>1. ASSUME NEW x \in Range(B) PROVE \E r \in S : x \in Range(before(r))
    <3>1. PICK i \in 1..n : x \in Range(befores[i])
      BY <1>12
    <3>. QED  BY <1>8, <3>1
  <2>2. ASSUME NEW r \in S PROVE Range(before(r)) \subseteq Range(B)
    <3>1. PICK i \in 1..n : r = listed[i]
      BY <1>9
    <3>2. Range(befores[i]) \subseteq Range(B)
      BY <1>12
    <3>. QED  BY <1>8, <3>1, <3>2
  <2>. QED  BY <2>1, <2>2
<1>15. /\ \A x \in Range(C) : \E r \in S : x \in Range(loops(r))
       /\ \A r \in S : Range(loops(r)) \subseteq Range(C)
  <2>1. ASSUME NEW x \in Range(C) PROVE \E r \in S : x \in Range(loops(r))
    <3>1. PICK i \in 1..n : x \in Range(satura[i])
      BY <1>12
    <3>. QED  BY <1>8, <3>1
  <2>2. ASSUME NEW r \in S PROVE Range(loops(r)) \subseteq Range(C)
    <3>1. PICK i \in 1..n : r = listed[i]
      BY <1>9
    <3>2. Range(satura[i]) \subseteq Range(C)
      BY <1>12
    <3>. QED  BY <1>8, <3>1, <3>2
  <2>. QED  BY <2>1, <2>2
<1>16. /\ \A x \in Range(A) : x.do \in {"visit", "join"}
       /\ \A r \in S : ~TopDown!IsLoop(r) => TopDown!Join(r) \in Range(A)
  BY <1>4, <1>13, Zenon
<1>17. /\ \A x \in Range(B) : x.do = "visit"
       /\ \A r \in S : TopDown!IsLoop(r) => \A c \in Range(r.children) : c # q => TopDown!Visit(c) \in Range(B)
  BY <1>5, <1>14, Zenon
<1>18. /\ \A x \in Range(C) : x.do = "saturate"
       /\ \A r \in S : TopDown!IsLoop(r) => \A p \in DOMAIN r.children : r.children[p] = q =>
                                               TopDown!Saturate(r, p) \in Range(C)
  BY <1>6, <1>15, Zenon
<1>19. D \in Seq(T) /\ \A x \in Range(D) : x.do = "return"
  BY StepsAre, StepKinds, OneStep DEF T
<1>. HIDE DEF D
<1>. DEFINE m == Len(A \o B)
<1>20. /\ m \in Nat
       /\ \A i \in DOMAIN body : i <= m => body[i] \in Range(A) \cup Range(B)
       /\ \A i \in DOMAIN body : i > m => body[i] \in Range(C) \cup Range(D)
       /\ \A x \in Range(A) \cup Range(B) : \E k \in DOMAIN body : k <= m /\ body[k] = x
       /\ Range(C) \cup Range(D) \subseteq Range(body)
  <2>. DEFINE s == ((A \o B) \o C) \o D
  <2>1. /\ s \in Seq(T) /\ m \in Nat
        /\ \A i \in DOMAIN s : i <= m => s[i] \in Range(A) \cup Range(B)
        /\ \A i \in DOMAIN s : i > m => s[i] \in Range(C) \cup Range(D)
        /\ \A x \in Range(A) \cup Range(B) : \E k \in DOMAIN s : k <= m /\ s[k] = x
        /\ Range(C) \cup Range(D) \subseteq Range(s)
    BY <1>12, <1>19, FourParts
  <2>2. body = s
    BY <1>1
  <2>. HIDE DEF s, m, body
  <2>. QED  BY <2>1, <2>2
<1>. HIDE DEF m, body
<1>21. Range(A) \subseteq Range(body)
  BY <1>20 DEF Range
<1>22. Split(body, q, m)
  BY <1>11, <1>16, <1>17, <1>18, <1>19, <1>20, <1>21 DEF Split
<1>. QED  BY <1>20, <1>22 DEF body

(* Loop rules are saturated after the normal rules of their call ... *)
LoopsLast(s) ==
    \A i, j \in DOMAIN s :
        i < j /\ s[i].do = "saturate" /\ s[j].do = "join" => s[i].rule.result # s[j].rule.result

(* ... and after the calls for the other children. *)
Fed(s, V) ==
    \A i \in DOMAIN s : s[i].do = "saturate" =>
        \A c \in Range(s[i].rule.children) :
            c = s[i].rule.result \/ c \in V \/ \E k \in 1..(i - 1) : s[k] = TopDown!Visit(c)

LEMMA FedTail ==
  ASSUME NEW V, NEW W, V \subseteq W, NEW s \in Seq(TopDown!Steps), Fed(s, V), LoopsLast(s), s # <<>>,
         Head(s).do = "visit" => Head(s).state \in W
  PROVE  Fed(Tail(s), W) /\ LoopsLast(Tail(s))
<1>. DEFINE n == Len(s)
            t == Tail(s)
<1>1. /\ n \in Nat /\ n # 0 /\ Head(s) = s[1] /\ DOMAIN s = 1..n
      /\ t \in Seq(TopDown!Steps) /\ Len(t) = n - 1 /\ DOMAIN t = 1..(n - 1)
      /\ \A i \in 1..(n - 1) : t[i] = s[i + 1]
  BY TailFacts
<1>. HIDE DEF n, t
<1>2. Fed(t, W)
  <2>. SUFFICES ASSUME NEW i \in 1..(n - 1), t[i].do = "saturate", NEW c \in Range(t[i].rule.children),
                       c # t[i].rule.result, c \notin W
                PROVE  \E k \in 1..(i - 1) : t[k] = TopDown!Visit(c)
    BY <1>1 DEF Fed
  <2>1. i + 1 \in 1..n /\ t[i] = s[i + 1] /\ (i + 1) - 1 = i
    BY <1>1
  <2>2. PICK k \in 1..i : s[k] = TopDown!Visit(c)
    BY <1>1, <2>1 DEF Fed
  <2>3. k # 1
    BY <1>1, <2>2, StepKinds
  <2>4. k - 1 \in 1..(i - 1) /\ k - 1 \in 1..(n - 1) /\ (k - 1) + 1 = k
    BY <1>1, <2>3
  <2>5. t[k - 1] = s[k]
    BY <1>1, <2>4
  <2>. QED  BY <2>2, <2>4, <2>5
<1>3. LoopsLast(t)
  <2>. SUFFICES ASSUME NEW i \in 1..(n - 1), NEW j \in 1..(n - 1), i < j, t[i].do = "saturate", t[j].do = "join"
                PROVE  t[i].rule.result # t[j].rule.result
    BY <1>1 DEF LoopsLast
  <2>1. i + 1 \in 1..n /\ j + 1 \in 1..n /\ t[i] = s[i + 1] /\ t[j] = s[j + 1] /\ i + 1 < j + 1
    BY <1>1
  <2>2. /\ LoopsLast(s) /\ i + 1 \in DOMAIN s /\ j + 1 \in DOMAIN s /\ i + 1 < j + 1
        /\ s[i + 1].do = "saturate" /\ s[j + 1].do = "join"
    BY <1>1, <2>1
  <2>3. s[i + 1].rule.result # s[j + 1].rule.result
    BY ONLY <2>2 DEF LoopsLast
  <2>. QED  BY <2>1, <2>3
<1>. QED  BY <1>2, <1>3 DEF t

LEMMA FedBody ==
  ASSUME RightRulesOK, IsFiniteSet(right.rules), NEW q \in RightStates,
         NEW listed \in SetToSeqs({r \in right.rules : r.result = q}),
         NEW W, NEW t \in Seq(TopDown!Steps), Fed(t, W), LoopsLast(t), \A x \in Own(t) : TopDown!Owner(x) # q
  PROVE  Fed(TopDown!BodyOf(q, listed) \o t, W) /\ LoopsLast(TopDown!BodyOf(q, listed) \o t)
<1>. DEFINE b == TopDown!BodyOf(q, listed)
            m == Len(b)
            n == Len(t)
            s == b \o t
<1>1. b \in Seq(TopDown!Steps) /\ \A x \in Range(b) : StepIn(q, x)
  BY BodyFacts
<1>2. PICK h \in Nat : Split(b, q, h)
  BY BodySplits
<1>. HIDE DEF b
<1>3. /\ m \in Nat /\ n \in Nat /\ DOMAIN b = 1..m /\ DOMAIN t = 1..n
      /\ s \in Seq(TopDown!Steps) /\ Len(s) = m + n /\ DOMAIN s = 1..(m + n)
      /\ \A i \in 1..(m + n) : s[i] = IF i <= m THEN b[i] ELSE t[i - m]
  BY <1>1
<1>4. \A x \in Own(b) : TopDown!Owner(x) = q
  BY <1>1, StepKinds DEF Own, StepIn
<1>5. \A i \in 1..m : b[i] \in Range(b) /\ b[i] \in TopDown!Steps
  BY <1>1, <1>3 DEF Range
<1>6. \A i \in 1..n : t[i] \in Range(t)
  BY <1>3 DEF Range
<1>7. \A i \in 1..m : /\ i <= h => b[i].do \in {"visit", "join"}
                      /\ i > h => b[i].do \in {"saturate", "return"}
  BY <1>2, <1>3 DEF Split
<1>8. ASSUME NEW i \in 1..m, b[i].do = "saturate"
      PROVE  /\ i > h /\ b[i].rule.result = q
             /\ \A c \in Range(b[i].rule.children) : c # q => \E k \in 1..m : k <= h /\ b[k] = TopDown!Visit(c)
  <2>1. i > h
    BY <1>2, <1>7, <1>8
  <2>2. TopDown!Owner(b[i]) = q /\ b[i].rule.result = q
    BY <1>4, <1>5, <1>8, OwnersAre DEF Own
  <2>3. PICK r \in right.rules : \E p \in DOMAIN r.children :
                  r.children[p] = r.result /\ b[i] = TopDown!Saturate(r, p)
    BY <1>5, <1>8, StepsAre, StepKinds
  <2>4. b[i].rule = r /\ TopDown!IsLoop(r)
    BY <2>3, StepKinds, WalkSequences DEF TopDown!IsLoop, Range
  <2>. QED  BY <1>2, <1>3, <2>1, <2>2, <2>4 DEF Split
<1>. HIDE DEF m, n, s
<1>9. Fed(s, W)
  <2>. SUFFICES ASSUME NEW i \in 1..(m + n), s[i].do = "saturate", NEW c \in Range(s[i].rule.children),
                       c # s[i].rule.result, c \notin W
                PROVE  \E k \in 1..(i - 1) : s[k] = TopDown!Visit(c)
    BY <1>3 DEF Fed
  <2>1. CASE i <= m
    <3>1. i \in 1..m /\ s[i] = b[i]
      BY <1>3, <2>1
    <3>2. i > h /\ b[i].rule.result = q /\ \E k \in 1..m : k <= h /\ b[k] = TopDown!Visit(c)
      BY <1>8, <3>1
    <3>3. PICK k \in 1..m : k <= h /\ b[k] = TopDown!Visit(c)
      BY <3>2
    <3>4. k \in 1..(m + n) /\ k <= m /\ k \in 1..(i - 1)
      BY <1>2, <1>3, <3>2, <3>3
    <3>. QED  BY <1>3, <3>3, <3>4
  <2>2. CASE ~(i <= m)
    <3>1. i - m \in 1..n /\ s[i] = t[i - m]
      BY <1>3, <2>2
    <3>2. PICK k \in 1..((i - m) - 1) : t[k] = TopDown!Visit(c)
      BY <1>3, <3>1 DEF Fed
    <3>3. k + m \in 1..(i - 1) /\ k + m \in 1..(m + n) /\ ~(k + m <= m) /\ (k + m) - m = k
      BY <1>3, <3>1
    <3>4. s[k + m] = t[k]
      BY <1>3, <3>3
    <3>. QED  BY <3>2, <3>3, <3>4
  <2>. QED  BY <2>1, <2>2
<1>10. LoopsLast(s)
  <2>. SUFFICES ASSUME NEW i \in 1..(m + n), NEW j \in 1..(m + n), i < j, s[i].do = "saturate", s[j].do = "join",
                       s[i].rule.result = s[j].rule.result
                PROVE  FALSE
    BY <1>3 DEF LoopsLast
  <2>1. CASE i <= m /\ j <= m
    <3>1. i \in 1..m /\ j \in 1..m /\ s[i] = b[i] /\ s[j] = b[j]
      BY <1>3, <2>1
    <3>2. i > h /\ j > h
      BY <1>2, <1>8, <3>1
    <3>. QED  BY <1>7, <3>1, <3>2
  <2>2. CASE i <= m /\ ~(j <= m)
    <3>1. i \in 1..m /\ s[i] = b[i] /\ j - m \in 1..n /\ s[j] = t[j - m]
      BY <1>3, <2>2
    <3>2. s[j].rule.result = q
      BY <1>8, <3>1
    <3>3. s[j] \in Own(t)
      BY <1>6, <3>1 DEF Own
    <3>. QED  BY <3>2, <3>3, OwnersAre
  <2>3. CASE ~(i <= m)
    <3>1. i - m \in 1..n /\ j - m \in 1..n /\ i - m < j - m /\ s[i] = t[i - m] /\ s[j] = t[j - m]
      BY <1>3, <2>3
    <3>. QED  BY <1>3, <3>1 DEF LoopsLast
  <2>. QED  BY <2>1, <2>2, <2>3
<1>. QED  BY <1>9, <1>10 DEF s, b

(* At most one child of one rule of each state loops. *)
OneLoopStep(a) ==
    \A r1, r2 \in a.rules : \A i \in DOMAIN r1.children, j \in DOMAIN r2.children :
        r1.result = r2.result /\ r1.children[i] = r1.result /\ r2.children[j] = r2.result => r1 = r2 /\ i = j

(* The chart has the rules of l and r over its pairs. *)
Fits(l, r) == Joins(l, r) /\ \A i \in DOMAIN l.children : <<l.children[i], r.children[i]>> \in Pairs

Complete(r) == \A l \in left.rules : Fits(l, r) => ProductRule(l, r) \in Decoded

Pending(r) == \E x \in Range(work) : Joining(x) /\ x.rule = r

Returned(q) == q \in visited /\ TopDown!Return(q) \notin Range(work)

(* A rule of a visited state has still to be joined, or it has been joined  *)
(* over the last partners of its children.                                  *)
Walked ==
    \A r \in right.rules : r.result \in visited =>
        \/ Pending(r)
        \/ Complete(r) /\ \A c \in Range(r.children) : c = r.result \/ Returned(c)

(* A loop rule is not done before the normal rules of its call are.         *)
LoopsAfter ==
    \A r \in right.rules : TopDown!IsLoop(r) /\ r.result \in visited /\ ~Pending(r) =>
        \A x \in Range(work) : x.do = "join" => x.rule.result # r.result

(* The walk starts everywhere and stays where it leads. *)
Reaches ==
    /\ walk \in {"visit", "saturate", "join"} =>
          \A q \in right.accepting : q \in visited \/ TopDown!Visit(q) \in Range(work)
    /\ visited \subseteq TopDownStates(right)
    /\ \A x \in Range(work) : TopDown!Owner(x) \in TopDownStates(right)

(* What is being joined is in the chart or yet to be collected.             *)
Awaited(l, x) ==
    \/ ProductRule(l, x.rule) \in Decoded
    \/ walk = "join" /\ l \in matches
    \/ x.do = "saturate" /\ l.children[x.position] \in Range(agenda)

Trying ==
    walk \in {"join", "saturate"} =>
        \A l \in left.rules : Fits(l, Head(work).rule) => Awaited(l, Head(work))

WalkCovers ==
    /\ OneLoopStep(right)
    /\ walk = "start" => work = <<>> /\ visited = {}
    /\ Walked /\ LoopsAfter /\ LoopsLast(work) /\ Fed(work, visited)
    /\ Reaches /\ Trying

(* The chart stays. *)
LEMMA CoverSame ==
  ASSUME UNCHANGED <<left, right, product_pairs, rules>>
  PROVE  /\ Pairs' = Pairs /\ Decoded' = Decoded
         /\ \A l, r : Fits(l, r)' <=> Fits(l, r)
         /\ \A r : Complete(r)' <=> Complete(r)
<1>1. Pairs' = Pairs /\ Decoded' = Decoded
  BY DEF Pairs, Ids, Decoded, Decode
<1>. QED  BY <1>1 DEF Fits, Complete

(* Nothing but what is being tried changes. *)
LEMMA CoverStill ==
  ASSUME WalkCovers, UNCHANGED <<left, right, product_pairs, rules, work, visited>>,
         walk # "start", walk' # "start", walk' = "cancelled" \/ walk \in {"visit", "saturate", "join"}, Trying'
  PROVE  WalkCovers'
<1>1. /\ \A r : Complete(r)' <=> Complete(r)
      /\ \A r : Pending(r)' <=> Pending(r)
      /\ \A q : Returned(q)' <=> Returned(q)
  BY CoverSame DEF Pending, Joining, Returned, TopDown!Return
<1>2. Walked' /\ LoopsAfter'
  BY <1>1 DEF WalkCovers, Walked, LoopsAfter, TopDown!IsLoop, TopDown!Range
<1>3. Reaches'
  BY DEF WalkCovers, Reaches, TopDown!Visit, TopDown!Owner
<1>4. LoopsLast(work)' /\ Fed(work, visited)' /\ OneLoopStep(right)'
  BY DEF WalkCovers, LoopsLast, Fed, TopDown!Visit
<1>. QED  BY <1>2, <1>3, <1>4 DEF WalkCovers

(* The walk ends, or is given up. *)
LEMMA CoverStopped ==
  ASSUME WalkCovers, UNCHANGED <<left, right, product_pairs, rules, work, visited>>, walk' \in {"cancelled", "done"}
  PROVE  WalkCovers'
<1>1. /\ \A r : Complete(r)' <=> Complete(r)
      /\ \A r : Pending(r)' <=> Pending(r)
      /\ \A q : Returned(q)' <=> Returned(q)
  BY CoverSame DEF Pending, Joining, Returned, TopDown!Return
<1>2. Walked' /\ LoopsAfter'
  BY <1>1 DEF WalkCovers, Walked, LoopsAfter, TopDown!IsLoop, TopDown!Range
<1>3. Reaches'
  BY DEF WalkCovers, Reaches, TopDown!Owner
<1>4. LoopsLast(work)' /\ Fed(work, visited)' /\ OneLoopStep(right)' /\ Trying'
  BY DEF WalkCovers, LoopsLast, Fed, TopDown!Visit, Trying
<1>. QED  BY <1>2, <1>3, <1>4 DEF WalkCovers

(* Nothing at all changes. *)
LEMMA CoverKept ==
  ASSUME WalkCovers,
         UNCHANGED <<left, right, product_pairs, rules, walk, work, visited, matches, agenda>>
  PROVE  WalkCovers'
<1>1. /\ \A r : Complete(r)' <=> Complete(r)
      /\ \A l, r : Fits(l, r)' <=> Fits(l, r)
      /\ \A r : Pending(r)' <=> Pending(r)
      /\ \A q : Returned(q)' <=> Returned(q)
      /\ Decoded' = Decoded
  BY CoverSame DEF Pending, Joining, Returned, TopDown!Return
<1>2. Walked' /\ LoopsAfter'
  BY <1>1 DEF WalkCovers, Walked, LoopsAfter, TopDown!IsLoop, TopDown!Range
<1>3. Reaches'
  BY DEF WalkCovers, Reaches, TopDown!Visit, TopDown!Owner
<1>4. LoopsLast(work)' /\ Fed(work, visited)' /\ OneLoopStep(right)'
  BY DEF WalkCovers, LoopsLast, Fed, TopDown!Visit
<1>5. Trying'
  BY <1>1 DEF WalkCovers, Trying, Awaited
<1>. QED  BY <1>2, <1>3, <1>4, <1>5 DEF WalkCovers

LEMMA CoverStart ==
  ASSUME ChartInv, WalkOK, WalkCovers, TopDown!Start
  PROVE  WalkCovers'
<1>. USE DEF TopDown!input, TopDown!chart, TopDown!loop
<1>1. UNCHANGED <<left, right, product_pairs, rules, visited>> /\ walk = "start"
  BY DEF TopDown!Start, TopDown!GiveUp
<1>2. CASE TopDown!GiveUp
  BY <1>1, <1>2, CoverStopped DEF TopDown!GiveUp
<1>3. CASE ~TopDown!GiveUp
  <2>1. PICK roots \in SetToSeqs(right.accepting) : work' = TopDown!VisitAll(roots)
    BY <1>3, WalkSequences DEF TopDown!Start
  <2>2. walk' = "visit" /\ visited' = {} /\ OneLoopStep(right)'
    BY <1>1, <1>3 DEF TopDown!Start, WalkCovers, OneLoopStep
  <2>3. right \in Rights /\ IsFiniteSet(right.accepting) /\ right.accepting \subseteq TopDownStates(right)
    BY RightRules, TopDownStatesAre DEF ChartInv
  <2>4. Range(roots) = right.accepting
    BY <2>3, OrderIs
  <2>5. DOMAIN work' = DOMAIN roots /\ \A i \in DOMAIN roots : work'[i] = TopDown!Visit(roots[i])
    BY <2>1 DEF TopDown!VisitAll
  <2>6. \A x \in Range(work') : x.do = "visit" /\ TopDown!Owner(x) \in right.accepting
    BY <2>4, <2>5, StepKinds, OwnersAre DEF Range
  <2>7. \A q \in right.accepting : TopDown!Visit(q) \in Range(work')
    BY <2>4, <2>5 DEF Range
  <2>8. \A i \in DOMAIN work' : work'[i].do = "visit"
    BY <2>5, StepKinds
  <2>9. Walked' /\ LoopsAfter'
    BY <2>2 DEF Walked, LoopsAfter
  <2>10. LoopsLast(work)' /\ Fed(work, visited)'
    BY <2>8 DEF LoopsLast, Fed
  <2>11. Reaches'
    <3>1. visited' \subseteq TopDownStates(right)'
      BY <2>2
    <3>2. \A x \in Range(work') : TopDown!Owner(x)' \in TopDownStates(right)'
      BY <1>1, <2>3, <2>6 DEF TopDown!Owner
    <3>3. \A q \in right'.accepting : TopDown!Visit(q)' \in Range(work')
      BY <1>1, <2>7 DEF TopDown!Visit
    <3>. QED  BY <3>1, <3>2, <3>3 DEF Reaches
  <2>. QED  BY <2>2, <2>9, <2>10, <2>11 DEF WalkCovers, Trying
<1>. QED  BY <1>2, <1>3

(* The head of the stack is done with. *)
LEMMA CoverDrop ==
  ASSUME ChartInv, WalkOK, WalkCovers, UNCHANGED <<left, right, product_pairs, rules, visited>>,
         walk \in {"visit", "saturate", "join"}, walk' = "visit", work # <<>>, work' = Tail(work),
         Head(work).do = "visit" => Head(work).state \in visited,
         Joining(Head(work)) => /\ Complete(Head(work).rule)
                                /\ \A c \in Range(Head(work).rule.children) :
                                      c = Head(work).rule.result \/ Returned(c)
  PROVE  WalkCovers'
<1>1. /\ work \in Seq(TopDown!Steps) /\ Len(work) \in Nat /\ Head(work) = work[1]
      /\ work' \in Seq(TopDown!Steps) /\ Len(work') = Len(work) - 1
      /\ \A i \in 1..(Len(work) - 1) : work'[i] = work[i + 1]
      /\ Range(work') \subseteq Range(work) /\ DOMAIN work = 1..Len(work) /\ Len(work) # 0
  BY TailFacts DEF WalkOK, StackOK
<1>2. \A x \in Range(work) : x = Head(work) \/ x \in Range(work')
  <2>. SUFFICES ASSUME NEW i \in DOMAIN work, i # 1 PROVE work[i] \in Range(work')
    BY <1>1 DEF Range
  <2>1. i - 1 \in 1..(Len(work) - 1) /\ (i - 1) + 1 = i /\ DOMAIN work' = 1..(Len(work) - 1)
    BY <1>1
  <2>. QED  BY <1>1, <2>1 DEF Range
<1>3. \A q : Returned(q) => Returned(q)'
  BY <1>1 DEF Returned, TopDown!Return
<1>4. \A r : Complete(r)' <=> Complete(r)
  BY CoverSame
<1>5. ASSUME NEW r, Pending(r) PROVE Pending(r)' \/ (Joining(Head(work)) /\ Head(work).rule = r)
  BY <1>2, <1>5 DEF Pending, Joining
<1>6. Walked'
  <2>. SUFFICES ASSUME NEW r \in right.rules, r.result \in visited, ~Pending(r)'
                PROVE  Complete(r) /\ \A c \in Range(r.children) : c = r.result \/ Returned(c)
    BY <1>3, <1>4 DEF Walked
  <2>. QED  BY <1>5 DEF WalkCovers, Walked
<1>7. LoopsAfter'
  <2>. SUFFICES ASSUME NEW r \in right.rules, TopDown!IsLoop(r), r.result \in visited, ~Pending(r)',
                       NEW x \in Range(work'), x.do = "join", x.rule.result = r.result
                PROVE  FALSE
    BY DEF LoopsAfter, TopDown!IsLoop, TopDown!Range
  <2>1. CASE ~Pending(r)
    BY <1>1, <2>1 DEF WalkCovers, LoopsAfter
  <2>2. CASE Pending(r)
    <3>1. Joining(Head(work)) /\ Head(work).rule = r
      BY <1>5, <2>2
    <3>2. PICK j \in 1..(Len(work) - 1) : x = work[j + 1]
      BY <1>1 DEF Range
    <3>3. j + 1 \in DOMAIN work /\ 1 \in DOMAIN work /\ 1 < j + 1
      BY <1>1
    <3>4. CASE Head(work).do = "saturate"
      BY <1>1, <3>1, <3>2, <3>3, <3>4 DEF WalkCovers, LoopsLast
    <3>5. CASE Head(work).do = "join"
      <4>1. Head(work) \in TopDown!Steps /\ RightRulesOK
        BY <1>1, <3>3, RightRules DEF ChartInv
      <4>. QED  BY <3>1, <3>5, <4>1, StepsAre, StepKinds
    <3>. QED  BY <3>1, <3>4, <3>5 DEF Joining
  <2>. QED  BY <2>1, <2>2
<1>8. LoopsLast(work)' /\ Fed(work, visited)'
  <2>1. LoopsLast(Tail(work)) /\ Fed(Tail(work), visited)
    BY <1>1, FedTail DEF WalkCovers
  <2>. QED  BY <2>1 DEF LoopsLast, Fed, TopDown!Visit
<1>9. Reaches'
  <2>1. \A q \in right.accepting : q \in visited \/ TopDown!Visit(q) \in Range(work')
    <3>. SUFFICES ASSUME NEW q \in right.accepting, q \notin visited PROVE TopDown!Visit(q) \in Range(work')
      OBVIOUS
    <3>1. TopDown!Visit(q) \in Range(work)
      BY DEF WalkCovers, Reaches
    <3>. QED  BY <1>2, <3>1, StepKinds
  <2>. QED  BY <1>1, <2>1 DEF WalkCovers, Reaches, TopDown!Visit, TopDown!Owner
<1>10. OneLoopStep(right)'
  BY DEF WalkCovers, OneLoopStep
<1>. QED  BY <1>6, <1>7, <1>8, <1>9, <1>10 DEF WalkCovers, Trying

LEMMA CoverEnterVisit ==
  ASSUME ChartInv, WalkOK, WalkCovers, TopDown!EnterVisit
  PROVE  WalkCovers'
<1>. USE DEF TopDown!input, TopDown!chart, TopDown!loop
<1>1. UNCHANGED <<left, right, product_pairs, rules>> /\ walk = "visit" /\ work # <<>>
      /\ Head(work).do = "visit"
  BY DEF TopDown!EnterVisit, TopDown!GiveUp, TopDown!Doing
<1>2. CASE TopDown!GiveUp
  BY <1>1, <1>2, CoverStopped DEF TopDown!GiveUp
<1>3. CASE ~TopDown!GiveUp
  <2>. DEFINE q == Head(work).state
  <2>1. /\ visited' = visited \cup {q} /\ walk' = walk
        /\ IF q \in visited THEN work' = Tail(work)
           ELSE \E listed \in SetToSeqs({r \in right.rules : r.result = q}) :
                   work' = TopDown!BodyOf(q, listed) \o Tail(work)
    BY <1>3, WalkSequences DEF TopDown!EnterVisit, TopDown!CondensedRulesByParent
  <2>2. CASE q \in visited
    <3>1. visited' = visited /\ work' = Tail(work)
      BY <2>1, <2>2
    <3>2. ~Joining(Head(work))
      BY <1>1 DEF Joining
    <3>. QED  BY <1>1, <2>1, <2>2, <3>1, <3>2, CoverDrop
  <2>3. CASE q \notin visited
    <3>1. PICK listed \in SetToSeqs({r \in right.rules : r.result = q}) :
             work' = TopDown!BodyOf(q, listed) \o Tail(work)
      BY <2>1, <2>3
    <3>2. RightRulesOK /\ IsFiniteSet(right.rules) /\ right \in Rights
      BY RightRules DEF ChartInv
    <3>3. /\ work \in Seq(TopDown!Steps) /\ Tail(work) \in Seq(TopDown!Steps) /\ Head(work) \in TopDown!Steps
          /\ Range(Tail(work)) \subseteq Range(work)
          /\ Head(work) \in Range(work)
      BY <1>1, TailFacts DEF WalkOK, StackOK
    <3>4. q \in RightStates /\ Head(work) = TopDown!Visit(q) /\ q \in TopDownStates(right)
      <4>1. q \in RightStates /\ Head(work) = TopDown!Visit(q)
        BY <1>1, <3>2, <3>3, StepsAre, StepKinds
      <4>. QED  BY <3>3, <4>1, OwnersAre DEF WalkCovers, Reaches
    <3>. DEFINE b == TopDown!BodyOf(q, listed)
                t == Tail(work)
                W == visited \cup {q}
    <3>5. /\ b \in Seq(TopDown!Steps)
          /\ \A x \in Range(b) : StepIn(q, x)
      BY <3>2, <3>4, BodyFacts
    <3>6. PICK h \in Nat : Split(b, q, h)
      BY <3>2, <3>4, BodySplits
    <3>7. \A x \in Range(work) : x = TopDown!Visit(q) \/ x \in Range(t)
      <4>1. /\ Len(work) \in Nat /\ Head(work) = work[1] /\ DOMAIN work = 1..Len(work)
            /\ t \in Seq(TopDown!Steps) /\ Len(t) = Len(work) - 1 /\ DOMAIN t = 1..(Len(work) - 1)
            /\ \A i \in 1..(Len(work) - 1) : t[i] = work[i + 1]
        BY <1>1, <3>3, TailFacts
      <4>. HIDE DEF t, q
      <4>. SUFFICES ASSUME NEW i \in DOMAIN work, i # 1 PROVE work[i] \in Range(t)
        BY <3>4, <4>1 DEF Range
      <4>2. i - 1 \in 1..(Len(work) - 1) /\ (i - 1) + 1 = i
        BY <4>1
      <4>. QED  BY <4>1, <4>2 DEF Range
    <3>8. /\ Fed(t, W) /\ LoopsLast(t)
          /\ \A x \in Own(work) : TopDown!Owner(x) # q
          /\ Range(t) \subseteq Range(work)
      <4>1. Fed(t, W) /\ LoopsLast(t)
        BY <1>1, <3>3, FedTail DEF WalkCovers
      <4>2. \A x \in Own(work) : TopDown!Owner(x) # q
        BY <2>3 DEF WalkOK, StackOK, Owned
      <4>. QED  BY <3>3, <4>1, <4>2
    <3>9. \A x \in Own(t) : TopDown!Owner(x) # q
      BY <3>8 DEF Own
    <3>10. Fed(b \o t, W) /\ LoopsLast(b \o t)
      BY <3>2, <3>3, <3>4, <3>8, <3>9, FedBody
    <3>11. visited' = W /\ work' = b \o t
      BY <2>1, <3>1
    <3>. HIDE DEF b, t, q
    <3>12. Range(work') = Range(b) \cup Range(t)
      BY <3>3, <3>5, <3>11, ConcatRange, ZenonT(30) DEF t
    <3>. HIDE DEF W
    <3>13. q \in W /\ \A p \in W : p \in visited \/ p = q
      BY DEF W
    <3>14. /\ \A r : Complete(r)' <=> Complete(r)
      BY <1>1, CoverSame
    <3>15. \A r : Pending(r) => Pending(r)'
      BY <3>7, <3>12, StepKinds DEF Pending, Joining
    <3>16. \A r \in right.rules : r.result = q => Pending(r)'
      <4>. SUFFICES ASSUME NEW r \in right.rules, r.result = q PROVE Pending(r)'
        OBVIOUS
      <4>1. CASE TopDown!IsLoop(r)
        <5>1. PICK p \in DOMAIN r.children : r.children[p] = q
          BY <4>1, WalkSequences DEF TopDown!IsLoop, Range
        <5>2. TopDown!Saturate(r, p) \in Range(b)
          BY <3>6, <4>1, <5>1 DEF Split
        <5>. QED  BY <3>12, <5>2, StepKinds DEF Pending, Joining
      <4>2. CASE ~TopDown!IsLoop(r)
        <5>1. TopDown!Join(r) \in Range(b)
          BY <3>6, <4>2 DEF Split
        <5>. QED  BY <3>12, <5>1, StepKinds DEF Pending, Joining
      <4>. QED  BY <4>1, <4>2
    <3>17. \A x \in Range(b) : x.do = "visit" \/ TopDown!Owner(x) = q
      BY <3>5, StepKinds DEF StepIn
    <3>18. \A p : Returned(p) => Returned(p)'
      <4>. SUFFICES ASSUME NEW p, p \in visited, TopDown!Return(p) \notin Range(work)
                    PROVE  p \in visited' /\ TopDown!Return(p) \notin Range(work')
        BY DEF Returned, TopDown!Return
      <4>1. p \in visited' /\ p # q
        BY <2>1, <2>3 DEF q
      <4>. QED  BY <3>8, <3>12, <3>17, <4>1, OwnersAre, StepKinds
    <3>19. Walked'
      <4>. SUFFICES ASSUME NEW r \in right.rules, r.result \in W, ~Pending(r)'
                    PROVE  Complete(r) /\ \A c \in Range(r.children) : c = r.result \/ Returned(c)
        BY <1>1, <3>11, <3>14, <3>18 DEF Walked
      <4>1. r.result \in visited /\ ~Pending(r)
        BY <3>13, <3>15, <3>16
      <4>. QED  BY <4>1 DEF WalkCovers, Walked
    <3>20. LoopsAfter'
      <4>. SUFFICES ASSUME NEW r \in right.rules, TopDown!IsLoop(r), r.result \in W, ~Pending(r)',
                           NEW x \in Range(work'), x.do = "join", x.rule.result = r.result
                    PROVE  FALSE
        BY <1>1, <3>11 DEF LoopsAfter, TopDown!IsLoop, TopDown!Range
      <4>1. r.result \in visited /\ ~Pending(r) /\ r.result # q
        BY <3>13, <3>15, <3>16
      <4>2. x \notin Range(b)
        BY <3>17, <4>1, OwnersAre
      <4>3. x \in Range(work)
        BY <3>8, <3>12, <4>2
      <4>. QED  BY <4>1, <4>3 DEF WalkCovers, LoopsAfter
    <3>21. Reaches'
      <4>1. visited' \subseteq TopDownStates(right)
        BY <3>4, <3>11, <3>13 DEF WalkCovers, Reaches
      <4>2. \A x \in Range(work') : TopDown!Owner(x) \in TopDownStates(right)
        <5>1. \A r \in right.rules : r.result \in TopDownStates(right) => Range(r.children) \subseteq TopDownStates(right)
          BY <3>2, TopDownStatesAre
        <5>2. ASSUME NEW x \in Range(b) PROVE TopDown!Owner(x) \in TopDownStates(right)
          BY <3>4, <3>5, <5>1, OwnersAre DEF StepIn
        <5>3. ASSUME NEW x \in Range(t) PROVE TopDown!Owner(x) \in TopDownStates(right)
          BY <3>8 DEF WalkCovers, Reaches
        <5>. QED  BY <3>12, <5>2, <5>3
      <4>3. \A p \in right.accepting : p \in visited' \/ TopDown!Visit(p) \in Range(work')
        <5>. SUFFICES ASSUME NEW p \in right.accepting, p \notin visited' PROVE TopDown!Visit(p) \in Range(work')
          OBVIOUS
        <5>1. p \notin visited /\ p # q
          BY <3>11, <3>13, <2>1
        <5>2. TopDown!Visit(p) \in Range(work)
          BY <1>1, <5>1 DEF WalkCovers, Reaches
        <5>. QED  BY <3>7, <3>12, <5>1, <5>2, StepKinds
      <4>. QED  BY <1>1, <4>1, <4>2, <4>3 DEF Reaches, TopDown!Visit, TopDown!Owner
    <3>22. LoopsLast(work)' /\ Fed(work, visited)'
      <4>1. LoopsLast(work') /\ Fed(work', visited')
        BY <3>10, <3>11
      <4>. QED  BY <4>1 DEF LoopsLast, Fed, TopDown!Visit
    <3>23. OneLoopStep(right)'
      BY <1>1 DEF WalkCovers, OneLoopStep
    <3>. QED  BY <1>1, <2>1, <3>19, <3>20, <3>21, <3>22, <3>23 DEF WalkCovers, Trying
  <2>. QED  BY <2>2, <2>3
<1>. QED  BY <1>2, <1>3

(* The calls for the children of what is joined have returned. *)
LEMMA CallsReturned ==
  ASSUME ChartInv, WalkOK, FallsSafe, Fed(work, visited), work # <<>>, Joining(Head(work)),
         NEW c \in Range(Head(work).rule.children), c # Head(work).rule.result
  PROVE  Returned(c)
<1>. DEFINE r == Head(work).rule
<1>1. Head(work).do \in {"join", "saturate"}
  BY DEF Joining
<1>2. /\ r \in right.rules /\ r.result \in RightStates
      /\ \A p \in Range(r.children) : p \in RightStates
  BY <1>1, RuleAtHead DEF WalkOK, ChartInv, Range
<1>3. /\ work \in Seq(TopDown!Steps) /\ Prepared(work, visited)
      /\ Head(work) = work[1] /\ Len(work) \in Nat /\ 1 \in DOMAIN work /\ DOMAIN work = 1..Len(work)
  BY TailFacts DEF WalkOK, StackOK
<1>4. c \in visited
  <2>1. CASE Head(work).do = "join"
    BY <1>3, <2>1 DEF Prepared
  <2>2. CASE Head(work).do = "saturate"
    BY <1>3, <2>2 DEF Fed
  <2>. QED  BY <1>1, <2>1, <2>2
<1>5. PICK rank \in [RightStates -> Nat] : Descends(right, rank) /\ Falls(work, rank)
  BY DEF FallsSafe
<1>6. rank[c] < rank[r.result] /\ rank[c] \in Nat /\ rank[r.result] \in Nat
  BY <1>2, <1>5 DEF Descends
<1>7. ASSUME TopDown!Return(c) \in Range(work) PROVE FALSE
  <2>1. PICK j \in 1..Len(work) : work[j] = TopDown!Return(c)
    BY <1>3, <1>7 DEF Range
  <2>2. work[j].do = "return" /\ work[j].state = c /\ j # 1
    BY <1>1, <1>3, <2>1, StepKinds
  <2>3. 1 \in 1..(j - 1)
    BY <1>3, <2>2
  <2>4. rank[TopDown!Owner(work[1])] <= rank[c]
    BY <1>3, <1>5, <2>2, <2>3 DEF Falls
  <2>5. TopDown!Owner(work[1]) = r.result
    BY <1>1, <1>3, OwnersAre
  <2>. QED  BY <1>6, <2>4, <2>5
<1>. QED  BY <1>4, <1>7 DEF Returned

LEMMA CoverReturn ==
  ASSUME ChartInv, WalkOK, WalkCovers, TopDown!ReturnFromVisit
  PROVE  WalkCovers'
<1>. USE DEF TopDown!input, TopDown!chart, TopDown!loop
<1>1. /\ UNCHANGED <<left, right, product_pairs, rules, visited>>
      /\ walk = "visit" /\ walk' = "visit" /\ work # <<>> /\ work' = Tail(work) /\ Head(work).do = "return"
  BY DEF TopDown!ReturnFromVisit, TopDown!Doing
<1>2. ~Joining(Head(work))
  BY <1>1 DEF Joining
<1>. QED  BY <1>1, <1>2, CoverDrop

LEMMA CoverJoin ==
  ASSUME ChartInv, WalkOK, WalkCovers, TopDown!JoinNormalRule
  PROVE  WalkCovers'
<1>. USE DEF TopDown!input, TopDown!chart, TopDown!loop
<1>. DEFINE r == Head(work).rule
<1>1. UNCHANGED <<left, right, product_pairs, rules, work, visited>> /\ walk = "visit" /\ walk' = "join"
      /\ work # <<>> /\ Head(work).do = "join"
      /\ matches' = TopDown!MatchesFor(r, TopDown!PartnerSets(r))
  BY DEF TopDown!JoinNormalRule, TopDown!Doing
<1>2. DOMAIN r.children = 1..Len(r.children) /\ \A i \in DOMAIN r.children : r.children[i] \in RightStates
  BY <1>1, RuleAtHead DEF WalkOK, ChartInv
<1>3. ASSUME NEW l \in left.rules, Fits(l, r) PROVE l \in matches'
  <2>1. Joins(l, r) /\ DOMAIN l.children = DOMAIN r.children /\ \A i \in DOMAIN l.children : l.children[i] \in LeftStates
    BY <1>2, <1>3, LeftRules DEF ChartInv, Fits, Joins
  <2>2. \A i \in DOMAIN l.children : l.children[i] \in partners[r.children[i]]
    BY <1>2, <1>3, <2>1 DEF Fits, WalkOK, Agree
  <2>3. \A i \in DOMAIN l.children : l.children[i] \in TopDown!PartnerSets(r)[i]
    BY <2>1, <2>2 DEF TopDown!PartnerSets
  <2>. QED  BY <1>1, <2>1, <2>3 DEF TopDown!MatchesFor, TopDown!Joins, Joins
<1>4. \A l, x : Fits(l, x)' <=> Fits(l, x)
  BY <1>1, CoverSame
<1>5. Trying'
  BY <1>1, <1>3, <1>4 DEF Trying, Awaited
<1>. QED  BY <1>1, <1>5, CoverStill

LEMMA CoverStartSaturation ==
  ASSUME ChartInv, WalkOK, WalkCovers, TopDown!StartSaturation
  PROVE  WalkCovers'
<1>. USE DEF TopDown!input, TopDown!chart, TopDown!loop
<1>. DEFINE r == Head(work).rule
            p == Head(work).position
<1>1. UNCHANGED <<left, right, product_pairs, rules, work, visited>> /\ walk = "visit" /\ walk' = "saturate"
      /\ work # <<>> /\ Head(work).do = "saturate"
      /\ \E listed \in SetToSeqs(partners[r.result]) : agenda' = listed
  BY WalkSequences DEF TopDown!StartSaturation, TopDown!Doing
<1>2. /\ DOMAIN r.children = 1..Len(r.children) /\ p \in DOMAIN r.children
      /\ r.children[p] = r.result /\ r.result \in RightStates
  BY <1>1, RuleAtHead DEF WalkOK, ChartInv
<1>3. partners[r.result] = {x \in LeftStates : <<x, r.result>> \in Pairs}
  BY <1>2 DEF WalkOK, Agree
<1>4. IsFiniteSet(partners[r.result])
  BY <1>3, FinitePartners
<1>5. Range(agenda') = partners[r.result]
  BY <1>1, <1>4, OrderIs
<1>6. ASSUME NEW l \in left.rules, Fits(l, r) PROVE l.children[p] \in Range(agenda')
  <2>1. DOMAIN l.children = DOMAIN r.children /\ \A i \in DOMAIN l.children : l.children[i] \in LeftStates
    BY <1>2, <1>6, LeftRules DEF ChartInv, Fits, Joins
  <2>2. <<l.children[p], r.result>> \in Pairs
    BY <1>2, <1>6, <2>1 DEF Fits
  <2>. QED  BY <1>2, <1>3, <1>5, <2>1, <2>2
<1>7. \A l, x : Fits(l, x)' <=> Fits(l, x)
  BY <1>1, CoverSame
<1>8. Trying'
  BY <1>1, <1>6, <1>7 DEF Trying, Awaited
<1>. QED  BY <1>1, <1>8, CoverStill

LEMMA CoverTryPartner ==
  ASSUME ChartInv, WalkOK, WalkCovers, TopDown!TryPartner
  PROVE  WalkCovers'
<1>. USE DEF TopDown!input, TopDown!chart, TopDown!loop
<1>1. /\ UNCHANGED <<left, right, product_pairs, rules, work, visited>>
      /\ walk = "saturate" /\ work # <<>> /\ Head(work).do = "saturate" /\ agenda # <<>>
  BY DEF TopDown!TryPartner, TopDown!GiveUp, WalkOK, WalkTypes
<1>2. CASE TopDown!GiveUp
  BY <1>1, <1>2, CoverStopped DEF TopDown!GiveUp
<1>3. CASE ~TopDown!GiveUp
  <2>. DEFINE r == Head(work).rule
              p == Head(work).position
              sets == [TopDown!PartnerSets(r) EXCEPT ![p] = {Head(agenda)}]
  <2>1. walk' = "join" /\ agenda' = Tail(agenda) /\ matches' = TopDown!MatchesFor(r, sets)
    BY <1>3 DEF TopDown!TryPartner
  <2>2. /\ DOMAIN r.children = 1..Len(r.children) /\ \A i \in DOMAIN r.children : r.children[i] \in RightStates
        /\ p \in DOMAIN r.children /\ r.children[p] = r.result
    BY <1>1, RuleAtHead DEF WalkOK, ChartInv
  <2>3. \A s \in Range(agenda) : s = Head(agenda) \/ s \in Range(agenda')
    <3>1. /\ Len(agenda) \in Nat /\ Head(agenda) = agenda[1] /\ DOMAIN agenda = 1..Len(agenda)
          /\ agenda' \in Seq(seen) /\ Len(agenda') = Len(agenda) - 1
          /\ \A i \in 1..(Len(agenda) - 1) : agenda'[i] = agenda[i + 1]
      BY <1>1, <2>1, TailFacts DEF WalkOK, WalkTypes
    <3>. SUFFICES ASSUME NEW i \in DOMAIN agenda, i # 1 PROVE agenda[i] \in Range(agenda')
      BY <3>1 DEF Range
    <3>2. i - 1 \in 1..(Len(agenda) - 1) /\ (i - 1) + 1 = i /\ DOMAIN agenda' = 1..(Len(agenda) - 1)
      BY <3>1
    <3>. QED  BY <3>1, <3>2 DEF Range
  <2>4. ASSUME NEW l \in left.rules, Fits(l, r), l.children[p] = Head(agenda) PROVE l \in matches'
    <3>1. Joins(l, r) /\ DOMAIN l.children = DOMAIN r.children /\ \A i \in DOMAIN l.children : l.children[i] \in LeftStates
      BY <2>2, <2>4, LeftRules DEF ChartInv, Fits, Joins
    <3>2. \A i \in DOMAIN l.children : l.children[i] \in partners[r.children[i]]
      BY <2>2, <2>4, <3>1 DEF Fits, WalkOK, Agree
    <3>3. \A i \in DOMAIN r.children : sets[i] = IF i = p THEN {Head(agenda)} ELSE partners[r.children[i]]
      BY <2>2 DEF TopDown!PartnerSets
    <3>. HIDE DEF sets, r, p
    <3>4. \A i \in DOMAIN l.children : l.children[i] \in sets[i]
      BY <2>4, <3>1, <3>2, <3>3
    <3>. QED  BY <2>1, <3>1, <3>4 DEF TopDown!MatchesFor, TopDown!Joins, Joins
  <2>5. \A l, x : Fits(l, x)' <=> Fits(l, x)
    BY <1>1, CoverSame
  <2>6. Decoded' = Decoded
    BY <1>1, CoverSame
  <2>. HIDE DEF sets
  <2>7. Trying'
    <3>. SUFFICES ASSUME NEW l \in left.rules, Fits(l, r) PROVE Awaited(l, Head(work))'
      BY <1>1, <2>5 DEF Trying
    <3>1. ProductRule(l, r) \in Decoded \/ l.children[p] \in Range(agenda)
      BY <1>1 DEF WalkCovers, Trying, Awaited
    <3>. QED  BY <1>1, <2>1, <2>3, <2>4, <2>6, <3>1 DEF Awaited
  <2>. QED  BY <1>1, <2>1, <2>7, CoverStill
<1>. QED  BY <1>2, <1>3

LEMMA CoverEndJoin ==
  ASSUME ChartInv, WalkOK, FallsSafe, WalkCovers, TopDown!EndJoin
  PROVE  WalkCovers'
<1>. USE DEF TopDown!input, TopDown!chart, TopDown!loop
<1>1. /\ UNCHANGED <<left, right, product_pairs, rules, visited, matches, agenda>> /\ walk = "join"
      /\ matches = {} /\ work # <<>> /\ Head(work).do \in {"join", "saturate"} /\ Joining(Head(work))
  BY DEF TopDown!EndJoin, WalkOK, WalkTypes, Joining
<1>2. CASE Head(work).do = "saturate"
  <2>1. walk' = "saturate" /\ work' = work
    BY <1>2 DEF TopDown!EndJoin
  <2>2. Decoded' = Decoded /\ \A l, x : Fits(l, x)' <=> Fits(l, x)
    BY <1>1, CoverSame
  <2>3. Trying'
    BY <1>1, <1>2, <2>1, <2>2 DEF WalkCovers, Trying, Awaited
  <2>. QED  BY <1>1, <2>1, <2>3, CoverStill
<1>3. CASE Head(work).do = "join"
  <2>1. walk' = "visit" /\ work' = Tail(work)
    BY <1>3 DEF TopDown!EndJoin
  <2>2. Complete(Head(work).rule)
    BY <1>1, <1>3 DEF WalkCovers, Trying, Awaited, Complete
  <2>3. \A c \in Range(Head(work).rule.children) : c = Head(work).rule.result \/ Returned(c)
    BY <1>1, CallsReturned DEF WalkCovers
  <2>. QED  BY <1>1, <1>3, <2>1, <2>2, <2>3, CoverDrop
<1>. QED  BY <1>1, <1>2, <1>3

LEMMA CoverEndSaturation ==
  ASSUME ChartInv, WalkOK, FallsSafe, WalkCovers, TopDown!EndSaturation
  PROVE  WalkCovers'
<1>. USE DEF TopDown!input, TopDown!chart, TopDown!loop
<1>1. /\ UNCHANGED <<left, right, product_pairs, rules, visited>> /\ walk = "saturate" /\ agenda = <<>>
      /\ work # <<>> /\ Head(work).do = "saturate" /\ Joining(Head(work)) /\ walk' = "visit" /\ work' = Tail(work)
  BY DEF TopDown!EndSaturation, WalkOK, WalkTypes, Joining
<1>2. Range(agenda) = {}
  BY <1>1 DEF Range
<1>3. Complete(Head(work).rule)
  BY <1>1, <1>2 DEF WalkCovers, Trying, Awaited, Complete
<1>4. \A c \in Range(Head(work).rule.children) : c = Head(work).rule.result \/ Returned(c)
  BY <1>1, CallsReturned DEF WalkCovers
<1>. QED  BY <1>1, <1>3, <1>4, CoverDrop

LEMMA CoverCollectPair ==
  ASSUME ChartInv, WalkOK, WalkCovers, NEW l, TopDown!CollectPair(l),
         strategy = "top-down", strategy' = strategy
  PROVE  WalkCovers' /\ [Promise!Next]_Promise!vars
<1>. USE DEF TopDown!input, TopDown!chart, TopDown!loop
<1>1. /\ UNCHANGED <<left, right, work, visited>>
      /\ walk = "join" /\ work # <<>> /\ Head(work).do \in {"join", "saturate"} /\ l \in matches
  BY DEF TopDown!CollectPair, TopDown!GiveUp, WalkOK, WalkTypes
<1>2. Outcome = "running"
  BY <1>1 DEF Outcome, TopDown!Outcome
<1>3. CASE TopDown!GiveUp
  <2>1. UNCHANGED <<left, right, strategy, product_pairs, rules, work, visited>> /\ walk' = "cancelled"
    BY <1>1, <1>3 DEF TopDown!GiveUp
  <2>2. Outcome' = "none"
    BY <2>1 DEF Outcome, TopDown!Outcome
  <2>. QED  BY <1>2, <2>1, <2>2, CoverStopped, PromiseEnds
<1>4. CASE ~TopDown!GiveUp
  <2>. DEFINE x == Head(work)
              r == Head(work).rule
              q == r.result
              pair == <<l.result, r.result>>
              ids == [i \in DOMAIN l.children |-> IdOf(<<l.children[i], r.children[i]>>)]
  <2>1. l \in left.rules /\ Joins(l, r) /\ \A i \in DOMAIN l.children : <<l.children[i], r.children[i]>> \in Pairs
    BY <1>1 DEF WalkOK, WalkTypes, MatchesOf
  <2>2. /\ r \in right.rules /\ q \in RightStates
        /\ x.do = "join" => q \notin Range(r.children)
        /\ x.do = "saturate" => x.position \in DOMAIN r.children /\ r.children[x.position] = q
    BY <1>1, RuleAtHead DEF WalkOK, ChartInv
  <2>3. TopDown!ChildrenKnown(l, r)
    BY <2>1, WalkPairs DEF TopDown!ChildrenKnown
  <2>4. /\ AddProductRule(l.symbol, ids, pair)
        /\ IF x.do = "saturate" /\ ~TopDown!Known(pair) /\ l.result \notin seen
             THEN agenda' = Append(agenda, l.result) ELSE agenda' = agenda
        /\ matches' = matches \ {l} /\ walk' = walk
    <3>1. TopDown!AddProductRule(l.symbol,
             [i \in DOMAIN l.children |-> TopDown!IdOf(<<l.children[i], r.children[i]>>)], pair)
      BY <1>4, <2>3 DEF TopDown!CollectPair
    <3>2. [i \in DOMAIN l.children |-> TopDown!IdOf(<<l.children[i], r.children[i]>>)] = ids
      BY WalkChart
    <3>3. AddProductRule(l.symbol, ids, pair)
      BY <3>1, <3>2, WalkChart
    <3>. QED  BY <1>4, <2>3, <3>3 DEF TopDown!CollectPair
  <2>5. l.symbol \in Symbols /\ l.result \in LeftStates /\ DOMAIN l.children = 1..Len(l.children) /\ Len(l.children) \in Nat
    BY <2>1, LeftRules DEF ChartInv
  <2>6. \A i \in DOMAIN l.children : /\ IdOf(<<l.children[i], r.children[i]>>) \in Ids
                                     /\ product_pairs[IdOf(<<l.children[i], r.children[i]>>)] = <<l.children[i], r.children[i]>>
    BY <2>1, IdOfKnown, IdsAreInterval
  <2>7. ids \in Seq(Ids) /\ pair \in LeftStates \X RightStates
    BY <2>2, <2>5, <2>6
  <2>8. ProductRule(l, r).children = [i \in DOMAIN ids |-> product_pairs[ids[i]]]
    <3>1. [i \in DOMAIN ids |-> product_pairs[ids[i]]] = [i \in DOMAIN l.children |-> <<l.children[i], r.children[i]>>]
      BY <2>6
    <3>. QED  BY <3>1 DEF ProductRule
  <2>9. x \in Range(work) /\ Joining(x) /\ x.rule = r /\ TopDown!Owner(x) = q
    <3>1. x \in Range(work)
      BY <1>1, TailFacts DEF WalkOK, StackOK
    <3>. QED  BY <1>1, <3>1, OwnersAre DEF Joining
  <2>10. r \in Contribution.rules
    <3>1. q \in TopDownStates(right)
      BY <2>9 DEF WalkCovers, Reaches
    <3>2. Contribution = TopDownPart(right)
      BY DEF Contribution, TopDownParts, ChartInv
    <3>. QED  BY <2>2, <3>1, <3>2 DEF TopDownPart
  <2>11. TopDown!Return(q) \in Range(work)
    <3>1. work \in Seq(TopDown!Steps) /\ Nested(work)
      BY DEF WalkOK, StackOK
    <3>2. Head(work) = work[1] /\ Len(work) \in Nat /\ 1 \in DOMAIN work /\ DOMAIN work = 1..Len(work)
      BY <1>1, <3>1, TailFacts
    <3>3. PICK j \in (1 + 1)..Len(work) : work[j] = TopDown!Return(q)
      BY <1>1, <3>1, <3>2 DEF Nested
    <3>4. j \in DOMAIN work
      BY <3>2
    <3>. QED  BY <3>3, <3>4 DEF Range
  <2>12. Outcome' = "running"
    BY <1>1, <2>4 DEF Outcome, TopDown!Outcome
  <2>13. l.result \in partners[q] => pair \in Pairs
    BY <2>2 DEF WalkOK, Agree
  <2>14. x.do = "saturate" => seen \subseteq partners[q]
    BY <1>1 DEF WalkOK
  <2>15. ASSUME NEW l2 \in left.rules, NEW r2 \in right.rules, Joins(l2, r2), NEW i \in DOMAIN l2.children
         PROVE  i \in DOMAIN r2.children
    <3>1. Len(l2.children) = Len(r2.children) /\ DOMAIN l2.children = 1..Len(l2.children)
      BY <2>15, LeftRules DEF ChartInv, Joins
    <3>2. DOMAIN r2.children = 1..Len(r2.children)
      BY RightRules DEF ChartInv, RightRulesOK
    <3>. QED  BY <3>1, <3>2
  <2>. HIDE DEF ids
  <2>16. [Promise!Next]_Promise!vars /\ Decoded' = Decoded \cup {ProductRule(l, r)}
    <3>. HIDE DEF r
    <3>. QED  BY <1>1, <1>2, <2>1, <2>4, <2>7, <2>8, <2>10, <2>12, PromiseAdds
  <2>17. Pairs' = Pairs \cup {pair}
    <3>. HIDE DEF pair
    <3>. QED  BY <1>1, <2>4, <2>5, <2>7, ChartGrows
  <2>. HIDE DEF x, r, q, pair
  <2>18. ASSUME NEW l2 \in left.rules, NEW r2 \in right.rules, Fits(l2, r2)', ~Fits(l2, r2)
         PROVE  \E i \in DOMAIN r2.children : i \in DOMAIN l2.children /\ l2.children[i] = l.result /\ r2.children[i] = q /\ pair \notin Pairs
    <3>1. Joins(l2, r2) /\ \A i \in DOMAIN l2.children : <<l2.children[i], r2.children[i]>> \in Pairs'
      BY <2>18 DEF Fits, Joins
    <3>2. PICK i \in DOMAIN l2.children : <<l2.children[i], r2.children[i]>> \notin Pairs
      BY <2>18, <3>1 DEF Fits
    <3>3. <<l2.children[i], r2.children[i]>> = pair
      BY <2>17, <3>1, <3>2
    <3>4. i \in DOMAIN r2.children
      BY <2>15, <3>1
    <3>. QED  BY <3>2, <3>3, <3>4 DEF pair, q
  <2>19. /\ \A r2 : Pending(r2)' <=> Pending(r2)
         /\ \A p : Returned(p)' <=> Returned(p)
    BY <1>1 DEF Pending, Joining, Returned, TopDown!Return
  <2>20. ASSUME NEW r2 \in right.rules, r2.result \in visited, ~Pending(r2), Complete(r2),
                \A c \in Range(r2.children) : c = r2.result \/ Returned(c)
         PROVE  Complete(r2)'
    <3>. SUFFICES ASSUME NEW l2 \in left.rules, Fits(l2, r2)' PROVE ProductRule(l2, r2) \in Decoded'
      BY <1>1 DEF Complete, ProductRule
    <3>1. CASE Fits(l2, r2)
      BY <2>16, <2>20, <3>1 DEF Complete
    <3>2. CASE ~Fits(l2, r2)
      <4>1. PICK i \in DOMAIN r2.children : r2.children[i] = q
        BY <2>18, <3>2
      <4>2. q \in Range(r2.children)
        BY <4>1 DEF Range
      <4>3. r2.result = q
        BY <2>11, <2>20, <4>2 DEF Returned
      <4>4. TopDown!IsLoop(r2)
        BY <4>2, <4>3, WalkSequences DEF TopDown!IsLoop
      <4>5. r2 # r
        BY <2>9, <2>20 DEF Pending
      <4>6. CASE x.do = "join"
        BY <2>9, <2>20, <4>3, <4>4, <4>6 DEF WalkCovers, LoopsAfter, q
      <4>7. CASE x.do = "saturate"
        BY <2>2, <4>1, <4>3, <4>5, <4>7 DEF WalkCovers, OneLoopStep, q
      <4>. QED  BY <1>1, <4>6, <4>7 DEF x
    <3>. QED  BY <3>1, <3>2
  <2>21. Walked'
    <3>. SUFFICES ASSUME NEW r2 \in right.rules, r2.result \in visited, ~Pending(r2)
                  PROVE  Complete(r2)' /\ \A c \in Range(r2.children) : c = r2.result \/ Returned(c)
      BY <1>1, <2>19 DEF Walked
    <3>. QED  BY <2>20 DEF WalkCovers, Walked
  <2>22. LoopsAfter' /\ LoopsLast(work)' /\ Fed(work, visited)' /\ OneLoopStep(right)'
    BY <1>1, <2>19 DEF WalkCovers, LoopsAfter, LoopsLast, Fed, OneLoopStep, TopDown!Visit, TopDown!IsLoop, TopDown!Range
  <2>23. Reaches'
    BY <1>1, <2>4 DEF WalkCovers, Reaches, TopDown!Visit, TopDown!Owner
  <2>24. /\ Range(agenda) \subseteq Range(agenda')
         /\ agenda' = Append(agenda, l.result) => l.result \in Range(agenda')
    <3>1. agenda \in Seq(seen) /\ agenda \in Seq(seen \cup {l.result})
      BY SeqWiden DEF WalkOK, WalkTypes
    <3>2. Len(agenda) \in Nat /\ DOMAIN agenda = 1..Len(agenda)
      BY <3>1
    <3>3. CASE agenda' = Append(agenda, l.result)
      <4>1. /\ DOMAIN agenda' = 1..(Len(agenda) + 1)
            /\ \A i \in 1..Len(agenda) : agenda'[i] = agenda[i]
            /\ agenda'[Len(agenda) + 1] = l.result
        BY <3>1, <3>3
      <4>2. Len(agenda) + 1 \in DOMAIN agenda' /\ \A i \in DOMAIN agenda : i \in DOMAIN agenda'
        BY <3>2, <4>1
      <4>. QED  BY <3>2, <4>1, <4>2 DEF Range
    <3>4. CASE agenda' = agenda
      <4>1. ASSUME agenda' = Append(agenda, l.result) PROVE l.result \in Range(agenda')
        <5>1. Len(Append(agenda, l.result)) = Len(agenda) + 1
          BY <3>1
        <5>. QED  BY <3>2, <3>4, <4>1, <5>1
      <4>. QED  BY <3>4, <4>1
    <3>. QED  BY <2>4, <3>3, <3>4
  <2>25. Trying'
    <3>1. PICK y : y = x
      OBVIOUS
    <3>2. y = Head(work) /\ y.rule = r /\ y.rule \in right.rules
      BY <2>2, <2>9, <3>1 DEF x
    <3>. SUFFICES ASSUME NEW l2 \in left.rules, Fits(l2, y.rule)' PROVE Awaited(l2, y)'
      BY <1>1, <3>2 DEF Trying
    <3>3. CASE Fits(l2, y.rule)
      <4>1. Awaited(l2, y)
        BY <1>1, <3>2, <3>3 DEF WalkCovers, Trying
      <4>2. CASE l2 = l
        BY <2>16, <3>2, <4>2 DEF Awaited, ProductRule
      <4>3. CASE l2 # l
        BY <1>1, <2>4, <2>16, <2>24, <4>1, <4>3 DEF Awaited, ProductRule
      <4>. QED  BY <4>2, <4>3
    <3>4. CASE ~Fits(l2, y.rule)
      <4>1. PICK i \in DOMAIN r.children : i \in DOMAIN l2.children /\ l2.children[i] = l.result /\ r.children[i] = q /\ pair \notin Pairs
        BY <2>18, <3>2, <3>4
      <4>2. x.do # "join"
        BY <2>2, <4>1 DEF Range
      <4>3. x.do = "saturate"
        BY <1>1, <4>2 DEF x
      <4>4. i = x.position
        BY <2>2, <4>1, <4>3 DEF WalkCovers, OneLoopStep, q
      <4>5. l.result \notin seen
        BY <2>13, <2>14, <4>1, <4>3
      <4>6. ~TopDown!Known(pair)
        BY <4>1, WalkPairs
      <4>7. l.result \in Range(agenda')
        BY <2>4, <2>24, <4>3, <4>5, <4>6
      <4>. QED  BY <3>1, <4>1, <4>3, <4>4, <4>7 DEF Awaited
    <3>. QED  BY <3>3, <3>4
  <2>. QED  BY <1>1, <2>4, <2>16, <2>21, <2>22, <2>23, <2>25 DEF WalkCovers
<1>. QED  BY <1>3, <1>4

(* When nothing is left to do, the chart is closed. *)
LEMMA CoverFinish ==
  ASSUME ChartInv, WalkOK, WalkCovers, TopDown!Finish, strategy = "top-down", strategy' = strategy
  PROVE  WalkCovers' /\ [Promise!Next]_Promise!vars
<1>. USE DEF TopDown!input, TopDown!chart, TopDown!loop
<1>1. /\ UNCHANGED <<left, right, product_pairs, rules, work, visited>>
      /\ walk = "visit" /\ work = <<>> /\ walk' \in {"cancelled", "done"}
  BY DEF TopDown!Finish
<1>2. WalkCovers'
  BY <1>1, CoverStopped
<1>3. Outcome = "running" /\ (walk' = "cancelled" => Outcome' = "none") /\ (walk' = "done" => Outcome' = "chart")
  BY <1>1 DEF Outcome, TopDown!Outcome
<1>4. Range(work) = {}
  BY <1>1 DEF Range
<1>5. \A r \in right.rules : r.result \in visited => Complete(r) /\ Range(r.children) \subseteq visited
  BY <1>4 DEF WalkCovers, Walked, Pending, Returned
<1>6. TopDownStates(right) \subseteq visited
  <2>1. right \in Rights /\ right.accepting \subseteq visited
    BY <1>1, <1>4 DEF ChartInv, WalkCovers, Reaches
  <2>. QED  BY <1>5, <2>1, TopDownStatesAre
<1>7. HasAll(Contribution)
  <2>1. Contribution = TopDownPart(right)
    BY DEF Contribution, TopDownParts, ChartInv
  <2>. SUFFICES ASSUME NEW l \in left.rules, NEW r \in right.rules, r.result \in TopDownStates(right),
                       Joins(l, r), Range(ProductRule(l, r).children) \subseteq Pairs
                PROVE  ProductRule(l, r) \in Decoded
    BY <2>1 DEF HasAll, TopDownPart
  <2>2. \A i \in DOMAIN l.children : <<l.children[i], r.children[i]>> \in Range(ProductRule(l, r).children)
    BY DEF ProductRule, Range
  <2>. QED  BY <1>5, <1>6, <2>2 DEF Complete, Fits
<1>. QED  BY <1>1, <1>2, <1>3, <1>7, PromiseEnds

LEMMA CoverWorks ==
  ASSUME ChartInv, WalkOK, FallsSafe, WalkCovers, TopDown!Work, strategy = "top-down", strategy' = strategy
  PROVE  WalkCovers' /\ [Promise!Next]_Promise!vars
<1>. USE DEF TopDown!input, TopDown!chart, TopDown!loop
<1>1. CASE \E l \in matches : TopDown!CollectPair(l)
  BY <1>1, CoverCollectPair
<1>2. CASE TopDown!Finish
  BY <1>2, CoverFinish
<1>3. CASE TopDown!Start \/ TopDown!EnterVisit \/ TopDown!TryPartner
  <2>1. WalkCovers'
    BY <1>3, CoverStart, CoverEnterVisit, CoverTryPartner
  <2>2. /\ UNCHANGED <<left, right, strategy, product_pairs, rules>>
        /\ walk \in {"start", "visit", "saturate"} /\ walk' \in {"cancelled", "visit", "join"}
    BY <1>3 DEF TopDown!Start, TopDown!EnterVisit, TopDown!Doing, TopDown!TryPartner, TopDown!GiveUp
  <2>3. Outcome = "running" /\ Outcome' \in {"running", "none"}
    BY <2>2 DEF Outcome, TopDown!Outcome
  <2>. QED  BY <2>1, <2>2, <2>3, PromiseKept, PromiseEnds
<1>4. CASE \/ TopDown!ReturnFromVisit \/ TopDown!JoinNormalRule \/ TopDown!StartSaturation
           \/ TopDown!EndJoin \/ TopDown!EndSaturation
  <2>1. WalkCovers'
    BY <1>4, CoverReturn, CoverJoin, CoverStartSaturation, CoverEndJoin, CoverEndSaturation
  <2>2. /\ UNCHANGED <<left, right, strategy, product_pairs, rules>>
        /\ walk \in {"visit", "saturate", "join"} /\ walk' \in {"visit", "saturate", "join"}
    BY <1>4 DEF TopDown!ReturnFromVisit, TopDown!Doing, TopDown!JoinNormalRule, TopDown!StartSaturation,
                TopDown!EndJoin, TopDown!EndSaturation
  <2>3. Outcome' = Outcome
    BY <2>2 DEF Outcome, TopDown!Outcome
  <2>. QED  BY <2>1, <2>2, <2>3, PromiseKept
<1>. QED  BY <1>1, <1>2, <1>3, <1>4 DEF TopDown!Work

(* What the top-down jobs walk has at most one loop at each state.          *)
TopDownLoopsOneStep == \A job \in Jobs : job.strategy = "top-down" => OneLoopStep(ImagesByParent[job.input])

TopDownSafe == strategy = "top-down" => FallsSafe /\ WalkCovers

LEMMA TopDownInit ==
  ASSUME TopDownOnlyLoops, TopDownLoopsOneStep, Init
  PROVE  TopDownSafe
<1>. SUFFICES ASSUME strategy = "top-down" PROVE WalkCovers
  BY FallsInit DEF TopDownSafe
<1>1. OneLoopStep(right) /\ walk = "start" /\ work = <<>> /\ visited = {}
  BY DEF Init, TopDown!Init, TopDownLoopsOneStep
<1>2. Range(work) = {} /\ DOMAIN work = {}
  BY <1>1 DEF Range
<1>. QED  BY <1>1, <1>2 DEF WalkCovers, Walked, LoopsAfter, LoopsLast, Fed, Reaches, Trying

LEMMA TopDownStep ==
  ASSUME WalkSafe, TopDownSafe, [Next]_vars
  PROVE  TopDownSafe' /\ (strategy = "top-down" => [Promise!Next]_Promise!vars)
<1>1. strategy' = strategy
  BY DEF Next, vars, ParseTopDown, ParseWithSiblings, FilterChart, MaterializeLazily, Cancel
<1>. SUFFICES ASSUME strategy = "top-down" PROVE FallsSafe' /\ WalkCovers' /\ [Promise!Next]_Promise!vars
  BY <1>1 DEF TopDownSafe
<1>2. ChartInv /\ WalkOK /\ FallsSafe /\ WalkCovers
  BY DEF WalkSafe, TopDownSafe
<1>3. FallsSafe'
  BY <1>1, <1>2, FallsStep
<1>4. CASE TopDown!Work
  BY <1>1, <1>2, <1>3, <1>4, CoverWorks
<1>5. CASE Cancel \/ UNCHANGED vars
  <2>1. UNCHANGED <<left, right, product_pairs, rules, walk, work, visited, matches, agenda>>
    BY <1>5 DEF Cancel, vars, walk_vars, Sibling!Cancel, Sibling!input, Sibling!chart
  <2>2. Outcome' = Outcome
    BY <1>1, <2>1 DEF Outcome, TopDown!Outcome
  <2>. QED  BY <1>1, <1>2, <1>3, <2>1, <2>2, CoverKept, PromiseKept
<1>. QED  BY <1>4, <1>5 DEF Next, ParseTopDown, ParseWithSiblings, FilterChart, MaterializeLazily

=============================================================================
