----------------------- MODULE ParsingStrategies_proofs -----------------------
(***************************************************************************)
(* What holds of every parse, for all automata, homomorphisms and jobs and *)
(* under cancellation at any moment.                                       *)
(***************************************************************************)
EXTENDS ParsingStrategies, FiniteSetTheorems, WellFoundedInduction, TLAPS

-----------------------------------------------------------------------------
(* The chart that all strategies build.                                     *)

(* The operators that the strategies bring along are those of Chart.        *)
LEMMA WalkChart ==
  /\ TopDown!Ids = Ids
  /\ \A pair : TopDown!Known(pair) <=> Known(pair)
  /\ \A pair : TopDown!IdOf(pair) = IdOf(pair)
  /\ \A symbol, children, pair :
        TopDown!AddProductRule(symbol, children, pair) <=> AddProductRule(symbol, children, pair)
<1>1. TopDown!Ids = Ids
  BY DEF TopDown!Ids, Ids
<1>2. \A pair : TopDown!Known(pair) <=> Known(pair)
  BY <1>1 DEF TopDown!Known, Known
<1>3. \A pair : TopDown!IdOf(pair) = IdOf(pair)
  BY <1>1 DEF TopDown!IdOf, IdOf
<1>4. \A symbol, children, pair :
        TopDown!AddProductRule(symbol, children, pair) <=> AddProductRule(symbol, children, pair)
  BY <1>2, <1>3 DEF TopDown!AddProductRule, AddProductRule, TopDown!ProductId, ProductId,
                    TopDown!AcceptingPairs, AcceptingPairs
<1>. QED  BY <1>1, <1>2, <1>3, <1>4

LEMMA SiblingChart ==
  /\ Sibling!Ids = Ids
  /\ \A pair : Sibling!Known(pair) <=> Known(pair)
  /\ \A pair : Sibling!IdOf(pair) = IdOf(pair)
  /\ \A symbol, children, pair :
        Sibling!AddProductRule(symbol, children, pair) <=> AddProductRule(symbol, children, pair)
<1>1. Sibling!Ids = Ids
  BY DEF Sibling!Ids, Ids
<1>2. \A pair : Sibling!Known(pair) <=> Known(pair)
  BY <1>1 DEF Sibling!Known, Known
<1>3. \A pair : Sibling!IdOf(pair) = IdOf(pair)
  BY <1>1 DEF Sibling!IdOf, IdOf
<1>4. \A symbol, children, pair :
        Sibling!AddProductRule(symbol, children, pair) <=> AddProductRule(symbol, children, pair)
  BY <1>2, <1>3 DEF Sibling!AddProductRule, AddProductRule, Sibling!ProductId, ProductId,
                    Sibling!AcceptingPairs, AcceptingPairs
<1>. QED  BY <1>1, <1>2, <1>3, <1>4

LEMMA FilteredChart ==
  /\ Filter!Ids = Ids
  /\ \A pair : Filter!Known(pair) <=> Known(pair)
  /\ \A pair : Filter!IdOf(pair) = IdOf(pair)
  /\ \A symbol, children, pair :
        Filter!AddProductRule(symbol, children, pair) <=> AddProductRule(symbol, children, pair)
<1>1. Filter!Ids = Ids
  BY DEF Filter!Ids, Ids
<1>2. \A pair : Filter!Known(pair) <=> Known(pair)
  BY <1>1 DEF Filter!Known, Known
<1>3. \A pair : Filter!IdOf(pair) = IdOf(pair)
  BY <1>1 DEF Filter!IdOf, IdOf
<1>4. \A symbol, children, pair :
        Filter!AddProductRule(symbol, children, pair) <=> AddProductRule(symbol, children, pair)
  BY <1>2, <1>3 DEF Filter!AddProductRule, AddProductRule, Filter!ProductId, ProductId,
                    Filter!AcceptingPairs, AcceptingPairs
<1>. QED  BY <1>1, <1>2, <1>3, <1>4

LEMMA MemoChart ==
  /\ Lazy!Ids = Ids
  /\ \A pair : Lazy!Known(pair) <=> Known(pair)
  /\ \A pair : Lazy!ProductId(pair) = ProductId(pair)
  /\ \A symbol, children, pair :
        Lazy!AddProductRule(symbol, children, pair) <=> AddProductRule(symbol, children, pair)
<1>1. Lazy!Ids = Ids
  BY DEF Lazy!Ids, Ids
<1>2. \A pair : Lazy!Known(pair) <=> Known(pair)
  BY <1>1 DEF Lazy!Known, Known
<1>3. \A pair : Lazy!ProductId(pair) = ProductId(pair)
  BY <1>1, <1>2 DEF Lazy!ProductId, ProductId, Lazy!IdOf, IdOf
<1>4. \A symbol, children, pair :
        Lazy!AddProductRule(symbol, children, pair) <=> AddProductRule(symbol, children, pair)
  BY <1>2, <1>3 DEF Lazy!AddProductRule, AddProductRule, Lazy!AcceptingPairs, AcceptingPairs
<1>. QED  BY <1>1, <1>2, <1>3, <1>4

(* The shape of every chart.  The values that evaluation gives in the lazy  *)
(* product are left open.                                                   *)
ChartInv ==
    /\ left \in Lefts /\ right \in Rights
    /\ product_pairs \in Seq(Pairs)
    /\ strategy # "lazy" => Pairs \subseteq LeftStates \X RightStates
    /\ \A i, j \in Ids : product_pairs[i] = product_pairs[j] => i = j
    /\ accepting \subseteq Ids
    /\ rules \subseteq [symbol : Symbols, children : Seq(Ids), parent : Ids]
    /\ duplicate \in BOOLEAN
    /\ WellFounded

LEMMA IdsAreInterval ==
  ASSUME ChartInv
  PROVE  /\ Len(product_pairs) \in Nat
         /\ Ids = 1..Len(product_pairs)
         /\ \A pair : Known(pair) <=> pair \in Pairs
BY DEF ChartInv, Ids, Known, Pairs

LEMMA IdOfKnown ==
  ASSUME NEW pair, Known(pair)
  PROVE  IdOf(pair) \in Ids /\ product_pairs[IdOf(pair)] = pair
BY DEF Known, IdOf

LEMMA SeqWiden ==
  ASSUME NEW S, NEW T, S \subseteq T, NEW s \in Seq(S)
  PROVE  s \in Seq(T)
<1>1. Len(s) \in Nat /\ DOMAIN s = 1..Len(s)
  OBVIOUS
<1>2. \A i \in 1..Len(s) : s[i] \in T
  OBVIOUS
<1>. QED  BY <1>1, <1>2, SMT

(* What a rule adds to the chart. *)
LEMMA ChartGrows ==
  ASSUME ChartInv, NEW symbol \in Symbols, NEW children \in Seq(Ids), NEW pair,
         AddProductRule(symbol, children, pair),
         strategy # "lazy" => pair \in LeftStates \X RightStates,
         left' = left, right' = right, strategy' = strategy
  PROVE  /\ ChartInv'
         /\ Ids \subseteq Ids'
         /\ \A i \in Ids : product_pairs'[i] = product_pairs[i]
         /\ Pairs' = Pairs \cup {pair}
         /\ \E parent \in Ids' :
               /\ product_pairs'[parent] = pair
               /\ parent \in Ids <=> Known(pair)
               /\ parent = ProductId(pair)
               /\ rules' = rules \cup {[symbol |-> symbol, children |-> children, parent |-> parent]}
               /\ duplicate' = (duplicate \/ [symbol |-> symbol, children |-> children, parent |-> parent] \in rules)
<1>. DEFINE parent == ProductId(pair)
            rule == [symbol |-> symbol, children |-> children, parent |-> parent]
<1>1. Len(product_pairs) \in Nat /\ Ids = 1..Len(product_pairs)
  BY IdsAreInterval
<1>2. /\ product_pairs' = IF ~Known(pair) THEN Append(product_pairs, pair) ELSE product_pairs
      /\ rules' = rules \cup {rule}
      /\ duplicate' = (duplicate \/ rule \in rules)
      /\ accepting' \subseteq accepting \cup {parent}
  BY DEF AddProductRule
<1>3. /\ Ids \subseteq Ids'
      /\ \A i \in Ids : product_pairs'[i] = product_pairs[i]
      /\ parent \in Ids' /\ product_pairs'[parent] = pair
      /\ parent \in Ids <=> Known(pair)
      /\ Ids' = Ids \cup {parent}
      /\ product_pairs' \in Seq(Pairs \cup {pair})
      /\ \A i \in Ids : i < parent \/ Known(pair)
  <2>1. CASE Known(pair)
    <3>1. product_pairs' = product_pairs /\ Ids' = Ids
      BY <1>2, <2>1 DEF Ids
    <3>2. parent = IdOf(pair)
      BY <2>1 DEF ProductId
    <3>3. parent \in Ids /\ product_pairs[parent] = pair
      BY <2>1, <3>2, IdOfKnown
    <3>4. product_pairs \in Seq(Pairs \cup {pair})
      BY SeqWiden DEF ChartInv
    <3>. QED  BY <2>1, <3>1, <3>3, <3>4
  <2>2. CASE ~Known(pair)
    <3>1. product_pairs' = Append(product_pairs, pair)
      BY <1>2, <2>2
    <3>2. parent = Len(product_pairs) + 1
      BY <2>2 DEF ProductId
    <3>3. product_pairs \in Seq(Pairs \cup {pair}) /\ pair \in Pairs \cup {pair}
      BY SeqWiden DEF ChartInv
    <3>4. /\ product_pairs' \in Seq(Pairs \cup {pair})
          /\ Len(product_pairs') = Len(product_pairs) + 1
          /\ \A i \in 1..Len(product_pairs) : product_pairs'[i] = product_pairs[i]
          /\ product_pairs'[Len(product_pairs) + 1] = pair
      BY <3>1, <3>3
    <3>5. Ids' = 1..(Len(product_pairs) + 1)
      BY <3>4 DEF Ids
    <3>. QED  BY <1>1, <2>2, <3>2, <3>4, <3>5
  <2>. QED  BY <2>1, <2>2
<1>4. Pairs' = Pairs \cup {pair}
  <2>1. Pairs' = {product_pairs'[i] : i \in Ids'}
    BY DEF Pairs
  <2>2. Pairs = {product_pairs[i] : i \in Ids}
    BY DEF Pairs
  <2>. HIDE DEF parent
  <2>. QED  BY ONLY <1>3, <2>1, <2>2
<1>5. \A i, j \in Ids' : product_pairs'[i] = product_pairs'[j] => i = j
  <2>1. \A i, j \in Ids : product_pairs[i] = product_pairs[j] => i = j
    BY DEF ChartInv
  <2>2. \A i \in Ids : product_pairs[i] = pair => parent \in Ids
    BY <1>3 DEF Known
  <2>. HIDE DEF parent
  <2>. QED  BY <1>3, <2>1, <2>2
<1>6. rules' \subseteq [symbol : Symbols, children : Seq(Ids'), parent : Ids']
  <2>1. \A x \in rules : x \in [symbol : Symbols, children : Seq(Ids'), parent : Ids']
    BY <1>3, SeqWiden DEF ChartInv
  <2>2. children \in Seq(Ids')
    BY <1>3, SeqWiden
  <2>3. rule \in [symbol : Symbols, children : Seq(Ids'), parent : Ids']
    BY <1>3, <2>2
  <2>. HIDE DEF rule
  <2>. QED  BY <1>2, <2>1, <2>3
<1>7. WellFounded'
  <2>. SUFFICES ASSUME NEW i \in Ids'
                PROVE  \E x \in rules' : x.parent = i /\ \A c \in DOMAIN x.children : x.children[c] < i
    BY DEF WellFounded
  <2>1. CASE i \in Ids
    BY <1>2, <2>1 DEF ChartInv, WellFounded
  <2>2. CASE i \notin Ids
    <3>1. i = parent /\ ~Known(pair)
      BY <1>3, <2>2
    <3>2. rule \in rules' /\ rule.parent = parent /\ rule.children = children
      BY <1>2
    <3>3. \A c \in DOMAIN children : children[c] \in Ids
      OBVIOUS
    <3>. HIDE DEF rule, parent
    <3>. QED  BY <1>3, <3>1, <3>2, <3>3
  <2>. QED  BY <2>1, <2>2
<1>8. ChartInv'
  <2>1. accepting' \subseteq Ids' /\ duplicate' \in BOOLEAN
    BY <1>2, <1>3 DEF ChartInv
  <2>2. strategy' # "lazy" => Pairs' \subseteq LeftStates \X RightStates
    BY <1>4 DEF ChartInv
  <2>3. left' \in Lefts /\ right' \in Rights /\ product_pairs' \in Seq(Pairs')
    BY <1>3, <1>4 DEF ChartInv
  <2>. QED  BY <1>5, <1>6, <1>7, <2>1, <2>2, <2>3 DEF ChartInv
<1>. QED  BY <1>2, <1>3, <1>4, <1>8

(* A step that does not touch the chart. *)
LEMMA ChartKept ==
  ASSUME ChartInv, UNCHANGED <<left, right, strategy, product_pairs, accepting, rules, duplicate>>
  PROVE  /\ ChartInv'
         /\ Ids' = Ids /\ Pairs' = Pairs
         /\ \A pair : Known(pair)' <=> Known(pair)
         /\ WellFounded' <=> WellFounded
BY DEF ChartInv, Ids, Pairs, Known, WellFounded

-----------------------------------------------------------------------------
(* Sequences. *)

LEMMA LeastElement ==
  ASSUME NEW T, T \subseteq Nat, T # {}
  PROVE  \E m \in T : \A k \in T : m <= k
<1>1. PICK m \in T : \A k \in T : ~(<<k, m>> \in OpToRel(<, Nat))
  BY NatLessThanWellFounded, WFMin
<1>2. \A k \in T : k \in Nat /\ m \in Nat
  OBVIOUS
<1>3. \A k \in T : ~(k < m)
  BY <1>1, <1>2, Zenon DEF OpToRel
<1>. QED  BY <1>2, <1>3

(* Induction with a set, which the provers can instantiate. *)
LEMMA SetInduction ==
  ASSUME NEW T, 0 \in T, \A n \in Nat : n \in T => n + 1 \in T
  PROVE  Nat \subseteq T
<1>. SUFFICES ASSUME Nat \ T # {} PROVE FALSE
  OBVIOUS
<1>1. PICK m \in Nat \ T : \A k \in Nat \ T : m <= k
  BY LeastElement
<1>2. m # 0 /\ m - 1 \in Nat /\ ~(m <= m - 1)
  BY <1>1
<1>3. m - 1 \in T
  BY <1>1, <1>2
<1>4. (m - 1) + 1 \in T
  BY <1>2, <1>3
<1>. QED  BY <1>1, <1>4

LEMMA SeqFacts ==
  ASSUME NEW T, NEW s \in Seq(T)
  PROVE  /\ Len(s) \in Nat /\ DOMAIN s = 1..Len(s)
         /\ \A i \in 1..Len(s) : s[i] \in T
         /\ Range(s) = {s[i] : i \in 1..Len(s)}
BY DEF Range

LEMMA ConcatRange ==
  ASSUME NEW T, NEW s \in Seq(T), NEW t \in Seq(T)
  PROVE  /\ s \o t \in Seq(T) /\ Len(s \o t) = Len(s) + Len(t)
         /\ Range(s \o t) = Range(s) \cup Range(t)
         /\ \A i \in 1..Len(s) : (s \o t)[i] = s[i]
         /\ \A i \in 1..Len(t) : (s \o t)[i + Len(s)] = t[i]
<1>1. /\ s \o t \in Seq(T) /\ Len(s \o t) = Len(s) + Len(t)
      /\ \A i \in 1..(Len(s) + Len(t)) : (s \o t)[i] = IF i <= Len(s) THEN s[i] ELSE t[i - Len(s)]
  OBVIOUS
<1>2. Len(s) \in Nat /\ Len(t) \in Nat
  OBVIOUS
<1>3. \A i \in 1..Len(s) : i \in 1..(Len(s) + Len(t)) /\ (s \o t)[i] = s[i]
  BY <1>1, <1>2
<1>4. \A i \in 1..Len(t) : i + Len(s) \in 1..(Len(s) + Len(t)) /\ (s \o t)[i + Len(s)] = t[i]
  BY <1>1, <1>2
<1>5. \A i \in 1..(Len(s) + Len(t)) : \/ i \in 1..Len(s) /\ (s \o t)[i] = s[i]
                                      \/ i - Len(s) \in 1..Len(t) /\ (s \o t)[i] = t[i - Len(s)]
  BY <1>1, <1>2
<1>6. /\ Range(s) = {s[i] : i \in 1..Len(s)} /\ Range(t) = {t[i] : i \in 1..Len(t)}
      /\ Range(s \o t) = {(s \o t)[i] : i \in 1..(Len(s) + Len(t))}
  BY <1>1 DEF Range
<1>7. Range(s \o t) \subseteq Range(s) \cup Range(t)
  BY <1>5, <1>6
<1>8. Range(s) \subseteq Range(s \o t)
  BY <1>3, <1>6
<1>9. Range(t) \subseteq Range(s \o t)
  <2>. SUFFICES ASSUME NEW i \in 1..Len(t) PROVE t[i] \in Range(s \o t)
    BY <1>6
  <2>. QED  BY <1>4, <1>6
<1>. QED  BY <1>1, <1>3, <1>4, <1>7, <1>8, <1>9

(* FlattenSeq appends one sequence after the other. *)
LEMMA FlattenIs ==
  ASSUME NEW T, NEW seqs \in Seq(Seq(T)), Len(seqs) # 0
  PROVE  \E f : /\ FlattenSeq(seqs) = f[Len(seqs)]
                /\ f[1] = seqs[1]
                /\ \A n \in 1..Len(seqs) : n # 1 => f[n] = f[n - 1] \o seqs[n]
<1>. DEFINE len == Len(seqs)
            Defines(f, m) == f = [i \in 1..m |-> IF i = 1 THEN seqs[i] ELSE f[i - 1] \o seqs[i]]
            U == {m \in Nat : \E f : Defines(f, m)}
<1>0. len \in Nat
  OBVIOUS
<1>1. 0 \in U
  <2>. DEFINE g == [i \in 1..0 |-> seqs[1]]
  <2>1. Defines(g, 0)
    OBVIOUS
  <2>. QED  BY <2>1
<1>2. ASSUME NEW m \in Nat, m \in U PROVE m + 1 \in U
  <2>1. PICK f : Defines(f, m)
    BY <1>2
  <2>. DEFINE g == [i \in 1..(m + 1) |-> IF i = m + 1
                                          THEN IF m = 0 THEN seqs[1] ELSE f[m] \o seqs[m + 1]
                                          ELSE f[i]]
  <2>2. ASSUME NEW i \in 1..(m + 1)
        PROVE  g[i] = IF i = 1 THEN seqs[i] ELSE g[i - 1] \o seqs[i]
    <3>1. CASE i = m + 1 /\ m = 0
      BY <3>1
    <3>2. CASE i = m + 1 /\ m # 0
      <4>1. i # 1 /\ i - 1 = m /\ m \in 1..(m + 1) /\ m # m + 1
        BY <3>2
      <4>. QED  BY <3>2, <4>1
    <3>3. CASE i # m + 1
      <4>1. i \in 1..m /\ (i # 1 => i - 1 \in 1..(m + 1) /\ i - 1 # m + 1 /\ i - 1 \in 1..m)
        BY <3>3
      <4>2. f[i] = IF i = 1 THEN seqs[i] ELSE f[i - 1] \o seqs[i]
        BY <2>1, <4>1
      <4>. QED  BY <3>3, <4>1, <4>2
    <3>. QED  BY <3>1, <3>2, <3>3
  <2>3. Defines(g, m + 1)
    BY <2>2
  <2>. HIDE DEF g, Defines
  <2>. QED  BY <2>3
<1>3. Nat \subseteq U
  <2>. HIDE DEF U
  <2>. QED  BY <1>1, <1>2, SetInduction
<1>4. \E f : Defines(f, len)
  <2>. HIDE DEF Defines, len
  <2>. QED  BY <1>0, <1>3
<1>. DEFINE f == CHOOSE f : Defines(f, len)
<1>5. FlattenSeq(seqs) = f[len]
  BY DEF FlattenSeq
<1>6. Defines(f, len)
  <2>. HIDE DEF Defines
  <2>. QED  BY <1>4
<1>. HIDE DEF f
<1>7. \A n \in 1..len : f[n] = IF n = 1 THEN seqs[n] ELSE f[n - 1] \o seqs[n]
  BY <1>6
<1>8. 1 \in 1..len
  BY <1>0
<1>9. f[1] = seqs[1] /\ \A n \in 1..len : n # 1 => f[n] = f[n - 1] \o seqs[n]
  <2>. HIDE DEF len
  <2>. QED  BY <1>7, <1>8
<1>. QED  BY <1>5, <1>9

(* The steps other than visits are there once. *)
Own(s) == {x \in Range(s) : x.do # "visit"}

Once(s) == \A i, j \in DOMAIN s : s[i] = s[j] /\ s[i].do # "visit" => i = j

LEMMA ConcatOnce ==
  ASSUME NEW T, NEW s \in Seq(T), NEW t \in Seq(T), Once(s), Once(t), Own(s) \cap Own(t) = {}
  PROVE  Once(s \o t) /\ Own(s \o t) = Own(s) \cup Own(t)
<1>. DEFINE m == Len(s)
            n == Len(t)
<1>1. /\ m \in Nat /\ n \in Nat /\ DOMAIN s = 1..m /\ DOMAIN t = 1..n
      /\ DOMAIN (s \o t) = 1..(m + n)
      /\ \A i \in 1..(m + n) : (s \o t)[i] = IF i <= m THEN s[i] ELSE t[i - m]
  OBVIOUS
<1>2. \A i \in 1..m : s[i] \in Range(s)
  BY <1>1 DEF Range
<1>3. \A i \in 1..n : t[i] \in Range(t)
  BY <1>1 DEF Range
<1>. HIDE DEF m, n
<1>4. ASSUME NEW i \in 1..(m + n), NEW j \in 1..(m + n), (s \o t)[i] = (s \o t)[j], (s \o t)[i].do # "visit"
      PROVE  i = j
  <2>1. CASE i <= m /\ j <= m
    BY <1>1, <1>4, <2>1 DEF Once
  <2>2. CASE i <= m /\ ~(j <= m)
    <3>1. /\ i \in 1..m /\ j - m \in 1..n
          /\ s[i] = t[j - m] /\ s[i].do # "visit"
      BY <1>1, <1>4, <2>2
    <3>. QED  BY <1>2, <1>3, <3>1 DEF Own
  <2>3. CASE ~(i <= m) /\ j <= m
    <3>1. /\ j \in 1..m /\ i - m \in 1..n
          /\ s[j] = t[i - m] /\ s[j].do # "visit"
      BY <1>1, <1>4, <2>3
    <3>. QED  BY <1>2, <1>3, <3>1 DEF Own
  <2>4. CASE ~(i <= m) /\ ~(j <= m)
    <3>1. /\ i - m \in 1..n /\ j - m \in 1..n
          /\ t[i - m] = t[j - m] /\ t[i - m].do # "visit"
      BY <1>1, <1>4, <2>4
    <3>2. i - m = j - m
      BY <1>1, <3>1 DEF Once
    <3>. QED  BY <1>1, <3>2
  <2>. QED  BY <2>1, <2>2, <2>3, <2>4
<1>5. Range(s \o t) = Range(s) \cup Range(t)
  BY ConcatRange
<1>. QED  BY <1>1, <1>4, <1>5 DEF Once, Own

(* A join comes after visits of all children of its rule. *)
Led(s) ==
    \A i \in DOMAIN s : s[i].do = "join" =>
        \A c \in Range(s[i].rule.children) : \E k \in 1..(i - 1) : s[k] = TopDown!Visit(c)

LEMMA ConcatLed ==
  ASSUME NEW T, NEW s \in Seq(T), NEW t \in Seq(T), Led(s), Led(t)
  PROVE  Led(s \o t)
<1>. DEFINE m == Len(s)
            n == Len(t)
<1>1. /\ m \in Nat /\ n \in Nat /\ DOMAIN s = 1..m /\ DOMAIN t = 1..n
      /\ DOMAIN (s \o t) = 1..(m + n)
      /\ \A i \in 1..(m + n) : (s \o t)[i] = IF i <= m THEN s[i] ELSE t[i - m]
  OBVIOUS
<1>. HIDE DEF m, n
<1>. SUFFICES ASSUME NEW i \in 1..(m + n), (s \o t)[i].do = "join",
                     NEW c \in Range((s \o t)[i].rule.children)
              PROVE  \E k \in 1..(i - 1) : (s \o t)[k] = TopDown!Visit(c)
  BY <1>1 DEF Led
<1>2. CASE i <= m
  <2>1. i \in 1..m /\ (s \o t)[i] = s[i]
    BY <1>1, <1>2
  <2>2. PICK k \in 1..(i - 1) : s[k] = TopDown!Visit(c)
    BY <1>1, <2>1 DEF Led
  <2>3. k \in 1..(m + n) /\ k <= m
    BY <1>1, <1>2
  <2>. QED  BY <1>1, <2>2, <2>3
<1>3. CASE ~(i <= m)
  <2>1. i - m \in 1..n /\ (s \o t)[i] = t[i - m]
    BY <1>1, <1>3
  <2>2. PICK k \in 1..((i - m) - 1) : t[k] = TopDown!Visit(c)
    BY <1>1, <2>1 DEF Led
  <2>3. k + m \in 1..(i - 1) /\ k + m \in 1..(m + n) /\ ~(k + m <= m) /\ (k + m) - m = k
    BY <1>1, <1>3
  <2>4. (s \o t)[k + m] = TopDown!Visit(c)
    BY <1>1, <2>2, <2>3
  <2>. QED  BY <2>3, <2>4
<1>. QED  BY <1>2, <1>3

LEMMA ConcatSteps ==
  ASSUME NEW T, NEW s \in Seq(T), NEW t \in Seq(T), Once(s), Once(t), Led(s), Led(t), Own(s) \cap Own(t) = {}
  PROVE  /\ s \o t \in Seq(T) /\ Once(s \o t) /\ Led(s \o t)
         /\ Range(s \o t) = Range(s) \cup Range(t)
         /\ Own(s \o t) = Own(s) \cup Own(t)
         /\ Len(s \o t) = Len(s) + Len(t)
         /\ \A i \in 1..Len(t) : (s \o t)[i + Len(s)] = t[i]
<1>1. Once(s \o t) /\ Own(s \o t) = Own(s) \cup Own(t)
  BY ConcatOnce
<1>2. Led(s \o t)
  BY ConcatLed
<1>3. /\ s \o t \in Seq(T) /\ Len(s \o t) = Len(s) + Len(t)
      /\ Range(s \o t) = Range(s) \cup Range(t)
      /\ \A i \in 1..Len(t) : (s \o t)[i + Len(s)] = t[i]
  BY ConcatRange
<1>. QED  BY <1>1, <1>2, <1>3

Apart(A, B, C, D, T) ==
    /\ A \in Seq(T) /\ B \in Seq(T) /\ C \in Seq(T) /\ D \in Seq(T)
    /\ Once(A) /\ Led(A) /\ Once(B) /\ Led(B) /\ Once(C) /\ Led(C) /\ Once(D) /\ Led(D)
    /\ Own(A) \cap Own(B) = {} /\ Own(A) \cap Own(C) = {} /\ Own(B) \cap Own(C) = {}
    /\ Own(A) \cap Own(D) = {} /\ Own(B) \cap Own(D) = {} /\ Own(C) \cap Own(D) = {}

Joined(s, A, B, C, D, T) ==
    /\ s \in Seq(T) /\ Once(s) /\ Led(s)
    /\ Range(s) = Range(A) \cup Range(B) \cup Range(C) \cup Range(D)
    /\ Len(s) = Len((A \o B) \o C) + Len(D) /\ Len((A \o B) \o C) \in Nat
    /\ \A i \in 1..Len(D) : s[i + Len((A \o B) \o C)] = D[i]

LEMMA ConcatFour ==
  ASSUME NEW T, NEW A, NEW B, NEW C, NEW D, Apart(A, B, C, D, T), NEW s, s = ((A \o B) \o C) \o D
  PROVE  Joined(s, A, B, C, D, T)
<1>. DEFINE AB == A \o B
            ABC == AB \o C
<1>1. AB \in Seq(T) /\ Once(AB) /\ Led(AB) /\ Range(AB) = Range(A) \cup Range(B) /\ Own(AB) = Own(A) \cup Own(B)
  BY ConcatSteps DEF Apart
<1>. HIDE DEF AB
<1>2. /\ ABC \in Seq(T) /\ Once(ABC) /\ Led(ABC)
      /\ Range(ABC) = Range(AB) \cup Range(C) /\ Own(ABC) = Own(AB) \cup Own(C)
  <2>1. Own(AB) \cap Own(C) = {} /\ C \in Seq(T) /\ Once(C) /\ Led(C)
    BY <1>1 DEF Apart
  <2>. QED  BY <1>1, <2>1, ConcatSteps
<1>. HIDE DEF ABC
<1>3. /\ ABC \o D \in Seq(T) /\ Once(ABC \o D) /\ Led(ABC \o D)
      /\ Range(ABC \o D) = Range(ABC) \cup Range(D)
      /\ Len(ABC \o D) = Len(ABC) + Len(D)
      /\ \A i \in 1..Len(D) : (ABC \o D)[i + Len(ABC)] = D[i]
  <2>1. Own(ABC) \cap Own(D) = {} /\ D \in Seq(T) /\ Once(D) /\ Led(D)
    BY <1>1, <1>2 DEF Apart
  <2>. QED  BY <1>2, <2>1, ConcatSteps
<1>4. s = ABC \o D /\ Len(ABC) \in Nat
  BY <1>2 DEF ABC, AB
<1>5. Range(s) = Range(A) \cup Range(B) \cup Range(C) \cup Range(D)
  BY <1>1, <1>2, <1>3, <1>4
<1>. QED  BY <1>3, <1>4, <1>5 DEF ABC, AB, Joined

LEMMA FlattenOnce ==
  ASSUME NEW T, NEW seqs \in Seq(Seq(T)), \A i \in DOMAIN seqs : Once(seqs[i]) /\ Led(seqs[i]),
         \A i, j \in DOMAIN seqs : i # j => Own(seqs[i]) \cap Own(seqs[j]) = {}
  PROVE  /\ FlattenSeq(seqs) \in Seq(T) /\ Once(FlattenSeq(seqs)) /\ Led(FlattenSeq(seqs))
         /\ Range(FlattenSeq(seqs)) = UNION {Range(seqs[i]) : i \in DOMAIN seqs}
<1>. DEFINE len == Len(seqs)
            Holds(s, n) == s \in Seq(T) /\ Once(s) /\ Led(s) /\ Range(s) = UNION {Range(seqs[i]) : i \in 1..n}
<1>0. len \in Nat /\ DOMAIN seqs = 1..len /\ \A i \in 1..len : seqs[i] \in Seq(T)
  OBVIOUS
<1>1. CASE len = 0
  <2>1. FlattenSeq(seqs) = <<>> /\ seqs = <<>>
    BY <1>1 DEF FlattenSeq
  <2>2. /\ FlattenSeq(seqs) \in Seq(T) /\ Once(FlattenSeq(seqs)) /\ Led(FlattenSeq(seqs))
        /\ Range(FlattenSeq(seqs)) = {}
    BY <2>1 DEF Once, Led, Range
  <2>. QED  BY <1>0, <1>1, <2>2
<1>2. CASE len # 0
  <2>1. PICK f : /\ FlattenSeq(seqs) = f[len]
                 /\ f[1] = seqs[1]
                 /\ \A n \in 1..len : n # 1 => f[n] = f[n - 1] \o seqs[n]
    BY <1>2, FlattenIs
  <2>. HIDE DEF len
  <2>. DEFINE V == {n \in Nat : n \in 1..len => Holds(f[n], n)}
  <2>2. 0 \in V
    OBVIOUS
  <2>3. ASSUME NEW n \in Nat, n \in V PROVE n + 1 \in V
    <3>. SUFFICES ASSUME n + 1 \in 1..len PROVE Holds(f[n + 1], n + 1)
      OBVIOUS
    <3>1. CASE n = 0
      <4>1. UNION {Range(seqs[i]) : i \in 1..1} = Range(seqs[1])
        OBVIOUS
      <4>2. 1 \in 1..len
        BY <1>0, <3>1
      <4>3. f[n + 1] = seqs[1] /\ n + 1 = 1
        BY <2>1, <3>1
      <4>4. seqs[1] \in Seq(T) /\ Once(seqs[1]) /\ Led(seqs[1])
        BY <1>0, <4>2
      <4>. QED  BY <4>1, <4>3, <4>4
    <3>2. CASE n # 0
      <4>1. n \in 1..len /\ n + 1 # 1 /\ (n + 1) - 1 = n
        BY <1>0, <3>2
      <4>2. f[n + 1] = f[n] \o seqs[n + 1]
        BY <2>1, <4>1
      <4>3. Holds(f[n], n) /\ seqs[n + 1] \in Seq(T) /\ Once(seqs[n + 1]) /\ Led(seqs[n + 1])
        BY <1>0, <2>3, <4>1
      <4>4. Own(f[n]) \cap Own(seqs[n + 1]) = {}
        <5>1. \A i \in 1..n : i \in 1..len /\ n + 1 \in 1..len /\ i # n + 1
          BY <1>0, <4>1
        <5>2. \A i \in 1..n : Own(seqs[i]) \cap Own(seqs[n + 1]) = {}
          BY <1>0, <5>1
        <5>3. \A x \in Own(f[n]) : \E i \in 1..n : x \in Own(seqs[i])
          BY <4>3 DEF Own
        <5>. QED  BY <5>2, <5>3
      <4>5. /\ f[n + 1] \in Seq(T) /\ Once(f[n + 1]) /\ Led(f[n + 1])
            /\ Range(f[n + 1]) = Range(f[n]) \cup Range(seqs[n + 1])
        BY <4>2, <4>3, <4>4, ConcatRange, ConcatOnce, ConcatLed
      <4>6. \A i \in 1..(n + 1) : i \in 1..n \/ i = n + 1
        OBVIOUS
      <4>7. \A i \in 1..n : i \in 1..(n + 1)
        OBVIOUS
      <4>8. n + 1 \in 1..(n + 1)
        OBVIOUS
      <4>9. UNION {Range(seqs[i]) : i \in 1..(n + 1)} = (UNION {Range(seqs[i]) : i \in 1..n}) \cup Range(seqs[n + 1])
        BY <4>6, <4>7, <4>8, Zenon
      <4>. QED  BY <4>3, <4>5, <4>9
    <3>. QED  BY <3>1, <3>2
  <2>4. Nat \subseteq V
    <3>. HIDE DEF V
    <3>. QED  BY <2>2, <2>3, SetInduction
  <2>5. Holds(f[len], len)
    <3>1. len \in Nat /\ len \in 1..len
      BY <1>0, <1>2
    <3>. HIDE DEF Holds
    <3>. QED  BY <2>4, <3>1
  <2>. QED  BY <1>0, <2>1, <2>5
<1>. QED  BY <1>1, <1>2

LEMMA OrderIs ==
  ASSUME NEW S, IsFiniteSet(S), NEW listed \in SetToSeqs(S)
  PROVE  /\ listed \in Seq(S) /\ Range(listed) = S
         /\ \A i, j \in DOMAIN listed : listed[i] = listed[j] => i = j
<1>. DEFINE n == Cardinality(S)
<1>1. n \in Nat /\ listed \in [1..n -> S] /\ \A i, j \in 1..n : i # j => listed[i] # listed[j]
  BY FS_CardinalityType DEF SetToSeqs
<1>2. listed \in Injection(1..n, S)
  BY <1>1 DEF Injection, IsInjective
<1>3. Cardinality(1..n) = n
  <2>1. n = IF 1 > n THEN 0 ELSE n - 1 + 1
    BY <1>1
  <2>. QED  BY <1>1, <2>1, FS_Interval
<1>. HIDE DEF n
<1>4. listed \in Surjection(1..n, S)
  BY <1>2, <1>3, FS_Injection DEF n
<1>5. \A x \in S : \E i \in 1..n : listed[i] = x
  BY <1>4 DEF Surjection
<1>6. Range(listed) \subseteq S /\ S \subseteq Range(listed)
  BY <1>1, <1>5 DEF Range
<1>. QED  BY <1>1, <1>6

-----------------------------------------------------------------------------
(* The calls of the top-down walk. *)

LEMMA WalkSequences ==
  /\ \A f : TopDown!Range(f) = Range(f)
  /\ \A s : TopDown!FlattenSeq(s) = FlattenSeq(s)
  /\ \A S : TopDown!SetToSeqs(S) = SetToSeqs(S)
<1>1. \A f : TopDown!Range(f) = Range(f)
  BY DEF TopDown!Range, Range
<1>2. \A s : TopDown!FlattenSeq(s) = FlattenSeq(s)
  BY DEF TopDown!FlattenSeq, FlattenSeq
<1>3. \A S : TopDown!SetToSeqs(S) = SetToSeqs(S)
  <2>1. \A S : TopDown!Cardinality(S) = Cardinality(S)
    BY DEF TopDown!Cardinality, Cardinality
  <2>. QED  BY <2>1 DEF TopDown!SetToSeqs, SetToSeqs
<1>. QED  BY <1>1, <1>2, <1>3

RightRulesOK ==
    \A r \in right.rules : r.result \in RightStates /\ r.children \in Seq(RightStates)

LEMMA RightRules ==
  ASSUME right \in Rights
  PROVE  RightRulesOK /\ right.accepting \subseteq RightStates
         /\ IsFiniteSet(right.rules) /\ IsFiniteSet(right.accepting)
BY InputsAreAutomata, RightsAreFinite DEF IsCondensed, CondensedRules, RightRulesOK

LEMMA StepKinds ==
  /\ \A q : TopDown!Visit(q).do = "visit" /\ TopDown!Visit(q).state = q
  /\ \A q : TopDown!Return(q).do = "return" /\ TopDown!Return(q).state = q
  /\ \A r : TopDown!Join(r).do = "join" /\ TopDown!Join(r).rule = r
  /\ \A r, p : /\ TopDown!Saturate(r, p).do = "saturate"
               /\ TopDown!Saturate(r, p).rule = r /\ TopDown!Saturate(r, p).position = p
BY DEF TopDown!Visit, TopDown!Return, TopDown!Join, TopDown!Saturate

LEMMA StepsAre ==
  ASSUME RightRulesOK
  PROVE  /\ \A q \in RightStates : TopDown!Visit(q) \in TopDown!Steps /\ TopDown!Return(q) \in TopDown!Steps
         /\ \A r \in right.rules : ~TopDown!IsLoop(r) => TopDown!Join(r) \in TopDown!Steps
         /\ \A r \in right.rules : \A p \in DOMAIN r.children :
               r.children[p] = r.result => TopDown!Saturate(r, p) \in TopDown!Steps
         /\ \A step \in TopDown!Steps :
               \/ \E q \in RightStates : step = TopDown!Visit(q) \/ step = TopDown!Return(q)
               \/ \E r \in right.rules : ~TopDown!IsLoop(r) /\ step = TopDown!Join(r)
               \/ \E r \in right.rules : \E p \in DOMAIN r.children :
                     r.children[p] = r.result /\ step = TopDown!Saturate(r, p)
BY DEF TopDown!Steps

(* A sequence of visits. *)
LEMMA VisitsOnly ==
  ASSUME NEW T, NEW s \in Seq(T), \A x \in T : x.do = "visit"
  PROVE  Once(s) /\ Led(s) /\ Own(s) = {}
<1>1. \A i \in DOMAIN s : s[i].do = "visit"
  OBVIOUS
<1>. QED  BY <1>1 DEF Once, Led, Own, Range

LEMMA OneStep ==
  ASSUME NEW T, NEW x \in T
  PROVE  /\ <<x>> \in Seq(T) /\ Range(<<x>>) = {x} /\ Once(<<x>>)
         /\ x.do # "join" => Led(<<x>>)
<1>1. <<x>> \in Seq(T) /\ DOMAIN <<x>> = {1} /\ <<x>>[1] = x
  OBVIOUS
<1>. QED  BY <1>1 DEF Range, Once, Led

LEMMA NoStep ==
  ASSUME NEW T
  PROVE  <<>> \in Seq(T) /\ Range(<<>>) = {} /\ Once(<<>>) /\ Led(<<>>)
BY DEF Range, Once, Led

LEMMA NormalPart ==
  ASSUME RightRulesOK, NEW r \in right.rules, ~TopDown!IsLoop(r)
  PROVE  LET s == TopDown!VisitAll(r.children) \o <<TopDown!Join(r)>>
         IN  /\ s \in Seq(TopDown!Steps) /\ Once(s) /\ Led(s)
             /\ Own(s) = {TopDown!Join(r)}
             /\ \A x \in Range(s) : \/ x = TopDown!Join(r)
                                    \/ \E c \in Range(r.children) : c # r.result /\ x = TopDown!Visit(c)
<1>. DEFINE n == Len(r.children)
            v == TopDown!VisitAll(r.children)
            j == TopDown!Join(r)
            s == v \o <<j>>
<1>1. /\ n \in Nat /\ DOMAIN r.children = 1..n
      /\ \A i \in 1..n : r.children[i] \in RightStates /\ r.children[i] \in Range(r.children)
      /\ r.result \notin Range(r.children)
  <2>1. r.children \in Seq(RightStates)
    BY DEF RightRulesOK
  <2>2. r.result \notin Range(r.children)
    BY WalkSequences DEF TopDown!IsLoop
  <2>. QED  BY <2>1, <2>2 DEF Range
<1>2. v = [i \in 1..n |-> TopDown!Visit(r.children[i])]
  BY <1>1 DEF TopDown!VisitAll
<1>3. j \in TopDown!Steps /\ j.do = "join" /\ j.rule = r
  BY StepsAre, StepKinds
<1>4. v \in Seq(TopDown!Steps) /\ Len(v) = n
  <2>1. \A i \in 1..n : TopDown!Visit(r.children[i]) \in TopDown!Steps
    BY <1>1, StepsAre
  <2>. HIDE DEF n, v
  <2>. QED  BY <1>1, <1>2, <2>1
<1>. HIDE DEF n, v, j
<1>5. /\ s \in Seq(TopDown!Steps) /\ DOMAIN s = 1..(n + 1)
      /\ \A i \in 1..n : s[i] = TopDown!Visit(r.children[i])
      /\ s[n + 1] = j
  <2>1. <<j>> \in Seq(TopDown!Steps) /\ Len(<<j>>) = 1 /\ <<j>>[1] = j
    BY <1>3
  <2>2. Len(s) = n + 1 /\ s \in Seq(TopDown!Steps)
    BY <1>1, <1>4, <2>1
  <2>3. \A i \in 1..(n + 1) : s[i] = IF i <= n THEN v[i] ELSE <<j>>[i - n]
    BY <1>1, <1>4, <2>1
  <2>. QED  BY <1>1, <1>2, <2>1, <2>2, <2>3
<1>. HIDE DEF s
<1>6. \A i \in 1..(n + 1) : \/ (i \in 1..n /\ s[i].do = "visit" /\ s[i] = TopDown!Visit(r.children[i]))
                           \/ (i = n + 1 /\ s[i] = j)
  <2>. TAKE i \in 1..(n + 1)
  <2>1. i \in 1..n \/ i = n + 1
    BY <1>1
  <2>. QED  BY <1>5, <2>1, StepKinds
<1>7. Once(s)
  BY <1>5, <1>6, <1>3 DEF Once
<1>8. Led(s)
  <2>. SUFFICES ASSUME NEW i \in 1..(n + 1), s[i].do = "join", NEW c \in Range(s[i].rule.children)
                PROVE  \E k \in 1..(i - 1) : s[k] = TopDown!Visit(c)
    BY <1>5 DEF Led
  <2>1. i = n + 1 /\ s[i] = j
    BY <1>6
  <2>2. c \in Range(r.children) /\ 1..(i - 1) = 1..n
    BY <1>1, <1>3, <2>1
  <2>3. PICK k \in 1..n : r.children[k] = c
    BY <1>1, <2>2 DEF Range
  <2>. QED  BY <1>5, <2>2, <2>3
<1>9. n + 1 \in 1..(n + 1)
  BY <1>1
<1>10. \A x \in Range(s) : \E i \in 1..(n + 1) : x = s[i]
  BY <1>5 DEF Range
<1>11. j \in Range(s)
  BY <1>5, <1>9 DEF Range
<1>12. \A x \in Range(s) : \/ x = j
                           \/ x.do = "visit" /\ \E c \in Range(r.children) : c # r.result /\ x = TopDown!Visit(c)
  BY <1>1, <1>6, <1>10
<1>13. Own(s) = {j}
  BY <1>3, <1>11, <1>12 DEF Own
<1>. QED  BY <1>5, <1>7, <1>8, <1>12, <1>13 DEF s, v, j

LEMMA OthersPart ==
  ASSUME RightRulesOK, NEW r \in right.rules
  PROVE  LET s == TopDown!VisitOthers(r)
         IN  /\ s \in Seq(TopDown!Steps) /\ Once(s) /\ Led(s) /\ Own(s) = {}
             /\ \A x \in Range(s) : \E c \in Range(r.children) : c # r.result /\ x = TopDown!Visit(c)
<1>. DEFINE n == Len(r.children)
            T == {TopDown!Visit(c) : c \in Range(r.children) \ {r.result}}
            part(i) == IF r.children[i] = r.result THEN <<>> ELSE <<TopDown!Visit(r.children[i])>>
            parts == [i \in DOMAIN r.children |-> part(i)]
            s == TopDown!VisitOthers(r)
<1>1. /\ n \in Nat /\ DOMAIN r.children = 1..n
      /\ \A i \in 1..n : r.children[i] \in RightStates /\ r.children[i] \in Range(r.children)
  <2>1. r.children \in Seq(RightStates)
    BY DEF RightRulesOK
  <2>. QED  BY <2>1 DEF Range
<1>2. s = FlattenSeq(parts)
  BY WalkSequences DEF TopDown!VisitOthers
<1>3. \A x \in T : x.do = "visit"
  BY StepKinds
<1>4. \A i \in 1..n : part(i) \in Seq(T)
  BY <1>1, OneStep, NoStep
<1>5. parts \in Seq(Seq(T)) /\ DOMAIN parts = 1..n /\ \A i \in 1..n : parts[i] = part(i)
  <2>. HIDE DEF part, T
  <2>. QED  BY <1>1, <1>4
<1>. HIDE DEF part, parts, T, n, s
<1>6. \A i \in DOMAIN parts : Once(parts[i]) /\ Led(parts[i]) /\ Own(parts[i]) = {}
  BY <1>3, <1>4, <1>5, VisitsOnly
<1>7. \A i, j \in DOMAIN parts : i # j => Own(parts[i]) \cap Own(parts[j]) = {}
  BY <1>6
<1>8. s \in Seq(T)
  BY <1>2, <1>5, <1>6, <1>7, FlattenOnce
<1>9. Once(s) /\ Led(s) /\ Own(s) = {}
  BY <1>3, <1>8, VisitsOnly
<1>10. T \subseteq TopDown!Steps
  <2>1. Range(r.children) \subseteq RightStates
    BY <1>1 DEF Range
  <2>. QED  BY <2>1, StepsAre DEF T
<1>11. s \in Seq(TopDown!Steps)
  BY <1>8, <1>10, SeqWiden
<1>12. \A x \in Range(s) : x \in T
  BY <1>8 DEF Range
<1>. QED  BY <1>9, <1>11, <1>12 DEF s, T

LEMMA LoopsPart ==
  ASSUME RightRulesOK, NEW r \in right.rules
  PROVE  LET s == TopDown!Saturations(r)
         IN  /\ s \in Seq(TopDown!Steps) /\ Once(s) /\ Led(s)
             /\ \A x \in Range(s) : x.do = "saturate" /\ x.rule = r
<1>. DEFINE n == Len(r.children)
            T == {TopDown!Saturate(r, i) : i \in {p \in DOMAIN r.children : r.children[p] = r.result}}
            part(i) == IF r.children[i] = r.result THEN <<TopDown!Saturate(r, i)>> ELSE <<>>
            parts == [i \in DOMAIN r.children |-> part(i)]
            s == TopDown!Saturations(r)
<1>1. n \in Nat /\ DOMAIN r.children = 1..n
  <2>1. r.children \in Seq(RightStates)
    BY DEF RightRulesOK
  <2>. QED  BY <2>1 DEF Range
<1>2. s = FlattenSeq(parts)
  BY WalkSequences DEF TopDown!Saturations
<1>3. \A x \in T : x.do = "saturate" /\ x.rule = r
  BY StepKinds
<1>4. \A i \in 1..n : /\ part(i) \in Seq(T) /\ Once(part(i)) /\ Led(part(i))
                     /\ \A x \in Range(part(i)) : x.position = i
  <2>. SUFFICES ASSUME NEW i \in 1..n
                PROVE /\ part(i) \in Seq(T) /\ Once(part(i)) /\ Led(part(i))
                      /\ \A x \in Range(part(i)) : x.position = i
    OBVIOUS
  <2>1. CASE r.children[i] = r.result
    <3>1. TopDown!Saturate(r, i) \in T
      BY <1>1, <2>1
    <3>2. TopDown!Saturate(r, i).do # "join" /\ TopDown!Saturate(r, i).position = i
      BY StepKinds
    <3>3. part(i) = <<TopDown!Saturate(r, i)>>
      BY <2>1
    <3>. HIDE DEF part, T
    <3>. QED  BY <3>1, <3>2, <3>3, OneStep
  <2>2. CASE r.children[i] # r.result
    <3>3. part(i) = <<>>
      BY <2>2
    <3>. HIDE DEF part, T
    <3>. QED  BY <3>3, NoStep
  <2>. QED  BY <2>1, <2>2
<1>5. parts \in Seq(Seq(T)) /\ DOMAIN parts = 1..n /\ \A i \in 1..n : parts[i] = part(i)
  <2>. HIDE DEF part, T
  <2>. QED  BY <1>1, <1>4
<1>. HIDE DEF part, parts, T, n, s
<1>6. \A i \in DOMAIN parts : Once(parts[i]) /\ Led(parts[i])
  BY <1>4, <1>5
<1>7. \A i, j \in DOMAIN parts : i # j => Own(parts[i]) \cap Own(parts[j]) = {}
  BY <1>4, <1>5 DEF Own
<1>8. s \in Seq(T) /\ Once(s) /\ Led(s)
  BY <1>2, <1>5, <1>6, <1>7, FlattenOnce
<1>10. T \subseteq TopDown!Steps
  BY StepsAre DEF T
<1>11. s \in Seq(TopDown!Steps)
  BY <1>8, <1>10, SeqWiden
<1>12. \A x \in Range(s) : x \in T
  BY <1>8 DEF Range
<1>. QED  BY <1>3, <1>8, <1>11, <1>12 DEF s

(* The step is a visit below q, or belongs to the call for q. *)
StepIn(q, x) ==
    \/ \E r \in right.rules : \E c \in Range(r.children) :
          r.result = q /\ c # q /\ x = TopDown!Visit(c)
    \/ x.do # "visit" /\ TopDown!Owner(x) = q

LEMMA OwnersAre ==
  /\ \A q : TopDown!Owner(TopDown!Visit(q)) = q /\ TopDown!Owner(TopDown!Return(q)) = q
  /\ \A x : x.do \in {"join", "saturate"} => TopDown!Owner(x) = x.rule.result
BY StepKinds DEF TopDown!Owner

LEMMA BodyFacts ==
  ASSUME RightRulesOK, IsFiniteSet(right.rules), NEW q \in RightStates,
         NEW listed \in SetToSeqs({r \in right.rules : r.result = q})
  PROVE  LET s == TopDown!BodyOf(q, listed)
         IN  /\ s \in Seq(TopDown!Steps) /\ Len(s) # 0 /\ s[Len(s)] = TopDown!Return(q)
             /\ Once(s) /\ Led(s)
             /\ \A x \in Range(s) : StepIn(q, x)
<1>. DEFINE S == {r \in right.rules : r.result = q}
            n == Len(listed)
            normal(r) == IF TopDown!IsLoop(r) THEN <<>> ELSE TopDown!VisitAll(r.children) \o <<TopDown!Join(r)>>
            before(r) == IF TopDown!IsLoop(r) THEN TopDown!VisitOthers(r) ELSE <<>>
            loops(r)  == IF TopDown!IsLoop(r) THEN TopDown!Saturations(r) ELSE <<>>
            normals == [i \in DOMAIN listed |-> normal(listed[i])]
            befores == [i \in DOMAIN listed |-> before(listed[i])]
            satura == [i \in DOMAIN listed |-> loops(listed[i])]
            A == FlattenSeq(normals)
            B == FlattenSeq(befores)
            C == FlattenSeq(satura)
            D == <<TopDown!Return(q)>>
            body == TopDown!BodyOf(q, listed)
<1>1. body = ((A \o B) \o C) \o D
  BY WalkSequences DEF TopDown!BodyOf
<1>2. /\ listed \in Seq(S)
      /\ \A i, j \in DOMAIN listed : listed[i] = listed[j] => i = j
  <2>1. IsFiniteSet(S)
    BY FS_Subset
  <2>. QED  BY <2>1, OrderIs
<1>3. n \in Nat /\ DOMAIN listed = 1..n /\ \A i \in 1..n : listed[i] \in right.rules /\ listed[i].result = q
  BY <1>2
<1>4. \A r \in S : /\ normal(r) \in Seq(TopDown!Steps) /\ Once(normal(r)) /\ Led(normal(r))
                  /\ Own(normal(r)) \subseteq {TopDown!Join(r)}
                  /\ \A x \in Range(normal(r)) : StepIn(q, x)
  <2>. SUFFICES ASSUME NEW r \in S
                PROVE  /\ normal(r) \in Seq(TopDown!Steps) /\ Once(normal(r)) /\ Led(normal(r))
                       /\ Own(normal(r)) \subseteq {TopDown!Join(r)}
                       /\ \A x \in Range(normal(r)) : StepIn(q, x)
    OBVIOUS
  <2>1. CASE TopDown!IsLoop(r)
    <3>1. normal(r) = <<>>
      BY <2>1
    <3>. HIDE DEF normal
    <3>. QED  BY <3>1, NoStep DEF Own
  <2>2. CASE ~TopDown!IsLoop(r)
    <3>1. normal(r) = TopDown!VisitAll(r.children) \o <<TopDown!Join(r)>>
      BY <2>2
    <3>. HIDE DEF normal
    <3>2. /\ normal(r) \in Seq(TopDown!Steps) /\ Once(normal(r)) /\ Led(normal(r))
          /\ Own(normal(r)) = {TopDown!Join(r)}
          /\ \A x \in Range(normal(r)) :
                \/ x = TopDown!Join(r)
                \/ \E c \in Range(r.children) : c # r.result /\ x = TopDown!Visit(c)
      BY <2>2, <3>1, NormalPart
    <3>3. TopDown!Join(r).do # "visit" /\ TopDown!Owner(TopDown!Join(r)) = q
      BY StepKinds, OwnersAre
    <3>. QED  BY <3>2, <3>3 DEF StepIn
  <2>. QED  BY <2>1, <2>2
<1>5. \A r \in S : /\ before(r) \in Seq(TopDown!Steps) /\ Once(before(r)) /\ Led(before(r))
                  /\ Own(before(r)) = {}
                  /\ \A x \in Range(before(r)) : StepIn(q, x)
  <2>. SUFFICES ASSUME NEW r \in S
                PROVE  /\ before(r) \in Seq(TopDown!Steps) /\ Once(before(r)) /\ Led(before(r))
                       /\ Own(before(r)) = {}
                       /\ \A x \in Range(before(r)) : StepIn(q, x)
    OBVIOUS
  <2>1. CASE ~TopDown!IsLoop(r)
    <3>1. before(r) = <<>>
      BY <2>1
    <3>. HIDE DEF before
    <3>. QED  BY <3>1, NoStep DEF Own
  <2>2. CASE TopDown!IsLoop(r)
    <3>1. before(r) = TopDown!VisitOthers(r)
      BY <2>2
    <3>. HIDE DEF before
    <3>2. /\ before(r) \in Seq(TopDown!Steps) /\ Once(before(r)) /\ Led(before(r)) /\ Own(before(r)) = {}
          /\ \A x \in Range(before(r)) :
                \E c \in Range(r.children) : c # r.result /\ x = TopDown!Visit(c)
      BY <3>1, OthersPart
    <3>. QED  BY <3>2 DEF StepIn
  <2>. QED  BY <2>1, <2>2
<1>6. \A r \in S : /\ loops(r) \in Seq(TopDown!Steps) /\ Once(loops(r)) /\ Led(loops(r))
                  /\ \A x \in Range(loops(r)) : x.do = "saturate" /\ x.rule = r /\ StepIn(q, x)
  <2>. SUFFICES ASSUME NEW r \in S
                PROVE  /\ loops(r) \in Seq(TopDown!Steps) /\ Once(loops(r)) /\ Led(loops(r))
                       /\ \A x \in Range(loops(r)) : x.do = "saturate" /\ x.rule = r /\ StepIn(q, x)
    OBVIOUS
  <2>1. CASE ~TopDown!IsLoop(r)
    <3>1. loops(r) = <<>>
      BY <2>1
    <3>. HIDE DEF loops
    <3>. QED  BY <3>1, NoStep
  <2>2. CASE TopDown!IsLoop(r)
    <3>1. loops(r) = TopDown!Saturations(r)
      BY <2>2
    <3>. HIDE DEF loops
    <3>2. /\ loops(r) \in Seq(TopDown!Steps) /\ Once(loops(r)) /\ Led(loops(r))
          /\ \A x \in Range(loops(r)) : x.do = "saturate" /\ x.rule = r
      BY <3>1, LoopsPart
    <3>. QED  BY <3>2, OwnersAre DEF StepIn
  <2>. QED  BY <2>1, <2>2
<1>. HIDE DEF normal, before, loops
<1>7. normals \in Seq(Seq(TopDown!Steps)) /\ befores \in Seq(Seq(TopDown!Steps)) /\ satura \in Seq(Seq(TopDown!Steps))
  <2>1. \A i \in 1..n : listed[i] \in S
    BY <1>3
  <2>2. \A i \in 1..n : /\ normal(listed[i]) \in Seq(TopDown!Steps)
                       /\ before(listed[i]) \in Seq(TopDown!Steps)
                       /\ loops(listed[i]) \in Seq(TopDown!Steps)
    BY <1>4, <1>5, <1>6, <2>1
  <2>. HIDE DEF S, n
  <2>3. normals = [i \in 1..n |-> normal(listed[i])] /\ normals \in Seq(Seq(TopDown!Steps))
    BY <1>3, <2>2
  <2>4. befores = [i \in 1..n |-> before(listed[i])] /\ befores \in Seq(Seq(TopDown!Steps))
    BY <1>3, <2>2
  <2>5. satura = [i \in 1..n |-> loops(listed[i])] /\ satura \in Seq(Seq(TopDown!Steps))
    BY <1>3, <2>2
  <2>. QED  BY <2>3, <2>4, <2>5
<1>8. /\ DOMAIN normals = 1..n /\ DOMAIN befores = 1..n /\ DOMAIN satura = 1..n
      /\ \A i \in 1..n : /\ normals[i] = normal(listed[i]) /\ befores[i] = before(listed[i])
                         /\ satura[i] = loops(listed[i]) /\ listed[i] \in S
  BY <1>3
<1>. HIDE DEF normals, befores, satura, S, n
<1>9. /\ A \in Seq(TopDown!Steps) /\ Once(A) /\ Led(A)
      /\ \A x \in Range(A) : StepIn(q, x) /\ x.do # "saturate" /\ x.do # "return"
  <2>1. \A i, j \in DOMAIN normals : i # j => Own(normals[i]) \cap Own(normals[j]) = {}
    <3>. SUFFICES ASSUME NEW i \in 1..n, NEW j \in 1..n, i # j
                  PROVE  Own(normals[i]) \cap Own(normals[j]) = {}
      BY <1>8
    <3>1. listed[i] # listed[j]
      BY <1>2, <1>3
    <3>2. TopDown!Join(listed[i]) # TopDown!Join(listed[j])
      BY <3>1, StepKinds
    <3>3. Own(normals[i]) \subseteq {TopDown!Join(listed[i])} /\ Own(normals[j]) \subseteq {TopDown!Join(listed[j])}
      BY <1>4, <1>8
    <3>. QED  BY <3>2, <3>3
  <2>2. \A i \in DOMAIN normals : Once(normals[i]) /\ Led(normals[i])
    BY <1>4, <1>8
  <2>3. /\ A \in Seq(TopDown!Steps) /\ Once(A) /\ Led(A)
        /\ Range(A) = UNION {Range(normals[i]) : i \in DOMAIN normals}
    BY <1>7, <2>1, <2>2, FlattenOnce
  <2>4. \A i \in 1..n : \A x \in Range(normals[i]) : StepIn(q, x) /\ x.do # "saturate" /\ x.do # "return"
    <3>. SUFFICES ASSUME NEW i \in 1..n, NEW x \in Range(normals[i])
                  PROVE  StepIn(q, x) /\ x.do # "saturate" /\ x.do # "return"
      OBVIOUS
    <3>1. StepIn(q, x)
      BY <1>4, <1>8
    <3>2. x.do = "visit" \/ x \in Own(normals[i])
      BY DEF Own
    <3>3. x.do = "visit" \/ x = TopDown!Join(listed[i])
      BY <1>4, <1>8, <3>2
    <3>. QED  BY <3>1, <3>3, StepKinds
  <2>. QED  BY <1>8, <2>3, <2>4
<1>10. /\ B \in Seq(TopDown!Steps) /\ Once(B) /\ Led(B) /\ Own(B) = {}
       /\ \A x \in Range(B) : StepIn(q, x)
  <2>1. \A i, j \in DOMAIN befores : i # j => Own(befores[i]) \cap Own(befores[j]) = {}
    BY <1>5, <1>8
  <2>2. \A i \in DOMAIN befores : Once(befores[i]) /\ Led(befores[i])
    BY <1>5, <1>8
  <2>3. /\ B \in Seq(TopDown!Steps) /\ Once(B) /\ Led(B)
        /\ Range(B) = UNION {Range(befores[i]) : i \in DOMAIN befores}
    BY <1>7, <2>1, <2>2, FlattenOnce
  <2>4. \A i \in 1..n : \A x \in Range(befores[i]) : StepIn(q, x) /\ x.do = "visit"
    BY <1>5, <1>8 DEF Own
  <2>. QED  BY <1>8, <2>3, <2>4 DEF Own
<1>11. /\ C \in Seq(TopDown!Steps) /\ Once(C) /\ Led(C)
       /\ \A x \in Range(C) : StepIn(q, x) /\ x.do = "saturate"
  <2>1. \A i, j \in DOMAIN satura : i # j => Own(satura[i]) \cap Own(satura[j]) = {}
    <3>. SUFFICES ASSUME NEW i \in 1..n, NEW j \in 1..n, i # j
                  PROVE  Own(satura[i]) \cap Own(satura[j]) = {}
      BY <1>8
    <3>1. listed[i] # listed[j]
      BY <1>2, <1>3
    <3>2. \A x \in Range(satura[i]) : x.rule = listed[i]
      BY <1>6, <1>8
    <3>3. \A x \in Range(satura[j]) : x.rule = listed[j]
      BY <1>6, <1>8
    <3>. QED  BY <3>1, <3>2, <3>3 DEF Own
  <2>2. \A i \in DOMAIN satura : Once(satura[i]) /\ Led(satura[i])
    BY <1>6, <1>8
  <2>3. /\ C \in Seq(TopDown!Steps) /\ Once(C) /\ Led(C)
        /\ Range(C) = UNION {Range(satura[i]) : i \in DOMAIN satura}
    BY <1>7, <2>1, <2>2, FlattenOnce
  <2>4. \A i \in 1..n : \A x \in Range(satura[i]) : StepIn(q, x) /\ x.do = "saturate"
    BY <1>6, <1>8
  <2>. QED  BY <1>8, <2>3, <2>4
<1>12. /\ D \in Seq(TopDown!Steps) /\ Once(D) /\ Led(D) /\ Range(D) = {TopDown!Return(q)}
       /\ Len(D) = 1 /\ D[1] = TopDown!Return(q)
       /\ \A x \in Range(D) : StepIn(q, x) /\ x.do = "return"
  <2>1. TopDown!Return(q) \in TopDown!Steps /\ TopDown!Return(q).do = "return"
        /\ TopDown!Owner(TopDown!Return(q)) = q
    BY StepsAre, StepKinds, OwnersAre
  <2>2. StepIn(q, TopDown!Return(q))
    BY <2>1 DEF StepIn
  <2>3. D \in Seq(TopDown!Steps) /\ Once(D) /\ Led(D) /\ Range(D) = {TopDown!Return(q)}
    BY <2>1, OneStep
  <2>. QED  BY <2>1, <2>2, <2>3
<1>. HIDE DEF A, B, C, D, body
<1>13. Own(A) \cap Own(B) = {} /\ Own(A) \cap Own(C) = {} /\ Own(B) \cap Own(C) = {}
  BY <1>9, <1>10, <1>11 DEF Own
<1>14. Own(A) \cap Own(D) = {} /\ Own(B) \cap Own(D) = {} /\ Own(C) \cap Own(D) = {}
  BY <1>9, <1>10, <1>11, <1>12 DEF Own
<1>15. A \in Seq(TopDown!Steps) /\ B \in Seq(TopDown!Steps) /\ C \in Seq(TopDown!Steps) /\ D \in Seq(TopDown!Steps)
  BY <1>9, <1>10, <1>11, <1>12
<1>16. Once(A) /\ Led(A) /\ Once(B) /\ Led(B) /\ Once(C) /\ Led(C) /\ Once(D) /\ Led(D)
  BY <1>9, <1>10, <1>11, <1>12
<1>17. Joined(body, A, B, C, D, TopDown!Steps)
  <2>1. Apart(A, B, C, D, TopDown!Steps)
    BY <1>13, <1>14, <1>15, <1>16 DEF Apart
  <2>. QED  BY ONLY <1>1, <2>1, ConcatFour
<1>18. /\ body \in Seq(TopDown!Steps) /\ Once(body) /\ Led(body)
       /\ Range(body) = Range(A) \cup Range(B) \cup Range(C) \cup Range(D)
       /\ Len(body) = Len((A \o B) \o C) + Len(D) /\ Len((A \o B) \o C) \in Nat
       /\ \A i \in 1..Len(D) : body[i + Len((A \o B) \o C)] = D[i]
  BY <1>17 DEF Joined
<1>19. \A x \in Range(body) : StepIn(q, x)
  BY <1>9, <1>10, <1>11, <1>12, <1>18
<1>20. Len(body) # 0 /\ body[Len(body)] = TopDown!Return(q)
  <2>1. 1 \in 1..Len(D)
    BY <1>12
  <2>2. Len(body) = 1 + Len((A \o B) \o C) /\ Len(body) # 0
    BY <1>12, <1>18
  <2>. QED  BY <1>12, <1>18, <2>1, <2>2
<1>. QED  BY <1>18, <1>19, <1>20 DEF body

-----------------------------------------------------------------------------
(* The stack of the walk. *)

Nested(s) ==
    \A i \in DOMAIN s : s[i].do \in {"join", "saturate"} =>
        \E j \in (i + 1)..Len(s) : s[j] = TopDown!Return(s[i].rule.result)

Prepared(s, V) ==
    \A i \in DOMAIN s : s[i].do = "join" =>
        \A c \in Range(s[i].rule.children) :
            c \in V \/ \E k \in 1..(i - 1) : s[k] = TopDown!Visit(c)

Owned(s, V) == \A x \in Own(s) : TopDown!Owner(x) \in V

StackOK(s, V) ==
    s \in Seq(TopDown!Steps) /\ Nested(s) /\ Prepared(s, V) /\ Owned(s, V) /\ Once(s)

LEMMA TailFacts ==
  ASSUME NEW T, NEW s \in Seq(T), s # <<>>
  PROVE  /\ Len(s) \in Nat /\ Len(s) # 0 /\ Head(s) = s[1] /\ s[1] \in T
         /\ Tail(s) \in Seq(T) /\ Len(Tail(s)) = Len(s) - 1
         /\ \A i \in 1..(Len(s) - 1) : Tail(s)[i] = s[i + 1]
         /\ Range(Tail(s)) \subseteq Range(s) /\ s[1] \in Range(s)
<1>1. /\ Len(s) \in Nat /\ Len(s) # 0 /\ Head(s) = s[1] /\ s[1] \in T /\ DOMAIN s = 1..Len(s)
      /\ Tail(s) \in Seq(T) /\ Len(Tail(s)) = Len(s) - 1
      /\ \A i \in 1..(Len(s) - 1) : Tail(s)[i] = s[i + 1]
  OBVIOUS
<1>2. DOMAIN Tail(s) = 1..(Len(s) - 1)
  BY <1>1
<1>3. \A i \in 1..(Len(s) - 1) : i + 1 \in 1..Len(s)
  BY <1>1
<1>4. 1 \in 1..Len(s)
  BY <1>1
<1>. QED  BY <1>1, <1>2, <1>3, <1>4 DEF Range

LEMMA StackTail ==
  ASSUME NEW V, NEW W, V \subseteq W, NEW s, StackOK(s, V), s # <<>>,
         Head(s).do = "visit" => Head(s).state \in W
  PROVE  StackOK(Tail(s), W)
<1>. DEFINE n == Len(s)
            t == Tail(s)
<1>1. /\ n \in Nat /\ n # 0 /\ Head(s) = s[1] /\ DOMAIN s = 1..n
      /\ t \in Seq(TopDown!Steps) /\ Len(t) = n - 1 /\ DOMAIN t = 1..(n - 1)
      /\ \A i \in 1..(n - 1) : t[i] = s[i + 1]
      /\ Range(t) \subseteq Range(s)
  BY TailFacts DEF StackOK
<1>. HIDE DEF n, t
<1>2. Nested(t)
  <2>. SUFFICES ASSUME NEW i \in 1..(n - 1), t[i].do \in {"join", "saturate"}
                PROVE  \E j \in (i + 1)..(n - 1) : t[j] = TopDown!Return(t[i].rule.result)
    BY <1>1 DEF Nested
  <2>1. i + 1 \in 1..n /\ t[i] = s[i + 1]
    BY <1>1
  <2>2. PICK j \in ((i + 1) + 1)..n : s[j] = TopDown!Return(t[i].rule.result)
    BY <1>1, <2>1 DEF StackOK, Nested, n
  <2>3. j - 1 \in (i + 1)..(n - 1) /\ j - 1 \in 1..(n - 1) /\ (j - 1) + 1 = j
    BY <1>1
  <2>4. t[j - 1] = s[j]
    BY <1>1, <2>3
  <2>. QED  BY <2>2, <2>3, <2>4
<1>3. Prepared(t, W)
  <2>. SUFFICES ASSUME NEW i \in 1..(n - 1), t[i].do = "join", NEW c \in Range(t[i].rule.children), c \notin W
                PROVE  \E k \in 1..(i - 1) : t[k] = TopDown!Visit(c)
    BY <1>1 DEF Prepared
  <2>1. i + 1 \in 1..n /\ t[i] = s[i + 1] /\ (i + 1) - 1 = i
    BY <1>1
  <2>2. PICK k \in 1..i : s[k] = TopDown!Visit(c)
    BY <1>1, <2>1 DEF StackOK, Prepared
  <2>3. k # 1
    BY <1>1, <2>2, StepKinds
  <2>4. k - 1 \in 1..(i - 1) /\ k - 1 \in 1..(n - 1) /\ (k - 1) + 1 = k
    BY <1>1, <2>3
  <2>5. t[k - 1] = s[k]
    BY <1>1, <2>4
  <2>. QED  BY <2>2, <2>4, <2>5
<1>4. Owned(t, W)
  BY <1>1 DEF StackOK, Owned, Own
<1>5. Once(t)
  <2>. SUFFICES ASSUME NEW i \in 1..(n - 1), NEW j \in 1..(n - 1), t[i] = t[j], t[i].do # "visit"
                PROVE  i = j
    BY <1>1 DEF Once
  <2>1. i + 1 \in 1..n /\ j + 1 \in 1..n /\ t[i] = s[i + 1] /\ t[j] = s[j + 1]
    BY <1>1
  <2>2. i + 1 = j + 1
    BY <1>1, <2>1 DEF StackOK, Once
  <2>. QED  BY <2>2
<1>. QED  BY <1>1, <1>2, <1>3, <1>4, <1>5 DEF StackOK, t

LEMMA StackBody ==
  ASSUME RightRulesOK, IsFiniteSet(right.rules), NEW q \in RightStates,
         NEW listed \in SetToSeqs({r \in right.rules : r.result = q}),
         NEW W, q \in W, NEW t, StackOK(t, W), \A x \in Own(t) : TopDown!Owner(x) # q
  PROVE  StackOK(TopDown!BodyOf(q, listed) \o t, W)
<1>. DEFINE b == TopDown!BodyOf(q, listed)
            m == Len(b)
            n == Len(t)
            s == b \o t
<1>1. /\ b \in Seq(TopDown!Steps) /\ m # 0 /\ b[m] = TopDown!Return(q)
      /\ Once(b) /\ Led(b) /\ \A x \in Range(b) : StepIn(q, x)
  BY BodyFacts
<1>2. t \in Seq(TopDown!Steps) /\ Nested(t) /\ Prepared(t, W) /\ Owned(t, W) /\ Once(t)
  BY DEF StackOK
<1>. HIDE DEF b
<1>3. /\ m \in Nat /\ n \in Nat /\ DOMAIN b = 1..m /\ DOMAIN t = 1..n
      /\ s \in Seq(TopDown!Steps) /\ Len(s) = m + n /\ DOMAIN s = 1..(m + n)
      /\ \A i \in 1..(m + n) : s[i] = IF i <= m THEN b[i] ELSE t[i - m]
  BY <1>1, <1>2
<1>4. \A x \in Own(b) : TopDown!Owner(x) = q
  BY <1>1, StepKinds DEF Own, StepIn
<1>5. Once(s) /\ Own(s) = Own(b) \cup Own(t)
  <2>1. Own(b) \cap Own(t) = {}
    BY <1>4
  <2>. QED  BY <1>1, <1>2, <2>1, ConcatOnce
<1>6. Owned(s, W)
  BY <1>2, <1>4, <1>5 DEF Owned
<1>7. \A i \in 1..m : b[i] \in Range(b)
  BY <1>3 DEF Range
<1>. HIDE DEF m, n, s
<1>8. Nested(s)
  <2>. SUFFICES ASSUME NEW i \in 1..(m + n), s[i].do \in {"join", "saturate"}
                PROVE  \E j \in (i + 1)..(m + n) : s[j] = TopDown!Return(s[i].rule.result)
    BY <1>3 DEF Nested
  <2>1. CASE i <= m
    <3>1. i \in 1..m /\ s[i] = b[i]
      BY <1>3, <2>1
    <3>2. s[i] \in Own(b)
      BY <1>7, <3>1 DEF Own
    <3>3. s[i].rule.result = q
      BY <1>4, <3>2, OwnersAre
    <3>4. i # m
      BY <1>1, <3>1, StepKinds
    <3>5. m \in (i + 1)..(m + n) /\ m \in 1..(m + n) /\ m <= m
      BY <1>3, <3>1, <3>4
    <3>6. s[m] = b[m]
      BY <1>3, <3>5
    <3>. QED  BY <1>1, <3>3, <3>5, <3>6
  <2>2. CASE ~(i <= m)
    <3>1. i - m \in 1..n /\ s[i] = t[i - m]
      BY <1>3, <2>2
    <3>2. PICK j \in ((i - m) + 1)..n : t[j] = TopDown!Return(s[i].rule.result)
      BY <1>2, <1>3, <3>1 DEF Nested, n
    <3>3. j + m \in (i + 1)..(m + n) /\ j + m \in 1..(m + n) /\ ~(j + m <= m) /\ (j + m) - m = j
      BY <1>3, <3>1
    <3>4. s[j + m] = t[j]
      BY <1>3, <3>3
    <3>. QED  BY <3>2, <3>3, <3>4
  <2>. QED  BY <2>1, <2>2
<1>9. Prepared(s, W)
  <2>. SUFFICES ASSUME NEW i \in 1..(m + n), s[i].do = "join", NEW c \in Range(s[i].rule.children), c \notin W
                PROVE  \E k \in 1..(i - 1) : s[k] = TopDown!Visit(c)
    BY <1>3 DEF Prepared
  <2>1. CASE i <= m
    <3>1. i \in 1..m /\ s[i] = b[i]
      BY <1>3, <2>1
    <3>2. PICK k \in 1..(i - 1) : b[k] = TopDown!Visit(c)
      BY <1>1, <1>3, <3>1 DEF Led
    <3>3. k \in 1..(m + n) /\ k <= m
      BY <1>3, <3>1
    <3>. QED  BY <1>3, <3>2, <3>3
  <2>2. CASE ~(i <= m)
    <3>1. i - m \in 1..n /\ s[i] = t[i - m]
      BY <1>3, <2>2
    <3>2. PICK k \in 1..((i - m) - 1) : t[k] = TopDown!Visit(c)
      BY <1>2, <1>3, <3>1 DEF Prepared
    <3>3. k + m \in 1..(i - 1) /\ k + m \in 1..(m + n) /\ ~(k + m <= m) /\ (k + m) - m = k
      BY <1>3, <3>1
    <3>4. s[k + m] = t[k]
      BY <1>3, <3>3
    <3>. QED  BY <3>2, <3>3, <3>4
  <2>. QED  BY <2>1, <2>2
<1>. QED  BY <1>3, <1>5, <1>6, <1>8, <1>9 DEF StackOK, s, b

LEMMA StackVisits ==
  ASSUME NEW V, NEW s \in Seq(TopDown!Steps), \A x \in Range(s) : x.do = "visit"
  PROVE  StackOK(s, V)
<1>1. \A i \in DOMAIN s : s[i].do = "visit"
  BY DEF Range
<1>. QED  BY <1>1 DEF StackOK, Nested, Prepared, Owned, Own, Once

LEMMA StackIs ==
  /\ TopDown!WalkInv <=> /\ TopDown!WalkTypes /\ TopDown!MatchesAreKnown /\ StackOK(work, visited)
  /\ (TopDown!CallsNest <=> Nested(work))
<1>1. TopDown!CallsNest <=> Nested(work)
  BY DEF TopDown!CallsNest, Nested
<1>2. TopDown!ChildrenComeFirst <=> Prepared(work, visited)
  BY WalkSequences DEF TopDown!ChildrenComeFirst, Prepared
<1>3. TopDown!StepsAreOwned <=> Owned(work, visited) /\ Once(work)
  BY DEF TopDown!StepsAreOwned, Owned, Once, Own, Range
<1>4. TopDown!WalkTypes => work \in Seq(TopDown!Steps)
  BY DEF TopDown!WalkTypes
<1>. QED  BY <1>1, <1>2, <1>3, <1>4 DEF TopDown!WalkInv, StackOK

-----------------------------------------------------------------------------
(* The invariant of the walk. *)

WalkTypes ==
    /\ walk \in {"start", "visit", "saturate", "join", "done", "cancelled"}
    /\ walk = "saturate" => work # <<>> /\ Head(work).do = "saturate"
    /\ walk = "join" => work # <<>> /\ Head(work).do \in {"join", "saturate"}
    /\ visited \subseteq RightStates
    /\ partners \in [RightStates -> SUBSET LeftStates]
    /\ matches \subseteq left.rules
    /\ agenda \in Seq(seen)
    /\ seen \subseteq LeftStates
    /\ cancelled \in BOOLEAN

(* The first parts of MatchesAreKnown, for the rule r. *)
Agree == \A q \in RightStates : partners[q] = {l \in LeftStates : <<l, q>> \in Pairs}

MatchesOf(r) ==
    \A l \in matches :
        Joins(l, r) /\ \A i \in DOMAIN l.children : <<l.children[i], r.children[i]>> \in Pairs

WalkOK ==
    /\ WalkTypes /\ Agree /\ StackOK(work, visited)
    /\ walk = "join" => MatchesOf(Head(work).rule)
    /\ walk \in {"join", "saturate"} /\ Head(work).do = "saturate" =>
          seen \subseteq partners[Head(work).rule.result]

LEMMA WalkPairs == \A pair : TopDown!Known(pair) <=> pair \in Pairs
BY DEF TopDown!Known, TopDown!Ids, Pairs, Ids

LEMMA WalkOKIs == TopDown!WalkInv <=> WalkOK
<1>1. TopDown!MatchesAreKnown <=>
        /\ Agree
        /\ walk = "join" => MatchesOf(Head(work).rule)
        /\ walk \in {"join", "saturate"} /\ Head(work).do = "saturate" =>
              seen \subseteq partners[Head(work).rule.result]
  BY WalkPairs DEF TopDown!MatchesAreKnown, Agree, MatchesOf, TopDown!ChildrenKnown, TopDown!Joins, Joins
<1>2. StackOK(work, visited) => work \in Seq(TopDown!Steps)
  BY DEF StackOK
<1>3. TopDown!WalkTypes <=> WalkTypes /\ work \in Seq(TopDown!Steps)
  BY DEF TopDown!WalkTypes, WalkTypes
<1>. QED  BY <1>1, <1>2, <1>3, StackIs DEF WalkOK

LEMMA WalkOKNext == TopDown!WalkInv' <=> WalkOK'
BY WalkOKIs, PTL

LEMMA StepsKept ==
  ASSUME right' = right
  PROVE  /\ TopDown!Steps' = TopDown!Steps
         /\ \A s, V : StackOK(s, V)' <=> StackOK(s, V)
<1>1. TopDown!Steps' = TopDown!Steps
  BY DEF TopDown!Steps
<1>. QED  BY <1>1 DEF StackOK

LEMMA FinitePartners ==
  ASSUME ChartInv, NEW q
  PROVE  IsFiniteSet({l \in LeftStates : <<l, q>> \in Pairs})
<1>. DEFINE T == {l \in LeftStates : <<l, q>> \in Pairs}
            J == {i \in Ids : \E l \in LeftStates : product_pairs[i] = <<l, q>>}
            f == [i \in J |-> product_pairs[i][1]]
<1>1. IsFiniteSet(Ids)
  BY IdsAreInterval, FS_Interval
<1>2. IsFiniteSet(J)
  BY <1>1, FS_Subset
<1>3. \A i \in J : product_pairs[i][1] \in T
  BY DEF Pairs
<1>4. \A l \in T : \E i \in J : product_pairs[i][1] = l
  BY DEF Pairs
<1>5. f \in Surjection(J, T)
  <2>. HIDE DEF J, T
  <2>. QED  BY <1>3, <1>4 DEF Surjection
<1>. HIDE DEF J, T, f
<1>6. IsFiniteSet(T)
  BY <1>2, <1>5, FS_Surjection
<1>. QED  BY <1>6 DEF T

(* A step that leaves the chart and the partners alone. *)
LEMMA QuietStep ==
  ASSUME ChartInv, WalkOK, UNCHANGED <<left, right, strategy, product_pairs, accepting, rules, duplicate, partners>>
  PROVE  /\ ChartInv' /\ Agree' /\ Pairs' = Pairs
         /\ TopDown!Steps' = TopDown!Steps
         /\ \A s, V : StackOK(s, V)' <=> StackOK(s, V)
         /\ matches' = matches => \A r : MatchesOf(r)' <=> MatchesOf(r)
<1>1. ChartInv' /\ Pairs' = Pairs
  BY ChartKept
<1>2. Agree' /\ (matches' = matches => \A r : MatchesOf(r)' <=> MatchesOf(r))
  BY <1>1 DEF WalkOK, Agree, MatchesOf
<1>. QED  BY <1>1, <1>2, StepsKept

LEMMA WalkStart ==
  ASSUME ChartInv, WalkOK, TopDown!Start, strategy' = strategy
  PROVE  ChartInv' /\ WalkOK'
<1>. USE DEF TopDown!input, TopDown!chart, TopDown!loop
<1>1. UNCHANGED <<left, right, strategy, product_pairs, accepting, rules, duplicate, partners>>
  BY DEF TopDown!Start, TopDown!GiveUp
<1>2. CASE TopDown!GiveUp
  BY <1>1, <1>2, QuietStep DEF WalkOK, WalkTypes, TopDown!GiveUp
<1>3. CASE ~cancelled /\ \E accepted \in TopDown!SetToSeqs(right.accepting) : work' = TopDown!VisitAll(accepted)
  <2>1. PICK accepted \in SetToSeqs(right.accepting) : work' = TopDown!VisitAll(accepted)
    BY <1>3, WalkSequences
  <2>2. RightRulesOK /\ right.accepting \subseteq RightStates /\ IsFiniteSet(right.accepting)
    BY RightRules DEF ChartInv
  <2>3. accepted \in Seq(right.accepting)
    BY <2>2, OrderIs
  <2>4. accepted \in Seq(RightStates)
    BY <2>2, <2>3, SeqWiden
  <2>5. work' = [i \in 1..Len(accepted) |-> TopDown!Visit(accepted[i])] /\ Len(accepted) \in Nat
        /\ \A i \in 1..Len(accepted) : accepted[i] \in RightStates
    BY <2>1, <2>4 DEF TopDown!VisitAll
  <2>6. \A i \in 1..Len(accepted) : /\ TopDown!Visit(accepted[i]) \in TopDown!Steps
                                  /\ TopDown!Visit(accepted[i]).do = "visit"
    BY <2>2, <2>5, StepsAre, StepKinds
  <2>7. work' \in Seq(TopDown!Steps) /\ \A x \in Range(work') : x.do = "visit"
    BY <2>5, <2>6 DEF Range
  <2>8. StackOK(work', visited)
    BY <2>7, StackVisits
  <2>9. visited' = visited /\ walk' \in {"visit", "cancelled"} /\ UNCHANGED <<matches, agenda, seen, cancelled>>
    BY DEF TopDown!Start, TopDown!GiveUp
  <2>10. StackOK(work, visited)' <=> StackOK(work', visited')
    BY <1>1, StepsKept DEF StackOK
  <2>. QED  BY <1>1, <2>8, <2>9, <2>10, QuietStep DEF WalkOK, WalkTypes
<1>. QED  BY <1>2, <1>3 DEF TopDown!Start

LEMMA WalkEnterVisit ==
  ASSUME ChartInv, WalkOK, TopDown!EnterVisit, strategy' = strategy
  PROVE  ChartInv' /\ WalkOK'
<1>. USE DEF TopDown!input, TopDown!chart, TopDown!loop
<1>1. UNCHANGED <<left, right, strategy, product_pairs, accepting, rules, duplicate, partners>>
  BY DEF TopDown!EnterVisit, TopDown!GiveUp
<1>2. CASE TopDown!GiveUp
  BY <1>1, <1>2, QuietStep DEF WalkOK, WalkTypes, TopDown!GiveUp
<1>3. CASE ~TopDown!GiveUp
  <2>. DEFINE q == Head(work).state
              W == visited \cup {q}
  <2>1. /\ walk = "visit" /\ work # <<>> /\ Head(work).do = "visit"
        /\ visited' = W
        /\ IF q \in visited THEN work' = Tail(work)
           ELSE \E listed \in SetToSeqs(TopDown!CondensedRulesByParent(q)) :
                   work' = TopDown!BodyOf(q, listed) \o Tail(work)
        /\ walk' = walk /\ UNCHANGED <<matches, agenda, seen, cancelled>>
    BY <1>3, WalkSequences DEF TopDown!EnterVisit, TopDown!Doing
  <2>2. RightRulesOK /\ IsFiniteSet(right.rules)
    BY RightRules DEF ChartInv
  <2>3. q \in RightStates
    <3>1. Head(work) \in TopDown!Steps
      BY <2>1, TailFacts DEF WalkOK, StackOK
    <3>. QED  BY <2>1, <2>2, <3>1, StepsAre, StepKinds
  <2>4. StackOK(Tail(work), W)
    BY <2>1, StackTail DEF WalkOK
  <2>5. StackOK(work', W)
    <3>1. CASE q \in visited
      BY <2>1, <2>4, <3>1
    <3>2. CASE q \notin visited
      <4>1. PICK listed \in SetToSeqs(TopDown!CondensedRulesByParent(q)) :
                   work' = TopDown!BodyOf(q, listed) \o Tail(work)
        BY <2>1, <3>2
      <4>2. listed \in SetToSeqs({r \in right.rules : r.result = q})
        BY DEF TopDown!CondensedRulesByParent
      <4>3. \A x \in Own(Tail(work)) : TopDown!Owner(x) # q
        <5>1. Range(Tail(work)) \subseteq Range(work)
          BY <2>1, TailFacts DEF WalkOK, StackOK
        <5>2. \A x \in Own(work) : TopDown!Owner(x) \in visited
          BY DEF WalkOK, StackOK, Owned
        <5>. QED  BY <3>2, <5>1, <5>2 DEF Own
      <4>. HIDE DEF q
      <4>4. q \in W
        OBVIOUS
      <4>. HIDE DEF W
      <4>5. StackOK(TopDown!BodyOf(q, listed) \o Tail(work), W)
        BY <2>2, <2>3, <2>4, <4>2, <4>3, <4>4, StackBody
      <4>. QED  BY <4>1, <4>5
    <3>. QED  BY <3>1, <3>2
  <2>6. StackOK(work, visited)' <=> StackOK(work', visited')
    BY <1>1, StepsKept DEF StackOK
  <2>7. visited' \subseteq RightStates
    BY <2>1, <2>3 DEF WalkOK, WalkTypes
  <2>8. WalkTypes'
    BY <2>1, <2>7, <1>1 DEF WalkOK, WalkTypes
  <2>. QED  BY <1>1, <2>1, <2>5, <2>6, <2>8, QuietStep DEF WalkOK
<1>. QED  BY <1>2, <1>3

(* The steps that drop the head of the stack. *)
LEMMA WalkDrop ==
  ASSUME ChartInv, WalkOK, UNCHANGED <<left, right, strategy, product_pairs, accepting, rules, duplicate, partners>>,
         work # <<>>, Head(work).do # "visit", work' = Tail(work), walk' = "visit",
         UNCHANGED <<visited, matches, agenda, seen, cancelled>>
  PROVE  ChartInv' /\ WalkOK'
<1>1. StackOK(Tail(work), visited)
  BY StackTail DEF WalkOK
<1>2. StackOK(work, visited)' <=> StackOK(work', visited')
  BY StepsKept DEF StackOK
<1>. QED  BY <1>1, <1>2, QuietStep DEF WalkOK, WalkTypes

LEMMA WalkReturn ==
  ASSUME ChartInv, WalkOK, TopDown!ReturnFromVisit, strategy' = strategy
  PROVE  ChartInv' /\ WalkOK'
BY WalkDrop DEF TopDown!ReturnFromVisit, TopDown!Doing, TopDown!input, TopDown!chart, TopDown!loop

LEMMA WalkEndSaturation ==
  ASSUME ChartInv, WalkOK, TopDown!EndSaturation, strategy' = strategy
  PROVE  ChartInv' /\ WalkOK'
BY WalkDrop DEF TopDown!EndSaturation, TopDown!input, TopDown!chart, TopDown!loop, WalkOK, WalkTypes

LEMMA WalkEndJoin ==
  ASSUME ChartInv, WalkOK, TopDown!EndJoin, strategy' = strategy
  PROVE  ChartInv' /\ WalkOK'
<1>. USE DEF TopDown!input, TopDown!chart, TopDown!loop
<1>1. UNCHANGED <<left, right, strategy, product_pairs, accepting, rules, duplicate, partners>>
      /\ UNCHANGED <<visited, matches, agenda, seen, cancelled>>
  BY DEF TopDown!EndJoin
<1>2. CASE Head(work).do = "saturate"
  <2>1. walk = "join" /\ walk' = "saturate" /\ work' = work /\ work # <<>>
    BY <1>2 DEF TopDown!EndJoin, WalkOK, WalkTypes
  <2>2. StackOK(work, visited)' <=> StackOK(work', visited')
    BY <1>1, StepsKept DEF StackOK
  <2>. QED  BY <1>1, <1>2, <2>1, <2>2, QuietStep DEF WalkOK, WalkTypes
<1>3. CASE Head(work).do # "saturate"
  <2>1. walk' = "visit" /\ work' = Tail(work) /\ work # <<>> /\ Head(work).do # "visit"
    BY <1>3 DEF TopDown!EndJoin, WalkOK, WalkTypes
  <2>. QED  BY <1>1, <2>1, WalkDrop
<1>. QED  BY <1>2, <1>3

LEMMA WalkFinish ==
  ASSUME ChartInv, WalkOK, TopDown!Finish, strategy' = strategy
  PROVE  ChartInv' /\ WalkOK'
<1>. USE DEF TopDown!input, TopDown!chart, TopDown!loop
<1>1. UNCHANGED <<left, right, strategy, product_pairs, accepting, rules, duplicate, partners>>
      /\ UNCHANGED <<work, visited, matches, agenda, seen, cancelled>> /\ walk' \in {"cancelled", "done"}
  BY DEF TopDown!Finish
<1>2. StackOK(work, visited)' <=> StackOK(work', visited')
  BY <1>1, StepsKept DEF StackOK
<1>. QED  BY <1>1, <1>2, QuietStep DEF WalkOK, WalkTypes

LEMMA WalkCancelled ==
  ASSUME ChartInv, WalkOK,
         UNCHANGED <<left, right, strategy, product_pairs, accepting, rules, duplicate, walk_vars>>,
         cancelled' \in BOOLEAN
  PROVE  ChartInv' /\ WalkOK'
<1>1. UNCHANGED <<walk, work, visited, partners, matches, agenda, seen>>
  BY DEF walk_vars
<1>2. StackOK(work, visited)' <=> StackOK(work', visited')
  BY <1>1, StepsKept DEF StackOK
<1>. QED  BY <1>1, <1>2, QuietStep DEF WalkOK, WalkTypes

LEMMA LeftRules ==
  ASSUME left \in Lefts, NEW l \in left.rules
  PROVE  /\ l.symbol \in Symbols /\ l.children \in Seq(LeftStates) /\ l.result \in LeftStates
         /\ Len(l.children) \in Nat /\ DOMAIN l.children = 1..Len(l.children)
BY InputsAreAutomata DEF IsExplicit, ExplicitRules

(* The rule that a join or a saturation works on. *)
LEMMA RuleAtHead ==
  ASSUME right \in Rights, StackOK(work, visited), work # <<>>, Head(work).do \in {"join", "saturate"}
  PROVE  LET r == Head(work).rule
         IN  /\ r \in right.rules /\ r.result \in RightStates
             /\ \A i \in DOMAIN r.children : r.children[i] \in RightStates
             /\ DOMAIN r.children = 1..Len(r.children)
             /\ Head(work).do = "join" => r.result \notin Range(r.children)
             /\ Head(work).do = "saturate" =>
                   Head(work).position \in DOMAIN r.children /\ r.children[Head(work).position] = r.result
<1>1. RightRulesOK
  BY RightRules
<1>2. Head(work) \in TopDown!Steps
  BY TailFacts DEF StackOK
<1>3. Head(work).rule \in right.rules
  BY <1>1, <1>2, StepsAre, StepKinds
<1>4. Head(work).do = "join" => Head(work).rule.result \notin Range(Head(work).rule.children)
  BY <1>1, <1>2, StepsAre, StepKinds, WalkSequences DEF TopDown!IsLoop
<1>5. Head(work).do = "saturate" =>
        /\ Head(work).position \in DOMAIN Head(work).rule.children
        /\ Head(work).rule.children[Head(work).position] = Head(work).rule.result
  BY <1>1, <1>2, StepsAre, StepKinds
<1>6. Head(work).rule.result \in RightStates /\ Head(work).rule.children \in Seq(RightStates)
  BY <1>1, <1>3 DEF RightRulesOK
<1>. QED  BY <1>3, <1>4, <1>5, <1>6

LEMMA WalkJoin ==
  ASSUME ChartInv, WalkOK, TopDown!JoinNormalRule, strategy' = strategy
  PROVE  ChartInv' /\ WalkOK'
<1>. USE DEF TopDown!input, TopDown!chart, TopDown!loop
<1>. DEFINE r == Head(work).rule
<1>1. UNCHANGED <<left, right, strategy, product_pairs, accepting, rules, duplicate, partners>>
      /\ UNCHANGED <<work, visited, agenda, seen, cancelled>> /\ walk' = "join"
      /\ work # <<>> /\ Head(work).do = "join"
      /\ matches' = TopDown!MatchesFor(r, TopDown!PartnerSets(r))
  BY DEF TopDown!JoinNormalRule, TopDown!Doing
<1>2. r \in right.rules /\ DOMAIN r.children = 1..Len(r.children)
      /\ \A i \in DOMAIN r.children : r.children[i] \in RightStates
  BY <1>1, RuleAtHead DEF WalkOK, ChartInv
<1>3. matches' = {l \in left.rules : Joins(l, r) /\
                     \A i \in DOMAIN l.children : l.children[i] \in TopDown!PartnerSets(r)[i]}
  BY <1>1 DEF TopDown!MatchesFor, TopDown!Joins, Joins
<1>4. \A l \in left.rules : Joins(l, r) => DOMAIN l.children = DOMAIN r.children
  BY <1>2, LeftRules DEF ChartInv, Joins
<1>5. \A i \in DOMAIN r.children :
         TopDown!PartnerSets(r)[i] = {q \in LeftStates : <<q, r.children[i]>> \in Pairs}
  BY <1>2 DEF TopDown!PartnerSets, WalkOK, Agree
<1>6. MatchesOf(r)'
  <2>1. Pairs' = Pairs
    BY <1>1, QuietStep
  <2>. HIDE DEF r
  <2>2. \A l \in matches' : Joins(l, r) /\ \A i \in DOMAIN l.children : <<l.children[i], r.children[i]>> \in Pairs
    BY <1>3, <1>4, <1>5
  <2>. QED  BY <1>1, <2>1, <2>2 DEF MatchesOf, r
<1>7. StackOK(work, visited)' <=> StackOK(work', visited')
  BY <1>1, StepsKept DEF StackOK
<1>8. matches' \subseteq left'.rules
  BY <1>1, <1>3
<1>9. ~(walk' \in {"join", "saturate"} /\ Head(work').do = "saturate")
  BY <1>1
<1>10. MatchesOf(Head(work).rule)'
  BY <1>1, <1>6 DEF MatchesOf
<1>11. ChartInv' /\ Agree'
  BY <1>1, QuietStep
<1>12. WalkTypes'
  BY <1>1, <1>8 DEF WalkOK, WalkTypes
<1>. QED  BY <1>1, <1>7, <1>9, <1>10, <1>11, <1>12 DEF WalkOK

LEMMA WalkStartSaturation ==
  ASSUME ChartInv, WalkOK, TopDown!StartSaturation, strategy' = strategy
  PROVE  ChartInv' /\ WalkOK'
<1>. USE DEF TopDown!input, TopDown!chart, TopDown!loop
<1>. DEFINE q == Head(work).rule.result
<1>1. UNCHANGED <<left, right, strategy, product_pairs, accepting, rules, duplicate, partners>>
      /\ UNCHANGED <<work, visited, matches, cancelled>> /\ walk' = "saturate"
      /\ work # <<>> /\ Head(work).do = "saturate"
      /\ seen' = partners[q] /\ \E listed \in SetToSeqs(partners[q]) : agenda' = listed
  BY WalkSequences DEF TopDown!StartSaturation, TopDown!Doing
<1>2. q \in RightStates
  BY <1>1, RuleAtHead DEF WalkOK, ChartInv
<1>3. IsFiniteSet(partners[q])
  BY <1>2, FinitePartners DEF WalkOK, Agree
<1>4. agenda' \in Seq(seen')
  BY <1>1, <1>3, OrderIs
<1>5. seen' \subseteq LeftStates
  BY <1>1, <1>2 DEF WalkOK, WalkTypes
<1>7. StackOK(work, visited)' <=> StackOK(work', visited')
  BY <1>1, StepsKept DEF StackOK
<1>8. WalkTypes'
  BY <1>1, <1>4, <1>5 DEF WalkOK, WalkTypes
<1>. QED  BY <1>1, <1>7, <1>8, QuietStep DEF WalkOK

LEMMA WalkTryPartner ==
  ASSUME ChartInv, WalkOK, TopDown!TryPartner, strategy' = strategy
  PROVE  ChartInv' /\ WalkOK'
<1>. USE DEF TopDown!input, TopDown!chart, TopDown!loop
<1>1. UNCHANGED <<left, right, strategy, product_pairs, accepting, rules, duplicate, partners>>
      /\ UNCHANGED <<work, visited, cancelled>>
      /\ walk = "saturate" /\ work # <<>> /\ Head(work).do = "saturate"
  BY DEF TopDown!TryPartner, TopDown!GiveUp, WalkOK, WalkTypes
<1>2. StackOK(work, visited)' <=> StackOK(work', visited')
  BY <1>1, StepsKept DEF StackOK
<1>3. CASE TopDown!GiveUp
  BY <1>1, <1>2, <1>3, QuietStep DEF WalkOK, WalkTypes, TopDown!GiveUp
<1>4. CASE ~TopDown!GiveUp
  <2>. DEFINE r == Head(work).rule
              p == Head(work).position
              sets == [TopDown!PartnerSets(r) EXCEPT ![p] = {Head(agenda)}]
  <2>1. /\ walk' = "join" /\ agenda' = Tail(agenda) /\ seen' = seen
        /\ matches' = TopDown!MatchesFor(r, sets)
        /\ agenda # <<>>
    BY <1>4 DEF TopDown!TryPartner
  <2>2. /\ r \in right.rules /\ DOMAIN r.children = 1..Len(r.children)
        /\ \A i \in DOMAIN r.children : r.children[i] \in RightStates
        /\ p \in DOMAIN r.children /\ r.children[p] = r.result /\ r.result \in RightStates
    BY <1>1, RuleAtHead DEF WalkOK, ChartInv
  <2>3. matches' = {l \in left.rules : Joins(l, r) /\
                       \A i \in DOMAIN l.children : l.children[i] \in sets[i]}
    BY <2>1 DEF TopDown!MatchesFor, TopDown!Joins, Joins
  <2>4. \A l \in left.rules : Joins(l, r) => DOMAIN l.children = DOMAIN r.children
    BY <2>2, LeftRules DEF ChartInv, Joins
  <2>5. Head(agenda) \in seen /\ agenda' \in Seq(seen)
    BY <2>1 DEF WalkOK, WalkTypes
  <2>6. seen \subseteq partners[r.result]
    BY <1>1 DEF WalkOK
  <2>7. \A i \in DOMAIN r.children : sets[i] \subseteq {q \in LeftStates : <<q, r.children[i]>> \in Pairs}
    <3>. SUFFICES ASSUME NEW i \in DOMAIN r.children
                  PROVE  sets[i] \subseteq {q \in LeftStates : <<q, r.children[i]>> \in Pairs}
      OBVIOUS
    <3>1. partners[r.children[i]] = {q \in LeftStates : <<q, r.children[i]>> \in Pairs}
      BY <2>2 DEF WalkOK, Agree
    <3>2. sets[i] = IF i = p THEN {Head(agenda)} ELSE partners[r.children[i]]
      BY DEF TopDown!PartnerSets
    <3>3. i = p => r.children[i] = r.result
      BY <2>2
    <3>. HIDE DEF sets, r, p
    <3>. QED  BY <2>5, <2>6, <3>1, <3>2, <3>3
  <2>8. MatchesOf(Head(work).rule)'
    <3>1. Pairs' = Pairs
      BY <1>1, QuietStep
    <3>. HIDE DEF r, sets
    <3>2. \A l \in matches' : Joins(l, r) /\ \A i \in DOMAIN l.children : <<l.children[i], r.children[i]>> \in Pairs
      BY <2>3, <2>4, <2>7
    <3>. QED  BY <1>1, <3>1, <3>2 DEF MatchesOf, r
  <2>9. matches' \subseteq left'.rules
    <3>. HIDE DEF r, sets
    <3>. QED  BY <1>1, <2>3
  <2>10. WalkTypes'
    <3>. HIDE DEF r, sets
    <3>. QED  BY <1>1, <2>1, <2>5, <2>9 DEF WalkOK, WalkTypes
  <2>11. seen' \subseteq partners'[Head(work').rule.result]
    BY <1>1, <2>1, <2>6
  <2>12. ChartInv' /\ Agree'
    BY <1>1, QuietStep
  <2>13. StackOK(work, visited)'
    BY <1>1, <1>2 DEF WalkOK
  <2>. HIDE DEF r, p, sets
  <2>. QED  BY <2>8, <2>10, <2>11, <2>12, <2>13 DEF WalkOK
<1>. QED  BY <1>3, <1>4

LEMMA WalkCollectPair ==
  ASSUME ChartInv, WalkOK, NEW l, TopDown!CollectPair(l), strategy' = strategy
  PROVE  ChartInv' /\ WalkOK'
<1>. USE DEF TopDown!input, TopDown!chart, TopDown!loop
<1>1. UNCHANGED <<left, right, strategy, work, visited, cancelled>>
      /\ walk = "join" /\ work # <<>> /\ Head(work).do \in {"join", "saturate"} /\ l \in matches
  BY DEF TopDown!CollectPair, TopDown!GiveUp, WalkOK, WalkTypes
<1>2. StackOK(work, visited)' <=> StackOK(work', visited')
  BY <1>1, StepsKept DEF StackOK
<1>3. CASE TopDown!GiveUp
  <2>1. UNCHANGED <<left, right, strategy, product_pairs, accepting, rules, duplicate, partners>>
    BY <1>1, <1>3 DEF TopDown!GiveUp
  <2>2. walk' = "cancelled" /\ UNCHANGED <<matches, agenda, seen>>
    BY <1>3 DEF TopDown!GiveUp
  <2>. QED  BY <1>1, <1>2, <2>1, <2>2, QuietStep DEF WalkOK, WalkTypes
<1>4. CASE ~TopDown!GiveUp
  <2>. DEFINE r == Head(work).rule
              pair == <<l.result, r.result>>
              ids == [i \in DOMAIN l.children |-> IdOf(<<l.children[i], r.children[i]>>)]
  <2>1. l \in left.rules /\ Joins(l, r) /\ \A i \in DOMAIN l.children : <<l.children[i], r.children[i]>> \in Pairs
    BY <1>1 DEF WalkOK, WalkTypes, MatchesOf
  <2>2. /\ r \in right.rules /\ r.result \in RightStates
    BY <1>1, RuleAtHead DEF WalkOK, ChartInv
  <2>3. TopDown!ChildrenKnown(l, r)
    BY <2>1, WalkPairs DEF TopDown!ChildrenKnown
  <2>4. /\ AddProductRule(l.symbol, ids, pair)
        /\ partners' = IF ~TopDown!Known(pair) THEN [partners EXCEPT ![r.result] = @ \cup {l.result}] ELSE partners
        /\ \/ seen' = seen /\ agenda' = agenda
           \/ ~TopDown!Known(pair) /\ seen' = seen \cup {l.result} /\ agenda' = Append(agenda, l.result)
        /\ matches' = matches \ {l} /\ walk' = walk
    <3>1. TopDown!AddProductRule(l.symbol,
             [i \in DOMAIN l.children |-> TopDown!IdOf(<<l.children[i], r.children[i]>>)], pair)
      BY <1>4, <2>3 DEF TopDown!CollectPair
    <3>2. [i \in DOMAIN l.children |-> TopDown!IdOf(<<l.children[i], r.children[i]>>)] = ids
      BY WalkChart
    <3>3. AddProductRule(l.symbol, ids, pair)
      BY <3>1, <3>2, WalkChart
    <3>. QED  BY <1>4, <2>3, <3>3 DEF TopDown!CollectPair
  <2>5. l.symbol \in Symbols /\ l.result \in LeftStates /\ DOMAIN l.children = 1..Len(l.children) /\ Len(l.children) \in Nat
    BY <2>1, LeftRules DEF ChartInv
  <2>6. ids \in Seq(Ids)
    <3>1. \A i \in DOMAIN l.children : IdOf(<<l.children[i], r.children[i]>>) \in Ids
      BY <2>1, IdOfKnown, IdsAreInterval
    <3>. QED  BY <2>5, <3>1
  <2>7. pair \in LeftStates \X RightStates
    BY <2>2, <2>5
  <2>. HIDE DEF ids, pair
  <2>8. ChartInv' /\ Pairs' = Pairs \cup {pair}
    BY <1>1, <2>4, <2>5, <2>6, <2>7, ChartGrows
  <2>9. TopDown!Known(pair) => pair \in Pairs
    BY WalkPairs
  <2>10. partners' \in [RightStates -> SUBSET LeftStates]
    BY <2>2, <2>4, <2>5 DEF WalkOK, WalkTypes
  <2>11. Agree'
    <3>. SUFFICES ASSUME NEW q \in RightStates
                  PROVE  partners'[q] = {x \in LeftStates : <<x, q>> \in Pairs'}
      BY DEF Agree
    <3>1. partners[q] = {x \in LeftStates : <<x, q>> \in Pairs}
      BY DEF WalkOK, Agree
    <3>2. CASE TopDown!Known(pair)
      BY <2>4, <2>8, <2>9, <3>1, <3>2
    <3>3. CASE ~TopDown!Known(pair)
      <4>1. partners' = [partners EXCEPT ![r.result] = @ \cup {l.result}]
        BY <2>4, <3>3
      <4>. HIDE DEF r
      <4>2. partners'[q] = IF q = r.result THEN partners[q] \cup {l.result} ELSE partners[q]
        BY <2>2, <4>1 DEF WalkOK, WalkTypes
      <4>3. \A x : <<x, q>> \in Pairs' <=> <<x, q>> \in Pairs \/ (x = l.result /\ q = r.result)
        BY <2>8 DEF pair
      <4>. QED  BY <2>5, <3>1, <4>2, <4>3
    <3>. QED  BY <3>2, <3>3
  <2>12. MatchesOf(Head(work).rule)'
    <3>1. matches' \subseteq matches /\ Pairs \subseteq Pairs' /\ work' = work
      BY <1>1, <2>4, <2>8
    <3>. QED  BY <1>1, <3>1 DEF WalkOK, MatchesOf
  <2>13. agenda' \in Seq(seen') /\ seen' \subseteq LeftStates
    <3>1. agenda \in Seq(seen) /\ seen \subseteq LeftStates
      BY DEF WalkOK, WalkTypes
    <3>2. agenda \in Seq(seen \cup {l.result})
      BY <3>1, SeqWiden
    <3>. QED  BY <2>4, <2>5, <3>1, <3>2
  <2>14. WalkTypes'
    BY <1>1, <2>4, <2>10, <2>13 DEF WalkOK, WalkTypes
  <2>15. Head(work).do = "saturate" => seen' \subseteq partners'[Head(work').rule.result]
    <3>. HIDE DEF r
    <3>1. ASSUME Head(work).do = "saturate" PROVE seen \subseteq partners[r.result]
      BY <1>1, <3>1 DEF WalkOK, r
    <3>2. ~TopDown!Known(pair) => partners'[r.result] = partners[r.result] \cup {l.result}
      BY <2>2, <2>4 DEF WalkOK, WalkTypes
    <3>3. TopDown!Known(pair) => partners' = partners
      BY <2>4
    <3>4. Head(work).do = "saturate" => seen' \subseteq partners'[r.result]
      BY <2>4, <3>1, <3>2, <3>3
    <3>. QED  BY <1>1, <3>4 DEF r
  <2>. QED  BY <1>1, <1>2, <2>8, <2>11, <2>12, <2>14, <2>15 DEF WalkOK
<1>. QED  BY <1>3, <1>4

LEMMA WalkInit ==
  ASSUME Init
  PROVE  ChartInv /\ WalkOK
<1>1. /\ left \in Lefts /\ right \in Rights /\ product_pairs = <<>> /\ accepting = {} /\ rules = {}
      /\ duplicate = FALSE /\ walk = "start" /\ work = <<>> /\ visited = {}
      /\ partners = [q \in RightStates |-> {}] /\ matches = {} /\ agenda = <<>> /\ seen = {}
      /\ cancelled = FALSE
  BY DEF Init, TopDown!Init, TopDown!InitChart
<1>2. Ids = {} /\ Pairs = {} /\ product_pairs \in Seq(Pairs)
  BY <1>1 DEF Ids, Pairs
<1>3. ChartInv
  <2>1. WellFounded
    BY <1>2 DEF WellFounded
  <2>2. rules \subseteq [symbol : Symbols, children : Seq(Ids), parent : Ids]
    BY <1>1
  <2>3. accepting \subseteq Ids /\ duplicate \in BOOLEAN /\ Pairs \subseteq LeftStates \X RightStates
    BY <1>1, <1>2
  <2>. QED  BY <1>1, <1>2, <2>1, <2>2, <2>3 DEF ChartInv
<1>4. StackOK(work, visited)
  <2>1. work \in Seq(TopDown!Steps) /\ Range(work) = {}
    BY <1>1 DEF Range
  <2>. QED  BY <2>1, StackVisits
<1>5. Agree
  BY <1>1, <1>2 DEF Agree
<1>6. WalkTypes
  <2>1. agenda \in Seq(seen) /\ seen \subseteq LeftStates
    BY <1>1
  <2>2. partners \in [RightStates -> SUBSET LeftStates]
    BY <1>1
  <2>. QED  BY <1>1, <2>1, <2>2 DEF WalkTypes
<1>. QED  BY <1>1, <1>3, <1>4, <1>5, <1>6 DEF WalkOK

LEMMA WalkWorks ==
  ASSUME ChartInv, WalkOK, TopDown!Work, strategy' = strategy
  PROVE  ChartInv' /\ WalkOK'
<1>1. CASE TopDown!Start \/ TopDown!EnterVisit \/ TopDown!ReturnFromVisit
  BY <1>1, WalkStart, WalkEnterVisit, WalkReturn
<1>2. CASE TopDown!JoinNormalRule \/ TopDown!StartSaturation \/ TopDown!TryPartner
  BY <1>2, WalkJoin, WalkStartSaturation, WalkTryPartner
<1>3. CASE \E l \in matches : TopDown!CollectPair(l)
  BY <1>3, WalkCollectPair
<1>4. CASE TopDown!EndJoin \/ TopDown!EndSaturation \/ TopDown!Finish
  BY <1>4, WalkEndJoin, WalkEndSaturation, WalkFinish
<1>. QED  BY <1>1, <1>2, <1>3, <1>4 DEF TopDown!Work

(* The walk of a top-down job; in the others it does not begin. *)
WalkSafe ==
    IF strategy = "top-down" THEN ChartInv /\ WalkOK
                             ELSE walk = "start" /\ work = <<>> /\ visited = {}

LEMMA WalkStep ==
  ASSUME WalkSafe, [Next]_vars
  PROVE  WalkSafe'
<1>1. strategy' = strategy
  BY DEF Next, vars, ParseTopDown, ParseWithSiblings, FilterChart, MaterializeLazily, Cancel
<1>2. CASE strategy # "top-down"
  <2>1. UNCHANGED walk_vars
    BY <1>2 DEF Next, vars, ParseTopDown, ParseWithSiblings, FilterChart, MaterializeLazily, Cancel
  <2>. QED  BY <1>1, <1>2, <2>1 DEF WalkSafe, walk_vars
<1>3. CASE strategy = "top-down"
  <2>1. ChartInv /\ WalkOK
    BY <1>3 DEF WalkSafe
  <2>2. CASE ParseTopDown
    BY <1>1, <1>3, <2>1, <2>2, WalkWorks DEF ParseTopDown, WalkSafe
  <2>3. CASE Cancel
    <3>1. /\ UNCHANGED <<left, right, strategy, product_pairs, accepting, rules, duplicate, walk_vars>>
          /\ cancelled' \in BOOLEAN
      BY <2>3 DEF Cancel, Sibling!Cancel, Sibling!input, Sibling!chart
    <3>. QED  BY <1>1, <1>3, <2>1, <3>1, WalkCancelled DEF WalkSafe
  <2>4. CASE UNCHANGED vars
    <3>1. /\ UNCHANGED <<left, right, strategy, product_pairs, accepting, rules, duplicate, walk_vars>>
          /\ cancelled' \in BOOLEAN
      BY <2>1, <2>4 DEF vars, WalkOK, WalkTypes
    <3>. QED  BY <1>1, <1>3, <2>1, <3>1, WalkCancelled DEF WalkSafe
  <2>. QED  BY <1>3, <2>2, <2>3, <2>4 DEF Next, ParseWithSiblings, FilterChart, MaterializeLazily
<1>. QED  BY <1>2, <1>3

LEMMA WalkAlwaysSafe == Spec => []WalkSafe
<1>1. Init => WalkSafe
  <2>1. Init => walk = "start" /\ work = <<>> /\ visited = {}
    BY DEF Init, TopDown!Init
  <2>. QED  BY <2>1, WalkInit DEF WalkSafe
<1>. QED  BY <1>1, WalkStep, PTL DEF Spec

(* Whatever the automata and whenever the job is cancelled: the partner     *)
(* sets that steer the joins of the top-down walk are the product states,   *)
(* so that every match has ids for its children; and no right state is      *)
(* visited twice.                                                           *)
THEOREM PartnersStayProducts == Spec => []PartnersAreProducts
<1>1. WalkSafe => PartnersAreProducts
  <2>. SUFFICES ASSUME WalkSafe, strategy = "top-down"
                PROVE  TopDown!PartnersAreProducts
    BY DEF PartnersAreProducts
  <2>1. WalkOK /\ TopDown!WalkInv
    BY WalkOKIs DEF WalkSafe
  <2>2. work \in Seq(TopDown!Steps)
    BY <2>1 DEF WalkOK, StackOK
  <2>3. TopDown!Active \subseteq visited
    <3>. SUFFICES ASSUME NEW q \in TopDown!Active
                  PROVE  q \in visited
      OBVIOUS
    <3>1. TopDown!Return(q) \in Own(work)
      BY StepKinds, WalkSequences DEF TopDown!Active, Own
    <3>. QED  BY <2>1, <3>1, OwnersAre DEF WalkOK, StackOK, Owned
  <2>4. \A i, j \in DOMAIN work : work[i] = work[j] /\ work[i].do = "return" => i = j
    BY <2>1 DEF WalkOK, StackOK, Once
  <2>. QED  BY <2>1, <2>3, <2>4 DEF TopDown!PartnersAreProducts, TopDown!WalkInv, TopDown!MatchesAreKnown
<1>. QED  BY <1>1, WalkAlwaysSafe, PTL

-----------------------------------------------------------------------------
(* Partners are final when they are used.                                   *)

(* No calls below one another but for loop rules: going down a rule to      *)
(* another state goes down in rank.                                         *)
Descends(a, rank) ==
    \A r \in a.rules : \A c \in Range(r.children) : c # r.result => rank[c] < rank[r.result]

(* The calls deeper in the stack are for states of no higher rank. *)
Falls(s, rank) ==
    \A j \in DOMAIN s : s[j].do = "return" =>
        \A i \in 1..(j - 1) : rank[TopDown!Owner(s[i])] <= rank[s[j].state]

LEMMA OwnerIsState ==
  ASSUME RightRulesOK, NEW step \in TopDown!Steps
  PROVE  TopDown!Owner(step) \in RightStates
BY StepsAre, StepKinds, OwnersAre DEF RightRulesOK

LEMMA TailFalls ==
  ASSUME NEW T, NEW s \in Seq(T), s # <<>>, NEW rank, Falls(s, rank)
  PROVE  Falls(Tail(s), rank)
<1>. DEFINE n == Len(s)
            t == Tail(s)
<1>1. /\ n \in Nat /\ DOMAIN s = 1..n /\ DOMAIN t = 1..(n - 1)
      /\ \A i \in 1..(n - 1) : t[i] = s[i + 1]
  BY TailFacts
<1>. HIDE DEF n, t
<1>. SUFFICES ASSUME NEW j \in 1..(n - 1), t[j].do = "return", NEW i \in 1..(j - 1)
              PROVE  rank[TopDown!Owner(t[i])] <= rank[t[j].state]
  BY <1>1 DEF Falls, t
<1>2. i \in 1..(n - 1) /\ i + 1 \in 1..((j + 1) - 1) /\ j + 1 \in 1..n
  BY <1>1
<1>3. t[i] = s[i + 1] /\ t[j] = s[j + 1]
  BY <1>1, <1>2
<1>. QED  BY <1>1, <1>2, <1>3 DEF Falls

LEMMA BodyFalls ==
  ASSUME RightRulesOK, NEW rank \in [RightStates -> Nat], Descends(right, rank),
         NEW s \in Seq(TopDown!Steps), s # <<>>, Falls(s, rank),
         NEW q \in RightStates, TopDown!Owner(Head(s)) = q,
         NEW b \in Seq(TopDown!Steps), \A x \in Range(b) : StepIn(q, x)
  PROVE  Falls(b \o Tail(s), rank)
<1>. DEFINE m == Len(b)
            n == Len(s)
            t == Tail(s)
            all == b \o t
<1>1. /\ n \in Nat /\ n # 0 /\ DOMAIN s = 1..n /\ Head(s) = s[1] /\ t \in Seq(TopDown!Steps)
      /\ Len(t) = n - 1 /\ DOMAIN t = 1..(n - 1)
      /\ \A i \in 1..(n - 1) : t[i] = s[i + 1]
  BY TailFacts
<1>2. Falls(t, rank)
  BY TailFalls
<1>. HIDE DEF t, n
<1>3. /\ m \in Nat /\ DOMAIN b = 1..m
      /\ DOMAIN all = 1..(m + (n - 1))
      /\ \A i \in 1..(m + (n - 1)) : all[i] = IF i <= m THEN b[i] ELSE t[i - m]
  <2>1. t \in Seq(TopDown!Steps)
    BY <1>1
  <2>2. /\ m \in Nat /\ DOMAIN b = 1..m
        /\ DOMAIN all = 1..(m + Len(t))
        /\ \A i \in 1..(m + Len(t)) : all[i] = IF i <= m THEN b[i] ELSE t[i - m]
    BY ONLY b \in Seq(TopDown!Steps), <2>1
  <2>3. Len(t) = n - 1
    BY <1>1
  <2>. HIDE DEF m, all
  <2>. QED  BY ONLY <2>2, <2>3
<1>. HIDE DEF m, all
<1>4. \A i \in 1..m : rank[TopDown!Owner(b[i])] \in Nat /\ rank[TopDown!Owner(b[i])] <= rank[q]
  <2>. SUFFICES ASSUME NEW i \in 1..m
                PROVE  rank[TopDown!Owner(b[i])] \in Nat /\ rank[TopDown!Owner(b[i])] <= rank[q]
    OBVIOUS
  <2>1. b[i] \in TopDown!Steps /\ StepIn(q, b[i])
    BY <1>3 DEF Range
  <2>2. rank[TopDown!Owner(b[i])] \in Nat /\ rank[q] \in Nat
    BY <2>1, OwnerIsState
  <2>3. CASE TopDown!Owner(b[i]) = q
    BY <2>2, <2>3
  <2>4. CASE \E r \in right.rules : \E c \in Range(r.children) :
                r.result = q /\ c # q /\ b[i] = TopDown!Visit(c)
    <3>1. PICK r \in right.rules : \E c \in Range(r.children) :
                r.result = q /\ c # q /\ b[i] = TopDown!Visit(c)
      BY <2>4
    <3>2. PICK c \in Range(r.children) : r.result = q /\ c # q /\ b[i] = TopDown!Visit(c)
      BY <3>1
    <3>3. TopDown!Owner(b[i]) = c
      BY <3>2, OwnersAre
    <3>4. rank[c] < rank[q]
      BY <3>2 DEF Descends
    <3>. QED  BY <2>2, <3>3, <3>4
  <2>. QED  BY <2>1, <2>3, <2>4 DEF StepIn
<1>5. \A j \in 1..m : b[j].do = "return" => b[j].state = q
  <2>. SUFFICES ASSUME NEW j \in 1..m, b[j].do = "return"
                PROVE  b[j].state = q
    OBVIOUS
  <2>1. StepIn(q, b[j])
    BY <1>3 DEF Range
  <2>. QED  BY <2>1, StepKinds DEF StepIn, TopDown!Owner
<1>6. \A j \in 1..(n - 1) : t[j].do = "return" => rank[q] <= rank[t[j].state] /\ rank[t[j].state] \in Nat
  <2>. SUFFICES ASSUME NEW j \in 1..(n - 1), t[j].do = "return"
                PROVE  rank[q] <= rank[t[j].state] /\ rank[t[j].state] \in Nat
    OBVIOUS
  <2>1. j + 1 \in 1..n /\ 1 \in 1..((j + 1) - 1) /\ t[j] = s[j + 1]
    BY <1>1
  <2>2. rank[TopDown!Owner(s[1])] <= rank[t[j].state]
    BY <1>1, <2>1 DEF Falls
  <2>3. t[j] \in TopDown!Steps /\ TopDown!Owner(t[j]) = t[j].state
    BY <1>1 DEF TopDown!Owner
  <2>4. t[j].state \in RightStates
    BY <2>3, OwnerIsState
  <2>. QED  BY <1>1, <2>2, <2>4
<1>. SUFFICES ASSUME NEW j \in 1..(m + (n - 1)), all[j].do = "return", NEW i \in 1..(j - 1)
              PROVE  rank[TopDown!Owner(all[i])] <= rank[all[j].state]
  BY <1>3 DEF Falls, all, t
<1>7. i \in 1..(m + (n - 1))
  BY <1>1, <1>3
<1>8. CASE j <= m
  <2>1. j \in 1..m /\ i \in 1..m /\ all[j] = b[j] /\ all[i] = b[i]
    BY <1>3, <1>7, <1>8
  <2>. QED  BY <1>4, <1>5, <2>1
<1>9. CASE ~(j <= m) /\ i <= m
  <2>1. j - m \in 1..(n - 1) /\ i \in 1..m /\ all[j] = t[j - m] /\ all[i] = b[i]
    BY <1>1, <1>3, <1>7, <1>9
  <2>2. rank[TopDown!Owner(b[i])] \in Nat /\ rank[TopDown!Owner(b[i])] <= rank[q] /\ rank[q] \in Nat
    BY <1>4, <2>1
  <2>3. rank[q] <= rank[t[j - m].state] /\ rank[t[j - m].state] \in Nat
    BY <1>6, <2>1
  <2>. QED  BY <2>1, <2>2, <2>3
<1>10. CASE ~(j <= m) /\ ~(i <= m)
  <2>1. j - m \in 1..(n - 1) /\ i - m \in 1..((j - m) - 1) /\ all[j] = t[j - m] /\ all[i] = t[i - m]
    BY <1>1, <1>3, <1>7, <1>10
  <2>. QED  BY <1>1, <1>2, <2>1 DEF Falls
<1>. QED  BY <1>8, <1>9, <1>10

(* Only the loop rules of the right automaton go round. *)
OnlyLoops(a) == \E rank \in [RightStates -> Nat] : Descends(a, rank)

FallsSafe == \E rank \in [RightStates -> Nat] : Descends(right, rank) /\ Falls(work, rank)

LEMMA FallsWorks ==
  ASSUME ChartInv, WalkOK, FallsSafe, TopDown!Work, right' = right
  PROVE  FallsSafe'
<1>. USE DEF TopDown!input, TopDown!chart, TopDown!loop
<1>1. PICK rank \in [RightStates -> Nat] : Descends(right, rank) /\ Falls(work, rank)
  BY DEF FallsSafe
<1>2. RightRulesOK /\ right.accepting \subseteq RightStates /\ IsFiniteSet(right.rules) /\ IsFiniteSet(right.accepting)
  BY RightRules DEF ChartInv
<1>3. work \in Seq(TopDown!Steps)
  BY DEF WalkOK, StackOK
<1>. SUFFICES Falls(work', rank)
  BY <1>1 DEF FallsSafe, Falls, TopDown!Owner
<1>4. CASE work' = work
  BY <1>1, <1>4 DEF Falls
<1>5. CASE work # <<>> /\ work' = Tail(work)
  BY <1>1, <1>3, <1>5, TailFalls
<1>6. CASE TopDown!Start /\ work' # work
  <2>1. PICK accepted \in SetToSeqs(right.accepting) : work' = TopDown!VisitAll(accepted)
    BY <1>6, WalkSequences DEF TopDown!Start, TopDown!GiveUp
  <2>2. \A j \in DOMAIN work' : work'[j].do = "visit"
    BY <2>1, StepKinds DEF TopDown!VisitAll
  <2>. QED  BY <2>2 DEF Falls
<1>7. CASE TopDown!EnterVisit /\ work' # work /\ ~(work # <<>> /\ work' = Tail(work))
  <2>. DEFINE q == Head(work).state
  <2>1. PICK listed \in SetToSeqs({r \in right.rules : r.result = q}) :
            work' = TopDown!BodyOf(q, listed) \o Tail(work)
    BY <1>7, WalkSequences DEF TopDown!EnterVisit, TopDown!Doing, TopDown!GiveUp, TopDown!CondensedRulesByParent
  <2>2. work # <<>> /\ Head(work).do = "visit"
    BY <1>7 DEF TopDown!EnterVisit, TopDown!Doing
  <2>3. Head(work) \in TopDown!Steps /\ TopDown!Owner(Head(work)) = q
    BY <1>3, <2>2, TailFacts DEF TopDown!Owner
  <2>4. q \in RightStates
    BY <1>2, <2>3, OwnerIsState
  <2>. HIDE DEF q
  <2>5. /\ TopDown!BodyOf(q, listed) \in Seq(TopDown!Steps)
        /\ \A x \in Range(TopDown!BodyOf(q, listed)) : StepIn(q, x)
    BY <1>2, <2>4, BodyFacts
  <2>. QED  BY <1>1, <1>2, <1>3, <2>1, <2>2, <2>3, <2>4, <2>5, BodyFalls
<1>8. CASE TopDown!Start
  BY <1>4, <1>6, <1>8
<1>9. CASE TopDown!EnterVisit
  BY <1>4, <1>5, <1>7, <1>9
<1>10. CASE TopDown!ReturnFromVisit \/ TopDown!JoinNormalRule \/ TopDown!StartSaturation \/ TopDown!TryPartner
  BY <1>4, <1>5, <1>10 DEF TopDown!ReturnFromVisit, TopDown!Doing, TopDown!JoinNormalRule,
                           TopDown!StartSaturation, TopDown!TryPartner, TopDown!GiveUp
<1>11. CASE \E l \in matches : TopDown!CollectPair(l)
  BY <1>4, <1>11 DEF TopDown!CollectPair, TopDown!GiveUp
<1>12. CASE TopDown!EndJoin \/ TopDown!EndSaturation \/ TopDown!Finish
  BY <1>4, <1>5, <1>12 DEF TopDown!EndJoin, TopDown!EndSaturation, TopDown!Finish, WalkOK, WalkTypes
<1>. QED  BY <1>8, <1>9, <1>10, <1>11, <1>12 DEF TopDown!Work

(* What the top-down jobs walk goes round only through loop rules. *)
TopDownOnlyLoops == \A job \in Jobs : job.strategy = "top-down" => OnlyLoops(ImagesByParent[job.input])

LEMMA FallsInit ==
  ASSUME TopDownOnlyLoops, Init, strategy = "top-down"
  PROVE  FallsSafe
<1>1. OnlyLoops(right) /\ work = <<>>
  BY DEF Init, TopDown!Init, TopDownOnlyLoops
<1>2. PICK rank \in [RightStates -> Nat] : Descends(right, rank)
  BY <1>1 DEF OnlyLoops
<1>3. Falls(work, rank)
  BY <1>1 DEF Falls
<1>. QED  BY <1>2, <1>3 DEF FallsSafe

LEMMA FallsStep ==
  ASSUME WalkSafe, strategy = "top-down" => FallsSafe, [Next]_vars
  PROVE  (strategy = "top-down" => FallsSafe)'
<1>1. strategy' = strategy
  BY DEF Next, vars, ParseTopDown, ParseWithSiblings, FilterChart, MaterializeLazily, Cancel
<1>. SUFFICES ASSUME strategy = "top-down" PROVE FallsSafe'
  BY <1>1
<1>2. CASE ParseTopDown
  <2>1. TopDown!Work
    BY <1>2 DEF ParseTopDown
  <2>2. right' = right
    BY <2>1 DEF TopDown!Work, TopDown!Start, TopDown!EnterVisit, TopDown!ReturnFromVisit,
         TopDown!JoinNormalRule, TopDown!StartSaturation, TopDown!TryPartner, TopDown!CollectPair,
         TopDown!EndJoin, TopDown!EndSaturation, TopDown!Finish, TopDown!GiveUp, TopDown!input
  <2>. QED  BY <2>1, <2>2, FallsWorks DEF WalkSafe
<1>3. CASE Cancel \/ UNCHANGED vars
  <2>1. right' = right /\ work' = work
    BY <1>3 DEF Cancel, vars, walk_vars, Sibling!Cancel, Sibling!input
  <2>. QED  BY <2>1 DEF FallsSafe, Falls, TopDown!Owner
<1>. QED  BY <1>2, <1>3 DEF Next, ParseWithSiblings, FilterChart, MaterializeLazily

(* When the visit of a right state has returned, its partners are final,    *)
(* whatever the automaton: they only change inside its own call.            *)
LEMMA OwnCallChanges ==
  ASSUME WalkSafe, [Next]_vars, NEW q \in visited \ TopDown!Active
  PROVE  partners'[q] = partners[q]
<1>1. CASE UNCHANGED partners
  BY <1>1
<1>2. CASE partners' # partners
  <2>1. strategy = "top-down" /\ \E l \in matches : TopDown!CollectPair(l) /\ ~TopDown!GiveUp
    BY <1>2 DEF Next, vars, walk_vars, ParseTopDown, ParseWithSiblings, FilterChart, MaterializeLazily, Cancel,
           TopDown!Work, TopDown!Start, TopDown!EnterVisit, TopDown!ReturnFromVisit, TopDown!JoinNormalRule,
           TopDown!StartSaturation, TopDown!TryPartner, TopDown!CollectPair, TopDown!EndJoin,
           TopDown!EndSaturation, TopDown!Finish, TopDown!GiveUp, TopDown!chart
  <2>2. PICK l \in matches : TopDown!CollectPair(l) /\ ~TopDown!GiveUp
    BY <2>1
  <2>. DEFINE p == Head(work).rule.result
  <2>3. WalkOK /\ ChartInv /\ q \in RightStates
    BY <2>1 DEF WalkSafe, WalkOK, WalkTypes
  <2>4. partners' = [partners EXCEPT ![p] = @ \cup {l.result}]
    BY <1>2, <2>2 DEF TopDown!CollectPair, TopDown!chart
  <2>5. walk = "join" /\ work # <<>> /\ Head(work).do \in {"join", "saturate"}
    BY <2>2, <2>3 DEF TopDown!CollectPair, WalkOK, WalkTypes
  <2>6. p \in RightStates
    BY <2>3, <2>5, RuleAtHead DEF WalkOK, ChartInv
  <2>7. TopDown!Return(p) \in Range(work)
    <3>1. work \in Seq(TopDown!Steps) /\ Nested(work)
      BY <2>3 DEF WalkOK, StackOK
    <3>2. Head(work) = work[1] /\ Len(work) \in Nat /\ 1 \in DOMAIN work /\ DOMAIN work = 1..Len(work)
      BY <2>5, <3>1, TailFacts
    <3>3. PICK j \in (1 + 1)..Len(work) : work[j] = TopDown!Return(p)
      BY <2>5, <3>1, <3>2 DEF Nested
    <3>4. j \in DOMAIN work
      BY <3>2
    <3>. QED  BY <3>3, <3>4 DEF Range
  <2>8. q # p
    BY <2>6, <2>7, WalkSequences DEF TopDown!Active
  <2>. HIDE DEF p
  <2>. QED  BY <2>3, <2>4, <2>6, <2>8 DEF WalkOK, WalkTypes
<1>. QED  BY <1>1, <1>2

(* A normal rule is joined when its children have been visited, and no call *)
(* for one of them is still active.                                         *)
LEMMA ChildrenAreDone ==
  ASSUME WalkSafe, strategy = "top-down" => FallsSafe, TopDown!JoinNormalRule
  PROVE  TopDown!Range(Head(work).rule.children) \subseteq visited \ TopDown!Active
<1>1. walk = "visit" /\ work # <<>> /\ Head(work).do = "join"
  BY DEF TopDown!JoinNormalRule, TopDown!Doing
<1>2. ChartInv /\ WalkOK /\ FallsSafe
  BY <1>1 DEF WalkSafe
<1>. DEFINE r == Head(work).rule
<1>3. /\ r \in right.rules /\ r.result \in RightStates /\ r.result \notin Range(r.children)
      /\ \A c \in Range(r.children) : c \in RightStates
  BY <1>1, <1>2, RuleAtHead DEF WalkOK, ChartInv, Range
<1>4. /\ work \in Seq(TopDown!Steps) /\ Prepared(work, visited)
      /\ Head(work) = work[1] /\ Len(work) \in Nat /\ 1 \in DOMAIN work /\ DOMAIN work = 1..Len(work)
  BY <1>1, <1>2, TailFacts DEF WalkOK, StackOK
<1>. SUFFICES ASSUME NEW c \in Range(r.children)
              PROVE  c \in visited /\ c \notin TopDown!Active
  BY WalkSequences
<1>5. c \in visited
  BY <1>1, <1>4 DEF Prepared
<1>6. PICK rank \in [RightStates -> Nat] : Descends(right, rank) /\ Falls(work, rank)
  BY <1>2 DEF FallsSafe
<1>7. rank[c] < rank[r.result] /\ rank[c] \in Nat /\ rank[r.result] \in Nat
  BY <1>3, <1>6 DEF Descends
<1>8. ASSUME c \in TopDown!Active PROVE FALSE
  <2>1. PICK j \in 1..Len(work) : work[j] = TopDown!Return(c)
    BY <1>4, <1>8, WalkSequences DEF TopDown!Active, Range
  <2>2. work[j].do = "return" /\ work[j].state = c /\ j # 1
    BY <1>1, <1>4, <2>1, StepKinds
  <2>3. 1 \in 1..(j - 1)
    BY <1>4, <2>2
  <2>4. rank[TopDown!Owner(work[1])] <= rank[c]
    BY <1>4, <1>6, <2>2, <2>3 DEF Falls
  <2>5. TopDown!Owner(work[1]) = r.result
    BY <1>1, <1>4, OwnersAre
  <2>. QED  BY <1>7, <2>4, <2>5
<1>. QED  BY <1>5, <1>8

(* When the right automaton goes round only through loop rules, as the      *)
(* decompositions of strings do: no rule is joined before the partners of   *)
(* its children are final.                                                  *)
THEOREM PartnersFinalWhenUsed ==
  ASSUME TopDownOnlyLoops
  PROVE  Spec => UsedPartnersAreFinal
<1>. DEFINE Inv == WalkSafe /\ (strategy = "top-down" => FallsSafe)
            Used == /\ TopDown!JoinNormalRule => TopDown!Range(Head(work).rule.children) \subseteq visited \ TopDown!Active
                    /\ \A q \in visited \ TopDown!Active : partners'[q] = partners[q]
<1>1. Init => Inv
  <2>1. Init => walk = "start" /\ work = <<>> /\ visited = {}
    BY DEF Init, TopDown!Init
  <2>. QED  BY <2>1, WalkInit, FallsInit DEF WalkSafe
<1>2. Inv /\ [Next]_vars => Inv'
  BY WalkStep, FallsStep
<1>3. Inv /\ [Next]_vars => [Used]_TopDown!vars
  BY OwnCallChanges, ChildrenAreDone
<1>. QED  BY <1>1, <1>2, <1>3, PTL DEF Spec, UsedPartnersAreFinal, TopDown!UsedPartnersAreFinal

-----------------------------------------------------------------------------
(* The chart over pairs. *)

Decoded == {Decode(x) : x \in rules}

LEMMA DecodedGrows ==
  ASSUME ChartInv, NEW symbol \in Symbols, NEW children \in Seq(Ids), NEW pair,
         AddProductRule(symbol, children, pair),
         strategy # "lazy" => pair \in LeftStates \X RightStates,
         left' = left, right' = right, strategy' = strategy
  PROVE  LET p == [symbol |-> symbol, children |-> [i \in DOMAIN children |-> product_pairs[children[i]]], result |-> pair]
         IN  /\ Decoded' = Decoded \cup {p}
             /\ duplicate' => duplicate \/ p \in Decoded
<1>. DEFINE p == [symbol |-> symbol, children |-> [i \in DOMAIN children |-> product_pairs[children[i]]], result |-> pair]
            new(n) == [symbol |-> symbol, children |-> children, parent |-> n]
            later(x) == [symbol   |-> x.symbol,
                         children |-> [i \in DOMAIN x.children |-> product_pairs'[x.children[i]]],
                         result   |-> product_pairs'[x.parent]]
<1>1. /\ \A i \in Ids : product_pairs'[i] = product_pairs[i]
      /\ \E n \in Ids' : /\ product_pairs'[n] = pair
                         /\ rules' = rules \cup {new(n)}
                         /\ duplicate' = (duplicate \/ new(n) \in rules)
  BY ChartGrows
<1>2. PICK n \in Ids' : /\ product_pairs'[n] = pair
                        /\ rules' = rules \cup {new(n)}
                        /\ duplicate' = (duplicate \/ new(n) \in rules)
  BY <1>1
<1>3. \A x \in rules : later(x) = Decode(x)
  <2>. SUFFICES ASSUME NEW x \in rules PROVE later(x) = Decode(x)
    OBVIOUS
  <2>1. x.children \in Seq(Ids) /\ x.parent \in Ids
    BY DEF ChartInv
  <2>2. \A i \in DOMAIN x.children : x.children[i] \in Ids
    BY <2>1
  <2>3. [i \in DOMAIN x.children |-> product_pairs'[x.children[i]]] = [i \in DOMAIN x.children |-> product_pairs[x.children[i]]]
    BY <1>1, <2>2
  <2>. QED  BY <1>1, <2>1, <2>3 DEF Decode
<1>4. later(new(n)) = p
  <2>1. \A i \in DOMAIN children : children[i] \in Ids
    OBVIOUS
  <2>2. [i \in DOMAIN children |-> product_pairs'[children[i]]] = [i \in DOMAIN children |-> product_pairs[children[i]]]
    BY <1>1, <2>1
  <2>. QED  BY <1>2, <2>2
<1>5. Decoded' = {later(x) : x \in rules'}
  BY DEF Decoded, Decode
<1>6. new(n) \in rules => p \in Decoded
  <2>1. ASSUME new(n) \in rules PROVE p \in Decoded
    <3>1. later(new(n)) = Decode(new(n))
      BY <1>3, <2>1
    <3>. QED  BY <1>4, <2>1, <3>1 DEF Decoded
  <2>. QED  BY <2>1
<1>7. Decoded' = Decoded \cup {p}
  <2>. HIDE DEF later, p, new
  <2>1. Decoded = {Decode(x) : x \in rules}
    BY DEF Decoded
  <2>. QED  BY ONLY <1>2, <1>3, <1>4, <1>5, <2>1
<1>. HIDE DEF new
<1>. QED  BY <1>2, <1>6, <1>7

(* A rule of the chart comes from one pair of rules. *)
LEMMA ProductRuleOnce ==
  ASSUME ChartInv, NEW l1 \in left.rules, NEW l2 \in left.rules, NEW r1 \in right.rules, NEW r2 \in right.rules,
         Joins(l1, r1), Joins(l2, r2), ProductRule(l1, r1) = ProductRule(l2, r2)
  PROVE  l1 = l2 /\ r1 = r2
<1>1. /\ left.rules \subseteq ExplicitRules /\ right.rules \subseteq CondensedRules
      /\ r1.children = r2.children /\ r1.result = r2.result /\ r1.symbols \cap r2.symbols # {} => r1 = r2
  BY InputsAreAutomata DEF ChartInv, IsExplicit, IsCondensed
<1>2. /\ l1 = [symbol |-> l1.symbol, children |-> l1.children, result |-> l1.result]
      /\ l2 = [symbol |-> l2.symbol, children |-> l2.children, result |-> l2.result]
      /\ l1.children \in Seq(LeftStates) /\ l2.children \in Seq(LeftStates)
  BY <1>1 DEF ExplicitRules
<1>3. r1.children \in Seq(RightStates) /\ r2.children \in Seq(RightStates)
  BY <1>1 DEF CondensedRules
<1>. DEFINE f1 == [i \in DOMAIN l1.children |-> <<l1.children[i], r1.children[i]>>]
            f2 == [i \in DOMAIN l2.children |-> <<l2.children[i], r2.children[i]>>]
<1>4. l1.symbol = l2.symbol /\ l1.result = l2.result /\ r1.result = r2.result /\ f1 = f2
  BY DEF ProductRule
<1>5. DOMAIN l1.children = DOMAIN l2.children
  BY <1>4
<1>6. \A i \in DOMAIN l1.children : l1.children[i] = l2.children[i] /\ r1.children[i] = r2.children[i]
  <2>. TAKE i \in DOMAIN l1.children
  <2>1. f1[i] = <<l1.children[i], r1.children[i]>> /\ f2[i] = <<l2.children[i], r2.children[i]>>
    BY <1>5
  <2>. QED  BY <1>4, <2>1
<1>7. Len(l1.children) = Len(r1.children) /\ Len(l2.children) = Len(r2.children) /\ Len(l1.children) = Len(l2.children)
  BY <1>2, <1>5 DEF Joins
<1>8. l1.children = l2.children
  BY <1>2, <1>6, <1>7
<1>9. r1.children = r2.children
  <2>1. /\ Len(r1.children) = Len(r2.children)
        /\ DOMAIN l1.children = 1..Len(r1.children)
    BY <1>2, <1>7
  <2>2. \A i \in 1..Len(r1.children) : r1.children[i] = r2.children[i]
    BY <1>6, <2>1
  <2>. QED  BY ONLY <1>3, <2>1, <2>2
<1>10. l1.symbol \in r1.symbols \cap r2.symbols
  BY <1>4 DEF Joins
<1>. QED  BY <1>1, <1>2, <1>4, <1>8, <1>9, <1>10

-----------------------------------------------------------------------------
(* No rule twice: the filter and the lazy product. *)

(* What the ids in the rules name stays what it is. *)
Numbered ==
    /\ product_pairs \in Seq(Pairs)
    /\ \A x \in rules : x.parent \in Ids /\ \A i \in DOMAIN x.children : x.children[i] \in Ids

LEMMA Numbers ==
  ASSUME Numbered, NEW symbol, NEW children, \A i \in DOMAIN children : children[i] \in Ids, NEW pair,
         AddProductRule(symbol, children, pair)
  PROVE  /\ Numbered'
         /\ Ids \subseteq Ids'
         /\ \A i \in Ids : product_pairs'[i] = product_pairs[i]
         /\ \E n \in Ids' :
               /\ product_pairs'[n] = pair
               /\ n = ProductId(pair) /\ (n \in Ids => Known(pair))
               /\ rules' = rules \cup {[symbol |-> symbol, children |-> children, parent |-> n]}
               /\ duplicate' = (duplicate \/ [symbol |-> symbol, children |-> children, parent |-> n] \in rules)
<1>. DEFINE n == ProductId(pair)
            rule == [symbol |-> symbol, children |-> children, parent |-> n]
<1>1. /\ product_pairs' = IF ~Known(pair) THEN Append(product_pairs, pair) ELSE product_pairs
      /\ rules' = rules \cup {rule}
      /\ duplicate' = (duplicate \/ rule \in rules)
  BY DEF AddProductRule
<1>2. Len(product_pairs) \in Nat /\ Ids = 1..Len(product_pairs) /\ product_pairs \in Seq(Pairs \cup {pair})
  BY SeqWiden DEF Numbered, Ids
<1>3. /\ Ids \subseteq Ids'
      /\ \A i \in Ids : product_pairs'[i] = product_pairs[i]
      /\ n \in Ids' /\ product_pairs'[n] = pair /\ (n \in Ids => Known(pair))
      /\ Ids' = Ids \cup {n}
      /\ product_pairs' \in Seq(Pairs \cup {pair})
  <2>1. CASE Known(pair)
    <3>1. product_pairs' = product_pairs /\ Ids' = Ids
      BY <1>1, <2>1 DEF Ids
    <3>2. n \in Ids /\ product_pairs[n] = pair
      BY <2>1, IdOfKnown DEF ProductId
    <3>. QED  BY <1>2, <2>1, <3>1, <3>2
  <2>2. CASE ~Known(pair)
    <3>1. product_pairs' = Append(product_pairs, pair) /\ n = Len(product_pairs) + 1
      BY <1>1, <2>2 DEF ProductId
    <3>2. /\ product_pairs' \in Seq(Pairs \cup {pair})
          /\ Len(product_pairs') = Len(product_pairs) + 1
          /\ \A i \in 1..Len(product_pairs) : product_pairs'[i] = product_pairs[i]
          /\ product_pairs'[Len(product_pairs) + 1] = pair
      BY <1>2, <3>1
    <3>3. Ids' = 1..(Len(product_pairs) + 1)
      BY <3>2 DEF Ids
    <3>. QED  BY <1>2, <2>2, <3>1, <3>2, <3>3
  <2>. QED  BY <2>1, <2>2
<1>4. Pairs \cup {pair} \subseteq Pairs'
  <2>1. Pairs' = {product_pairs'[i] : i \in Ids'}
    BY DEF Pairs
  <2>2. Pairs = {product_pairs[i] : i \in Ids}
    BY DEF Pairs
  <2>. HIDE DEF n
  <2>. QED  BY ONLY <1>3, <2>1, <2>2
<1>5. product_pairs' \in Seq(Pairs')
  BY <1>3, <1>4, SeqWiden
<1>6. \A x \in rules' : x.parent \in Ids' /\ \A i \in DOMAIN x.children : x.children[i] \in Ids'
  <2>1. rule.parent = n /\ rule.children = children
    OBVIOUS
  <2>. HIDE DEF rule, n
  <2>. QED  BY <1>1, <1>3, <2>1 DEF Numbered
<1>. QED  BY <1>1, <1>3, <1>5, <1>6 DEF Numbered

LEMMA NumberedKept ==
  ASSUME Numbered, UNCHANGED <<product_pairs, rules>>
  PROVE  Numbered' /\ Ids' = Ids
BY DEF Numbered, Ids, Pairs

FilterOnce ==
    Numbered /\ ~duplicate /\ \A c \in combos : \A i \in DOMAIN c : c[i] \in Ids

LEMMA FilterOnceStep ==
  ASSUME FilterOnce, Filter!Work
  PROVE  FilterOnce'
<1>. USE DEF Filter!input, Filter!chart
<1>1. CASE Filter!Sweep \/ Filter!EndRule \/ Filter!EndSweep
  <2>1. UNCHANGED <<product_pairs, rules, duplicate, combos>>
    BY <1>1 DEF Filter!Sweep, Filter!EndRule, Filter!EndSweep, Filter!GiveUp
  <2>. QED  BY <2>1, NumberedKept DEF FilterOnce
<1>2. CASE Filter!NextRule
  <2>1. UNCHANGED <<product_pairs, rules, duplicate>>
    BY <1>2 DEF Filter!NextRule, Filter!GiveUp
  <2>2. combos' = combos \/ combos' = Filter!Combinations(order[at])
    BY <1>2 DEF Filter!NextRule, Filter!GiveUp
  <2>3. \A c \in Filter!Combinations(order[at]) : \A i \in DOMAIN c : c[i] \in Ids
    BY FilteredChart DEF Filter!Combinations
  <2>. QED  BY <2>1, <2>2, <2>3, NumberedKept DEF FilterOnce
<1>3. ASSUME NEW c \in combos, Filter!Combine(c) PROVE FilterOnce'
  <2>1. combos' = combos \ {c}
    BY <1>3 DEF Filter!Combine
  <2>2. CASE UNCHANGED <<product_pairs, accepting, rules, duplicate>>
    BY <2>1, <2>2, NumberedKept DEF FilterOnce
  <2>3. ASSUME NEW l, NEW v, Filter!Emit(l, c, <<l.result, v>>) PROVE FilterOnce'
    <3>. DEFINE pair == <<l.result, v>>
    <3>1. CASE UNCHANGED <<product_pairs, accepting, rules, duplicate>>
      BY <2>1, <3>1, NumberedKept DEF FilterOnce
    <3>2. CASE ~UNCHANGED <<product_pairs, accepting, rules, duplicate>>
      <4>1. /\ AddProductRule(l.symbol, c, pair)
            /\ ~(Known(pair) /\ [symbol |-> l.symbol, children |-> c, parent |-> IdOf(pair)] \in rules)
        BY <2>3, <3>2, FilteredChart DEF Filter!Emit
      <4>. HIDE DEF pair
      <4>2. /\ Numbered' /\ Ids \subseteq Ids'
            /\ \E n \in Ids' :
                  /\ n = ProductId(pair) /\ (n \in Ids => Known(pair))
                  /\ duplicate' = (duplicate \/ [symbol |-> l.symbol, children |-> c, parent |-> n] \in rules)
        BY <4>1, Numbers DEF FilterOnce
      <4>3. \A x \in rules : x.parent \in Ids
        BY DEF FilterOnce, Numbered
      <4>4. PICK n \in Ids' :
                  /\ n = ProductId(pair) /\ (n \in Ids => Known(pair))
                  /\ duplicate' = (duplicate \/ [symbol |-> l.symbol, children |-> c, parent |-> n] \in rules)
        BY <4>2
      <4>5. [symbol |-> l.symbol, children |-> c, parent |-> n] \in rules => n \in Ids
        BY <4>3
      <4>6. [symbol |-> l.symbol, children |-> c, parent |-> n] \notin rules
        BY <4>1, <4>4, <4>5 DEF ProductId
      <4>. QED  BY <2>1, <4>2, <4>4, <4>6 DEF FilterOnce
    <3>. QED  BY <3>1, <3>2
  <2>. QED  BY <1>3, <2>2, <2>3 DEF Filter!Combine
<1>. QED  BY <1>1, <1>2, <1>3 DEF Filter!Work

(* A key of the memo. *)
IsKey(k) ==
    /\ k = [symbol |-> k.symbol, children |-> k.children]
    /\ \A i \in DOMAIN k.children : k.children[i] \in Ids

(* A transition is computed once, and what it has found is reported once.   *)
MemoOnce ==
    /\ Numbered /\ ~duplicate
    /\ lookups \cap cached = {}
    /\ \A k \in lookups \cup cached : IsKey(k)
    /\ \A x \in rules : [symbol |-> x.symbol, children |-> x.children] \in cached
    /\ \A a \in answers : a.key \in cached /\ a = [key |-> a.key, pair |-> a.pair]
    /\ \A a \in answers : \A x \in rules :
          a.key = [symbol |-> x.symbol, children |-> x.children] => product_pairs[x.parent] # a.pair

LEMMA KeysAre ==
  /\ \A keys : Lazy!Productive(keys) \subseteq keys \ cached
  /\ \A k \in Lazy!NullaryLookups : IsKey(k)
  /\ \A id : \A k \in Lazy!LookupsOf(id) : IsKey(k)
<1>1. \A keys : Lazy!Productive(keys) \subseteq keys \ cached
  BY DEF Lazy!Productive
<1>2. ASSUME NEW k \in Lazy!NullaryLookups PROVE IsKey(k)
  <2>1. PICK s \in Lazy!Alphabet : k \in [symbol : {s[1]}, children : {<<>>}]
    BY <1>2 DEF Lazy!NullaryLookups
  <2>2. k = [symbol |-> k.symbol, children |-> k.children] /\ k.children = <<>>
    BY <2>1
  <2>. QED  BY <2>2 DEF IsKey
<1>3. ASSUME NEW id, NEW k \in Lazy!LookupsOf(id) PROVE IsKey(k)
  <2>1. PICK s \in Lazy!Alphabet : k \in [symbol : {s[1]}, children : [1..s[2] -> Ids]]
    BY <1>3, MemoChart DEF Lazy!LookupsOf
  <2>2. k = [symbol |-> k.symbol, children |-> k.children] /\ k.children \in [1..s[2] -> Ids]
    BY <2>1
  <2>. QED  BY <2>2 DEF IsKey
<1>. QED  BY <1>1, <1>2, <1>3

LEMMA MemoKept ==
  ASSUME MemoOnce, UNCHANGED <<product_pairs, rules, duplicate, cached, answers>>,
         lookups' \subseteq lookups \/ (\A k \in lookups' : k \notin cached /\ IsKey(k))
  PROVE  MemoOnce'
<1>1. Numbered' /\ Ids' = Ids
  BY NumberedKept DEF MemoOnce
<1>2. \A k : IsKey(k)' <=> IsKey(k)
  BY <1>1 DEF IsKey
<1>3. \A k \in lookups' : k \notin cached /\ IsKey(k)
  BY DEF MemoOnce
<1>. QED  BY <1>1, <1>2, <1>3 DEF MemoOnce

LEMMA MemoOnceStep ==
  ASSUME MemoOnce, Lazy!Work
  PROVE  MemoOnce'
<1>. USE DEF Lazy!input, Lazy!chart
<1>1. CASE Lazy!Start \/ Lazy!Pop \/ Lazy!Finish
  <2>1. /\ UNCHANGED <<product_pairs, rules, duplicate, cached, answers>>
        /\ \/ lookups' = lookups
           \/ lookups' = Lazy!Productive(Lazy!NullaryLookups)
           \/ lookups' = Lazy!Productive(Lazy!LookupsOf(worklist[Len(worklist)]))
    BY <1>1 DEF Lazy!Start, Lazy!Pop, Lazy!Finish
  <2>2. lookups' \subseteq lookups \/ (\A k \in lookups' : k \notin cached /\ IsKey(k))
    BY <2>1, KeysAre
  <2>. QED  BY <2>1, <2>2, MemoKept
<1>2. ASSUME NEW k \in lookups, Lazy!Lookup(k) PROVE MemoOnce'
  <2>1. /\ UNCHANGED <<product_pairs, rules, duplicate>>
        /\ lookups' = lookups \ {k} /\ cached' = cached \cup {k}
        /\ answers' = {[key |-> k, pair |-> p] : p \in Lazy!Answers(k)}
    BY <1>2 DEF Lazy!Lookup
  <2>2. Numbered' /\ Ids' = Ids
    BY <2>1, NumberedKept DEF MemoOnce
  <2>3. \A y : IsKey(y)' <=> IsKey(y)
    BY <2>2 DEF IsKey
  <2>4. k \notin cached
    BY DEF MemoOnce
  <2>5. \A a \in answers' : a.key = k /\ a = [key |-> a.key, pair |-> a.pair]
    BY <2>1
  <2>6. \A x \in rules : [symbol |-> x.symbol, children |-> x.children] # k
    BY <2>4 DEF MemoOnce
  <2>. QED  BY <2>1, <2>2, <2>3, <2>5, <2>6 DEF MemoOnce
<1>3. ASSUME NEW a \in answers, Lazy!Report(a) PROVE MemoOnce'
  <2>. DEFINE s == a.key.symbol
              c == a.key.children
              new(n) == [symbol |-> s, children |-> c, parent |-> n]
  <2>1. /\ UNCHANGED <<lookups, cached>> /\ answers' = answers \ {a}
        /\ AddProductRule(s, c, a.pair)
    BY <1>3, MemoChart DEF Lazy!Report
  <2>2. a.key \in cached /\ a.key = [symbol |-> s, children |-> c] /\ \A i \in DOMAIN c : c[i] \in Ids
    BY DEF MemoOnce, IsKey
  <2>3. /\ Numbered' /\ Ids \subseteq Ids'
        /\ \A i \in Ids : product_pairs'[i] = product_pairs[i]
        /\ \E n \in Ids' : /\ product_pairs'[n] = a.pair
                           /\ rules' = rules \cup {new(n)} /\ duplicate' = (duplicate \/ new(n) \in rules)
    <3>. HIDE DEF s, c
    <3>. QED  BY <2>1, <2>2, Numbers DEF MemoOnce
  <2>4. PICK n \in Ids' : /\ product_pairs'[n] = a.pair
                          /\ rules' = rules \cup {new(n)} /\ duplicate' = (duplicate \/ new(n) \in rules)
    BY <2>3
  <2>5. \A x \in rules : x.parent \in Ids /\ product_pairs'[x.parent] = product_pairs[x.parent]
    BY <2>3 DEF MemoOnce, Numbered
  <2>6. new(n).symbol = s /\ new(n).children = c /\ new(n).parent = n
    OBVIOUS
  <2>7. new(n) \notin rules
    <3>1. ASSUME new(n) \in rules PROVE FALSE
      <4>1. product_pairs[n] = a.pair
        BY <2>4, <2>5, <2>6, <3>1
      <4>2. a.key = [symbol |-> new(n).symbol, children |-> new(n).children]
        BY <2>2, <2>6
      <4>3. \A x \in rules :
               a.key = [symbol |-> x.symbol, children |-> x.children] => product_pairs[x.parent] # a.pair
        BY DEF MemoOnce
      <4>4. \E x \in rules : /\ a.key = [symbol |-> x.symbol, children |-> x.children]
                             /\ x.parent = n
        BY <2>6, <3>1, <4>2
      <4>. HIDE DEF new
      <4>. QED  BY ONLY <4>1, <4>3, <4>4
    <3>. QED  BY <3>1
  <2>8. ASSUME NEW x \in rules' PROVE [symbol |-> x.symbol, children |-> x.children] \in cached
    <3>1. [symbol |-> new(n).symbol, children |-> new(n).children] \in cached
      BY <2>2, <2>6
    <3>2. x \in rules => [symbol |-> x.symbol, children |-> x.children] \in cached
      BY Zenon DEF MemoOnce
    <3>3. x \in rules \/ x = new(n)
      BY <2>4
    <3>. HIDE DEF new, s, c
    <3>. QED  BY ONLY <3>1, <3>2, <3>3
  <2>. HIDE DEF new, s, c
  <2>9. \A b \in answers' : \A x \in rules' :
          b.key = [symbol |-> x.symbol, children |-> x.children] => product_pairs'[x.parent] # b.pair
    <3>. SUFFICES ASSUME NEW b \in answers, b # a, NEW x \in rules',
                         b.key = [symbol |-> x.symbol, children |-> x.children]
                  PROVE  product_pairs'[x.parent] # b.pair
      BY <2>1
    <3>1. CASE x \in rules
      BY <2>5, <3>1 DEF MemoOnce
    <3>2. CASE x = new(n)
      <4>1. b.key = a.key
        BY <2>2, <2>6, <3>2
      <4>2. b = [key |-> b.key, pair |-> b.pair] /\ a = [key |-> a.key, pair |-> a.pair]
        BY DEF MemoOnce
      <4>3. b.pair # a.pair
        BY <4>1, <4>2
      <4>. QED  BY <2>4, <2>6, <3>2, <4>3
    <3>. QED  BY <2>4, <3>1, <3>2
  <2>10. \A k \in lookups' \cup cached' : IsKey(k)'
    BY <2>1, <2>3 DEF MemoOnce, IsKey
  <2>. QED  BY <2>1, <2>3, <2>4, <2>7, <2>8, <2>9, <2>10 DEF MemoOnce
<1>. QED  BY <1>1, <1>2, <1>3 DEF Lazy!Work

-----------------------------------------------------------------------------
(* No rule twice: the top-down walk. *)

(* A loop rule goes back to its own state in one place. *)
OneLoopPosition(a) ==
    \A r \in a.rules : \A i, j \in DOMAIN r.children :
        r.children[i] = r.result /\ r.children[j] = r.result => i = j

(* The chart has the rule of this pair. *)
Emits(l, r) == Joins(l, r) /\ ProductRule(l, r) \in Decoded

Joining(x) == x.do \in {"join", "saturate"}

(* x is being worked on, and is done with l. *)
DoneWith(x, l) ==
    /\ walk \in {"join", "saturate"} /\ x = Head(work)
    /\ walk = "join" => l \notin matches
    /\ x.do = "saturate" => l.children[x.position] \in seen \ Range(agenda)

(* What has been joined will not be joined again ... *)
JoinedOnce ==
    \A l \in left.rules, r \in right.rules : Emits(l, r) =>
        /\ r.result \in visited
        /\ \A x \in Own(work) : Joining(x) /\ x.rule = r => DoneWith(x, l)

(* ... and no left state is tried twice at a loop position. *)
AgendaOnce ==
    walk \in {"join", "saturate"} /\ Head(work).do = "saturate" =>
        /\ \A i, j \in DOMAIN agenda : agenda[i] = agenda[j] => i = j
        /\ walk = "join" => \A l \in matches : l.children[Head(work).position] \in seen \ Range(agenda)

WalkOnce ==
    /\ ~duplicate
    /\ walk \in {"start", "visit", "saturate", "join"} => JoinedOnce /\ AgendaOnce

LEMMA OneStepPerRule ==
  ASSUME RightRulesOK, OneLoopPosition(right), NEW x \in TopDown!Steps, NEW y \in TopDown!Steps,
         Joining(x), Joining(y), x.rule = y.rule
  PROVE  x = y
<1>1. ASSUME NEW z \in TopDown!Steps, Joining(z)
      PROVE  \/ ~TopDown!IsLoop(z.rule) /\ z = TopDown!Join(z.rule)
             \/ /\ z.rule \in right.rules
                /\ \E p \in DOMAIN z.rule.children : z.rule.children[p] = z.rule.result /\ z = TopDown!Saturate(z.rule, p)
  BY <1>1, StepsAre, StepKinds DEF Joining
<1>2. ASSUME NEW r, NEW p \in DOMAIN r.children, r.children[p] = r.result PROVE TopDown!IsLoop(r)
  BY <1>2, WalkSequences DEF TopDown!IsLoop, Range
<1>. QED  BY <1>1, <1>2 DEF OneLoopPosition

(* The chart and what has been joined stay. *)
LEMMA EmitsKept ==
  ASSUME UNCHANGED <<left, right, product_pairs, rules>>
  PROVE  \A l, r : Emits(l, r)' <=> Emits(l, r)
<1>1. Decoded' = Decoded
  BY DEF Decoded, Decode
<1>. QED  BY <1>1 DEF Emits

LEMMA OnceStopped ==
  ASSUME WalkOnce, UNCHANGED <<left, right, product_pairs, rules, duplicate>>, walk' \in {"cancelled", "done"}
  PROVE  WalkOnce'
BY DEF WalkOnce

LEMMA OnceKept ==
  ASSUME WalkOnce, UNCHANGED <<left, right, product_pairs, rules, duplicate, walk, work, visited, matches, agenda, seen>>
  PROVE  WalkOnce'
<1>1. \A l, r : Emits(l, r)' <=> Emits(l, r)
  BY EmitsKept
<1>. QED  BY <1>1 DEF WalkOnce, JoinedOnce, AgendaOnce, DoneWith

(* The walk goes on with steps that are not done with anything: those left  *)
(* of the stack, or of a call that begins.                                  *)
LEMMA OnceNext ==
  ASSUME WalkOK, WalkOnce, walk \in {"start", "visit", "saturate", "join"},
         UNCHANGED <<left, right, product_pairs, rules, duplicate>>,
         walk' = "visit", visited \subseteq visited',
         \A x \in Own(work') : Joining(x) =>
            \/ x.rule.result \notin visited
            \/ work # <<>> /\ x \in Own(Tail(work))
  PROVE  WalkOnce'
<1>1. \A l, r : Emits(l, r)' <=> Emits(l, r)
  BY EmitsKept
<1>2. JoinedOnce'
  <2>. SUFFICES ASSUME NEW l \in left.rules, NEW r \in right.rules, Emits(l, r)
                PROVE  /\ r.result \in visited
                       /\ \A x \in Own(work') : ~(Joining(x) /\ x.rule = r)
    BY <1>1 DEF JoinedOnce, Joining
  <2>1. r.result \in visited /\ \A x \in Own(work) : Joining(x) /\ x.rule = r => DoneWith(x, l)
    BY DEF WalkOnce, JoinedOnce
  <2>2. ASSUME NEW x \in Own(work'), Joining(x), x.rule = r PROVE FALSE
    <3>1. work # <<>> /\ x \in Own(Tail(work))
      BY <2>1, <2>2
    <3>2. work \in Seq(TopDown!Steps) /\ Once(work)
      BY DEF WalkOK, StackOK
    <3>3. /\ Len(work) \in Nat /\ Len(work) # 0 /\ Head(work) = work[1] /\ DOMAIN work = 1..Len(work)
          /\ Tail(work) \in Seq(TopDown!Steps) /\ Len(Tail(work)) = Len(work) - 1
          /\ \A i \in 1..(Len(work) - 1) : Tail(work)[i] = work[i + 1]
          /\ Range(Tail(work)) \subseteq Range(work)
      BY <3>1, <3>2, TailFacts
    <3>4. x = Head(work)
      BY <2>1, <2>2, <3>1, <3>3 DEF Own, DoneWith
    <3>5. PICK i \in 1..(Len(work) - 1) : x = work[i + 1]
      BY <3>1, <3>3 DEF Own, Range
    <3>6. i + 1 \in DOMAIN work /\ 1 \in DOMAIN work /\ i + 1 # 1
      BY <3>3
    <3>7. work[i + 1] = work[1] /\ work[1].do # "visit"
      BY <3>1, <3>3, <3>4, <3>5 DEF Own
    <3>. QED  BY <3>2, <3>6, <3>7 DEF Once
  <2>. QED  BY <2>1, <2>2
<1>. QED  BY <1>2 DEF WalkOnce, AgendaOnce

LEMMA OnceStart ==
  ASSUME ChartInv, WalkOK, WalkOnce, TopDown!Start
  PROVE  WalkOnce'
<1>. USE DEF TopDown!input, TopDown!chart, TopDown!loop
<1>1. UNCHANGED <<left, right, product_pairs, rules, duplicate, visited>> /\ walk = "start"
  BY DEF TopDown!Start, TopDown!GiveUp
<1>2. CASE TopDown!GiveUp
  BY <1>1, <1>2, OnceStopped DEF TopDown!GiveUp
<1>3. CASE ~TopDown!GiveUp
  <2>1. PICK accepted \in SetToSeqs(right.accepting) : work' = TopDown!VisitAll(accepted)
    BY <1>3, WalkSequences DEF TopDown!Start
  <2>2. \A j \in DOMAIN work' : work'[j].do = "visit"
    BY <2>1, StepKinds DEF TopDown!VisitAll
  <2>3. Own(work') = {}
    BY <2>2 DEF Own, Range
  <2>4. walk' = "visit"
    BY <1>3 DEF TopDown!Start
  <2>. QED  BY <1>1, <2>3, <2>4, OnceNext
<1>. QED  BY <1>2, <1>3

LEMMA OnceEnterVisit ==
  ASSUME ChartInv, WalkOK, WalkOnce, TopDown!EnterVisit
  PROVE  WalkOnce'
<1>. USE DEF TopDown!input, TopDown!chart, TopDown!loop
<1>1. UNCHANGED <<left, right, product_pairs, rules, duplicate>> /\ walk = "visit" /\ work # <<>>
      /\ Head(work).do = "visit"
  BY DEF TopDown!EnterVisit, TopDown!GiveUp, TopDown!Doing
<1>2. CASE TopDown!GiveUp
  BY <1>1, <1>2, OnceStopped DEF TopDown!GiveUp
<1>3. CASE ~TopDown!GiveUp
  <2>. DEFINE q == Head(work).state
  <2>1. /\ visited' = visited \cup {q} /\ walk' = walk
        /\ IF q \in visited THEN work' = Tail(work)
           ELSE \E listed \in SetToSeqs({r \in right.rules : r.result = q}) :
                   work' = TopDown!BodyOf(q, listed) \o Tail(work)
    BY <1>3, WalkSequences DEF TopDown!EnterVisit, TopDown!CondensedRulesByParent
  <2>2. RightRulesOK /\ IsFiniteSet(right.rules)
    BY RightRules DEF ChartInv
  <2>3. q \in RightStates /\ Tail(work) \in Seq(TopDown!Steps)
    <3>1. Head(work) \in TopDown!Steps /\ Tail(work) \in Seq(TopDown!Steps)
      BY <1>1, TailFacts DEF WalkOK, StackOK
    <3>. QED  BY <1>1, <2>2, <3>1, StepsAre, StepKinds
  <2>. HIDE DEF q
  <2>4. \A x \in Own(work') : Joining(x) => x.rule.result \notin visited \/ x \in Own(Tail(work))
    <3>1. CASE q \in visited
      BY <2>1, <3>1
    <3>2. CASE q \notin visited
      <4>1. PICK listed \in SetToSeqs({r \in right.rules : r.result = q}) :
               work' = TopDown!BodyOf(q, listed) \o Tail(work)
        BY <2>1, <3>2
      <4>2. /\ TopDown!BodyOf(q, listed) \in Seq(TopDown!Steps)
            /\ \A x \in Range(TopDown!BodyOf(q, listed)) : StepIn(q, x)
        BY <2>2, <2>3, BodyFacts
      <4>3. Range(work') = Range(TopDown!BodyOf(q, listed)) \cup Range(Tail(work))
        <5>. DEFINE b == TopDown!BodyOf(q, listed)
                    t == Tail(work)
        <5>1. b \in Seq(TopDown!Steps) /\ t \in Seq(TopDown!Steps) /\ work' = b \o t
          BY <2>3, <4>1, <4>2
        <5>. HIDE DEF b, t
        <5>2. Range(b \o t) = Range(b) \cup Range(t)
          BY ONLY <5>1, ConcatRange
        <5>. QED  BY <5>1, <5>2 DEF b, t
      <4>4. SUFFICES ASSUME NEW x \in Own(work'), Joining(x), x \in Range(TopDown!BodyOf(q, listed))
                     PROVE  x.rule.result \notin visited
        BY <4>3 DEF Own
      <4>5. StepIn(q, x) /\ x.do # "visit"
        BY <4>2, <4>4 DEF Own
      <4>6. TopDown!Owner(x) = q
        BY <4>5, StepKinds DEF StepIn
      <4>. QED  BY <3>2, <4>4, <4>6, OwnersAre DEF Joining
    <3>. QED  BY <3>1, <3>2
  <2>. QED  BY <1>1, <2>1, <2>4, OnceNext
<1>. QED  BY <1>2, <1>3

(* The steps that drop the head of the stack, or start work on it. *)
LEMMA OnceDrop ==
  ASSUME ChartInv, WalkOK, WalkOnce,
         TopDown!ReturnFromVisit \/ TopDown!EndSaturation \/ (TopDown!EndJoin /\ Head(work).do # "saturate")
  PROVE  WalkOnce'
<1>. USE DEF TopDown!input, TopDown!chart, TopDown!loop
<1>1. /\ UNCHANGED <<left, right, product_pairs, rules, duplicate, visited>>
      /\ walk \in {"start", "visit", "saturate", "join"} /\ walk' = "visit" /\ work # <<>> /\ work' = Tail(work)
  BY DEF TopDown!ReturnFromVisit, TopDown!EndSaturation, TopDown!EndJoin, TopDown!Doing, WalkOK, WalkTypes
<1>. QED  BY <1>1, OnceNext

(* Nothing has been joined by a step that has not begun. *)
LEMMA NotJoined ==
  ASSUME WalkOK, WalkOnce, walk = "visit", work # <<>>, Joining(Head(work)),
         UNCHANGED <<left, right, product_pairs, rules, duplicate, work, visited>>
  PROVE  JoinedOnce'
<1>1. \A l, r : Emits(l, r)' <=> Emits(l, r)
  BY EmitsKept
<1>. QED  BY <1>1 DEF WalkOnce, JoinedOnce, DoneWith

LEMMA OnceJoin ==
  ASSUME ChartInv, WalkOK, WalkOnce, TopDown!JoinNormalRule
  PROVE  WalkOnce'
<1>. USE DEF TopDown!input, TopDown!chart, TopDown!loop
<1>1. /\ UNCHANGED <<left, right, product_pairs, rules, duplicate, work, visited>>
      /\ walk = "visit" /\ work # <<>> /\ Head(work).do = "join"
  BY DEF TopDown!JoinNormalRule, TopDown!Doing
<1>2. JoinedOnce'
  BY <1>1, NotJoined DEF Joining
<1>. QED  BY <1>1, <1>2 DEF WalkOnce, AgendaOnce

LEMMA OnceStartSaturation ==
  ASSUME ChartInv, WalkOK, WalkOnce, TopDown!StartSaturation
  PROVE  WalkOnce'
<1>. USE DEF TopDown!input, TopDown!chart, TopDown!loop
<1>. DEFINE q == Head(work).rule.result
<1>1. /\ UNCHANGED <<left, right, product_pairs, rules, duplicate, work, visited>>
      /\ walk = "visit" /\ work # <<>> /\ Head(work).do = "saturate" /\ walk' = "saturate"
      /\ \E listed \in SetToSeqs(partners[q]) : agenda' = listed
  BY WalkSequences DEF TopDown!StartSaturation, TopDown!Doing
<1>2. JoinedOnce'
  BY <1>1, NotJoined DEF Joining
<1>3. q \in RightStates
  BY <1>1, RuleAtHead DEF WalkOK, ChartInv
<1>4. IsFiniteSet(partners[q])
  BY <1>3, FinitePartners DEF WalkOK, Agree
<1>. HIDE DEF q
<1>5. \A i, j \in DOMAIN agenda' : agenda'[i] = agenda'[j] => i = j
  BY <1>1, <1>4, OrderIs
<1>. QED  BY <1>1, <1>2, <1>5 DEF WalkOnce, AgendaOnce

LEMMA OnceTryPartner ==
  ASSUME ChartInv, WalkOK, WalkOnce, TopDown!TryPartner
  PROVE  WalkOnce'
<1>. USE DEF TopDown!input, TopDown!chart, TopDown!loop
<1>1. /\ UNCHANGED <<left, right, product_pairs, rules, duplicate, work, visited>>
      /\ walk = "saturate" /\ work # <<>> /\ Head(work).do = "saturate" /\ agenda # <<>>
  BY DEF TopDown!TryPartner, TopDown!GiveUp, WalkOK, WalkTypes
<1>2. CASE TopDown!GiveUp
  BY <1>1, <1>2, OnceStopped DEF TopDown!GiveUp
<1>3. CASE ~TopDown!GiveUp
  <2>. DEFINE r == Head(work).rule
              p == Head(work).position
              sets == [TopDown!PartnerSets(r) EXCEPT ![p] = {Head(agenda)}]
  <2>1. walk' = "join" /\ agenda' = Tail(agenda) /\ seen' = seen /\ matches' = TopDown!MatchesFor(r, sets)
    BY <1>3 DEF TopDown!TryPartner
  <2>2. DOMAIN r.children = 1..Len(r.children) /\ p \in DOMAIN r.children
    BY <1>1, RuleAtHead DEF WalkOK, ChartInv
  <2>3. \A l \in matches' : l \in left.rules /\ Joins(l, r) /\ \A i \in DOMAIN l.children : l.children[i] \in sets[i]
    BY <2>1 DEF TopDown!MatchesFor, TopDown!Joins, Joins
  <2>4. sets[p] = {Head(agenda)}
    BY <2>2 DEF TopDown!PartnerSets
  <2>5. \A l \in matches' : l.children[p] = Head(agenda)
    <3>1. \A l \in left.rules : Joins(l, r) => DOMAIN l.children = DOMAIN r.children
      BY <2>2, LeftRules DEF ChartInv, Joins
    <3>. HIDE DEF sets, r, p
    <3>. QED  BY <2>2, <2>3, <2>4, <3>1
  <2>. HIDE DEF sets
  <2>6. /\ agenda \in Seq(seen) /\ \A i, j \in DOMAIN agenda : agenda[i] = agenda[j] => i = j
    BY <1>1 DEF WalkOK, WalkTypes, WalkOnce, AgendaOnce
  <2>7. /\ Len(agenda) \in Nat /\ Len(agenda) # 0 /\ Head(agenda) = agenda[1] /\ agenda[1] \in seen
        /\ DOMAIN agenda = 1..Len(agenda)
        /\ Tail(agenda) \in Seq(seen) /\ Len(Tail(agenda)) = Len(agenda) - 1
        /\ \A i \in 1..(Len(agenda) - 1) : Tail(agenda)[i] = agenda[i + 1]
        /\ Range(Tail(agenda)) \subseteq Range(agenda) /\ agenda[1] \in Range(agenda)
    BY <1>1, <2>6, TailFacts
  <2>8. DOMAIN Tail(agenda) = 1..(Len(agenda) - 1)
    BY <2>7
  <2>9. \A i \in 1..(Len(agenda) - 1) : i + 1 \in DOMAIN agenda /\ i + 1 # 1 /\ 1 \in DOMAIN agenda
    BY <2>7
  <2>10. \A i, j \in DOMAIN agenda' : agenda'[i] = agenda'[j] => i = j
    <3>. SUFFICES ASSUME NEW i \in 1..(Len(agenda) - 1), NEW j \in 1..(Len(agenda) - 1), agenda[i + 1] = agenda[j + 1]
                  PROVE  i = j
      BY <2>1, <2>7, <2>8
    <3>1. i + 1 = j + 1
      BY <2>6, <2>9
    <3>. QED  BY <3>1
  <2>11. Head(agenda) \in seen /\ Head(agenda) \notin Range(agenda')
    BY <2>1, <2>6, <2>7, <2>8, <2>9 DEF Range
  <2>12. \A l, s : Emits(l, s)' <=> Emits(l, s)
    BY <1>1, EmitsKept
  <2>13. JoinedOnce'
    <3>. SUFFICES ASSUME NEW l \in left.rules, NEW s \in right.rules, Emits(l, s),
                         NEW x \in Own(work), Joining(x), x.rule = s
                  PROVE  DoneWith(x, l)'
      BY <1>1, <2>12 DEF WalkOnce, JoinedOnce, Joining
    <3>1. DoneWith(x, l)
      BY <1>1 DEF WalkOnce, JoinedOnce
    <3>2. x = Head(work) /\ l.children[p] \in seen \ Range(agenda)
      BY <1>1, <3>1 DEF DoneWith
    <3>3. Head(agenda) \in Range(agenda) /\ Range(agenda') \subseteq Range(agenda)
      BY <2>1, <2>7
    <3>4. l \notin matches'
      BY <2>5, <3>2, <3>3
    <3>. HIDE DEF r
    <3>. QED  BY <1>1, <2>1, <3>2, <3>3, <3>4 DEF DoneWith
  <2>14. AgendaOnce'
    BY <1>1, <2>1, <2>5, <2>10, <2>11 DEF AgendaOnce
  <2>. QED  BY <1>1, <2>13, <2>14 DEF WalkOnce
<1>. QED  BY <1>2, <1>3

LEMMA OnceCollectPair ==
  ASSUME ChartInv, OneLoopPosition(right), WalkOK, WalkOnce, NEW l, TopDown!CollectPair(l),
         strategy # "lazy", strategy' = strategy
  PROVE  WalkOnce'
<1>. USE DEF TopDown!input, TopDown!chart, TopDown!loop
<1>1. UNCHANGED <<left, right, work, visited>>
      /\ walk = "join" /\ work # <<>> /\ Head(work).do \in {"join", "saturate"} /\ l \in matches
  BY DEF TopDown!CollectPair, TopDown!GiveUp, WalkOK, WalkTypes
<1>2. CASE TopDown!GiveUp
  BY <1>1, <1>2, OnceStopped DEF TopDown!GiveUp
<1>3. CASE ~TopDown!GiveUp
  <2>. DEFINE r == Head(work).rule
              pair == <<l.result, r.result>>
              ids == [i \in DOMAIN l.children |-> IdOf(<<l.children[i], r.children[i]>>)]
  <2>1. l \in left.rules /\ Joins(l, r) /\ \A i \in DOMAIN l.children : <<l.children[i], r.children[i]>> \in Pairs
    BY <1>1 DEF WalkOK, WalkTypes, MatchesOf
  <2>2. r \in right.rules /\ r.result \in RightStates
    BY <1>1, RuleAtHead DEF WalkOK, ChartInv
  <2>3. TopDown!ChildrenKnown(l, r)
    BY <2>1, WalkPairs DEF TopDown!ChildrenKnown
  <2>4. /\ AddProductRule(l.symbol, ids, pair)
        /\ \/ seen' = seen /\ agenda' = agenda
           \/ l.result \notin seen /\ seen' = seen \cup {l.result} /\ agenda' = Append(agenda, l.result)
        /\ matches' = matches \ {l} /\ walk' = walk
    <3>1. TopDown!AddProductRule(l.symbol,
             [i \in DOMAIN l.children |-> TopDown!IdOf(<<l.children[i], r.children[i]>>)], pair)
      BY <1>3, <2>3 DEF TopDown!CollectPair
    <3>2. [i \in DOMAIN l.children |-> TopDown!IdOf(<<l.children[i], r.children[i]>>)] = ids
      BY WalkChart
    <3>3. AddProductRule(l.symbol, ids, pair)
      BY <3>1, <3>2, WalkChart
    <3>. QED  BY <1>3, <2>3, <3>3 DEF TopDown!CollectPair
  <2>5. l.symbol \in Symbols /\ l.result \in LeftStates /\ DOMAIN l.children = 1..Len(l.children) /\ Len(l.children) \in Nat
    BY <2>1, LeftRules DEF ChartInv
  <2>6. \A i \in DOMAIN l.children : /\ IdOf(<<l.children[i], r.children[i]>>) \in Ids
                                     /\ product_pairs[IdOf(<<l.children[i], r.children[i]>>)] = <<l.children[i], r.children[i]>>
    BY <2>1, IdOfKnown, IdsAreInterval
  <2>7. ids \in Seq(Ids) /\ pair \in LeftStates \X RightStates
    BY <2>2, <2>5, <2>6
  <2>8. [symbol |-> l.symbol, children |-> [i \in DOMAIN ids |-> product_pairs[ids[i]]], result |-> pair] = ProductRule(l, r)
    <3>1. [i \in DOMAIN ids |-> product_pairs[ids[i]]] = [i \in DOMAIN l.children |-> <<l.children[i], r.children[i]>>]
      BY <2>6
    <3>. QED  BY <3>1 DEF ProductRule
  <2>9. Decoded' = Decoded \cup {ProductRule(l, r)} /\ (duplicate' => duplicate \/ ProductRule(l, r) \in Decoded)
    <3>. HIDE DEF ids, pair, r
    <3>. QED  BY <1>1, <2>4, <2>5, <2>7, <2>8, DecodedGrows
  <2>. HIDE DEF ids, pair
  <2>10. Head(work) \in Own(work) /\ Joining(Head(work)) /\ Head(work) \in TopDown!Steps
    BY <1>1, TailFacts DEF WalkOK, StackOK, Own, Joining
  <2>11. JoinedOnce /\ AgendaOnce /\ ~duplicate
    BY <1>1 DEF WalkOnce
  <2>12. ProductRule(l, r) \notin Decoded
    BY <1>1, <2>1, <2>2, <2>10, <2>11 DEF JoinedOnce, Emits, DoneWith
  <2>13. r.result \in visited
    BY <1>1, <2>10, OwnersAre DEF WalkOK, StackOK, Owned, Joining
  <2>14. /\ matches' \subseteq matches \ {l}
         /\ \A q \in seen \ Range(agenda) : q \in seen' \ Range(agenda')
         /\ (\A i, j \in DOMAIN agenda : agenda[i] = agenda[j] => i = j)
               => \A i, j \in DOMAIN agenda' : agenda'[i] = agenda'[j] => i = j
    <3>1. CASE seen' = seen /\ agenda' = agenda
      BY <2>4, <3>1
    <3>2. CASE l.result \notin seen /\ seen' = seen \cup {l.result} /\ agenda' = Append(agenda, l.result)
      <4>1. agenda \in Seq(seen) /\ agenda \in Seq(seen \cup {l.result})
        BY SeqWiden DEF WalkOK, WalkTypes
      <4>2. /\ Len(agenda) \in Nat /\ DOMAIN agenda = 1..Len(agenda) /\ \A i \in 1..Len(agenda) : agenda[i] \in seen
            /\ DOMAIN agenda' = 1..(Len(agenda) + 1)
            /\ \A i \in 1..Len(agenda) : agenda'[i] = agenda[i]
            /\ agenda'[Len(agenda) + 1] = l.result
        BY <3>2, <4>1
      <4>3. \A i \in DOMAIN agenda' : i \in 1..Len(agenda) \/ i = Len(agenda) + 1
        BY <4>2
      <4>4. \A i \in DOMAIN agenda' : \/ i \in DOMAIN agenda /\ agenda'[i] = agenda[i] /\ agenda[i] \in seen
                                      \/ i = Len(agenda) + 1 /\ agenda'[i] = l.result
        BY <4>2, <4>3
      <4>. QED  BY <2>4, <3>2, <4>4 DEF Range
    <3>. QED  BY <2>4, <3>1, <3>2
  <2>15. AgendaOnce'
    BY <1>1, <2>4, <2>11, <2>14 DEF AgendaOnce
  <2>16. JoinedOnce'
    <3>. SUFFICES ASSUME NEW l2 \in left.rules, NEW r2 \in right.rules, Emits(l2, r2)'
                  PROVE  /\ r2.result \in visited
                         /\ \A x \in Own(work) : Joining(x) /\ x.rule = r2 => DoneWith(x, l2)'
      BY <1>1 DEF JoinedOnce, Joining
    <3>1. Joins(l2, r2) /\ ProductRule(l2, r2) \in Decoded'
      BY DEF Emits, Joins, ProductRule
    <3>2. CASE ProductRule(l2, r2) \in Decoded
      <4>1. /\ r2.result \in visited
            /\ \A x \in Own(work) : Joining(x) /\ x.rule = r2 => DoneWith(x, l2)
        BY <2>11, <3>1, <3>2 DEF JoinedOnce, Emits
      <4>2. \A x : DoneWith(x, l2) => DoneWith(x, l2)'
        BY <1>1, <2>4, <2>14 DEF DoneWith
      <4>. QED  BY <4>1, <4>2
    <3>3. CASE ProductRule(l2, r2) = ProductRule(l, r)
      <4>. HIDE DEF r
      <4>1. l2 = l /\ r2 = r
        BY <2>1, <2>2, <3>1, <3>3, ProductRuleOnce
      <4>2. ASSUME NEW x \in Own(work), Joining(x), x.rule = r PROVE DoneWith(x, l)'
        <5>1. x \in TopDown!Steps
          BY SeqFacts DEF WalkOK, StackOK, Own
        <5>2. x = Head(work)
          BY <2>10, <4>2, <5>1, OneStepPerRule, RightRules DEF ChartInv, r
        <5>3. Head(work).do = "saturate" => l.children[Head(work).position] \in seen \ Range(agenda)
          BY <1>1, <2>11 DEF AgendaOnce
        <5>. QED  BY <1>1, <2>4, <2>14, <5>2, <5>3 DEF DoneWith
      <4>. QED  BY <2>13, <4>1, <4>2
    <3>. QED  BY <2>9, <3>1, <3>2, <3>3
  <2>. QED  BY <2>9, <2>11, <2>12, <2>15, <2>16 DEF WalkOnce
<1>. QED  BY <1>2, <1>3

LEMMA WalkOnceStep ==
  ASSUME ChartInv, OneLoopPosition(right), WalkOK, WalkOnce, TopDown!Work,
         strategy # "lazy", strategy' = strategy
  PROVE  WalkOnce'
<1>. USE DEF TopDown!input, TopDown!chart, TopDown!loop
<1>1. CASE TopDown!Start \/ TopDown!EnterVisit \/ TopDown!ReturnFromVisit
  BY <1>1, OnceStart, OnceEnterVisit, OnceDrop
<1>2. CASE TopDown!JoinNormalRule \/ TopDown!StartSaturation \/ TopDown!TryPartner
  BY <1>2, OnceJoin, OnceStartSaturation, OnceTryPartner
<1>3. CASE \E l \in matches : TopDown!CollectPair(l)
  BY <1>3, OnceCollectPair
<1>4. CASE TopDown!EndJoin
  <2>1. CASE Head(work).do # "saturate"
    BY <1>4, <2>1, OnceDrop
  <2>2. CASE Head(work).do = "saturate"
    <3>1. /\ UNCHANGED <<left, right, product_pairs, rules, duplicate, work, visited, matches, agenda, seen>>
          /\ walk = "join" /\ walk' = "saturate"
      BY <1>4, <2>2 DEF TopDown!EndJoin
    <3>2. \A l, r : Emits(l, r)' <=> Emits(l, r)
      BY <3>1, EmitsKept
    <3>. QED  BY <3>1, <3>2 DEF WalkOnce, JoinedOnce, AgendaOnce, DoneWith
  <2>. QED  BY <2>1, <2>2
<1>5. CASE TopDown!EndSaturation
  BY <1>5, OnceDrop
<1>6. CASE TopDown!Finish
  BY <1>6, OnceStopped DEF TopDown!Finish
<1>. QED  BY <1>1, <1>2, <1>3, <1>4, <1>5, <1>6 DEF TopDown!Work

-----------------------------------------------------------------------------
(* No rule twice: the sibling finder. *)

LEMMA SiblingTerms ==
  /\ Sibling!Root = Root
  /\ \A term, n : Sibling!IsOperation(term, n) <=> IsOperation(term, n)
  /\ \A term, n : Sibling!Children(term, n) = Children(term, n)
  /\ \A term, n : Sibling!VariableNodes(term, n) = VariableNodes(term, n)
  /\ \A term, v : Sibling!VariableNode(term, v) = VariableNode(term, v)
<1>1. Sibling!Root = Root
  BY DEF Sibling!Root, Root
<1>2. \A term, n : Sibling!IsOperation(term, n) <=> IsOperation(term, n)
  BY DEF Sibling!IsOperation, IsOperation
<1>3. \A term, n : Sibling!Children(term, n) = Children(term, n)
  BY DEF Sibling!Children, Children, Sibling!SelectSeq, SelectSeq
<1>4. \A term, n : Sibling!VariableNodes(term, n) = VariableNodes(term, n)
  BY DEF Sibling!VariableNodes, VariableNodes, Sibling!SelectSeq, SelectSeq, Sibling!Subterm, Subterm,
         Sibling!IsOperation, IsOperation
<1>5. \A term, v : Sibling!VariableNode(term, v) = VariableNode(term, v)
  BY DEF Sibling!VariableNode, VariableNode
<1>. QED  BY <1>1, <1>2, <1>3, <1>4, <1>5

IsRow(s) == \E S : s \in Seq(S)

LEMMA RowFacts ==
  ASSUME NEW s, NEW t, IsRow(s), IsRow(t)
  PROVE  /\ Len(s) \in Nat /\ DOMAIN s = 1..Len(s)
         /\ IsRow(s \o t) /\ Len(s \o t) = Len(s) + Len(t)
         /\ (Len(s) = Len(t) /\ \A i \in 1..Len(s) : s[i] = t[i]) => s = t
<1>1. PICK S, T : s \in Seq(S) /\ t \in Seq(T)
  BY DEF IsRow
<1>2. s \in Seq(S \cup T) /\ t \in Seq(S \cup T)
  BY <1>1, SeqWiden
<1>3. s \o t \in Seq(S \cup T) /\ Len(s \o t) = Len(s) + Len(t)
  BY <1>2
<1>4. (Len(s) = Len(t) /\ \A i \in 1..Len(s) : s[i] = t[i]) => s = t
  BY <1>2
<1>. QED  BY <1>1, <1>3, <1>4 DEF IsRow

LEMMA FlattenShort ==
  ASSUME NEW T, NEW seqs \in Seq(Seq(T)), Len(seqs) <= 2
  PROVE  FlattenSeq(seqs) = IF Len(seqs) = 0 THEN <<>>
                            ELSE IF Len(seqs) = 1 THEN seqs[1] ELSE seqs[1] \o seqs[2]
<1>1. CASE Len(seqs) = 0
  BY <1>1 DEF FlattenSeq
<1>2. CASE Len(seqs) # 0
  <2>1. PICK f : /\ FlattenSeq(seqs) = f[Len(seqs)]
                 /\ f[1] = seqs[1]
                 /\ \A n \in 1..Len(seqs) : n # 1 => f[n] = f[n - 1] \o seqs[n]
    BY <1>2, FlattenIs
  <2>0. Len(seqs) \in Nat /\ Len(seqs) <= 2
    OBVIOUS
  <2>2. Len(seqs) = 1 \/ Len(seqs) = 2
    <3>. DEFINE len == Len(seqs)
    <3>1. len \in Nat /\ len <= 2 /\ len # 0
      BY <1>2, <2>0
    <3>. HIDE DEF len
    <3>2. len = 1 \/ len = 2
      BY ONLY <3>1
    <3>. QED  BY <3>2 DEF len
  <2>3. CASE Len(seqs) = 1
    BY <2>1, <2>3
  <2>4. CASE Len(seqs) = 2
    <3>0. 2 \in 1..Len(seqs) /\ 2 # 1 /\ 2 - 1 = 1
      BY <2>4
    <3>1. f[2] = f[1] \o seqs[2]
      BY ONLY <2>1, <3>0
    <3>. QED  BY <2>1, <2>4, <3>1
  <2>. QED  BY <2>2, <2>3, <2>4
<1>. QED  BY <1>1, <1>2

(* How many variables a node has. *)
Width(id, n) == Len(VariableNodes(Terms[id], n))

LEMMA WidthIs ==
  ASSUME NEW id \in DOMAIN Terms, NEW n \in DOMAIN Terms[id]
  PROVE  LET kids == Children(Terms[id], n)
         IN  /\ Width(id, n) \in Nat
             /\ kids \in Seq(DOMAIN Terms[id])
             /\ ~IsOperation(Terms[id], n) => Width(id, n) = 1
             /\ IsOperation(Terms[id], n) /\ Len(kids) <= 2 =>
                   Width(id, n) = IF Len(kids) = 0 THEN 0
                                  ELSE IF Len(kids) = 1 THEN Width(id, kids[1])
                                  ELSE Width(id, kids[1]) + Width(id, kids[2])
<1>. DEFINE term == Terms[id]
            kids == Children(term, n)
            below == [i \in DOMAIN kids |-> VariableNodes(term, kids[i])]
<1>1. /\ \A m \in DOMAIN term : VariableNodes(term, m) \in Seq(DOMAIN term)
      /\ kids \in Seq(DOMAIN term)
      /\ VariableNodes(term, n) = IF IsOperation(term, n) THEN FlattenSeq(below) ELSE <<n>>
  BY TermsAreTrees DEF IsTree
<1>. HIDE DEF term, kids
<1>2. /\ Len(kids) \in Nat /\ DOMAIN kids = 1..Len(kids) /\ \A i \in 1..Len(kids) : kids[i] \in DOMAIN term
  BY <1>1
<1>3. below \in Seq(Seq(DOMAIN term)) /\ Len(below) = Len(kids)
      /\ \A i \in 1..Len(kids) : below[i] = VariableNodes(term, kids[i])
  BY <1>1, <1>2
<1>4. Width(id, n) \in Nat /\ (~IsOperation(term, n) => Width(id, n) = 1)
  <2>1. Len(VariableNodes(term, n)) \in Nat
    BY <1>1 DEF term
  <2>. QED  BY <1>1, <2>1 DEF Width, term
<1>5. ASSUME IsOperation(term, n), Len(kids) <= 2
      PROVE  Len(FlattenSeq(below)) = IF Len(kids) = 0 THEN 0
                                      ELSE IF Len(kids) = 1 THEN Width(id, kids[1])
                                      ELSE Width(id, kids[1]) + Width(id, kids[2])
  <2>. HIDE DEF below
  <2>1. FlattenSeq(below) = IF Len(kids) = 0 THEN <<>>
                            ELSE IF Len(kids) = 1 THEN below[1] ELSE below[1] \o below[2]
    BY <1>3, <1>5, FlattenShort
  <2>2. Len(kids) = 1 => Len(below[1]) = Width(id, kids[1])
    BY <1>2, <1>3 DEF Width, term
  <2>3. Len(kids) = 2 => /\ Len(below[1]) = Width(id, kids[1]) /\ Len(below[2]) = Width(id, kids[2])
                         /\ Len(below[1] \o below[2]) = Len(below[1]) + Len(below[2])
    <3>. SUFFICES ASSUME Len(kids) = 2
                  PROVE  /\ Len(below[1]) = Width(id, kids[1]) /\ Len(below[2]) = Width(id, kids[2])
                         /\ Len(below[1] \o below[2]) = Len(below[1]) + Len(below[2])
      OBVIOUS
    <3>1. below[1] = VariableNodes(term, kids[1]) /\ below[2] = VariableNodes(term, kids[2])
      BY <1>3
    <3>2. below[1] \in Seq(DOMAIN term) /\ below[2] \in Seq(DOMAIN term)
      <4>1. kids[1] \in DOMAIN term /\ kids[2] \in DOMAIN term
        BY <1>2
      <4>. QED  BY <1>1, <3>1, <4>1
    <3>. QED  BY <3>1, <3>2 DEF Width, term
  <2>4. Len(kids) \in {0, 1, 2}
    BY <1>2, <1>5
  <2>5. Len(<<>>) = 0
    OBVIOUS
  <2>. QED  BY <2>1, <2>2, <2>3, <2>4, <2>5
<1>. HIDE DEF below
<1>. QED  BY <1>1, <1>4, <1>5 DEF Width, term, kids

(* An item has one state for every variable of its node. *)
ItemOK(id, x) ==
    /\ x = [node |-> x.node, state |-> x.state, row |-> x.row]
    /\ x.node \in DOMAIN Terms[id]
    /\ IsRow(x.row) /\ Len(x.row) = Width(id, x.node)

LEMMA NewItem ==
  ASSUME NEW id, NEW n \in DOMAIN Terms[id], NEW q, NEW row, IsRow(row), Len(row) = Width(id, n)
  PROVE  /\ ItemOK(id, Sibling!Item(n, q, row))
         /\ Sibling!Item(n, q, row).node = n
BY DEF Sibling!Item, ItemOK

LEMMA RowAtOK ==
  ASSUME NEW term, NEW n, NEW row, IsRow(row)
  PROVE  IsRow(Sibling!RowAt(term, n, row)) /\ Len(Sibling!RowAt(term, n, row)) = Len(row)
<1>. DEFINE f == Sibling!RowAt(term, n, row)
<1>1. Len(row) \in Nat /\ DOMAIN row = 1..Len(row)
  BY RowFacts
<1>2. CASE n # Sibling!Root
  BY <1>2 DEF Sibling!RowAt
<1>3. CASE n = Sibling!Root
  <2>1. f = [v \in 1..Len(row) |-> f[v]]
    BY <1>1, <1>3 DEF Sibling!RowAt
  <2>. HIDE DEF f
  <2>2. f \in Seq({f[v] : v \in 1..Len(row)}) /\ Len(f) = Len(row)
    BY <1>1, <2>1
  <2>. QED  BY <2>2 DEF IsRow, f
<1>. QED  BY <1>2, <1>3

(* An item that moves up has the states of all variables of the parent.     *)
LEMMA UpwardOK ==
  ASSUME NEW id \in DOMAIN Terms, Sibling!IsBinary(id), \A y \in items[id] : ItemOK(id, y),
         NEW x \in items[id], x.node # Root
  PROVE  \A z \in Sibling!Upward(id, x) : ItemOK(id, z)
<1>. DEFINE term   == Terms[id]
            parent == term[x.node].parent
            kids   == Children(term, parent)
            place  == term[x.node].position
            found(spot) == {y \in Sibling!Settled(id) : y.node = kids[spot]}
            made(y, row) == \E q : y = Sibling!Item(parent, q, Sibling!RowAt(term, parent, row))
<1>1. x.node \in DOMAIN term /\ ItemOK(id, x)
  BY DEF ItemOK
<1>2. parent \in DOMAIN term /\ IsOperation(term, parent) /\ place \in DOMAIN kids /\ x.node = kids[place]
  BY <1>1, TermsAreTrees DEF IsTree
<1>3. kids \in Seq(DOMAIN term) /\ Len(kids) <= 2
  BY <1>2, WidthIs, SiblingTerms DEF Sibling!IsBinary
<1>4. /\ \/ Len(kids) = 1 /\ place = 1
         \/ Len(kids) = 2 /\ place = 1
         \/ Len(kids) = 2 /\ place = 2
      /\ Len(kids) \in Nat
  <2>. HIDE DEF kids, place
  <2>1. Len(kids) \in Nat /\ place \in 1..Len(kids)
    BY <1>2, <1>3
  <2>2. DEFINE len == Len(kids)
  <2>3. len \in Nat /\ place \in 1..len /\ len <= 2
    BY <1>3, <2>1
  <2>. HIDE DEF len
  <2>4. (len = 1 /\ place = 1) \/ (len = 2 /\ place = 1) \/ (len = 2 /\ place = 2)
    BY ONLY <2>3
  <2>. QED  BY <2>1, <2>4 DEF len
<1>5. Width(id, parent) = IF Len(kids) = 1 THEN Width(id, kids[1])
                                           ELSE Width(id, kids[1]) + Width(id, kids[2])
  <2>1. Width(id, parent) = IF Len(kids) = 0 THEN 0
                            ELSE IF Len(kids) = 1 THEN Width(id, kids[1])
                            ELSE Width(id, kids[1]) + Width(id, kids[2])
    BY <1>2, <1>3, WidthIs
  <2>. QED  BY <1>4, <2>1
<1>6. ASSUME NEW z \in Sibling!Upward(id, x)
      PROVE  \/ Len(kids) = 1 /\ made(z, x.row)
             \/ Len(kids) # 1 /\ place = 1 /\ \E y \in found(2) : made(z, x.row \o y.row)
             \/ Len(kids) # 1 /\ place # 1 /\ \E y \in found(1) : made(z, y.row \o x.row)
  <2>. DEFINE from(row, Q) == {Sibling!Item(parent, q, Sibling!RowAt(term, parent, row)) : q \in Q}
              both(f, s) == from(f.row \o s.row, Sibling!Step(decomp, term[parent].label, <<f.state, s.state>>))
              fits(f, s) == Sibling!Compatible(term[parent].label, f.state, s.state)
  <2>1. Sibling!Children(term, parent) = kids
    BY SiblingTerms
  <2>2. Sibling!Upward(id, x) =
          IF Len(kids) = 1 THEN from(x.row, Sibling!Step(decomp, term[parent].label, <<x.state>>))
          ELSE IF place = 1 THEN UNION {both(x, y) : y \in {w \in found(2) : fits(x, w)}}
          ELSE UNION {both(y, x) : y \in {w \in found(1) : fits(w, x)}}
    BY <2>1, Zenon DEF Sibling!Upward
  <2>3. \A row, Q : z \in from(row, Q) => made(z, row)
    OBVIOUS
  <2>. HIDE DEF made, from
  <2>4. \A f, s : z \in both(f, s) => made(z, f.row \o s.row)
    BY <2>3
  <2>. HIDE DEF both, found, fits, kids, place
  <2>5. CASE Len(kids) = 1
    BY <1>6, <2>2, <2>3, <2>5
  <2>6. CASE Len(kids) # 1 /\ place = 1
    <3>1. PICK y \in found(2) : z \in both(x, y)
      BY <1>6, <2>2, <2>6
    <3>. QED  BY <2>4, <2>6, <3>1
  <2>7. CASE Len(kids) # 1 /\ place # 1
    <3>1. PICK y \in found(1) : z \in both(y, x)
      BY <1>6, <2>2, <2>7
    <3>. QED  BY <2>4, <2>7, <3>1
  <2>. QED  BY <2>5, <2>6, <2>7
<1>7. ASSUME NEW z, NEW row, IsRow(row), Len(row) = Width(id, parent), made(z, row)
      PROVE  ItemOK(id, z)
  <2>1. PICK q : z = Sibling!Item(parent, q, Sibling!RowAt(term, parent, row))
    BY <1>7
  <2>2. IsRow(Sibling!RowAt(term, parent, row)) /\ Len(Sibling!RowAt(term, parent, row)) = Width(id, parent)
    BY <1>7, RowAtOK
  <2>. QED  BY <1>2, <2>1, <2>2, NewItem
<1>8. IsRow(x.row) /\ Len(x.row) = Width(id, kids[place])
  BY <1>1, <1>2 DEF ItemOK
<1>9. \A spot : \A y \in found(spot) : IsRow(y.row) /\ Len(y.row) = Width(id, kids[spot])
  BY DEF Sibling!Settled, ItemOK
<1>. HIDE DEF made, found, place, kids, parent, term
<1>. SUFFICES ASSUME NEW z \in Sibling!Upward(id, x) PROVE ItemOK(id, z)
  OBVIOUS
<1>10. CASE Len(kids) = 1 /\ made(z, x.row)
  BY <1>4, <1>5, <1>7, <1>8, <1>10
<1>11. CASE Len(kids) # 1 /\ place = 1 /\ \E y \in found(2) : made(z, x.row \o y.row)
  <2>1. PICK y \in found(2) : made(z, x.row \o y.row)
    BY <1>11
  <2>2. IsRow(y.row) /\ Len(y.row) = Width(id, kids[2])
    BY <1>9
  <2>3. IsRow(x.row \o y.row) /\ Len(x.row \o y.row) = Len(x.row) + Len(y.row)
    <3>. DEFINE s == x.row
                t == y.row
    <3>1. IsRow(s) /\ IsRow(t)
      BY <1>8, <2>2
    <3>. HIDE DEF s, t
    <3>2. IsRow(s \o t) /\ Len(s \o t) = Len(s) + Len(t)
      BY ONLY <3>1, RowFacts
    <3>. QED  BY <3>2 DEF s, t
  <2>4. Len(x.row \o y.row) = Width(id, parent)
    <3>1. /\ Len(x.row) = Width(id, kids[1]) /\ Len(y.row) = Width(id, kids[2])
          /\ Width(id, parent) = Width(id, kids[1]) + Width(id, kids[2])
      BY <1>4, <1>5, <1>8, <1>11, <2>2
    <3>. QED  BY <2>3, <3>1
  <2>. QED  BY <1>7, <2>1, <2>3, <2>4
<1>12. CASE Len(kids) # 1 /\ place # 1 /\ \E y \in found(1) : made(z, y.row \o x.row)
  <2>1. PICK y \in found(1) : made(z, y.row \o x.row)
    BY <1>12
  <2>2. IsRow(y.row) /\ Len(y.row) = Width(id, kids[1])
    BY <1>9
  <2>3. IsRow(y.row \o x.row) /\ Len(y.row \o x.row) = Len(y.row) + Len(x.row)
    <3>. DEFINE s == y.row
                t == x.row
    <3>1. IsRow(s) /\ IsRow(t)
      BY <1>8, <2>2
    <3>. HIDE DEF s, t
    <3>2. IsRow(s \o t) /\ Len(s \o t) = Len(s) + Len(t)
      BY ONLY <3>1, RowFacts
    <3>. QED  BY <3>2 DEF s, t
  <2>4. Len(y.row \o x.row) = Width(id, parent)
    <3>1. /\ Len(x.row) = Width(id, kids[2]) /\ Len(y.row) = Width(id, kids[1])
          /\ Width(id, parent) = Width(id, kids[1]) + Width(id, kids[2])
      BY <1>4, <1>5, <1>8, <1>12, <2>2
    <3>. QED  BY <2>3, <3>1
  <2>. QED  BY <1>7, <2>1, <2>3, <2>4
<1>. QED  BY <1>6, <1>10, <1>11, <1>12

(* The items at the constants and at a variable. *)
LEMMA LeavesOK ==
  ASSUME NEW id \in DOMAIN Terms
  PROVE  /\ \A z \in Sibling!Constants(id) : ItemOK(id, z)
         /\ \A q : \A v \in 1..Arity(Terms[id]) :
               ItemOK(id, Sibling!Item(Sibling!VariableNode(Terms[id], v), q, <<q>>))
<1>. DEFINE term == Terms[id]
<1>1. IsRow(<<>>) /\ Len(<<>>) = 0 /\ \A q : IsRow(<<q>>) /\ Len(<<q>>) = 1
  <2>1. <<>> \in Seq({}) /\ Len(<<>>) = 0
    OBVIOUS
  <2>2. \A q : <<q>> \in Seq({q}) /\ Len(<<q>>) = 1
    OBVIOUS
  <2>. QED  BY <2>1, <2>2 DEF IsRow
<1>2. ASSUME NEW z \in Sibling!Constants(id) PROVE ItemOK(id, z)
  <2>1. PICK n \in DOMAIN term : /\ IsOperation(term, n) /\ Children(term, n) = <<>>
                                 /\ \E q : z = Sibling!Item(n, q, <<>>)
    BY <1>2, SiblingTerms DEF Sibling!Constants
  <2>2. Len(Children(term, n)) = 0
    BY <2>1
  <2>3. Width(id, n) = 0
    BY <2>1, <2>2, WidthIs
  <2>. QED  BY <1>1, <2>1, <2>3, NewItem
<1>3. ASSUME NEW q, NEW v \in 1..Arity(term)
      PROVE  ItemOK(id, Sibling!Item(Sibling!VariableNode(term, v), q, <<q>>))
  <2>1. \E n \in DOMAIN term : ~IsOperation(term, n) /\ term[n].variable = v
    BY TermsAreNondeleting DEF IsNondeleting
  <2>2. VariableNode(term, v) \in DOMAIN term /\ term[VariableNode(term, v)].variable = v
    BY <2>1 DEF VariableNode
  <2>3. Arity(term) \in Nat \/ v # 0
    BY <1>3
  <2>4. v # 0
    BY <1>3
  <2>5. ~IsOperation(term, VariableNode(term, v))
    BY <2>2, <2>4 DEF IsOperation
  <2>6. Width(id, VariableNode(term, v)) = 1
    BY <2>2, <2>5, WidthIs
  <2>. QED  BY <1>1, <2>2, <2>6, NewItem, SiblingTerms
<1>. QED  BY <1>2, <1>3

(* Each rule of the grammar that has an image fills the variables of it.    *)
ProgramsFit ==
    \A l \in Sibling!Interpreted :
        Sibling!Program(l) \in DOMAIN Terms /\ Arity(Terms[Sibling!Program(l)]) = Len(l.children)

ItemsFit ==
    /\ items = [id \in DOMAIN Terms |-> items[id]]
    /\ \A id \in DOMAIN Terms : \A y \in items[id] : ItemOK(id, y)

RootItem(l, y) == l \in Sibling!Interpreted /\ y \in items[Sibling!Program(l)] /\ y.node = Root

RootsFit == \A t \in tries \cup emitted : RootItem(t[1], t[2])

(* Rule x of the chart joins grammar rule l and root item y. *)
JoinOf(x, l, y) ==
    /\ x.symbol = l.symbol
    /\ product_pairs[x.parent] = <<l.result, y.state>>
    /\ DOMAIN x.children = DOMAIN l.children
    /\ \A i \in DOMAIN l.children : product_pairs[x.children[i]] = <<l.children[i], y.row[i]>>

(* The pairs in emitted are all that the chart was made from. *)
RulesFit ==
    /\ Numbered /\ ~duplicate
    /\ \A x \in rules : \E l, y : <<l, y>> \in emitted /\ JoinOf(x, l, y)

GroupFits(g) == g[1] \in Sibling!Programs /\ g[2] \in 0..Arity(Terms[g[1]])

(* Where the run is: what the agenda and the new root items belong to.      *)
PlaceFits ==
    /\ \A g \in todo : GroupFits(g)
    /\ pc \in {"groups", "older", "propagate", "roots"} => \A id \in Sibling!Programs : Sibling!IsBinary(id)
    /\ pc \in {"older", "propagate", "roots"} => GroupFits(group)
    /\ pc \in {"start", "groups", "older", "roots"} => scheduled = {}
    /\ pc = "propagate" => scheduled \subseteq items[group[1]]
    /\ pc \in {"start", "groups", "older"} => new_roots = {}
    /\ pc \in {"propagate", "roots"} => \A y \in new_roots : y \in items[group[1]] /\ y.node = Root

SiblingOnce == ProgramsFit /\ ItemsFit /\ RootsFit /\ RulesFit /\ PlaceFits

LEMMA ProgramsKept ==
  ASSUME left' = left, hom' = hom
  PROVE  /\ Sibling!Interpreted' = Sibling!Interpreted
         /\ \A l : Sibling!Program(l)' = Sibling!Program(l)
         /\ Sibling!Programs' = Sibling!Programs
         /\ \A g : GroupFits(g)' <=> GroupFits(g)
         /\ ProgramsFit => ProgramsFit'
<1>1. Sibling!Interpreted' = Sibling!Interpreted /\ \A l : Sibling!Program(l)' = Sibling!Program(l)
  BY DEF Sibling!Interpreted, Sibling!Program
<1>2. Sibling!Programs' = Sibling!Programs
  BY <1>1 DEF Sibling!Programs
<1>3. \A g : GroupFits(g)' <=> GroupFits(g)
  BY <1>2 DEF GroupFits
<1>4. ProgramsFit => ProgramsFit'
  BY <1>1 DEF ProgramsFit
<1>. QED  BY <1>1, <1>2, <1>3, <1>4

LEMMA ProgramIsTerm ==
  ASSUME ProgramsFit, NEW id \in Sibling!Programs
  PROVE  id \in DOMAIN Terms
BY DEF Sibling!Programs, ProgramsFit

LEMMA RulesKept ==
  ASSUME RulesFit, UNCHANGED <<product_pairs, rules, duplicate, emitted>>
  PROVE  RulesFit'
<1>1. Numbered' /\ ~duplicate'
  BY NumberedKept DEF RulesFit
<1>2. \A x, l, y : JoinOf(x, l, y) => JoinOf(x, l, y)'
  BY DEF JoinOf
<1>3. rules' = rules /\ emitted' = emitted /\ \A x \in rules : \E l, y : <<l, y>> \in emitted /\ JoinOf(x, l, y)
  BY Zenon DEF RulesFit
<1>4. \A x \in rules' : \E l, y : <<l, y>> \in emitted' /\ JoinOf(x, l, y)'
  BY <1>2, <1>3, Zenon
<1>. QED  BY <1>1, <1>4, Zenon DEF RulesFit

LEMMA ItemsGrow ==
  ASSUME ItemsFit, left' = left, hom' = hom, NEW id \in DOMAIN Terms, NEW more, \A z \in more : ItemOK(id, z),
         items' = [items EXCEPT ![id] = @ \cup more]
  PROVE  /\ ItemsFit'
         /\ items'[id] = items[id] \cup more
         /\ ProgramsFit => \A l, y : RootItem(l, y) => RootItem(l, y)'
<1>1. /\ items' = [k \in DOMAIN Terms |-> items'[k]]
      /\ items'[id] = items[id] \cup more
      /\ \A k \in DOMAIN Terms : k # id => items'[k] = items[k]
  BY DEF ItemsFit
<1>2. ItemsFit'
  BY <1>1 DEF ItemsFit, ItemOK, Width
<1>3. ASSUME ProgramsFit, NEW l, NEW y, RootItem(l, y) PROVE RootItem(l, y)'
  <2>1. Sibling!Program(l) \in DOMAIN Terms
    BY <1>3 DEF ProgramsFit, RootItem
  <2>2. y \in items'[Sibling!Program(l)]
    BY <1>1, <1>3, <2>1 DEF RootItem
  <2>. QED  BY <1>3, <2>2, ProgramsKept DEF RootItem
<1>. QED  BY <1>1, <1>2, <1>3

(* A root item and a rule that fit: the row has a state for every child.    *)
LEMMA RootRow ==
  ASSUME ProgramsFit, ItemsFit, NEW l, NEW y, RootItem(l, y)
  PROVE  /\ y = [node |-> y.node, state |-> y.state, row |-> y.row]
         /\ y.node = Root
         /\ IsRow(y.row) /\ Len(y.row) = Len(l.children)
<1>1. Sibling!Program(l) \in DOMAIN Terms /\ Arity(Terms[Sibling!Program(l)]) = Len(l.children)
  BY DEF ProgramsFit, RootItem
<1>2. ItemOK(Sibling!Program(l), y)
  BY <1>1 DEF ItemsFit, RootItem
<1>. QED  BY <1>1, <1>2 DEF RootItem, ItemOK, Width, Arity

(* Two joins that give the same rule are one. *)
LEMMA JoinOnce ==
  ASSUME left \in Lefts, ProgramsFit, ItemsFit, NEW x, NEW l, NEW y, NEW m, NEW z,
         RootItem(l, y), RootItem(m, z), JoinOf(x, l, y), JoinOf(x, m, z)
  PROVE  l = m /\ y = z
<1>1. l \in left.rules /\ m \in left.rules /\ left.rules \subseteq ExplicitRules
  BY InputsAreAutomata DEF IsExplicit, RootItem, Sibling!Interpreted
<1>2. /\ l = [symbol |-> l.symbol, children |-> l.children, result |-> l.result]
      /\ m = [symbol |-> m.symbol, children |-> m.children, result |-> m.result]
      /\ l.children \in Seq(LeftStates) /\ m.children \in Seq(LeftStates)
  BY <1>1 DEF ExplicitRules
<1>3. /\ l.symbol = m.symbol /\ l.result = m.result /\ y.state = z.state
      /\ DOMAIN l.children = DOMAIN m.children
      /\ \A i \in DOMAIN l.children : l.children[i] = m.children[i] /\ y.row[i] = z.row[i]
  BY DEF JoinOf
<1>4. Len(l.children) = Len(m.children) /\ DOMAIN l.children = 1..Len(l.children)
  BY <1>2, <1>3
<1>5. l.children = m.children
  BY <1>2, <1>3, <1>4
<1>6. y.row = z.row
  <2>. DEFINE s == y.row
              t == z.row
              len == Len(l.children)
  <2>1. IsRow(s) /\ IsRow(t) /\ Len(s) = len /\ Len(t) = len /\ \A i \in 1..len : s[i] = t[i]
    BY <1>3, <1>4, RootRow
  <2>. HIDE DEF s, t, len
  <2>2. s = t
    BY ONLY <2>1, RowFacts
  <2>. QED  BY <2>2 DEF s, t
<1>7. y = [node |-> Root, state |-> y.state, row |-> y.row] /\ z = [node |-> Root, state |-> z.state, row |-> z.row]
  BY RootRow
<1>. QED  BY <1>2, <1>3, <1>5, <1>6, <1>7

(* try_emit: the pair is new, so its rule is. *)
LEMMA OnceTryEmit ==
  ASSUME left \in Lefts, SiblingOnce, NEW t \in tries, Sibling!TryEmit(t[1], t[2])
  PROVE  SiblingOnce'
<1>. DEFINE l == t[1]
            y == t[2]
            kids == [i \in DOMAIN l.children |-> <<l.children[i], y.row[i]>>]
            ids  == [i \in DOMAIN kids |-> IdOf(kids[i])]
            pair == <<l.result, y.state>>
<1>1. /\ <<l, y>> \in tries /\ tries' = tries \ {<<l, y>>}
      /\ UNCHANGED <<left, right, decomp, hom, items, initialized, scheduled, current, todo, group, pc, new_roots>>
      /\ \/ UNCHANGED <<product_pairs, accepting, rules, duplicate, queue, emitted>>
         \/ /\ <<l, y>> \notin emitted /\ \A i \in DOMAIN kids : Known(kids[i])
            /\ AddProductRule(l.symbol, ids, pair)
            /\ emitted' = emitted \cup {<<l, y>>}
  <2>1. \A i \in DOMAIN kids : IdOf(kids[i]) = Sibling!IdOf(kids[i])
    BY SiblingChart
  <2>2. ids = [i \in DOMAIN kids |-> Sibling!IdOf(kids[i])]
    BY <2>1
  <2>. HIDE DEF ids
  <2>. QED  BY <2>2, SiblingChart DEF Sibling!TryEmit, Sibling!input, Sibling!programs, Sibling!position, Sibling!chart
<1>2. ProgramsFit' /\ ItemsFit' /\ PlaceFits'
  <2>1. ProgramsFit'
    BY <1>1, ProgramsKept DEF SiblingOnce
  <2>2. ItemsFit'
    BY <1>1 DEF SiblingOnce, ItemsFit, ItemOK, Width
  <2>3. PlaceFits'
    BY <1>1, ProgramsKept DEF SiblingOnce, PlaceFits, Sibling!IsBinary
  <2>. QED  BY <2>1, <2>2, <2>3
<1>3. RootItem(l, y)
  BY DEF SiblingOnce, RootsFit
<1>4. RootsFit'
  <2>1. \A k, z : RootItem(k, z) => RootItem(k, z)'
    BY <1>1, ProgramsKept DEF RootItem
  <2>2. \A u \in tries' \cup emitted' : u \in tries \cup emitted \/ u = <<l, y>>
    BY <1>1
  <2>. HIDE DEF l, y
  <2>. QED  BY <1>3, <2>1, <2>2 DEF RootsFit, SiblingOnce
<1>5. RulesFit'
  <2>1. CASE UNCHANGED <<product_pairs, accepting, rules, duplicate, queue, emitted>>
    BY <2>1, RulesKept DEF SiblingOnce
  <2>2. CASE /\ <<l, y>> \notin emitted /\ \A i \in DOMAIN kids : Known(kids[i])
             /\ AddProductRule(l.symbol, ids, pair)
             /\ emitted' = emitted \cup {<<l, y>>}
    <3>. HIDE DEF ids
    <3>0. PICK c : c = ids
      OBVIOUS
    <3>. DEFINE made(n) == [symbol |-> l.symbol, children |-> c, parent |-> n]
    <3>1. DOMAIN c = DOMAIN l.children /\ DOMAIN kids = DOMAIN l.children
          /\ \A i \in DOMAIN c : c[i] \in Ids /\ product_pairs[c[i]] = <<l.children[i], y.row[i]>>
      BY <2>2, <3>0, IdOfKnown DEF ids
    <3>. HIDE DEF kids, pair
    <3>2. /\ Numbered' /\ Ids \subseteq Ids'
          /\ \A i \in Ids : product_pairs'[i] = product_pairs[i]
          /\ \E n \in Ids' : /\ product_pairs'[n] = pair
                             /\ rules' = rules \cup {made(n)}
                             /\ duplicate' = (duplicate \/ made(n) \in rules)
      <4>1. Numbered /\ AddProductRule(l.symbol, c, pair) /\ \A i \in DOMAIN c : c[i] \in Ids
        BY <2>2, <3>0, <3>1 DEF SiblingOnce, RulesFit
      <4>. HIDE DEF l
      <4>. QED  BY ONLY <4>1, Numbers
    <3>3. PICK n \in Ids' : /\ product_pairs'[n] = pair
                            /\ rules' = rules \cup {made(n)}
                            /\ duplicate' = (duplicate \/ made(n) \in rules)
      BY <3>2
    <3>4. \A x \in rules : x.parent \in Ids /\ \A i \in DOMAIN x.children : x.children[i] \in Ids
      BY DEF SiblingOnce, RulesFit, Numbered
    <3>5. made(n) \notin rules
      <4>. SUFFICES ASSUME made(n) \in rules PROVE FALSE
        OBVIOUS
      <4>1. n \in Ids /\ product_pairs[n] = pair
        BY <3>2, <3>3, <3>4
      <4>2. PICK m, z : <<m, z>> \in emitted /\ JoinOf(made(n), m, z)
        BY DEF SiblingOnce, RulesFit
      <4>3. RootItem(m, z)
        <5>1. \A u \in emitted : RootItem(u[1], u[2])
          BY DEF SiblingOnce, RootsFit
        <5>. HIDE DEF made
        <5>. QED  BY <4>2, <5>1
      <4>4. JoinOf(made(n), l, y)
        BY <3>1, <4>1 DEF JoinOf, pair
      <4>. HIDE DEF made, l, y
      <4>5. l = m /\ y = z
        BY <1>3, <4>2, <4>3, <4>4, JoinOnce DEF SiblingOnce
      <4>. QED  BY <2>2, <4>2, <4>5
    <3>6. ASSUME NEW x \in rules PROVE \E m, z : <<m, z>> \in emitted' /\ JoinOf(x, m, z)'
      <4>1. PICK m, z : <<m, z>> \in emitted /\ JoinOf(x, m, z)
        BY DEF SiblingOnce, RulesFit
      <4>2. \A i \in DOMAIN x.children : product_pairs'[x.children[i]] = product_pairs[x.children[i]]
        BY <3>2, <3>4
      <4>3. product_pairs'[x.parent] = product_pairs[x.parent]
        BY <3>2, <3>4
      <4>4. JoinOf(x, m, z)'
        BY <4>1, <4>2, <4>3 DEF JoinOf
      <4>5. <<m, z>> \in emitted'
        BY <2>2, <4>1
      <4>. QED  BY <4>4, <4>5
    <3>7. JoinOf(made(n), l, y)'
      <4>1. \A i \in DOMAIN c : product_pairs'[c[i]] = <<l.children[i], y.row[i]>>
        BY <3>1, <3>2
      <4>. QED  BY <3>1, <3>3, <4>1 DEF JoinOf, pair
    <3>8. <<l, y>> \in emitted'
      BY <2>2
    <3>. HIDE DEF made, l, y
    <3>9. \A x \in rules' : \E m, z : <<m, z>> \in emitted' /\ JoinOf(x, m, z)'
      BY <3>3, <3>6, <3>7, <3>8, Zenon
    <3>10. ~duplicate'
      BY <3>3, <3>5 DEF SiblingOnce, RulesFit
    <3>. QED  BY <3>2, <3>9, <3>10, Zenon DEF RulesFit
  <2>. QED  BY <1>1, <2>1, <2>2
<1>. QED  BY <1>2, <1>4, <1>5 DEF SiblingOnce

(* What keeps the chart and the pairs to be tried, or drops some.           *)
LEMMA OnceWithoutJoin ==
  ASSUME SiblingOnce, UNCHANGED <<left, hom, product_pairs, rules, duplicate, emitted>>,
         \A l, y : RootItem(l, y) => RootItem(l, y)',
         \A t \in tries' : t \in tries \/ RootItem(t[1], t[2])'
  PROVE  ProgramsFit' /\ RulesFit' /\ RootsFit'
<1>1. ProgramsFit' /\ RulesFit'
  BY ProgramsKept, RulesKept DEF SiblingOnce
<1>2. RootsFit'
  BY DEF SiblingOnce, RootsFit
<1>. QED  BY <1>1, <1>2

LEMMA ItemsKept ==
  ASSUME ItemsFit, left' = left, hom' = hom, items' = items
  PROVE  ItemsFit' /\ \A l, y : RootItem(l, y) => RootItem(l, y)'
<1>1. ItemsFit'
  BY DEF ItemsFit, ItemOK, Width
<1>2. \A l, y : RootItem(l, y) => RootItem(l, y)'
  BY ProgramsKept DEF RootItem
<1>. QED  BY <1>1, <1>2

(* Only the position changes. *)
LEMMA OnceMoved ==
  ASSUME SiblingOnce, UNCHANGED <<left, hom, product_pairs, rules, duplicate, emitted, items>>,
         \A t \in tries' : t \in tries \/ RootItem(t[1], t[2])', PlaceFits'
  PROVE  SiblingOnce'
<1>1. ItemsFit' /\ \A l, y : RootItem(l, y) => RootItem(l, y)'
  BY ItemsKept DEF SiblingOnce
<1>2. ProgramsFit' /\ RulesFit' /\ RootsFit'
  BY <1>1, OnceWithoutJoin
<1>. QED  BY <1>1, <1>2 DEF SiblingOnce

LEMMA OnceGiveUp ==
  ASSUME SiblingOnce, Sibling!GiveUp
  PROVE  SiblingOnce'
<1>1. /\ UNCHANGED <<left, hom, product_pairs, rules, duplicate, emitted, items, tries, todo>>
      /\ pc' = "cancelled"
  BY DEF Sibling!GiveUp, Sibling!input, Sibling!chart, Sibling!programs, Sibling!position
<1>2. PlaceFits'
  BY <1>1, ProgramsKept DEF SiblingOnce, PlaceFits
<1>. QED  BY <1>1, <1>2, OnceMoved

LEMMA OnceSiblingStart ==
  ASSUME left \in Lefts, SiblingOnce, Sibling!Start
  PROVE  SiblingOnce'
<1>. USE DEF Sibling!input, Sibling!chart, Sibling!programs, Sibling!position
<1>1. CASE Sibling!GiveUp
  BY <1>1, OnceGiveUp
<1>2. CASE pc' = "refused" /\ UNCHANGED <<left, hom, Sibling!chart, items, tries, todo>>
  <2>1. PlaceFits'
    BY <1>2, ProgramsKept DEF SiblingOnce, PlaceFits
  <2>. QED  BY <1>2, <2>1, OnceMoved
<1>3. CASE /\ \A id \in Sibling!Programs : Sibling!IsBinary(id)
           /\ todo' = {<<id, 0>> : id \in {p \in Sibling!Programs : Sibling!IsGround(p)}}
           /\ pc = "start" /\ pc' = "groups"
           /\ UNCHANGED <<left, hom, Sibling!chart, items, scheduled, new_roots, tries>>
  <2>1. \A id \in Sibling!Programs : Arity(Terms[id]) \in Nat
    <3>1. \A l \in Sibling!Interpreted : Len(l.children) \in Nat
      BY InputsAreAutomata DEF IsExplicit, Sibling!Interpreted, ExplicitRules
    <3>. QED  BY <3>1 DEF SiblingOnce, ProgramsFit, Sibling!Programs
  <2>2. \A g \in todo' : GroupFits(g)
    BY <1>3, <2>1 DEF GroupFits
  <2>3. \A id : Sibling!IsBinary(id)' <=> Sibling!IsBinary(id)
    BY DEF Sibling!IsBinary
  <2>4. PlaceFits'
    BY <1>3, <2>2, <2>3, ProgramsKept DEF SiblingOnce, PlaceFits
  <2>. QED  BY <1>3, <2>4, OnceMoved
<1>. QED  BY <1>1, <1>2, <1>3 DEF Sibling!Start

LEMMA OnceNextGroup ==
  ASSUME SiblingOnce, NEW g \in todo, Sibling!NextGroup(g[1], g[2])
  PROVE  SiblingOnce'
<1>1. /\ UNCHANGED <<left, hom, product_pairs, rules, duplicate, emitted, items, scheduled, new_roots>>
      /\ pc = "groups" /\ pc' = "older"
      /\ todo' \subseteq todo /\ <<g[1], g[2]>> \in todo /\ group' = <<g[1], g[2]>>
      /\ \A t \in tries' : t \in Sibling!RulesOfGroup(current[1], g[1], g[2]) \X {x \in items[g[1]] : x.node = Sibling!Root}
  BY DEF Sibling!NextGroup, Sibling!input, Sibling!chart, Sibling!programs
<1>2. \A t \in tries' : RootItem(t[1], t[2])
  BY <1>1, SiblingTerms DEF Sibling!RulesOfGroup, RootItem
<1>3. \A t \in tries' : RootItem(t[1], t[2])'
  BY <1>1, <1>2, ItemsKept DEF SiblingOnce
<1>4. PlaceFits'
  <2>1. \A id : Sibling!IsBinary(id)' <=> Sibling!IsBinary(id)
    BY DEF Sibling!IsBinary
  <2>2. GroupFits(group')
    BY <1>1 DEF SiblingOnce, PlaceFits
  <2>. QED  BY <1>1, <2>1, <2>2, ProgramsKept DEF SiblingOnce, PlaceFits
<1>. QED  BY <1>1, <1>3, <1>4, OnceMoved

(* Items are added to the term chart of the running program. *)
LEMMA OnceItems ==
  ASSUME SiblingOnce, UNCHANGED <<left, hom, product_pairs, rules, duplicate, emitted, tries>>,
         pc \in {"older", "propagate"}, NEW more, \A z \in more : ItemOK(group[1], z),
         items' = [items EXCEPT ![group[1]] = @ \cup more]
  PROVE  /\ ProgramsFit' /\ RulesFit' /\ RootsFit' /\ ItemsFit'
         /\ items'[group[1]] = items[group[1]] \cup more
<1>1. group[1] \in DOMAIN Terms
  BY ProgramIsTerm DEF SiblingOnce, PlaceFits, GroupFits
<1>2. ItemsFit /\ ProgramsFit /\ left' = left /\ hom' = hom
  BY DEF SiblingOnce
<1>. DEFINE id == group[1]
<1>3. /\ ItemsFit' /\ items'[id] = items[id] \cup more
      /\ \A l, y : RootItem(l, y) => RootItem(l, y)'
  <2>1. /\ id \in DOMAIN Terms /\ \A z \in more : ItemOK(id, z)
        /\ items' = [items EXCEPT ![id] = @ \cup more]
    BY <1>1
  <2>2. PICK k : k = id
    OBVIOUS
  <2>3. /\ ItemsFit' /\ items'[k] = items[k] \cup more
        /\ \A l, y : RootItem(l, y) => RootItem(l, y)'
    BY <1>2, <2>1, <2>2, ItemsGrow
  <2>. QED  BY <2>2, <2>3
<1>4. ProgramsFit' /\ RulesFit' /\ RootsFit'
  BY <1>3, OnceWithoutJoin
<1>. QED  BY <1>3, <1>4

LEMMA OnceActivate ==
  ASSUME SiblingOnce, Sibling!Activate
  PROVE  SiblingOnce'
<1>. DEFINE constants == IF group[1] \in initialized THEN {} ELSE Sibling!Constants(group[1])
            place == Sibling!VariableNode(Terms[group[1]], group[2])
            variable == IF group[2] = 0 THEN {} ELSE {Sibling!Item(place, current[2], <<current[2]>>)}
            more == constants \cup variable
<1>1. /\ UNCHANGED <<left, hom, product_pairs, rules, duplicate, emitted, tries, todo, group, new_roots>>
      /\ pc = "older" /\ pc' = "propagate"
      /\ items' = [items EXCEPT ![group[1]] = @ \cup more]
      /\ scheduled' = scheduled \cup (more \ items[group[1]])
  BY DEF Sibling!Activate, Sibling!Insert, Sibling!input, Sibling!chart, Sibling!position
<1>2. group[1] \in DOMAIN Terms /\ group[2] \in 0..Arity(Terms[group[1]])
  BY <1>1, ProgramIsTerm DEF SiblingOnce, PlaceFits, GroupFits
<1>3. \A z \in more : ItemOK(group[1], z)
  <2>1. \A z \in constants : ItemOK(group[1], z)
    BY <1>2, LeavesOK
  <2>2. group[2] # 0 => group[2] \in 1..Arity(Terms[group[1]])
    BY <1>2
  <2>3. \A z \in variable : ItemOK(group[1], z)
    BY <1>2, <2>2, LeavesOK
  <2>. QED  BY <2>1, <2>3
<1>. HIDE DEF more
<1>4. PICK m : m = more
  OBVIOUS
<1>5. /\ ProgramsFit' /\ RulesFit' /\ RootsFit' /\ ItemsFit'
      /\ items'[group[1]] = items[group[1]] \cup m
  BY <1>1, <1>3, <1>4, OnceItems
<1>6. PlaceFits'
  <2>1. \A id : Sibling!IsBinary(id)' <=> Sibling!IsBinary(id)
    BY DEF Sibling!IsBinary
  <2>2. scheduled' \subseteq items'[group'[1]]
    BY <1>1, <1>4, <1>5 DEF SiblingOnce, PlaceFits
  <2>. QED  BY <1>1, <2>1, <2>2, ProgramsKept DEF SiblingOnce, PlaceFits
<1>. QED  BY <1>5, <1>6 DEF SiblingOnce

LEMMA OncePropagate ==
  ASSUME SiblingOnce, NEW x \in scheduled, Sibling!Propagate(x)
  PROVE  SiblingOnce'
<1>. DEFINE made == Sibling!Upward(group[1], x)
<1>1. CASE Sibling!GiveUp
  BY <1>1, OnceGiveUp
<1>2. CASE ~Sibling!GiveUp
  <2>1. /\ UNCHANGED <<left, hom, product_pairs, rules, duplicate, emitted, tries, todo, group, pc>>
        /\ pc = "propagate"
        /\ IF x.node = Root
             THEN new_roots' = new_roots \cup {x} /\ scheduled' = scheduled \ {x} /\ items' = items
             ELSE /\ items' = [items EXCEPT ![group[1]] = @ \cup made]
                  /\ scheduled' = (scheduled \ {x}) \cup (made \ items[group[1]])
                  /\ new_roots' = new_roots
    BY <1>2, SiblingTerms DEF Sibling!Propagate, Sibling!input, Sibling!chart, Sibling!position
  <2>2. /\ group[1] \in DOMAIN Terms /\ Sibling!IsBinary(group[1]) /\ x \in items[group[1]]
        /\ \A y \in items[group[1]] : ItemOK(group[1], y)
    BY <2>1, ProgramIsTerm DEF SiblingOnce, PlaceFits, GroupFits, ItemsFit
  <2>3. \A id : Sibling!IsBinary(id)' <=> Sibling!IsBinary(id)
    BY DEF Sibling!IsBinary
  <2>4. CASE x.node = Root
    <3>1. PlaceFits'
      BY <2>1, <2>2, <2>3, <2>4, ProgramsKept DEF SiblingOnce, PlaceFits
    <3>. QED  BY <2>1, <2>4, <3>1, OnceMoved
  <2>5. CASE x.node # Root
    <3>1. \A z \in made : ItemOK(group[1], z)
      BY <2>2, <2>5, UpwardOK
    <3>. HIDE DEF made
    <3>2. PICK m : m = made
      OBVIOUS
    <3>3. /\ ProgramsFit' /\ RulesFit' /\ RootsFit' /\ ItemsFit'
          /\ items'[group[1]] = items[group[1]] \cup m
      BY <2>1, <2>5, <3>1, <3>2, OnceItems
    <3>4. PlaceFits'
      BY <2>1, <2>3, <2>5, <3>2, <3>3, ProgramsKept DEF SiblingOnce, PlaceFits
    <3>. QED  BY <3>3, <3>4 DEF SiblingOnce
  <2>. QED  BY <2>4, <2>5
<1>. QED  BY <1>1, <1>2

LEMMA OnceNextRoot ==
  ASSUME SiblingOnce, NEW root \in new_roots, Sibling!NextRoot(root)
  PROVE  SiblingOnce'
<1>1. /\ UNCHANGED <<left, hom, product_pairs, rules, duplicate, emitted, items, scheduled, todo, group, pc>>
      /\ pc = "roots" /\ new_roots' = new_roots \ {root}
      /\ tries' = Sibling!Candidates(group[1], root.row) \X {root}
  BY DEF Sibling!NextRoot, Sibling!input, Sibling!chart, Sibling!programs, Sibling!position
<1>2. \A t \in tries' : RootItem(t[1], t[2])
  BY <1>1 DEF Sibling!Candidates, RootItem, SiblingOnce, PlaceFits
<1>3. \A t \in tries' : RootItem(t[1], t[2])'
  BY <1>1, <1>2, ItemsKept DEF SiblingOnce
<1>4. PlaceFits'
  <2>1. \A id : Sibling!IsBinary(id)' <=> Sibling!IsBinary(id)
    BY DEF Sibling!IsBinary
  <2>. QED  BY <1>1, <2>1, ProgramsKept DEF SiblingOnce, PlaceFits
<1>. QED  BY <1>1, <1>3, <1>4, OnceMoved

LEMMA OncePop ==
  ASSUME left \in Lefts, SiblingOnce, Sibling!Pop
  PROVE  SiblingOnce'
<1>1. CASE Sibling!GiveUp
  BY <1>1, OnceGiveUp
<1>2. CASE ~Sibling!GiveUp
  <2>1. /\ UNCHANGED <<left, hom, product_pairs, rules, duplicate, emitted, items, scheduled, tries, group, pc, new_roots>>
        /\ pc = "groups" /\ todo' = Sibling!Groups(Head(queue)[1])
    BY <1>2 DEF Sibling!Pop, Sibling!input, Sibling!programs
  <2>2. ASSUME NEW g \in todo' PROVE GroupFits(g)
    <3>1. PICK l \in Sibling!Interpreted : \E v \in DOMAIN l.children : g = <<Sibling!Program(l), v>>
      BY <2>1, <2>2 DEF Sibling!Groups
    <3>2. l.children \in Seq(LeftStates)
      BY InputsAreAutomata DEF IsExplicit, Sibling!Interpreted, ExplicitRules
    <3>3. g[2] \in 1..Len(l.children) /\ Len(l.children) \in Nat
      BY <3>1, <3>2
    <3>4. g[1] \in Sibling!Programs /\ Arity(Terms[g[1]]) = Len(l.children)
      BY <3>1 DEF Sibling!Programs, SiblingOnce, ProgramsFit
    <3>. QED  BY <3>3, <3>4 DEF GroupFits
  <2>3. PlaceFits'
    <3>1. \A id : Sibling!IsBinary(id)' <=> Sibling!IsBinary(id)
      BY DEF Sibling!IsBinary
    <3>. QED  BY <2>1, <2>2, <3>1, ProgramsKept DEF SiblingOnce, PlaceFits
  <2>. QED  BY <2>1, <2>3, OnceMoved
<1>. QED  BY <1>1, <1>2

LEMMA OnceAdvance ==
  ASSUME SiblingOnce, Sibling!EndPropagate \/ Sibling!EndGroup \/ Sibling!Finish
  PROVE  SiblingOnce'
<1>1. /\ UNCHANGED <<left, hom, product_pairs, rules, duplicate, emitted, items, scheduled, tries, todo, group, new_roots>>
      /\ \/ pc = "propagate" /\ pc' = "roots" /\ scheduled = {}
         \/ pc = "roots" /\ pc' = "groups" /\ new_roots = {}
         \/ pc' = "done"
  BY DEF Sibling!EndPropagate, Sibling!EndGroup, Sibling!Finish, Sibling!input, Sibling!chart,
         Sibling!programs, Sibling!position
<1>2. \A id : Sibling!IsBinary(id)' <=> Sibling!IsBinary(id)
  BY DEF Sibling!IsBinary
<1>3. PlaceFits'
  BY <1>1, <1>2, ProgramsKept DEF SiblingOnce, PlaceFits
<1>. QED  BY <1>1, <1>3, OnceMoved

LEMMA SiblingOnceStep ==
  ASSUME left \in Lefts, SiblingOnce, Sibling!Work
  PROVE  SiblingOnce'
BY OnceSiblingStart, OnceNextGroup, OnceTryEmit, OnceActivate, OncePropagate, OnceNextRoot, OncePop,
   OnceAdvance DEF Sibling!Work

-----------------------------------------------------------------------------
(* No rule twice: all four. *)

(* What the top-down jobs walk goes back to a state from one child only.    *)
TopDownLoopsOnce == \A job \in Jobs : job.strategy = "top-down" => OneLoopPosition(ImagesByParent[job.input])

OnceSafe ==
    /\ ~duplicate /\ left \in Lefts
    /\ strategy = "top-down" => OneLoopPosition(right) /\ WalkOnce
    /\ strategy = "sibling" => SiblingOnce
    /\ strategy = "filter" => FilterOnce
    /\ strategy = "lazy" => MemoOnce

LEMMA OnceInit ==
  ASSUME TopDownLoopsOnce, Init
  PROVE  OnceSafe
<1>1. PICK job \in Jobs : /\ strategy = job.strategy /\ left = job.left /\ hom = job.input.hom
                          /\ right = (IF job.strategy = "top-down" THEN ImagesByParent ELSE Images)[job.input]
  BY DEF Init
<1>2. /\ left \in Lefts /\ product_pairs = <<>> /\ rules = {} /\ ~duplicate
      /\ walk = "start"
      /\ pc = "start" /\ items = [id \in DOMAIN Terms |-> {}] /\ scheduled = {} /\ todo = {}
      /\ new_roots = {} /\ tries = {} /\ emitted = {}
      /\ combos = {}
      /\ lookups = {} /\ cached = {} /\ answers = {}
  BY DEF Init, TopDown!Init, TopDown!InitChart, Sibling!Init, Filter!Init, Lazy!Init
<1>3. Numbered /\ Decoded = {} /\ Ids = {}
  BY <1>2 DEF Numbered, Decoded, Ids, Pairs
<1>4. strategy = "top-down" => OneLoopPosition(right) /\ WalkOnce
  <2>1. strategy = "top-down" => OneLoopPosition(right)
    BY <1>1 DEF TopDownLoopsOnce
  <2>2. JoinedOnce /\ AgendaOnce
    BY <1>2, <1>3 DEF JoinedOnce, AgendaOnce, Emits
  <2>. QED  BY <1>2, <2>1, <2>2 DEF WalkOnce
<1>5. SiblingOnce
  <2>1. ProgramsFit
    BY <1>1, ImagesKeepArity DEF ProgramsFit, Sibling!Interpreted, Sibling!Program
  <2>2. ItemsFit /\ RootsFit /\ RulesFit /\ PlaceFits
    BY <1>2, <1>3 DEF ItemsFit, RootsFit, RulesFit, PlaceFits
  <2>. QED  BY <2>1, <2>2 DEF SiblingOnce
<1>6. FilterOnce /\ MemoOnce
  BY <1>2, <1>3 DEF FilterOnce, MemoOnce
<1>. QED  BY <1>2, <1>4, <1>5, <1>6 DEF OnceSafe

LEMMA OnceNothing ==
  ASSUME OnceSafe, WalkSafe,
         UNCHANGED <<strategy, left, right, hom, product_pairs, accepting, rules, duplicate, walk_vars,
                     program_vars, combos, lookups, cached, answers>>
  PROVE  OnceSafe'
<1>1. strategy = "top-down" => (OneLoopPosition(right) /\ WalkOnce)'
  <2>. SUFFICES ASSUME strategy = "top-down" PROVE (OneLoopPosition(right) /\ WalkOnce)'
    OBVIOUS
  <2>1. UNCHANGED <<left, right, strategy, product_pairs, rules, duplicate, walk, work, visited, partners,
                    matches, agenda, seen>>
    BY DEF walk_vars
  <2>2. Decoded' = Decoded
    BY <2>1 DEF Decoded, Decode
  <2>3. JoinedOnce' <=> JoinedOnce
    BY <2>1, <2>2 DEF JoinedOnce, Emits, Own, DoneWith
  <2>4. AgendaOnce' <=> AgendaOnce
    BY <2>1 DEF AgendaOnce
  <2>. QED  BY <2>1, <2>3, <2>4 DEF WalkOnce, OnceSafe, OneLoopPosition
<1>2. strategy = "sibling" => SiblingOnce'
  <2>. SUFFICES ASSUME strategy = "sibling" PROVE SiblingOnce'
    OBVIOUS
  <2>1. SiblingOnce
    BY DEF OnceSafe
  <2>2. PlaceFits'
    <3>1. \A id : Sibling!IsBinary(id)' <=> Sibling!IsBinary(id)
      BY DEF Sibling!IsBinary
    <3>. QED  BY <2>1, <3>1, ProgramsKept DEF SiblingOnce, PlaceFits, program_vars
  <2>. QED  BY <2>1, <2>2, OnceMoved DEF program_vars
<1>3. strategy = "filter" => FilterOnce'
  BY NumberedKept DEF OnceSafe, FilterOnce
<1>4. strategy = "lazy" => MemoOnce'
  <2>1. MemoOnce => Numbered' /\ Ids' = Ids
    BY NumberedKept DEF MemoOnce
  <2>2. MemoOnce => \A k \in lookups' \cup cached' : IsKey(k)'
    BY <2>1 DEF MemoOnce, IsKey
  <2>. QED  BY <2>1, <2>2 DEF OnceSafe, MemoOnce
<1>. QED  BY <1>1, <1>2, <1>3, <1>4 DEF OnceSafe

LEMMA OnceStep ==
  ASSUME OnceSafe, WalkSafe, [Next]_vars
  PROVE  OnceSafe'
<1>1. strategy' = strategy
  BY DEF Next, vars, ParseTopDown, ParseWithSiblings, FilterChart, MaterializeLazily, Cancel
<1>2. CASE ParseTopDown
  <2>1. strategy = "top-down" /\ TopDown!Work /\ ChartInv /\ WalkOK
    BY <1>2 DEF ParseTopDown, WalkSafe
  <2>2. WalkOnce'
    BY <1>1, <2>1, WalkOnceStep DEF OnceSafe
  <2>3. left' = left /\ right' = right
    BY <2>1 DEF TopDown!Work, TopDown!Start, TopDown!EnterVisit, TopDown!ReturnFromVisit,
         TopDown!JoinNormalRule, TopDown!StartSaturation, TopDown!TryPartner, TopDown!CollectPair,
         TopDown!EndJoin, TopDown!EndSaturation, TopDown!Finish, TopDown!GiveUp, TopDown!input
  <2>. QED  BY <1>1, <2>1, <2>2, <2>3 DEF OnceSafe, WalkOnce, OneLoopPosition
<1>3. CASE ParseWithSiblings
  <2>1. strategy = "sibling" /\ Sibling!Work
    BY <1>3 DEF ParseWithSiblings
  <2>2. SiblingOnce'
    BY <2>1, SiblingOnceStep DEF OnceSafe
  <2>3. left' = left
    BY <2>1 DEF Sibling!Work, Sibling!Start, Sibling!NextGroup, Sibling!TryEmit, Sibling!Activate,
         Sibling!Propagate, Sibling!EndPropagate, Sibling!NextRoot, Sibling!EndGroup, Sibling!Pop,
         Sibling!Finish, Sibling!GiveUp, Sibling!input
  <2>. QED  BY <1>1, <2>1, <2>2, <2>3 DEF OnceSafe, SiblingOnce, RulesFit
<1>4. CASE FilterChart
  <2>1. strategy = "filter" /\ Filter!Work
    BY <1>4 DEF FilterChart
  <2>2. FilterOnce'
    BY <2>1, FilterOnceStep DEF OnceSafe
  <2>3. left' = left
    BY <2>1 DEF Filter!Work, Filter!Sweep, Filter!NextRule, Filter!Combine, Filter!Emit, Filter!EndRule, Filter!EndSweep,
         Filter!GiveUp, Filter!input
  <2>. QED  BY <1>1, <2>1, <2>2, <2>3 DEF OnceSafe, FilterOnce
<1>5. CASE MaterializeLazily
  <2>1. strategy = "lazy" /\ Lazy!Work
    BY <1>5 DEF MaterializeLazily
  <2>2. MemoOnce'
    BY <2>1, MemoOnceStep DEF OnceSafe
  <2>3. left' = left
    BY <2>1 DEF Lazy!Work, Lazy!Start, Lazy!Pop, Lazy!Finish, Lazy!Lookup, Lazy!Report, Lazy!input
  <2>. QED  BY <1>1, <2>1, <2>2, <2>3 DEF OnceSafe, MemoOnce
<1>6. CASE Cancel \/ UNCHANGED vars
  <2>1. UNCHANGED <<strategy, left, right, hom, product_pairs, accepting, rules, duplicate, walk_vars,
                    program_vars, combos, lookups, cached, answers>>
    BY <1>6 DEF Cancel, vars, Sibling!Cancel, Sibling!input, Sibling!chart, Sibling!programs, Sibling!position,
         program_vars, sweep_vars, memo_vars
  <2>. QED  BY <2>1, OnceNothing
<1>. QED  BY <1>2, <1>3, <1>4, <1>5, <1>6 DEF Next

(* Whatever the automata, the terms and the order of the work, and whenever *)
(* the job is cancelled: none of the four strategies gives the builder a    *)
(* transition it has been given.  For the top-down walk this needs that no  *)
(* rule leads back to its own state from two children: it would join them   *)
(* once at each.                                                            *)
THEOREM NeverTwice ==
  ASSUME TopDownLoopsOnce
  PROVE  Spec => []NoDuplicateRule
<1>1. Init => OnceSafe
  BY OnceInit
<1>2. OnceSafe /\ WalkSafe /\ [Next]_vars => OnceSafe'
  BY OnceStep
<1>3. OnceSafe => NoDuplicateRule
  BY DEF OnceSafe, NoDuplicateRule
<1>. QED  BY <1>1, <1>2, <1>3, WalkAlwaysSafe, PTL DEF Spec

-----------------------------------------------------------------------------
(* The term charts of the sibling finder. *)

(* A node, its children and the node above it. *)
LEMMA TermIs ==
  ASSUME NEW id \in DOMAIN Terms
  PROVE  LET term == Terms[id]
         IN  /\ Len(term) \in Nat /\ DOMAIN term = 1..Len(term)
             /\ \A n \in DOMAIN term :
                   /\ Children(term, n) \in Seq(DOMAIN term)
                   /\ VariableNodes(term, n) \in Seq(DOMAIN term)
                   /\ \A i \in DOMAIN Children(term, n) :
                         LET kid == Children(term, n)[i]
                         IN  kid \in DOMAIN term /\ kid # Root /\ term[kid].parent = n /\ term[kid].position = i
             /\ \A n \in DOMAIN term \ {Root} :
                   LET above == term[n].parent
                   IN  /\ above \in DOMAIN term /\ above < n /\ IsOperation(term, above)
                       /\ term[n].position \in DOMAIN Children(term, above)
                       /\ n = Children(term, above)[term[n].position]
                       /\ \A k \in above + 1..n : term[k].parent >= above
             /\ \A m, n \in DOMAIN term : ~IsOperation(term, n) /\ term[m].variable = term[n].variable => m = n
<1>. DEFINE term == Terms[id]
<1>1. IsTree(term) /\ IsPreorder(term) /\ IsLinear(term)
  BY TermsAreTrees, TermsAreInPreorder, TermsAreLinear
<1>. HIDE DEF term
<1>2. Len(term) \in Nat /\ DOMAIN term = 1..Len(term)
  BY <1>1 DEF IsPreorder
<1>3. \A n \in DOMAIN term : Children(term, n) \in Seq(DOMAIN term) /\ VariableNodes(term, n) \in Seq(DOMAIN term)
  BY <1>1 DEF IsTree
<1>4. \A n \in DOMAIN term \ {Root} :
         LET above == term[n].parent
         IN  /\ above \in DOMAIN term /\ above < n /\ IsOperation(term, above)
             /\ term[n].position \in DOMAIN Children(term, above)
             /\ n = Children(term, above)[term[n].position]
             /\ \A k \in above + 1..n : term[k].parent >= above
  BY <1>1 DEF IsTree, IsPreorder
<1>5. ASSUME NEW n \in DOMAIN term, NEW i \in DOMAIN Children(term, n)
      PROVE  LET kid == Children(term, n)[i]
             IN  kid \in DOMAIN term /\ kid # Root /\ term[kid].parent = n /\ term[kid].position = i
  <2>. DEFINE kids == Children(term, n)
              kid == kids[i]
  <2>1. kids \in Seq(DOMAIN term) /\ i \in DOMAIN kids
    BY <1>3
  <2>2. term[kid].parent = n /\ term[kid].position = i /\ term[Root].parent = 0
    BY <1>1 DEF IsPreorder
  <2>. HIDE DEF kids
  <2>3. kid \in DOMAIN term
    BY <2>1
  <2>. HIDE DEF kid
  <2>4. n # 0
    BY <1>2
  <2>5. kid # Root
    BY <2>2, <2>4
  <2>. QED  BY <2>2, <2>3, <2>5 DEF kid, kids
<1>6. \A m, n \in DOMAIN term : ~IsOperation(term, n) /\ term[m].variable = term[n].variable => m = n
  BY <1>1 DEF IsLinear
<1>. QED  BY <1>2, <1>3, <1>4, <1>5, <1>6 DEF term

LEMMA KidIs ==
  ASSUME NEW id \in DOMAIN Terms, NEW n \in DOMAIN Terms[id], NEW i \in DOMAIN Children(Terms[id], n)
  PROVE  /\ Children(Terms[id], n)[i] \in DOMAIN Terms[id] /\ Children(Terms[id], n)[i] # Root
         /\ Terms[id][Children(Terms[id], n)[i]].parent = n
         /\ Terms[id][Children(Terms[id], n)[i]].position = i
BY TermIs

LEMMA AboveIs ==
  ASSUME NEW id \in DOMAIN Terms, NEW n \in DOMAIN Terms[id] \ {Root}
  PROVE  /\ Terms[id][n].parent \in DOMAIN Terms[id] /\ IsOperation(Terms[id], Terms[id][n].parent)
         /\ Terms[id][n].position \in DOMAIN Children(Terms[id], Terms[id][n].parent)
         /\ n = Children(Terms[id], Terms[id][n].parent)[Terms[id][n].position]
BY TermIs

LEMMA OneVariable ==
  ASSUME NEW id \in DOMAIN Terms, NEW m \in DOMAIN Terms[id], NEW n \in DOMAIN Terms[id],
         ~IsOperation(Terms[id], n), Terms[id][m].variable = Terms[id][n].variable
  PROVE  m = n
BY TermsAreLinear DEF IsLinear

(* The items that an operation makes of items at its children.              *)
Made(id, n, row, states) ==
    {Sibling!Item(n, q, Sibling!RowAt(Terms[id], n, row)) :
        q \in Sibling!Step(decomp, Terms[id][n].label, states)}


(* z is made by the operation at n. *)
MadeOf(id, n, S, z) ==
    LET kids == Children(Terms[id], n)
    IN  \/ Len(kids) = 0 /\ z \in Made(id, n, <<>>, <<>>)
        \/ Len(kids) = 1 /\ \E y \in S : y.node = kids[1] /\ z \in Made(id, n, y.row, <<y.state>>)
        \/ Len(kids) = 2 /\ \E y, w \in S : /\ y.node = kids[1] /\ w.node = kids[2]
                                            /\ z \in Made(id, n, y.row \o w.row, <<y.state, w.state>>)

LEMMA ShortTuples ==
  /\ \A f : [i \in 1..0 |-> f[i]] = <<>>
  /\ \A f : [i \in 1..1 |-> f[i]] = <<f[1]>>
  /\ \A f : [i \in 1..2 |-> f[i]] = <<f[1], f[2]>>
<1>1. \A f : [i \in 1..0 |-> f[i]] = <<>>
  OBVIOUS
<1>2. \A f : [i \in 1..1 |-> f[i]] = <<f[1]>>
  OBVIOUS
<1>3. \A f : [i \in 1..2 |-> f[i]] = <<f[1], f[2]>>
  OBVIOUS
<1>. QED  BY <1>1, <1>2, <1>3

LEMMA FlattenRows ==
  /\ Sibling!FlattenSeq(<<>>) = <<>>
  /\ \A s : IsRow(s) => Sibling!FlattenSeq(<<s>>) = s
  /\ \A s, t : IsRow(s) /\ IsRow(t) => Sibling!FlattenSeq(<<s, t>>) = s \o t
<1>0. \A s : Sibling!FlattenSeq(s) = FlattenSeq(s)
  BY DEF Sibling!FlattenSeq, FlattenSeq
<1>1. FlattenSeq(<<>>) = <<>>
  <2>1. PICK seqs : seqs = <<>>
    OBVIOUS
  <2>2. seqs \in Seq(Seq({})) /\ Len(seqs) = 0 /\ Len(seqs) <= 2
    BY <2>1
  <2>3. FlattenSeq(seqs) = IF Len(seqs) = 0 THEN <<>>
                           ELSE IF Len(seqs) = 1 THEN seqs[1] ELSE seqs[1] \o seqs[2]
    BY ONLY <2>2, FlattenShort, Zenon
  <2>. QED  BY <2>1, <2>2, <2>3
<1>2. ASSUME NEW s, IsRow(s) PROVE FlattenSeq(<<s>>) = s
  <2>1. PICK S : s \in Seq(S)
    BY <1>2 DEF IsRow
  <2>2. PICK seqs : seqs = <<s>>
    OBVIOUS
  <2>3. seqs \in Seq(Seq(S)) /\ Len(seqs) = 1 /\ Len(seqs) <= 2 /\ seqs[1] = s
    BY <2>1, <2>2
  <2>4. FlattenSeq(seqs) = IF Len(seqs) = 0 THEN <<>>
                           ELSE IF Len(seqs) = 1 THEN seqs[1] ELSE seqs[1] \o seqs[2]
    BY ONLY <2>3, FlattenShort, Zenon
  <2>. QED  BY <2>2, <2>3, <2>4
<1>3. ASSUME NEW s, NEW t, IsRow(s), IsRow(t) PROVE FlattenSeq(<<s, t>>) = s \o t
  <2>1. PICK S, T : s \in Seq(S) /\ t \in Seq(T)
    BY <1>3 DEF IsRow
  <2>2. s \in Seq(S \cup T) /\ t \in Seq(S \cup T)
    BY <2>1, SeqWiden
  <2>3. PICK seqs : seqs = <<s, t>>
    OBVIOUS
  <2>4. seqs \in Seq(Seq(S \cup T)) /\ Len(seqs) = 2 /\ Len(seqs) <= 2 /\ seqs[1] = s /\ seqs[2] = t
    BY <2>2, <2>3
  <2>5. FlattenSeq(seqs) = IF Len(seqs) = 0 THEN <<>>
                           ELSE IF Len(seqs) = 1 THEN seqs[1] ELSE seqs[1] \o seqs[2]
    BY ONLY <2>4, FlattenShort, Zenon
  <2>6. FlattenSeq(seqs) = seqs[1] \o seqs[2]
    BY <2>4, <2>5
  <2>. QED  BY <2>3, <2>4, <2>6, Zenon
<1>. QED  BY <1>0, <1>1, <1>2, <1>3

LEMMA KidsAre ==
  ASSUME NEW id \in DOMAIN Terms, Sibling!IsBinary(id), NEW n \in DOMAIN Terms[id]
  PROVE  LET kids == Children(Terms[id], n)
         IN  /\ Len(kids) \in {0, 1, 2} /\ DOMAIN kids = 1..Len(kids)
             /\ Len(kids) = 0 => kids = <<>>
<1>. DEFINE kids == Children(Terms[id], n)
            len == Len(kids)
<1>1. kids \in Seq(DOMAIN Terms[id]) /\ Len(kids) <= 2
  BY TermIs, SiblingTerms DEF Sibling!IsBinary
<1>. HIDE DEF kids
<1>2. len \in Nat /\ DOMAIN kids = 1..len /\ len <= 2 /\ (len = 0 => kids = <<>>)
  BY <1>1
<1>. HIDE DEF len
<1>3. len \in {0, 1, 2}
  BY ONLY <1>2
<1>. QED  BY <1>2, <1>3 DEF len, kids

LEMMA DerivedIs ==
  ASSUME NEW id \in DOMAIN Terms, Sibling!IsBinary(id), \A y \in items[id] : IsRow(y.row),
         NEW n \in DOMAIN Terms[id], IsOperation(Terms[id], n), NEW z
  PROVE  z \in Sibling!Derived(id, n) <=> MadeOf(id, n, items[id], z)
<1>. DEFINE term == Terms[id]
            kids == Children(term, n)
            choices == {c \in [DOMAIN kids -> items[id]] : \A i \in DOMAIN kids : c[i].node = kids[i]}
            states(c) == [i \in DOMAIN kids |-> c[i].state]
            row(c) == Sibling!RowAt(term, n, Sibling!FlattenSeq([i \in DOMAIN kids |-> c[i].row]))
            made(c) == {Sibling!Item(n, q, row(c)) : q \in Sibling!Step(decomp, term[n].label, states(c))}
<1>1. z \in Sibling!Derived(id, n) <=> \E c \in choices : z \in made(c)
  <2>1. Sibling!Derived(id, n) = UNION {made(c) : c \in choices}
    <3>1. Sibling!Children(Terms[id], n) = kids /\ Sibling!IsOperation(Terms[id], n)
      BY SiblingTerms
    <3>. DEFINE below == Sibling!Children(Terms[id], n)
                row_of(c) == Sibling!RowAt(term, n, Sibling!FlattenSeq([i \in DOMAIN below |-> c[i].row]))
    <3>2. Sibling!Derived(id, n) =
            UNION {{Sibling!Item(n, q, row_of(c)) :
                       q \in Sibling!Step(decomp, term[n].label, [i \in DOMAIN below |-> c[i].state])} :
                    c \in {c \in [DOMAIN below -> items[id]] : \A i \in DOMAIN below : c[i].node = below[i]}}
      BY <3>1 DEF Sibling!Derived
    <3>. HIDE DEF below
    <3>3. below = kids
      BY <3>1 DEF below
    <3>. QED  BY <3>2, <3>3
  <2>. HIDE DEF made, choices
  <2>. QED  BY <2>1
<1>2. Len(kids) \in {0, 1, 2} /\ DOMAIN kids = 1..Len(kids)
  BY KidsAre
<1>3. CASE Len(kids) = 0
  <2>1. \A c : made(c) = Made(id, n, <<>>, <<>>)
    <3>. SUFFICES ASSUME NEW c PROVE made(c) = Made(id, n, <<>>, <<>>)
      OBVIOUS
    <3>1. states(c) = <<>> /\ [i \in DOMAIN kids |-> c[i].row] = <<>>
      BY <1>2, <1>3
    <3>2. row(c) = Sibling!RowAt(term, n, <<>>)
      BY <3>1, FlattenRows
    <3>. QED  BY <3>1, <3>2 DEF Made
  <2>2. choices # {}
    <3>1. [i \in {} |-> 0] \in [DOMAIN kids -> items[id]] /\ DOMAIN kids = {}
      BY <1>2, <1>3
    <3>. QED  BY <3>1
  <2>. HIDE DEF made, choices, kids
  <2>3. z \in Sibling!Derived(id, n) <=> z \in Made(id, n, <<>>, <<>>)
    BY <1>1, <2>1, <2>2
  <2>. QED  BY <1>3, <2>3 DEF MadeOf, kids
<1>4. CASE Len(kids) = 1
  <2>1. \A c \in choices : c[1] \in items[id] /\ c[1].node = kids[1] /\ made(c) = Made(id, n, c[1].row, <<c[1].state>>)
    <3>. SUFFICES ASSUME NEW c \in choices
                  PROVE  c[1] \in items[id] /\ c[1].node = kids[1] /\ made(c) = Made(id, n, c[1].row, <<c[1].state>>)
      OBVIOUS
    <3>1. c[1] \in items[id] /\ c[1].node = kids[1]
      BY <1>2, <1>4
    <3>2. states(c) = <<c[1].state>> /\ [i \in DOMAIN kids |-> c[i].row] = <<c[1].row>>
      BY <1>2, <1>4
    <3>3. row(c) = Sibling!RowAt(term, n, c[1].row)
      BY <3>1, <3>2, FlattenRows
    <3>. QED  BY <3>1, <3>2, <3>3 DEF Made
  <2>2. \A y \in items[id] : y.node = kids[1] => [i \in 1..1 |-> y] \in choices
    BY <1>2, <1>4
  <2>. HIDE DEF made, choices, kids
  <2>3. z \in Sibling!Derived(id, n) <=> \E y \in items[id] : y.node = kids[1] /\ z \in Made(id, n, y.row, <<y.state>>)
    <3>1. ASSUME NEW c \in choices, z \in made(c)
          PROVE  \E y \in items[id] : y.node = kids[1] /\ z \in Made(id, n, y.row, <<y.state>>)
      BY <2>1, <3>1
    <3>2. ASSUME NEW y \in items[id], y.node = kids[1], z \in Made(id, n, y.row, <<y.state>>)
          PROVE  \E c \in choices : z \in made(c)
      <4>1. PICK c : c = [i \in 1..1 |-> y]
        OBVIOUS
      <4>2. c \in choices
        BY <2>2, <3>2, <4>1
      <4>3. c[1] = y
        BY <4>1
      <4>. QED  BY <2>1, <3>2, <4>2, <4>3
    <3>. QED  BY <1>1, <3>1, <3>2
  <2>. QED  BY <1>4, <2>3 DEF MadeOf, kids
<1>5. CASE Len(kids) = 2
  <2>1. \A c \in choices : /\ c[1] \in items[id] /\ c[1].node = kids[1]
                           /\ c[2] \in items[id] /\ c[2].node = kids[2]
                           /\ made(c) = Made(id, n, c[1].row \o c[2].row, <<c[1].state, c[2].state>>)
    <3>. SUFFICES ASSUME NEW c \in choices
                  PROVE  /\ c[1] \in items[id] /\ c[1].node = kids[1]
                         /\ c[2] \in items[id] /\ c[2].node = kids[2]
                         /\ made(c) = Made(id, n, c[1].row \o c[2].row, <<c[1].state, c[2].state>>)
      OBVIOUS
    <3>1. c[1] \in items[id] /\ c[1].node = kids[1] /\ c[2] \in items[id] /\ c[2].node = kids[2]
      BY <1>2, <1>5
    <3>2. states(c) = <<c[1].state, c[2].state>> /\ [i \in DOMAIN kids |-> c[i].row] = <<c[1].row, c[2].row>>
      BY <1>2, <1>5
    <3>3. row(c) = Sibling!RowAt(term, n, c[1].row \o c[2].row)
      BY <3>1, <3>2, FlattenRows
    <3>. QED  BY <3>1, <3>2, <3>3 DEF Made
  <2>2. \A y, w \in items[id] : y.node = kids[1] /\ w.node = kids[2] => [i \in 1..2 |-> IF i = 1 THEN y ELSE w] \in choices
    BY <1>2, <1>5
  <2>. HIDE DEF made, choices, kids
  <2>3. z \in Sibling!Derived(id, n) <=>
          \E y, w \in items[id] : /\ y.node = kids[1] /\ w.node = kids[2]
                                  /\ z \in Made(id, n, y.row \o w.row, <<y.state, w.state>>)
    <3>1. ASSUME NEW c \in choices, z \in made(c)
          PROVE  \E y, w \in items[id] : /\ y.node = kids[1] /\ w.node = kids[2]
                                         /\ z \in Made(id, n, y.row \o w.row, <<y.state, w.state>>)
      BY <2>1, <3>1
    <3>2. ASSUME NEW y \in items[id], NEW w \in items[id], y.node = kids[1], w.node = kids[2],
                 z \in Made(id, n, y.row \o w.row, <<y.state, w.state>>)
          PROVE  \E c \in choices : z \in made(c)
      <4>1. PICK c : c = [i \in 1..2 |-> IF i = 1 THEN y ELSE w]
        OBVIOUS
      <4>2. c \in choices
        BY <2>2, <3>2, <4>1
      <4>3. c[1] = y /\ c[2] = w
        BY <4>1
      <4>. QED  BY <2>1, <3>2, <4>2, <4>3
    <3>. QED  BY <1>1, <3>1, <3>2
  <2>. QED  BY <1>5, <2>3 DEF MadeOf, kids
<1>. QED  BY <1>2, <1>3, <1>4, <1>5

LEMMA MadeGrows ==
  ASSUME NEW id, NEW n, NEW S, NEW T, S \subseteq T, NEW z, MadeOf(id, n, S, z)
  PROVE  MadeOf(id, n, T, z)
BY DEF MadeOf

LEMMA MadeKept ==
  ASSUME decomp' = decomp
  PROVE  \A id, n, S, z : MadeOf(id, n, S, z)' <=> MadeOf(id, n, S, z)
<1>1. \A id, n, row, states : Made(id, n, row, states)' = Made(id, n, row, states)
  BY DEF Made
<1>. SUFFICES ASSUME NEW id, NEW n, NEW S, NEW z
              PROVE  MadeOf(id, n, S, z)' <=> MadeOf(id, n, S, z)
  OBVIOUS
<1>2. Made(id, n, <<>>, <<>>)' = Made(id, n, <<>>, <<>>)
  BY <1>1
<1>3. \A y : Made(id, n, y.row, <<y.state>>)' = Made(id, n, y.row, <<y.state>>)
  BY <1>1
<1>4. \A y, w : Made(id, n, y.row \o w.row, <<y.state, w.state>>)' = Made(id, n, y.row \o w.row, <<y.state, w.state>>)
  BY <1>1
<1>. QED  BY <1>2, <1>3, <1>4, Zenon DEF MadeOf

(* The sibling index of an operation finds the siblings it has a rule for.  *)
IndexFits(alg) ==
    \A r \in alg.rules :
        r.symbol \in IndexedOperations /\ Len(r.children) = 2 => Compatible(r.symbol, r.children[1], r.children[2])

LEMMA CompatibleIs ==
  /\ Sibling!IndexedOperations = IndexedOperations
  /\ \A f, a, b : Sibling!Compatible(f, a, b) <=> Compatible(f, a, b)
<1>1. \A f, k, q : Sibling!Slot(f, k, q) = Slot(f, k, q)
  BY DEF Sibling!Slot, Slot, Sibling!IsSpan, IsSpan, Sibling!IsPair, IsPair
<1>2. \A f, a, b : Sibling!Compatible(f, a, b) <=> Compatible(f, a, b)
  BY <1>1, Zenon DEF Sibling!Compatible, Compatible
<1>. QED  BY <1>2 DEF Sibling!IndexedOperations, IndexedOperations

LEMMA SiblingsAreFound ==
  ASSUME IndexFits(decomp), NEW id \in DOMAIN Terms, Sibling!HasSiblingIndexes(id),
         NEW n \in DOMAIN Terms[id], Len(Children(Terms[id], n)) = 2,
         NEW row, NEW a, NEW b, NEW z \in Made(id, n, row, <<a, b>>)
  PROVE  Sibling!Compatible(Terms[id][n].label, a, b)
<1>1. \E r \in decomp.rules : r.symbol = Terms[id][n].label /\ r.children = <<a, b>>
  <2>1. \E q : q \in Sibling!Step(decomp, Terms[id][n].label, <<a, b>>)
    BY DEF Made
  <2>. QED  BY <2>1 DEF Sibling!Step
<1>2. PICK r \in decomp.rules : r.symbol = Terms[id][n].label /\ r.children = <<a, b>>
  BY <1>1
<1>3. Len(r.children) = 2 /\ r.children[1] = a /\ r.children[2] = b
  BY <1>2
<1>4. Terms[id][n].label \in IndexedOperations
  BY SiblingTerms, CompatibleIs DEF Sibling!HasSiblingIndexes
<1>. QED  BY <1>2, <1>3, <1>4, CompatibleIs DEF IndexFits

(* What an item makes at its parent. *)
LEMMA UpwardIs ==
  ASSUME IndexFits(decomp), NEW id \in DOMAIN Terms, Sibling!IsBinary(id), Sibling!HasSiblingIndexes(id),
         NEW x, x.node \in DOMAIN Terms[id], x.node # Root, NEW z
  PROVE  LET n == Terms[id][x.node].parent
             kids == Children(Terms[id], n)
             place == Terms[id][x.node].position
         IN  z \in Sibling!Upward(id, x) <=>
                \/ Len(kids) = 1 /\ z \in Made(id, n, x.row, <<x.state>>)
                \/ Len(kids) = 2 /\ place = 1 /\ \E y \in Sibling!Settled(id) :
                      y.node = kids[2] /\ z \in Made(id, n, x.row \o y.row, <<x.state, y.state>>)
                \/ Len(kids) = 2 /\ place = 2 /\ \E y \in Sibling!Settled(id) :
                      y.node = kids[1] /\ z \in Made(id, n, y.row \o x.row, <<y.state, x.state>>)
<1>. DEFINE n == Terms[id][x.node].parent
            kids == Children(Terms[id], n)
            place == Terms[id][x.node].position
            label == Terms[id][n].label
            found(spot) == {y \in Sibling!Settled(id) : y.node = kids[spot]}
            both(f, s) == Made(id, n, f.row \o s.row, <<f.state, s.state>>)
            fits(f, s) == Sibling!Compatible(label, f.state, s.state)
<1>1. n \in DOMAIN Terms[id] /\ place \in DOMAIN kids
  BY TermIs
<1>2. Len(kids) \in {0, 1, 2} /\ DOMAIN kids = 1..Len(kids)
  BY <1>1, KidsAre
<1>3. (Len(kids) = 1 /\ place = 1) \/ (Len(kids) = 2 /\ place = 1) \/ (Len(kids) = 2 /\ place = 2)
  <2>. HIDE DEF place, kids
  <2>1. PICK k : k = Len(kids)
    OBVIOUS
  <2>2. place \in 1..k /\ k \in {0, 1, 2}
    BY <1>1, <1>2, <2>1
  <2>3. (k = 1 /\ place = 1) \/ (k = 2 /\ place = 1) \/ (k = 2 /\ place = 2)
    BY ONLY <2>2
  <2>. QED  BY <2>1, <2>3
<1>4. Sibling!Upward(id, x) =
          IF Len(kids) = 1 THEN Made(id, n, x.row, <<x.state>>)
          ELSE IF place = 1 THEN UNION {both(x, y) : y \in {w \in found(2) : fits(x, w)}}
          ELSE UNION {both(y, x) : y \in {w \in found(1) : fits(w, x)}}
  <2>1. Sibling!Children(Terms[id], n) = kids
    BY SiblingTerms
  <2>. QED  BY <2>1, Zenon DEF Sibling!Upward, Made
<1>5. Len(kids) = 2 => \A f, s : z \in both(f, s) => fits(f, s)
  BY <1>1, SiblingsAreFound
<1>. SUFFICES z \in Sibling!Upward(id, x) <=>
                 \/ Len(kids) = 1 /\ z \in Made(id, n, x.row, <<x.state>>)
                 \/ Len(kids) = 2 /\ place = 1 /\ \E y \in Sibling!Settled(id) : y.node = kids[2] /\ z \in both(x, y)
                 \/ Len(kids) = 2 /\ place = 2 /\ \E y \in Sibling!Settled(id) : y.node = kids[1] /\ z \in both(y, x)
  OBVIOUS
<1>. HIDE DEF both, fits, place, kids, label, n
<1>6. CASE Len(kids) = 1 /\ place = 1
  BY <1>4, <1>6
<1>7. CASE Len(kids) = 2 /\ place = 1
  <2>1. z \in Sibling!Upward(id, x) <=> \E y \in found(2) : fits(x, y) /\ z \in both(x, y)
    BY <1>4, <1>7
  <2>. QED  BY <1>5, <1>7, <2>1
<1>8. CASE Len(kids) = 2 /\ place = 2
  <2>1. z \in Sibling!Upward(id, x) <=> \E y \in found(1) : fits(y, x) /\ z \in both(y, x)
    BY <1>4, <1>8
  <2>. QED  BY <1>5, <1>8, <2>1
<1>. QED  BY <1>3, <1>6, <1>7, <1>8

(* The product states that have been processed, and what they have fed.     *)
Done == Pairs \ Range(queue)

FedTo(id, v, q) == \E p \in Done : p[2] = q /\ <<id, v>> \in Sibling!Groups(p[1])

LEMMA ActivatedIs ==
  /\ Sibling!Processed = Done
  /\ \A id, v, q : q \in Sibling!Activated(id, v) <=> FedTo(id, v, q)
<1>1. Sibling!Processed = Done
  BY DEF Sibling!Processed, Sibling!Pairs, Sibling!Ids, Sibling!Range, Done, Pairs, Ids, Range
<1>. QED  BY <1>1 DEF Sibling!Activated, FedTo

(* The items of the running program that wait to move up. *)
Unsettled(id) == IF pc = "propagate" /\ group[1] = id THEN scheduled ELSE {}

(* A group that still has to be given the current product state. *)
Unfed(g) == g \in todo \/ (pc = "older" /\ g = group)

QueueFits ==
    /\ queue \in Seq(Pairs)
    /\ \A i, j \in DOMAIN queue : queue[i] = queue[j] => i = j

(* Every item is justified by items below it or a product state. *)
ItemFollows(id, x) ==
    IF IsOperation(Terms[id], x.node)
      THEN MadeOf(id, x.node, items[id], x)
      ELSE /\ x = Sibling!Item(x.node, x.state, <<x.state>>)
           /\ FedTo(id, Terms[id][x.node].variable, x.state)

ItemsSound == \A id \in DOMAIN Terms : \A x \in items[id] : id \in initialized /\ ItemFollows(id, x)

(* All that the items make which have moved up is there. *)
ItemsClosed ==
    \A id \in initialized : \A n \in DOMAIN Terms[id] : \A z :
        IsOperation(Terms[id], n) /\ MadeOf(id, n, items[id] \ Unsettled(id), z) => z \in items[id]

(* Every product state has been fed to its groups, or is about to be.       *)
FedItem(id, v, q) == Sibling!Item(Sibling!VariableNode(Terms[id], v), q, <<q>>)

StatesFed ==
    \A p \in Done : \A id, v :
        <<id, v>> \in Sibling!Groups(p[1]) =>
            FedItem(id, v, p[2]) \in items[id] \/ (p = current /\ Unfed(<<id, v>>))

GroupsWait == \A id, v : Unfed(<<id, v>>) /\ v # 0 => current \in Done /\ <<id, v>> \in Sibling!Groups(current[1])

GroupIsPair == pc = "older" => group = <<group[1], group[2]>>

TermCharts ==
    /\ GroupIsPair
    /\ initialized \subseteq Sibling!Programs
    /\ pc = "start" => product_pairs = <<>>
    /\ pc # "start" => \A id \in Sibling!Programs : Sibling!HasSiblingIndexes(id)
    /\ QueueFits /\ ItemsSound /\ ItemsClosed /\ StatesFed /\ GroupsWait

LEMMA GroupsKept ==
  ASSUME left' = left, hom' = hom
  PROVE  \A q : Sibling!Groups(q)' = Sibling!Groups(q)
BY ProgramsKept DEF Sibling!Groups

LEMMA FedGrows ==
  ASSUME left' = left, hom' = hom, Done \subseteq Done'
  PROVE  \A id, v, q : FedTo(id, v, q) => FedTo(id, v, q)'
BY GroupsKept DEF FedTo

(* Items that were justified stay so. *)
LEMMA FollowsStill ==
  ASSUME UNCHANGED <<left, hom, decomp>>, Done \subseteq Done', NEW id, items[id] \subseteq items'[id],
         NEW x, ItemFollows(id, x)
  PROVE  ItemFollows(id, x)'
<1>1. CASE IsOperation(Terms[id], x.node)
  <2>1. MadeOf(id, x.node, items'[id], x)
    BY <1>1, MadeGrows DEF ItemFollows
  <2>2. MadeOf(id, x.node, items[id], x)' 
    <3>1. PICK S : S = items'[id]
      OBVIOUS
    <3>2. MadeOf(id, x.node, S, x)'
      BY <2>1, <3>1, MadeKept
    <3>. QED  BY <3>1, <3>2 DEF MadeOf
  <2>. QED  BY <1>1, <2>2 DEF ItemFollows
<1>2. CASE ~IsOperation(Terms[id], x.node)
  BY <1>2, FedGrows DEF ItemFollows
<1>. QED  BY <1>1, <1>2

LEMMA ClosedStill ==
  ASSUME ItemsClosed, UNCHANGED <<decomp, items, initialized>>, \A id : Unsettled(id)' = Unsettled(id)
  PROVE  ItemsClosed'
<1>. SUFFICES ASSUME NEW id \in initialized, NEW n \in DOMAIN Terms[id], NEW z, IsOperation(Terms[id], n),
                     MadeOf(id, n, items[id] \ Unsettled(id), z)'
              PROVE  z \in items[id]
  BY DEF ItemsClosed
<1>1. PICK S : S = items[id] \ Unsettled(id)
  OBVIOUS
<1>2. MadeOf(id, n, S, z)'
  BY <1>1 DEF MadeOf
<1>3. MadeOf(id, n, S, z)
  BY <1>2, MadeKept
<1>. QED  BY <1>1, <1>3 DEF ItemsClosed

(* A step that leaves the items and what has been fed. *)
LEMMA ChartsStill ==
  ASSUME TermCharts, UNCHANGED <<left, hom, decomp, items, initialized, current>>, Done' = Done,
         QueueFits', GroupIsPair', pc' # "start", \A id \in Sibling!Programs : Sibling!HasSiblingIndexes(id),
         \A id : Unsettled(id)' = Unsettled(id),
         \A g : Unfed(g) => Unfed(g)', \A g : Unfed(g)' /\ g[2] # 0 => Unfed(g)
  PROVE  TermCharts'
<1>1. initialized' \subseteq Sibling!Programs'
  BY ProgramsKept DEF TermCharts
<1>2. \A id \in Sibling!Programs' : Sibling!HasSiblingIndexes(id)'
  BY ProgramsKept DEF Sibling!HasSiblingIndexes
<1>3. ItemsSound'
  BY FollowsStill DEF TermCharts, ItemsSound
<1>4. ItemsClosed'
  BY ClosedStill DEF TermCharts
<1>5. StatesFed'
  <2>. SUFFICES ASSUME NEW p \in Done, NEW id, NEW v, <<id, v>> \in Sibling!Groups(p[1])'
                PROVE  FedItem(id, v, p[2])' \in items[id] \/ (p = current /\ Unfed(<<id, v>>)')
    BY DEF StatesFed
  <2>1. <<id, v>> \in Sibling!Groups(p[1])
    BY GroupsKept
  <2>2. FedItem(id, v, p[2])' = FedItem(id, v, p[2])
    BY DEF FedItem
  <2>. QED  BY <2>1, <2>2 DEF TermCharts, StatesFed
<1>6. GroupsWait'
  <2>. SUFFICES ASSUME NEW id, NEW v, Unfed(<<id, v>>)', v # 0
                PROVE  current \in Done /\ <<id, v>> \in Sibling!Groups(current[1])'
    BY DEF GroupsWait
  <2>1. Unfed(<<id, v>>)
    BY Zenon
  <2>. QED  BY <2>1, GroupsKept DEF TermCharts, GroupsWait
<1>. QED  BY <1>1, <1>2, <1>3, <1>4, <1>5, <1>6 DEF TermCharts

LEMMA ChartsStart ==
  ASSUME TermCharts, Sibling!Start, pc' = "groups"
  PROVE  TermCharts'
<1>1. /\ UNCHANGED <<left, hom, decomp, product_pairs, items, initialized, current, queue, group, scheduled>>
      /\ pc = "start"
      /\ \A id \in Sibling!Programs : Sibling!HasSiblingIndexes(id)
      /\ todo' = {<<id, 0>> : id \in {p \in Sibling!Programs : Sibling!IsGround(p)}}
  BY DEF Sibling!Start, Sibling!GiveUp, Sibling!input, Sibling!chart, Sibling!programs
<1>2. Pairs = {} /\ Pairs' = {} /\ Done = {} /\ Done' = {}
  BY <1>1 DEF TermCharts, Pairs, Ids, Done
<1>3. QueueFits'
  BY <1>1, <1>2 DEF TermCharts, QueueFits
<1>4. \A id : Unsettled(id)' = Unsettled(id)
  BY <1>1 DEF Unsettled
<1>5. \A g : Unfed(g)' => g[2] = 0
  BY <1>1 DEF Unfed
<1>6. GroupsWait'
  BY <1>5 DEF GroupsWait
<1>7. StatesFed'
  BY <1>2 DEF StatesFed
<1>8. initialized' \subseteq Sibling!Programs' /\ \A id \in Sibling!Programs' : Sibling!HasSiblingIndexes(id)'
  BY <1>1, ProgramsKept DEF TermCharts, Sibling!HasSiblingIndexes
<1>9. ItemsSound'
  BY <1>1, <1>2, FollowsStill DEF TermCharts, ItemsSound
<1>10. ItemsClosed'
  BY <1>1, <1>4, ClosedStill DEF TermCharts
<1>11. pc' = "groups"
  OBVIOUS
<1>. QED  BY <1>3, <1>6, <1>7, <1>8, <1>9, <1>10, <1>11 DEF TermCharts, GroupIsPair

LEMMA ChartsNextGroup ==
  ASSUME TermCharts, NEW g \in todo, Sibling!NextGroup(g[1], g[2])
  PROVE  TermCharts'
<1>1. /\ UNCHANGED <<left, hom, decomp, product_pairs, items, initialized, current, queue, scheduled>>
      /\ pc = "groups" /\ pc' = "older"
      /\ <<g[1], g[2]>> \in todo /\ todo' = todo \ {<<g[1], g[2]>>} /\ group' = <<g[1], g[2]>>
  BY DEF Sibling!NextGroup, Sibling!input, Sibling!chart, Sibling!programs
<1>2. Done' = Done /\ Pairs' = Pairs
  BY <1>1 DEF Done, Pairs, Ids, Range
<1>3. QueueFits'
  BY <1>1, <1>2 DEF TermCharts, QueueFits
<1>4. \A id : Unsettled(id)' = Unsettled(id)
  BY <1>1 DEF Unsettled
<1>5. \A h : Unfed(h)' <=> Unfed(h)
  BY <1>1 DEF Unfed
<1>6. GroupIsPair'
  BY <1>1 DEF GroupIsPair
<1>. QED  BY <1>1, <1>2, <1>3, <1>4, <1>5, <1>6, ChartsStill DEF TermCharts

LEMMA ChartsAdvance ==
  ASSUME TermCharts, Sibling!EndPropagate \/ Sibling!EndGroup \/ Sibling!Finish \/ \E root \in new_roots : Sibling!NextRoot(root)
  PROVE  TermCharts'
<1>1. /\ UNCHANGED <<left, hom, decomp, product_pairs, items, initialized, current, queue, scheduled, todo, group>>
      /\ \/ pc = "propagate" /\ pc' = "roots" /\ scheduled = {}
         \/ pc = "roots" /\ pc' = "roots"
         \/ pc = "roots" /\ pc' = "groups"
         \/ pc = "groups" /\ pc' = "done"
  BY DEF Sibling!EndPropagate, Sibling!EndGroup, Sibling!Finish, Sibling!NextRoot, Sibling!input, Sibling!chart,
         Sibling!programs, Sibling!position
<1>2. Done' = Done /\ Pairs' = Pairs
  BY <1>1 DEF Done, Pairs, Ids, Range
<1>3. QueueFits'
  BY <1>1, <1>2 DEF TermCharts, QueueFits
<1>4. \A id : Unsettled(id)' = Unsettled(id)
  BY <1>1 DEF Unsettled
<1>5. \A h : Unfed(h)' <=> Unfed(h)
  BY <1>1 DEF Unfed
<1>6. pc # "start" /\ pc' # "start" /\ GroupIsPair'
  BY <1>1 DEF GroupIsPair
<1>. QED  BY <1>1, <1>2, <1>3, <1>4, <1>5, <1>6, ChartsStill DEF TermCharts

LEMMA AppendIs ==
  ASSUME NEW T, NEW s \in Seq(T), NEW e
  PROVE  /\ Append(s, e) \in Seq(T \cup {e})
         /\ DOMAIN Append(s, e) = 1..(Len(s) + 1)
         /\ \A i \in 1..Len(s) : Append(s, e)[i] = s[i]
         /\ Append(s, e)[Len(s) + 1] = e
         /\ Range(Append(s, e)) = Range(s) \cup {e}
<1>. DEFINE len == Len(s)
            more == Append(s, e)
<1>1. len \in Nat /\ DOMAIN s = 1..len /\ s \in Seq(T \cup {e})
  BY SeqWiden
<1>2. /\ more \in Seq(T \cup {e}) /\ DOMAIN more = 1..(len + 1)
      /\ \A i \in 1..(len + 1) : more[i] = IF i <= len THEN s[i] ELSE e
  BY <1>1
<1>3. Range(s) = {s[i] : i \in 1..len} /\ Range(more) = {more[i] : i \in 1..(len + 1)}
  BY <1>1, <1>2 DEF Range
<1>. HIDE DEF len, more
<1>4. \A i \in 1..len : i \in 1..(len + 1) /\ more[i] = s[i]
  BY <1>1, <1>2
<1>5. len + 1 \in 1..(len + 1) /\ more[len + 1] = e
  BY <1>1, <1>2
<1>6. \A i \in 1..(len + 1) : i \in 1..len \/ i = len + 1
  BY <1>1
<1>7. Range(more) = Range(s) \cup {e}
  BY <1>3, <1>4, <1>5, <1>6
<1>. QED  BY <1>2, <1>4, <1>5, <1>7 DEF len, more

LEMMA AppendRange ==
  ASSUME NEW T, NEW s \in Seq(T), NEW e
  PROVE  Range(Append(s, e)) = Range(s) \cup {e}
BY AppendIs, Zenon

(* A new pair goes to the queue: it is not processed yet. *)
LEMMA QueueGrows ==
  ASSUME QueueFits, NEW pair, pair \notin Pairs, queue' = Append(queue, pair), Pairs' = Pairs \cup {pair}
  PROVE  QueueFits' /\ Done' = Done
<1>. DEFINE len == Len(queue)
<1>1. len \in Nat /\ DOMAIN queue = 1..len /\ \A i \in 1..len : queue[i] \in Pairs
  BY DEF QueueFits
<1>2. /\ queue' \in Seq(Pairs') /\ DOMAIN queue' = 1..(len + 1)
      /\ \A i \in 1..len : queue'[i] = queue[i]
      /\ queue'[len + 1] = pair
      /\ Range(queue') = Range(queue) \cup {pair}
  <2>1. queue \in Seq(Pairs)
    BY DEF QueueFits
  <2>2. Append(queue, pair) \in Seq(Pairs \cup {pair}) /\ DOMAIN Append(queue, pair) = 1..(Len(queue) + 1)
    BY <2>1, AppendIs
  <2>3. \A i \in 1..Len(queue) : Append(queue, pair)[i] = queue[i]
    BY <2>1, AppendIs
  <2>4. Append(queue, pair)[Len(queue) + 1] = pair
    BY <2>1, AppendIs
  <2>. HIDE DEF len
  <2>5. /\ queue' \in Seq(Pairs') /\ DOMAIN queue' = 1..(len + 1)
        /\ \A i \in 1..len : queue'[i] = queue[i]
        /\ queue'[len + 1] = pair
    BY <2>2, <2>3, <2>4, Zenon DEF len
  <2>6. Range(queue') = Range(queue) \cup {pair}
    BY <2>1, AppendRange
  <2>. QED  BY <2>5, <2>6
<1>3. \A i, j \in 1..len : queue[i] = queue[j] => i = j
  BY <1>1 DEF QueueFits
<1>. HIDE DEF len
<1>4. \A i, j \in 1..(len + 1) : queue'[i] = queue'[j] => i = j
  <2>1. \A i \in 1..(len + 1) : (i \in 1..len /\ queue'[i] = queue[i]) \/ (i = len + 1 /\ queue'[i] = pair)
    BY <1>1, <1>2
  <2>. QED  BY <1>1, <1>3, <2>1
<1>. QED  BY <1>2, <1>4 DEF QueueFits, Done

LEMMA ChartsTryEmit ==
  ASSUME SiblingOnce, TermCharts, NEW t \in tries, Sibling!TryEmit(t[1], t[2])
  PROVE  TermCharts'
<1>. DEFINE pair == <<t[1].result, t[2].state>>
<1>1. /\ UNCHANGED <<left, hom, decomp, items, initialized, current, scheduled, todo, group, pc>>
      /\ pc \in {"older", "roots"}
      /\ \/ UNCHANGED <<product_pairs, queue>>
         \/ /\ queue' = IF Known(pair) THEN queue ELSE Append(queue, pair)
            /\ product_pairs' = IF ~Known(pair) THEN Append(product_pairs, pair) ELSE product_pairs
  BY SiblingChart DEF Sibling!TryEmit, Sibling!AddProductRule, Sibling!input, Sibling!chart, Sibling!programs, Sibling!position
<1>2. QueueFits' /\ Done' = Done
  <2>1. CASE UNCHANGED <<product_pairs, queue>>
    BY <2>1 DEF TermCharts, QueueFits, Done, Pairs, Ids, Range
  <2>2. CASE queue' = Append(queue, pair) /\ product_pairs' = Append(product_pairs, pair) /\ ~Known(pair)
    <3>. HIDE DEF pair
    <3>1. pair \notin Pairs
      BY <2>2 DEF Pairs, Known
    <3>2. Pairs' = Pairs \cup {pair}
      <4>1. product_pairs \in Seq(Pairs)
        BY DEF SiblingOnce, RulesFit, Numbered
      <4>2. Pairs = Range(product_pairs) /\ Pairs' = Range(product_pairs')
        BY DEF Pairs, Ids, Range
      <4>. QED  BY <2>2, <4>1, <4>2, AppendRange
    <3>. QED  BY <2>2, <3>1, <3>2, QueueGrows DEF TermCharts
  <2>. QED  BY <1>1, <2>1, <2>2
<1>3. \A id : Unsettled(id)' = Unsettled(id)
  BY <1>1 DEF Unsettled
<1>4. \A h : Unfed(h)' <=> Unfed(h)
  BY <1>1 DEF Unfed
<1>5. pc # "start" /\ pc' # "start" /\ GroupIsPair'
  BY <1>1 DEF TermCharts, GroupIsPair
<1>. QED  BY <1>1, <1>2, <1>3, <1>4, <1>5, ChartsStill DEF TermCharts

LEMMA TailRange ==
  ASSUME NEW T, NEW s \in Seq(T), s # <<>>, \A i, j \in DOMAIN s : s[i] = s[j] => i = j
  PROVE  /\ Tail(s) \in Seq(T)
         /\ \A i, j \in DOMAIN Tail(s) : Tail(s)[i] = Tail(s)[j] => i = j
         /\ Head(s) \in T
         /\ Range(Tail(s)) = Range(s) \ {Head(s)}
<1>. DEFINE len == Len(s)
            rest == Tail(s)
            first == Head(s)
<1>1. /\ len \in Nat /\ len # 0 /\ DOMAIN s = 1..len
      /\ rest \in Seq(T) /\ DOMAIN rest = 1..(len - 1)
      /\ \A i \in 1..(len - 1) : rest[i] = s[i + 1]
      /\ first = s[1] /\ first \in T
  BY SMT
<1>2. Range(s) = {s[i] : i \in 1..len} /\ Range(rest) = {rest[i] : i \in 1..(len - 1)}
  BY <1>1 DEF Range
<1>3. \A i, j \in 1..len : s[i] = s[j] => i = j
  BY <1>1
<1>. HIDE DEF len, rest, first
<1>4. \A i, j \in 1..(len - 1) : rest[i] = rest[j] => i = j
  <2>1. \A i \in 1..(len - 1) : i + 1 \in 1..len /\ rest[i] = s[i + 1] /\ i \in Nat
    BY <1>1
  <2>. SUFFICES ASSUME NEW i \in 1..(len - 1), NEW j \in 1..(len - 1), rest[i] = rest[j] PROVE i = j
    OBVIOUS
  <2>2. i + 1 = j + 1
    BY <1>3, <2>1
  <2>. QED  BY <2>1, <2>2
<1>5. ASSUME NEW y \in Range(rest) PROVE y \in Range(s) \ {first}
  <2>1. PICK i \in 1..(len - 1) : y = rest[i]
    BY <1>2
  <2>2. i + 1 \in 1..len /\ y = s[i + 1] /\ i + 1 # 1 /\ 1 \in 1..len
    BY <1>1, <2>1
  <2>. QED  BY <1>1, <1>2, <1>3, <2>2
<1>6. ASSUME NEW y \in Range(s) \ {first} PROVE y \in Range(rest)
  <2>1. PICK i \in 1..len : y = s[i]
    BY <1>2
  <2>2. i - 1 \in 1..(len - 1) /\ rest[i - 1] = s[i]
    BY <1>1, <1>6, <2>1
  <2>. QED  BY <1>2, <2>1, <2>2
<1>7. Range(rest) = Range(s) \ {first}
  BY <1>5, <1>6
<1>. QED  BY <1>1, <1>4, <1>7 DEF len, rest, first

LEMMA ChartsPop ==
  ASSUME TermCharts, Sibling!Pop, pc' = "groups"
  PROVE  TermCharts'
<1>. DEFINE head == Head(queue)
<1>1. /\ UNCHANGED <<left, hom, decomp, product_pairs, items, initialized, scheduled, group>>
      /\ pc = "groups" /\ todo = {} /\ queue # <<>>
      /\ current' = head /\ queue' = Tail(queue) /\ todo' = Sibling!Groups(head[1])
  BY DEF Sibling!Pop, Sibling!GiveUp, Sibling!input, Sibling!programs
<1>2. QueueFits' /\ Done' = Done \cup {head}
  <2>1. Pairs' = Pairs
    BY <1>1 DEF Pairs, Ids
  <2>2. queue \in Seq(Pairs) /\ \A i, j \in DOMAIN queue : queue[i] = queue[j] => i = j
    BY DEF TermCharts, QueueFits
  <2>3. PICK rest : rest = Tail(queue)
    OBVIOUS
  <2>4. /\ rest \in Seq(Pairs) /\ \A i, j \in DOMAIN rest : rest[i] = rest[j] => i = j
        /\ head \in Pairs
        /\ Range(rest) = Range(queue) \ {head}
    BY ONLY <1>1, <2>2, <2>3, TailRange, Zenon DEF head
  <2>5. queue' = rest
    BY <1>1, <2>3
  <2>. QED  BY <2>1, <2>4, <2>5 DEF QueueFits, Done
<1>. HIDE DEF head
<1>3. \A id : Unsettled(id)' = Unsettled(id)
  BY <1>1 DEF Unsettled
<1>4. initialized' \subseteq Sibling!Programs' /\ \A id \in Sibling!Programs' : Sibling!HasSiblingIndexes(id)'
  BY <1>1, ProgramsKept DEF TermCharts, Sibling!HasSiblingIndexes
<1>5. ItemsSound'
  BY <1>1, <1>2, FollowsStill DEF TermCharts, ItemsSound
<1>6. ItemsClosed' /\ GroupIsPair'
  BY <1>1, <1>3, ClosedStill DEF TermCharts, GroupIsPair
<1>7. \A g : ~Unfed(g)
  BY <1>1 DEF Unfed
<1>8. \A g : Unfed(g)' <=> g \in Sibling!Groups(head[1])
  BY <1>1 DEF Unfed
<1>9. \A q : Sibling!Groups(q)' = Sibling!Groups(q)
  BY <1>1, GroupsKept
<1>10. StatesFed'
  <2>. SUFFICES ASSUME NEW p \in Done', NEW id, NEW v, <<id, v>> \in Sibling!Groups(p[1])'
                PROVE  FedItem(id, v, p[2])' \in items'[id] \/ (p = current' /\ Unfed(<<id, v>>)')
    BY DEF StatesFed
  <2>1. <<id, v>> \in Sibling!Groups(p[1])
    BY <1>9
  <2>2. FedItem(id, v, p[2])' = FedItem(id, v, p[2])
    BY DEF FedItem
  <2>3. CASE p \in Done
    BY <1>1, <1>7, <2>1, <2>2, <2>3 DEF TermCharts, StatesFed
  <2>4. CASE p = head
    BY <1>1, <1>8, <2>1, <2>4
  <2>. QED  BY <1>2, <2>3, <2>4
<1>11. GroupsWait'
  <2>. SUFFICES ASSUME NEW id, NEW v, Unfed(<<id, v>>)'
                PROVE  (current \in Done /\ <<id, v>> \in Sibling!Groups(current[1]))'
    BY DEF GroupsWait
  <2>1. <<id, v>> \in Sibling!Groups(head[1])
    BY <1>8
  <2>2. PICK q : q = head[1]
    OBVIOUS
  <2>3. Sibling!Groups(q)' = Sibling!Groups(q) /\ current' = head
    BY <1>1, <1>9
  <2>4. Sibling!Groups(current[1])' = Sibling!Groups(q)'
    BY <2>2, <2>3 DEF Sibling!Groups
  <2>. QED  BY <1>2, <2>1, <2>2, <2>3, <2>4
<1>. QED  BY <1>1, <1>2, <1>4, <1>5, <1>6, <1>10, <1>11 DEF TermCharts

(* The constants are what the operations without children make.             *)
LEMMA ConstantsAre ==
  ASSUME NEW id \in DOMAIN Terms, Sibling!IsBinary(id), NEW z
  PROVE  z \in Sibling!Constants(id) <=>
            \E n \in DOMAIN Terms[id] :
               /\ IsOperation(Terms[id], n) /\ Len(Children(Terms[id], n)) = 0
               /\ z \in Made(id, n, <<>>, <<>>)
<1>. DEFINE term == Terms[id]
            constants(n) == {Sibling!Item(n, q, <<>>) : q \in Sibling!Step(decomp, term[n].label, <<>>)}
            leaf(n) == IsOperation(term, n) /\ Children(term, n) = <<>>
<1>1. z \in Sibling!Constants(id) <=> \E n \in DOMAIN term : leaf(n) /\ z \in constants(n)
  BY SiblingTerms DEF Sibling!Constants
<1>2. \A n : Sibling!RowAt(term, n, <<>>) = <<>>
  BY DEF Sibling!RowAt
<1>3. \A n : constants(n) = Made(id, n, <<>>, <<>>)
  BY <1>2 DEF Made
<1>4. \A n \in DOMAIN term : leaf(n) <=> IsOperation(term, n) /\ Len(Children(term, n)) = 0
  BY KidsAre
<1>. HIDE DEF constants, leaf, term
<1>5. z \in Sibling!Constants(id) <=>
            \E n \in DOMAIN term : /\ IsOperation(term, n) /\ Len(Children(term, n)) = 0
                                   /\ z \in Made(id, n, <<>>, <<>>)
  BY <1>1, <1>3, <1>4
<1>. QED  BY <1>5 DEF term

LEMMA VariableAt ==
  ASSUME NEW id \in DOMAIN Terms, NEW v \in 1..Arity(Terms[id])
  PROVE  LET n == VariableNode(Terms[id], v)
         IN  n \in DOMAIN Terms[id] /\ Terms[id][n].variable = v /\ ~IsOperation(Terms[id], n)
<1>1. \E n \in DOMAIN Terms[id] : ~IsOperation(Terms[id], n) /\ Terms[id][n].variable = v
  BY TermsAreNondeleting DEF IsNondeleting
<1>2. VariableNode(Terms[id], v) \in DOMAIN Terms[id] /\ Terms[id][VariableNode(Terms[id], v)].variable = v
  BY <1>1 DEF VariableNode
<1>3. v # 0
  OBVIOUS
<1>. QED  BY <1>2, <1>3 DEF IsOperation

LEMMA GroupsAre ==
  ASSUME left \in Lefts, NEW id, NEW v, NEW q, <<id, v>> \in Sibling!Groups(q)
  PROVE  v # 0 /\ id \in Sibling!Programs /\ \E l \in Sibling!Interpreted : Sibling!Program(l) = id /\ v \in DOMAIN l.children /\ l.children[v] = q
<1>1. PICK l \in Sibling!Interpreted : Sibling!Program(l) = id /\ v \in DOMAIN l.children /\ l.children[v] = q
  BY DEF Sibling!Groups
<1>2. l.children \in Seq(LeftStates)
  BY InputsAreAutomata DEF IsExplicit, Sibling!Interpreted, ExplicitRules
<1>. QED  BY <1>1, <1>2 DEF Sibling!Programs

LEMMA ChartsActivate ==
  ASSUME left \in Lefts, SiblingOnce, TermCharts, Sibling!Activate,
         NEW id, NEW v, NEW q, id = group[1], v = group[2], q = current[2]
  PROVE  TermCharts'
<1>. DEFINE constants == IF id \in initialized THEN {} ELSE Sibling!Constants(id)
            variable == IF v = 0 THEN {} ELSE {FedItem(id, v, q)}
            more == constants \cup variable
<1>1. /\ UNCHANGED <<left, hom, decomp, product_pairs, current, queue, todo, group>>
      /\ pc = "older" /\ pc' = "propagate"
      /\ items' = [items EXCEPT ![id] = @ \cup more]
      /\ scheduled' = scheduled \cup (more \ items[id])
      /\ initialized' = initialized \cup {id}
  BY SiblingTerms DEF Sibling!Activate, Sibling!Insert, FedItem, Sibling!input, Sibling!chart, Sibling!position
<1>2. /\ scheduled = {} /\ id \in Sibling!Programs /\ Sibling!IsBinary(id)
      /\ id \in DOMAIN Terms /\ v \in 0..Arity(Terms[id])
      /\ group = <<id, v>>
  BY <1>1, ProgramIsTerm DEF SiblingOnce, PlaceFits, GroupFits, TermCharts, GroupIsPair
<1>3. /\ items'[id] = items[id] \cup more /\ \A k \in DOMAIN Terms \ {id} : items'[k] = items[k]
      /\ \A k \in DOMAIN Terms : items[k] \subseteq items'[k]
  BY <1>1, <1>2 DEF SiblingOnce, ItemsFit
<1>4. Done' = Done /\ Pairs' = Pairs
  BY <1>1 DEF Done, Pairs, Ids, Range
<1>5. \A k : Unsettled(k) = {} /\ Unsettled(k)' = IF k = id THEN more \ items[id] ELSE {}
  <2>1. scheduled' = more \ items[id] /\ group' = <<id, v>> /\ group'[1] = id
    BY <1>1, <1>2
  <2>. HIDE DEF more
  <2>. QED  BY <1>1, <2>1 DEF Unsettled
<1>6. QueueFits' /\ GroupIsPair'
  BY <1>1, <1>4 DEF TermCharts, QueueFits, GroupIsPair
<1>7. initialized' \subseteq Sibling!Programs' /\ \A k \in Sibling!Programs' : Sibling!HasSiblingIndexes(k)'
  BY <1>1, <1>2, ProgramsKept DEF TermCharts, Sibling!HasSiblingIndexes
<1>8. \A g : Unfed(g) <=> Unfed(g)' \/ g = group
  BY <1>1 DEF Unfed
<1>9. ASSUME NEW z \in more PROVE ItemFollows(id, z)'
  <2>0. ItemFollows(id, z) => ItemFollows(id, z)'
    BY <1>1, <1>2, <1>3, <1>4, FollowsStill
  <2>1. CASE z \in constants
    <3>1. PICK n \in DOMAIN Terms[id] : /\ IsOperation(Terms[id], n) /\ Len(Children(Terms[id], n)) = 0
                                        /\ z \in Made(id, n, <<>>, <<>>)
      BY <1>2, <2>1, ConstantsAre
    <3>2. z.node = n
      BY <3>1 DEF Made, Sibling!Item
    <3>3. ItemFollows(id, z)
      BY <3>1, <3>2 DEF ItemFollows, MadeOf
    <3>. QED  BY <2>0, <3>3
  <2>2. CASE z \in variable
    <3>1. v # 0 /\ z = FedItem(id, v, q)
      BY <2>2
    <3>2. v \in 1..Arity(Terms[id])
      BY <1>2, <3>1
    <3>3. LET n == VariableNode(Terms[id], v)
          IN  n \in DOMAIN Terms[id] /\ Terms[id][n].variable = v /\ ~IsOperation(Terms[id], n)
      BY <1>2, <3>2, VariableAt
    <3>4. z = Sibling!Item(z.node, z.state, <<z.state>>) /\ z.node = VariableNode(Terms[id], v) /\ z.state = q
      BY <3>1, SiblingTerms DEF FedItem, Sibling!Item
    <3>5. FedTo(id, v, q)
      <4>1. Unfed(<<id, v>>)
        BY <1>2, <1>8
      <4>2. current \in Done /\ <<id, v>> \in Sibling!Groups(current[1])
        BY <3>1, <4>1 DEF TermCharts, GroupsWait
      <4>. QED  BY <4>2 DEF FedTo
    <3>6. ItemFollows(id, z)
      BY <3>3, <3>4, <3>5 DEF ItemFollows
    <3>. QED  BY <2>0, <3>6
  <2>. QED  BY <2>1, <2>2
<1>10. ItemsSound'
  <2>. SUFFICES ASSUME NEW k \in DOMAIN Terms, NEW x \in items'[k] PROVE (k \in initialized /\ ItemFollows(k, x))'
    BY DEF ItemsSound
  <2>1. CASE x \in items[k]
    <3>1. k \in initialized /\ ItemFollows(k, x)
      BY <2>1 DEF TermCharts, ItemsSound
    <3>. QED  BY <1>1, <1>3, <1>4, <3>1, FollowsStill
  <2>2. CASE x \notin items[k]
    <3>1. k = id /\ x \in more
      BY <1>3, <2>2
    <3>. QED  BY <1>1, <1>9, <3>1
  <2>. QED  BY <2>1, <2>2
<1>11. ItemsClosed'
  <2>. SUFFICES ASSUME NEW k \in initialized', NEW n \in DOMAIN Terms[k], NEW z, IsOperation(Terms[k], n),
                       MadeOf(k, n, items[k] \ Unsettled(k), z)'
                PROVE  z \in items'[k]
    BY DEF ItemsClosed
  <2>1. PICK S : S = items'[k] \ Unsettled(k)'
    OBVIOUS
  <2>2. MadeOf(k, n, S, z)'
    BY <2>1 DEF MadeOf
  <2>3. MadeOf(k, n, S, z)
    BY <1>1, <2>2, MadeKept
  <2>4. k \in DOMAIN Terms
    BY <1>1, <1>2, ProgramIsTerm DEF TermCharts, SiblingOnce
  <2>. HIDE DEF more
  <2>5. S = items[k]
    BY <1>3, <1>5, <2>1, <2>4
  <2>6. CASE k \in initialized
    <3>1. z \in items[k]
      BY <1>5, <2>3, <2>5, <2>6 DEF TermCharts, ItemsClosed
    <3>. QED  BY <1>3, <2>4, <3>1
  <2>7. CASE k \notin initialized
    <3>1. k = id
      BY <1>1, <2>7
    <3>2. S = {}
      BY <2>4, <2>5, <2>7 DEF TermCharts, ItemsSound
    <3>3. Len(Children(Terms[id], n)) = 0 /\ z \in Made(id, n, <<>>, <<>>)
      BY <2>3, <3>1, <3>2 DEF MadeOf
    <3>4. z \in Sibling!Constants(id)
      BY <1>2, <3>1, <3>3, ConstantsAre
    <3>. QED  BY <1>3, <2>7, <3>1, <3>4 DEF more
  <2>. QED  BY <2>6, <2>7
<1>12. StatesFed'
  <2>. SUFFICES ASSUME NEW p \in Done, NEW k, NEW u, <<k, u>> \in Sibling!Groups(p[1])'
                PROVE  FedItem(k, u, p[2])' \in items'[k] \/ (p = current /\ Unfed(<<k, u>>)')
    BY <1>1, <1>4 DEF StatesFed
  <2>1. <<k, u>> \in Sibling!Groups(p[1])
    BY <1>1, GroupsKept
  <2>2. FedItem(k, u, p[2])' = FedItem(k, u, p[2])
    BY DEF FedItem
  <2>3. u # 0 /\ k \in DOMAIN Terms
    BY <2>1, GroupsAre, ProgramIsTerm DEF SiblingOnce
  <2>4. CASE FedItem(k, u, p[2]) \in items[k]
    BY <1>3, <2>2, <2>3, <2>4
  <2>5. CASE p = current /\ Unfed(<<k, u>>)
    <3>1. CASE Unfed(<<k, u>>)'
      BY <2>5, <3>1
    <3>2. CASE <<k, u>> = group
      <4>1. k = id /\ u = v
        BY <1>2, <3>2
      <4>2. FedItem(k, u, p[2]) \in more
        BY <2>3, <2>5, <4>1
      <4>. QED  BY <1>3, <2>2, <4>1, <4>2
    <3>. QED  BY <1>8, <2>5, <3>1, <3>2
  <2>. QED  BY <2>1, <2>4, <2>5 DEF TermCharts, StatesFed
<1>13. GroupsWait'
  <2>. SUFFICES ASSUME NEW k, NEW u, Unfed(<<k, u>>)', u # 0
                PROVE  (current \in Done /\ <<k, u>> \in Sibling!Groups(current[1]))'
    BY DEF GroupsWait
  <2>1. current \in Done /\ <<k, u>> \in Sibling!Groups(current[1])
    BY <1>8 DEF TermCharts, GroupsWait
  <2>2. Sibling!Groups(current[1])' = Sibling!Groups(current[1])
    BY <1>1, ProgramsKept DEF Sibling!Groups
  <2>. QED  BY <1>1, <1>4, <2>1, <2>2
<1>. QED  BY <1>1, <1>6, <1>7, <1>10, <1>11, <1>12, <1>13 DEF TermCharts

(* An item that is at no child of the node makes nothing there.             *)
LEMMA MadeWithout ==
  ASSUME NEW id \in DOMAIN Terms, Sibling!IsBinary(id), NEW n \in DOMAIN Terms[id], NEW S, NEW x, NEW z,
         MadeOf(id, n, S \cup {x}, z), \A i \in DOMAIN Children(Terms[id], n) : Children(Terms[id], n)[i] # x.node
  PROVE  MadeOf(id, n, S, z)
<1>. DEFINE kids == Children(Terms[id], n)
<1>1. DOMAIN kids = 1..Len(kids)
  BY KidsAre
<1>2. \A i \in DOMAIN kids : \A y \in S \cup {x} : y.node = kids[i] => y \in S
  OBVIOUS
<1>3. Len(kids) = 1 => 1 \in DOMAIN kids
  BY <1>1
<1>4. Len(kids) = 2 => 1 \in DOMAIN kids /\ 2 \in DOMAIN kids
  BY <1>1
<1>. HIDE DEF kids
<1>5. \/ Len(kids) = 0 /\ z \in Made(id, n, <<>>, <<>>)
      \/ Len(kids) = 1 /\ \E y \in S \cup {x} : y.node = kids[1] /\ z \in Made(id, n, y.row, <<y.state>>)
      \/ Len(kids) = 2 /\ \E y, w \in S \cup {x} : /\ y.node = kids[1] /\ w.node = kids[2]
                                                   /\ z \in Made(id, n, y.row \o w.row, <<y.state, w.state>>)
  BY Zenon DEF MadeOf, kids
<1>6. \/ Len(kids) = 0 /\ z \in Made(id, n, <<>>, <<>>)
      \/ Len(kids) = 1 /\ \E y \in S : y.node = kids[1] /\ z \in Made(id, n, y.row, <<y.state>>)
      \/ Len(kids) = 2 /\ \E y, w \in S : /\ y.node = kids[1] /\ w.node = kids[2]
                                          /\ z \in Made(id, n, y.row \o w.row, <<y.state, w.state>>)
  BY <1>2, <1>3, <1>4, <1>5, Zenon
<1>. QED  BY <1>6, Zenon DEF MadeOf, kids

(* What a new settled item makes at its parent is what it makes on its way  *)
(* up, or was made before.                                                  *)
LEMMA MadeWith ==
  ASSUME IndexFits(decomp), NEW id \in DOMAIN Terms, Sibling!IsBinary(id), Sibling!HasSiblingIndexes(id),
         NEW x, x.node \in DOMAIN Terms[id], x.node # Root, NEW n \in DOMAIN Terms[id], NEW z,
         MadeOf(id, n, Sibling!Settled(id) \cup {x}, z)
  PROVE  MadeOf(id, n, Sibling!Settled(id), z) \/ z \in Sibling!Upward(id, x)
<1>. DEFINE kids == Children(Terms[id], n)
            S == Sibling!Settled(id)
            place == Terms[id][x.node].position
<1>1. CASE n # Terms[id][x.node].parent
  <2>1. \A i \in DOMAIN kids : kids[i] # x.node
    BY <1>1, KidIs
  <2>. HIDE DEF S
  <2>2. MadeOf(id, n, S \cup {x}, z)
    BY DEF S
  <2>. QED  BY <2>1, <2>2, MadeWithout DEF S
<1>2. CASE n = Terms[id][x.node].parent
  <2>1. DOMAIN kids = 1..Len(kids)
    BY KidsAre
  <2>2. \A i \in DOMAIN kids : kids[i] = x.node => i = place
    BY KidIs
  <2>3. z \in Sibling!Upward(id, x) <=>
                \/ Len(kids) = 1 /\ z \in Made(id, n, x.row, <<x.state>>)
                \/ Len(kids) = 2 /\ place = 1 /\ \E y \in S : y.node = kids[2] /\ z \in Made(id, n, x.row \o y.row, <<x.state, y.state>>)
                \/ Len(kids) = 2 /\ place = 2 /\ \E y \in S : y.node = kids[1] /\ z \in Made(id, n, y.row \o x.row, <<y.state, x.state>>)
    BY <1>2, UpwardIs
  <2>4. \/ Len(kids) = 0 /\ z \in Made(id, n, <<>>, <<>>)
        \/ Len(kids) = 1 /\ \E y \in S \cup {x} : y.node = kids[1] /\ z \in Made(id, n, y.row, <<y.state>>)
        \/ Len(kids) = 2 /\ \E y, w \in S \cup {x} : /\ y.node = kids[1] /\ w.node = kids[2]
                                                     /\ z \in Made(id, n, y.row \o w.row, <<y.state, w.state>>)
    BY Zenon DEF MadeOf
  <2>5. Len(kids) = 2 => 1 \in DOMAIN kids /\ 2 \in DOMAIN kids
    BY <2>1
  <2>6. MadeOf(id, n, S, z) <=>
            \/ Len(kids) = 0 /\ z \in Made(id, n, <<>>, <<>>)
            \/ Len(kids) = 1 /\ \E y \in S : y.node = kids[1] /\ z \in Made(id, n, y.row, <<y.state>>)
            \/ Len(kids) = 2 /\ \E y, w \in S : /\ y.node = kids[1] /\ w.node = kids[2]
                                                /\ z \in Made(id, n, y.row \o w.row, <<y.state, w.state>>)
    BY Zenon DEF MadeOf
  <2>. HIDE DEF kids, S, place
  <2>7. CASE Len(kids) = 0 /\ z \in Made(id, n, <<>>, <<>>)
    BY <2>6, <2>7 DEF S
  <2>8. CASE Len(kids) = 1 /\ \E y \in S \cup {x} : y.node = kids[1] /\ z \in Made(id, n, y.row, <<y.state>>)
    BY <2>3, <2>6, <2>8 DEF S
  <2>9. CASE Len(kids) = 2 /\ \E y, w \in S \cup {x} : /\ y.node = kids[1] /\ w.node = kids[2]
                                                       /\ z \in Made(id, n, y.row \o w.row, <<y.state, w.state>>)
    <3>1. PICK y \in S \cup {x}, w \in S \cup {x} : /\ y.node = kids[1] /\ w.node = kids[2]
                                                   /\ z \in Made(id, n, y.row \o w.row, <<y.state, w.state>>)
      BY <2>9
    <3>2. CASE y \in S /\ w \in S
      BY <2>6, <2>9, <3>1, <3>2 DEF S
    <3>3. CASE y = x
      <4>1. place = 1 /\ w # x
        BY <2>2, <2>5, <2>9, <3>1, <3>3
      <4>. QED  BY <2>3, <2>9, <3>1, <3>3, <4>1
    <3>4. CASE w = x
      <4>1. place = 2 /\ y # x
        BY <2>2, <2>5, <2>9, <3>1, <3>4
      <4>. QED  BY <2>3, <2>9, <3>1, <3>4, <4>1
    <3>. QED  BY <3>2, <3>3, <3>4
  <2>. QED  BY <2>4, <2>7, <2>8, <2>9
<1>. QED  BY <1>1, <1>2

(* What an item makes on its way up is justified. *)
LEMMA UpwardFollows ==
  ASSUME IndexFits(decomp), NEW id \in DOMAIN Terms, Sibling!IsBinary(id), Sibling!HasSiblingIndexes(id),
         NEW x \in items[id], x.node \in DOMAIN Terms[id], x.node # Root, NEW z \in Sibling!Upward(id, x)
  PROVE  ItemFollows(id, z)
<1>. DEFINE n == Terms[id][x.node].parent
            kids == Children(Terms[id], n)
            place == Terms[id][x.node].position
<1>1. n \in DOMAIN Terms[id] /\ IsOperation(Terms[id], n) /\ place \in DOMAIN kids /\ x.node = kids[place]
      /\ DOMAIN kids = 1..Len(kids)
  <2>1. x.node \in DOMAIN Terms[id] \ {Root}
    OBVIOUS
  <2>2. /\ n \in DOMAIN Terms[id] /\ IsOperation(Terms[id], n) /\ place \in DOMAIN kids
        /\ x.node = kids[place]
    BY <2>1, AboveIs
  <2>. QED  BY <2>2, KidsAre
<1>2. \/ Len(kids) = 1 /\ z \in Made(id, n, x.row, <<x.state>>)
      \/ Len(kids) = 2 /\ place = 1 /\ \E y \in Sibling!Settled(id) :
             y.node = kids[2] /\ z \in Made(id, n, x.row \o y.row, <<x.state, y.state>>)
      \/ Len(kids) = 2 /\ place = 2 /\ \E y \in Sibling!Settled(id) :
             y.node = kids[1] /\ z \in Made(id, n, y.row \o x.row, <<y.state, x.state>>)
  BY UpwardIs
<1>3. Sibling!Settled(id) \subseteq items[id]
  BY DEF Sibling!Settled
<1>4. \A row, states : z \in Made(id, n, row, states) => z.node = n
  BY DEF Made, Sibling!Item
<1>5. Len(kids) = 1 => place = 1
  BY <1>1
<1>6. \/ Len(kids) = 1 /\ \E y \in items[id] : y.node = kids[1] /\ z \in Made(id, n, y.row, <<y.state>>)
      \/ Len(kids) = 2 /\ \E y, w \in items[id] : /\ y.node = kids[1] /\ w.node = kids[2]
                                                  /\ z \in Made(id, n, y.row \o w.row, <<y.state, w.state>>)
  <2>. HIDE DEF kids, place, n
  <2>. QED  BY <1>1, <1>2, <1>3, <1>5
<1>7. z.node = n
  <2>. HIDE DEF kids, place, n
  <2>. QED  BY <1>4, <1>6
<1>8. MadeOf(id, n, items[id], z)
  BY <1>6, Zenon DEF MadeOf
<1>. QED  BY <1>1, <1>7, <1>8 DEF ItemFollows

LEMMA ChartsPropagate ==
  ASSUME IndexFits(decomp), SiblingOnce, TermCharts, NEW x \in scheduled, Sibling!Propagate(x), pc' = "propagate",
         NEW id, id = group[1]
  PROVE  TermCharts'
<1>1. /\ UNCHANGED <<left, hom, decomp, product_pairs, initialized, current, queue, todo, group>>
      /\ pc = "propagate"
      /\ IF x.node = Root THEN scheduled' = scheduled \ {x} /\ UNCHANGED items
         ELSE /\ items' = [items EXCEPT ![id] = @ \cup Sibling!Upward(id, x)]
              /\ scheduled' = (scheduled \ {x}) \cup (Sibling!Upward(id, x) \ items[id])
  BY SiblingTerms DEF Sibling!Propagate, Sibling!GiveUp, Sibling!input, Sibling!chart, Sibling!position
<1>2. /\ id \in Sibling!Programs /\ Sibling!IsBinary(id) /\ id \in DOMAIN Terms /\ Sibling!HasSiblingIndexes(id)
      /\ scheduled \subseteq items[id] /\ ItemOK(id, x) /\ x \in items[id]
  BY <1>1, ProgramIsTerm DEF SiblingOnce, PlaceFits, GroupFits, ItemsFit, TermCharts
<1>3. PICK made : made = IF x.node = Root THEN {} ELSE Sibling!Upward(id, x)
  OBVIOUS
<1>4. /\ items'[id] = items[id] \cup made /\ \A k \in DOMAIN Terms \ {id} : items'[k] = items[k]
      /\ \A k \in DOMAIN Terms : items[k] \subseteq items'[k]
      /\ scheduled' = (scheduled \ {x}) \cup (made \ items[id])
  BY <1>1, <1>2, <1>3 DEF SiblingOnce, ItemsFit
<1>5. x.node \in DOMAIN Terms[id]
  BY <1>2 DEF ItemOK
<1>6. Done' = Done /\ Pairs' = Pairs
  BY <1>1 DEF Done, Pairs, Ids, Range
<1>7. QueueFits' /\ GroupIsPair'
  BY <1>1, <1>6 DEF TermCharts, QueueFits, GroupIsPair
<1>8. initialized' \subseteq Sibling!Programs' /\ \A k \in Sibling!Programs' : Sibling!HasSiblingIndexes(k)'
  BY <1>1, ProgramsKept DEF TermCharts, Sibling!HasSiblingIndexes
<1>9. \A g : Unfed(g) <=> Unfed(g)'
  BY <1>1 DEF Unfed
<1>10. ItemsSound'
  <2>. SUFFICES ASSUME NEW k \in DOMAIN Terms, NEW y \in items'[k] PROVE (k \in initialized /\ ItemFollows(k, y))'
    BY DEF ItemsSound
  <2>1. k \in initialized /\ ItemFollows(k, y)
    <3>1. CASE y \in items[k]
      BY <3>1 DEF TermCharts, ItemsSound
    <3>2. CASE y \notin items[k]
      <4>1. k = id /\ y \in made
        BY <1>4, <3>2
      <4>2. x.node # Root /\ y \in Sibling!Upward(id, x)
        BY <1>3, <4>1
      <4>3. ItemFollows(id, y)
        BY <1>2, <1>5, <4>2, UpwardFollows
      <4>4. id \in initialized
        BY <1>2 DEF TermCharts, ItemsSound
      <4>. QED  BY <4>1, <4>3, <4>4
    <3>. QED  BY <3>1, <3>2
  <2>. QED  BY <1>1, <1>4, <1>6, <2>1, FollowsStill
<1>11. \A k : Unsettled(k) = (IF k = id THEN scheduled ELSE {}) /\ Unsettled(k)' = IF k = id THEN scheduled' ELSE {}
  <2>1. group'[1] = id
    BY <1>1
  <2>. QED  BY <1>1, <2>1 DEF Unsettled
<1>12. items'[id] \ Unsettled(id)' = Sibling!Settled(id) \cup {x} /\ items[id] \ Unsettled(id) = Sibling!Settled(id)
  BY <1>2, <1>4, <1>11 DEF Sibling!Settled
<1>13. ItemsClosed'
  <2>. SUFFICES ASSUME NEW k \in initialized', NEW n \in DOMAIN Terms[k], NEW z, IsOperation(Terms[k], n),
                       MadeOf(k, n, items[k] \ Unsettled(k), z)'
                PROVE  z \in items'[k]
    BY DEF ItemsClosed
  <2>1. PICK S : S = items'[k] \ Unsettled(k)'
    OBVIOUS
  <2>2. MadeOf(k, n, S, z)'
    BY <2>1 DEF MadeOf
  <2>3. MadeOf(k, n, S, z)
    BY <1>1, <2>2, MadeKept
  <2>4. k \in DOMAIN Terms /\ k \in initialized
    BY <1>1, ProgramIsTerm DEF TermCharts, SiblingOnce
  <2>5. CASE k # id
    <3>1. S = items[k] \ Unsettled(k)
      BY <1>4, <1>11, <2>1, <2>4, <2>5
    <3>. QED  BY <1>4, <2>3, <2>4, <3>1 DEF TermCharts, ItemsClosed
  <2>6. CASE k = id
    <3>1. MadeOf(id, n, Sibling!Settled(id) \cup {x}, z)
      BY <1>12, <2>1, <2>3, <2>6
    <3>2. MadeOf(id, n, Sibling!Settled(id), z) \/ (x.node # Root /\ z \in Sibling!Upward(id, x))
      <4>1. CASE x.node = Root
        <5>1. \A i \in DOMAIN Children(Terms[id], n) : Children(Terms[id], n)[i] # x.node
          BY <1>2, <2>6, <4>1, TermIs
        <5>2. PICK T : T = Sibling!Settled(id)
          OBVIOUS
        <5>3. MadeOf(id, n, T, z)
          BY <1>2, <2>6, <3>1, <5>1, <5>2, MadeWithout
        <5>. QED  BY <5>2, <5>3
      <4>2. CASE x.node # Root
        BY <1>2, <1>5, <2>6, <3>1, <4>2, MadeWith
      <4>. QED  BY <4>1, <4>2
    <3>3. MadeOf(id, n, Sibling!Settled(id), z) => z \in items[id]
      BY <1>12, <2>4, <2>6 DEF TermCharts, ItemsClosed
    <3>. QED  BY <1>3, <1>4, <2>6, <3>2, <3>3
  <2>. QED  BY <2>5, <2>6
<1>14. StatesFed'
  <2>. SUFFICES ASSUME NEW p \in Done, NEW k, NEW u, <<k, u>> \in Sibling!Groups(p[1])'
                PROVE  FedItem(k, u, p[2])' \in items'[k] \/ (p = current /\ Unfed(<<k, u>>)')
    BY <1>1, <1>6 DEF StatesFed
  <2>1. <<k, u>> \in Sibling!Groups(p[1])
    BY <1>1, GroupsKept
  <2>2. FedItem(k, u, p[2])' = FedItem(k, u, p[2])
    BY DEF FedItem
  <2>3. k \in DOMAIN Terms
    <3>1. k \in Sibling!Programs
      BY <2>1 DEF Sibling!Groups, Sibling!Programs
    <3>. QED  BY <3>1, ProgramIsTerm DEF SiblingOnce
  <2>. QED  BY <1>4, <1>9, <2>1, <2>2, <2>3 DEF TermCharts, StatesFed
<1>15. GroupsWait'
  <2>. SUFFICES ASSUME NEW k, NEW u, Unfed(<<k, u>>)', u # 0
                PROVE  (current \in Done /\ <<k, u>> \in Sibling!Groups(current[1]))'
    BY DEF GroupsWait
  <2>1. current \in Done /\ <<k, u>> \in Sibling!Groups(current[1])
    BY <1>9 DEF TermCharts, GroupsWait
  <2>2. Sibling!Groups(current[1])' = Sibling!Groups(current[1])
    BY <1>1, ProgramsKept DEF Sibling!Groups
  <2>. QED  BY <1>1, <1>6, <2>1, <2>2
<1>. QED  BY <1>1, <1>7, <1>8, <1>10, <1>13, <1>14, <1>15 DEF TermCharts

LEMMA SiblingOnceInit ==
  ASSUME Init
  PROVE  SiblingOnce
<1>1. PICK job \in Jobs : left = job.left /\ hom = job.input.hom
  BY DEF Init
<1>2. /\ left \in Lefts /\ product_pairs = <<>> /\ rules = {} /\ ~duplicate
      /\ pc = "start" /\ items = [id \in DOMAIN Terms |-> {}] /\ scheduled = {} /\ todo = {}
      /\ new_roots = {} /\ tries = {} /\ emitted = {}
  BY DEF Init, TopDown!Init, TopDown!InitChart, Sibling!Init
<1>3. Numbered /\ Ids = {}
  BY <1>2 DEF Numbered, Ids, Pairs
<1>4. ProgramsFit
  BY <1>1, ImagesKeepArity DEF ProgramsFit, Sibling!Interpreted, Sibling!Program
<1>5. ItemsFit /\ RootsFit /\ RulesFit /\ PlaceFits
  BY <1>2, <1>3 DEF ItemsFit, RootsFit, RulesFit, PlaceFits
<1>. QED  BY <1>4, <1>5 DEF SiblingOnce

LEMMA SiblingUntouched ==
  ASSUME SiblingOnce, UNCHANGED <<left, hom, product_pairs, rules, duplicate, program_vars>>
  PROVE  SiblingOnce'
<1>1. PlaceFits'
  <2>1. \A id : Sibling!IsBinary(id)' <=> Sibling!IsBinary(id)
    BY DEF Sibling!IsBinary
  <2>. QED  BY <2>1, ProgramsKept DEF SiblingOnce, PlaceFits, program_vars
<1>. QED  BY <1>1, OnceMoved DEF program_vars

LEMMA ChartsStep ==
  ASSUME left \in Lefts, IndexFits(decomp), SiblingOnce, pc \notin {"cancelled", "refused"} => TermCharts, Sibling!Work
  PROVE  pc' \notin {"cancelled", "refused"} => TermCharts'
<1>. SUFFICES ASSUME pc' \notin {"cancelled", "refused"} PROVE TermCharts'
  OBVIOUS
<1>1. CASE Sibling!Start
  <2>1. pc = "start" /\ pc' = "groups"
    BY <1>1 DEF Sibling!Start, Sibling!GiveUp
  <2>. QED  BY <1>1, <2>1, ChartsStart
<1>2. CASE \E g \in todo : Sibling!NextGroup(g[1], g[2])
  BY <1>2, ChartsNextGroup DEF Sibling!NextGroup
<1>3. CASE \E t \in tries : Sibling!TryEmit(t[1], t[2])
  <2>1. PICK t \in tries : Sibling!TryEmit(t[1], t[2])
    BY <1>3
  <2>2. pc \in {"older", "roots"}
    BY <2>1 DEF Sibling!TryEmit
  <2>. QED  BY <2>1, <2>2, ChartsTryEmit
<1>4. CASE Sibling!Activate
  <2>1. pc = "older"
    BY <1>4 DEF Sibling!Activate
  <2>2. PICK id, v, q : id = group[1] /\ v = group[2] /\ q = current[2]
    OBVIOUS
  <2>. QED  BY <1>4, <2>1, <2>2, ChartsActivate
<1>5. CASE \E x \in scheduled : Sibling!Propagate(x)
  <2>1. PICK x \in scheduled : Sibling!Propagate(x)
    BY <1>5
  <2>2. pc = "propagate" /\ pc' = "propagate"
    BY <2>1 DEF Sibling!Propagate, Sibling!GiveUp
  <2>3. PICK id : id = group[1]
    OBVIOUS
  <2>. QED  BY <2>1, <2>2, <2>3, ChartsPropagate
<1>6. CASE Sibling!EndPropagate \/ Sibling!EndGroup \/ Sibling!Finish \/ \E root \in new_roots : Sibling!NextRoot(root)
  <2>1. pc \in {"propagate", "roots", "groups"}
    BY <1>6 DEF Sibling!EndPropagate, Sibling!EndGroup, Sibling!Finish, Sibling!NextRoot
  <2>. QED  BY <1>6, <2>1, ChartsAdvance
<1>7. CASE Sibling!Pop
  <2>1. pc = "groups" /\ pc' = "groups"
    BY <1>7 DEF Sibling!Pop, Sibling!GiveUp
  <2>. QED  BY <1>7, <2>1, ChartsPop
<1>. QED  BY <1>1, <1>2, <1>3, <1>4, <1>5, <1>6, <1>7 DEF Sibling!Work

(* The decomposition automata of the sibling jobs fit the sibling indexes.  *)
SiblingIndexesFit == \A job \in Jobs : job.strategy = "sibling" => IndexFits(job.input.decomp)

ItemsSafe ==
    IF strategy = "sibling"
      THEN /\ left \in Lefts /\ IndexFits(decomp) /\ SiblingOnce
           /\ pc \notin {"cancelled", "refused"} => TermCharts
      ELSE pc = "start"

LEMMA ItemsInit ==
  ASSUME SiblingIndexesFit, Init
  PROVE  ItemsSafe
<1>1. /\ left \in Lefts /\ product_pairs = <<>> /\ rules = {} /\ ~duplicate
      /\ pc = "start" /\ items = [id \in DOMAIN Terms |-> {}] /\ initialized = {} /\ scheduled = {} /\ queue = <<>>
      /\ todo = {} /\ new_roots = {} /\ tries = {} /\ emitted = {}
  BY DEF Init, TopDown!Init, TopDown!InitChart, Sibling!Init
<1>2. strategy = "sibling" => IndexFits(decomp)
  BY DEF Init, SiblingIndexesFit
<1>3. TermCharts
  <2>1. Pairs = {} /\ Done = {}
    BY <1>1 DEF Pairs, Ids, Done
  <2>2. QueueFits
    BY <1>1 DEF QueueFits
  <2>3. ItemsSound /\ ItemsClosed
    BY <1>1 DEF ItemsSound, ItemsClosed
  <2>4. StatesFed /\ GroupsWait
    BY <1>1, <2>1 DEF StatesFed, GroupsWait, Unfed
  <2>. QED  BY <1>1, <2>2, <2>3, <2>4 DEF TermCharts, GroupIsPair
<1>. QED  BY <1>1, <1>2, <1>3, SiblingOnceInit DEF ItemsSafe

LEMMA ChartsUntouched ==
  ASSUME TermCharts, UNCHANGED <<left, hom, decomp, product_pairs, program_vars>>
  PROVE  TermCharts'
<1>1. UNCHANGED <<pc, items, initialized, scheduled, queue, current, todo, group>>
  BY DEF program_vars
<1>2. Done' = Done /\ Pairs' = Pairs
  BY <1>1 DEF Done, Pairs, Ids, Range
<1>3. QueueFits' /\ GroupIsPair'
  BY <1>1, <1>2 DEF TermCharts, QueueFits, GroupIsPair
<1>4. \A id : Unsettled(id)' = Unsettled(id)
  BY <1>1 DEF Unsettled
<1>5. \A g : Unfed(g)' <=> Unfed(g)
  BY <1>1 DEF Unfed
<1>6. CASE pc # "start"
  BY <1>1, <1>2, <1>3, <1>4, <1>5, <1>6, ChartsStill DEF TermCharts
<1>7. CASE pc = "start"
  <2>1. initialized' \subseteq Sibling!Programs'
    BY <1>1, ProgramsKept DEF TermCharts
  <2>2. ItemsSound' /\ ItemsClosed'
    BY <1>1, <1>2, <1>4, FollowsStill, ClosedStill DEF TermCharts, ItemsSound
  <2>3. Pairs = {}
    BY <1>7 DEF TermCharts, Pairs, Ids
  <2>4. StatesFed'
    BY <1>2, <2>3 DEF StatesFed, Done
  <2>5. GroupsWait'
    BY <1>1, <1>2, <1>5, <2>3 DEF TermCharts, GroupsWait, Done
  <2>. QED  BY <1>1, <1>3, <1>7, <2>1, <2>2, <2>4, <2>5 DEF TermCharts
<1>. QED  BY <1>6, <1>7

LEMMA ItemsStep ==
  ASSUME ItemsSafe, [Next]_vars
  PROVE  ItemsSafe'
<1>1. strategy' = strategy
  BY DEF Next, vars, ParseTopDown, ParseWithSiblings, FilterChart, MaterializeLazily, Cancel
<1>2. CASE ParseWithSiblings
  <2>1. strategy = "sibling" /\ Sibling!Work
    BY <1>2 DEF ParseWithSiblings
  <2>2. left' = left /\ decomp' = decomp
    BY <2>1 DEF Sibling!Work, Sibling!Start, Sibling!NextGroup, Sibling!TryEmit, Sibling!Activate,
         Sibling!Propagate, Sibling!EndPropagate, Sibling!NextRoot, Sibling!EndGroup, Sibling!Pop,
         Sibling!Finish, Sibling!GiveUp, Sibling!input
  <2>3. SiblingOnce'
    BY <2>1, SiblingOnceStep DEF ItemsSafe
  <2>4. pc' \notin {"cancelled", "refused"} => TermCharts'
    BY <2>1, ChartsStep DEF ItemsSafe
  <2>5. IndexFits(decomp)'
    BY <2>1, <2>2 DEF ItemsSafe, IndexFits
  <2>. QED  BY <1>1, <2>1, <2>2, <2>3, <2>4, <2>5 DEF ItemsSafe
<1>3. CASE strategy # "sibling" /\ ~ParseWithSiblings
  <2>1. pc' = pc
    BY <1>3 DEF Next, vars, ParseTopDown, FilterChart, MaterializeLazily, Cancel, Sibling!Cancel, program_vars
  <2>. QED  BY <1>1, <1>3, <2>1 DEF ItemsSafe
<1>4. CASE strategy = "sibling" /\ ~ParseWithSiblings
  <2>1. UNCHANGED <<left, decomp, hom, product_pairs, rules, duplicate, program_vars>>
    BY <1>4 DEF Next, vars, ParseTopDown, FilterChart, MaterializeLazily, Cancel, Sibling!Cancel, program_vars,
         Sibling!input, Sibling!chart, Sibling!programs, Sibling!position
  <2>2. SiblingOnce'
    BY <1>4, <2>1, SiblingUntouched DEF ItemsSafe
  <2>3. IndexFits(decomp)'
    BY <1>4, <2>1 DEF ItemsSafe, IndexFits
  <2>4. pc' = pc
    BY <2>1 DEF program_vars
  <2>. QED  BY <1>1, <1>4, <2>1, <2>2, <2>3, <2>4, ChartsUntouched DEF ItemsSafe
<1>. QED  BY <1>2, <1>3, <1>4

(* What the invariant says between two product states. *)
LEMMA ChartsExact ==
  ASSUME ItemsSafe, pc = "groups", todo = {}, NEW id \in initialized, NEW n \in DOMAIN Terms[id], NEW x
  PROVE  x \in items[id] /\ x.node = n <=> x \in Sibling!Derived(id, n)
<1>1. TermCharts /\ SiblingOnce /\ left \in Lefts
  BY DEF ItemsSafe
<1>2. id \in DOMAIN Terms /\ Sibling!IsBinary(id) /\ \A y \in items[id] : ItemOK(id, y)
  BY <1>1, ProgramIsTerm DEF TermCharts, SiblingOnce, PlaceFits, ItemsFit
<1>3. Unsettled(id) = {} /\ \A g : ~Unfed(g)
  BY DEF Unsettled, Unfed
<1>4. CASE IsOperation(Terms[id], n)
  <2>1. x \in Sibling!Derived(id, n) <=> MadeOf(id, n, items[id], x)
    BY <1>2, <1>4, DerivedIs DEF ItemOK
  <2>2. x \in items[id] /\ x.node = n => MadeOf(id, n, items[id], x)
    BY <1>1, <1>2, <1>4 DEF TermCharts, ItemsSound, ItemFollows
  <2>3. items[id] \ Unsettled(id) = items[id]
    BY <1>3
  <2>4. MadeOf(id, n, items[id], x) => x \in items[id]
    BY <1>1, <1>4, <2>3 DEF TermCharts, ItemsClosed
  <2>5. MadeOf(id, n, items[id], x) => x.node = n
    <3>1. \A row, states : x \in Made(id, n, row, states) => x.node = n
      BY DEF Made, Sibling!Item
    <3>. QED  BY <3>1, Zenon DEF MadeOf
  <2>. QED  BY <2>1, <2>2, <2>4, <2>5
<1>5. CASE ~IsOperation(Terms[id], n)
  <2>. DEFINE v == Terms[id][n].variable
  <2>1. x \in Sibling!Derived(id, n) <=> \E q \in Sibling!Activated(id, v) : x = Sibling!Item(n, q, <<q>>)
    BY <1>5, SiblingTerms DEF Sibling!Derived
  <2>2. x \in Sibling!Derived(id, n) <=> \E q : FedTo(id, v, q) /\ x = Sibling!Item(n, q, <<q>>)
    BY <2>1, ActivatedIs
  <2>3. ASSUME x \in items[id], x.node = n PROVE x \in Sibling!Derived(id, n)
    BY <1>1, <1>2, <1>5, <2>2, <2>3 DEF TermCharts, ItemsSound, ItemFollows
  <2>4. ASSUME NEW q, FedTo(id, v, q), x = Sibling!Item(n, q, <<q>>) PROVE x \in items[id] /\ x.node = n
    <3>1. PICK p \in Done : p[2] = q /\ <<id, v>> \in Sibling!Groups(p[1])
      BY <2>4 DEF FedTo
    <3>2. FedItem(id, v, q) \in items[id]
      BY <1>1, <1>3, <3>1 DEF TermCharts, StatesFed
    <3>3. Sibling!VariableNode(Terms[id], v) = n
      <4>1. VariableNode(Terms[id], v) \in DOMAIN Terms[id] /\ Terms[id][VariableNode(Terms[id], v)].variable = v
        BY DEF VariableNode
      <4>2. VariableNode(Terms[id], v) = n
        BY <1>2, <1>5, <4>1, OneVariable
      <4>. QED  BY <4>2, SiblingTerms
    <3>. QED  BY <2>4, <3>2, <3>3 DEF FedItem, Sibling!Item
  <2>. QED  BY <2>2, <2>3, <2>4
<1>. QED  BY <1>4, <1>5

(* Whatever the grammar, the terms and the decomposition automaton, and in  *)
(* whatever order programs, groups and items are taken: between two product *)
(* states the term charts of the sibling finder hold at every node exactly  *)
(* the items that follow from the product states processed so far, provided *)
(* the sibling index of an operation knows all pairs of siblings that it    *)
(* has a rule for.                                                          *)
THEOREM ItemsStayExact ==
  ASSUME SiblingIndexesFit
  PROVE  Spec => []ItemsAreExact
<1>1. ItemsSafe => ItemsAreExact
  <2>. SUFFICES ASSUME ItemsSafe, pc = "groups", todo = {}, NEW id \in initialized, NEW n \in DOMAIN Terms[id]
                PROVE  {x \in items[id] : x.node = n} = Sibling!Derived(id, n)
    BY DEF ItemsAreExact, Sibling!ItemsAreExact
  <2>. QED  BY ChartsExact
<1>2. Init => ItemsSafe
  BY ItemsInit
<1>3. ItemsSafe /\ [Next]_vars => ItemsSafe'
  BY ItemsStep
<1>. QED  BY <1>1, <1>2, <1>3, PTL DEF Spec

(* The built-in string algebras fit their sibling indexes, whatever the     *)
(* sentence is.                                                             *)
LEMMA SpanSlots ==
  ASSUME NEW q, IsSpan(q)
  PROVE  /\ \A f \in {"*", "*CONC11*", "*CONC12*"} : Slot(f, 1, q) = <<q[2]>>
         /\ \A f \in {"*", "*CONC11*", "*CONC21*"} : Slot(f, 2, q) = <<q[1]>>
         /\ Slot("*WRAP21*", 2, q) = <<q[1], q[2]>>
BY DEF Slot, IsSpan, IsPair

LEMMA PairSlots ==
  ASSUME NEW q, IsPair(q)
  PROVE  /\ Slot("*CONC12*", 2, q) = <<q[1]>> /\ Slot("*CONC21*", 1, q) = <<q[4]>>
         /\ \A f \in {"*WRAP21*", "*WRAP22*"} : Slot(f, 1, q) = <<q[2], q[3]>>
         /\ Slot("*WRAP22*", 2, q) = <<q[1], q[4]>>
BY DEF Slot, IsSpan, IsPair

LEMMA TagStates ==
  ASSUME NEW n \in Nat
  PROVE  /\ \A q \in Spans(n) : IsSpan(q)
         /\ \A q \in TagSpans(n) : IsSpan(q)
         /\ \A q \in TagPairs(n) : IsPair(q)
<1>1. \A q \in Spans(n) \cup TagSpans(n) : IsSpan(q)
  BY DEF Spans, TagSpans, IsSpan
<1>2. \A q \in TagPairs(n) : IsPair(q)
  BY DEF TagPairs, IsPair
<1>. QED  BY <1>1, <1>2

LEMMA ConstantRules ==
  ASSUME NEW words, NEW n \in Nat, NEW r, Len(r.children) = 2
  PROVE  r \notin WordRules(words) /\ r \notin TagConstantRules(n)
<1>1. \A w \in WordRules(words) : w.children = <<>>
  BY DEF WordRules, Rule
<1>2. \A w \in TagConstantRules(n) : w.children = <<>>
  BY DEF TagConstantRules, Rule
<1>3. r.children # <<>>
  OBVIOUS
<1>. QED  BY <1>1, <1>2, <1>3

LEMMA StringIndexFits ==
  ASSUME NEW words, Len(words) \in Nat
  PROVE  IndexFits(StringDecomposition(words))
<1>. DEFINE spans == Spans(Len(words))
<1>. SUFFICES ASSUME NEW r \in StringDecomposition(words).rules, Len(r.children) = 2
              PROVE  Compatible(r.symbol, r.children[1], r.children[2])
  BY DEF IndexFits
<1>1. r \notin WordRules(words)
  BY ConstantRules
<1>2. PICK p \in {x \in spans \X spans : x[1][2] = x[2][1]} : r = Rule("*", <<p[1], p[2]>>, <<p[1][1], p[2][2]>>)
  BY <1>1 DEF StringDecomposition
<1>3. r.symbol = "*" /\ r.children[1] = p[1] /\ r.children[2] = p[2]
  BY <1>2 DEF Rule
<1>4. IsSpan(p[1]) /\ IsSpan(p[2]) /\ p[1][2] = p[2][1]
  BY <1>2, TagStates
<1>5. Slot("*", 1, p[1]) = <<p[1][2]>> /\ Slot("*", 2, p[2]) = <<p[2][1]>>
  BY <1>4, SpanSlots
<1>. QED  BY <1>3, <1>4, <1>5 DEF Compatible

LEMMA TagIndexFits ==
  ASSUME NEW words, Len(words) \in Nat
  PROVE  IndexFits(TagStringDecomposition(words))
<1>. DEFINE one == TagSpans(Len(words))
            two == TagPairs(Len(words))
<1>. SUFFICES ASSUME NEW r \in TagStringDecomposition(words).rules, Len(r.children) = 2
              PROVE  Compatible(r.symbol, r.children[1], r.children[2])
  BY DEF IndexFits
<1>1. r \in TagBinaryRules(Len(words))
  <2>1. r \notin WordRules(words) /\ r \notin TagConstantRules(Len(words))
    BY ConstantRules
  <2>. QED  BY <2>1 DEF TagStringDecomposition
<1>2. /\ \A q \in one : IsSpan(q)
      /\ \A q \in two : IsPair(q)
  BY TagStates
<1>3. CASE \E x \in one \X one : x[1][2] = x[2][1] /\ r.symbol = "*CONC11*" /\ r.children = x
  <2>1. PICK x \in one \X one : x[1][2] = x[2][1] /\ r.symbol = "*CONC11*" /\ r.children = x
    BY <1>3
  <2>2. Slot("*CONC11*", 1, x[1]) = <<x[1][2]>> /\ Slot("*CONC11*", 2, x[2]) = <<x[2][1]>>
    BY <1>2, SpanSlots
  <2>3. r.symbol = "*CONC11*" /\ r.children[1] = x[1] /\ r.children[2] = x[2]
    BY <2>1
  <2>4. Slot(r.symbol, 1, r.children[1]) = <<x[1][2]>> /\ Slot(r.symbol, 2, r.children[2]) = <<x[2][1]>>
    BY <2>2, <2>3, Zenon
  <2>5. <<x[1][2]>> = <<x[2][1]>> /\ <<x[1][2]>> # <<>>
    <3>1. <<x[1][2]>> = <<x[2][1]>>
      BY <2>1, Zenon
    <3>2. <<x[1][2]>> # <<>>
      OBVIOUS
    <3>. QED  BY <3>1, <3>2, Zenon
  <2>. QED  BY <2>4, <2>5, Zenon DEF Compatible
<1>4. CASE \E x \in one \X two : x[1][2] = x[2][1] /\ r.symbol = "*CONC12*" /\ r.children = x
  <2>1. PICK x \in one \X two : x[1][2] = x[2][1] /\ r.symbol = "*CONC12*" /\ r.children = x
    BY <1>4
  <2>2. Slot("*CONC12*", 1, x[1]) = <<x[1][2]>> /\ Slot("*CONC12*", 2, x[2]) = <<x[2][1]>>
    BY <1>2, SpanSlots, PairSlots
  <2>3. r.symbol = "*CONC12*" /\ r.children[1] = x[1] /\ r.children[2] = x[2]
    BY <2>1
  <2>4. Slot(r.symbol, 1, r.children[1]) = <<x[1][2]>> /\ Slot(r.symbol, 2, r.children[2]) = <<x[2][1]>>
    BY <2>2, <2>3, Zenon
  <2>5. <<x[1][2]>> = <<x[2][1]>> /\ <<x[1][2]>> # <<>>
    <3>1. <<x[1][2]>> = <<x[2][1]>>
      BY <2>1, Zenon
    <3>2. <<x[1][2]>> # <<>>
      OBVIOUS
    <3>. QED  BY <3>1, <3>2, Zenon
  <2>. QED  BY <2>4, <2>5, Zenon DEF Compatible
<1>5. CASE \E x \in two \X one : x[1][4] = x[2][1] /\ r.symbol = "*CONC21*" /\ r.children = x
  <2>1. PICK x \in two \X one : x[1][4] = x[2][1] /\ r.symbol = "*CONC21*" /\ r.children = x
    BY <1>5
  <2>2. Slot("*CONC21*", 1, x[1]) = <<x[1][4]>> /\ Slot("*CONC21*", 2, x[2]) = <<x[2][1]>>
    BY <1>2, SpanSlots, PairSlots
  <2>3. r.symbol = "*CONC21*" /\ r.children[1] = x[1] /\ r.children[2] = x[2]
    BY <2>1
  <2>4. Slot(r.symbol, 1, r.children[1]) = <<x[1][4]>> /\ Slot(r.symbol, 2, r.children[2]) = <<x[2][1]>>
    BY <2>2, <2>3, Zenon
  <2>5. <<x[1][4]>> = <<x[2][1]>> /\ <<x[1][4]>> # <<>>
    <3>1. <<x[1][4]>> = <<x[2][1]>>
      BY <2>1, Zenon
    <3>2. <<x[1][4]>> # <<>>
      OBVIOUS
    <3>. QED  BY <3>1, <3>2, Zenon
  <2>. QED  BY <2>4, <2>5, Zenon DEF Compatible
<1>6. CASE \E x \in two \X one : /\ x[1][2] = x[2][1] /\ x[2][2] = x[1][3]
                                 /\ r.symbol = "*WRAP21*" /\ r.children = x
  <2>1. PICK x \in two \X one : x[1][2] = x[2][1] /\ x[2][2] = x[1][3] /\ r.symbol = "*WRAP21*" /\ r.children = x
    BY <1>6
  <2>2. Slot("*WRAP21*", 1, x[1]) = <<x[1][2], x[1][3]>> /\ Slot("*WRAP21*", 2, x[2]) = <<x[2][1], x[2][2]>>
    BY <1>2, SpanSlots, PairSlots
  <2>3. r.symbol = "*WRAP21*" /\ r.children[1] = x[1] /\ r.children[2] = x[2]
    BY <2>1
  <2>4. Slot(r.symbol, 1, r.children[1]) = <<x[1][2], x[1][3]>> /\ Slot(r.symbol, 2, r.children[2]) = <<x[2][1], x[2][2]>>
    BY <2>2, <2>3, Zenon
  <2>5. <<x[1][2], x[1][3]>> = <<x[2][1], x[2][2]>> /\ <<x[1][2], x[1][3]>> # <<>>
    <3>1. <<x[1][2], x[1][3]>> = <<x[2][1], x[2][2]>>
      BY <2>1, Zenon
    <3>2. <<x[1][2], x[1][3]>> # <<>>
      OBVIOUS
    <3>. QED  BY <3>1, <3>2, Zenon
  <2>. QED  BY <2>4, <2>5, Zenon DEF Compatible
<1>7. CASE \E x \in two \X two : /\ x[1][2] = x[2][1] /\ x[2][4] = x[1][3]
                                 /\ r.symbol = "*WRAP22*" /\ r.children = x
  <2>1. PICK x \in two \X two : x[1][2] = x[2][1] /\ x[2][4] = x[1][3] /\ r.symbol = "*WRAP22*" /\ r.children = x
    BY <1>7
  <2>2. Slot("*WRAP22*", 1, x[1]) = <<x[1][2], x[1][3]>> /\ Slot("*WRAP22*", 2, x[2]) = <<x[2][1], x[2][4]>>
    BY <1>2, PairSlots
  <2>3. r.symbol = "*WRAP22*" /\ r.children[1] = x[1] /\ r.children[2] = x[2]
    BY <2>1
  <2>4. Slot(r.symbol, 1, r.children[1]) = <<x[1][2], x[1][3]>> /\ Slot(r.symbol, 2, r.children[2]) = <<x[2][1], x[2][4]>>
    BY <2>2, <2>3, Zenon
  <2>5. <<x[1][2], x[1][3]>> = <<x[2][1], x[2][4]>> /\ <<x[1][2], x[1][3]>> # <<>>
    <3>1. <<x[1][2], x[1][3]>> = <<x[2][1], x[2][4]>>
      BY <2>1, Zenon
    <3>2. <<x[1][2], x[1][3]>> # <<>>
      OBVIOUS
    <3>. QED  BY <3>1, <3>2, Zenon
  <2>. QED  BY <2>4, <2>5, Zenon DEF Compatible
<1>. QED  BY <1>1, <1>3, <1>4, <1>5, <1>6, <1>7 DEF TagBinaryRules, Rule

(* For parses of sentences with the built-in string algebras, which are the *)
(* ones with sibling indexes, nothing needs to be provided.                 *)
StringInputsOnly ==
    \A job \in Jobs : job.strategy = "sibling" =>
        \E words : Len(words) \in Nat /\ job.input.decomp \in {StringDecomposition(words), TagStringDecomposition(words)}

COROLLARY StringItemsStayExact ==
  ASSUME StringInputsOnly
  PROVE  Spec => []ItemsAreExact
<1>1. SiblingIndexesFit
  BY StringIndexFits, TagIndexFits DEF StringInputsOnly, SiblingIndexesFit
<1>. QED  BY <1>1, ItemsStayExact

=============================================================================
