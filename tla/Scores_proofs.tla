----------------------------- MODULE Scores_proofs -----------------------------
(***************************************************************************)
(* Facts about the scores of rules and about best scores, for any states,  *)
(* rules and costs.                                                        *)
(***************************************************************************)
EXTENDS Scores, WellFoundedInduction, FiniteSetTheorems, TLAPS

LEMMA LeastElement ==
  ASSUME NEW T, T \subseteq Nat, T # {}
  PROVE  \E m \in T : \A k \in T : m <= k
<1>1. PICK m \in T : \A k \in T : ~(<<k, m>> \in OpToRel(<, Nat))
  BY NatLessThanWellFounded, WFMin
<1>2. \A k \in T : k \in Nat /\ m \in Nat
  OBVIOUS
<1>3. \A k \in T : ~(k < m)
  BY <1>1, <1>2, Zenon DEF OpToRel
<1>. QED  BY <1>2, <1>3

LEMMA GreatestElement ==
  ASSUME NEW bound \in Nat, NEW T, T \subseteq 0..bound, T # {}
  PROVE  \E m \in T : \A k \in T : k <= m
<1>. DEFINE U == {bound - k : k \in T}
<1>0. \A k \in T : k \in 0..bound /\ bound - k \in Nat
  <2>. TAKE k \in T
  <2>1. k \in 0..bound
    OBVIOUS
  <2>. QED  BY <2>1
<1>1. U \subseteq Nat /\ U # {}
  BY <1>0, Zenon
<1>2. PICK u \in U : \A v \in U : u <= v
  BY <1>1, LeastElement
<1>3. PICK m \in T : u = bound - m
  OBVIOUS
<1>4. \A k \in T : bound - m <= bound - k
  BY <1>2, <1>3
<1>. QED  BY <1>0, <1>4

(* Induction over the numbers, for a set. *)
LEMMA SetInduction ==
  ASSUME NEW T, 0 \in T, \A n \in Nat : n \in T => n + 1 \in T
  PROVE  Nat \subseteq T
<1>. SUFFICES ASSUME Nat \ T # {} PROVE FALSE
  OBVIOUS
<1>1. PICK m \in Nat \ T : \A k \in Nat \ T : m <= k
  BY LeastElement
<1>2. m # 0 /\ m - 1 \in Nat /\ ~(m <= m - 1)
  BY <1>1
<1>3. m - 1 \in T
  BY <1>1, <1>2
<1>4. (m - 1) + 1 \in T
  BY <1>2, <1>3
<1>. QED  BY <1>1, <1>4

-----------------------------------------------------------------------------
(* The recursive definition of PartialCosts defines a function. *)
LEMMA PartialCostsDef ==
  ASSUME NEW rule, rule.children \in Seq(Nodes), NEW score
  PROVE  LET sum == PartialCosts(rule, score)
         IN  sum = [i \in 0..Len(rule.children) |->
                       IF i = 0 THEN rule.cost ELSE sum[i - 1] + score[rule.children[i]]]
<1>. DEFINE term(i) == score[rule.children[i]]
            Defines(f, m) == f = [i \in 0..m |-> IF i = 0 THEN rule.cost ELSE f[i - 1] + term(i)]
            T == {m \in Nat : \E f : Defines(f, m)}
<1>1. 0 \in T
  <2>. DEFINE g == [i \in 0..0 |-> rule.cost]
  <2>1. Defines(g, 0)
    OBVIOUS
  <2>. QED  BY <2>1
<1>2. ASSUME NEW m \in Nat, m \in T PROVE m + 1 \in T
  <2>1. PICK f : Defines(f, m)
    BY <1>2
  <2>. DEFINE g == [i \in 0..(m + 1) |-> IF i = m + 1 THEN f[m] + term(m + 1) ELSE f[i]]
  <2>2. ASSUME NEW i \in 0..(m + 1)
        PROVE  g[i] = IF i = 0 THEN rule.cost ELSE g[i - 1] + term(i)
    <3>1. CASE i = m + 1
      <4>1. i # 0 /\ i - 1 = m /\ m \in 0..(m + 1) /\ m # m + 1
        BY <3>1
      <4>. QED  BY <3>1, <4>1
    <3>2. CASE i # m + 1
      <4>1. i \in 0..m /\ (i # 0 => i - 1 \in 0..(m + 1) /\ i - 1 # m + 1 /\ i - 1 \in 0..m)
        BY <3>2
      <4>2. f[i] = IF i = 0 THEN rule.cost ELSE f[i - 1] + term(i)
        BY <2>1, <4>1
      <4>. QED  BY <3>2, <4>1, <4>2
    <3>. QED  BY <3>1, <3>2
  <2>3. Defines(g, m + 1)
    BY <2>2
  <2>. HIDE DEF g, Defines
  <2>. QED  BY <2>3
<1>3. Nat \subseteq T
  <2>. HIDE DEF T
  <2>. QED  BY <1>1, <1>2, SetInduction
<1>4. \E f : Defines(f, Len(rule.children))
  <2>. HIDE DEF Defines
  <2>. QED  BY <1>3
<1>5. PartialCosts(rule, score) = CHOOSE f : Defines(f, Len(rule.children))
  BY DEF PartialCosts
<1>6. Defines(PartialCosts(rule, score), Len(rule.children))
  <2>. HIDE DEF Defines
  <2>. QED  BY <1>4, <1>5
<1>. QED  BY <1>6

(* The same, place by place. *)
LEMMA PartialCostsStep ==
  ASSUME NEW rule, rule.children \in Seq(Nodes), NEW score
  PROVE  /\ PartialCosts(rule, score)[0] = rule.cost
         /\ \A i \in 1..Len(rule.children) :
               PartialCosts(rule, score)[i] = PartialCosts(rule, score)[i - 1] + score[rule.children[i]]
<1>1. Len(rule.children) \in Nat
  OBVIOUS
<1>2. \A i \in 0..Len(rule.children) :
         PartialCosts(rule, score)[i] = IF i = 0 THEN rule.cost
                                        ELSE PartialCosts(rule, score)[i - 1] + score[rule.children[i]]
  BY PartialCostsDef
<1>. QED  BY <1>1, <1>2

LEMMA ChildrenAreNodes ==
  ASSUME NEW rule, rule.children \in Seq(Nodes)
  PROVE  /\ Len(rule.children) \in Nat
         /\ DOMAIN rule.children = 1..Len(rule.children)
         /\ \A i \in 1..Len(rule.children) : rule.children[i] \in Nodes
         /\ Range(rule.children) = {rule.children[i] : i \in 1..Len(rule.children)}
         /\ Range(rule.children) \subseteq Nodes
BY DEF Range

(* Partial costs are numbers, and no child costs more. *)
LEMMA PartialCostsType ==
  ASSUME NEW rule, IsWeighted(rule), NEW score \in [Nodes -> Nat]
  PROVE  \A n \in 0..Len(rule.children) :
            /\ PartialCosts(rule, score)[n] \in Nat
            /\ \A i \in 1..n : score[rule.children[i]] <= PartialCosts(rule, score)[n]
<1>. DEFINE sum == PartialCosts(rule, score)
            len == Len(rule.children)
            Holds(n) == /\ sum[n] \in Nat
                        /\ \A i \in 1..n : score[rule.children[i]] <= sum[n]
            T == {n \in Nat : n \in 0..len => Holds(n)}
<1>1. len \in Nat /\ \A i \in 1..len : score[rule.children[i]] \in Nat
  BY ChildrenAreNodes DEF IsWeighted
<1>2. sum[0] = rule.cost /\ \A i \in 1..len : sum[i] = sum[i - 1] + score[rule.children[i]]
  BY PartialCostsStep DEF IsWeighted
<1>. HIDE DEF sum, len
<1>3. 0 \in T
  BY <1>2, InfinityIsPositive DEF IsWeighted, Costs
<1>4. ASSUME NEW n \in Nat, n \in T PROVE n + 1 \in T
  <2>. SUFFICES ASSUME n + 1 \in 0..len PROVE Holds(n + 1)
    OBVIOUS
  <2>1. n \in 0..len /\ n + 1 \in 1..len /\ (n + 1) - 1 = n
    BY <1>1
  <2>2. sum[n + 1] = sum[n] + score[rule.children[n + 1]] /\ sum[n] \in Nat
        /\ score[rule.children[n + 1]] \in Nat
    BY <1>1, <1>2, <1>4, <2>1
  <2>3. \A i \in 1..n : score[rule.children[i]] <= sum[n] /\ score[rule.children[i]] \in Nat
    BY <1>1, <1>4, <2>1
  <2>4. \A i \in 1..(n + 1) : i \in 1..n \/ i = n + 1
    OBVIOUS
  <2>. QED  BY <2>2, <2>3, <2>4
<1>5. Nat \subseteq T
  <2>. HIDE DEF T
  <2>. QED  BY <1>3, <1>4, SetInduction
<1>. QED  BY <1>1, <1>5 DEF sum, len

(* Better scores of the children make partial costs no worse. *)
LEMMA PartialCostsMonotone ==
  ASSUME NEW rule, IsWeighted(rule),
         NEW score \in [Nodes -> Nat], NEW worse \in [Nodes -> Nat],
         \A q \in Range(rule.children) : score[q] <= worse[q]
  PROVE  \A n \in 0..Len(rule.children) : PartialCosts(rule, score)[n] <= PartialCosts(rule, worse)[n]
<1>. DEFINE a == PartialCosts(rule, score)
            b == PartialCosts(rule, worse)
            len == Len(rule.children)
            T == {n \in Nat : n \in 0..len => a[n] <= b[n]}
<1>1. len \in Nat
      /\ \A i \in 1..len : /\ score[rule.children[i]] \in Nat
                           /\ worse[rule.children[i]] \in Nat
                           /\ score[rule.children[i]] <= worse[rule.children[i]]
  BY ChildrenAreNodes DEF IsWeighted
<1>2. a[0] = rule.cost /\ \A i \in 1..len : a[i] = a[i - 1] + score[rule.children[i]]
  BY PartialCostsStep DEF IsWeighted
<1>3. b[0] = rule.cost /\ \A i \in 1..len : b[i] = b[i - 1] + worse[rule.children[i]]
  BY PartialCostsStep DEF IsWeighted
<1>4. \A n \in 0..len : a[n] \in Nat /\ b[n] \in Nat
  BY PartialCostsType
<1>. HIDE DEF a, b, len
<1>5. 0 \in T
  BY <1>1, <1>2, <1>3, <1>4
<1>6. ASSUME NEW n \in Nat, n \in T PROVE n + 1 \in T
  <2>. SUFFICES ASSUME n + 1 \in 0..len PROVE a[n + 1] <= b[n + 1]
    OBVIOUS
  <2>1. n \in 0..len /\ n + 1 \in 1..len /\ (n + 1) - 1 = n
    BY <1>1
  <2>2. a[n + 1] = a[n] + score[rule.children[n + 1]] /\ b[n + 1] = b[n] + worse[rule.children[n + 1]]
    BY <1>2, <1>3, <2>1
  <2>3. a[n] <= b[n] /\ score[rule.children[n + 1]] <= worse[rule.children[n + 1]]
    BY <1>1, <1>6, <2>1
  <2>. QED  BY <1>1, <1>4, <2>1, <2>2, <2>3
<1>7. Nat \subseteq T
  <2>. HIDE DEF T
  <2>. QED  BY <1>5, <1>6, SetInduction
<1>. QED  BY <1>1, <1>7 DEF a, b, len
(* A better score of one of them makes the partial costs better. *)
LEMMA PartialCostsStrict ==
  ASSUME NEW rule, IsWeighted(rule),
         NEW score \in [Nodes -> Nat], NEW worse \in [Nodes -> Nat],
         \A q \in Range(rule.children) : score[q] <= worse[q],
         NEW j \in 1..Len(rule.children), score[rule.children[j]] < worse[rule.children[j]]
  PROVE  \A n \in j..Len(rule.children) : PartialCosts(rule, score)[n] < PartialCosts(rule, worse)[n]
<1>. DEFINE a == PartialCosts(rule, score)
            b == PartialCosts(rule, worse)
            len == Len(rule.children)
            T == {n \in Nat : n \in j..len => a[n] < b[n]}
<1>1. len \in Nat
      /\ \A i \in 1..len : /\ score[rule.children[i]] \in Nat
                           /\ worse[rule.children[i]] \in Nat
                           /\ score[rule.children[i]] <= worse[rule.children[i]]
  BY ChildrenAreNodes DEF IsWeighted
<1>2. \A i \in 1..len : a[i] = a[i - 1] + score[rule.children[i]]
  BY PartialCostsStep DEF IsWeighted
<1>3. \A i \in 1..len : b[i] = b[i - 1] + worse[rule.children[i]]
  BY PartialCostsStep DEF IsWeighted
<1>4. \A n \in 0..len : a[n] \in Nat /\ b[n] \in Nat /\ a[n] <= b[n]
  BY PartialCostsType, PartialCostsMonotone
<1>. HIDE DEF a, b, len
<1>5. 0 \in T
  OBVIOUS
<1>6. ASSUME NEW n \in Nat, n \in T PROVE n + 1 \in T
  <2>. SUFFICES ASSUME n + 1 \in j..len PROVE a[n + 1] < b[n + 1]
    OBVIOUS
  <2>1. n \in 0..len /\ n + 1 \in 1..len /\ (n + 1) - 1 = n /\ len \in Nat
    BY <1>1
  <2>2. a[n + 1] = a[n] + score[rule.children[n + 1]] /\ b[n + 1] = b[n] + worse[rule.children[n + 1]]
    BY <1>2, <1>3, <2>1
  <2>3. /\ score[rule.children[n + 1]] \in Nat /\ worse[rule.children[n + 1]] \in Nat
        /\ score[rule.children[n + 1]] <= worse[rule.children[n + 1]]
        /\ a[n] \in Nat /\ b[n] \in Nat /\ a[n] <= b[n]
    BY <1>1, <1>4, <2>1
  <2>4. CASE n + 1 = j
    BY <2>2, <2>3, <2>4
  <2>5. CASE n + 1 # j
    <3>1. a[n] < b[n]
      BY <1>6, <2>1, <2>5
    <3>. QED  BY <2>2, <2>3, <3>1
  <2>. QED  BY <2>4, <2>5
<1>7. Nat \subseteq T
  <2>. HIDE DEF T
  <2>. QED  BY <1>5, <1>6, SetInduction
<1>. QED  BY <1>1, <1>7 DEF a, b, len

(* A score that is raised from 0 costs at least that much more, and exactly *)
(* that much if the child is there once.                                    *)
LEMMA PartialCostsRaised ==
  ASSUME NEW rule, IsWeighted(rule), NEW score \in [Nodes -> Nat],
         NEW raised \in [Nodes -> Nat], NEW j \in 1..Len(rule.children),
         score[rule.children[j]] = 0,
         \A p \in Nodes \ {rule.children[j]} : raised[p] = score[p]
  PROVE  \A n \in 0..Len(rule.children) :
            /\ IF n < j THEN PartialCosts(rule, score)[n] <= PartialCosts(rule, raised)[n]
               ELSE PartialCosts(rule, score)[n] + raised[rule.children[j]] <= PartialCosts(rule, raised)[n]
            /\ (\A i \in 1..Len(rule.children) : rule.children[i] = rule.children[j] => i = j)
               => PartialCosts(rule, raised)[n] =
                     IF n < j THEN PartialCosts(rule, score)[n]
                     ELSE PartialCosts(rule, score)[n] + raised[rule.children[j]]
<1>. DEFINE q == rule.children[j]
            v == raised[q]
            a == PartialCosts(rule, score)
            b == PartialCosts(rule, raised)
            len == Len(rule.children)
            Once == \A i \in 1..len : rule.children[i] = q => i = j
            Holds(n) == /\ IF n < j THEN a[n] <= b[n] ELSE a[n] + v <= b[n]
                        /\ Once => b[n] = IF n < j THEN a[n] ELSE a[n] + v
            T == {n \in Nat : n \in 0..len => Holds(n)}
<1>1. len \in Nat /\ v \in Nat /\ rule.children[j] = q
      /\ \A i \in 1..len : /\ score[rule.children[i]] \in Nat
                           /\ rule.children[i] = q => score[rule.children[i]] = 0 /\ raised[rule.children[i]] = v
                           /\ rule.children[i] # q => raised[rule.children[i]] = score[rule.children[i]]
  BY ChildrenAreNodes DEF IsWeighted
<1>. HIDE DEF v, q
<1>2. a[0] = rule.cost /\ \A i \in 1..len : a[i] = a[i - 1] + score[rule.children[i]]
  BY PartialCostsStep DEF IsWeighted
<1>3. b[0] = rule.cost /\ \A i \in 1..len : b[i] = b[i - 1] + raised[rule.children[i]]
  BY PartialCostsStep DEF IsWeighted
<1>4. \A n \in 0..len : a[n] \in Nat /\ b[n] \in Nat
  BY PartialCostsType
<1>. HIDE DEF a, b, len
<1>5. 0 \in T
  <2>1. 0 \in 0..len /\ j \in Nat /\ 0 < j
    BY <1>1 DEF len
  <2>. QED  BY <1>2, <1>3, <1>4, <2>1
<1>6. ASSUME NEW n \in Nat, n \in T PROVE n + 1 \in T
  <2>. SUFFICES ASSUME n + 1 \in 0..len PROVE Holds(n + 1)
    OBVIOUS
  <2>. DEFINE s == score[rule.children[n + 1]]
              t == raised[rule.children[n + 1]]
  <2>1. n \in 0..len /\ n + 1 \in 1..len /\ (n + 1) - 1 = n /\ j \in Nat
    BY <1>1 DEF len
  <2>2. a[n + 1] = a[n] + s /\ b[n + 1] = b[n] + t
    BY <1>2, <1>3, <2>1
  <2>3. a[n] \in Nat /\ b[n] \in Nat /\ s \in Nat /\ v \in Nat
    BY <1>1, <1>4, <2>1
  <2>4. Holds(n)
    BY <1>6, <2>1
  <2>5. CASE n + 1 = j
    <3>1. s = 0 /\ t = v /\ n < j /\ ~(n + 1 < j)
      BY <1>1, <2>1, <2>5
    <3>. HIDE DEF s, t, Once
    <3>. QED  BY ONLY <1>1, <2>1, <2>2, <2>3, <2>4, <3>1
  <2>6. CASE n + 1 # j
    <3>1. n + 1 < j <=> n < j
      BY <2>1, <2>6
    <3>2. CASE rule.children[n + 1] = q
      <4>1. s = 0 /\ t = v /\ ~Once
        BY <1>1, <2>1, <2>6, <3>2
      <4>. HIDE DEF s, t, Once
      <4>. QED  BY ONLY <2>2, <2>3, <2>4, <3>1, <4>1
    <3>3. CASE rule.children[n + 1] # q
      <4>1. t = s
        BY <1>1, <2>1, <3>3
      <4>. HIDE DEF s, t, Once
      <4>. QED  BY ONLY <2>2, <2>3, <2>4, <3>1, <4>1
    <3>. QED  BY <3>2, <3>3
  <2>. QED  BY <2>5, <2>6
<1>7. Nat \subseteq T
  <2>. HIDE DEF T
  <2>. QED  BY <1>5, <1>6, SetInduction
<1>8. \A n \in 0..len : Holds(n)
  BY <1>1, <1>7
<1>. QED  BY <1>8 DEF a, b, len, v, q

LEMMA WithoutChildIs ==
  ASSUME NEW rule, IsWeighted(rule), NEW p \in 1..Len(rule.children)
  PROVE  LET rest == WithoutChild(rule, p)
         IN  /\ IsWeighted(rest) /\ rest.cost = rule.cost
             /\ Len(rest.children) = Len(rule.children) - 1
             /\ \A i \in 1..(p - 1) : rest.children[i] = rule.children[i]
             /\ \A i \in (p + 1)..Len(rule.children) : rest.children[i - 1] = rule.children[i]
<1>. DEFINE s == rule.children
            front == SubSeq(s, 1, p - 1)
            back == SubSeq(s, p + 1, Len(s))
<1>1. s \in Seq(Nodes) /\ Len(s) \in Nat /\ p \in Nat
  BY ChildrenAreNodes DEF IsWeighted
<1>2. /\ front \in Seq(Nodes) /\ Len(front) = p - 1
      /\ \A i \in 1..(p - 1) : front[i] = s[i]
  BY <1>1
<1>3. /\ back \in Seq(Nodes) /\ Len(back) = Len(s) - p
      /\ \A i \in 1..(Len(s) - p) : back[i] = s[p + i]
  BY <1>1
<1>. HIDE DEF front, back
<1>4. /\ front \o back \in Seq(Nodes) /\ Len(front \o back) = Len(s) - 1
      /\ \A i \in 1..(Len(s) - 1) : (front \o back)[i] = IF i <= p - 1 THEN front[i] ELSE back[i - (p - 1)]
  <2>0. front \in Seq(Nodes) /\ back \in Seq(Nodes)
    BY <1>2, <1>3
  <2>1. front \o back \in Seq(Nodes) /\ Len(front \o back) = Len(front) + Len(back)
    BY ONLY <2>0
  <2>2. \A i \in 1..(Len(front) + Len(back)) :
           (front \o back)[i] = IF i <= Len(front) THEN front[i] ELSE back[i - Len(front)]
    BY <1>2, <1>3
  <2>3. (p - 1) + (Len(s) - p) = Len(s) - 1
    BY <1>1
  <2>. QED  BY <1>2, <1>3, <2>1, <2>2, <2>3
<1>5. \A i \in 1..(p - 1) : i \in 1..(Len(s) - 1) /\ (front \o back)[i] = s[i]
  BY <1>1, <1>2, <1>4
<1>6. \A i \in (p + 1)..Len(s) : (front \o back)[i - 1] = s[i]
  <2>. TAKE i \in (p + 1)..Len(s)
  <2>1. /\ i - 1 \in 1..(Len(s) - 1) /\ ~(i - 1 <= p - 1) /\ i - p \in 1..(Len(s) - p)
        /\ (i - 1) - (p - 1) = i - p /\ p + (i - p) = i
    BY <1>1
  <2>. QED  BY <1>3, <1>4, <2>1
<1>7. WithoutChild(rule, p) = [children |-> front \o back, result |-> rule.result, cost |-> rule.cost]
  BY DEF WithoutChild, RemoveAt, front, back
<1>. DEFINE rest == WithoutChild(rule, p)
            joined == front \o back
<1>8. rest.children = joined /\ rest.result = rule.result /\ rest.cost = rule.cost
  BY ONLY <1>7 DEF rest, joined
<1>9. /\ joined \in Seq(Nodes) /\ Len(joined) = Len(s) - 1
      /\ \A i \in 1..(p - 1) : joined[i] = s[i]
      /\ \A i \in (p + 1)..Len(s) : joined[i - 1] = s[i]
  BY ONLY <1>4, <1>5, <1>6 DEF joined
<1>10. IsWeighted(rest)
  <2>. HIDE DEF rest, joined
  <2>. QED  BY <1>8, <1>9 DEF IsWeighted
<1>. HIDE DEF rest, joined
<1>11. /\ Len(rest.children) = Len(s) - 1
       /\ \A i \in 1..(p - 1) : rest.children[i] = s[i]
       /\ \A i \in (p + 1)..Len(s) : rest.children[i - 1] = s[i]
  BY ONLY <1>8, <1>9
<1>. QED  BY <1>8, <1>10, <1>11 DEF rest

(* The context of a child and the child cost what the rule costs. *)
LEMMA ContextCosts ==
  ASSUME NEW rule, IsWeighted(rule), NEW p \in 1..Len(rule.children), NEW score \in [Nodes -> Nat]
  PROVE  PartialCosts(WithoutChild(rule, p), score)[Len(rule.children) - 1] + score[rule.children[p]]
            = PartialCosts(rule, score)[Len(rule.children)]
<1>. DEFINE rest == WithoutChild(rule, p)
            a == PartialCosts(rule, score)
            b == PartialCosts(rest, score)
            len == Len(rule.children)
            Holds(n) == a[n] = IF n < p THEN b[n] ELSE b[n - 1] + score[rule.children[p]]
            T == {n \in Nat : n \in 0..len => Holds(n)}
<1>1. /\ IsWeighted(rest) /\ rest.cost = rule.cost
      /\ Len(rest.children) = len - 1
      /\ \A i \in 1..(p - 1) : rest.children[i] = rule.children[i]
      /\ \A i \in (p + 1)..len : rest.children[i - 1] = rule.children[i]
  BY WithoutChildIs
<1>. HIDE DEF rest
<1>2. /\ len \in Nat /\ p \in Nat /\ p >= 1 /\ p <= len
      /\ \A i \in 1..len : score[rule.children[i]] \in Nat
  BY ChildrenAreNodes DEF IsWeighted
<1>3. a[0] = rule.cost /\ \A i \in 1..len : a[i] = a[i - 1] + score[rule.children[i]]
  BY PartialCostsStep DEF IsWeighted
<1>4. b[0] = rule.cost /\ \A i \in 1..(len - 1) : b[i] = b[i - 1] + score[rest.children[i]]
  <2>1. rest.children \in Seq(Nodes) /\ 1..Len(rest.children) = 1..(len - 1)
    BY <1>1 DEF IsWeighted
  <2>. QED  BY <1>1, <2>1, PartialCostsStep
<1>5. \A n \in 0..len : a[n] \in Nat
  BY PartialCostsType
<1>6. \A n \in 0..(len - 1) : b[n] \in Nat
  BY <1>1, PartialCostsType
<1>. HIDE DEF a, b, len
<1>7. 0 \in T
  BY <1>2, <1>3, <1>4
<1>8. ASSUME NEW n \in Nat, n \in T PROVE n + 1 \in T
  <2>. SUFFICES ASSUME n + 1 \in 0..len PROVE Holds(n + 1)
    OBVIOUS
  <2>1. n \in 0..len /\ n + 1 \in 1..len /\ (n + 1) - 1 = n
    BY <1>2
  <2>2. a[n + 1] = a[n] + score[rule.children[n + 1]] /\ score[rule.children[n + 1]] \in Nat
    BY <1>2, <1>3, <2>1
  <2>3. a[n] = IF n < p THEN b[n] ELSE b[n - 1] + score[rule.children[p]]
    BY <1>8, <2>1
  <2>4. CASE n + 1 < p
    <3>1. n + 1 \in 1..(p - 1) /\ n + 1 \in 1..(len - 1) /\ n < p
      BY <1>2, <2>4
    <3>2. b[n + 1] = b[n] + score[rule.children[n + 1]]
      BY <1>1, <1>4, <2>1, <3>1
    <3>. QED  BY <2>2, <2>3, <2>4, <3>1, <3>2
  <2>5. CASE n + 1 = p
    BY <1>2, <2>1, <2>2, <2>3, <2>5
  <2>6. CASE p < n + 1
    <3>1. /\ n + 1 \in (p + 1)..len /\ n \in 1..(len - 1) /\ ~(n < p) /\ ~(n + 1 < p)
          /\ n - 1 \in 0..(len - 1)
      BY <1>2, <2>1, <2>6
    <3>2. rest.children[n] = rule.children[n + 1]
      BY <1>1, <2>1, <3>1 DEF len
    <3>3. b[n] = b[n - 1] + score[rule.children[n + 1]] /\ b[n - 1] \in Nat
      BY <1>4, <1>6, <3>1, <3>2
    <3>4. score[rule.children[p]] \in Nat
      BY <1>2
    <3>. QED  BY <2>1, <2>2, <2>3, <3>1, <3>3, <3>4
  <2>. QED  BY <1>2, <2>4, <2>5, <2>6
<1>9. Nat \subseteq T
  <2>. HIDE DEF T
  <2>. QED  BY <1>7, <1>8, SetInduction
<1>10. Holds(len)
  BY <1>2, <1>9
<1>. QED  BY <1>2, <1>10 DEF a, b, len, rest

-----------------------------------------------------------------------------
(* The score of a rule. *)

LEMMA CappedIsMin ==
  ASSUME NEW n \in Nat
  PROVE  /\ Capped(n) \in Costs /\ Capped(n) <= n
         /\ \A m \in Costs : m <= n => m <= Capped(n)
         /\ n < Infinity => Capped(n) = n
         /\ \A m \in Nat : n <= m => Capped(n) <= Capped(m)
BY InfinityIsPositive DEF Capped, Costs

LEMMA InsideIsCost ==
  ASSUME NEW rule, IsWeighted(rule), NEW score \in [Nodes -> Costs]
  PROVE  Inside(rule, score) \in Costs
<1>1. score \in [Nodes -> Nat] /\ Len(rule.children) \in 0..Len(rule.children)
  BY InfinityIsPositive, ChildrenAreNodes DEF Costs, IsWeighted
<1>2. PartialCosts(rule, score)[Len(rule.children)] \in Nat
  BY <1>1, PartialCostsType
<1>. QED  BY <1>2, CappedIsMin DEF Inside

(* A derivation is no better than any of its parts. *)
LEMMA InsideAboveChildren ==
  ASSUME NEW rule, IsWeighted(rule), NEW score \in [Nodes -> Costs], NEW q \in Range(rule.children)
  PROVE  score[q] <= Inside(rule, score)
<1>1. score \in [Nodes -> Nat] /\ Len(rule.children) \in 0..Len(rule.children)
  BY InfinityIsPositive, ChildrenAreNodes DEF Costs, IsWeighted
<1>2. PICK i \in 1..Len(rule.children) : q = rule.children[i]
  BY ChildrenAreNodes DEF IsWeighted
<1>3. /\ PartialCosts(rule, score)[Len(rule.children)] \in Nat
      /\ score[q] <= PartialCosts(rule, score)[Len(rule.children)]
  BY <1>1, <1>2, PartialCostsType
<1>4. score[q] \in Costs
  BY ChildrenAreNodes DEF IsWeighted
<1>. QED  BY <1>3, <1>4, CappedIsMin DEF Inside

LEMMA InsideMonotone ==
  ASSUME NEW rule, IsWeighted(rule),
         NEW score \in [Nodes -> Costs], NEW worse \in [Nodes -> Costs],
         \A q \in Range(rule.children) : score[q] <= worse[q]
  PROVE  Inside(rule, score) <= Inside(rule, worse)
<1>1. /\ score \in [Nodes -> Nat] /\ worse \in [Nodes -> Nat]
      /\ Len(rule.children) \in 0..Len(rule.children)
  BY InfinityIsPositive, ChildrenAreNodes DEF Costs, IsWeighted
<1>. DEFINE len == Len(rule.children)
            m == PartialCosts(rule, score)[len]
            n == PartialCosts(rule, worse)[len]
<1>2. m \in Nat /\ n \in Nat
  BY <1>1, PartialCostsType
<1>3. m <= n
  BY <1>1, PartialCostsMonotone
<1>. QED  BY <1>2, <1>3, CappedIsMin DEF Inside

(* A better score of a child makes a possible rule better. *)
LEMMA InsideStrict ==
  ASSUME NEW rule, IsWeighted(rule),
         NEW score \in [Nodes -> Costs], NEW worse \in [Nodes -> Costs],
         \A q \in Range(rule.children) : score[q] <= worse[q],
         NEW p \in Range(rule.children), score[p] < worse[p], Inside(rule, score) < Infinity
  PROVE  Inside(rule, score) < Inside(rule, worse)
<1>1. score \in [Nodes -> Nat] /\ worse \in [Nodes -> Nat] /\ Len(rule.children) \in Nat
  BY InfinityIsPositive, ChildrenAreNodes DEF Costs, IsWeighted
<1>2. PICK j \in 1..Len(rule.children) : p = rule.children[j]
  BY ChildrenAreNodes DEF IsWeighted
<1>. DEFINE len == Len(rule.children)
            m == PartialCosts(rule, score)[len]
            n == PartialCosts(rule, worse)[len]
<1>3. len \in 0..len /\ len \in j..len
  BY <1>1
<1>4. m \in Nat /\ n \in Nat
  BY <1>1, <1>3, PartialCostsType
<1>5. m < n
  BY <1>1, <1>2, <1>3, PartialCostsStrict
<1>. HIDE DEF m, n
<1>. QED  BY <1>4, <1>5, InfinityIsPositive DEF Inside, Capped, m, n

(* It depends on the scores of its children alone. *)
LEMMA InsideOfChildren ==
  ASSUME NEW rule, IsWeighted(rule),
         NEW score \in [Nodes -> Costs], NEW same \in [Nodes -> Costs],
         \A q \in Range(rule.children) : score[q] = same[q]
  PROVE  Inside(rule, score) = Inside(rule, same)
<1>1. \A q \in Range(rule.children) : score[q] \in Nat
  BY InfinityIsPositive, ChildrenAreNodes DEF Costs, IsWeighted
<1>2. \A q \in Range(rule.children) : score[q] <= same[q] /\ same[q] <= score[q]
  BY <1>1
<1>3. Inside(rule, score) <= Inside(rule, same) /\ Inside(rule, same) <= Inside(rule, score)
  BY <1>2, InsideMonotone
<1>4. Inside(rule, score) \in Nat /\ Inside(rule, same) \in Nat
  BY InsideIsCost DEF Costs
<1>. QED  BY <1>3, <1>4

LEMMA InsideOfZeros ==
  ASSUME NEW rule, IsWeighted(rule), NEW score \in [Nodes -> Costs],
         \A q \in Range(rule.children) : score[q] = 0
  PROVE  Inside(rule, score) = rule.cost
<1>. DEFINE len == Len(rule.children)
            T == {n \in Nat : n \in 0..len => PartialCosts(rule, score)[n] = rule.cost}
<1>1. /\ rule.children \in Seq(Nodes) /\ rule.cost \in Costs /\ rule.cost \in Nat /\ len \in Nat
      /\ \A i \in 1..len : score[rule.children[i]] = 0
  <2>1. rule.children \in Seq(Nodes) /\ rule.cost \in Costs /\ rule.cost \in Nat
    BY DEF IsWeighted, Costs
  <2>2. \A i \in 1..len : rule.children[i] \in Range(rule.children)
    BY <2>1, ChildrenAreNodes
  <2>. QED  BY <2>1, <2>2, ChildrenAreNodes
<1>2. 0 \in T
  BY <1>1, PartialCostsStep
<1>3. ASSUME NEW n \in Nat, n \in T PROVE n + 1 \in T
  <2>. SUFFICES ASSUME n + 1 \in 0..len PROVE PartialCosts(rule, score)[n + 1] = rule.cost
    OBVIOUS
  <2>1. n + 1 \in 1..len /\ n \in 0..len /\ (n + 1) - 1 = n
    BY <1>1
  <2>2. PartialCosts(rule, score)[n + 1] = PartialCosts(rule, score)[n] + 0
    BY <1>1, <2>1, PartialCostsStep
  <2>. QED  BY <1>1, <1>3, <2>1, <2>2
<1>4. len \in T
  <2>. HIDE DEF T
  <2>. QED  BY <1>1, <1>2, <1>3, SetInduction
<1>5. PartialCosts(rule, score)[len] = rule.cost
  BY <1>1, <1>4
<1>. QED  BY <1>1, <1>5, InfinityIsPositive DEF Inside, Capped, Costs

LEMMA ChildIsSomewhere ==
  ASSUME NEW rule, IsWeighted(rule), NEW q \in Range(rule.children)
  PROVE  \E j \in 1..Len(rule.children) : rule.children[j] = q
BY ChildrenAreNodes DEF IsWeighted

(* A child that is final now, where it was counted as 1 before. *)
LEMMA InsideRaised ==
  ASSUME NEW rule, IsWeighted(rule), NEW score \in [Nodes -> Costs],
         NEW raised \in [Nodes -> Costs], NEW q \in Range(rule.children), score[q] = 0,
         \A p \in Nodes \ {q} : raised[p] = score[p],
         NEW part \in Costs, part <= Inside(rule, score)
  PROVE  /\ Capped(part + raised[q]) <= Inside(rule, raised)
         /\ IsInjective(rule.children) /\ part = Inside(rule, score)
            => Capped(part + raised[q]) = Inside(rule, raised)
<1>. DEFINE len == Len(rule.children)
            v == raised[q]
            a == PartialCosts(rule, score)[len]
            b == PartialCosts(rule, raised)[len]
<1>1. /\ score \in [Nodes -> Nat] /\ v \in Nat /\ part \in Nat /\ q \in Nodes /\ len \in Nat
      /\ raised \in [Nodes -> Nat] /\ Infinity \in Nat
  BY InfinityIsPositive, ChildrenAreNodes DEF Costs, IsWeighted
<1>. HIDE DEF v
<1>2. PICK j \in 1..Len(rule.children) : rule.children[j] = q
  BY ChildIsSomewhere
<1>3. a \in Nat /\ b \in Nat
  <2>1. len \in 0..len
    BY <1>1
  <2>. QED  BY <1>1, <2>1, PartialCostsType
<1>4. /\ a + v <= b
      /\ (\A i \in 1..len : rule.children[i] = q => i = j) => b = a + v
  <2>1. len \in 0..len /\ ~(len < j)
    BY <1>1
  <2>2. raised[q] = v /\ \A p \in Nodes \ {q} : raised[p] = score[p]
    BY DEF v
  <2>3. \A n \in 0..Len(rule.children) :
           /\ IF n < j THEN PartialCosts(rule, score)[n] <= PartialCosts(rule, raised)[n]
              ELSE PartialCosts(rule, score)[n] + raised[rule.children[j]] <= PartialCosts(rule, raised)[n]
           /\ (\A i \in 1..Len(rule.children) : rule.children[i] = rule.children[j] => i = j)
              => PartialCosts(rule, raised)[n] =
                    IF n < j THEN PartialCosts(rule, score)[n]
                    ELSE PartialCosts(rule, score)[n] + raised[rule.children[j]]
    <3>1. /\ IsWeighted(rule) /\ score \in [Nodes -> Nat] /\ raised \in [Nodes -> Nat]
          /\ j \in 1..Len(rule.children) /\ score[rule.children[j]] = 0
      BY <1>1, <1>2
    <3>2. \A p \in Nodes \ {rule.children[j]} : raised[p] = score[p]
      BY <1>2, <2>2
    <3>. QED  BY ONLY <3>1, <3>2, PartialCostsRaised
  <2>. QED  BY <1>2, <2>1, <2>2, <2>3
<1>5. IsInjective(rule.children) => \A i \in 1..len : rule.children[i] = q => i = j
  BY <1>2, ChildrenAreNodes DEF IsInjective, IsWeighted
<1>6. part <= a /\ Inside(rule, raised) = Capped(b) /\ Inside(rule, score) = Capped(a)
  <2>1. Inside(rule, raised) = Capped(b) /\ Inside(rule, score) = Capped(a)
    BY DEF Inside
  <2>2. part <= Capped(a)
    BY <2>1
  <2>. HIDE DEF a, b
  <2>3. Capped(a) <= a /\ Capped(a) \in Nat
    BY <1>3, CappedIsMin DEF Costs
  <2>4. part <= a
    BY ONLY <1>1, <1>3, <2>2, <2>3
  <2>. QED  BY ONLY <2>1, <2>4
<1>. HIDE DEF a, b
<1>7. Capped(part + v) <= Capped(b)
  BY <1>1, <1>3, <1>4, <1>6, CappedIsMin
<1>8. ASSUME IsInjective(rule.children), part = Capped(a) PROVE Capped(part + v) = Capped(b)
  <2>1. b = a + v
    BY <1>4, <1>5, <1>8
  <2>. QED  BY <1>1, <1>3, <1>8, <2>1 DEF Capped
<1>. QED  BY <1>6, <1>7, <1>8 DEF v

LEMMA ContextIsCost ==
  ASSUME NEW rule, IsWeighted(rule), NEW p \in 1..Len(rule.children), NEW score \in [Nodes -> Costs]
  PROVE  Context(rule, p, score) \in Costs
BY WithoutChildIs, InsideIsCost DEF Context

LEMMA ContextMonotone ==
  ASSUME NEW rule, IsWeighted(rule), NEW p \in 1..Len(rule.children),
         NEW score \in [Nodes -> Costs], NEW worse \in [Nodes -> Costs],
         \A q \in Nodes : score[q] <= worse[q]
  PROVE  Context(rule, p, score) <= Context(rule, p, worse)
<1>1. IsWeighted(WithoutChild(rule, p))
  BY WithoutChildIs
<1>2. Range(WithoutChild(rule, p).children) \subseteq Nodes
  BY <1>1, ChildrenAreNodes DEF IsWeighted
<1>. QED  BY <1>1, <1>2, InsideMonotone DEF Context

(* A rule that is possible splits into a child and its context. *)
LEMMA ContextIs ==
  ASSUME NEW rule, IsWeighted(rule), NEW p \in 1..Len(rule.children), NEW score \in [Nodes -> Costs],
         Inside(rule, score) < Infinity
  PROVE  Context(rule, p, score) + score[rule.children[p]] = Inside(rule, score)
<1>. DEFINE len == Len(rule.children)
            rest == WithoutChild(rule, p)
            a == PartialCosts(rule, score)[len]
            b == PartialCosts(rest, score)[len - 1]
            c == score[rule.children[p]]
<1>1. IsWeighted(rest) /\ Len(rest.children) = len - 1
  BY WithoutChildIs
<1>2. /\ score \in [Nodes -> Nat] /\ len \in Nat /\ Infinity \in Nat /\ rule.children[p] \in Nodes
  BY InfinityIsPositive, ChildrenAreNodes DEF Costs, IsWeighted
<1>3. len - 1 \in 0..(len - 1) /\ len \in 0..len
  BY <1>2
<1>4. a \in Nat /\ b \in Nat /\ c \in Nat
  BY <1>1, <1>2, <1>3, PartialCostsType
<1>5. b + c = a
  BY <1>2, ContextCosts
<1>6. Inside(rule, score) = Capped(a) /\ Context(rule, p, score) = Capped(b)
  BY <1>1 DEF Inside, Context
<1>. HIDE DEF a, b, c, len, rest
<1>7. Capped(a) < Infinity
  BY <1>6
<1>8. a < Infinity /\ b < Infinity
  BY <1>2, <1>4, <1>5, <1>7 DEF Capped
<1>. QED  BY <1>2, <1>4, <1>5, <1>6, <1>8 DEF Capped, c

-----------------------------------------------------------------------------
(* Best scores. *)

LEMMA ImpossibleIsScore == Impossible \in [Nodes -> Costs]
BY InfinityIsPositive DEF Impossible, Costs

LEMMA OptimumIsLeast ==
  ASSUME NEW goals, goals \subseteq Nodes, NEW inner \in [Nodes -> Costs]
  PROVE  /\ Optimum(goals, inner) \in Costs
         /\ \A q \in goals : Optimum(goals, inner) <= inner[q]
         /\ Optimum(goals, inner) < Infinity => \E q \in goals : inner[q] = Optimum(goals, inner)
<1>. DEFINE T == {Infinity} \cup {inner[q] : q \in goals}
<1>1. T \subseteq Costs /\ T # {} /\ T \subseteq Nat
  BY InfinityIsPositive DEF Costs
<1>2. \E m \in T : \A k \in T : m <= k
  BY <1>1, LeastElement
<1>3. Optimum(goals, inner) = CHOOSE m \in T : \A k \in T : m <= k
  BY DEF Optimum, Min
<1>4. Optimum(goals, inner) \in T /\ \A k \in T : Optimum(goals, inner) <= k
  BY <1>2, <1>3
<1>. QED  BY <1>1, <1>4

(* A score that some goal has and none improves is the optimum. *)
LEMMA OptimumIs ==
  ASSUME NEW goals, goals \subseteq Nodes, NEW inner \in [Nodes -> Costs],
         NEW q \in goals, \A p \in goals : inner[q] <= inner[p]
  PROVE  Optimum(goals, inner) = inner[q]
<1>1. inner[q] \in Costs
  OBVIOUS
<1>2. /\ Optimum(goals, inner) \in Costs /\ Optimum(goals, inner) <= inner[q]
      /\ Optimum(goals, inner) < Infinity => \E p \in goals : inner[p] = Optimum(goals, inner)
  BY OptimumIsLeast
<1>. QED  BY <1>1, <1>2, InfinityIsPositive DEF Costs

-----------------------------------------------------------------------------
(* Best inside scores: for all finite sets of states and all rules, they   *)
(* exist, and BestInside computes them in as many rounds as there are      *)
(* states.                                                                 *)

LEMMA ImprovedIs ==
  ASSUME NEW rules, \A r \in rules : IsWeighted(r), NEW score \in [Nodes -> Costs]
  PROVE  /\ Improved(rules, score) \in [Nodes -> Costs]
         /\ \A r \in rules : Improved(rules, score)[r.result] <= Inside(r, score)
         /\ \A q \in Nodes : \/ Improved(rules, score)[q] = Infinity
                             \/ \E r \in rules : r.result = q /\ Improved(rules, score)[q] = Inside(r, score)
<1>. DEFINE T(q) == {Infinity} \cup {Inside(r, score) : r \in {s \in rules : s.result = q}}
<1>1. ASSUME NEW q \in Nodes
      PROVE  /\ Improved(rules, score)[q] \in T(q) /\ T(q) \subseteq Costs
             /\ \A k \in T(q) : Improved(rules, score)[q] <= k
  <2>1. T(q) \subseteq Costs
    BY InsideIsCost, InfinityIsPositive DEF Costs
  <2>2. T(q) \subseteq Nat /\ T(q) # {}
    BY <2>1 DEF Costs
  <2>3. PICK m \in T(q) : \A k \in T(q) : m <= k
    BY <2>2, LeastElement
  <2>4. Improved(rules, score)[q] = CHOOSE x \in T(q) : \A k \in T(q) : x <= k
    BY DEF Improved, Min
  <2>. HIDE DEF T
  <2>. QED  BY <2>1, <2>3, <2>4
<1>2. DOMAIN Improved(rules, score) = Nodes /\ Improved(rules, score) = [q \in Nodes |-> Improved(rules, score)[q]]
  BY DEF Improved
<1>3. Improved(rules, score) \in [Nodes -> Costs]
  <2>. HIDE DEF T
  <2>. QED  BY <1>1, <1>2
<1>4. ASSUME NEW r \in rules PROVE Improved(rules, score)[r.result] <= Inside(r, score)
  BY <1>1 DEF IsWeighted
<1>5. ASSUME NEW q \in Nodes
      PROVE  \/ Improved(rules, score)[q] = Infinity
             \/ \E r \in rules : r.result = q /\ Improved(rules, score)[q] = Inside(r, score)
  BY <1>1
<1>. QED  BY <1>3, <1>4, <1>5

(* The best scores are the greatest that no rule contradicts. *)
LEMMA InsideExists ==
  ASSUME NEW rules, \A r \in rules : IsWeighted(r)
  PROVE  \E inner \in [Nodes -> Costs] : IsInside(rules, inner)
<1>. DEFINE P == {g \in [Nodes -> Costs] : \A r \in rules : g[r.result] <= Inside(r, g)}
            values(q) == {g[q] : g \in P}
            f == [q \in Nodes |-> CHOOSE m \in values(q) : \A k \in values(q) : k <= m]
<1>1. ASSUME NEW q \in Nodes
      PROVE  /\ f[q] \in values(q) /\ f[q] \in Costs
             /\ \A g \in P : g[q] <= f[q]
  <2>. DEFINE zero == [p \in Nodes |-> 0]
  <2>1. zero \in [Nodes -> Costs]
    BY InfinityIsPositive DEF Costs
  <2>2. \A r \in rules : zero[r.result] <= Inside(r, zero)
    <3>. TAKE r \in rules
    <3>1. Inside(r, zero) \in Costs /\ r.result \in Nodes
      BY <2>1, InsideIsCost DEF IsWeighted
    <3>. QED  BY <3>1 DEF Costs
  <2>3. zero \in P
    BY <2>1, <2>2
  <2>. HIDE DEF zero
  <2>4. values(q) \subseteq 0..Infinity /\ values(q) # {} /\ Infinity \in Nat
    BY <2>3, InfinityIsPositive DEF Costs
  <2>5. PICK m \in values(q) : \A k \in values(q) : k <= m
    BY <2>4, GreatestElement
  <2>6. f[q] \in values(q) /\ \A k \in values(q) : k <= f[q]
    <3>. HIDE DEF values
    <3>. QED  BY <2>5
  <2>. QED  BY <2>4, <2>6 DEF Costs
<1>2. f \in [Nodes -> Costs]
  <2>1. f = [q \in Nodes |-> f[q]]
    OBVIOUS
  <2>. HIDE DEF f
  <2>. QED  BY <1>1, <2>1
<1>. HIDE DEF f
<1>3. \A r \in rules : f[r.result] <= Inside(r, f)
  <2>. TAKE r \in rules
  <2>1. IsWeighted(r) /\ r.result \in Nodes
    BY DEF IsWeighted
  <2>2. PICK g \in P : f[r.result] = g[r.result]
    BY <1>1, <2>1
  <2>3. \A q \in Range(r.children) : g[q] <= f[q]
    BY <1>1, <2>1, ChildrenAreNodes DEF IsWeighted
  <2>4. g[r.result] <= Inside(r, g) /\ Inside(r, g) <= Inside(r, f) /\ g[r.result] \in Costs
        /\ Inside(r, g) \in Costs /\ Inside(r, f) \in Costs
    BY <1>2, <2>1, <2>3, InsideMonotone, InsideIsCost
  <2>. QED  BY <2>2, <2>4, InfinityIsPositive DEF Costs
<1>4. ASSUME NEW S \in SUBSET Nodes,
             \A r \in rules : Inside(r, f) = f[r.result] /\ Range(r.children) \subseteq S => r.result \in S,
             NEW p \in Nodes, f[p] < Infinity, p \notin S
      PROVE  FALSE
  <2>. DEFINE raise(q) == q \notin S /\ f[q] < Infinity
              g == [q \in Nodes |-> IF raise(q) THEN f[q] + 1 ELSE f[q]]
  <2>1. g \in [Nodes -> Costs]
    BY <1>2, InfinityIsPositive DEF Costs
  <2>2. \A q \in Nodes : f[q] <= g[q] /\ (raise(q) => f[q] < g[q] /\ g[q] = f[q] + 1)
                         /\ (~raise(q) => g[q] = f[q])
    BY <1>2, InfinityIsPositive DEF Costs
  <2>. HIDE DEF g
  <2>3. ASSUME NEW r \in rules PROVE g[r.result] <= Inside(r, g)
    <3>1. IsWeighted(r) /\ r.result \in Nodes /\ Range(r.children) \subseteq Nodes
      BY ChildrenAreNodes DEF IsWeighted
    <3>2. /\ Inside(r, f) \in Nat /\ Inside(r, g) \in Nat /\ Inside(r, f) <= Inside(r, g)
          /\ f[r.result] \in Nat /\ g[r.result] \in Nat
      <4>1. Inside(r, f) <= Inside(r, g)
        BY <1>2, <2>1, <2>2, <3>1, InsideMonotone
      <4>2. Inside(r, f) \in Costs /\ Inside(r, g) \in Costs
        BY <1>2, <2>1, <3>1, InsideIsCost
      <4>. QED  BY <1>2, <2>1, <3>1, <4>1, <4>2 DEF Costs
    <3>3. CASE ~raise(r.result)
      BY <1>3, <2>2, <3>1, <3>2, <3>3
    <3>4. CASE raise(r.result) /\ Inside(r, f) # f[r.result]
      <4>1. g[r.result] = f[r.result] + 1 /\ f[r.result] <= Inside(r, f)
        BY <1>3, <2>2, <3>1, <3>4
      <4>. QED  BY <3>2, <3>4, <4>1
    <3>5. CASE raise(r.result) /\ Inside(r, f) = f[r.result]
      <4>1. PICK c \in Range(r.children) : c \notin S
        BY <1>4, <3>5
      <4>2. c \in Nodes /\ f[c] <= Inside(r, f) /\ f[c] \in Nat
        BY <1>2, <3>1, <4>1, InsideAboveChildren DEF Costs
      <4>3. raise(c)
        BY <3>2, <3>5, <4>1, <4>2, InfinityIsPositive
      <4>4. f[c] < g[c] /\ Inside(r, f) < Infinity
        BY <2>2, <3>5, <4>2, <4>3
      <4>5. Inside(r, f) < Inside(r, g)
        BY <1>2, <2>1, <2>2, <3>1, <4>1, <4>4, InsideStrict
      <4>6. g[r.result] = f[r.result] + 1
        BY <2>2, <3>1, <3>5
      <4>. QED  BY <3>2, <3>5, <4>5, <4>6
    <3>. QED  BY <3>3, <3>4, <3>5
  <2>4. g \in P
    BY <2>1, <2>3
  <2>5. g[p] <= f[p] /\ f[p] < g[p] /\ f[p] \in Nat /\ g[p] \in Nat
    BY <1>1, <1>2, <1>4, <2>1, <2>2, <2>4 DEF Costs
  <2>. QED  BY <2>5
<1>5. IsInside(rules, f)
  BY <1>3, <1>4 DEF IsInside
<1>. QED  BY <1>2, <1>5

LEMMA ScoreOfPairs ==
  ASSUME NEW score, score = [q \in Nodes |-> score[q]]
  PROVE  ScoreOf(Pairs(score)) = score
<1>1. ASSUME NEW q \in Nodes PROVE (CHOOSE p \in Pairs(score) : p[1] = q)[2] = score[q]
  <2>1. <<q, score[q]>> \in Pairs(score) /\ <<q, score[q]>>[1] = q
    BY DEF Pairs
  <2>2. PICK p \in Pairs(score) : p = (CHOOSE x \in Pairs(score) : x[1] = q) /\ p[1] = q
    BY <2>1
  <2>3. PICK x \in Nodes : p = <<x, score[x]>>
    BY DEF Pairs
  <2>4. p[1] = x /\ p[2] = score[x]
    BY <2>3
  <2>5. x = q /\ p[2] = score[q]
    BY <2>2, <2>4
  <2>. QED  BY <2>2, <2>5
<1>. QED  BY <1>1 DEF ScoreOf

(* The scores after round n. *)
Round(rules, n) == ScoreOf(InsideRounds(rules)[n])

LEMMA RoundsExist ==
  ASSUME NEW rules
  PROVE  LET round == InsideRounds(rules)
         IN  round = [n \in 0..Cardinality(Nodes) |->
                        IF n = 0 THEN Pairs(Impossible) ELSE Pairs(Improved(rules, ScoreOf(round[n - 1])))]
<1>. DEFINE next(x) == Pairs(Improved(rules, ScoreOf(x)))
            Defines(f, m) == f = [i \in 0..m |-> IF i = 0 THEN Pairs(Impossible) ELSE next(f[i - 1])]
            T == {m \in Nat : \E f : Defines(f, m)}
<1>1. 0 \in T
  <2>. DEFINE g == [i \in 0..0 |-> Pairs(Impossible)]
  <2>1. Defines(g, 0)
    OBVIOUS
  <2>. QED  BY <2>1
<1>. HIDE DEF next
<1>2. ASSUME NEW m \in Nat, m \in T PROVE m + 1 \in T
  <2>1. PICK f : Defines(f, m)
    BY <1>2
  <2>. DEFINE g == [i \in 0..(m + 1) |-> IF i = m + 1 THEN next(f[m]) ELSE f[i]]
  <2>2. ASSUME NEW i \in 0..(m + 1)
        PROVE  g[i] = IF i = 0 THEN Pairs(Impossible) ELSE next(g[i - 1])
    <3>1. CASE i = m + 1
      <4>1. i # 0 /\ i - 1 = m /\ m \in 0..(m + 1) /\ m # m + 1
        BY <3>1
      <4>. QED  BY <3>1, <4>1
    <3>2. CASE i # m + 1
      <4>1. i \in 0..m /\ (i # 0 => i - 1 \in 0..(m + 1) /\ i - 1 # m + 1 /\ i - 1 \in 0..m)
        BY <3>2
      <4>2. f[i] = IF i = 0 THEN Pairs(Impossible) ELSE next(f[i - 1])
        BY <2>1, <4>1
      <4>. QED  BY <3>2, <4>1, <4>2
    <3>. QED  BY <3>1, <3>2
  <2>3. Defines(g, m + 1)
    BY <2>2
  <2>. HIDE DEF g, Defines
  <2>. QED  BY <2>3
<1>3. Nat \subseteq T
  <2>. HIDE DEF T
  <2>. QED  BY <1>1, <1>2, SetInduction
<1>4. \E f : Defines(f, Cardinality(Nodes))
  <2>1. Cardinality(Nodes) \in Nat
    BY NodesAreFinite, FS_CardinalityType
  <2>. HIDE DEF Defines
  <2>. QED  BY <1>3, <2>1
<1>5. InsideRounds(rules) = CHOOSE f : Defines(f, Cardinality(Nodes))
  BY DEF InsideRounds, next
<1>6. Defines(InsideRounds(rules), Cardinality(Nodes))
  <2>. HIDE DEF Defines
  <2>. QED  BY <1>4, <1>5
<1>. QED  BY <1>6 DEF next

LEMMA RoundIs ==
  ASSUME NEW rules, \A r \in rules : IsWeighted(r)
  PROVE  /\ Round(rules, 0) = Impossible
         /\ \A n \in 0..Cardinality(Nodes) : Round(rules, n) \in [Nodes -> Costs]
         /\ \A n \in 1..Cardinality(Nodes) : Round(rules, n) = Improved(rules, Round(rules, n - 1))
<1>. DEFINE last == Cardinality(Nodes)
            D(n) == Round(rules, n)
            T == {n \in Nat : n \in 0..last => D(n) \in [Nodes -> Costs]}
<1>0. last \in Nat
  BY NodesAreFinite, FS_CardinalityType
<1>1. \A n \in 0..last : InsideRounds(rules)[n] =
         IF n = 0 THEN Pairs(Impossible) ELSE Pairs(Improved(rules, D(n - 1)))
  BY RoundsExist DEF Round
<1>2. D(0) = Impossible
  <2>1. InsideRounds(rules)[0] = Pairs(Impossible)
    BY <1>0, <1>1
  <2>. QED  BY <2>1, ScoreOfPairs DEF Round, Impossible
<1>3. ASSUME NEW n \in 1..last PROVE D(n) = Improved(rules, D(n - 1))
  <2>1. InsideRounds(rules)[n] = Pairs(Improved(rules, D(n - 1)))
    BY <1>0, <1>1
  <2>2. ScoreOf(Pairs(Improved(rules, D(n - 1)))) = Improved(rules, D(n - 1))
    BY ScoreOfPairs DEF Improved
  <2>. QED  BY <2>1, <2>2 DEF Round
<1>. HIDE DEF D
<1>4. 0 \in T
  BY <1>2, ImpossibleIsScore
<1>5. ASSUME NEW n \in Nat, n \in T PROVE n + 1 \in T
  <2>. SUFFICES ASSUME n + 1 \in 0..last PROVE D(n + 1) \in [Nodes -> Costs]
    OBVIOUS
  <2>1. n \in 0..last /\ n + 1 \in 1..last /\ (n + 1) - 1 = n
    BY <1>0
  <2>2. D(n + 1) = Improved(rules, D(n)) /\ D(n) \in [Nodes -> Costs]
    BY <1>3, <1>5, <2>1
  <2>3. \A r \in rules : IsWeighted(r)
    OBVIOUS
  <2>4. Improved(rules, D(n)) \in [Nodes -> Costs]
    BY ONLY <2>2, <2>3, ImprovedIs
  <2>. QED  BY ONLY <2>2, <2>4
<1>6. Nat \subseteq T
  <2>. HIDE DEF T
  <2>. QED  BY <1>4, <1>5, SetInduction
<1>. QED  BY <1>0, <1>2, <1>3, <1>6 DEF D

(* Rounds never fall below scores that no rule contradicts. *)
LEMMA RoundsAbove ==
  ASSUME NEW rules, \A r \in rules : IsWeighted(r), NEW inner \in [Nodes -> Costs],
         \A r \in rules : inner[r.result] <= Inside(r, inner)
  PROVE  \A n \in 0..Cardinality(Nodes) : \A q \in Nodes : inner[q] <= Round(rules, n)[q]
<1>. DEFINE last == Cardinality(Nodes)
            T == {n \in Nat : n \in 0..last => \A q \in Nodes : inner[q] <= Round(rules, n)[q]}
<1>0. last \in Nat
  BY NodesAreFinite, FS_CardinalityType
<1>1. 0 \in T
  BY RoundIs DEF Impossible, Costs
<1>2. ASSUME NEW n \in Nat, n \in T PROVE n + 1 \in T
  <2>. SUFFICES ASSUME n + 1 \in 0..last, NEW q \in Nodes PROVE inner[q] <= Round(rules, n + 1)[q]
    OBVIOUS
  <2>1. n \in 0..last /\ n + 1 \in 1..last /\ (n + 1) - 1 = n
    BY <1>0
  <2>2. /\ Round(rules, n + 1) = Improved(rules, Round(rules, n)) /\ Round(rules, n) \in [Nodes -> Costs]
    BY <2>1, RoundIs
  <2>3. CASE Round(rules, n + 1)[q] = Infinity
    BY <2>3, InfinityIsPositive DEF Costs
  <2>4. CASE \E r \in rules : r.result = q /\ Round(rules, n + 1)[q] = Inside(r, Round(rules, n))
    <3>1. PICK r \in rules : r.result = q /\ Round(rules, n + 1)[q] = Inside(r, Round(rules, n))
      BY <2>4
    <3>2. \A c \in Range(r.children) : inner[c] <= Round(rules, n)[c]
      BY <1>2, <2>1, ChildrenAreNodes DEF IsWeighted
    <3>3. Inside(r, inner) <= Inside(r, Round(rules, n))
      BY <2>2, <3>2, InsideMonotone
    <3>4. Inside(r, inner) \in Costs /\ Inside(r, Round(rules, n)) \in Costs
      BY <2>2, InsideIsCost
    <3>. QED  BY <3>1, <3>3, <3>4, InfinityIsPositive DEF Costs
  <2>. QED  BY <2>2, <2>3, <2>4, ImprovedIs
<1>3. Nat \subseteq T
  <2>. HIDE DEF T
  <2>. QED  BY <1>1, <1>2, SetInduction
<1>. QED  BY <1>0, <1>3

LEMMA ImprovedAttained ==
  ASSUME NEW rules, \A r \in rules : IsWeighted(r), NEW score \in [Nodes -> Costs], NEW q \in Nodes
  PROVE  \/ Improved(rules, score)[q] = Infinity
         \/ \E r \in rules : r.result = q /\ Improved(rules, score)[q] = Inside(r, score)
BY ImprovedIs

LEMMA ImprovedMonotone ==
  ASSUME NEW rules, \A r \in rules : IsWeighted(r),
         NEW score \in [Nodes -> Costs], NEW worse \in [Nodes -> Costs],
         \A q \in Nodes : score[q] <= worse[q]
  PROVE  \A q \in Nodes : Improved(rules, score)[q] <= Improved(rules, worse)[q]
<1>. TAKE q \in Nodes
<1>1. Improved(rules, score)[q] \in Costs
  BY ImprovedIs
<1>2. CASE Improved(rules, worse)[q] = Infinity
  BY <1>1, <1>2 DEF Costs
<1>3. CASE \E r \in rules : r.result = q /\ Improved(rules, worse)[q] = Inside(r, worse)
  <2>1. PICK r \in rules : r.result = q /\ Improved(rules, worse)[q] = Inside(r, worse)
    BY <1>3
  <2>2. Improved(rules, score)[q] <= Inside(r, score)
    BY <2>1, ImprovedIs
  <2>3. Inside(r, score) <= Inside(r, worse)
    BY <2>1, ChildrenAreNodes, InsideMonotone DEF IsWeighted
  <2>4. Inside(r, score) \in Costs /\ Inside(r, worse) \in Costs
    BY <2>1, InsideIsCost
  <2>5. /\ Improved(rules, score)[q] \in Nat
        /\ Inside(r, score) \in Nat /\ Inside(r, worse) \in Nat
    BY <1>1, <2>4 DEF Costs
  <2>. QED  BY <2>1, <2>2, <2>3, <2>5
<1>. QED  BY <1>2, <1>3, ImprovedAttained

LEMMA RoundsSink ==
  ASSUME NEW rules, \A r \in rules : IsWeighted(r)
  PROVE  \A n \in 1..Cardinality(Nodes) : \A q \in Nodes : Round(rules, n)[q] <= Round(rules, n - 1)[q]
<1>. DEFINE last == Cardinality(Nodes)
            T == {n \in Nat : n \in 1..last => \A q \in Nodes : Round(rules, n)[q] <= Round(rules, n - 1)[q]}
<1>0. last \in Nat
  BY NodesAreFinite, FS_CardinalityType
<1>1. 0 \in T
  OBVIOUS
<1>2. ASSUME NEW n \in Nat, n \in T PROVE n + 1 \in T
  <2>. SUFFICES ASSUME n + 1 \in 1..last PROVE \A q \in Nodes : Round(rules, n + 1)[q] <= Round(rules, n)[q]
    OBVIOUS
  <2>1. /\ n \in 0..last /\ n + 1 \in 1..last /\ n + 1 \in 0..last /\ (n + 1) - 1 = n
        /\ Round(rules, n) \in [Nodes -> Costs] /\ Round(rules, n + 1) \in [Nodes -> Costs]
    BY <1>0, RoundIs
  <2>2. CASE n = 0
    BY <2>1, <2>2, RoundIs DEF Impossible, Costs
  <2>3. CASE n # 0
    <3>1. /\ n \in 1..last /\ n - 1 \in 0..last
          /\ Round(rules, n - 1) \in [Nodes -> Costs]
          /\ Round(rules, n) = Improved(rules, Round(rules, n - 1))
          /\ Round(rules, n + 1) = Improved(rules, Round(rules, n))
          /\ \A q \in Nodes : Round(rules, n)[q] <= Round(rules, n - 1)[q]
      BY <1>0, <1>2, <2>1, <2>3, RoundIs
    <3>. QED  BY <2>1, <3>1, ImprovedMonotone
  <2>. QED  BY <2>2, <2>3
<1>3. Nat \subseteq T
  <2>. HIDE DEF T
  <2>. QED  BY <1>1, <1>2, SetInduction
<1>. QED  BY <1>0, <1>3

(* Every round settles a state, or all are settled: BestInside is right. *)
LEMMA InsideIsBest ==
  ASSUME NEW rules, \A r \in rules : IsWeighted(r), NEW inner \in [Nodes -> Costs],
         IsInside(rules, inner)
  PROVE  BestInside(rules) = inner
<1>. DEFINE last == Cardinality(Nodes)
            D(n) == Round(rules, n)
            S(n) == {q \in Nodes : D(n)[q] = inner[q]}
            T == {n \in Nat : n \in 0..last => S(n) = Nodes \/ n <= Cardinality(S(n))}
<1>0. last \in Nat
  BY NodesAreFinite, FS_CardinalityType
<1>1. \A n \in 0..last : D(n) \in [Nodes -> Costs] /\ \A q \in Nodes : inner[q] <= D(n)[q]
  BY RoundIs, RoundsAbove DEF IsInside
<1>2. \A n \in 1..last : /\ \A q \in Nodes : D(n)[q] <= D(n - 1)[q]
                         /\ D(n) = Improved(rules, D(n - 1))
  BY RoundIs, RoundsSink
<1>3. \A n : S(n) \subseteq Nodes /\ IsFiniteSet(S(n)) /\ Cardinality(S(n)) \in Nat
  <2>. TAKE n
  <2>1. S(n) \in SUBSET Nodes
    OBVIOUS
  <2>. HIDE DEF S
  <2>. QED  BY <2>1, NodesAreFinite, FS_Subset, FS_CardinalityType
<1>. HIDE DEF D
<1>4. ASSUME NEW n \in Nat, n + 1 \in 0..last PROVE S(n) \subseteq S(n + 1)
  <2>1. n + 1 \in 1..last /\ n \in 0..last /\ (n + 1) - 1 = n
    BY <1>0, <1>4
  <2>. SUFFICES ASSUME NEW q \in Nodes, D(n)[q] = inner[q] PROVE D(n + 1)[q] = inner[q]
    OBVIOUS
  <2>2. D(n + 1)[q] <= D(n)[q] /\ inner[q] <= D(n + 1)[q] /\ D(n + 1)[q] \in Nat /\ D(n)[q] \in Nat
    BY <1>1, <1>2, <1>4, <2>1 DEF Costs
  <2>. QED  BY <2>2
<1>5. ASSUME NEW n \in Nat, n + 1 \in 0..last, S(n + 1) \subseteq S(n) PROVE S(n) = Nodes
  <2>1. n + 1 \in 1..last /\ n \in 0..last /\ (n + 1) - 1 = n
    BY <1>0, <1>5
  <2>2. ASSUME NEW r \in rules, Inside(r, inner) = inner[r.result], Range(r.children) \subseteq S(n)
        PROVE  r.result \in S(n)
    <3>1. IsWeighted(r) /\ r.result \in Nodes
      BY DEF IsWeighted
    <3>2. Inside(r, D(n)) = Inside(r, inner)
      <4>1. \A q \in Range(r.children) : D(n)[q] = inner[q]
        BY <2>2
      <4>. QED  BY <1>1, <2>1, <3>1, <4>1, InsideOfChildren
    <3>3. D(n + 1)[r.result] <= Inside(r, D(n))
      <4>1. D(n + 1) = Improved(rules, D(n)) /\ D(n) \in [Nodes -> Costs]
        BY <1>1, <1>2, <2>1
      <4>2. \A s \in rules : Improved(rules, D(n))[s.result] <= Inside(s, D(n))
        <5>. TAKE s \in rules
        <5>1. IsWeighted(s) /\ s.result \in Nodes
          BY DEF IsWeighted
        <5>. QED  BY <4>1, <5>1, ImprovedIs
      <4>. QED  BY <4>1, <4>2
    <3>4. inner[r.result] <= D(n + 1)[r.result] /\ D(n + 1)[r.result] \in Nat /\ inner[r.result] \in Nat
      BY <1>1, <1>5, <3>1 DEF Costs
    <3>5. D(n + 1)[r.result] = inner[r.result]
      BY <2>2, <3>2, <3>3, <3>4
    <3>. QED  BY <1>5, <3>1, <3>5
  <2>3. {q \in Nodes : inner[q] < Infinity} \subseteq S(n)
    <3>1. S(n) \in SUBSET Nodes
      OBVIOUS
    <3>. HIDE DEF S
    <3>. QED  BY <2>2, <3>1 DEF IsInside
  <2>4. ASSUME NEW q \in Nodes, ~(inner[q] < Infinity) PROVE q \in S(n)
    <3>1. inner[q] \in Costs /\ D(n)[q] \in Costs /\ inner[q] <= D(n)[q]
      BY <1>1, <2>1
    <3>2. inner[q] = Infinity /\ D(n)[q] = Infinity
      BY <2>4, <3>1, InfinityIsPositive DEF Costs
    <3>. QED  BY <3>2
  <2>. QED  BY <2>3, <2>4
<1>. HIDE DEF S
<1>6. 0 \in T
  BY <1>3
<1>7. ASSUME NEW n \in Nat, n \in T PROVE n + 1 \in T
  <2>. SUFFICES ASSUME n + 1 \in 0..last, S(n + 1) # Nodes PROVE n + 1 <= Cardinality(S(n + 1))
    OBVIOUS
  <2>1. /\ S(n) \subseteq S(n + 1) /\ S(n + 1) \subseteq Nodes
        /\ S(n) # Nodes /\ ~(S(n + 1) \subseteq S(n)) /\ n \in 0..last
    <3>1. S(n) \subseteq S(n + 1)
      BY <1>4, <1>7
    <3>2. S(n) \subseteq Nodes /\ S(n + 1) \subseteq Nodes
      BY <1>3
    <3>3. S(n) # Nodes
      BY <3>1, <3>2
    <3>4. ~(S(n + 1) \subseteq S(n))
      BY <1>5, <1>7, <3>3
    <3>5. n \in 0..last
      BY <1>0, <1>7
    <3>. QED  BY <3>1, <3>2, <3>3, <3>4, <3>5
  <2>2. n <= Cardinality(S(n))
    BY <1>7, <2>1
  <2>3. /\ Cardinality(S(n)) <= Cardinality(S(n + 1))
        /\ Cardinality(S(n + 1)) = Cardinality(S(n)) => S(n + 1) = S(n)
    BY <1>3, <2>1, FS_Subset
  <2>. QED  BY <1>3, <2>1, <2>2, <2>3
<1>8. Nat \subseteq T
  <2>. HIDE DEF T
  <2>. QED  BY <1>6, <1>7, SetInduction
<1>9. S(last) = Nodes
  <2>1. S(last) = Nodes \/ last <= Cardinality(S(last))
    BY <1>0, <1>8
  <2>2. Cardinality(S(last)) <= last /\ (Cardinality(Nodes) = Cardinality(S(last)) => Nodes = S(last))
    BY <1>3, NodesAreFinite, FS_Subset
  <2>. QED  BY <1>0, <1>3, <2>1, <2>2
<1>10. D(last) = inner
  BY <1>0, <1>1, <1>9 DEF S
<1>. QED  BY <1>10 DEF BestInside, D, Round

LEMMA BestInsideIs ==
  ASSUME NEW rules, \A r \in rules : IsWeighted(r)
  PROVE  BestInside(rules) \in [Nodes -> Costs] /\ IsInside(rules, BestInside(rules))
BY InsideExists, InsideIsBest

(* With fewer rules scores are worse. *)
LEMMA FewerRules ==
  ASSUME NEW rules, \A r \in rules : IsWeighted(r), NEW some, some \subseteq rules,
         NEW inner \in [Nodes -> Costs], IsInside(rules, inner)
  PROVE  \A q \in Nodes : inner[q] <= BestInside(some)[q]
<1>1. Cardinality(Nodes) \in 0..Cardinality(Nodes)
  BY NodesAreFinite, FS_CardinalityType
<1>. QED  BY <1>1, RoundsAbove DEF IsInside, BestInside, Round

(* Rules that derive states, and are among those handed out, give the      *)
(* states at least the scores that the rules are worth.                    *)
LEMMA DerivedIsWorth ==
  ASSUME NEW rules, \A r \in rules : IsWeighted(r),
         NEW rule, DOMAIN rule \subseteq Nodes, Derive(rule),
         NEW score \in [Nodes -> Costs],
         NEW C, C \subseteq DOMAIN rule,
         \A q \in C : /\ rule[q] \in rules /\ rule[q].result = q
                      /\ Range(rule[q].children) \subseteq C
                      /\ Inside(rule[q], score) <= score[q]
  PROVE  \A q \in C : BestInside(rules)[q] <= score[q]
<1>. DEFINE tree == BestInside(rules)
            S == {q \in Nodes : q \in C => tree[q] <= score[q]}
<1>1. tree \in [Nodes -> Costs] /\ \A r \in rules : tree[r.result] <= Inside(r, tree)
  BY BestInsideIs DEF IsInside
<1>. HIDE DEF tree
<1>2. ASSUME NEW q \in DOMAIN rule, Range(rule[q].children) \subseteq S PROVE q \in S
  <2>. SUFFICES ASSUME q \in C PROVE tree[q] <= score[q]
    OBVIOUS
  <2>1. /\ IsWeighted(rule[q]) /\ rule[q] \in rules /\ rule[q].result = q /\ q \in Nodes
        /\ Inside(rule[q], score) <= score[q]
    OBVIOUS
  <2>2. \A x \in Range(rule[q].children) : tree[x] <= score[x]
    BY <1>2
  <2>3. Inside(rule[q], tree) <= Inside(rule[q], score)
    BY <1>1, <2>1, <2>2, InsideMonotone
  <2>4. tree[q] <= Inside(rule[q], tree)
    BY <1>1, <2>1
  <2>5. /\ tree[q] \in Nat /\ score[q] \in Nat
        /\ Inside(rule[q], tree) \in Nat /\ Inside(rule[q], score) \in Nat
    BY <1>1, <2>1, InsideIsCost, InfinityIsPositive DEF Costs
  <2>. QED  BY <2>1, <2>3, <2>4, <2>5
<1>3. DOMAIN rule \subseteq S
  <2>1. S \in SUBSET Nodes
    OBVIOUS
  <2>. HIDE DEF S
  <2>. QED  BY <1>2, <2>1 DEF Derive
<1>. QED  BY <1>3 DEF tree

-----------------------------------------------------------------------------
(* Best outside scores: BestOutside computes them, too. *)

LEMMA MinIs ==
  ASSUME NEW T, T \subseteq Nat, T # {}
  PROVE  Min(T) \in T /\ \A k \in T : Min(T) <= k
<1>1. PICK m \in T : \A k \in T : m <= k
  BY LeastElement
<1>. QED  BY <1>1 DEF Min

LEMMA ChildPlaceIs ==
  ASSUME NEW rules, \A r \in rules : IsWeighted(r), NEW x \in ChildPlaces(rules)
  PROVE  /\ x[1] \in rules /\ IsWeighted(x[1]) /\ x[1].result \in Nodes
         /\ x[2] \in 1..Len(x[1].children) /\ x[1].children[x[2]] \in Nodes
<1>1. PICK r \in rules : x \in {<<r, p>> : p \in DOMAIN r.children}
  BY DEF ChildPlaces
<1>2. PICK p \in DOMAIN r.children : x = <<r, p>>
  BY <1>1
<1>. QED  BY <1>2, ChildrenAreNodes DEF IsWeighted

LEMMA PlaceCostIs ==
  ASSUME NEW rules, \A r \in rules : IsWeighted(r), NEW x \in ChildPlaces(rules),
         NEW inner \in [Nodes -> Costs], NEW score \in [Nodes -> Costs]
  PROVE  /\ PlaceCost(x, inner, score) \in Costs
         /\ score[x[1].result] <= PlaceCost(x, inner, score)
<1>1. /\ Context(x[1], x[2], inner) \in Costs /\ score[x[1].result] \in Costs
  BY ChildPlaceIs, ContextIsCost
<1>. QED  BY <1>1, InfinityIsPositive DEF PlaceCost, Capped, Costs

LEMMA PlaceCostMonotone ==
  ASSUME NEW rules, \A r \in rules : IsWeighted(r), NEW x \in ChildPlaces(rules),
         NEW inner \in [Nodes -> Costs],
         NEW score \in [Nodes -> Costs], NEW worse \in [Nodes -> Costs],
         score[x[1].result] <= worse[x[1].result]
  PROVE  PlaceCost(x, inner, score) <= PlaceCost(x, inner, worse)
<1>1. /\ Context(x[1], x[2], inner) \in Costs
      /\ score[x[1].result] \in Costs /\ worse[x[1].result] \in Costs
  BY ChildPlaceIs, ContextIsCost
<1>. QED  BY <1>1, InfinityIsPositive DEF PlaceCost, Capped, Costs

LEMMA CompletedIs ==
  ASSUME NEW rules, \A r \in rules : IsWeighted(r),
         NEW inner \in [Nodes -> Costs], NEW score \in [Nodes -> Costs]
  PROVE  LET new == Completed(rules, inner, score)
         IN  /\ new \in [Nodes -> Costs]
             /\ \A q \in Nodes : new[q] <= score[q]
             /\ \A x \in ChildPlaces(rules) : new[x[1].children[x[2]]] <= PlaceCost(x, inner, score)
             /\ \A q \in Nodes : \/ new[q] = score[q]
                                 \/ \E x \in ChildPlaces(rules) :
                                       x[1].children[x[2]] = q /\ new[q] = PlaceCost(x, inner, score)
<1>. DEFINE new == Completed(rules, inner, score)
            at(q) == {y \in ChildPlaces(rules) : y[1].children[y[2]] = q}
            T(q) == {score[q]} \cup {PlaceCost(x, inner, score) : x \in at(q)}
<1>1. ASSUME NEW q \in Nodes
      PROVE  new[q] \in T(q) /\ T(q) \subseteq Costs /\ \A k \in T(q) : new[q] <= k
  <2>1. T(q) \subseteq Costs
    BY PlaceCostIs
  <2>2. T(q) \subseteq Nat /\ T(q) # {}
    BY <2>1 DEF Costs
  <2>3. new[q] = Min(T(q))
    BY DEF Completed
  <2>. HIDE DEF T, new
  <2>. QED  BY <2>1, <2>2, <2>3, MinIs
<1>2. DOMAIN new = Nodes /\ new = [q \in Nodes |-> new[q]]
  BY DEF Completed
<1>3. new \in [Nodes -> Costs]
  <2>. HIDE DEF T, new
  <2>. QED  BY <1>1, <1>2
<1>4. \A q \in Nodes : new[q] <= score[q]
  BY <1>1
<1>5. ASSUME NEW x \in ChildPlaces(rules) PROVE new[x[1].children[x[2]]] <= PlaceCost(x, inner, score)
  <2>1. x[1].children[x[2]] \in Nodes /\ x \in at(x[1].children[x[2]])
    BY ChildPlaceIs
  <2>2. PlaceCost(x, inner, score) \in T(x[1].children[x[2]])
    BY <2>1
  <2>. HIDE DEF T, new
  <2>. QED  BY <1>1, <2>1, <2>2
<1>6. ASSUME NEW q \in Nodes
      PROVE  \/ new[q] = score[q]
             \/ \E x \in ChildPlaces(rules) : x[1].children[x[2]] = q /\ new[q] = PlaceCost(x, inner, score)
  <2>1. new[q] \in T(q)
    BY <1>1
  <2>. HIDE DEF new
  <2>. QED  BY <2>1
<1>. QED  BY <1>3, <1>4, <1>5, <1>6

GoalsOnly(goals) == [q \in Nodes |-> IF q \in goals THEN 0 ELSE Infinity]

LEMMA OutsideRoundsExist ==
  ASSUME NEW rules, NEW goals, NEW inner
  PROVE  LET round == OutsideRounds(rules, goals, inner)
         IN  round = [n \in 0..Cardinality(Nodes) |->
                        IF n = 0 THEN Pairs(GoalsOnly(goals))
                        ELSE Pairs(Completed(rules, inner, ScoreOf(round[n - 1])))]
<1>. DEFINE first == Pairs(GoalsOnly(goals))
            next(x) == Pairs(Completed(rules, inner, ScoreOf(x)))
            Defines(f, m) == f = [i \in 0..m |-> IF i = 0 THEN first ELSE next(f[i - 1])]
            T == {m \in Nat : \E f : Defines(f, m)}
<1>1. 0 \in T
  <2>. DEFINE g == [i \in 0..0 |-> first]
  <2>1. Defines(g, 0)
    OBVIOUS
  <2>. QED  BY <2>1
<1>. HIDE DEF next, first
<1>2. ASSUME NEW m \in Nat, m \in T PROVE m + 1 \in T
  <2>1. PICK f : Defines(f, m)
    BY <1>2
  <2>. DEFINE g == [i \in 0..(m + 1) |-> IF i = m + 1 THEN next(f[m]) ELSE f[i]]
  <2>2. ASSUME NEW i \in 0..(m + 1)
        PROVE  g[i] = IF i = 0 THEN first ELSE next(g[i - 1])
    <3>1. CASE i = m + 1
      <4>1. i # 0 /\ i - 1 = m /\ m \in 0..(m + 1) /\ m # m + 1
        BY <3>1
      <4>. QED  BY <3>1, <4>1
    <3>2. CASE i # m + 1
      <4>1. i \in 0..m /\ (i # 0 => i - 1 \in 0..(m + 1) /\ i - 1 # m + 1 /\ i - 1 \in 0..m)
        BY <3>2
      <4>2. f[i] = IF i = 0 THEN first ELSE next(f[i - 1])
        BY <2>1, <4>1
      <4>. QED  BY <3>2, <4>1, <4>2
    <3>. QED  BY <3>1, <3>2
  <2>3. Defines(g, m + 1)
    BY <2>2
  <2>. HIDE DEF g, Defines
  <2>. QED  BY <2>3
<1>3. Nat \subseteq T
  <2>. HIDE DEF T
  <2>. QED  BY <1>1, <1>2, SetInduction
<1>4. \E f : Defines(f, Cardinality(Nodes))
  <2>1. Cardinality(Nodes) \in Nat
    BY NodesAreFinite, FS_CardinalityType
  <2>. HIDE DEF Defines
  <2>. QED  BY <1>3, <2>1
<1>5. OutsideRounds(rules, goals, inner) = CHOOSE f : Defines(f, Cardinality(Nodes))
  BY DEF OutsideRounds, next, first, GoalsOnly
<1>6. Defines(OutsideRounds(rules, goals, inner), Cardinality(Nodes))
  <2>. HIDE DEF Defines
  <2>. QED  BY <1>4, <1>5
<1>. QED  BY <1>6 DEF next, first

OutsideRound(rules, goals, inner, n) == ScoreOf(OutsideRounds(rules, goals, inner)[n])

LEMMA OutsideRoundIs ==
  ASSUME NEW rules, \A r \in rules : IsWeighted(r), NEW goals, NEW inner \in [Nodes -> Costs]
  PROVE  /\ OutsideRound(rules, goals, inner, 0) = GoalsOnly(goals)
         /\ \A n \in 0..Cardinality(Nodes) : OutsideRound(rules, goals, inner, n) \in [Nodes -> Costs]
         /\ \A n \in 1..Cardinality(Nodes) : OutsideRound(rules, goals, inner, n) =
                Completed(rules, inner, OutsideRound(rules, goals, inner, n - 1))
<1>. DEFINE last == Cardinality(Nodes)
            D(n) == OutsideRound(rules, goals, inner, n)
            T == {n \in Nat : n \in 0..last => D(n) \in [Nodes -> Costs]}
<1>0. last \in Nat
  BY NodesAreFinite, FS_CardinalityType
<1>1. \A n \in 0..last : OutsideRounds(rules, goals, inner)[n] =
         IF n = 0 THEN Pairs(GoalsOnly(goals)) ELSE Pairs(Completed(rules, inner, D(n - 1)))
  <2>. DEFINE round == OutsideRounds(rules, goals, inner)
  <2>1. round = [n \in 0..last |-> IF n = 0 THEN Pairs(GoalsOnly(goals))
                                   ELSE Pairs(Completed(rules, inner, ScoreOf(round[n - 1])))]
    BY OutsideRoundsExist
  <2>. HIDE DEF round, last
  <2>. QED  BY <2>1 DEF OutsideRound, round
<1>2. D(0) = GoalsOnly(goals)
  <2>1. OutsideRounds(rules, goals, inner)[0] = Pairs(GoalsOnly(goals))
    BY <1>0, <1>1
  <2>. QED  BY <2>1, ScoreOfPairs DEF OutsideRound, GoalsOnly
<1>3. ASSUME NEW n \in 1..last PROVE D(n) = Completed(rules, inner, D(n - 1))
  <2>1. OutsideRounds(rules, goals, inner)[n] = Pairs(Completed(rules, inner, D(n - 1)))
    BY <1>0, <1>1
  <2>2. ScoreOf(Pairs(Completed(rules, inner, D(n - 1)))) = Completed(rules, inner, D(n - 1))
    BY ScoreOfPairs DEF Completed
  <2>. QED  BY <2>1, <2>2 DEF OutsideRound
<1>. HIDE DEF D
<1>4. 0 \in T
  BY <1>2, InfinityIsPositive DEF GoalsOnly, Costs
<1>5. ASSUME NEW n \in Nat, n \in T PROVE n + 1 \in T
  <2>. SUFFICES ASSUME n + 1 \in 0..last PROVE D(n + 1) \in [Nodes -> Costs]
    OBVIOUS
  <2>1. n \in 0..last /\ n + 1 \in 1..last /\ (n + 1) - 1 = n
    BY <1>0
  <2>2. D(n + 1) = Completed(rules, inner, D(n)) /\ D(n) \in [Nodes -> Costs]
    BY <1>3, <1>5, <2>1
  <2>3. Completed(rules, inner, D(n)) \in [Nodes -> Costs]
    BY <2>2, CompletedIs
  <2>. QED  BY <2>2, <2>3
<1>6. Nat \subseteq T
  <2>. HIDE DEF T
  <2>. QED  BY <1>4, <1>5, SetInduction
<1>. QED  BY <1>0, <1>2, <1>3, <1>6 DEF D

(* Rounds never fall below scores that no rule contradicts. *)
LEMMA OutsideRoundsAbove ==
  ASSUME NEW rules, \A r \in rules : IsWeighted(r), NEW goals, NEW inner \in [Nodes -> Costs],
         NEW outer \in [Nodes -> Costs],
         \A q \in Nodes \cap goals : outer[q] = 0,
         \A x \in ChildPlaces(rules) : outer[x[1].children[x[2]]] <= PlaceCost(x, inner, outer)
  PROVE  \A n \in 0..Cardinality(Nodes) : \A q \in Nodes :
            outer[q] <= OutsideRound(rules, goals, inner, n)[q]
<1>. DEFINE last == Cardinality(Nodes)
            D(n) == OutsideRound(rules, goals, inner, n)
            T == {n \in Nat : n \in 0..last => \A q \in Nodes : outer[q] <= D(n)[q]}
<1>0. last \in Nat
  BY NodesAreFinite, FS_CardinalityType
<1>1. /\ D(0) = GoalsOnly(goals)
      /\ \A n \in 0..last : D(n) \in [Nodes -> Costs]
      /\ \A n \in 1..last : D(n) = Completed(rules, inner, D(n - 1))
  BY OutsideRoundIs
<1>. HIDE DEF D
<1>2. 0 \in T
  BY <1>1 DEF GoalsOnly, Costs
<1>3. ASSUME NEW n \in Nat, n \in T PROVE n + 1 \in T
  <2>. SUFFICES ASSUME n + 1 \in 0..last, NEW q \in Nodes PROVE outer[q] <= D(n + 1)[q]
    OBVIOUS
  <2>1. n \in 0..last /\ n + 1 \in 1..last /\ (n + 1) - 1 = n
    BY <1>0
  <2>2. D(n + 1) = Completed(rules, inner, D(n)) /\ D(n) \in [Nodes -> Costs]
    BY <1>1, <2>1
  <2>3. \A p \in Nodes : outer[p] <= D(n)[p]
    BY <1>3, <2>1
  <2>4. CASE D(n + 1)[q] = D(n)[q]
    BY <2>3, <2>4
  <2>5. CASE \E x \in ChildPlaces(rules) : x[1].children[x[2]] = q /\ D(n + 1)[q] = PlaceCost(x, inner, D(n))
    <3>1. PICK x \in ChildPlaces(rules) : x[1].children[x[2]] = q /\ D(n + 1)[q] = PlaceCost(x, inner, D(n))
      BY <2>5
    <3>2. outer[q] <= PlaceCost(x, inner, outer)
      BY <3>1
    <3>3. PlaceCost(x, inner, outer) <= PlaceCost(x, inner, D(n))
      BY <2>2, <2>3, ChildPlaceIs, PlaceCostMonotone
    <3>4. PlaceCost(x, inner, outer) \in Nat /\ PlaceCost(x, inner, D(n)) \in Nat /\ outer[q] \in Nat
      BY <2>2, PlaceCostIs DEF Costs
    <3>. QED  BY <3>1, <3>2, <3>3, <3>4
  <2>. QED  BY <2>2, <2>4, <2>5, CompletedIs
<1>4. Nat \subseteq T
  <2>. HIDE DEF T
  <2>. QED  BY <1>2, <1>3, SetInduction
<1>. QED  BY <1>0, <1>4 DEF D

(* The places that attain the scores lead from the goals to every state     *)
(* that has one.                                                            *)
OutsideAttained(rules, goals, inner, outer) ==
    \A S \in SUBSET Nodes :
       /\ goals \subseteq S
       /\ \A x \in ChildPlaces(rules) :
             x[1].result \in S /\ outer[x[1].children[x[2]]] = PlaceCost(x, inner, outer)
             => x[1].children[x[2]] \in S
       => {q \in Nodes : outer[q] < Infinity} \subseteq S

(* Every round settles a state, or all are settled. *)
LEMMA OutsideIsBest ==
  ASSUME NEW rules, \A r \in rules : IsWeighted(r), NEW goals \in SUBSET Nodes,
         NEW inner \in [Nodes -> Costs], NEW outer \in [Nodes -> Costs],
         \A q \in goals : outer[q] = 0,
         \A x \in ChildPlaces(rules) : outer[x[1].children[x[2]]] <= PlaceCost(x, inner, outer),
         OutsideAttained(rules, goals, inner, outer)
  PROVE  BestOutside(rules, goals, inner) = outer
<1>. DEFINE last == Cardinality(Nodes)
            D(n) == OutsideRound(rules, goals, inner, n)
            S(n) == {q \in Nodes : D(n)[q] = outer[q]}
            T == {n \in Nat : n \in 0..last => S(n) = Nodes \/ n <= Cardinality(S(n))}
<1>0. last \in Nat
  BY NodesAreFinite, FS_CardinalityType
<1>2. /\ D(0) = GoalsOnly(goals)
      /\ \A n \in 0..last : D(n) \in [Nodes -> Costs]
      /\ \A n \in 1..last : D(n) = Completed(rules, inner, D(n - 1))
  <2>1. (\A r \in rules : IsWeighted(r)) /\ inner \in [Nodes -> Costs]
    OBVIOUS
  <2>. QED  BY ONLY <2>1, OutsideRoundIs DEF D, last
<1>1. \A n \in 0..last : D(n) \in [Nodes -> Costs] /\ \A q \in Nodes : outer[q] <= D(n)[q]
  BY <1>2, OutsideRoundsAbove
<1>3. \A n : S(n) \subseteq Nodes /\ IsFiniteSet(S(n)) /\ Cardinality(S(n)) \in Nat
  <2>. TAKE n
  <2>1. S(n) \in SUBSET Nodes
    OBVIOUS
  <2>. HIDE DEF S
  <2>. QED  BY <2>1, NodesAreFinite, FS_Subset, FS_CardinalityType
<1>. HIDE DEF D
<1>5. ASSUME NEW n \in Nat, n + 1 \in 0..last
      PROVE  /\ n \in 0..last /\ D(n + 1) = Completed(rules, inner, D(n))
             /\ D(n) \in [Nodes -> Costs] /\ D(n + 1) \in [Nodes -> Costs]
             /\ \A q \in Nodes : outer[q] <= D(n + 1)[q] /\ D(n + 1)[q] <= D(n)[q]
             /\ \A x \in ChildPlaces(rules) : D(n + 1)[x[1].children[x[2]]] <= PlaceCost(x, inner, D(n))
  <2>1. n + 1 \in 1..last /\ n \in 0..last /\ (n + 1) - 1 = n
    BY <1>0, <1>5
  <2>2. D(n + 1) = Completed(rules, inner, D(n)) /\ D(n) \in [Nodes -> Costs] /\ D(n + 1) \in [Nodes -> Costs]
    BY <1>1, <1>2, <1>5, <2>1
  <2>. QED  BY <1>1, <1>5, <2>1, <2>2, CompletedIs
<1>6. ASSUME NEW n \in Nat, n + 1 \in 0..last PROVE S(n) \subseteq S(n + 1)
  <2>. SUFFICES ASSUME NEW q \in Nodes, D(n)[q] = outer[q] PROVE D(n + 1)[q] = outer[q]
    OBVIOUS
  <2>1. D(n + 1)[q] <= D(n)[q] /\ outer[q] <= D(n + 1)[q] /\ D(n + 1)[q] \in Nat /\ D(n)[q] \in Nat
    BY <1>5, <1>6 DEF Costs
  <2>. QED  BY <2>1
<1>7. \A n \in Nat : n \in 0..last => goals \subseteq S(n)
  <2>. DEFINE U == {n \in Nat : n \in 0..last => goals \subseteq S(n)}
  <2>1. 0 \in U
    BY <1>2 DEF GoalsOnly
  <2>2. ASSUME NEW n \in Nat, n \in U PROVE n + 1 \in U
    <3>. SUFFICES ASSUME n + 1 \in 0..last PROVE goals \subseteq S(n + 1)
      OBVIOUS
    <3>1. goals \subseteq S(n) /\ S(n) \subseteq S(n + 1)
      BY <1>5, <1>6, <2>2
    <3>. QED  BY <3>1
  <2>3. Nat \subseteq U
    <3>. HIDE DEF U
    <3>. QED  BY <2>1, <2>2, SetInduction
  <2>. QED  BY <2>3
<1>8. ASSUME NEW n \in Nat, n + 1 \in 0..last, S(n + 1) \subseteq S(n) PROVE S(n) = Nodes
  <2>1. n \in 0..last /\ goals \subseteq S(n)
    BY <1>5, <1>7, <1>8
  <2>2. ASSUME NEW x \in ChildPlaces(rules), x[1].result \in S(n),
               outer[x[1].children[x[2]]] = PlaceCost(x, inner, outer)
        PROVE  x[1].children[x[2]] \in S(n)
    <3>. DEFINE child == x[1].children[x[2]]
    <3>1. child \in Nodes /\ x[1].result \in Nodes
      BY ChildPlaceIs
    <3>2. PlaceCost(x, inner, D(n)) = PlaceCost(x, inner, outer)
      BY <2>2 DEF PlaceCost
    <3>3. D(n + 1)[child] <= PlaceCost(x, inner, D(n)) /\ outer[child] <= D(n + 1)[child]
      BY <1>5, <1>8, <3>1
    <3>4. D(n + 1)[child] \in Nat /\ outer[child] \in Nat
      BY <1>5, <1>8, <3>1 DEF Costs
    <3>5. D(n + 1)[child] = outer[child]
      BY <2>2, <3>2, <3>3, <3>4
    <3>6. child \in S(n + 1)
      BY ONLY <3>1, <3>5 DEF S
    <3>. QED  BY ONLY <1>8, <3>6
  <2>3. {q \in Nodes : outer[q] < Infinity} \subseteq S(n)
    <3>1. S(n) \in SUBSET Nodes
      OBVIOUS
    <3>. HIDE DEF S
    <3>. QED  BY <2>1, <2>2, <3>1 DEF OutsideAttained
  <2>4. ASSUME NEW q \in Nodes, ~(outer[q] < Infinity) PROVE q \in S(n)
    <3>1. outer[q] \in Costs /\ D(n)[q] \in Costs /\ outer[q] <= D(n)[q]
      BY <1>1, <2>1
    <3>2. outer[q] = Infinity /\ D(n)[q] = Infinity
      BY <2>4, <3>1, InfinityIsPositive DEF Costs
    <3>. QED  BY <3>2
  <2>. QED  BY <2>3, <2>4
<1>. HIDE DEF S
<1>9. 0 \in T
  BY <1>3
<1>10. ASSUME NEW n \in Nat, n \in T PROVE n + 1 \in T
  <2>. SUFFICES ASSUME n + 1 \in 0..last, S(n + 1) # Nodes PROVE n + 1 <= Cardinality(S(n + 1))
    OBVIOUS
  <2>1. n \in 0..last
    BY <1>5
  <2>2. S(n) \subseteq S(n + 1) /\ S(n) \subseteq Nodes /\ S(n + 1) \subseteq Nodes
    BY <1>3, <1>6
  <2>3. S(n) # Nodes
    BY <2>2
  <2>4. ~(S(n + 1) \subseteq S(n))
    BY <1>8, <2>3
  <2>5. n <= Cardinality(S(n))
    BY <1>10, <2>1, <2>3
  <2>6. /\ Cardinality(S(n)) <= Cardinality(S(n + 1))
        /\ Cardinality(S(n + 1)) = Cardinality(S(n)) => S(n + 1) = S(n)
    BY <1>3, <2>2, FS_Subset
  <2>. QED  BY <1>3, <2>4, <2>5, <2>6
<1>11. Nat \subseteq T
  <2>. HIDE DEF T
  <2>. QED  BY <1>9, <1>10, SetInduction
<1>12. S(last) = Nodes
  <2>1. S(last) = Nodes \/ last <= Cardinality(S(last))
    BY <1>0, <1>11
  <2>2. Cardinality(S(last)) <= last /\ (Cardinality(Nodes) = Cardinality(S(last)) => Nodes = S(last))
    BY <1>3, NodesAreFinite, FS_Subset
  <2>. QED  BY <1>0, <1>3, <2>1, <2>2
<1>13. D(last) = outer
  BY <1>0, <1>1, <1>12 DEF S
<1>. QED  BY <1>13 DEF BestOutside, D, OutsideRound
=============================================================================
