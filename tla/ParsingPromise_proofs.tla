------------------------ MODULE ParsingPromise_proofs ------------------------
(***************************************************************************)
(* What a caller sees of a parse: the steps of the sibling finder, and so  *)
(* of all four strategies, are those of ProductClosure, for all automata,  *)
(* homomorphisms and jobs and under cancellation at any moment.            *)
(***************************************************************************)
EXTENDS ChartPromise_proofs

-----------------------------------------------------------------------------
(* The evaluations of a term: the fold of Evaluations, node by node.        *)

(* h has a state at every node; at n it is a result of the operation, or    *)
(* what an operation above takes.                                           *)
NodeFits(alg, term, h, n) ==
    IF IsOperation(term, n)
      THEN /\ h[n] \in alg.states
           /\ \E r \in alg.rules : /\ r.symbol = term[n].label /\ r.result = h[n]
                                   /\ r.children = [i \in DOMAIN Children(term, n) |-> h[Children(term, n)[i]]]
      ELSE h[n] \in Operands(alg, term, n)

(* The states that can be put before those of the later nodes. *)
ResultsBefore(alg, term, n, e) ==
    IF IsOperation(term, n)
      THEN {q \in alg.states :
               <<term[n].label, [i \in DOMAIN Children(term, n) |-> e[Children(term, n)[i] - n]], q>> \in
                   {<<r.symbol, r.children, r.result>> : r \in alg.rules}}
      ELSE Operands(alg, term, n)

Extended(alg, term, n, E) == UNION {{<<q>> \o e : q \in ResultsBefore(alg, term, n, e)} : e \in E}

(* E[k] has the evaluations of the nodes from k on. *)
IsFold(alg, term, E) ==
    /\ Evaluations(alg, term) = E[1]
    /\ E[Len(term) + 1] = {<<>>}
    /\ \A k \in 1..Len(term) : E[k] = Extended(alg, term, k, E[k + 1])

HasFold(alg, term) == \E E : IsFold(alg, term, E)

LEMMA EvaluationsFold ==
  ASSUME NEW alg, NEW term, DOMAIN term = 1..Len(term), Len(term) \in Nat
  PROVE  HasFold(alg, term)
<1>. DEFINE len == Len(term)
            kids == [n \in DOMAIN term |-> Children(term, n)]
            facts == {<<r.symbol, r.children, r.result>> : r \in alg.rules}
            operands == [n \in DOMAIN term |-> Operands(alg, term, n)]
            below(n, e) == [i \in DOMAIN kids[n] |-> e[kids[n][i] - n]]
            results(n, e) ==
                IF IsOperation(term, n)
                  THEN {q \in alg.states : <<term[n].label, below(n, e), q>> \in facts}
                  ELSE operands[n]
            extend(n, E) == UNION {{<<q>> \o e : q \in results(n, e)} : e \in E}
            places == [i \in DOMAIN term |-> i]
            first(s) == CHOOSE x \in s : \A y \in s : x <= y
            value(f, s) == IF s = {} THEN {<<>>} ELSE extend(places[first(s)], f[s \ {first(s)}])
            Defines(f, m) == f = [s \in SUBSET ((len - m + 1)..len) |-> value(f, s)]
            iter == CHOOSE f : f = [s \in SUBSET DOMAIN places |-> value(f, s)]
<1>1. Evaluations(alg, term) = iter[DOMAIN places]
  BY DEF Evaluations, FoldRightDomain, FoldRight, MapThenFoldSet, Min
<1>2. DOMAIN places = 1..len /\ \A n \in 1..len : places[n] = n
  OBVIOUS
<1>. HIDE DEF extend, places
<1>. DEFINE U == {m \in Nat : m <= len => \E f : Defines(f, m)}
<1>3. 0 \in U
  <2>. DEFINE g == [s \in SUBSET ((len - 0 + 1)..len) |-> {<<>>}]
  <2>1. (len - 0 + 1)..len = {}
    OBVIOUS
  <2>2. Defines(g, 0)
    BY <2>1
  <2>. HIDE DEF Defines, g
  <2>. QED  BY <2>2
<1>4. ASSUME NEW m \in Nat, m \in U PROVE m + 1 \in U
  <2>. HIDE DEF Defines
  <2>. SUFFICES ASSUME m + 1 <= len PROVE \E f : Defines(f, m + 1)
    OBVIOUS
  <2>1. PICK f : Defines(f, m)
    BY <1>4
  <2>. USE DEF Defines
  <2>. DEFINE D == (len - m + 1)..len
              k == len - m
              g == [s \in SUBSET ((len - (m + 1) + 1)..len) |-> IF s \in SUBSET D THEN f[s] ELSE value(f, s)]
  <2>2. /\ (len - (m + 1) + 1)..len = {k} \cup D /\ k \notin D
        /\ \A n \in {k} \cup D : k <= n /\ (n <= k => n = k)
    <3>1. k \in Nat /\ len - (m + 1) + 1 = k /\ len - m + 1 = k + 1
      OBVIOUS
    <3>2. k..len = {k} \cup ((k + 1)..len) /\ k \notin (k + 1)..len
      <4>. HIDE DEF k
      <4>1. len \in Nat /\ k \in Nat /\ k <= len
        BY <3>1 DEF k
      <4>. HIDE DEF len
      <4>. QED  BY <4>1
    <3>3. \A n \in k..len : k <= n /\ (n <= k => n = k)
      <4>. HIDE DEF k
      <4>. QED  BY <3>1
    <3>. QED  BY <3>1, <3>2, <3>3
  <2>. HIDE DEF D, k
  <2>3. ASSUME NEW s \in SUBSET ({k} \cup D) PROVE g[s] = value(g, s)
    <3>1. CASE s = {}
      BY <2>1, <2>2, <3>1 DEF D
    <3>2. CASE s # {} /\ s \in SUBSET D
      <4>1. s \ {first(s)} \in SUBSET D
        BY <3>2
      <4>2. g[s \ {first(s)}] = f[s \ {first(s)}] /\ g[s] = f[s]
        BY <2>2, <3>2, <4>1
      <4>3. f[s] = value(f, s)
        BY <2>1, <3>2 DEF D
      <4>. HIDE DEF first, g
      <4>. QED  BY <3>2, <4>2, <4>3
    <3>3. CASE s # {} /\ s \notin SUBSET D
      <4>1. k \in s /\ \A y \in s : k <= y /\ (y <= k => y = k)
        BY <2>2, <3>3
      <4>2. first(s) = k
        BY <4>1
      <4>3. s \ {first(s)} \in SUBSET D
        BY <4>2
      <4>4. g[s \ {first(s)}] = f[s \ {first(s)}] /\ g[s] = value(f, s)
        BY <2>2, <3>3, <4>3
      <4>. HIDE DEF first, g
      <4>. QED  BY <3>3, <4>4
    <3>. QED  BY <3>1, <3>2, <3>3
  <2>4. Defines(g, m + 1)
    <3>. HIDE DEF value
    <3>1. g = [s \in SUBSET ((len - (m + 1) + 1)..len) |-> g[s]]
      OBVIOUS
    <3>. HIDE DEF g
    <3>. QED  BY <2>2, <2>3, <3>1
  <2>. HIDE DEF Defines, g
  <2>. QED  BY <2>4
<1>5. \E f : Defines(f, len)
  <2>. HIDE DEF Defines
  <2>1. Nat \subseteq U
    <3>. HIDE DEF U
    <3>. QED  BY <1>3, <1>4, SetInduction
  <2>. QED  BY <2>1
<1>6. iter = [s \in SUBSET (1..len) |-> value(iter, s)]
  <2>1. (len - len + 1)..len = 1..len
    OBVIOUS
  <2>2. \E f : f = [s \in SUBSET DOMAIN places |-> value(f, s)]
    <3>. HIDE DEF value
    <3>. QED  BY <1>2, <1>5, <2>1
  <2>. HIDE DEF value
  <2>3. iter = [s \in SUBSET DOMAIN places |-> value(iter, s)]
    BY <2>2
  <2>. QED  BY <1>2, <2>3
<1>. HIDE DEF iter
<1>. DEFINE E == [k \in 1..(len + 1) |-> iter[k..len]]
<1>7. Evaluations(alg, term) = E[1]
  BY <1>1, <1>2
<1>8. E[len + 1] = {<<>>}
  <2>1. (len + 1)..len = {} /\ {} \in SUBSET (1..len) /\ len + 1 \in 1..(len + 1)
    OBVIOUS
  <2>2. E[len + 1] = iter[{}]
    BY <2>1
  <2>. QED  BY <1>6, <2>1, <2>2
<1>9. ASSUME NEW k \in 1..len PROVE E[k] = extend(k, E[k + 1])
  <2>1. /\ k \in k..len /\ (k..len) \ {k} = (k + 1)..len /\ k..len \in SUBSET (1..len)
        /\ k + 1 \in 1..(len + 1) /\ k \in 1..(len + 1)
        /\ \A y \in k..len : k <= y /\ (y <= k => y = k)
    OBVIOUS
  <2>2. first(k..len) = k
    BY <2>1
  <2>. HIDE DEF first
  <2>3. iter[k..len] = value(iter, k..len)
    BY <1>6, <2>1
  <2>4. k..len # {}
    BY <2>1
  <2>5. iter[k..len] = extend(k, iter[(k + 1)..len])
    BY <1>2, <2>1, <2>2, <2>3, <2>4
  <2>. QED  BY <2>1, <2>5
<1>10. \A k \in 1..len : \A S : extend(k, S) = Extended(alg, term, k, S)
  <2>. SUFFICES ASSUME NEW k \in 1..len, NEW S PROVE extend(k, S) = Extended(alg, term, k, S)
    OBVIOUS
  <2>1. kids[k] = Children(term, k) /\ operands[k] = Operands(alg, term, k)
    OBVIOUS
  <2>2. \A e : results(k, e) = ResultsBefore(alg, term, k, e)
    <3>. HIDE DEF operands
    <3>. SUFFICES ASSUME NEW e PROVE results(k, e) = ResultsBefore(alg, term, k, e)
      OBVIOUS
    <3>1. below(k, e) = [i \in DOMAIN Children(term, k) |-> e[Children(term, k)[i] - k]]
      BY <2>1
    <3>. HIDE DEF below
    <3>. QED  BY <2>1, <3>1 DEF ResultsBefore
  <2>. HIDE DEF results
  <2>3. \A e : {<<q>> \o e : q \in results(k, e)} = {<<q>> \o e : q \in ResultsBefore(alg, term, k, e)}
    BY <2>2
  <2>. DEFINE A(e) == {<<q>> \o e : q \in results(k, e)}
              B(e) == {<<q>> \o e : q \in ResultsBefore(alg, term, k, e)}
  <2>4. \A e : A(e) = B(e)
    BY <2>3
  <2>5. extend(k, S) = UNION {A(e) : e \in S} /\ Extended(alg, term, k, S) = UNION {B(e) : e \in S}
    BY DEF Extended, extend
  <2>. HIDE DEF A, B
  <2>. QED  BY <2>4, <2>5
<1>. HIDE DEF E, extend
<1>. QED  BY <1>7, <1>8, <1>9, <1>10 DEF HasFold, IsFold

Prepends(alg, term, n, E, f) == \E e \in E : \E q \in ResultsBefore(alg, term, n, e) : f = <<q>> \o e

LEMMA ExtendedIs ==
  ASSUME NEW alg, NEW term, NEW n, NEW E, NEW f
  PROVE  f \in Extended(alg, term, n, E) <=> Prepends(alg, term, n, E, f)
<1>. DEFINE A(e) == {<<q>> \o e : q \in ResultsBefore(alg, term, n, e)}
<1>1. Extended(alg, term, n, E) = UNION {A(e) : e \in E}
  BY DEF Extended
<1>2. \A e : f \in A(e) <=> \E q \in ResultsBefore(alg, term, n, e) : f = <<q>> \o e
  OBVIOUS
<1>. HIDE DEF A
<1>. QED  BY <1>1, <1>2 DEF Prepends

LEMMA NodeFitsSame ==
  ASSUME NEW alg, NEW term, NEW g, NEW h, NEW n, g[n] = h[n],
         \A i \in DOMAIN Children(term, n) : g[Children(term, n)[i]] = h[Children(term, n)[i]],
         NodeFits(alg, term, g, n)
  PROVE  NodeFits(alg, term, h, n)
<1>1. [i \in DOMAIN Children(term, n) |-> g[Children(term, n)[i]]] =
      [i \in DOMAIN Children(term, n) |-> h[Children(term, n)[i]]]
  OBVIOUS
<1>2. PICK below : /\ below = [i \in DOMAIN Children(term, n) |-> g[Children(term, n)[i]]]
                   /\ below = [i \in DOMAIN Children(term, n) |-> h[Children(term, n)[i]]]
  BY <1>1
<1>. QED  BY <1>2, Zenon DEF NodeFits

LEMMA LaterKids ==
  ASSUME NEW id \in DOMAIN Terms, NEW n \in DOMAIN Terms[id], NEW i \in DOMAIN Children(Terms[id], n)
  PROVE  Children(Terms[id], n)[i] \in n + 1..Len(Terms[id])
<1>. DEFINE kid == Children(Terms[id], n)[i]
<1>1. kid \in DOMAIN Terms[id] \ {Root} /\ Terms[id][kid].parent = n
  BY KidIs
<1>2. Terms[id][kid].parent < kid /\ Len(Terms[id]) \in Nat /\ DOMAIN Terms[id] = 1..Len(Terms[id])
  BY <1>1, TermIs
<1>. HIDE DEF kid
<1>. QED  BY <1>1, <1>2 DEF kid

(* What comes before the later nodes fits there. *)
LEMMA ResultsFit ==
  ASSUME NEW alg, NEW id \in DOMAIN Terms, NEW k \in DOMAIN Terms[id], NEW e, NEW h,
         \A m \in k + 1..Len(Terms[id]) : h[m] = e[m - k]
  PROVE  NodeFits(alg, Terms[id], h, k) <=> h[k] \in ResultsBefore(alg, Terms[id], k, e)
<1>. DEFINE kids == Children(Terms[id], k)
<1>1. [i \in DOMAIN kids |-> h[kids[i]]] = [i \in DOMAIN kids |-> e[kids[i] - k]]
  BY LaterKids
<1>2. PICK below : below = [i \in DOMAIN kids |-> h[kids[i]]] /\ below = [i \in DOMAIN kids |-> e[kids[i] - k]]
  BY <1>1
<1>. HIDE DEF kids
<1>3. NodeFits(alg, Terms[id], h, k) <=>
        IF IsOperation(Terms[id], k)
          THEN h[k] \in alg.states /\ \E r \in alg.rules : r.symbol = Terms[id][k].label /\ r.result = h[k] /\ r.children = below
          ELSE h[k] \in Operands(alg, Terms[id], k)
  BY <1>2, Zenon DEF NodeFits, kids
<1>4. ResultsBefore(alg, Terms[id], k, e) =
        IF IsOperation(Terms[id], k)
          THEN {q \in alg.states : <<Terms[id][k].label, below, q>> \in {<<r.symbol, r.children, r.result>> : r \in alg.rules}}
          ELSE Operands(alg, Terms[id], k)
  BY <1>2, Zenon DEF ResultsBefore, kids
<1>5. <<Terms[id][k].label, below, h[k]>> \in {<<r.symbol, r.children, r.result>> : r \in alg.rules} <=>
        \E r \in alg.rules : r.symbol = Terms[id][k].label /\ r.result = h[k] /\ r.children = below
  OBVIOUS
<1>. QED  BY <1>3, <1>4, <1>5

LEMMA EvaluationsFit ==
  ASSUME NEW alg, NEW id \in DOMAIN Terms, NEW e \in Evaluations(alg, Terms[id])
  PROVE  \A n \in DOMAIN Terms[id] : NodeFits(alg, Terms[id], e, n)
<1>. DEFINE term == Terms[id]
            len == Len(term)
<1>1. len \in Nat /\ DOMAIN term = 1..len
  BY TermIs
<1>2. PICK E : /\ Evaluations(alg, term) = E[1] /\ E[len + 1] = {<<>>}
               /\ \A k \in 1..len : E[k] = Extended(alg, term, k, E[k + 1])
  <2>1. HasFold(alg, term)
    BY <1>1, EvaluationsFold
  <2>. QED  BY <2>1 DEF HasFold, IsFold
<1>. DEFINE Shifted(f, k) == [n \in k..len |-> f[n - k + 1]]
            Fit(f, k) == /\ IsRow(f) /\ Len(f) = len - k + 1
                         /\ \A n \in k..len : NodeFits(alg, term, Shifted(f, k), n)
            U == {m \in Nat : m <= len => \A f \in E[len - m + 1] : Fit(f, len - m + 1)}
<1>3. 0 \in U
  <2>1. len - 0 + 1 = len + 1 /\ (len + 1)..len = {}
    BY <1>1
  <2>2. <<>> \in Seq({}) /\ Len(<<>>) = 0
    OBVIOUS
  <2>3. \A f \in E[len + 1] : IsRow(f) /\ Len(f) = 0
    BY <1>2, <2>2 DEF IsRow
  <2>4. len - (len + 1) + 1 = 0
    BY <1>1
  <2>. HIDE DEF Shifted
  <2>. QED  BY <1>1, <2>1, <2>3, <2>4
<1>4. ASSUME NEW m \in Nat, m \in U PROVE m + 1 \in U
  <2>. HIDE DEF Fit
  <2>. SUFFICES ASSUME m + 1 <= len, NEW f \in E[len - (m + 1) + 1] PROVE Fit(f, len - (m + 1) + 1)
    OBVIOUS
  <2>. DEFINE k == len - m
  <2>1. /\ k \in 1..len /\ len - (m + 1) + 1 = k /\ len - m + 1 = k + 1 /\ m <= len
        /\ len - k + 1 = 1 + (len - (k + 1) + 1)
    BY <1>1
  <2>. HIDE DEF k
  <2>2. PICK g \in E[k + 1] : \E q \in ResultsBefore(alg, term, k, g) : f = <<q>> \o g
    <3>1. f \in Extended(alg, term, k, E[k + 1])
      BY <1>2, <2>1
    <3>2. Prepends(alg, term, k, E[k + 1], f)
      BY <3>1, ExtendedIs
    <3>. QED  BY <3>2 DEF Prepends
  <2>13. PICK q \in ResultsBefore(alg, term, k, g) : f = <<q>> \o g
    BY <2>2
  <2>3. Fit(g, k + 1)
    BY <1>4, <2>1, <2>2
  <2>4. IsRow(g) /\ Len(g) = len - (k + 1) + 1 /\ \A n \in k + 1..len : NodeFits(alg, term, Shifted(g, k + 1), n)
    BY <2>3 DEF Fit
  <2>5. /\ IsRow(f) /\ Len(f) = len - k + 1 /\ f[1] = q
        /\ \A j \in 1..Len(g) : f[j + 1] = g[j]
    <3>1. PICK S : g \in Seq(S)
      BY <2>4 DEF IsRow
    <3>2. g \in Seq(S \cup {q}) /\ <<q>> \in Seq(S \cup {q}) /\ Len(<<q>>) = 1 /\ <<q>>[1] = q
      BY <3>1, SeqWiden
    <3>3. /\ f \in Seq(S \cup {q}) /\ Len(f) = Len(<<q>>) + Len(g)
          /\ \A j \in 1..Len(<<q>>) : f[j] = <<q>>[j]
          /\ \A j \in 1..Len(g) : f[j + Len(<<q>>)] = g[j]
      BY <2>13, <3>2, ConcatRange
    <3>. QED  BY <2>1, <2>4, <3>2, <3>3 DEF IsRow
  <2>6. PICK h, h0 : h = Shifted(f, k) /\ h0 = Shifted(g, k + 1)
    OBVIOUS
  <2>7. h[k] = q
    <3>1. k \in k..len /\ k - k + 1 = 1
      BY <2>1
    <3>. QED  BY <2>5, <2>6, <3>1
  <2>8. \A n \in k + 1..len : h[n] = h0[n] /\ h[n] = g[n - k]
    <3>. SUFFICES ASSUME NEW n \in k + 1..len PROVE h[n] = h0[n] /\ h[n] = g[n - k]
      OBVIOUS
    <3>1. /\ n \in k..len /\ n - (k + 1) + 1 = n - k /\ n - k \in 1..Len(g)
          /\ n - k + 1 = (n - k) + 1
      BY <1>1, <2>1, <2>4
    <3>2. h[n] = f[n - k + 1] /\ h0[n] = g[n - k]
      BY <2>6, <3>1
    <3>. QED  BY <2>5, <3>1, <3>2
  <2>9. NodeFits(alg, term, h, k)
    BY <1>1, <2>1, <2>13, <2>7, <2>8, ResultsFit
  <2>10. ASSUME NEW n \in k + 1..len PROVE NodeFits(alg, term, h, n)
    <3>1. NodeFits(alg, term, h0, n)
      BY <2>4, <2>6
    <3>2. n \in DOMAIN term /\ n + 1..len \subseteq k + 1..len
      BY <1>1, <2>1
    <3>3. \A i \in DOMAIN Children(term, n) : h0[Children(term, n)[i]] = h[Children(term, n)[i]]
      BY <2>8, <3>2, LaterKids
    <3>. QED  BY <2>8, <3>1, <3>3, NodeFitsSame
  <2>11. k..len = {k} \cup k + 1..len
    BY <1>1, <2>1
  <2>12. Fit(f, k)
    BY <2>5, <2>6, <2>9, <2>10, <2>11 DEF Fit
  <2>. QED  BY <2>1, <2>12
<1>5. Nat \subseteq U
  <2>. HIDE DEF U
  <2>. QED  BY <1>3, <1>4, SetInduction
<1>6. Fit(e, 1)
  <2>. HIDE DEF Fit
  <2>1. len - len + 1 = 1 /\ len <= len
    BY <1>1
  <2>. QED  BY <1>1, <1>2, <1>5, <2>1
<1>. SUFFICES ASSUME NEW n \in 1..len PROVE NodeFits(alg, term, e, n)
  BY <1>1
<1>7. NodeFits(alg, term, Shifted(e, 1), n)
  BY <1>6
<1>8. \A m \in 1..len : Shifted(e, 1)[m] = e[m]
  BY <1>1
<1>9. \A i \in DOMAIN Children(term, n) : Children(term, n)[i] \in 1..len
  BY <1>1, KidIs
<1>. HIDE DEF Shifted
<1>. QED  BY <1>7, <1>8, <1>9, NodeFitsSame

LEMMA FitsEvaluate ==
  ASSUME NEW alg, NEW id \in DOMAIN Terms, NEW h,
         \A n \in DOMAIN Terms[id] : NodeFits(alg, Terms[id], h, n)
  PROVE  \E e \in Evaluations(alg, Terms[id]) : \A n \in DOMAIN Terms[id] : e[n] = h[n]
<1>. DEFINE term == Terms[id]
            len == Len(term)
<1>1. len \in Nat /\ DOMAIN term = 1..len
  BY TermIs
<1>2. PICK E : /\ Evaluations(alg, term) = E[1] /\ E[len + 1] = {<<>>}
               /\ \A k \in 1..len : E[k] = Extended(alg, term, k, E[k + 1])
  <2>1. HasFold(alg, term)
    BY <1>1, EvaluationsFold
  <2>. QED  BY <2>1 DEF HasFold, IsFold
<1>. DEFINE From(k) == [j \in 1..len - k + 1 |-> h[j + k - 1]]
            U == {m \in Nat : m <= len => From(len - m + 1) \in E[len - m + 1]}
<1>3. 0 \in U
  <2>1. len - 0 + 1 = len + 1 /\ len - (len + 1) + 1 = 0
    BY <1>1
  <2>2. From(len + 1) = <<>>
    BY <2>1
  <2>. HIDE DEF From
  <2>. QED  BY <1>2, <2>1, <2>2
<1>4. ASSUME NEW m \in Nat, m \in U PROVE m + 1 \in U
  <2>. HIDE DEF From
  <2>. SUFFICES ASSUME m + 1 <= len PROVE From(len - (m + 1) + 1) \in E[len - (m + 1) + 1]
    OBVIOUS
  <2>. DEFINE k == len - m
  <2>1. /\ k \in 1..len /\ len - (m + 1) + 1 = k /\ len - m + 1 = k + 1 /\ m <= len
    BY <1>1
  <2>. HIDE DEF k
  <2>2. From(k + 1) \in E[k + 1]
    BY <1>4, <2>1
  <2>3. \A n \in k + 1..len : h[n] = From(k + 1)[n - k]
    <3>. SUFFICES ASSUME NEW n \in k + 1..len PROVE h[n] = From(k + 1)[n - k]
      OBVIOUS
    <3>1. n - k \in 1..len - (k + 1) + 1 /\ (n - k) + (k + 1) - 1 = n
      BY <1>1, <2>1
    <3>. QED  BY <3>1 DEF From
  <2>4. h[k] \in ResultsBefore(alg, term, k, From(k + 1))
    BY <1>1, <2>1, <2>3, ResultsFit
  <2>5. From(k) = <<h[k]>> \o From(k + 1)
    <3>. DEFINE n == len - k
    <3>1. /\ n \in Nat /\ len - k + 1 = n + 1 /\ len - (k + 1) + 1 = n
          /\ \A j \in Int : j + (k + 1) - 1 = j + 1 + k - 1 /\ j + k - 1 = k + (j - 1)
      BY <1>1, <2>1
    <3>. HIDE DEF n
    <3>2. From(k) = [j \in 1..n + 1 |-> h[j + k - 1]] /\ From(k + 1) = [j \in 1..n |-> h[j + (k + 1) - 1]]
      BY <3>1 DEF From
    <3>3. \A N \in Nat : \A f : f = [v \in 1..N |-> f[v]] => IsRow(f) /\ Len(f) = N
      <4>. SUFFICES ASSUME NEW N \in Nat, NEW f, f = [v \in 1..N |-> f[v]] PROVE IsRow(f) /\ Len(f) = N
        OBVIOUS
      <4>1. f \in Seq({f[v] : v \in 1..N}) /\ Len(f) = N
        OBVIOUS
      <4>. QED  BY <4>1 DEF IsRow
    <3>4. /\ IsRow(From(k)) /\ Len(From(k)) = n + 1 /\ IsRow(From(k + 1)) /\ Len(From(k + 1)) = n
          /\ \A j \in 1..n + 1 : From(k)[j] = h[j + k - 1]
          /\ \A j \in 1..n : From(k + 1)[j] = h[j + (k + 1) - 1]
      <4>1. From(k) = [j \in 1..n + 1 |-> From(k)[j]] /\ From(k + 1) = [j \in 1..n |-> From(k + 1)[j]]
        BY <3>2
      <4>2. IsRow(From(k)) /\ Len(From(k)) = n + 1
        BY <3>1, <3>3, <4>1
      <4>3. IsRow(From(k + 1)) /\ Len(From(k + 1)) = n
        BY <3>1, <3>3, <4>1
      <4>4. \A j \in 1..n + 1 : From(k)[j] = h[j + k - 1]
        BY <3>2
      <4>5. \A j \in 1..n : From(k + 1)[j] = h[j + (k + 1) - 1]
        BY <3>2
      <4>. QED  BY <4>2, <4>3, <4>4, <4>5
    <3>6. PICK f : f = <<h[k]>> \o From(k + 1)
      OBVIOUS
    <3>7. /\ IsRow(f) /\ Len(f) = n + 1 /\ f[1] = h[k]
          /\ \A j \in 1..n : f[j + 1] = From(k + 1)[j]
      <4>1. PICK S : From(k + 1) \in Seq(S)
        BY <3>4 DEF IsRow
      <4>2. /\ From(k + 1) \in Seq(S \cup {h[k]}) /\ <<h[k]>> \in Seq(S \cup {h[k]})
            /\ Len(<<h[k]>>) = 1 /\ <<h[k]>>[1] = h[k]
        BY <4>1, SeqWiden
      <4>3. /\ f \in Seq(S \cup {h[k]}) /\ Len(f) = Len(<<h[k]>>) + Len(From(k + 1))
            /\ \A j \in 1..Len(<<h[k]>>) : f[j] = <<h[k]>>[j]
            /\ \A j \in 1..Len(From(k + 1)) : f[j + Len(<<h[k]>>)] = From(k + 1)[j]
        BY <3>6, <4>2, ConcatRange
      <4>4. IsRow(f)
        BY ONLY <4>3 DEF IsRow
      <4>5. n \in Nat /\ Len(From(k + 1)) = n
        BY <3>1, <3>4
      <4>6. Len(f) = n + 1
        BY ONLY <4>2, <4>3, <4>5
      <4>7. f[1] = h[k]
        <5>1. 1 \in 1..Len(<<h[k]>>)
          BY ONLY <4>2
        <5>. QED  BY <4>2, <4>3, <5>1
      <4>8. \A j \in 1..n : f[j + 1] = From(k + 1)[j]
        BY ONLY <4>2, <4>3, <4>5
      <4>. QED  BY <4>4, <4>6, <4>7, <4>8
    <3>5. ASSUME NEW j \in 1..n + 1 PROVE From(k)[j] = f[j]
      <4>1. CASE j = 1
        <5>1. j + k - 1 = k
          BY <2>1, <4>1
        <5>. QED  BY <3>4, <3>7, <4>1, <5>1
      <4>2. CASE j # 1
        <5>1. j - 1 \in 1..n /\ (j - 1) + (k + 1) - 1 = j + k - 1 /\ (j - 1) + 1 = j
          BY <2>1, <3>1, <4>2
        <5>. QED  BY <3>4, <3>7, <4>2, <5>1
      <4>. QED  BY <4>1, <4>2
    <3>. QED  BY <3>4, <3>5, <3>6, <3>7, RowFacts
  <2>6. From(k) \in Extended(alg, term, k, E[k + 1])
    BY <2>2, <2>4, <2>5, ExtendedIs DEF Prepends
  <2>. QED  BY <1>2, <2>1, <2>6
<1>5. Nat \subseteq U
  <2>. HIDE DEF U
  <2>. QED  BY <1>3, <1>4, SetInduction
<1>6. From(1) \in Evaluations(alg, term)
  <2>. HIDE DEF From
  <2>1. len - len + 1 = 1 /\ len <= len
    BY <1>1
  <2>. QED  BY <1>1, <1>2, <1>5, <2>1
<1>7. \A n \in DOMAIN term : From(1)[n] = h[n]
  BY <1>1
<1>. HIDE DEF From
<1>. QED  BY <1>6, <1>7

-----------------------------------------------------------------------------
(* Rows: the states at the variables below a node. *)

LEMMA VariablesAre ==
  ASSUME NEW id \in DOMAIN Terms, Sibling!IsBinary(id), NEW n \in DOMAIN Terms[id]
  PROVE  LET kids == Children(Terms[id], n)
             variables(m) == VariableNodes(Terms[id], m)
         IN  /\ ~IsOperation(Terms[id], n) => variables(n) = <<n>>
             /\ IsOperation(Terms[id], n) =>
                   /\ Len(kids) = 0 => variables(n) = <<>>
                   /\ Len(kids) = 1 => variables(n) = variables(kids[1])
                   /\ Len(kids) = 2 => variables(n) = variables(kids[1]) \o variables(kids[2])
<1>. DEFINE term == Terms[id]
            kids == Children(term, n)
            below == [i \in DOMAIN kids |-> VariableNodes(term, kids[i])]
<1>1. /\ \A m \in DOMAIN term : VariableNodes(term, m) \in Seq(DOMAIN term)
      /\ kids \in Seq(DOMAIN term)
      /\ VariableNodes(term, n) = IF IsOperation(term, n) THEN FlattenSeq(below) ELSE <<n>>
  BY TermsAreTrees DEF IsTree
<1>2. Len(kids) \in {0, 1, 2} /\ DOMAIN kids = 1..Len(kids)
  BY KidsAre
<1>. HIDE DEF term, kids
<1>3. below \in Seq(Seq(DOMAIN term)) /\ Len(below) = Len(kids)
      /\ \A i \in 1..Len(kids) : below[i] = VariableNodes(term, kids[i])
  <2>1. \A i \in 1..Len(kids) : kids[i] \in DOMAIN term
    BY <1>1, <1>2
  <2>. QED  BY <1>1, <1>2, <2>1
<1>. HIDE DEF below
<1>4. FlattenSeq(below) = IF Len(kids) = 0 THEN <<>>
                          ELSE IF Len(kids) = 1 THEN below[1] ELSE below[1] \o below[2]
  <2>1. Len(below) <= 2
    <3>1. PICK k : k = Len(kids)
      OBVIOUS
    <3>2. k <= 2
      BY <1>2, <3>1
    <3>. QED  BY <1>3, <3>1, <3>2
  <2>. QED  BY <1>3, <2>1, FlattenShort
<1>5. /\ Len(kids) = 1 => below[1] = VariableNodes(term, kids[1])
      /\ Len(kids) = 2 => below[1] = VariableNodes(term, kids[1]) /\ below[2] = VariableNodes(term, kids[2])
  BY <1>3
<1>6. /\ Len(kids) = 0 => FlattenSeq(below) = <<>>
      /\ Len(kids) = 1 => FlattenSeq(below) = VariableNodes(term, kids[1])
      /\ Len(kids) = 2 => FlattenSeq(below) = VariableNodes(term, kids[1]) \o VariableNodes(term, kids[2])
  <2>1. 1 # 0 /\ 2 # 0 /\ 2 # 1
    OBVIOUS
  <2>. QED  BY <1>4, <1>5, <2>1, Zenon
<1>. QED  BY <1>1, <1>6, Zenon DEF term, kids

(* Every variable is below the root. *)
LEMMA AllVariables ==
  ASSUME NEW id \in DOMAIN Terms, Sibling!IsBinary(id), NEW m \in DOMAIN Terms[id], ~IsOperation(Terms[id], m)
  PROVE  Root \in DOMAIN Terms[id] /\ \E k \in 1..Width(id, Root) : VariableNodes(Terms[id], Root)[k] = m
<1>. DEFINE term == Terms[id]
            T == {a \in DOMAIN term : m \in Range(VariableNodes(term, a))}
<1>1. Len(term) \in Nat /\ DOMAIN term = 1..Len(term) /\ \A a \in DOMAIN term : VariableNodes(term, a) \in Seq(DOMAIN term)
  BY TermIs
<1>2. m \in T
  <2>1. VariableNodes(term, m) = <<m>>
    BY VariablesAre
  <2>. QED  BY <2>1 DEF Range
<1>3. PICK a \in T : \A b \in T : a <= b
  <2>1. T \subseteq Nat /\ T # {}
    BY <1>1, <1>2
  <2>. HIDE DEF T
  <2>. QED  BY <2>1, LeastElement
<1>4. a = Root
  <2>. SUFFICES ASSUME a # Root PROVE FALSE
    OBVIOUS
  <2>. DEFINE above == term[a].parent
              kids == Children(term, above)
              place == term[a].position
  <2>1. /\ above \in DOMAIN term /\ above < a /\ IsOperation(term, above)
        /\ place \in DOMAIN kids /\ a = kids[place]
    BY <1>3, TermIs
  <2>2. Len(kids) \in {0, 1, 2} /\ DOMAIN kids = 1..Len(kids)
    BY <2>1, KidsAre
  <2>3. /\ Len(kids) = 1 => VariableNodes(term, above) = VariableNodes(term, kids[1])
        /\ Len(kids) = 2 => VariableNodes(term, above) = VariableNodes(term, kids[1]) \o VariableNodes(term, kids[2])
    BY <2>1, VariablesAre
  <2>4. \A i \in DOMAIN kids : VariableNodes(term, kids[i]) \in Seq(DOMAIN term)
    BY <1>1, <2>1, KidIs
  <2>5. m \in Range(VariableNodes(term, kids[place]))
    BY <1>3, <2>1
  <2>. HIDE DEF kids, place, above, term
  <2>6. (Len(kids) = 1 /\ place = 1) \/ (Len(kids) = 2 /\ place \in {1, 2})
    BY <2>1, <2>2
  <2>7. m \in Range(VariableNodes(term, above))
    <3>1. CASE Len(kids) = 1
      BY <2>3, <2>5, <2>6, <3>1
    <3>2. CASE Len(kids) = 2
      <4>1. 1 \in DOMAIN kids /\ 2 \in DOMAIN kids
        BY <2>2, <3>2
      <4>3. PICK s, t : s = VariableNodes(term, kids[1]) /\ t = VariableNodes(term, kids[2])
        OBVIOUS
      <4>4. s \in Seq(DOMAIN term) /\ t \in Seq(DOMAIN term) /\ VariableNodes(term, above) = s \o t
        BY <2>3, <2>4, <3>2, <4>1, <4>3
      <4>2. Range(VariableNodes(term, above)) = Range(s) \cup Range(t)
        BY <4>4, ConcatRange
      <4>. QED  BY <2>5, <2>6, <3>2, <4>2, <4>3
    <3>. QED  BY <2>6, <3>1, <3>2
  <2>8. above \in T
    BY <2>1, <2>7 DEF term
  <2>9. a <= above /\ above \in Nat /\ a \in Nat
    BY <1>1, <1>3, <2>1, <2>8 DEF term
  <2>. QED  BY <2>1, <2>9
<1>5. m \in Range(VariableNodes(term, Root)) /\ Root \in DOMAIN term
  BY <1>3, <1>4
<1>6. Range(VariableNodes(term, Root)) = {VariableNodes(term, Root)[k] : k \in 1..Width(id, Root)}
  BY <1>1, <1>5, SeqFacts DEF Width
<1>. QED  BY <1>5, <1>6

(* In the order of the term. *)
TermRow(id, h, n) == [k \in 1..Width(id, n) |-> h[VariableNodes(Terms[id], n)[k]]]

(* At the root, in the order of the rule's children. *)
RowOf(id, h, n) ==
    IF n = Root THEN [v \in 1..Arity(Terms[id]) |-> h[VariableNode(Terms[id], v)]] ELSE TermRow(id, h, n)

LEMMA FunctionIsRow ==
  ASSUME NEW N \in Nat, NEW f, f = [k \in 1..N |-> f[k]]
  PROVE  IsRow(f) /\ Len(f) = N /\ DOMAIN f = 1..N
<1>1. f \in Seq({f[k] : k \in 1..N}) /\ Len(f) = N /\ DOMAIN f = 1..N
  OBVIOUS
<1>. QED  BY <1>1 DEF IsRow

LEMMA TermRowIs ==
  ASSUME NEW id \in DOMAIN Terms, NEW n \in DOMAIN Terms[id], NEW h
  PROVE  /\ IsRow(TermRow(id, h, n)) /\ Len(TermRow(id, h, n)) = Width(id, n) /\ Width(id, n) \in Nat
         /\ DOMAIN TermRow(id, h, n) = 1..Width(id, n)
         /\ \A k \in 1..Width(id, n) : TermRow(id, h, n)[k] = h[VariableNodes(Terms[id], n)[k]]
<1>1. Width(id, n) \in Nat
  BY WidthIs
<1>2. PICK f : f = TermRow(id, h, n)
  OBVIOUS
<1>3. f = [k \in 1..Width(id, n) |-> h[VariableNodes(Terms[id], n)[k]]]
  BY <1>2 DEF TermRow
<1>4. f = [k \in 1..Width(id, n) |-> f[k]]
  BY <1>3
<1>5. IsRow(f) /\ Len(f) = Width(id, n) /\ DOMAIN f = 1..Width(id, n)
  BY <1>1, <1>4, FunctionIsRow
<1>. QED  BY <1>1, <1>2, <1>3, <1>5

LEMMA TermRowJoins ==
  ASSUME NEW id \in DOMAIN Terms, Sibling!IsBinary(id), NEW n \in DOMAIN Terms[id], NEW h
  PROVE  LET kids == Children(Terms[id], n)
         IN  /\ ~IsOperation(Terms[id], n) => TermRow(id, h, n) = <<h[n]>>
             /\ IsOperation(Terms[id], n) =>
                   /\ Len(kids) = 0 => TermRow(id, h, n) = <<>>
                   /\ Len(kids) = 1 => TermRow(id, h, n) = TermRow(id, h, kids[1])
                   /\ Len(kids) = 2 => TermRow(id, h, n) = TermRow(id, h, kids[1]) \o TermRow(id, h, kids[2])
<1>. DEFINE kids == Children(Terms[id], n)
            vars_of(m) == VariableNodes(Terms[id], m)
<1>1. DOMAIN kids = 1..Len(kids) /\ \A i \in DOMAIN kids : kids[i] \in DOMAIN Terms[id]
  BY KidsAre, KidIs
<1>2. \A m \in DOMAIN Terms[id] : vars_of(m) \in Seq(DOMAIN Terms[id])
  BY TermIs
<1>3. CASE ~IsOperation(Terms[id], n)
  <2>1. vars_of(n) = <<n>> /\ Width(id, n) = 1
    BY <1>3, VariablesAre, WidthIs
  <2>2. TermRow(id, h, n) = [k \in 1..1 |-> h[<<n>>[k]]]
    BY <2>1 DEF TermRow
  <2>. QED  BY <1>3, <2>2
<1>4. CASE IsOperation(Terms[id], n)
  <2>1. ASSUME Len(kids) = 0 PROVE TermRow(id, h, n) = <<>>
    <3>1. Width(id, n) = 0
      BY <1>4, <2>1, WidthIs
    <3>. QED  BY <3>1 DEF TermRow
  <2>2. ASSUME Len(kids) = 1 PROVE TermRow(id, h, n) = TermRow(id, h, kids[1])
    <3>1. vars_of(n) = vars_of(kids[1])
      BY <1>4, <2>2, VariablesAre
    <3>. QED  BY <3>1 DEF TermRow, Width
  <2>3. ASSUME Len(kids) = 2 PROVE TermRow(id, h, n) = TermRow(id, h, kids[1]) \o TermRow(id, h, kids[2])
    <3>. DEFINE a == Width(id, kids[1])
                b == Width(id, kids[2])
    <3>0. kids[1] \in DOMAIN Terms[id] /\ kids[2] \in DOMAIN Terms[id]
      BY <1>1, <2>3
    <3>1. vars_of(n) = vars_of(kids[1]) \o vars_of(kids[2])
      BY <1>4, <2>3, VariablesAre
    <3>2. PICK r, s, t : r = TermRow(id, h, n) /\ s = TermRow(id, h, kids[1]) /\ t = TermRow(id, h, kids[2])
      OBVIOUS
    <3>3. /\ IsRow(r) /\ Len(r) = Width(id, n)
          /\ IsRow(s) /\ Len(s) = a /\ a \in Nat
          /\ IsRow(t) /\ Len(t) = b /\ b \in Nat
          /\ \A k \in 1..Width(id, n) : r[k] = h[vars_of(n)[k]]
          /\ \A k \in 1..a : s[k] = h[vars_of(kids[1])[k]]
          /\ \A k \in 1..b : t[k] = h[vars_of(kids[2])[k]]
      BY <3>0, <3>2, TermRowIs
    <3>4. /\ vars_of(kids[1]) \in Seq(DOMAIN Terms[id]) /\ Len(vars_of(kids[1])) = a
          /\ vars_of(kids[2]) \in Seq(DOMAIN Terms[id]) /\ Len(vars_of(kids[2])) = b
      BY <1>2, <3>0 DEF Width
    <3>5. /\ Width(id, n) = a + b
          /\ \A k \in 1..a : vars_of(n)[k] = vars_of(kids[1])[k]
          /\ \A k \in 1..b : vars_of(n)[k + a] = vars_of(kids[2])[k]
      <4>1. /\ Len(vars_of(n)) = a + b
            /\ \A k \in 1..a : vars_of(n)[k] = vars_of(kids[1])[k]
            /\ \A k \in 1..b : vars_of(n)[k + a] = vars_of(kids[2])[k]
        <5>. HIDE DEF vars_of, a, b
        <5>1. PICK s1, t1 : s1 = vars_of(kids[1]) /\ t1 = vars_of(kids[2])
          OBVIOUS
        <5>2. /\ s1 \in Seq(DOMAIN Terms[id]) /\ Len(s1) = a
              /\ t1 \in Seq(DOMAIN Terms[id]) /\ Len(t1) = b /\ vars_of(n) = s1 \o t1
          BY <3>1, <3>4, <5>1, Zenon
        <5>3. /\ Len(s1 \o t1) = Len(s1) + Len(t1)
              /\ \A i \in 1..Len(s1) : (s1 \o t1)[i] = s1[i]
              /\ \A i \in 1..Len(t1) : (s1 \o t1)[i + Len(s1)] = t1[i]
          <6>1. PICK T : s1 \in Seq(T) /\ t1 \in Seq(T)
            BY <5>2
          <6>. QED  BY ONLY <6>1, ConcatRange
        <5>. QED  BY <5>1, <5>2, <5>3, Zenon
      <4>. QED  BY <4>1 DEF Width
    <3>6. PICK S : s \in Seq(S) /\ t \in Seq(S)
      <4>1. PICK S1, S2 : s \in Seq(S1) /\ t \in Seq(S2)
        BY <3>3 DEF IsRow
      <4>2. s \in Seq(S1 \cup S2) /\ t \in Seq(S1 \cup S2)
        BY <4>1, SeqWiden
      <4>. QED  BY <4>2
    <3>. HIDE DEF a, b, vars_of
    <3>7. /\ IsRow(s \o t) /\ Len(s \o t) = a + b
          /\ \A k \in 1..a : (s \o t)[k] = s[k]
          /\ \A k \in 1..b : (s \o t)[k + a] = t[k]
      BY <3>3, <3>6, ConcatRange, RowFacts
    <3>8. \A k \in 1..a + b : r[k] = (s \o t)[k]
      <4>. SUFFICES ASSUME NEW k \in 1..a + b PROVE r[k] = (s \o t)[k]
        OBVIOUS
      <4>0. r[k] = h[vars_of(n)[k]]
        BY <3>3, <3>5
      <4>1. CASE k \in 1..a
        BY <3>3, <3>5, <3>7, <4>0, <4>1, Zenon
      <4>2. CASE k \notin 1..a
        <5>1. PICK j \in 1..b : j + a = k
          <6>1. k - a \in 1..b /\ (k - a) + a = k
            BY <3>3, <4>2
          <6>. QED  BY <6>1
        <5>2. r[j + a] = h[vars_of(n)[j + a]]
          BY <4>0, <5>1, Zenon
        <5>3. (s \o t)[j + a] = h[vars_of(n)[j + a]]
          <6>1. (s \o t)[j + a] = t[j]
            BY <3>7
          <6>2. t[j] = h[vars_of(kids[2])[j]]
            BY <3>3
          <6>3. vars_of(n)[j + a] = vars_of(kids[2])[j]
            BY <3>5
          <6>. QED  BY <6>1, <6>2, <6>3, Zenon
        <5>. QED  BY <5>1, <5>2, <5>3, Zenon
      <4>. QED  BY <4>1, <4>2
    <3>9. r = s \o t
      BY <3>3, <3>5, <3>7, <3>8, RowFacts, ZenonT(30)
    <3>. QED  BY <3>2, <3>9
  <2>. QED  BY <1>4, <2>1, <2>2, <2>3
<1>. QED  BY <1>3, <1>4

(* The item of a node in an evaluation. *)
NodeItem(id, h, n) == Sibling!Item(n, h[n], RowOf(id, h, n))

LEMMA RowOfVariable ==
  ASSUME NEW id \in DOMAIN Terms, Sibling!IsBinary(id), NEW n \in DOMAIN Terms[id], NEW h, ~IsOperation(Terms[id], n)
  PROVE  RowOf(id, h, n) = <<h[n]>>
<1>1. CASE n # Root
  BY <1>1, TermRowJoins DEF RowOf
<1>2. CASE n = Root
  <2>1. VariableNodes(Terms[id], Root) = <<Root>> /\ Width(id, Root) = 1 /\ Arity(Terms[id]) = 1
    BY <1>2, VariablesAre, WidthIs DEF Width, Arity
  <2>2. VariableNode(Terms[id], 1) = Root
    <3>1. 1 \in 1..Arity(Terms[id])
      BY <2>1
    <3>2. VariableNode(Terms[id], 1) \in DOMAIN Terms[id] /\ ~IsOperation(Terms[id], VariableNode(Terms[id], 1))
      BY <3>1, VariableAt
    <3>3. PICK k \in 1..1 : <<Root>>[k] = VariableNode(Terms[id], 1)
      BY <2>1, <3>2, AllVariables
    <3>. QED  BY <3>3
  <2>3. RowOf(id, h, n) = [v \in 1..1 |-> h[VariableNode(Terms[id], v)]]
    BY <1>2, <2>1 DEF RowOf
  <2>4. RowOf(id, h, n) = <<h[VariableNode(Terms[id], 1)]>>
    BY <2>3
  <2>. QED  BY <1>2, <2>2, <2>4
<1>. QED  BY <1>1, <1>2

LEMMA RootRowSorted ==
  ASSUME NEW id \in DOMAIN Terms, Sibling!IsBinary(id), Root \in DOMAIN Terms[id], NEW h
  PROVE  Sibling!RowAt(Terms[id], Root, TermRow(id, h, Root)) = RowOf(id, h, Root)
<1>. DEFINE term == Terms[id]
            len == Width(id, Root)
            at_root == VariableNodes(term, Root)
<1>1. PICK row : row = TermRow(id, h, Root)
  OBVIOUS
<1>2. DOMAIN row = 1..len /\ \A k \in 1..len : row[k] = h[at_root[k]]
  BY <1>1, TermRowIs
<1>3. len = Arity(term)
  BY DEF Width, Arity
<1>. DEFINE spot(v) == CHOOSE k \in 1..len : term[at_root[k]].variable = v
<1>4. Sibling!RowAt(term, Root, row) = [v \in 1..len |-> row[spot(v)]]
  <2>1. Sibling!RowAt(term, Root, row) =
           [v \in DOMAIN row |-> row[CHOOSE k \in DOMAIN row : term[Sibling!VariableNodes(term, Sibling!Root)[k]].variable = v]]
    BY SiblingTerms DEF Sibling!RowAt
  <2>. QED  BY <1>2, <2>1, SiblingTerms
<1>5. ASSUME NEW v \in 1..len PROVE row[spot(v)] = h[VariableNode(term, v)]
  <2>1. PICK m : m = VariableNode(term, v)
    OBVIOUS
  <2>2. m \in DOMAIN term /\ term[m].variable = v /\ ~IsOperation(term, m)
    BY <1>3, <2>1, VariableAt
  <2>3. \E k \in 1..len : at_root[k] = m
    BY <2>2, AllVariables
  <2>4. spot(v) \in 1..len /\ term[at_root[spot(v)]].variable = v
    <3>1. \E k \in 1..len : term[at_root[k]].variable = v
      BY <2>2, <2>3
    <3>. HIDE DEF at_root, term, len
    <3>. QED  BY <3>1
  <2>5. at_root[spot(v)] \in DOMAIN term
    <3>1. at_root \in Seq(DOMAIN term) /\ Len(at_root) = len
      BY TermIs DEF Width
    <3>. HIDE DEF at_root, term, len, spot
    <3>. QED  BY <2>4, <3>1
  <2>6. at_root[spot(v)] = m
    <3>. HIDE DEF at_root, spot, len
    <3>. QED  BY <2>2, <2>4, <2>5, OneVariable
  <2>. HIDE DEF at_root, spot, len, term
  <2>. QED  BY <1>2, <2>1, <2>4, <2>6
<1>6. RowOf(id, h, Root) = [v \in 1..len |-> h[VariableNode(term, v)]]
  BY <1>3 DEF RowOf
<1>. HIDE DEF spot, len, term
<1>. QED  BY <1>1, <1>4, <1>5, <1>6 DEF term

(* What an operation's children leave for its row. *)
KidRows(id, h, n) ==
    LET kids == Children(Terms[id], n)
    IN  IF Len(kids) = 0 THEN <<>>
        ELSE IF Len(kids) = 1 THEN RowOf(id, h, kids[1])
        ELSE RowOf(id, h, kids[1]) \o RowOf(id, h, kids[2])

LEMMA RowOfOperation ==
  ASSUME NEW id \in DOMAIN Terms, Sibling!IsBinary(id), NEW n \in DOMAIN Terms[id], NEW h, IsOperation(Terms[id], n)
  PROVE  Sibling!RowAt(Terms[id], n, KidRows(id, h, n)) = RowOf(id, h, n)
<1>. DEFINE kids == Children(Terms[id], n)
<1>1. Len(kids) \in {0, 1, 2} /\ DOMAIN kids = 1..Len(kids) /\ \A i \in DOMAIN kids : kids[i] # Root
  BY KidsAre, KidIs
<1>2. KidRows(id, h, n) = TermRow(id, h, n)
  <2>1. \A i \in DOMAIN kids : RowOf(id, h, kids[i]) = TermRow(id, h, kids[i])
    BY <1>1 DEF RowOf
  <2>2. /\ Len(kids) = 0 => TermRow(id, h, n) = <<>>
        /\ Len(kids) = 1 => TermRow(id, h, n) = TermRow(id, h, kids[1])
        /\ Len(kids) = 2 => TermRow(id, h, n) = TermRow(id, h, kids[1]) \o TermRow(id, h, kids[2])
    BY TermRowJoins
  <2>3. /\ Len(kids) = 1 => 1 \in DOMAIN kids
        /\ Len(kids) = 2 => 1 \in DOMAIN kids /\ 2 \in DOMAIN kids
    BY <1>1
  <2>4. KidRows(id, h, n) = IF Len(kids) = 0 THEN <<>>
                            ELSE IF Len(kids) = 1 THEN RowOf(id, h, kids[1])
                            ELSE RowOf(id, h, kids[1]) \o RowOf(id, h, kids[2])
    BY DEF KidRows
  <2>. HIDE DEF kids
  <2>. QED  BY <1>1, <2>1, <2>2, <2>3, <2>4
<1>3. CASE n = Root
  BY <1>2, <1>3, RootRowSorted
<1>4. CASE n # Root
  BY <1>2, <1>4, SiblingTerms DEF Sibling!RowAt, RowOf
<1>. QED  BY <1>3, <1>4

(* What fits is made: an item for each node that an evaluation gives. *)
LEMMA StepIs ==
  \A symbol, states, q : q \in Sibling!Step(decomp, symbol, states) <=>
      \E r \in decomp.rules : r.symbol = symbol /\ r.children = states /\ r.result = q
BY DEF Sibling!Step

KidStates(id, h, n) == [i \in DOMAIN Children(Terms[id], n) |-> h[Children(Terms[id], n)[i]]]

LEMMA KidStatesAre ==
  ASSUME NEW id \in DOMAIN Terms, Sibling!IsBinary(id), NEW n \in DOMAIN Terms[id], NEW h
  PROVE  LET kids == Children(Terms[id], n)
         IN  /\ Len(kids) = 0 => KidStates(id, h, n) = <<>>
             /\ Len(kids) = 1 => KidStates(id, h, n) = <<h[kids[1]]>>
             /\ Len(kids) = 2 => KidStates(id, h, n) = <<h[kids[1]], h[kids[2]]>>
<1>. DEFINE kids == Children(Terms[id], n)
<1>1. DOMAIN kids = 1..Len(kids)
  BY KidsAre
<1>2. KidStates(id, h, n) = [i \in DOMAIN kids |-> h[kids[i]]]
  BY DEF KidStates
<1>. HIDE DEF kids
<1>3. Len(kids) = 0 => KidStates(id, h, n) = <<>>
  BY <1>1, <1>2
<1>4. Len(kids) = 1 => KidStates(id, h, n) = <<h[kids[1]]>>
  BY <1>1, <1>2
<1>5. Len(kids) = 2 => KidStates(id, h, n) = <<h[kids[1]], h[kids[2]]>>
  BY <1>1, <1>2
<1>. QED  BY <1>3, <1>4, <1>5 DEF kids

LEMMA NodeItemMade ==
  ASSUME NEW id \in DOMAIN Terms, Sibling!IsBinary(id), NEW n \in DOMAIN Terms[id], NEW h,
         IsOperation(Terms[id], n), NodeFits(decomp, Terms[id], h, n), NEW S,
         \A i \in DOMAIN Children(Terms[id], n) : NodeItem(id, h, Children(Terms[id], n)[i]) \in S
  PROVE  MadeOf(id, n, S, NodeItem(id, h, n))
<1>. DEFINE kids == Children(Terms[id], n)
            z == NodeItem(id, h, n)
            y(i) == NodeItem(id, h, kids[i])
<1>1. Len(kids) \in {0, 1, 2} /\ DOMAIN kids = 1..Len(kids)
  BY KidsAre
<1>2. h[n] \in Sibling!Step(decomp, Terms[id][n].label, KidStates(id, h, n))
  BY StepIs DEF NodeFits, KidStates
<1>3. z \in Made(id, n, KidRows(id, h, n), KidStates(id, h, n))
  <2>1. z = Sibling!Item(n, h[n], Sibling!RowAt(Terms[id], n, KidRows(id, h, n)))
    BY RowOfOperation DEF NodeItem
  <2>. QED  BY <1>2, <2>1 DEF Made
<1>4. \A i : /\ y(i).node = kids[i] /\ y(i).state = h[kids[i]] /\ y(i).row = RowOf(id, h, kids[i])
  BY DEF NodeItem, Sibling!Item
<1>5. KidRows(id, h, n) = IF Len(kids) = 0 THEN <<>>
                          ELSE IF Len(kids) = 1 THEN RowOf(id, h, kids[1])
                          ELSE RowOf(id, h, kids[1]) \o RowOf(id, h, kids[2])
  BY DEF KidRows
<1>6. CASE Len(kids) = 0
  <2>1. z \in Made(id, n, <<>>, <<>>)
    BY <1>3, <1>5, <1>6, KidStatesAre
  <2>. QED  BY <1>6, <2>1 DEF MadeOf
<1>7. CASE Len(kids) = 1
  <2>1. KidStates(id, h, n) = <<h[kids[1]]>> /\ KidRows(id, h, n) = RowOf(id, h, kids[1])
    BY <1>5, <1>7, KidStatesAre
  <2>2. PICK w : w = y(1)
    OBVIOUS
  <2>3. w \in S /\ w.node = kids[1] /\ w.state = h[kids[1]] /\ w.row = RowOf(id, h, kids[1])
    BY <1>1, <1>4, <1>7, <2>2
  <2>4. z \in Made(id, n, w.row, <<w.state>>)
    BY <1>3, <2>1, <2>3, Zenon
  <2>. HIDE DEF kids, z
  <2>5. Len(kids) = 1 /\ \E u \in S : u.node = kids[1] /\ z \in Made(id, n, u.row, <<u.state>>)
    BY <1>7, <2>3, <2>4
  <2>. QED  BY <2>5, Zenon DEF MadeOf, kids, z
<1>8. CASE Len(kids) = 2
  <2>1. KidStates(id, h, n) = <<h[kids[1]], h[kids[2]]>> /\ KidRows(id, h, n) = RowOf(id, h, kids[1]) \o RowOf(id, h, kids[2])
    BY <1>5, <1>8, KidStatesAre
  <2>2. PICK w, x : w = y(1) /\ x = y(2)
    OBVIOUS
  <2>3. /\ w \in S /\ w.node = kids[1] /\ w.state = h[kids[1]] /\ w.row = RowOf(id, h, kids[1])
        /\ x \in S /\ x.node = kids[2] /\ x.state = h[kids[2]] /\ x.row = RowOf(id, h, kids[2])
    BY <1>1, <1>4, <1>8, <2>2
  <2>4. z \in Made(id, n, w.row \o x.row, <<w.state, x.state>>)
    BY <1>3, <2>1, <2>3, Zenon
  <2>. HIDE DEF kids, z
  <2>5. Len(kids) = 2 /\ \E u, v \in S : /\ u.node = kids[1] /\ v.node = kids[2]
                                         /\ z \in Made(id, n, u.row \o v.row, <<u.state, v.state>>)
    BY <1>8, <2>3, <2>4
  <2>. QED  BY <2>5, Zenon DEF MadeOf, kids, z
<1>. QED  BY <1>1, <1>6, <1>7, <1>8

-----------------------------------------------------------------------------
(* Back from an item to the items it was made of, down to the variables.    *)

(* c has the items at the children that x was made of. *)
Supports(id, x, c) ==
    LET kids == Children(Terms[id], x.node)
    IN  /\ \A i \in DOMAIN kids : c[i] \in items[id] /\ c[i].node = kids[i]
        /\ \/ Len(kids) = 0 /\ x \in Made(id, x.node, <<>>, <<>>)
           \/ Len(kids) = 1 /\ x \in Made(id, x.node, c[1].row, <<c[1].state>>)
           \/ Len(kids) = 2 /\ x \in Made(id, x.node, c[1].row \o c[2].row, <<c[1].state, c[2].state>>)

HasSupport(id, x) == \E c : Supports(id, x, c)

Support(id, x) == CHOOSE c : Supports(id, x, c)

LEMMA SupportIs ==
  ASSUME NEW id \in DOMAIN Terms, Sibling!IsBinary(id), NEW x, x.node \in DOMAIN Terms[id],
         MadeOf(id, x.node, items[id], x)
  PROVE  Supports(id, x, Support(id, x))
<1>. DEFINE kids == Children(Terms[id], x.node)
            n == x.node
<1>1. DOMAIN kids = 1..Len(kids)
  BY KidsAre
<1>2. HasSupport(id, x)
  <2>1. CASE Len(kids) = 0 /\ x \in Made(id, n, <<>>, <<>>)
    <3>1. DOMAIN kids = {}
      BY <1>1, <2>1
    <3>2. Supports(id, x, <<>>)
      BY <2>1, <3>1 DEF Supports
    <3>. QED  BY <3>2 DEF HasSupport
  <2>2. CASE Len(kids) = 1 /\ \E y \in items[id] : y.node = kids[1] /\ x \in Made(id, n, y.row, <<y.state>>)
    <3>1. PICK y \in items[id] : y.node = kids[1] /\ x \in Made(id, n, y.row, <<y.state>>)
      BY <2>2
    <3>2. PICK c : c = <<y>>
      OBVIOUS
    <3>3. c[1] = y /\ DOMAIN kids = {1}
      BY <1>1, <2>2, <3>2
    <3>4. x \in Made(id, n, c[1].row, <<c[1].state>>)
      BY <3>1, <3>3, Zenon
    <3>5. Supports(id, x, c)
      BY <2>2, <3>1, <3>3, <3>4 DEF Supports
    <3>. QED  BY <3>5 DEF HasSupport
  <2>3. CASE Len(kids) = 2 /\ \E y, w \in items[id] : /\ y.node = kids[1] /\ w.node = kids[2]
                                                      /\ x \in Made(id, n, y.row \o w.row, <<y.state, w.state>>)
    <3>1. PICK y \in items[id], w \in items[id] : /\ y.node = kids[1] /\ w.node = kids[2]
                                                  /\ x \in Made(id, n, y.row \o w.row, <<y.state, w.state>>)
      BY <2>3
    <3>2. PICK c : c = <<y, w>>
      OBVIOUS
    <3>3. c[1] = y /\ c[2] = w /\ DOMAIN kids = {1, 2}
      BY <1>1, <2>3, <3>2
    <3>4. x \in Made(id, n, c[1].row \o c[2].row, <<c[1].state, c[2].state>>)
      BY <3>1, <3>3, Zenon
    <3>5. Supports(id, x, c)
      BY <2>3, <3>1, <3>3, <3>4 DEF Supports
    <3>. QED  BY <3>5 DEF HasSupport
  <2>. QED  BY <2>1, <2>2, <2>3, Zenon DEF MadeOf
<1>. QED  BY <1>2 DEF HasSupport, Support

(* I has an item for each of the nodes 1 to k: y at the root, and below the *)
(* items it was made of.                                                    *)
UnfoldsTo(id, y, k, I) ==
    /\ I[Root] = y
    /\ \A n \in 1..k : /\ I[n] \in items[id] /\ I[n].node = n
                       /\ n # Root => I[n] = Support(id, I[Terms[id][n].parent])[Terms[id][n].position]

UnfoldsUpTo(id, y, k) == \E I : UnfoldsTo(id, y, k, I)

LEMMA Unfolding ==
  ASSUME NEW id \in DOMAIN Terms, Sibling!IsBinary(id), NEW y \in items[id], y.node = Root, Root \in DOMAIN Terms[id],
         \A x \in items[id] : IsOperation(Terms[id], x.node) => MadeOf(id, x.node, items[id], x)
  PROVE  UnfoldsUpTo(id, y, Len(Terms[id]))
<1>. DEFINE term == Terms[id]
            len == Len(term)
            U == {m \in Nat : m + 1 <= len => UnfoldsUpTo(id, y, m + 1)}
<1>1. len \in Nat /\ DOMAIN term = 1..len /\ Root = 1 /\ 1 <= len
  BY TermIs DEF Root
<1>2. 0 \in U
  <2>1. PICK I : I = [n \in 1..1 |-> y]
    OBVIOUS
  <2>2. I[Root] = y /\ \A n \in 1..1 : n = Root /\ I[n] = y
    BY <1>1, <2>1
  <2>3. UnfoldsTo(id, y, 1, I)
    BY <2>2 DEF UnfoldsTo
  <2>. QED  BY <2>3 DEF UnfoldsUpTo
<1>3. ASSUME NEW m \in Nat, m \in U PROVE m + 1 \in U
  <2>. SUFFICES ASSUME (m + 1) + 1 <= len PROVE UnfoldsUpTo(id, y, (m + 1) + 1)
    OBVIOUS
  <2>. DEFINE k == m + 1
  <2>1. k \in 1..len /\ k + 1 \in 1..len /\ k + 1 # Root /\ k <= len
    BY <1>1
  <2>2. UnfoldsUpTo(id, y, k)
    BY <1>3, <2>1
  <2>. HIDE DEF k, U
  <2>3. PICK I : UnfoldsTo(id, y, k, I)
    BY <2>2 DEF UnfoldsUpTo
  <2>. DEFINE above == term[k + 1].parent
              place == term[k + 1].position
  <2>4. /\ above \in DOMAIN term /\ above < k + 1 /\ IsOperation(term, above)
        /\ place \in DOMAIN Children(term, above) /\ k + 1 = Children(term, above)[place]
    BY <1>1, <2>1, TermIs
  <2>5. above \in 1..k
    BY <1>1, <2>1, <2>4
  <2>6. I[above] \in items[id] /\ I[above].node = above
    BY <2>3, <2>5 DEF UnfoldsTo
  <2>7. Supports(id, I[above], Support(id, I[above]))
    BY <2>4, <2>6, SupportIs
  <2>8. PICK x : x = Support(id, I[above])[place]
    OBVIOUS
  <2>9. x \in items[id] /\ x.node = k + 1
    BY <2>4, <2>6, <2>7, <2>8 DEF Supports
  <2>10. PICK J : J = [n \in 1..k + 1 |-> IF n = k + 1 THEN x ELSE I[n]]
    OBVIOUS
  <2>11. J[k + 1] = x /\ \A n \in 1..k : J[n] = I[n] /\ n # k + 1
    <3>1. k + 1 \in 1..k + 1 /\ \A n \in 1..k : n \in 1..k + 1 /\ n # k + 1
      BY <2>1
    <3>. QED  BY <2>10, <3>1
  <2>12. 1..k + 1 = 1..k \cup {k + 1} /\ Root \in 1..k
    BY <1>1, <2>1
  <2>13. ASSUME NEW n \in 1..k + 1
         PROVE  /\ J[n] \in items[id] /\ J[n].node = n
                /\ n # Root => J[n] = Support(id, J[term[n].parent])[term[n].position]
    <3>1. CASE n = k + 1
      <4>1. J[above] = I[above]
        BY <2>5, <2>11
      <4>2. J[n] = Support(id, J[term[n].parent])[term[n].position]
        BY <2>8, <2>11, <3>1, <4>1
      <4>. QED  BY <2>9, <2>11, <3>1, <4>2
    <3>2. CASE n \in 1..k
      <4>1. /\ J[n] = I[n] /\ I[n] \in items[id] /\ I[n].node = n
            /\ n # Root => I[n] = Support(id, I[term[n].parent])[term[n].position]
        BY <2>3, <2>11, <3>2 DEF UnfoldsTo
      <4>2. n # Root => J[term[n].parent] = I[term[n].parent]
        <5>. SUFFICES ASSUME n # Root PROVE J[term[n].parent] = I[term[n].parent]
          OBVIOUS
        <5>1. n \in DOMAIN term \ {Root}
          BY <1>1, <2>1, <3>2
        <5>2. term[n].parent \in DOMAIN term /\ term[n].parent < n
          BY <5>1, TermIs
        <5>3. term[n].parent \in 1..k
          <6>1. PICK a : a = term[n].parent
            OBVIOUS
          <6>2. a \in 1..len /\ a < n /\ n \in 1..k /\ k \in 1..len /\ len \in Nat
            BY <1>1, <2>1, <3>2, <5>2, <6>1
          <6>3. a \in 1..k
            BY ONLY <6>2
          <6>. QED  BY <6>1, <6>3
        <5>. QED  BY <2>11, <5>3
      <4>. QED  BY <4>1, <4>2
    <3>. QED  BY <2>12, <3>1, <3>2
  <2>14. UnfoldsTo(id, y, k + 1, J)
    <3>1. J[Root] = y
      BY <2>3, <2>11, <2>12 DEF UnfoldsTo
    <3>. QED  BY <2>13, <3>1 DEF UnfoldsTo
  <2>. QED  BY <2>14 DEF UnfoldsUpTo, k
<1>4. Nat \subseteq U
  <2>. HIDE DEF U
  <2>. QED  BY <1>2, <1>3, SetInduction
<1>5. PICK m \in Nat : m + 1 = len
  <2>1. len - 1 \in Nat /\ (len - 1) + 1 = len
    BY <1>1
  <2>. QED  BY <2>1
<1>. HIDE DEF len
<1>6. m + 1 <= len
  BY <1>1, <1>5
<1>. QED  BY <1>4, <1>5, <1>6 DEF len

LEMMA MadeIs ==
  ASSUME NEW id, NEW n, NEW row, NEW states, NEW x \in Made(id, n, row, states)
  PROVE  /\ x.state \in Sibling!Step(decomp, Terms[id][n].label, states)
         /\ x.row = Sibling!RowAt(Terms[id], n, row)
BY DEF Made, Sibling!Item

(* What the items of a program rest on. *)
WellMade(id, x) ==
    /\ x.node \in DOMAIN Terms[id]
    /\ IsOperation(Terms[id], x.node) => MadeOf(id, x.node, items[id], x)
    /\ ~IsOperation(Terms[id], x.node) => x.row = <<x.state>>

(* An item at the root is an evaluation of the term. *)
Evaluates(id, y) ==
    \E e \in Evaluations(decomp, Terms[id]) : y.state = e[Root] /\ y.row = RowOf(id, e, Root)

LEMMA ItemsEvaluate ==
  ASSUME NEW id \in DOMAIN Terms, Sibling!IsBinary(id), NEW y \in items[id], y.node = Root,
         \A x \in items[id] : WellMade(id, x),
         \A r \in decomp.rules : r.result \in decomp.states,
         ~IsOperation(Terms[id], Root) => y.state \in decomp.states
  PROVE  Evaluates(id, y)
<1>. DEFINE term == Terms[id]
            len == Len(term)
            kids(n) == Children(term, n)
<1>1. Root \in DOMAIN term /\ len \in Nat /\ DOMAIN term = 1..len
  BY TermIs DEF WellMade
<1>2. PICK I : UnfoldsTo(id, y, len, I)
  <2>1. UnfoldsUpTo(id, y, len)
    BY <1>1, Unfolding DEF WellMade
  <2>. QED  BY <2>1 DEF UnfoldsUpTo
<1>3. /\ I[Root] = y
      /\ \A n \in DOMAIN term : I[n] \in items[id] /\ I[n].node = n /\ WellMade(id, I[n])
  BY <1>1, <1>2 DEF UnfoldsTo
<1>4. PICK h : h = [n \in DOMAIN term |-> I[n].state]
  OBVIOUS
<1>5. ASSUME NEW n \in DOMAIN term, IsOperation(term, n)
      PROVE  /\ \A i \in DOMAIN kids(n) : I[kids(n)[i]].state = h[kids(n)[i]]
             /\ \/ Len(kids(n)) = 0 /\ I[n] \in Made(id, n, <<>>, <<>>)
                \/ Len(kids(n)) = 1 /\ I[n] \in Made(id, n, I[kids(n)[1]].row, <<h[kids(n)[1]]>>)
                \/ Len(kids(n)) = 2 /\ I[n] \in Made(id, n, I[kids(n)[1]].row \o I[kids(n)[2]].row, <<h[kids(n)[1]], h[kids(n)[2]]>>)
  <2>1. PICK c : c = Support(id, I[n])
    OBVIOUS
  <2>2. Supports(id, I[n], c)
    BY <1>3, <1>5, <2>1, SupportIs DEF WellMade
  <2>3. \A i \in DOMAIN kids(n) : c[i] = I[kids(n)[i]] /\ I[kids(n)[i]].state = h[kids(n)[i]]
    <3>. SUFFICES ASSUME NEW i \in DOMAIN kids(n) PROVE c[i] = I[kids(n)[i]] /\ I[kids(n)[i]].state = h[kids(n)[i]]
      OBVIOUS
    <3>1. PICK k : k = kids(n)[i]
      OBVIOUS
    <3>2. k \in DOMAIN term /\ k # Root /\ term[k].parent = n /\ term[k].position = i
      BY <3>1, KidIs
    <3>3. I[k] = Support(id, I[term[k].parent])[term[k].position]
      BY <1>1, <1>2, <3>2 DEF UnfoldsTo
    <3>. QED  BY <1>4, <2>1, <3>1, <3>2, <3>3
  <2>4. /\ Len(kids(n)) = 1 => 1 \in DOMAIN kids(n)
        /\ Len(kids(n)) = 2 => 1 \in DOMAIN kids(n) /\ 2 \in DOMAIN kids(n)
    BY KidsAre
  <2>5. I[n].node = n
    BY <1>3
  <2>6. \/ Len(kids(n)) = 0 /\ I[n] \in Made(id, n, <<>>, <<>>)
        \/ Len(kids(n)) = 1 /\ I[n] \in Made(id, n, c[1].row, <<c[1].state>>)
        \/ Len(kids(n)) = 2 /\ I[n] \in Made(id, n, c[1].row \o c[2].row, <<c[1].state, c[2].state>>)
    BY <2>2, <2>5, Zenon DEF Supports
  <2>7. Len(kids(n)) = 1 => c[1].row = I[kids(n)[1]].row /\ c[1].state = h[kids(n)[1]]
    BY <2>3, <2>4
  <2>8. Len(kids(n)) = 2 => /\ c[1].row = I[kids(n)[1]].row /\ c[1].state = h[kids(n)[1]]
                            /\ c[2].row = I[kids(n)[2]].row /\ c[2].state = h[kids(n)[2]]
    BY <2>3, <2>4
  <2>. HIDE DEF kids
  <2>. QED  BY <2>3, <2>6, <2>7, <2>8, Zenon
<1>6. ASSUME NEW n \in DOMAIN term, IsOperation(term, n)
      PROVE  I[n].state \in Sibling!Step(decomp, term[n].label, KidStates(id, h, n))
  <2>1. /\ Len(kids(n)) = 0 => KidStates(id, h, n) = <<>>
        /\ Len(kids(n)) = 1 => KidStates(id, h, n) = <<h[kids(n)[1]]>>
        /\ Len(kids(n)) = 2 => KidStates(id, h, n) = <<h[kids(n)[1]], h[kids(n)[2]]>>
    BY KidStatesAre
  <2>2. \E row : I[n] \in Made(id, n, row, KidStates(id, h, n))
    <3>. HIDE DEF kids
    <3>. QED  BY <1>5, <1>6, <2>1, Zenon
  <2>. QED  BY <2>2, MadeIs
<1>7. ASSUME NEW n \in DOMAIN term, IsOperation(term, n)
      PROVE  /\ h[n] \in decomp.states
             /\ \E r \in decomp.rules : /\ r.symbol = term[n].label /\ r.result = h[n]
                                        /\ r.children = [i \in DOMAIN kids(n) |-> h[kids(n)[i]]]
  <2>1. PICK r \in decomp.rules : r.symbol = term[n].label /\ r.children = KidStates(id, h, n) /\ r.result = I[n].state
    BY <1>6, <1>7, StepIs
  <2>2. h[n] = I[n].state
    BY <1>4
  <2>. QED  BY <2>1, <2>2 DEF KidStates
<1>8. ASSUME NEW n \in DOMAIN term PROVE NodeFits(decomp, term, h, n)
  <2>1. CASE IsOperation(term, n)
    BY <1>7, <2>1 DEF NodeFits
  <2>2. CASE ~IsOperation(term, n) /\ n = Root
    BY <1>3, <1>4, <2>2 DEF NodeFits, Operands
  <2>3. CASE ~IsOperation(term, n) /\ n # Root
    <3>. DEFINE above == term[n].parent
                place == term[n].position
    <3>1. /\ above \in DOMAIN term /\ IsOperation(term, above)
          /\ place \in DOMAIN kids(above) /\ n = kids(above)[place]
      BY <2>3, AboveIs
    <3>2. PICK r \in decomp.rules : /\ r.symbol = term[above].label
                                    /\ r.children = [i \in DOMAIN kids(above) |-> h[kids(above)[i]]]
      BY <1>7, <3>1
    <3>3. place \in DOMAIN r.children /\ r.children[place] = h[n]
      BY <3>1, <3>2
    <3>4. h[n] \in Operands(decomp, term, n)
      BY <2>3, <3>2, <3>3 DEF Operands
    <3>. QED  BY <2>3, <3>4 DEF NodeFits
  <2>. QED  BY <2>1, <2>2, <2>3
<1>9. \A n \in DOMAIN term : I[n].row = RowOf(id, h, n)
  <2>. DEFINE Off == {d \in Nat : \E n \in DOMAIN term : d = len - n /\ I[n].row # RowOf(id, h, n)}
  <2>. SUFFICES ASSUME NEW n0 \in DOMAIN term, I[n0].row # RowOf(id, h, n0) PROVE FALSE
    OBVIOUS
  <2>1. len - n0 \in Off
    BY <1>1
  <2>2. PICK d \in Off : \A k \in Off : d <= k
    <3>1. Off \subseteq Nat /\ Off # {}
      BY <2>1
    <3>. HIDE DEF Off
    <3>. QED  BY <3>1, LeastElement
  <2>3. PICK n \in DOMAIN term : d = len - n /\ I[n].row # RowOf(id, h, n)
    OBVIOUS
  <2>4. \A k \in n + 1..len : I[k].row = RowOf(id, h, k)
    <3>. SUFFICES ASSUME NEW k \in n + 1..len, I[k].row # RowOf(id, h, k) PROVE FALSE
      OBVIOUS
    <3>1. k \in DOMAIN term /\ len - k \in Nat /\ len - k < d
      BY <1>1, <2>3
    <3>2. len - k \in Off
      BY <3>1
    <3>3. d <= len - k /\ d \in Nat
      BY <2>2, <3>2
    <3>. QED  BY <3>1, <3>3
  <2>5. CASE ~IsOperation(term, n)
    <3>1. I[n].row = <<h[n]>>
      BY <1>3, <1>4, <2>5 DEF WellMade
    <3>. QED  BY <2>3, <2>5, <3>1, RowOfVariable
  <2>6. CASE IsOperation(term, n)
    <3>1. \A i \in DOMAIN kids(n) : I[kids(n)[i]].row = RowOf(id, h, kids(n)[i])
      BY <2>4, LaterKids
    <3>2. /\ Len(kids(n)) = 1 => I[kids(n)[1]].row = RowOf(id, h, kids(n)[1])
          /\ Len(kids(n)) = 2 => /\ I[kids(n)[1]].row = RowOf(id, h, kids(n)[1])
                                 /\ I[kids(n)[2]].row = RowOf(id, h, kids(n)[2])
      BY <3>1, KidsAre
    <3>3. /\ Len(kids(n)) = 0 => KidRows(id, h, n) = <<>>
          /\ Len(kids(n)) = 1 => KidRows(id, h, n) = RowOf(id, h, kids(n)[1])
          /\ Len(kids(n)) = 2 => KidRows(id, h, n) = RowOf(id, h, kids(n)[1]) \o RowOf(id, h, kids(n)[2])
      <4>1. KidRows(id, h, n) = IF Len(kids(n)) = 0 THEN <<>>
                                ELSE IF Len(kids(n)) = 1 THEN RowOf(id, h, kids(n)[1])
                                ELSE RowOf(id, h, kids(n)[1]) \o RowOf(id, h, kids(n)[2])
        BY DEF KidRows
      <4>2. 1 # 0 /\ 2 # 0 /\ 2 # 1
        OBVIOUS
      <4>. HIDE DEF kids
      <4>. QED  BY <4>1, <4>2, Zenon
    <3>4. \E states : I[n] \in Made(id, n, KidRows(id, h, n), states)
      <4>1. \/ Len(kids(n)) = 0 /\ I[n] \in Made(id, n, <<>>, <<>>)
            \/ Len(kids(n)) = 1 /\ I[n] \in Made(id, n, I[kids(n)[1]].row, <<h[kids(n)[1]]>>)
            \/ Len(kids(n)) = 2 /\ I[n] \in Made(id, n, I[kids(n)[1]].row \o I[kids(n)[2]].row, <<h[kids(n)[1]], h[kids(n)[2]]>>)
        BY <1>5, <2>6, Zenon
      <4>. HIDE DEF kids
      <4>. QED  BY <3>2, <3>3, <4>1, Zenon
    <3>5. I[n].row = Sibling!RowAt(term, n, KidRows(id, h, n))
      BY <3>4, MadeIs
    <3>. QED  BY <2>3, <2>6, <3>5, RowOfOperation
  <2>. QED  BY <2>5, <2>6
<1>10. PICK e \in Evaluations(decomp, term) : \A n \in DOMAIN term : e[n] = h[n]
  BY <1>8, FitsEvaluate
<1>11. RowOf(id, e, Root) = RowOf(id, h, Root)
  <2>1. \A v \in 1..Arity(term) : e[VariableNode(term, v)] = h[VariableNode(term, v)]
    BY <1>10, VariableAt
  <2>. QED  BY <2>1 DEF RowOf
<1>12. y.state = e[Root] /\ y.row = RowOf(id, e, Root)
  BY <1>1, <1>3, <1>4, <1>9, <1>10, <1>11
<1>. QED  BY <1>12 DEF Evaluates

-----------------------------------------------------------------------------
(* The rules of an inverse image. *)

RuleOfImage(alg, images, r) ==
    \E id \in Range(images) : \E e \in Evaluations(alg, Terms[id]) : r = CondensedRule(images, id, e)

LEMMA ImageRules ==
  \A alg, images, r : r \in Image(alg, images).rules <=> RuleOfImage(alg, images, r)
<1>. TAKE alg, images, r
<1>. DEFINE of(id) == {CondensedRule(images, id, e) : e \in Evaluations(alg, Terms[id])}
<1>1. Image(alg, images).rules = UNION {of(id) : id \in Range(images)}
  BY DEF Image
<1>2. \A id : r \in of(id) <=> \E e \in Evaluations(alg, Terms[id]) : r = CondensedRule(images, id, e)
  OBVIOUS
<1>. HIDE DEF of
<1>. QED  BY <1>1, <1>2 DEF RuleOfImage

-----------------------------------------------------------------------------
(* The sibling finder keeps the promise.  What it joins is a rule of the    *)
(* inverse image.                                                           *)

(* What the sibling jobs parse is a decomposition automaton that has states *)
(* for all results, and is among the inputs.                                *)
SiblingJobsParse ==
    \A job \in Jobs : job.strategy = "sibling" =>
        /\ job.input \in Inputs
        /\ \A r \in job.input.decomp.rules : r.result \in job.input.decomp.states

InputParses == right = Image(decomp, hom) /\ \A r \in decomp.rules : r.result \in decomp.states

StatesOfInput == \A p \in Pairs : p[2] \in decomp.states

(* A rule of the right automaton that goes with a root item. *)
IsRuleOf(l, y, r) == Joins(l, r) /\ r.result = y.state /\ r.children = y.row

HasRule(l, y) == y.state \in decomp.states /\ \E r \in right.rules : IsRuleOf(l, y, r)

LEMMA RootIsNode ==
  ASSUME NEW id \in DOMAIN Terms
  PROVE  Root \in DOMAIN Terms[id]
<1>1. Len(Terms[id]) \in Nat \ {0} /\ DOMAIN Terms[id] = 1..Len(Terms[id])
  BY TermsAreInPreorder DEF IsPreorder
<1>. QED  BY <1>1 DEF Root

LEMMA ImageRuleIs ==
  ASSUME NEW id \in DOMAIN Terms, NEW e
  PROVE  /\ CondensedRule(hom, id, e).symbols = LabelSet(hom, id)
         /\ CondensedRule(hom, id, e).children = RowOf(id, e, Root)
         /\ CondensedRule(hom, id, e).result = e[Root]
         /\ Len(RowOf(id, e, Root)) = Arity(Terms[id]) /\ Arity(Terms[id]) \in Nat
<1>1. Arity(Terms[id]) \in Nat
  BY RootIsNode, TermIs DEF Arity
<1>2. PICK row : row = RowOf(id, e, Root)
  OBVIOUS
<1>3. row = [v \in 1..Arity(Terms[id]) |-> e[VariableNode(Terms[id], v)]]
  BY <1>2 DEF RowOf
<1>4. row = [v \in 1..Arity(Terms[id]) |-> row[v]]
  BY <1>3
<1>5. Len(row) = Arity(Terms[id])
  BY <1>1, <1>4, FunctionIsRow
<1>. QED  BY <1>1, <1>2, <1>3, <1>5 DEF CondensedRule

LEMMA RootItemJoins ==
  ASSUME InputParses, StatesOfInput, SiblingOnce, TermCharts, pc \in {"groups", "older", "propagate", "roots"},
         NEW l, NEW y, RootItem(l, y)
  PROVE  HasRule(l, y)
<1>. DEFINE id == Sibling!Program(l)
<1>1. id \in DOMAIN Terms /\ Arity(Terms[id]) = Len(l.children) /\ y \in items[id] /\ y.node = Root /\ l \in Sibling!Interpreted
  BY DEF SiblingOnce, ProgramsFit, RootItem
<1>2. Sibling!IsBinary(id)
  <2>1. id \in Sibling!Programs
    BY <1>1 DEF Sibling!Programs
  <2>. QED  BY <2>1 DEF SiblingOnce, PlaceFits
<1>3. \A x \in items[id] : WellMade(id, x)
  <2>. SUFFICES ASSUME NEW x \in items[id] PROVE WellMade(id, x)
    OBVIOUS
  <2>1. ItemFollows(id, x) /\ ItemOK(id, x)
    BY <1>1 DEF TermCharts, ItemsSound, SiblingOnce, ItemsFit
  <2>2. ~IsOperation(Terms[id], x.node) => x.row = <<x.state>>
    BY <2>1 DEF ItemFollows, Sibling!Item
  <2>. QED  BY <2>1, <2>2 DEF WellMade, ItemFollows, ItemOK
<1>4. ~IsOperation(Terms[id], Root) => y.state \in decomp.states
  <2>. SUFFICES ASSUME ~IsOperation(Terms[id], Root) PROVE y.state \in decomp.states
    OBVIOUS
  <2>1. FedTo(id, Terms[id][y.node].variable, y.state)
    BY <1>1 DEF TermCharts, ItemsSound, ItemFollows
  <2>2. PICK p \in Done : p[2] = y.state
    BY <2>1 DEF FedTo
  <2>. QED  BY <2>2 DEF Done, StatesOfInput
<1>. HIDE DEF id
<1>5. Evaluates(id, y)
  BY <1>1, <1>2, <1>3, <1>4, ItemsEvaluate DEF InputParses
<1>6. PICK e \in Evaluations(decomp, Terms[id]) : y.state = e[Root] /\ y.row = RowOf(id, e, Root)
  BY <1>5 DEF Evaluates
<1>7. PICK r : r = CondensedRule(hom, id, e)
  OBVIOUS
<1>8. l.symbol \in DOMAIN hom /\ hom[l.symbol] = id
  BY <1>1 DEF Sibling!Interpreted, Sibling!Program, id
<1>9. r \in right.rules
  <2>1. id \in Range(hom)
    BY <1>8 DEF Range
  <2>2. RuleOfImage(decomp, hom, r)
    BY <1>6, <1>7, <2>1 DEF RuleOfImage
  <2>. QED  BY <2>2, ImageRules DEF InputParses
<1>10. IsRuleOf(l, y, r)
  <2>1. /\ r.symbols = LabelSet(hom, id) /\ r.children = y.row /\ r.result = y.state
        /\ Len(y.row) = Len(l.children)
    BY <1>1, <1>6, <1>7, ImageRuleIs
  <2>2. l.symbol \in r.symbols
    BY <1>8, <2>1 DEF LabelSet
  <2>. QED  BY <2>1, <2>2 DEF IsRuleOf, Joins
<1>11. e[Root] \in decomp.states
  <2>1. NodeFits(decomp, Terms[id], e, Root)
    BY <1>1, RootIsNode, EvaluationsFit
  <2>. QED  BY <2>1 DEF NodeFits, Operands
<1>. QED  BY <1>6, <1>9, <1>10, <1>11 DEF HasRule

(* What is joined. *)
JoinedRule(l, y) ==
    [symbol   |-> l.symbol,
     children |-> [i \in DOMAIN l.children |-> <<l.children[i], y.row[i]>>],
     result   |-> <<l.result, y.state>>]

JoinsEmitted == \A l, y : <<l, y>> \in emitted => JoinedRule(l, y) \in Decoded

(* A grammar rule can be joined with a root item if the children have       *)
(* product states.  It has been, or it is to be tried, or the root item is  *)
(* new, or one of the children is.                                          *)
Joinable(l, y) == RootItem(l, y) /\ \A i \in DOMAIN l.children : <<l.children[i], y.row[i]>> \in Pairs

ChildIsNew(l, y) ==
    \E i \in DOMAIN l.children :
        \/ <<l.children[i], y.row[i]>> \in Range(queue)
        \/ <<l.children[i], y.row[i]>> = current /\ <<Sibling!Program(l), i>> \in todo

Awaits(l, y) ==
    \/ <<l, y>> \in emitted \cup tries
    \/ group[1] = Sibling!Program(l) /\ y \in scheduled \cup new_roots
    \/ ChildIsNew(l, y)

RootsJoined == \A l, y : Joinable(l, y) => Awaits(l, y)

(* The programs without variables are run. *)
GroundsRun ==
    pc # "start" => \A id \in Sibling!Programs : Sibling!IsGround(id) => id \in initialized \/ Unfed(<<id, 0>>)

TriesLeft == pc \in {"start", "groups", "propagate", "done"} => tries = {}

SiblingJoins == RootsJoined /\ JoinsEmitted /\ GroundsRun /\ TriesLeft /\ StatesOfInput

-----------------------------------------------------------------------------
(* No join is forgotten: the steps of the sibling finder. *)

LEMMA JoinableKept ==
  ASSUME UNCHANGED <<left, hom, items, product_pairs>>
  PROVE  \A l, y : Joinable(l, y)' <=> Joinable(l, y)
<1>1. Pairs' = Pairs
  BY DEF Pairs, Ids
<1>2. \A l, y : RootItem(l, y)' <=> RootItem(l, y)
  BY ProgramsKept DEF RootItem
<1>. QED  BY <1>1, <1>2 DEF Joinable

LEMMA JoinsMoved ==
  ASSUME SiblingJoins, UNCHANGED <<left, hom, decomp, product_pairs, rules, emitted>>,
         RootsJoined', GroundsRun', TriesLeft'
  PROVE  SiblingJoins'
<1>1. Pairs' = Pairs /\ Decoded' = Decoded
  BY DEF Pairs, Ids, Decoded, Decode
<1>2. JoinsEmitted'
  BY <1>1 DEF SiblingJoins, JoinsEmitted, JoinedRule
<1>3. StatesOfInput'
  BY <1>1 DEF SiblingJoins, StatesOfInput
<1>. QED  BY <1>2, <1>3 DEF SiblingJoins

LEMMA GroundsStill ==
  ASSUME GroundsRun, pc # "start", UNCHANGED <<left, hom>>, initialized \subseteq initialized',
         \A g : Unfed(g) => Unfed(g)' \/ (g[2] = 0 => g[1] \in initialized')
  PROVE  GroundsRun'
<1>. SUFFICES ASSUME NEW id \in Sibling!Programs', Sibling!IsGround(id)'
              PROVE  id \in initialized' \/ Unfed(<<id, 0>>)'
  BY DEF GroundsRun
<1>1. id \in Sibling!Programs /\ Sibling!IsGround(id)
  <2>1. Sibling!IsGround(id)' <=> Sibling!IsGround(id)
    BY DEF Sibling!IsGround
  <2>. QED  BY <2>1, ProgramsKept
<1>2. CASE id \in initialized
  BY <1>2
<1>3. CASE Unfed(<<id, 0>>)
  <2>. DEFINE g == <<id, 0>>
  <2>1. g[1] = id /\ g[2] = 0 /\ Unfed(g)
    BY <1>3
  <2>2. Unfed(g)' \/ (g[2] = 0 => g[1] \in initialized')
    BY <2>1
  <2>. QED  BY <2>1, <2>2
<1>. QED  BY <1>1, <1>2, <1>3 DEF GroundsRun

LEMMA JoinsStart ==
  ASSUME SiblingJoins, SiblingOnce, TermCharts, Sibling!Start, pc' = "groups"
  PROVE  SiblingJoins'
<1>1. /\ UNCHANGED <<left, hom, decomp, product_pairs, rules, emitted, items, queue, current, group, tries, scheduled, new_roots>>
      /\ pc = "start"
      /\ todo' = {<<id, 0>> : id \in {p \in Sibling!Programs : Sibling!IsGround(p)}}
  BY DEF Sibling!Start, Sibling!GiveUp, Sibling!input, Sibling!chart, Sibling!programs
<1>2. Pairs = {} /\ tries = {} /\ scheduled = {} /\ new_roots = {}
  BY <1>1 DEF TermCharts, Pairs, Ids, SiblingJoins, TriesLeft, SiblingOnce, PlaceFits
<1>3. RootsJoined'
  <2>. SUFFICES ASSUME NEW l, NEW y, Joinable(l, y)' PROVE Awaits(l, y)'
    BY DEF RootsJoined
  <2>1. Joinable(l, y)
    BY <1>1, JoinableKept
  <2>2. l.children = <<>> \/ ~\E i \in DOMAIN l.children : TRUE
    BY <1>2, <2>1 DEF Joinable
  <2>3. ~ChildIsNew(l, y)
    BY <1>2, <2>1 DEF ChildIsNew, Joinable
  <2>4. <<l, y>> \in emitted
    BY <1>2, <2>1, <2>3 DEF SiblingJoins, RootsJoined, Awaits
  <2>. QED  BY <1>1, <2>4 DEF Awaits
<1>4. GroundsRun'
  <2>. SUFFICES ASSUME NEW id \in Sibling!Programs', Sibling!IsGround(id)' PROVE Unfed(<<id, 0>>)'
    BY DEF GroundsRun
  <2>1. id \in Sibling!Programs /\ Sibling!IsGround(id)
    <3>1. Sibling!IsGround(id)' <=> Sibling!IsGround(id)
      BY DEF Sibling!IsGround
    <3>. QED  BY <1>1, <3>1, ProgramsKept
  <2>. QED  BY <1>1, <2>1 DEF Unfed
<1>5. TriesLeft'
  BY <1>1, <1>2 DEF TriesLeft
<1>. QED  BY <1>1, <1>3, <1>4, <1>5, JoinsMoved

LEMMA JoinsNextGroup ==
  ASSUME left \in Lefts, SiblingJoins, SiblingOnce, NEW g \in todo, NEW id, NEW v, id = g[1], v = g[2],
         Sibling!NextGroup(id, v)
  PROVE  SiblingJoins'
<1>1. /\ UNCHANGED <<left, hom, decomp, product_pairs, rules, emitted, items, queue, current, initialized>>
      /\ pc = "groups" /\ pc' = "older"
      /\ <<id, v>> \in todo /\ todo' = todo \ {<<id, v>>} /\ group' = <<id, v>>
      /\ tries' = IF v = 0 THEN {}
                  ELSE Sibling!RulesOfGroup(current[1], id, v) \X {x \in items[id] : x.node = Root /\ x.row[v] = current[2]}
  BY SiblingTerms DEF Sibling!NextGroup, Sibling!input, Sibling!chart, Sibling!programs
<1>2. tries = {} /\ scheduled = {} /\ new_roots = {}
  BY <1>1 DEF SiblingJoins, TriesLeft, SiblingOnce, PlaceFits
<1>3. RootsJoined'
  <2>. SUFFICES ASSUME NEW l, NEW y, Joinable(l, y)' PROVE Awaits(l, y)'
    BY DEF RootsJoined
  <2>1. Joinable(l, y)
    BY <1>1, JoinableKept
  <2>2. Sibling!Program(l)' = Sibling!Program(l)
    BY <1>1, ProgramsKept
  <2>3. CASE <<l, y>> \in emitted
    BY <1>1, <2>3 DEF Awaits
  <2>4. CASE ChildIsNew(l, y)
    <3>1. PICK i \in DOMAIN l.children :
             \/ <<l.children[i], y.row[i]>> \in Range(queue)
             \/ <<l.children[i], y.row[i]>> = current /\ <<Sibling!Program(l), i>> \in todo
      BY <2>4 DEF ChildIsNew
    <3>2. CASE <<l.children[i], y.row[i]>> \in Range(queue)
      BY <1>1, <3>2 DEF Awaits, ChildIsNew, Range
    <3>3. CASE /\ <<l.children[i], y.row[i]>> = current
               /\ <<Sibling!Program(l), i>> \in todo /\ <<Sibling!Program(l), i>> # <<id, v>>
      BY <1>1, <2>2, <3>3 DEF Awaits, ChildIsNew
    <3>4. CASE <<l.children[i], y.row[i]>> = current /\ <<Sibling!Program(l), i>> = <<id, v>>
      <4>1. l \in Sibling!Interpreted /\ y \in items[Sibling!Program(l)] /\ y.node = Root
        BY <2>1 DEF Joinable, RootItem
      <4>2. Sibling!Program(l) = id /\ i = v /\ l.children[v] = current[1] /\ y.row[v] = current[2]
        BY <3>4
      <4>3. v # 0
        <5>1. l.children \in Seq(LeftStates)
          BY <4>1, InputsAreAutomata DEF IsExplicit, Sibling!Interpreted, ExplicitRules
        <5>. QED  BY <4>2, <5>1
      <4>4. l \in Sibling!RulesOfGroup(current[1], id, v)
        BY <4>1, <4>2 DEF Sibling!RulesOfGroup
      <4>5. <<l, y>> \in tries'
        BY <1>1, <4>1, <4>2, <4>3, <4>4
      <4>. QED  BY <4>5 DEF Awaits
    <3>. QED  BY <3>1, <3>2, <3>3, <3>4
  <2>. QED  BY <1>2, <2>1, <2>3, <2>4 DEF SiblingJoins, RootsJoined, Awaits
<1>4. GroundsRun'
  <2>1. \A h : Unfed(h)' <=> Unfed(h)
    BY <1>1 DEF Unfed
  <2>. QED  BY <1>1, <2>1, GroundsStill DEF SiblingJoins
<1>5. TriesLeft'
  BY <1>1 DEF TriesLeft
<1>. QED  BY <1>1, <1>3, <1>4, <1>5, JoinsMoved

LEMMA JoinsActivate ==
  ASSUME SiblingJoins, SiblingOnce, TermCharts, Sibling!Activate, NEW id, id = group[1]
  PROVE  SiblingJoins'
<1>1. PICK more :
         /\ UNCHANGED <<left, hom, decomp, product_pairs, rules, emitted, queue, current, todo, group, tries>>
         /\ pc = "older" /\ pc' = "propagate" /\ tries = {}
         /\ items' = [items EXCEPT ![id] = @ \cup more]
         /\ scheduled' = scheduled \cup (more \ items[id])
         /\ initialized' = initialized \cup {id}
  BY DEF Sibling!Activate, Sibling!Insert, Sibling!input, Sibling!chart, Sibling!position
<1>2. scheduled = {} /\ new_roots = {} /\ id \in DOMAIN Terms
  BY <1>1, ProgramIsTerm DEF SiblingOnce, PlaceFits, GroupFits
<1>3. items'[id] = items[id] \cup more /\ \A k \in DOMAIN Terms \ {id} : items'[k] = items[k]
  BY <1>1, <1>2 DEF SiblingOnce, ItemsFit
<1>4. RootsJoined'
  <2>. SUFFICES ASSUME NEW l, NEW y, Joinable(l, y)' PROVE Awaits(l, y)'
    BY DEF RootsJoined
  <2>1. Sibling!Program(l)' = Sibling!Program(l) /\ Pairs' = Pairs
    BY <1>1, ProgramsKept DEF Pairs, Ids
  <2>2. RootItem(l, y)' /\ l \in Sibling!Interpreted /\ Sibling!Program(l) \in DOMAIN Terms
    BY <1>1, ProgramsKept DEF Joinable, RootItem, SiblingOnce, ProgramsFit
  <2>3. CASE y \in items[Sibling!Program(l)]
    <3>1. Joinable(l, y)
      BY <2>1, <2>2, <2>3 DEF Joinable, RootItem
    <3>2. <<l, y>> \in emitted \/ ChildIsNew(l, y)
      BY <1>1, <1>2, <3>1 DEF SiblingJoins, RootsJoined, Awaits
    <3>3. ChildIsNew(l, y) => ChildIsNew(l, y)'
      BY <1>1, <2>1 DEF ChildIsNew, Range
    <3>. QED  BY <1>1, <3>2, <3>3 DEF Awaits
  <2>4. CASE y \notin items[Sibling!Program(l)]
    <3>1. y \in items'[Sibling!Program(l)]
      BY <2>1, <2>2 DEF RootItem
    <3>2. Sibling!Program(l) = id /\ y \in scheduled'
      BY <1>1, <1>3, <2>2, <2>4, <3>1
    <3>. QED  BY <1>1, <2>1, <3>2 DEF Awaits
  <2>. QED  BY <2>3, <2>4
<1>5. GroundsRun'
  <2>1. \A g : Unfed(g) => Unfed(g)' \/ g[1] = id
    BY <1>1 DEF Unfed
  <2>. QED  BY <1>1, <2>1, GroundsStill DEF SiblingJoins
<1>6. TriesLeft'
  BY <1>1 DEF TriesLeft
<1>. QED  BY <1>1, <1>4, <1>5, <1>6, JoinsMoved

LEMMA JoinsPropagate ==
  ASSUME SiblingJoins, SiblingOnce, NEW x \in scheduled, Sibling!Propagate(x), pc' = "propagate",
         NEW id, id = group[1]
  PROVE  SiblingJoins'
<1>1. PICK made :
         /\ UNCHANGED <<left, hom, decomp, product_pairs, rules, emitted, queue, current, todo, group, tries, initialized>>
         /\ pc = "propagate"
         /\ IF x.node = Root
              THEN new_roots' = new_roots \cup {x} /\ scheduled' = scheduled \ {x} /\ UNCHANGED items
              ELSE /\ items' = [items EXCEPT ![id] = @ \cup made]
                   /\ scheduled' = (scheduled \ {x}) \cup (made \ items[id])
                   /\ new_roots' = new_roots
  BY SiblingTerms DEF Sibling!Propagate, Sibling!GiveUp, Sibling!input, Sibling!chart, Sibling!position
<1>2. id \in DOMAIN Terms
  BY <1>1, ProgramIsTerm DEF SiblingOnce, PlaceFits, GroupFits
<1>3. /\ \A k \in DOMAIN Terms \ {id} : items'[k] = items[k]
      /\ \A y \in items'[id] : y \in items[id] \/ y \in scheduled'
      /\ \A y : y \in scheduled \cup new_roots /\ y.node = Root => y \in scheduled' \cup new_roots'
  BY <1>1, <1>2 DEF SiblingOnce, ItemsFit
<1>4. RootsJoined'
  <2>. SUFFICES ASSUME NEW l, NEW y, Joinable(l, y)' PROVE Awaits(l, y)'
    BY DEF RootsJoined
  <2>1. Sibling!Program(l)' = Sibling!Program(l) /\ Pairs' = Pairs
    BY <1>1, ProgramsKept DEF Pairs, Ids
  <2>2. RootItem(l, y)' /\ l \in Sibling!Interpreted /\ Sibling!Program(l) \in DOMAIN Terms /\ y.node = Root
    BY <1>1, ProgramsKept DEF Joinable, RootItem, SiblingOnce, ProgramsFit
  <2>3. CASE y \in items[Sibling!Program(l)]
    <3>1. Joinable(l, y)
      BY <2>1, <2>2, <2>3 DEF Joinable, RootItem
    <3>2. Awaits(l, y)
      BY <3>1 DEF SiblingJoins, RootsJoined
    <3>3. ChildIsNew(l, y) => ChildIsNew(l, y)'
      BY <1>1, <2>1 DEF ChildIsNew, Range
    <3>4. CASE y \in scheduled \cup new_roots /\ group[1] = Sibling!Program(l)
      <4>1. y \in scheduled' \cup new_roots'
        BY <1>3, <2>2, <3>4
      <4>. QED  BY <1>1, <2>1, <3>4, <4>1 DEF Awaits
    <3>. QED  BY <1>1, <3>2, <3>3, <3>4 DEF Awaits
  <2>4. CASE y \notin items[Sibling!Program(l)]
    <3>1. y \in items'[Sibling!Program(l)]
      BY <2>1, <2>2 DEF RootItem
    <3>2. Sibling!Program(l) = id /\ y \in scheduled'
      BY <1>3, <2>2, <2>4, <3>1
    <3>. QED  BY <1>1, <2>1, <3>2 DEF Awaits
  <2>. QED  BY <2>3, <2>4
<1>5. GroundsRun'
  <2>1. \A g : Unfed(g) => Unfed(g)'
    BY <1>1 DEF Unfed
  <2>. QED  BY <1>1, <2>1, GroundsStill DEF SiblingJoins
<1>6. TriesLeft'
  BY <1>1 DEF TriesLeft, SiblingJoins
<1>. QED  BY <1>1, <1>4, <1>5, <1>6, JoinsMoved

LEMMA JoinsNextRoot ==
  ASSUME SiblingJoins, SiblingOnce, NEW root \in new_roots, Sibling!NextRoot(root)
  PROVE  SiblingJoins'
<1>1. /\ UNCHANGED <<left, hom, decomp, product_pairs, rules, emitted, items, queue, current, todo, group, initialized, pc, scheduled>>
      /\ pc = "roots" /\ tries = {} /\ new_roots' = new_roots \ {root}
      /\ tries' = Sibling!Candidates(group[1], root.row) \X {root}
  BY DEF Sibling!NextRoot, Sibling!input, Sibling!chart, Sibling!programs, Sibling!position
<1>2. RootsJoined'
  <2>. SUFFICES ASSUME NEW l, NEW y, Joinable(l, y)' PROVE Awaits(l, y)'
    BY DEF RootsJoined
  <2>1. Joinable(l, y) /\ Awaits(l, y)
    BY <1>1, JoinableKept DEF SiblingJoins, RootsJoined
  <2>2. Sibling!Program(l)' = Sibling!Program(l)
    BY <1>1, ProgramsKept
  <2>3. CASE y = root /\ group[1] = Sibling!Program(l)
    <3>1. \A i \in DOMAIN l.children : Sibling!Known(<<l.children[i], y.row[i]>>)
      <4>1. \A p : p \in Pairs => Known(p)
        BY DEF Pairs, Known
      <4>. QED  BY <2>1, <4>1, SiblingChart DEF Joinable
    <3>2. l \in Sibling!Candidates(group[1], root.row)
      BY <2>1, <2>3, <3>1 DEF Sibling!Candidates, Joinable, RootItem
    <3>3. <<l, y>> \in tries'
      BY <1>1, <2>3, <3>2
    <3>. QED  BY <3>3 DEF Awaits
  <2>4. CASE ~(y = root /\ group[1] = Sibling!Program(l))
    <3>1. ChildIsNew(l, y) => ChildIsNew(l, y)'
      BY <1>1, <2>2 DEF ChildIsNew, Range
    <3>. QED  BY <1>1, <2>1, <2>2, <2>4, <3>1 DEF Awaits
  <2>. QED  BY <2>3, <2>4
<1>3. GroundsRun'
  <2>1. \A g : Unfed(g) => Unfed(g)'
    BY <1>1 DEF Unfed
  <2>. QED  BY <1>1, <2>1, GroundsStill DEF SiblingJoins
<1>4. TriesLeft'
  BY <1>1 DEF TriesLeft
<1>. QED  BY <1>1, <1>2, <1>3, <1>4, JoinsMoved

LEMMA JoinsPop ==
  ASSUME SiblingJoins, SiblingOnce, TermCharts, Sibling!Pop, pc' = "groups"
  PROVE  SiblingJoins'
<1>1. PICK head :
         /\ UNCHANGED <<left, hom, decomp, product_pairs, rules, emitted, items, group, initialized, pc, scheduled, new_roots, tries>>
         /\ pc = "groups" /\ todo = {} /\ queue # <<>>
         /\ head = Head(queue) /\ current' = head /\ queue' = Tail(queue) /\ todo' = Sibling!Groups(head[1])
  BY DEF Sibling!Pop, Sibling!GiveUp, Sibling!input, Sibling!programs
<1>2. tries = {} /\ scheduled = {} /\ new_roots = {}
  BY <1>1 DEF SiblingJoins, TriesLeft, SiblingOnce, PlaceFits
<1>3. Range(queue) \subseteq Range(queue') \cup {head}
  <2>1. queue \in Seq(Pairs) /\ \A i, j \in DOMAIN queue : queue[i] = queue[j] => i = j
    BY DEF TermCharts, QueueFits
  <2>2. Range(Tail(queue)) = Range(queue) \ {Head(queue)}
    BY ONLY <1>1, <2>1, TailRange, Zenon
  <2>. QED  BY <1>1, <2>2
<1>4. RootsJoined'
  <2>. SUFFICES ASSUME NEW l, NEW y, Joinable(l, y)' PROVE Awaits(l, y)'
    BY DEF RootsJoined
  <2>1. Joinable(l, y)
    BY <1>1, JoinableKept
  <2>2. Sibling!Program(l)' = Sibling!Program(l)
    BY <1>1, ProgramsKept
  <2>3. CASE <<l, y>> \in emitted
    BY <1>1, <2>3 DEF Awaits
  <2>4. CASE ChildIsNew(l, y)
    <3>1. PICK i \in DOMAIN l.children : <<l.children[i], y.row[i]>> \in Range(queue)
      BY <1>1, <2>4 DEF ChildIsNew
    <3>2. CASE <<l.children[i], y.row[i]>> \in Range(queue')
      <4>1. ChildIsNew(l, y)'
        BY <3>2 DEF ChildIsNew, Range
      <4>. QED  BY <4>1 DEF Awaits
    <3>3. CASE <<l.children[i], y.row[i]>> = head
      <4>1. <<Sibling!Program(l), i>> \in Sibling!Groups(head[1])
        <5>1. l \in Sibling!Interpreted /\ l.children[i] = head[1]
          BY <2>1, <3>3 DEF Joinable, RootItem
        <5>. QED  BY <5>1 DEF Sibling!Groups
      <4>2. ChildIsNew(l, y)'
        BY <1>1, <2>2, <3>3, <4>1 DEF ChildIsNew
      <4>. QED  BY <4>2 DEF Awaits
    <3>. QED  BY <1>3, <3>1, <3>2, <3>3
  <2>. QED  BY <1>2, <2>1, <2>3, <2>4 DEF SiblingJoins, RootsJoined, Awaits
<1>5. GroundsRun'
  <2>1. \A g : ~Unfed(g)
    BY <1>1 DEF Unfed
  <2>. QED  BY <1>1, <2>1, GroundsStill DEF SiblingJoins
<1>6. TriesLeft'
  BY <1>1, <1>2 DEF TriesLeft
<1>. QED  BY <1>1, <1>4, <1>5, <1>6, JoinsMoved

LEMMA JoinsAdvance ==
  ASSUME SiblingJoins, Sibling!EndPropagate \/ Sibling!EndGroup \/ Sibling!Finish
  PROVE  SiblingJoins'
<1>1. /\ UNCHANGED <<left, hom, decomp, product_pairs, rules, emitted, items, queue, current, todo, group, initialized, scheduled, new_roots, tries>>
      /\ \/ pc = "propagate" /\ pc' = "roots"
         \/ pc = "roots" /\ pc' = "groups" /\ tries = {}
         \/ pc = "groups" /\ pc' = "done"
  BY DEF Sibling!EndPropagate, Sibling!EndGroup, Sibling!Finish, Sibling!input, Sibling!chart, Sibling!programs,
         Sibling!position
<1>2. RootsJoined'
  <2>. SUFFICES ASSUME NEW l, NEW y, Joinable(l, y)' PROVE Awaits(l, y)'
    BY DEF RootsJoined
  <2>1. Joinable(l, y) /\ Awaits(l, y)
    BY <1>1, JoinableKept DEF SiblingJoins, RootsJoined
  <2>2. Sibling!Program(l)' = Sibling!Program(l)
    BY <1>1, ProgramsKept
  <2>3. ChildIsNew(l, y) => ChildIsNew(l, y)'
    BY <1>1, <2>2 DEF ChildIsNew, Range
  <2>. QED  BY <1>1, <2>1, <2>2, <2>3 DEF Awaits
<1>3. GroundsRun'
  <2>1. \A g : Unfed(g) => Unfed(g)'
    BY <1>1 DEF Unfed
  <2>. QED  BY <1>1, <2>1, GroundsStill DEF SiblingJoins
<1>4. TriesLeft'
  BY <1>1 DEF TriesLeft, SiblingJoins
<1>. QED  BY <1>1, <1>2, <1>3, <1>4, JoinsMoved

LEMMA JoinsTryEmit ==
  ASSUME ChartInv, InputParses, strategy = "sibling", strategy' = strategy, SiblingJoins, SiblingOnce, TermCharts,
         NEW t \in tries, NEW l, NEW y, t = <<l, y>>, Sibling!TryEmit(l, y)
  PROVE  ChartInv' /\ SiblingJoins' /\ [Promise!Next]_Promise!vars
<1>. DEFINE kids == [i \in DOMAIN l.children |-> <<l.children[i], y.row[i]>>]
            ids  == [i \in DOMAIN kids |-> IdOf(kids[i])]
            pair == <<l.result, y.state>>
            done == <<product_pairs, accepting, rules, duplicate, queue, emitted>>
            ready == <<l, y>> \notin emitted /\ \A i \in DOMAIN kids : Known(kids[i])
<1>1. /\ <<l, y>> \in tries /\ tries' = tries \ {<<l, y>>} /\ pc \in {"older", "roots"}
      /\ UNCHANGED <<left, right, decomp, hom, items, initialized, scheduled, current, todo, group, pc, new_roots>>
      /\ \/ ~ready /\ UNCHANGED done
         \/ /\ ready /\ AddProductRule(l.symbol, ids, pair)
            /\ queue' = IF Known(pair) THEN queue ELSE Append(queue, pair)
            /\ emitted' = emitted \cup {<<l, y>>}
  <2>1. \A i \in DOMAIN kids : IdOf(kids[i]) = Sibling!IdOf(kids[i])
    BY SiblingChart
  <2>2. ids = [i \in DOMAIN kids |-> Sibling!IdOf(kids[i])]
    BY <2>1
  <2>. HIDE DEF ids
  <2>. QED  BY <2>2, SiblingChart DEF Sibling!TryEmit, Sibling!input, Sibling!programs, Sibling!position, Sibling!chart
<1>2. RootItem(l, y)
  BY <1>1 DEF SiblingOnce, RootsFit
<1>3. \A m, z : RootItem(m, z)' <=> RootItem(m, z)
  BY <1>1, ProgramsKept DEF RootItem
<1>4. \A m : Sibling!Program(m)' = Sibling!Program(m)
  BY <1>1, ProgramsKept
<1>5. GroundsRun'
  <2>1. \A h : Unfed(h)' <=> Unfed(h)
    BY <1>1 DEF Unfed
  <2>. QED  BY <1>1, <2>1, GroundsStill DEF SiblingJoins
<1>6. TriesLeft'
  BY <1>1 DEF TriesLeft
<1>7. \A p : Known(p) <=> p \in Pairs
  BY IdsAreInterval
<1>8. Outcome = "running" /\ Outcome' = "running"
  BY <1>1 DEF Outcome, Sibling!Outcome
<1>9. CASE ~ready /\ UNCHANGED done
  <2>1. RootsJoined'
    <3>. SUFFICES ASSUME NEW m, NEW z, Joinable(m, z)' PROVE Awaits(m, z)'
      BY DEF RootsJoined
    <3>1. Joinable(m, z) /\ Awaits(m, z)
      BY <1>1, <1>9, JoinableKept DEF SiblingJoins, RootsJoined
    <3>2. CASE <<m, z>> = <<l, y>>
      <4>1. \A i \in DOMAIN l.children : Known(<<l.children[i], y.row[i]>>)
        BY <1>7, <3>1, <3>2 DEF Joinable
      <4>2. <<l, y>> \in emitted
        BY <1>9, <4>1
      <4>. QED  BY <1>9, <3>2, <4>2 DEF Awaits
    <3>3. CASE <<m, z>> # <<l, y>>
      <4>1. ChildIsNew(m, z) => ChildIsNew(m, z)'
        BY <1>1, <1>4, <1>9 DEF ChildIsNew, Range
      <4>. QED  BY <1>1, <1>4, <1>9, <3>1, <3>3, <4>1 DEF Awaits
    <3>. QED  BY <3>2, <3>3
  <2>2. SiblingJoins'
    BY <1>1, <1>5, <1>6, <1>9, <2>1, JoinsMoved
  <2>3. ChartInv'
    BY <1>1, <1>9, ChartKept
  <2>. QED  BY <1>1, <1>8, <1>9, <2>2, <2>3, PromiseKept
<1>10. CASE /\ ready /\ AddProductRule(l.symbol, ids, pair)
            /\ queue' = IF Known(pair) THEN queue ELSE Append(queue, pair)
            /\ emitted' = emitted \cup {<<l, y>>}
  <2>1. HasRule(l, y)
    BY <1>1, <1>2, RootItemJoins DEF SiblingJoins
  <2>2. y.state \in decomp.states /\ \E r \in right.rules : IsRuleOf(l, y, r)
    BY <2>1 DEF HasRule
  <2>3. PICK r \in right.rules : Joins(l, r) /\ r.result = y.state /\ r.children = y.row
    BY <2>2 DEF IsRuleOf
  <2>4. /\ l \in left.rules /\ l.symbol \in Symbols /\ l.children \in Seq(LeftStates) /\ l.result \in LeftStates
        /\ r.result \in RightStates
    BY <1>2, InputsAreAutomata DEF ChartInv, IsExplicit, ExplicitRules, IsCondensed, CondensedRules, RootItem, Sibling!Interpreted
  <2>5. ProductRule(l, r) = JoinedRule(l, y)
    BY <2>3 DEF ProductRule, JoinedRule
  <2>6. PICK c : c = ids
    OBVIOUS
  <2>7. /\ DOMAIN c = DOMAIN l.children
        /\ \A i \in DOMAIN c : c[i] \in Ids /\ product_pairs[c[i]] = kids[i]
        /\ c = [i \in DOMAIN l.children |-> c[i]]
    BY <1>10, <2>6, IdOfKnown
  <2>8. c \in Seq(Ids)
    <3>1. Len(l.children) \in Nat /\ DOMAIN l.children = 1..Len(l.children)
      BY <2>4
    <3>2. c \in [1..Len(l.children) -> Ids]
      BY ONLY <2>7, <3>1
    <3>. QED  BY <3>1, <3>2
  <2>9. ProductRule(l, r).children = [i \in DOMAIN c |-> product_pairs[c[i]]]
    <3>1. \A i \in DOMAIN l.children : product_pairs[c[i]] = <<l.children[i], y.row[i]>>
      BY <2>7
    <3>2. JoinedRule(l, y).children = [i \in DOMAIN l.children |-> <<l.children[i], y.row[i]>>]
      BY DEF JoinedRule
    <3>. HIDE DEF kids, ids
    <3>. QED  BY <2>5, <2>7, <3>1, <3>2
  <2>10. AddProductRule(l.symbol, c, <<l.result, r.result>>)
    BY <1>10, <2>3, <2>6
  <2>11. <<l.result, r.result>> \in LeftStates \X RightStates
    BY <2>4
  <2>12. [Promise!Next]_Promise!vars /\ Decoded' = Decoded \cup {JoinedRule(l, y)}
    <3>1. r \in Contribution.rules
      BY DEF Contribution
    <3>2. [Promise!Next]_Promise!vars /\ Decoded' = Decoded \cup {ProductRule(l, r)}
      BY <1>1, <1>8, <2>3, <2>4, <2>8, <2>9, <2>10, <2>11, <3>1, PromiseAdds
    <3>. QED  BY <2>5, <3>2
  <2>13. ChartInv' /\ Pairs' = Pairs \cup {pair}
    <3>1. ChartInv' /\ Pairs' = Pairs \cup {<<l.result, r.result>>}
      BY <1>1, <2>4, <2>8, <2>10, <2>11, ChartGrows
    <3>. QED  BY <2>3, <3>1
  <2>14. Range(queue) \subseteq Range(queue') /\ (pair \notin Pairs => pair \in Range(queue'))
    <3>1. queue \in Seq(Pairs)
      BY DEF TermCharts, QueueFits
    <3>. HIDE DEF pair
    <3>2. Range(Append(queue, pair)) = Range(queue) \cup {pair}
      BY <3>1, AppendRange
    <3>. QED  BY <1>7, <1>10, <3>2
  <2>15. JoinsEmitted'
    <3>1. \A m, z : JoinedRule(m, z)' = JoinedRule(m, z)
      BY DEF JoinedRule
    <3>2. \A m, z : <<m, z>> \in emitted' => <<m, z>> \in emitted \/ (m = l /\ z = y)
      BY <1>10
    <3>. QED  BY <2>12, <3>1, <3>2 DEF JoinsEmitted, SiblingJoins
  <2>16. StatesOfInput'
    BY <1>1, <2>2, <2>13 DEF StatesOfInput, SiblingJoins
  <2>17. RootsJoined'
    <3>. SUFFICES ASSUME NEW m, NEW z, Joinable(m, z)' PROVE Awaits(m, z)'
      BY DEF RootsJoined
    <3>1. RootItem(m, z) /\ \A i \in DOMAIN m.children : <<m.children[i], z.row[i]>> \in Pairs'
      BY <1>3 DEF Joinable
    <3>2. CASE Joinable(m, z)
      <4>1. Awaits(m, z)
        BY <3>2 DEF SiblingJoins, RootsJoined
      <4>2. ChildIsNew(m, z) => ChildIsNew(m, z)'
        BY <1>1, <1>4, <2>14 DEF ChildIsNew, Range
      <4>3. <<m, z>> \in emitted \cup tries => <<m, z>> \in emitted' \cup tries'
        BY <1>1, <1>10
      <4>. QED  BY <1>1, <1>4, <4>1, <4>2, <4>3 DEF Awaits
    <3>3. CASE ~Joinable(m, z)
      <4>1. PICK i \in DOMAIN m.children : <<m.children[i], z.row[i]>> \notin Pairs
        BY <3>1, <3>3 DEF Joinable
      <4>2. <<m.children[i], z.row[i]>> = pair /\ pair \notin Pairs
        BY <2>13, <3>1, <4>1
      <4>3. <<m.children[i], z.row[i]>> \in Range(queue')
        BY <2>14, <4>2
      <4>4. ChildIsNew(m, z)'
        BY <4>3 DEF ChildIsNew, Range
      <4>. QED  BY <4>4 DEF Awaits
    <3>. QED  BY <3>2, <3>3
  <2>. QED  BY <1>5, <1>6, <2>12, <2>13, <2>15, <2>16, <2>17 DEF SiblingJoins
<1>. QED  BY <1>1, <1>9, <1>10

-----------------------------------------------------------------------------
(* At the end nothing is missing. *)

(* All nodes of an evaluation whose variables have been fed have items.     *)
LEMMA ItemsComplete ==
  ASSUME SiblingOnce, TermCharts, pc = "groups", NEW id \in initialized, NEW e,
         \A n \in DOMAIN Terms[id] : NodeFits(decomp, Terms[id], e, n),
         \A v \in 1..Arity(Terms[id]) : FedItem(id, v, e[VariableNode(Terms[id], v)]) \in items[id]
  PROVE  \A n \in DOMAIN Terms[id] : NodeItem(id, e, n) \in items[id]
<1>. DEFINE term == Terms[id]
            len == Len(term)
            missing == {n \in DOMAIN term : NodeItem(id, e, n) \notin items[id]}
            T == {k \in Nat : \E n \in missing : k = len - n}
<1>1. id \in Sibling!Programs /\ Sibling!IsBinary(id) /\ id \in DOMAIN Terms
  BY ProgramIsTerm DEF TermCharts, SiblingOnce, PlaceFits
<1>2. len \in Nat /\ DOMAIN term = 1..len
  BY <1>1, TermIs
<1>. SUFFICES ASSUME missing # {} PROVE FALSE
  OBVIOUS
<1>3. \A n \in missing : n \in 1..len /\ len - n \in Nat /\ len - n \in T
  BY <1>2
<1>4. T \subseteq Nat /\ T # {}
  BY <1>3
<1>5. PICK m \in T : \A k \in T : m <= k
  BY <1>4, LeastElement
<1>6. PICK n \in missing : m = len - n
  BY <1>5
<1>7. \A k \in DOMAIN term : n < k => NodeItem(id, e, k) \in items[id]
  <2>. SUFFICES ASSUME NEW k \in DOMAIN term, n < k, k \in missing PROVE FALSE
    OBVIOUS
  <2>1. len - k \in T /\ k \in 1..len /\ n \in 1..len
    BY <1>3, <1>6
  <2>2. len - n <= len - k
    BY <1>5, <1>6, <2>1
  <2>. QED  BY <1>2, <2>1, <2>2
<1>. HIDE DEF T
<1>8. n \in DOMAIN term /\ NodeItem(id, e, n) \notin items[id]
  BY <1>6
<1>. HIDE DEF missing
<1>9. CASE IsOperation(term, n)
  <2>1. ASSUME NEW i \in DOMAIN Children(term, n) PROVE NodeItem(id, e, Children(term, n)[i]) \in items[id]
    <3>. DEFINE kid == Children(term, n)[i]
    <3>1. kid \in DOMAIN term /\ kid # Root /\ term[kid].parent = n
      BY <1>1, <1>8, KidIs
    <3>2. term[kid].parent < kid
      <4>. HIDE DEF kid
      <4>. QED  BY <1>1, <3>1, TermIs
    <3>. QED  BY <1>7, <3>1, <3>2
  <2>2. PICK S, z : S = items[id] /\ z = NodeItem(id, e, n)
    OBVIOUS
  <2>3. MadeOf(id, n, S, z)
    BY <1>1, <1>8, <1>9, <2>1, <2>2, NodeItemMade
  <2>4. Unsettled(id) = {}
    BY DEF Unsettled
  <2>5. MadeOf(id, n, items[id] \ Unsettled(id), z)
    <3>1. items[id] \ Unsettled(id) = S
      BY <2>2, <2>4
    <3>. QED  BY <2>3, <3>1
  <2>6. z \in items[id]
    BY <1>8, <1>9, <2>5 DEF TermCharts, ItemsClosed
  <2>. QED  BY <1>8, <2>2, <2>6
<1>10. CASE ~IsOperation(term, n)
  <2>1. PICK v : v = term[n].variable
    OBVIOUS
  <2>2. v \in 1..Arity(term)
    BY <1>1, <1>8, <1>10, <2>1, TermsAreNondeleting DEF IsNondeleting
  <2>3. PICK k : k = VariableNode(term, v)
    OBVIOUS
  <2>4. k \in DOMAIN term /\ term[k].variable = v
    BY <1>1, <2>2, <2>3, VariableAt
  <2>5. k = n
    BY <1>1, <1>8, <1>10, <2>1, <2>4, OneVariable
  <2>6. FedItem(id, v, e[n]) \in items[id]
    BY <2>2, <2>3, <2>5
  <2>7. FedItem(id, v, e[n]) = Sibling!Item(n, e[n], <<e[n]>>)
    BY <2>3, <2>5, SiblingTerms DEF FedItem
  <2>8. NodeItem(id, e, n) = Sibling!Item(n, e[n], <<e[n]>>)
    BY <1>1, <1>8, <1>10, RowOfVariable DEF NodeItem
  <2>. QED  BY <1>8, <2>6, <2>7, <2>8
<1>. QED  BY <1>9, <1>10

LEMMA SiblingHasAll ==
  ASSUME left \in Lefts, InputParses, SiblingOnce, TermCharts, SiblingJoins, pc = "groups", todo = {}, queue = <<>>
  PROVE  HasAll(right)
<1>. SUFFICES ASSUME NEW l \in left.rules, NEW r \in right.rules, Joins(l, r),
                     Range(ProductRule(l, r).children) \subseteq Pairs
              PROVE  ProductRule(l, r) \in Decoded
  BY DEF HasAll
<1>1. PICK id \in Range(hom) : \E e \in Evaluations(decomp, Terms[id]) : r = CondensedRule(hom, id, e)
  <2>1. RuleOfImage(decomp, hom, r)
    BY ImageRules DEF InputParses
  <2>. QED  BY <2>1 DEF RuleOfImage
<1>2. PICK e \in Evaluations(decomp, Terms[id]) : r = CondensedRule(hom, id, e)
  BY <1>1
<1>3. l.symbol \in DOMAIN hom /\ hom[l.symbol] = id
  BY <1>2 DEF Joins, CondensedRule, LabelSet
<1>4. l \in Sibling!Interpreted /\ Sibling!Program(l) = id /\ id \in Sibling!Programs
  BY <1>3 DEF Sibling!Interpreted, Sibling!Program, Sibling!Programs
<1>5. id \in DOMAIN Terms /\ Arity(Terms[id]) = Len(l.children)
  BY <1>4 DEF SiblingOnce, ProgramsFit
<1>6. /\ r.children = RowOf(id, e, Root) /\ r.result = e[Root]
      /\ r.children = [v \in 1..Arity(Terms[id]) |-> e[VariableNode(Terms[id], v)]]
  BY <1>2, <1>5, ImageRuleIs DEF CondensedRule
<1>7. l.children \in Seq(LeftStates) /\ Len(l.children) \in Nat /\ DOMAIN l.children = 1..Len(l.children)
  BY InputsAreAutomata DEF IsExplicit, ExplicitRules
<1>8. \A v \in DOMAIN l.children : <<l.children[v], r.children[v]>> \in Pairs
  <2>1. ProductRule(l, r).children = [v \in DOMAIN l.children |-> <<l.children[v], r.children[v]>>]
    BY DEF ProductRule
  <2>. QED  BY <2>1 DEF Range
<1>9. \A g : ~Unfed(g)
  BY DEF Unfed
<1>10. ASSUME NEW v \in 1..Arity(Terms[id]) PROVE FedItem(id, v, e[VariableNode(Terms[id], v)]) \in items[id]
  <2>1. v \in DOMAIN l.children /\ r.children[v] = e[VariableNode(Terms[id], v)]
    BY <1>5, <1>6, <1>7
  <2>2. PICK p : p = <<l.children[v], r.children[v]>>
    OBVIOUS
  <2>3. p \in Done
    BY <1>8, <2>1, <2>2 DEF Done, Range
  <2>4. <<id, v>> \in Sibling!Groups(p[1])
    BY <1>4, <2>1, <2>2 DEF Sibling!Groups
  <2>5. FedItem(id, v, p[2]) \in items[id]
    BY <1>9, <2>3, <2>4 DEF TermCharts, StatesFed
  <2>. QED  BY <2>1, <2>2, <2>5
<1>11. id \in initialized
  <2>1. CASE Arity(Terms[id]) = 0
    <3>1. Sibling!IsGround(id)
      BY <2>1, SiblingTerms DEF Sibling!IsGround, Sibling!Arity, Arity
    <3>. QED  BY <1>4, <1>9, <3>1 DEF SiblingJoins, GroundsRun
  <2>2. CASE Arity(Terms[id]) # 0
    <3>1. 1 \in 1..Arity(Terms[id])
      BY <1>5, <1>7, <2>2
    <3>2. FedItem(id, 1, e[VariableNode(Terms[id], 1)]) \in items[id]
      BY <1>10, <3>1
    <3>. QED  BY <1>5, <3>2 DEF TermCharts, ItemsSound
  <2>. QED  BY <2>1, <2>2
<1>12. PICK y : y = NodeItem(id, e, Root)
  OBVIOUS
<1>13. y \in items[id] /\ y.node = Root /\ y.state = r.result /\ y.row = r.children
  <2>1. \A n \in DOMAIN Terms[id] : NodeFits(decomp, Terms[id], e, n)
    BY <1>5, EvaluationsFit
  <2>2. NodeItem(id, e, Root) \in items[id]
    BY <1>5, <1>10, <1>11, <2>1, ItemsComplete, RootIsNode
  <2>. QED  BY <1>6, <1>12, <2>2 DEF NodeItem, Sibling!Item
<1>14. Joinable(l, y)
  BY <1>4, <1>8, <1>13 DEF Joinable, RootItem
<1>15. ~ChildIsNew(l, y)
  BY DEF ChildIsNew, Range
<1>16. <<l, y>> \in emitted
  BY <1>14, <1>15 DEF SiblingJoins, RootsJoined, Awaits, TriesLeft, SiblingOnce, PlaceFits
<1>17. JoinedRule(l, y) = ProductRule(l, r)
  BY <1>13 DEF JoinedRule, ProductRule
<1>. QED  BY <1>16, <1>17 DEF SiblingJoins, JoinsEmitted

-----------------------------------------------------------------------------
(* The sibling finder keeps the promise. *)

Stopped == pc \in {"cancelled", "refused"}

SiblingSafe ==
    strategy = "sibling" => ChartInv /\ ItemsSafe /\ InputParses /\ (~Stopped => SiblingJoins)

LEMMA SiblingStarts ==
  ASSUME SiblingIndexesFit, SiblingJobsParse, Init
  PROVE  SiblingSafe
<1>. SUFFICES ASSUME strategy = "sibling" PROVE ChartInv /\ ItemsSafe /\ InputParses /\ SiblingJoins
  BY DEF SiblingSafe
<1>1. PICK job \in Jobs : /\ strategy = job.strategy /\ decomp = job.input.decomp /\ hom = job.input.hom
                          /\ right = (IF job.strategy = "top-down" THEN ImagesByParent ELSE Images)[job.input]
  BY DEF Init
<1>2. InputParses
  <2>1. job.input \in Inputs /\ \A r \in job.input.decomp.rules : r.result \in job.input.decomp.states
    BY <1>1 DEF SiblingJobsParse
  <2>2. right = Image(decomp, hom)
    BY <1>1, <2>1 DEF Images
  <2>. QED  BY <1>1, <2>1, <2>2 DEF InputParses
<1>3. /\ product_pairs = <<>> /\ pc = "start" /\ items = [id \in DOMAIN Terms |-> {}] /\ tries = {} /\ emitted = {}
  BY DEF Init, TopDown!Init, TopDown!InitChart, Sibling!Init
<1>4. Pairs = {}
  BY <1>3 DEF Pairs, Ids
<1>5. RootsJoined
  <2>1. ASSUME NEW l, NEW y, RootItem(l, y) PROVE FALSE
    <3>1. Sibling!Program(l) \in DOMAIN Terms
      BY <2>1, SiblingOnceInit DEF SiblingOnce, ProgramsFit, RootItem
    <3>. QED  BY <1>3, <2>1, <3>1 DEF RootItem
  <2>. QED  BY <2>1 DEF RootsJoined, Joinable
<1>6. SiblingJoins
  BY <1>3, <1>4, <1>5 DEF SiblingJoins, JoinsEmitted, GroundsRun, TriesLeft, StatesOfInput
<1>. QED  BY <1>2, <1>6, ItemsInit, WalkInit

(* The steps that leave the chart as it is. *)
LEMMA SiblingRests ==
  ASSUME strategy = "sibling", ChartInv, InputParses,
         UNCHANGED <<left, right, decomp, hom, strategy, product_pairs, accepting, rules, duplicate>>
  PROVE  /\ ChartInv' /\ InputParses'
         /\ ~Stopped /\ pc # "done" /\ pc' \notin {"done", "cancelled", "refused"} => [Promise!Next]_Promise!vars
         /\ ~Stopped /\ pc # "done" /\ Stopped' => [Promise!Next]_Promise!vars
         /\ ~Stopped /\ pc # "done" /\ pc' = "done" /\ HasAll(right) => [Promise!Next]_Promise!vars
         /\ pc' = pc => [Promise!Next]_Promise!vars
<1>1. ChartInv' /\ InputParses'
  <2>1. InputParses'
    BY DEF InputParses
  <2>. QED  BY <2>1, ChartKept
<1>2. ASSUME ~Stopped, pc # "done", pc' \notin {"done", "cancelled", "refused"} PROVE [Promise!Next]_Promise!vars
  <2>1. Outcome' = Outcome
    BY <1>2 DEF Stopped, Outcome, Sibling!Outcome
  <2>. QED  BY <2>1, PromiseKept
<1>3. ASSUME ~Stopped, pc # "done", Stopped' PROVE [Promise!Next]_Promise!vars
  <2>1. Outcome = "running" /\ Outcome' = "none"
    BY <1>3 DEF Stopped, Outcome, Sibling!Outcome
  <2>. QED  BY <2>1, PromiseEnds
<1>4. ASSUME ~Stopped, pc # "done", pc' = "done", HasAll(right) PROVE [Promise!Next]_Promise!vars
  <2>1. Outcome = "running" /\ Outcome' = "chart"
    BY <1>4 DEF Stopped, Outcome, Sibling!Outcome
  <2>2. HasAll(Contribution)
    BY <1>4 DEF Contribution
  <2>. QED  BY <2>1, <2>2, PromiseEnds
<1>5. ASSUME pc' = pc PROVE [Promise!Next]_Promise!vars
  <2>1. Outcome' = Outcome
    BY <1>5 DEF Outcome, Sibling!Outcome
  <2>. QED  BY <2>1, PromiseKept
<1>. QED  BY <1>1, <1>2, <1>3, <1>4, <1>5

LEMMA SiblingWorks ==
  ASSUME strategy = "sibling", strategy' = strategy, ChartInv, ItemsSafe, InputParses, ~Stopped => SiblingJoins,
         Sibling!Work
  PROVE  ChartInv' /\ InputParses' /\ (~Stopped' => SiblingJoins') /\ [Promise!Next]_Promise!vars
<1>. USE DEF Sibling!input, Sibling!chart, Sibling!programs, Sibling!position
<1>. DEFINE Rests == UNCHANGED <<left, right, decomp, hom, strategy, product_pairs, accepting, rules, duplicate>>
<1>1. left \in Lefts /\ SiblingOnce /\ (~Stopped => TermCharts)
  BY DEF ItemsSafe, Stopped
<1>2. CASE Sibling!Start
  <2>1. Rests /\ pc = "start" /\ (pc' = "groups" \/ Stopped')
    BY <1>2 DEF Sibling!Start, Sibling!GiveUp, Stopped
  <2>2. ~Stopped /\ (pc' = "groups" => ~Stopped')
    BY <2>1 DEF Stopped
  <2>3. pc' = "groups" => SiblingJoins'
    BY <1>1, <1>2, <2>2, JoinsStart
  <2>. QED  BY <2>1, <2>2, <2>3, SiblingRests
<1>3. CASE \E g \in todo : Sibling!NextGroup(g[1], g[2])
  <2>1. PICK g \in todo : Sibling!NextGroup(g[1], g[2])
    BY <1>3
  <2>2. Rests /\ pc = "groups" /\ pc' = "older"
    BY <2>1 DEF Sibling!NextGroup
  <2>3. PICK id, v : id = g[1] /\ v = g[2]
    OBVIOUS
  <2>4. ~Stopped
    BY <2>2 DEF Stopped
  <2>5. SiblingJoins'
    BY <1>1, <2>1, <2>3, <2>4, JoinsNextGroup
  <2>. QED  BY <2>2, <2>4, <2>5, SiblingRests
<1>4. CASE \E t \in tries : Sibling!TryEmit(t[1], t[2])
  <2>1. PICK t \in tries : Sibling!TryEmit(t[1], t[2])
    BY <1>4
  <2>2. pc \in {"older", "roots"} /\ <<t[1], t[2]>> \in tries /\ UNCHANGED <<right, decomp, hom>>
    BY <2>1 DEF Sibling!TryEmit
  <2>3. PICK l, y : l = t[1] /\ y = t[2]
    OBVIOUS
  <2>4. PICK u \in tries : u = <<l, y>>
    BY <2>2, <2>3
  <2>5. Sibling!TryEmit(l, y)
    BY <2>1, <2>3
  <2>6. ~Stopped
    BY <2>2 DEF Stopped
  <2>7. ChartInv' /\ SiblingJoins' /\ [Promise!Next]_Promise!vars
    BY <1>1, <2>4, <2>5, <2>6, JoinsTryEmit
  <2>8. InputParses'
    BY <2>2 DEF InputParses
  <2>. QED  BY <2>7, <2>8
<1>5. CASE Sibling!Activate
  <2>1. Rests /\ pc = "older" /\ pc' = "propagate"
    BY <1>5 DEF Sibling!Activate
  <2>2. PICK id : id = group[1]
    OBVIOUS
  <2>3. ~Stopped
    BY <2>1 DEF Stopped
  <2>4. SiblingJoins'
    BY <1>1, <1>5, <2>2, <2>3, JoinsActivate
  <2>. QED  BY <2>1, <2>3, <2>4, SiblingRests
<1>6. CASE \E x \in scheduled : Sibling!Propagate(x)
  <2>1. PICK x \in scheduled : Sibling!Propagate(x)
    BY <1>6
  <2>2. Rests /\ pc = "propagate" /\ pc' \in {"propagate", "cancelled"}
    BY <2>1 DEF Sibling!Propagate, Sibling!GiveUp
  <2>3. PICK id : id = group[1]
    OBVIOUS
  <2>4. ~Stopped /\ (pc' = "cancelled" => Stopped')
    BY <2>2 DEF Stopped
  <2>5. pc' = "propagate" => SiblingJoins'
    BY <1>1, <2>1, <2>3, <2>4, JoinsPropagate
  <2>. QED  BY <2>2, <2>4, <2>5, SiblingRests
<1>7. CASE Sibling!EndPropagate \/ Sibling!EndGroup
  <2>1. Rests /\ pc \in {"propagate", "roots"} /\ pc' \in {"roots", "groups"}
    BY <1>7 DEF Sibling!EndPropagate, Sibling!EndGroup
  <2>2. ~Stopped
    BY <2>1 DEF Stopped
  <2>3. SiblingJoins'
    BY <1>7, <2>2, JoinsAdvance
  <2>. QED  BY <2>1, <2>2, <2>3, SiblingRests
<1>8. CASE \E root \in new_roots : Sibling!NextRoot(root)
  <2>1. PICK root \in new_roots : Sibling!NextRoot(root)
    BY <1>8
  <2>2. Rests /\ pc = "roots" /\ pc' = "roots"
    BY <2>1 DEF Sibling!NextRoot
  <2>3. ~Stopped
    BY <2>2 DEF Stopped
  <2>4. SiblingJoins'
    BY <1>1, <2>1, <2>3, JoinsNextRoot
  <2>. QED  BY <2>2, <2>3, <2>4, SiblingRests
<1>9. CASE Sibling!Pop
  <2>1. Rests /\ pc = "groups" /\ pc' \in {"groups", "cancelled"}
    BY <1>9 DEF Sibling!Pop, Sibling!GiveUp
  <2>2. ~Stopped /\ (pc' = "cancelled" => Stopped')
    BY <2>1 DEF Stopped
  <2>3. pc' = "groups" => SiblingJoins'
    BY <1>1, <1>9, <2>2, JoinsPop
  <2>. QED  BY <2>1, <2>2, <2>3, SiblingRests
<1>10. CASE Sibling!Finish
  <2>1. Rests /\ pc = "groups" /\ pc' = "done" /\ todo = {} /\ queue = <<>>
    BY <1>10 DEF Sibling!Finish
  <2>2. ~Stopped
    BY <2>1 DEF Stopped
  <2>3. SiblingJoins'
    BY <1>10, <2>2, JoinsAdvance
  <2>4. HasAll(right)
    BY <1>1, <2>1, <2>2, SiblingHasAll
  <2>. QED  BY <2>1, <2>2, <2>3, <2>4, SiblingRests
<1>. QED  BY <1>2, <1>3, <1>4, <1>5, <1>6, <1>7, <1>8, <1>9, <1>10 DEF Sibling!Work

LEMMA SiblingStep ==
  ASSUME SiblingSafe, [Next]_vars
  PROVE  SiblingSafe' /\ (strategy = "sibling" => [Promise!Next]_Promise!vars)
<1>1. strategy' = strategy
  BY DEF Next, vars, ParseTopDown, ParseWithSiblings, FilterChart, MaterializeLazily, Cancel
<1>. SUFFICES ASSUME strategy = "sibling"
              PROVE  /\ ChartInv' /\ ItemsSafe' /\ InputParses' /\ (~Stopped' => SiblingJoins')
                     /\ [Promise!Next]_Promise!vars
  BY <1>1 DEF SiblingSafe
<1>2. ChartInv /\ ItemsSafe /\ InputParses /\ (~Stopped => SiblingJoins)
  BY DEF SiblingSafe
<1>3. ItemsSafe'
  BY <1>2, ItemsStep
<1>4. CASE Sibling!Work
  BY <1>1, <1>2, <1>3, <1>4, SiblingWorks
<1>5. CASE Cancel \/ UNCHANGED vars
  <2>1. UNCHANGED <<left, right, decomp, hom, strategy, product_pairs, accepting, rules, duplicate, program_vars>>
    BY <1>5 DEF Cancel, vars, Sibling!Cancel, Sibling!input, Sibling!chart, Sibling!programs, Sibling!position, program_vars
  <2>2. UNCHANGED <<pc, items, initialized, scheduled, queue, current, todo, group, new_roots, tries, emitted>>
    BY <2>1 DEF program_vars
  <2>3. Stopped' = Stopped
    BY <2>2 DEF Stopped
  <2>4. ASSUME SiblingJoins PROVE SiblingJoins'
    <3>1. RootsJoined'
      <4>. SUFFICES ASSUME NEW l, NEW y, Joinable(l, y)' PROVE Awaits(l, y)'
        BY DEF RootsJoined
      <4>1. Joinable(l, y) /\ Awaits(l, y)
        BY <2>1, <2>2, <2>4, JoinableKept DEF SiblingJoins, RootsJoined
      <4>2. Sibling!Program(l)' = Sibling!Program(l)
        BY <2>1, ProgramsKept
      <4>3. ChildIsNew(l, y) => ChildIsNew(l, y)'
        BY <2>2, <4>2 DEF ChildIsNew, Range
      <4>. QED  BY <2>2, <4>1, <4>2, <4>3 DEF Awaits
    <3>2. GroundsRun'
      <4>1. \A g : Unfed(g) => Unfed(g)'
        BY <2>2 DEF Unfed
      <4>2. CASE pc = "start"
        BY <2>2, <4>2 DEF GroundsRun
      <4>3. CASE pc # "start"
        BY <2>1, <2>2, <2>4, <4>1, <4>3, GroundsStill DEF SiblingJoins
      <4>. QED  BY <4>2, <4>3
    <3>3. TriesLeft'
      BY <2>2, <2>4 DEF TriesLeft, SiblingJoins
    <3>. QED  BY <2>1, <2>2, <2>4, <3>1, <3>2, <3>3, JoinsMoved
  <2>. QED  BY <1>2, <1>3, <2>1, <2>2, <2>3, <2>4, SiblingRests
<1>. QED  BY <1>4, <1>5 DEF Next, ParseTopDown, ParseWithSiblings, FilterChart, MaterializeLazily

-----------------------------------------------------------------------------
(* All four keep the promise. *)

Strategies == {"top-down", "sibling", "filter", "lazy"}

LEMMA PromiseStarts ==
  ASSUME Init, strategy \in Strategies
  PROVE  Promise!Init
<1>1. left \in Lefts /\ right \in Rights /\ product_pairs = <<>> /\ rules = {}
  BY DEF Init, TopDown!Init, TopDown!InitChart
<1>2. walk = "start" /\ pc = "start" /\ phase = "sweep" /\ stage = "start"
  BY DEF Init, TopDown!Init, Sibling!Init, Filter!Init, Lazy!Init
<1>3. Outcome = "running"
  BY <1>2 DEF Strategies, Outcome, TopDown!Outcome, Sibling!Outcome, Filter!Outcome, Lazy!Outcome
<1>4. Contribution \in Contributions
  <2>1. TopDownParts[right] \in Range(TopDownParts)
    BY <1>1 DEF TopDownParts, Range
  <2>. QED  BY <1>1, <2>1 DEF Contribution, Contributions
<1>5. Pairs = {} /\ {Decode(rule) : rule \in rules} = {}
  BY <1>1 DEF Pairs, Ids
<1>. QED  BY <1>1, <1>3, <1>4, <1>5 DEF Promise!Init

PromiseSafe ==
    /\ strategy \in Strategies
    /\ WalkSafe /\ FilterSafe /\ LazySafe /\ TopDownSafe /\ SiblingSafe

LEMMA PromiseSafeStep ==
  ASSUME PromiseSafe, [Next]_vars
  PROVE  PromiseSafe' /\ [Promise!Next]_Promise!vars
<1>1. strategy' = strategy
  BY DEF Next, vars, ParseTopDown, ParseWithSiblings, FilterChart, MaterializeLazily, Cancel
<1>2. FilterSafe' /\ (strategy = "filter" => [Promise!Next]_Promise!vars)
  BY FilterStep DEF PromiseSafe
<1>3. LazySafe' /\ (strategy = "lazy" => [Promise!Next]_Promise!vars)
  BY LazyStep DEF PromiseSafe
<1>4. TopDownSafe' /\ (strategy = "top-down" => [Promise!Next]_Promise!vars)
  BY TopDownStep DEF PromiseSafe
<1>5. SiblingSafe' /\ (strategy = "sibling" => [Promise!Next]_Promise!vars)
  BY SiblingStep DEF PromiseSafe
<1>6. WalkSafe'
  BY WalkStep DEF PromiseSafe
<1>. QED  BY <1>1, <1>2, <1>3, <1>4, <1>5, <1>6 DEF PromiseSafe, Strategies

(* Top-down, with the sibling finder, lazily or by filtering, whatever the  *)
(* automata and whenever the job is cancelled: a chart grows by rules of    *)
(* the product whose children it has, and it is only returned when none of  *)
(* them is missing.  The walk needs a right automaton that goes round only  *)
(* through loop rules, with one loop at a state; the sibling finder, a      *)
(* decomposition automaton whose siblings its indexes bring together; the   *)
(* lazy product, inverse images that answer with their transitions; the     *)
(* filter, a list of all rules that ends with one it checks, and operations *)
(* with one value.                                                          *)
THEOREM BuildsProductClosure ==
  ASSUME TopDownOnlyLoops, TopDownLoopsOneStep, SiblingIndexesFit, SiblingJobsParse, LazyImagesEvaluate,
         FiltersListRules
  PROVE  Spec /\ strategy \in Strategies => Promise!Init /\ [][Promise!Next]_Promise!vars
<1>1. Init /\ strategy \in Strategies => Promise!Init
  BY PromiseStarts
<1>2. Init /\ strategy \in Strategies => PromiseSafe
  <2>. SUFFICES ASSUME Init, strategy \in Strategies PROVE PromiseSafe
    OBVIOUS
  <2>1. walk = "start" /\ work = <<>> /\ visited = {}
    BY DEF Init, TopDown!Init
  <2>2. WalkSafe
    BY <2>1, WalkInit DEF WalkSafe
  <2>. QED  BY <2>2, FilterInit, LazyInit, TopDownInit, SiblingStarts DEF PromiseSafe
<1>3. PromiseSafe /\ [Next]_vars => PromiseSafe' /\ [Promise!Next]_Promise!vars
  BY PromiseSafeStep
<1>. QED  BY <1>1, <1>2, <1>3, PTL DEF Spec

=============================================================================
