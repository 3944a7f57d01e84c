------------------------- MODULE AutomatonQueries_proofs -------------------------
(***************************************************************************)
(* What holds of every query on every automaton.  First, that each step of *)
(* the depth-first walk of the best tree, and of the two passes of the     *)
(* grammar heuristic, keeps its invariant; then the theorems.              *)
(***************************************************************************)
EXTENDS AutomatonQueries, Scores_proofs

-----------------------------------------------------------------------------
(* Sequences. *)

LEMMA SeqFacts ==
  ASSUME NEW T, NEW s \in Seq(T)
  PROVE  /\ Len(s) \in Nat /\ DOMAIN s = 1..Len(s)
         /\ \A i \in 1..Len(s) : s[i] \in T
         /\ Range(s) = {s[i] : i \in 1..Len(s)}
BY DEF Range

LEMMA ConcatRange ==
  ASSUME NEW T, NEW s \in Seq(T), NEW t \in Seq(T)
  PROVE  /\ s \o t \in Seq(T) /\ Len(s \o t) = Len(s) + Len(t)
         /\ Range(s \o t) = Range(s) \cup Range(t)
         /\ \A i \in 1..Len(s) : (s \o t)[i] = s[i]
         /\ \A i \in 1..Len(t) : (s \o t)[i + Len(s)] = t[i]
<1>1. /\ s \o t \in Seq(T) /\ Len(s \o t) = Len(s) + Len(t)
      /\ \A i \in 1..(Len(s) + Len(t)) : (s \o t)[i] = IF i <= Len(s) THEN s[i] ELSE t[i - Len(s)]
  OBVIOUS
<1>2. Len(s) \in Nat /\ Len(t) \in Nat
  OBVIOUS
<1>3. \A i \in 1..Len(s) : i \in 1..(Len(s) + Len(t)) /\ (s \o t)[i] = s[i]
  BY <1>1, <1>2
<1>4. \A i \in 1..Len(t) : i + Len(s) \in 1..(Len(s) + Len(t)) /\ (s \o t)[i + Len(s)] = t[i]
  BY <1>1, <1>2
<1>5. \A i \in 1..(Len(s) + Len(t)) : \/ i \in 1..Len(s) /\ (s \o t)[i] = s[i]
                                      \/ i - Len(s) \in 1..Len(t) /\ (s \o t)[i] = t[i - Len(s)]
  BY <1>1, <1>2
<1>6. /\ Range(s) = {s[i] : i \in 1..Len(s)} /\ Range(t) = {t[i] : i \in 1..Len(t)}
      /\ Range(s \o t) = {(s \o t)[i] : i \in 1..(Len(s) + Len(t))}
  BY <1>1 DEF Range
<1>7. Range(s \o t) \subseteq Range(s) \cup Range(t)
  BY <1>5, <1>6
<1>8. Range(s) \subseteq Range(s \o t)
  BY <1>3, <1>6
<1>9. Range(t) \subseteq Range(s \o t)
  <2>. SUFFICES ASSUME NEW i \in 1..Len(t) PROVE t[i] \in Range(s \o t)
    BY <1>6
  <2>. QED  BY <1>4, <1>6
<1>. QED  BY <1>1, <1>3, <1>4, <1>7, <1>8, <1>9

(* What FlattenSeq puts together. *)
LEMMA FlattenIs ==
  ASSUME NEW T, NEW seqs \in Seq(Seq(T))
  PROVE  /\ FlattenSeq(seqs) \in Seq(T)
         /\ Range(FlattenSeq(seqs)) = UNION {Range(seqs[i]) : i \in 1..Len(seqs)}
<1>. DEFINE len == Len(seqs)
            Defines(f, m) == f = [i \in 1..m |-> IF i = 1 THEN seqs[i] ELSE f[i - 1] \o seqs[i]]
            U == {m \in Nat : \E f : Defines(f, m)}
            Holds(f, n) == f[n] \in Seq(T) /\ Range(f[n]) = UNION {Range(seqs[i]) : i \in 1..n}
<1>0. len \in Nat /\ \A i \in 1..len : seqs[i] \in Seq(T)
  OBVIOUS
<1>1. 0 \in U
  <2>. DEFINE g == [i \in 1..0 |-> seqs[1]]
  <2>1. Defines(g, 0)
    OBVIOUS
  <2>. QED  BY <2>1
<1>2. ASSUME NEW m \in Nat, m \in U PROVE m + 1 \in U
  <2>1. PICK f : Defines(f, m)
    BY <1>2
  <2>. DEFINE g == [i \in 1..(m + 1) |-> IF i = m + 1
                                          THEN IF m = 0 THEN seqs[1] ELSE f[m] \o seqs[m + 1]
                                          ELSE f[i]]
  <2>2. ASSUME NEW i \in 1..(m + 1)
        PROVE  g[i] = IF i = 1 THEN seqs[i] ELSE g[i - 1] \o seqs[i]
    <3>1. CASE i = m + 1 /\ m = 0
      BY <3>1
    <3>2. CASE i = m + 1 /\ m # 0
      <4>1. i # 1 /\ i - 1 = m /\ m \in 1..(m + 1) /\ m # m + 1
        BY <3>2
      <4>. QED  BY <3>2, <4>1
    <3>3. CASE i # m + 1
      <4>1. i \in 1..m /\ (i # 1 => i - 1 \in 1..(m + 1) /\ i - 1 # m + 1 /\ i - 1 \in 1..m)
        BY <3>3
      <4>2. f[i] = IF i = 1 THEN seqs[i] ELSE f[i - 1] \o seqs[i]
        BY <2>1, <4>1
      <4>. QED  BY <3>3, <4>1, <4>2
    <3>. QED  BY <3>1, <3>2, <3>3
  <2>3. Defines(g, m + 1)
    BY <2>2
  <2>. HIDE DEF g, Defines
  <2>. QED  BY <2>3
<1>3. Nat \subseteq U
  <2>. HIDE DEF U
  <2>. QED  BY <1>1, <1>2, SetInduction
<1>4. \E f : Defines(f, len)
  <2>. HIDE DEF Defines, len
  <2>. QED  BY <1>0, <1>3
<1>5. CASE len = 0
  <2>1. FlattenSeq(seqs) = <<>> /\ seqs = <<>>
    BY <1>5 DEF FlattenSeq
  <2>. QED  BY <1>5, <2>1 DEF Range
<1>6. CASE len # 0
  <2>. DEFINE f == CHOOSE f : Defines(f, len)
  <2>1. FlattenSeq(seqs) = f[len]
    BY <1>6 DEF FlattenSeq
  <2>2. Defines(f, len)
    <3>. HIDE DEF Defines
    <3>. QED  BY <1>4
  <2>. HIDE DEF f
  <2>3. /\ f[1] = seqs[1]
        /\ \A n \in 1..len : n # 1 => f[n] = f[n - 1] \o seqs[n]
    <3>1. \A n \in 1..len : f[n] = IF n = 1 THEN seqs[n] ELSE f[n - 1] \o seqs[n]
      BY <2>2
    <3>2. 1 \in 1..len
      BY <1>0, <1>6
    <3>. HIDE DEF len
    <3>. QED  BY <3>1, <3>2
  <2>. DEFINE V == {n \in Nat : n \in 1..len => Holds(f, n)}
  <2>. HIDE DEF len
  <2>4. 0 \in V
    OBVIOUS
  <2>5. ASSUME NEW n \in Nat, n \in V PROVE n + 1 \in V
    <3>. SUFFICES ASSUME n + 1 \in 1..len PROVE Holds(f, n + 1)
      OBVIOUS
    <3>1. CASE n = 0
      <4>1. UNION {Range(seqs[i]) : i \in 1..1} = Range(seqs[1])
        OBVIOUS
      <4>. QED  BY <1>0, <2>3, <3>1, <4>1
    <3>2. CASE n # 0
      <4>1. n \in 1..len /\ n + 1 # 1 /\ (n + 1) - 1 = n
        BY <1>0, <3>2
      <4>2. f[n + 1] = f[n] \o seqs[n + 1]
        BY <2>3, <4>1
      <4>3. Holds(f, n) /\ seqs[n + 1] \in Seq(T)
        BY <1>0, <2>5, <4>1
      <4>4. f[n + 1] \in Seq(T) /\ Range(f[n + 1]) = Range(f[n]) \cup Range(seqs[n + 1])
        BY <4>2, <4>3, ConcatRange
      <4>5. \A i \in 1..(n + 1) : i \in 1..n \/ i = n + 1
        OBVIOUS
      <4>6. \A i \in 1..n : i \in 1..(n + 1)
        OBVIOUS
      <4>7. n + 1 \in 1..(n + 1)
        OBVIOUS
      <4>8. UNION {Range(seqs[i]) : i \in 1..(n + 1)} = (UNION {Range(seqs[i]) : i \in 1..n}) \cup Range(seqs[n + 1])
        BY <4>5, <4>6, <4>7, Zenon
      <4>. QED  BY <4>3, <4>4, <4>8
    <3>. QED  BY <3>1, <3>2
  <2>6. Nat \subseteq V
    <3>. HIDE DEF V
    <3>. QED  BY <2>4, <2>5, SetInduction
  <2>7. Holds(f, len)
    <3>1. len \in Nat /\ len \in 1..len
      BY <1>0, <1>6
    <3>. HIDE DEF Holds
    <3>. QED  BY <2>6, <3>1
  <2>. QED  BY <2>1, <2>7 DEF len
<1>. QED  BY <1>5, <1>6

LEMMA OrderIs ==
  ASSUME NEW S, IsFiniteSet(S), NEW listing \in SetToSeqs(S)
  PROVE  listing \in Seq(S) /\ Range(listing) = S
<1>. DEFINE n == Cardinality(S)
<1>1. n \in Nat /\ listing \in [1..n -> S] /\ \A i, j \in 1..n : i # j => listing[i] # listing[j]
  BY FS_CardinalityType DEF SetToSeqs
<1>2. listing \in Injection(1..n, S)
  BY <1>1 DEF Injection, IsInjective
<1>3. Cardinality(1..n) = n
  <2>1. n = IF 1 > n THEN 0 ELSE n - 1 + 1
    BY <1>1
  <2>. QED  BY <1>1, <2>1, FS_Interval
<1>. HIDE DEF n
<1>4. listing \in Surjection(1..n, S)
  BY <1>2, <1>3, FS_Injection DEF n
<1>5. \A x \in S : \E i \in 1..n : listing[i] = x
  BY <1>4 DEF Surjection
<1>6. Range(listing) \subseteq S /\ S \subseteq Range(listing)
  BY <1>1, <1>5 DEF Range
<1>. QED  BY <1>1, <1>6

-----------------------------------------------------------------------------
(* The data of a chart. *)

LEMMA ProblemFacts ==
  ASSUME problem \in Problems
  PROVE  /\ IsFiniteSet(problem.rules)
         /\ \A r \in problem.rules : IsWeighted(r)
         /\ problem.goals \subseteq Nodes
         /\ problem.inside \in [Nodes -> Costs]
         /\ IsInside(problem.rules, problem.inside)
BY ProblemsAreWeighted

LEMMA RulesIntoFacts ==
  ASSUME problem \in Problems, NEW q
  PROVE  /\ RulesInto(q) \subseteq problem.rules /\ IsFiniteSet(RulesInto(q))
         /\ \A r \in RulesInto(q) : IsWeighted(r) /\ r.children \in Seq(Nodes) /\ r.result = q
         /\ ChildrenOf(q) \subseteq Nodes \ {q}
<1>1. RulesInto(q) \subseteq problem.rules
  BY DEF RulesInto
<1>2. IsFiniteSet(RulesInto(q))
  BY <1>1, ProblemFacts, FS_Subset
<1>3. \A r \in RulesInto(q) : IsWeighted(r) /\ r.children \in Seq(Nodes) /\ r.result = q
  BY ProblemFacts DEF RulesInto, IsWeighted
<1>4. \A r \in RulesInto(q) : Range(r.children) \subseteq Nodes
  BY <1>3, ChildrenAreNodes
<1>5. ChildrenOf(q) \subseteq Nodes \ {q}
  BY <1>3, <1>4 DEF ChildrenOf, IsSelfLoop
<1>. QED  BY <1>1, <1>2, <1>3, <1>5

FrameSet == [state : Nodes, exit : BOOLEAN]

LEMMA ConcatFrames ==
  ASSUME NEW s \in Seq(FrameSet), NEW t \in Seq(FrameSet)
  PROVE  /\ s \o t \in Seq(FrameSet) /\ Len(s \o t) = Len(s) + Len(t)
         /\ \A i \in 1..Len(s) : (s \o t)[i] = s[i]
         /\ \A i \in 1..Len(t) : (s \o t)[i + Len(s)] = t[i]
<1>. HIDE DEF FrameSet
<1>. QED  BY ConcatRange

LEMMA FrameFacts ==
  /\ \A q : Enter(q).state = q /\ Enter(q).exit = FALSE /\ Exit(q).state = q /\ Exit(q).exit = TRUE
  /\ \A q \in Nodes : Enter(q) \in FrameSet /\ Exit(q) \in FrameSet
BY DEF Enter, Exit, FrameSet

LEMMA FrameIs ==
  ASSUME NEW frame \in FrameSet
  PROVE  /\ frame.state \in Nodes
         /\ frame = IF frame.exit THEN Exit(frame.state) ELSE Enter(frame.state)
<1>1. /\ frame.state \in Nodes /\ frame.exit \in BOOLEAN
      /\ frame = [state |-> frame.state, exit |-> frame.exit]
  BY DEF FrameSet
<1>2. CASE frame.exit = TRUE
  BY <1>1, <1>2 DEF Exit
<1>3. CASE frame.exit = FALSE
  BY <1>1, <1>3 DEF Enter
<1>. QED  BY <1>1, <1>2, <1>3

(* The frames for the children of q that have not been met. *)
LEMMA NewChildrenAre ==
  ASSUME problem \in Problems, NEW q \in Nodes, NEW listing \in SetToSeqs(RulesInto(q))
  PROVE  /\ NewChildren(q, listing) \in Seq(FrameSet)
         /\ Range(NewChildren(q, listing)) = {Enter(child) : child \in {c \in ChildrenOf(q) : marks[c] = 0}}
<1>. DEFINE lists == [i \in DOMAIN listing |-> IF IsSelfLoop(listing[i]) THEN <<>> ELSE listing[i].children]
            children == FlattenSeq(lists)
            frames(child) == IF child # q /\ marks[child] = 0 THEN <<Enter(child)>> ELSE <<>>
            new == [i \in DOMAIN children |-> frames(children[i])]
<1>1. listing \in Seq(RulesInto(q)) /\ Range(listing) = RulesInto(q)
  BY RulesIntoFacts, OrderIs
<1>2. /\ Len(listing) \in Nat /\ DOMAIN listing = 1..Len(listing)
      /\ \A i \in 1..Len(listing) : listing[i] \in RulesInto(q)
      /\ RulesInto(q) = {listing[i] : i \in 1..Len(listing)}
  BY <1>1, SeqFacts
<1>3. <<>> \in Seq(Nodes) /\ \A i \in 1..Len(listing) : listing[i].children \in Seq(Nodes)
  <2>1. \A i \in 1..Len(listing) : listing[i].children \in Seq(Nodes)
    BY <1>2, RulesIntoFacts, Zenon
  <2>. QED  BY <2>1
<1>4. lists \in Seq(Seq(Nodes)) /\ Len(lists) = Len(listing)
  BY <1>2, <1>3
<1>5. children \in Seq(Nodes) /\ Range(children) = UNION {Range(lists[i]) : i \in 1..Len(listing)}
  BY <1>4, FlattenIs
<1>6. Range(children) = ChildrenOf(q)
  <2>1. \A i \in 1..Len(listing) :
           Range(lists[i]) = IF IsSelfLoop(listing[i]) THEN {} ELSE Range(listing[i].children)
    <3>1. Range(<<>>) = {}
      BY DEF Range
    <3>. QED  BY <1>2, <3>1
  <2>. HIDE DEF lists, children
  <2>2. ASSUME NEW x, x \in Range(children) PROVE x \in ChildrenOf(q)
    <3>1. PICK i \in 1..Len(listing) : x \in Range(lists[i])
      BY <1>5, <2>2
    <3>2. ~IsSelfLoop(listing[i]) /\ x \in Range(listing[i].children) /\ listing[i] \in RulesInto(q)
      BY <1>2, <2>1, <3>1
    <3>. QED  BY <3>2 DEF ChildrenOf
  <2>3. ASSUME NEW x, x \in ChildrenOf(q) PROVE x \in Range(children)
    <3>1. PICK r \in RulesInto(q) : ~IsSelfLoop(r) /\ x \in Range(r.children)
      BY <2>3 DEF ChildrenOf
    <3>2. PICK i \in 1..Len(listing) : r = listing[i]
      BY <1>2
    <3>3. x \in Range(lists[i])
      BY <2>1, <3>1, <3>2
    <3>. QED  BY <1>5, <3>3
  <2>. QED  BY <2>2, <2>3
<1>. HIDE DEF children
<1>7. /\ Len(children) \in Nat /\ DOMAIN children = 1..Len(children)
      /\ \A i \in 1..Len(children) : children[i] \in Nodes
      /\ ChildrenOf(q) = {children[i] : i \in 1..Len(children)}
  BY <1>5, <1>6, SeqFacts
<1>8. \A c \in Nodes : frames(c) \in Seq(FrameSet)
  BY FrameFacts
<1>9. new \in Seq(Seq(FrameSet)) /\ Len(new) = Len(children)
  <2>. HIDE DEF frames
  <2>. QED  BY <1>7, <1>8
<1>10. NewChildren(q, listing) = FlattenSeq(new)
  BY DEF NewChildren, children
<1>11. /\ FlattenSeq(new) \in Seq(FrameSet)
       /\ Range(FlattenSeq(new)) = UNION {Range(new[i]) : i \in 1..Len(children)}
  <2>. HIDE DEF new
  <2>. QED  BY <1>9, FlattenIs
<1>12. \A i \in 1..Len(children) :
          Range(new[i]) = {Enter(child) : child \in {c \in {children[i]} : marks[c] = 0}}
  <2>. TAKE i \in 1..Len(children)
  <2>1. children[i] \in ChildrenOf(q) /\ children[i] # q
    BY <1>7, RulesIntoFacts
  <2>2. new[i] = IF marks[children[i]] = 0 THEN <<Enter(children[i])>> ELSE <<>>
    BY <1>7, <2>1
  <2>3. Range(<<>>) = {} /\ Range(<<Enter(children[i])>>) = {Enter(children[i])}
    BY DEF Range
  <2>. HIDE DEF new
  <2>. QED  BY <2>2, <2>3
<1>. HIDE DEF new
<1>13. Range(FlattenSeq(new)) = {Enter(child) : child \in {c \in ChildrenOf(q) : marks[c] = 0}}
  <2>1. ASSUME NEW x, x \in Range(FlattenSeq(new))
        PROVE  x \in {Enter(child) : child \in {c \in ChildrenOf(q) : marks[c] = 0}}
    <3>1. PICK i \in 1..Len(children) : x \in Range(new[i])
      BY <1>11, <2>1
    <3>2. x = Enter(children[i]) /\ marks[children[i]] = 0
      BY <1>12, <3>1
    <3>. QED  BY <1>7, <3>2
  <2>2. ASSUME NEW c \in ChildrenOf(q), marks[c] = 0
        PROVE  Enter(c) \in Range(FlattenSeq(new))
    <3>1. PICK i \in 1..Len(children) : c = children[i]
      BY <1>7
    <3>2. Enter(c) \in Range(new[i])
      BY <1>12, <2>2, <3>1
    <3>. QED  BY <1>11, <3>2
  <2>. QED  BY <2>1, <2>2
<1>. QED  BY <1>10, <1>11, <1>13

-----------------------------------------------------------------------------
(* The walk. *)

LEMMA ScoreSoFarIs ==
  ASSUME WalkInv
  PROVE  /\ ScoreSoFar \in [Nodes -> Costs]
         /\ DOMAIN best \subseteq Nodes
         /\ \A q \in DOMAIN best : /\ best[q].score \in Costs /\ ScoreSoFar[q] = best[q].score
                                   /\ best[q].rule \in RulesInto(q) /\ best[q].rule \in problem.rules
                                   /\ IsWeighted(best[q].rule) /\ best[q].rule.result = q
<1>1. DOMAIN best \subseteq Nodes
  BY DEF WalkInv, WalkTypeOK
<1>2. \A q \in DOMAIN best : best[q].score \in Costs /\ best[q].rule \in RulesInto(q)
  BY DEF WalkInv, WalkTypeOK
<1>3. \A q \in DOMAIN best : /\ best[q].rule \in problem.rules
                             /\ IsWeighted(best[q].rule) /\ best[q].rule.result = q
  BY <1>2, RulesIntoFacts DEF WalkInv
<1>4. Infinity \in Costs
  BY InfinityIsPositive DEF Costs
<1>5. ScoreSoFar \in [Nodes -> Costs] /\ \A q \in DOMAIN best : ScoreSoFar[q] = best[q].score
  BY <1>1, <1>2, <1>4 DEF ScoreSoFar
<1>. QED  BY <1>1, <1>2, <1>3, <1>5

LEMMA StackFacts ==
  ASSUME WalkInv, stack # <<>>
  PROVE  /\ Len(stack) \in Nat /\ Len(stack) >= 1 /\ DOMAIN stack = 1..Len(stack)
         /\ \A i \in 1..Len(stack) : stack[i] \in FrameSet
         /\ Range(stack) = {stack[i] : i \in 1..Len(stack)}
         /\ Head(stack) = stack[1]
         /\ Tail(stack) \in Seq(FrameSet) /\ Len(Tail(stack)) = Len(stack) - 1
         /\ \A i \in 1..(Len(stack) - 1) : Tail(stack)[i] = stack[i + 1]
<1>1. stack \in Seq(FrameSet)
  BY DEF WalkInv, WalkTypeOK, FrameSet
<1>. QED  BY <1>1, SeqFacts

(* The stack when a state has been entered. *)
LEMMA EnteredStack ==
  ASSUME WalkInv, EnterState, NEW q \in Nodes, Head(stack) = Enter(q), marks[q] = 0
  PROVE  /\ stack' \in Seq(FrameSet)
         /\ \E n \in Nat :
               /\ Len(stack') = n + Len(stack)
               /\ \A i \in 1..n : \E c \in ChildrenOf(q) : marks[c] = 0 /\ stack'[i] = Enter(c)
               /\ \A c \in ChildrenOf(q) : marks[c] = 0 => \E i \in 1..n : stack'[i] = Enter(c)
               /\ stack'[n + 1] = Exit(q)
               /\ \A i \in 2..Len(stack) : stack'[n + i] = stack[i]
<1>1. stack # <<>> /\ ~IsMet(q) /\ Head(stack).state = q
  BY FrameFacts DEF EnterState, Popping, IsMet
<1>2. PICK listing \in SetToSeqs(RulesInto(q)) : stack' = Frames(q, listing) \o Tail(stack)
  BY <1>1 DEF EnterState
<1>. DEFINE new == NewChildren(q, listing)
            n == Len(new)
            rest == Tail(stack)
<1>3. /\ new \in Seq(FrameSet)
      /\ Range(new) = {Enter(child) : child \in {c \in ChildrenOf(q) : marks[c] = 0}}
  BY NewChildrenAre DEF WalkInv
<1>4. stack' = (new \o <<Exit(q)>>) \o rest
  BY <1>2 DEF Frames
<1>. HIDE DEF new
<1>5. /\ n \in Nat /\ Range(new) = {new[i] : i \in 1..n}
  BY <1>3, SeqFacts
<1>6. /\ rest \in Seq(FrameSet) /\ Len(rest) = Len(stack) - 1 /\ Len(stack) \in Nat /\ Len(stack) >= 1
      /\ \A i \in 1..(Len(stack) - 1) : rest[i] = stack[i + 1]
  BY <1>1, StackFacts
<1>. HIDE DEF rest
<1>7. <<Exit(q)>> \in Seq(FrameSet)
  BY FrameFacts
<1>8. /\ stack' \in Seq(FrameSet) /\ Len(stack') = n + Len(stack)
      /\ \A i \in 1..n : stack'[i] = new[i]
      /\ stack'[n + 1] = Exit(q)
      /\ \A i \in 2..Len(stack) : stack'[n + i] = rest[i - 1]
  <2>. DEFINE top == new \o <<Exit(q)>>
  <2>1. /\ top \in Seq(FrameSet) /\ Len(top) = n + 1
        /\ \A i \in 1..n : top[i] = new[i]
        /\ top[n + 1] = Exit(q)
    BY <1>3, <1>5, <1>7
  <2>2. stack' = top \o rest
    BY <1>4
  <2>. HIDE DEF top, n
  <2>3. /\ top \o rest \in Seq(FrameSet) /\ Len(top \o rest) = (n + 1) + Len(rest)
        /\ \A i \in 1..(n + 1) : (top \o rest)[i] = top[i]
        /\ \A i \in 1..Len(rest) : (top \o rest)[i + (n + 1)] = rest[i]
    <3>1. top \in Seq(FrameSet) /\ rest \in Seq(FrameSet) /\ Len(top) = n + 1
      BY <1>6, <2>1
    <3>2. /\ top \o rest \in Seq(FrameSet) /\ Len(top \o rest) = Len(top) + Len(rest)
          /\ \A i \in 1..Len(top) : (top \o rest)[i] = top[i]
          /\ \A i \in 1..Len(rest) : (top \o rest)[i + Len(top)] = rest[i]
      BY ONLY <3>1, ConcatFrames
    <3>. QED  BY ONLY <3>1, <3>2
  <2>4. \A i \in 1..n : i \in 1..(n + 1)
    BY <1>5
  <2>5. n + 1 \in 1..(n + 1)
    BY <1>5
  <2>6. \A i \in 2..Len(stack) : i - 1 \in 1..Len(rest) /\ (i - 1) + (n + 1) = n + i
    BY <1>5, <1>6
  <2>7. Len(stack') = n + Len(stack)
    BY <1>5, <1>6, <2>2, <2>3
  <2>8. \A i \in 1..n : stack'[i] = new[i]
    BY <2>1, <2>2, <2>3, <2>4
  <2>9. stack'[n + 1] = Exit(q)
    BY <2>1, <2>2, <2>3, <2>5
  <2>10. \A i \in 2..Len(stack) : stack'[n + i] = rest[i - 1]
    <3>. TAKE i \in 2..Len(stack)
    <3>1. (top \o rest)[(i - 1) + (n + 1)] = rest[i - 1]
      BY <2>3, <2>6
    <3>. QED  BY <2>2, <2>6, <3>1
  <2>. QED  BY <2>2, <2>3, <2>7, <2>8, <2>9, <2>10
<1>9. \A i \in 1..n : \E c \in ChildrenOf(q) : marks[c] = 0 /\ stack'[i] = Enter(c)
  <2>. TAKE i \in 1..n
  <2>1. stack'[i] \in {Enter(child) : child \in {c \in ChildrenOf(q) : marks[c] = 0}}
    BY <1>3, <1>5, <1>8
  <2>. QED  BY <2>1
<1>10. ASSUME NEW c \in ChildrenOf(q), marks[c] = 0 PROVE \E i \in 1..n : stack'[i] = Enter(c)
  <2>1. Enter(c) \in Range(new)
    BY <1>3, <1>10
  <2>. QED  BY <1>5, <1>8, <2>1
<1>11. \A i \in 2..Len(stack) : stack'[n + i] = stack[i]
  <2>. TAKE i \in 2..Len(stack)
  <2>1. i - 1 \in 1..(Len(stack) - 1) /\ (i - 1) + 1 = i
    BY <1>6
  <2>. QED  BY <1>6, <1>8, <2>1
<1>. HIDE DEF n
<1>. QED  BY <1>5, <1>8, <1>9, <1>10, <1>11

LEMMA SameProblem ==
  ASSUME problem' = problem
  PROVE  /\ \A q : RulesInto(q)' = RulesInto(q) /\ ChildrenOf(q)' = ChildrenOf(q)
         /\ AcyclicButForLoops' = AcyclicButForLoops
<1>1. \A q : RulesInto(q)' = RulesInto(q)
  BY DEF RulesInto
<1>2. \A q : ChildrenOf(q)' = ChildrenOf(q)
  BY <1>1, Zenon DEF ChildrenOf
<1>3. AcyclicButForLoops' = AcyclicButForLoops
  BY <1>1, Zenon DEF AcyclicButForLoops
<1>. QED  BY <1>1, <1>2, <1>3

(* A frame that is popped and leaves nothing to do. *)
LEMMA Popped ==
  ASSUME WalkInv, stack # <<>>, stack' = Tail(stack), problem' = problem, unwalked' = unwalked,
         \A p \in Nodes : marks[p] # 0 => marks'[p] # 0,
         NEW q \in Nodes, Head(stack).state = q, marks'[q] # 0
  PROVE  /\ stack' \in Seq(FrameSet)
         /\ PathIsOnStack' /\ ChildrenComeFirst' /\ GoalsAreWalked'
         /\ \A p : Exit(p) \in Range(stack') <=> Exit(p) \in Range(stack) /\ Exit(p) # stack[1]
<1>. DEFINE len == Len(stack)
<1>1. /\ len \in Nat /\ len >= 1 /\ DOMAIN stack = 1..len /\ Head(stack) = stack[1]
      /\ \A i \in 1..len : stack[i] \in FrameSet
      /\ Range(stack) = {stack[i] : i \in 1..len}
      /\ stack' \in Seq(FrameSet) /\ Len(stack') = len - 1
      /\ \A i \in 1..(len - 1) : stack'[i] = stack[i + 1]
  BY StackFacts
<1>2. DOMAIN stack' = 1..(len - 1) /\ Range(stack') = {stack'[i] : i \in 1..(len - 1)}
  <2>1. stack' \in Seq(FrameSet)
    BY <1>1
  <2>2. DOMAIN stack' = 1..Len(stack') /\ Range(stack') = {stack'[i] : i \in 1..Len(stack')}
    BY ONLY <2>1, SeqFacts
  <2>. HIDE DEF len
  <2>. QED  BY <1>1, <2>2
<1>. HIDE DEF len
<1>3. /\ \A i \in 1..(len - 1) : i + 1 \in 1..len /\ i + 1 > 1
      /\ \A i \in 1..len : i # 1 => i - 1 \in 1..(len - 1) /\ (i - 1) + 1 = i
      /\ 1 \in 1..len
  BY <1>1
<1>4. PathIsOnStack'
  <2>1. ASSUME NEW i \in DOMAIN stack', NEW j \in DOMAIN stack', stack'[i].exit, stack'[i] = stack'[j]
        PROVE  i = j
    <3>1. i + 1 \in DOMAIN stack /\ j + 1 \in DOMAIN stack
          /\ stack[i + 1].exit /\ stack[i + 1] = stack[j + 1]
      BY <1>1, <1>2, <1>3, <2>1
    <3>2. i + 1 = j + 1
      BY <3>1 DEF WalkInv, PathIsOnStack
    <3>. QED  BY <1>1, <1>2, <3>2
  <2>2. ASSUME NEW i \in DOMAIN stack', NEW j \in DOMAIN stack', i < j, stack'[j].exit,
               \A k \in DOMAIN stack' : i < k /\ k < j => ~stack'[k].exit
        PROVE  stack'[i].state \in ChildrenOf(stack'[j].state)
    <3>1. /\ i + 1 \in DOMAIN stack /\ j + 1 \in DOMAIN stack /\ i + 1 < j + 1
          /\ stack[j + 1] = stack'[j] /\ stack[i + 1] = stack'[i]
      BY <1>1, <1>2, <1>3, <2>2
    <3>2. ASSUME NEW k \in DOMAIN stack, i + 1 < k, k < j + 1 PROVE ~stack[k].exit
      <4>1. k # 1 /\ i < k - 1 /\ k - 1 < j
        BY <1>1, <1>2, <3>2
      <4>2. k - 1 \in DOMAIN stack' /\ (k - 1) + 1 = k
        BY <1>1, <1>2, <1>3, <4>1
      <4>3. ~stack'[k - 1].exit
        BY <2>2, <4>1, <4>2
      <4>4. stack'[k - 1] = stack[k]
        BY <1>1, <1>2, <4>2
      <4>. QED  BY <4>3, <4>4
    <3>3. stack[i + 1].state \in ChildrenOf(stack[j + 1].state)
      BY <2>2, <3>1, <3>2 DEF WalkInv, PathIsOnStack
    <3>. QED  BY <3>1, <3>3
  <2>. QED  BY <2>1, <2>2 DEF PathIsOnStack, ChildrenOf, RulesInto
<1>5. ChildrenComeFirst'
  <2>. SUFFICES ASSUME NEW j \in DOMAIN stack', stack'[j].exit, NEW c \in ChildrenOf(stack'[j].state)
                PROVE  marks'[c] # 0 \/ \E i \in DOMAIN stack' : i < j /\ stack'[i] = Enter(c)
    BY DEF ChildrenComeFirst, ChildrenOf, RulesInto, Enter
  <2>1. j + 1 \in DOMAIN stack /\ stack[j + 1] = stack'[j]
    BY <1>1, <1>2, <1>3
  <2>2. c \in ChildrenOf(stack[j + 1].state) /\ stack[j + 1].exit
    BY <2>1
  <2>3. c \in Nodes
    BY <2>2, RulesIntoFacts DEF WalkInv
  <2>4. CASE marks[c] # 0
    BY <2>3, <2>4
  <2>5. CASE \E i \in DOMAIN stack : i < j + 1 /\ stack[i] = Enter(c)
    <3>1. PICK i \in DOMAIN stack : i < j + 1 /\ stack[i] = Enter(c)
      BY <2>5
    <3>2. CASE i = 1
      <4>1. q = c
        BY <1>1, <3>1, <3>2, FrameFacts
      <4>. QED  BY <4>1
    <3>3. CASE i # 1
      <4>1. i - 1 \in DOMAIN stack' /\ (i - 1) + 1 = i /\ i - 1 < j
        BY <1>1, <1>2, <1>3, <3>1, <3>3
      <4>2. stack'[i - 1] = Enter(c)
        BY <1>1, <1>2, <3>1, <4>1
      <4>. QED  BY <4>1, <4>2
    <3>. QED  BY <3>2, <3>3
  <2>. QED  BY <2>1, <2>2, <2>4, <2>5 DEF WalkInv, ChildrenComeFirst
<1>6. ASSUME NEW frame, frame # stack[1] PROVE frame \in Range(stack') <=> frame \in Range(stack)
  <2>1. ASSUME frame \in Range(stack') PROVE frame \in Range(stack)
    <3>1. PICK i \in 1..(len - 1) : frame = stack'[i]
      BY <1>2, <2>1
    <3>. QED  BY <1>1, <1>3, <3>1
  <2>2. ASSUME frame \in Range(stack) PROVE frame \in Range(stack')
    <3>1. PICK i \in 1..len : frame = stack[i]
      BY <1>1, <2>2
    <3>2. i - 1 \in 1..(len - 1) /\ stack'[i - 1] = frame
      BY <1>1, <1>3, <1>6, <3>1
    <3>. QED  BY <1>2, <3>2
  <2>. QED  BY <2>1, <2>2
<1>7. GoalsAreWalked'
  <2>. SUFFICES ASSUME NEW p \in problem.goals
                PROVE  p \in unwalked \/ marks'[p] # 0 \/ Enter(p) \in Range(stack')
    BY DEF GoalsAreWalked, Enter
  <2>1. p \in Nodes
    BY ProblemFacts DEF WalkInv
  <2>2. p \in unwalked \/ marks[p] # 0 \/ Enter(p) \in Range(stack)
    BY DEF WalkInv, GoalsAreWalked
  <2>3. CASE Enter(p) = stack[1]
    BY <1>1, <2>3, FrameFacts
  <2>. QED  BY <1>6, <2>1, <2>2, <2>3
<1>8. ASSUME NEW p
      PROVE  Exit(p) \in Range(stack') <=> Exit(p) \in Range(stack) /\ Exit(p) # stack[1]
  <2>1. ASSUME Exit(p) = stack[1], Exit(p) \in Range(stack') PROVE FALSE
    <3>1. PICK i \in 1..(len - 1) : Exit(p) = stack'[i]
      BY <1>2, <2>1
    <3>2. i + 1 \in DOMAIN stack /\ 1 \in DOMAIN stack /\ stack[1].exit /\ stack[1] = stack[i + 1]
      BY <1>1, <1>3, <2>1, <3>1, FrameFacts
    <3>3. i + 1 = 1
      BY <3>2 DEF WalkInv, PathIsOnStack
    <3>. QED  BY <1>3, <3>3
  <2>. QED  BY <1>6, <2>1
<1>. QED  BY <1>1, <1>4, <1>5, <1>7, <1>8

(* A state that is entered: its frame is replaced by those of its children  *)
(* above its exit frame.                                                    *)
LEMMA Entered ==
  ASSUME WalkInv, EnterState, NEW q \in Nodes, Head(stack) = Enter(q), marks[q] = 0
  PROVE  /\ stack' \in Seq(FrameSet)
         /\ PathIsOnStack' /\ ChildrenComeFirst' /\ GoalsAreWalked'
         /\ \A p : Exit(p) \in Range(stack') <=> p = q \/ Exit(p) \in Range(stack)
<1>. DEFINE len == Len(stack)
<1>0. /\ stack # <<>> /\ problem' = problem /\ unwalked' = unwalked
      /\ marks' = [marks EXCEPT ![q] = 1] /\ marks \in [Nodes -> 0..2]
  BY FrameFacts DEF EnterState, Popping, IsMet, EnteredMark, WalkInv, WalkTypeOK
<1>1. /\ len \in Nat /\ len >= 1 /\ DOMAIN stack = 1..len /\ stack[1] = Enter(q)
      /\ \A i \in 1..len : stack[i] \in FrameSet
      /\ Range(stack) = {stack[i] : i \in 1..len}
  BY <1>0, StackFacts
<1>2. /\ stack' \in Seq(FrameSet)
      /\ \E n \in Nat :
            /\ Len(stack') = n + len
            /\ \A i \in 1..n : \E c \in ChildrenOf(q) : marks[c] = 0 /\ stack'[i] = Enter(c)
            /\ \A c \in ChildrenOf(q) : marks[c] = 0 => \E i \in 1..n : stack'[i] = Enter(c)
            /\ stack'[n + 1] = Exit(q)
            /\ \A i \in 2..len : stack'[n + i] = stack[i]
  BY EnteredStack
<1>3. PICK n \in Nat :
            /\ Len(stack') = n + len
            /\ \A i \in 1..n : \E c \in ChildrenOf(q) : marks[c] = 0 /\ stack'[i] = Enter(c)
            /\ \A c \in ChildrenOf(q) : marks[c] = 0 => \E i \in 1..n : stack'[i] = Enter(c)
            /\ stack'[n + 1] = Exit(q)
            /\ \A i \in 2..len : stack'[n + i] = stack[i]
  BY <1>2
<1>4. DOMAIN stack' = 1..(n + len) /\ Range(stack') = {stack'[i] : i \in 1..(n + len)}
  <2>1. DOMAIN stack' = 1..Len(stack') /\ Range(stack') = {stack'[i] : i \in 1..Len(stack')}
    BY ONLY <1>2, SeqFacts
  <2>. QED  BY <1>3, <2>1
<1>. HIDE DEF len
<1>5. \A i \in 1..(n + len) : \/ i \in 1..n
                              \/ i = n + 1
                              \/ (i - n \in 2..len /\ n + (i - n) = i)
  BY <1>1
<1>6. /\ \A i \in 1..n : i \in 1..(n + len)
      /\ n + 1 \in 1..(n + len)
      /\ \A i \in 2..len : n + i \in 1..(n + len) /\ i \in 1..len
      /\ \A i \in 1..len : i = 1 \/ i \in 2..len
  BY <1>1
(* What the frames are. *)
<1>7. \A i \in 1..n : stack'[i].exit = FALSE /\ stack'[i].state \in ChildrenOf(q)
  BY <1>3, FrameFacts
<1>8. ASSUME NEW p PROVE Exit(p) \in Range(stack') <=> p = q \/ Exit(p) \in Range(stack)
  <2>1. ASSUME Exit(p) \in Range(stack'), p # q PROVE Exit(p) \in Range(stack)
    <3>1. PICK i \in 1..(n + len) : Exit(p) = stack'[i]
      BY <1>4, <2>1
    <3>2. i \notin 1..n
      BY <1>7, <3>1, FrameFacts
    <3>3. i # n + 1
      BY <1>3, <2>1, <3>1, FrameFacts
    <3>4. i - n \in 2..len /\ stack[i - n] = Exit(p)
      BY <1>3, <1>5, <3>1, <3>2, <3>3
    <3>. QED  BY <1>1, <1>6, <3>4
  <2>2. Exit(q) \in Range(stack')
    BY <1>3, <1>4, <1>6
  <2>3. ASSUME Exit(p) \in Range(stack) PROVE Exit(p) \in Range(stack')
    <3>1. PICK i \in 1..len : Exit(p) = stack[i]
      BY <1>1, <2>3
    <3>2. i # 1
      BY <1>1, <3>1, FrameFacts
    <3>3. n + i \in 1..(n + len) /\ stack'[n + i] = Exit(p)
      BY <1>3, <1>6, <3>1, <3>2
    <3>. QED  BY <1>4, <3>3
  <2>. QED  BY <2>1, <2>2, <2>3
<1>9. Exit(q) \notin Range(stack)
  BY DEF WalkInv, WalkTypeOK
<1>10. PathIsOnStack'
  <2>1. ASSUME NEW i \in 1..(n + len), NEW j \in 1..(n + len), stack'[i].exit, stack'[i] = stack'[j]
        PROVE  i = j
    <3>1. i \notin 1..n /\ j \notin 1..n
      BY <1>7, <2>1
    <3>2. ASSUME NEW k \in 1..(n + len), k - n \in 2..len, stack'[k] = Exit(q) PROVE FALSE
      <4>1. stack[k - n] = Exit(q) /\ k - n \in 1..len
        BY <1>3, <1>5, <1>6, <3>2
      <4>. QED  BY <1>1, <1>9, <4>1
    <3>3. CASE i = n + 1
      <4>1. stack'[j] = Exit(q)
        BY <1>3, <2>1, <3>3
      <4>. QED  BY <1>5, <3>1, <3>2, <3>3, <4>1
    <3>4. CASE j = n + 1
      <4>1. stack'[i] = Exit(q)
        BY <1>3, <2>1, <3>4
      <4>. QED  BY <1>5, <3>1, <3>2, <3>4, <4>1
    <3>5. CASE i # n + 1 /\ j # n + 1
      <4>1. /\ i - n \in 2..len /\ j - n \in 2..len
            /\ stack[i - n] = stack'[i] /\ stack[j - n] = stack'[j]
        BY <1>3, <1>5, <3>1, <3>5
      <4>2. i - n = j - n
        BY <1>1, <1>6, <2>1, <4>1 DEF WalkInv, PathIsOnStack
      <4>. QED  BY <4>2
    <3>. QED  BY <3>3, <3>4, <3>5
  <2>2. ASSUME NEW i \in 1..(n + len), NEW j \in 1..(n + len), i < j, stack'[j].exit,
               \A k \in 1..(n + len) : i < k /\ k < j => ~stack'[k].exit
        PROVE  stack'[i].state \in ChildrenOf(stack'[j].state)
    <3>1. j \notin 1..n
      BY <1>7, <2>2
    <3>2. CASE i \in 1..n
      <4>1. ~(n + 1 < j)
        BY <1>3, <1>6, <2>2, <3>2, FrameFacts
      <4>2. j = n + 1
        BY <1>1, <3>1, <4>1
      <4>. QED  BY <1>3, <1>7, <3>2, <4>2, FrameFacts
    <3>3. CASE i \notin 1..n
      <4>. DEFINE x == i - n
                  y == j - n
      <4>1. /\ x \in 1..len /\ y \in 2..len /\ x < y
            /\ n + y = j /\ n + x = i
        BY <1>1, <2>2, <3>1, <3>3
      <4>2. stack[y] = stack'[j] /\ stack[x].state = stack'[i].state
        <5>1. CASE x = 1
          BY <1>1, <1>3, <4>1, <5>1, FrameFacts
        <5>2. CASE x # 1
          BY <1>1, <1>3, <1>6, <4>1, <5>2
        <5>. QED  BY <5>1, <5>2, <1>3, <4>1
      <4>. HIDE DEF x, y
      <4>3. ASSUME NEW k \in 1..len, x < k, k < y PROVE ~stack[k].exit
        <5>1. k \in 2..len /\ n + k \in 1..(n + len) /\ i < n + k /\ n + k < j
          BY <1>1, <1>6, <4>1, <4>3
        <5>2. ~stack'[n + k].exit
          BY <2>2, <5>1
        <5>. QED  BY <1>3, <5>1, <5>2
      <4>4. stack[x].state \in ChildrenOf(stack[y].state)
        BY <1>1, <1>6, <2>2, <4>1, <4>2, <4>3 DEF WalkInv, PathIsOnStack
      <4>. QED  BY <4>2, <4>4
    <3>. QED  BY <3>2, <3>3
  <2>. QED  BY <1>0, <1>4, <2>1, <2>2 DEF PathIsOnStack, ChildrenOf, RulesInto
<1>11. ChildrenComeFirst'
  <2>. SUFFICES ASSUME NEW j \in 1..(n + len), stack'[j].exit, NEW c \in ChildrenOf(stack'[j].state)
                PROVE  marks'[c] # 0 \/ \E i \in 1..(n + len) : i < j /\ stack'[i] = Enter(c)
    BY <1>0, <1>4 DEF ChildrenComeFirst, ChildrenOf, RulesInto, Enter
  <2>1. c \in Nodes
    BY RulesIntoFacts DEF WalkInv
  <2>2. marks[c] # 0 \/ c = q => marks'[c] # 0
    BY <1>0, <2>1
  <2>3. j \notin 1..n
    BY <1>7
  <2>4. CASE j = n + 1
    <3>1. c \in ChildrenOf(q)
      BY <1>3, <2>4, FrameFacts
    <3>2. marks[c] = 0 => \E i \in 1..n : stack'[i] = Enter(c)
      BY <1>3, <3>1
    <3>3. \A i \in 1..n : i \in 1..(n + len) /\ i < j
      BY <1>6, <2>4
    <3>. QED  BY <2>2, <3>2, <3>3
  <2>5. CASE j # n + 1
    <3>1. j - n \in 2..len /\ stack[j - n] = stack'[j] /\ j - n \in 1..len
      BY <1>3, <1>5, <1>6, <2>3, <2>5
    <3>2. marks[c] # 0 \/ \E i \in 1..len : i < j - n /\ stack[i] = Enter(c)
      BY <1>1, <3>1 DEF WalkInv, ChildrenComeFirst
    <3>3. CASE \E i \in 1..len : i < j - n /\ stack[i] = Enter(c)
      <4>1. PICK i \in 1..len : i < j - n /\ stack[i] = Enter(c)
        BY <3>3
      <4>2. CASE i = 1
        BY <1>1, <2>2, <4>1, <4>2, FrameFacts
      <4>3. CASE i # 1
        <5>1. n + i \in 1..(n + len) /\ n + i < j /\ stack'[n + i] = Enter(c)
          BY <1>3, <1>6, <4>1, <4>3
        <5>. QED  BY <5>1
      <4>. QED  BY <4>2, <4>3
    <3>. QED  BY <2>2, <3>2, <3>3
  <2>. QED  BY <2>4, <2>5
<1>12. GoalsAreWalked'
  <2>. SUFFICES ASSUME NEW p \in problem.goals
                PROVE  p \in unwalked \/ marks'[p] # 0 \/ Enter(p) \in Range(stack')
    BY <1>0 DEF GoalsAreWalked, Enter
  <2>1. p \in Nodes
    BY ProblemFacts DEF WalkInv
  <2>2. p \in unwalked \/ marks[p] # 0 \/ Enter(p) \in Range(stack)
    BY DEF WalkInv, GoalsAreWalked
  <2>3. CASE p = q
    BY <1>0, <2>1, <2>3
  <2>4. CASE p # q /\ Enter(p) \in Range(stack)
    <3>1. PICK i \in 1..len : Enter(p) = stack[i]
      BY <1>1, <2>4
    <3>2. i # 1
      BY <1>1, <2>4, <3>1, FrameFacts
    <3>3. n + i \in 1..(n + len) /\ stack'[n + i] = Enter(p)
      BY <1>3, <1>6, <3>1, <3>2
    <3>. QED  BY <1>4, <3>3
  <2>5. CASE p # q /\ marks[p] # 0
    BY <1>0, <2>1, <2>5
  <2>. QED  BY <2>2, <2>3, <2>4, <2>5
<1>. QED  BY <1>2, <1>8, <1>10, <1>11, <1>12

(* A step that scores nothing. *)
LEMMA NothingScored ==
  ASSUME WalkInv, problem' = problem, best' = best, walk' = "visit",
         \A q \in Nodes : marks'[q] = 2 <=> marks[q] = 2
  PROVE  BackpointersDerive' /\ AnswerIsChosen' /\ ScoresAreFinal'
<1>1. BackpointersDerive'
  BY DEF WalkInv, BackpointersDerive, RuleScore, ScoreSoFar
<1>2. AnswerIsChosen'
  BY DEF AnswerIsChosen
<1>3. ScoresAreFinal'
  <2>1. OptimalAnswer'
    BY DEF OptimalAnswer
  <2>2. ScoreSoFar' = ScoreSoFar /\ AcyclicButForLoops' = AcyclicButForLoops
    BY SameProblem DEF ScoreSoFar
  <2>. QED  BY <2>1, <2>2 DEF WalkInv, ScoresAreFinal
<1>. QED  BY <1>1, <1>2, <1>3

LEMMA InitWalk == WalkInit => WalkInv
<1>. SUFFICES ASSUME WalkInit PROVE WalkInv
  OBVIOUS
<1>. USE DEF WalkInit
<1>1. WalkTypeOK
  <2>1. Range(stack) = {} /\ stack \in Seq([state : Nodes, exit : BOOLEAN])
    BY DEF Range
  <2>. QED  BY <2>1 DEF WalkTypeOK
<1>2. PathIsOnStack /\ ChildrenComeFirst
  BY DEF PathIsOnStack, ChildrenComeFirst
<1>3. GoalsAreWalked
  BY DEF GoalsAreWalked
<1>4. BackpointersDerive
  BY DEF BackpointersDerive, Derive
<1>5. AnswerIsChosen
  BY DEF AnswerIsChosen
<1>6. ScoresAreFinal
  BY DEF ScoresAreFinal, OptimalAnswer
<1>. QED  BY <1>1, <1>2, <1>3, <1>4, <1>5, <1>6 DEF WalkInv

LEMMA NextRootWalk ==
  ASSUME WalkInv, NEW q \in unwalked, NextRoot(q)
  PROVE  WalkInv'
<1>1. /\ stack = <<>> /\ problem' = problem /\ best' = best /\ walk' = walk /\ walk = "visit"
      /\ marks' = marks /\ answer' = answer /\ unwalked' = unwalked \ {q}
      /\ stack' = IF marks[q] # 0 THEN <<>> ELSE <<Enter(q)>>
  BY DEF NextRoot
<1>2. q \in Nodes
  BY ProblemFacts DEF WalkInv, WalkTypeOK
<1>3. BackpointersDerive' /\ AnswerIsChosen' /\ ScoresAreFinal'
  BY <1>1, NothingScored
<1>4. /\ stack' \in Seq(FrameSet) /\ Range(stack) = {}
      /\ Range(stack') = IF marks[q] # 0 THEN {} ELSE {Enter(q)}
      /\ \A i \in DOMAIN stack' : i = 1 /\ stack'[i].exit = FALSE
  BY <1>1, <1>2, FrameFacts DEF Range
<1>5. \A p : Exit(p) \notin Range(stack')
  BY <1>4, FrameFacts
<1>6. WalkTypeOK'
  BY <1>1, <1>4, <1>5 DEF WalkInv, WalkTypeOK, RulesInto, Exit, FrameSet
<1>7. PathIsOnStack' /\ ChildrenComeFirst'
  BY <1>4 DEF PathIsOnStack, ChildrenComeFirst
<1>8. GoalsAreWalked'
  BY <1>1, <1>4 DEF WalkInv, GoalsAreWalked, Enter
<1>. QED  BY <1>1, <1>3, <1>6, <1>7, <1>8 DEF WalkInv

LEMMA EnterStateWalk ==
  ASSUME WalkInv, EnterState
  PROVE  WalkInv'
<1>. DEFINE q == Head(stack).state
<1>1. /\ stack # <<>> /\ walk = "visit" /\ Head(stack).exit = FALSE
      /\ problem' = problem /\ unwalked' = unwalked /\ best' = best /\ answer' = answer /\ walk' = walk
      /\ marks \in [Nodes -> 0..2]
  BY DEF EnterState, Popping, WalkInv, WalkTypeOK
<1>2. q \in Nodes /\ Head(stack) = Enter(q) /\ Head(stack) = stack[1]
  <2>1. Head(stack) \in FrameSet /\ Head(stack) = stack[1]
    BY <1>1, StackFacts
  <2>2. q \in Nodes /\ Head(stack) = IF Head(stack).exit THEN Exit(q) ELSE Enter(q)
    BY <2>1, FrameIs
  <2>. QED  BY <1>1, <2>1, <2>2
<1>. HIDE DEF q
<1>3. /\ stack' \in Seq(FrameSet)
      /\ PathIsOnStack' /\ ChildrenComeFirst' /\ GoalsAreWalked'
      /\ marks' \in [Nodes -> 0..2]
      /\ \A p \in Nodes : marks'[p] = 2 <=> marks[p] = 2
      /\ \A p \in Nodes : marks'[p] = 1 <=> Exit(p) \in Range(stack')
  <2>1. CASE marks[q] # 0
    <3>1. stack' = Tail(stack) /\ marks' = marks
      BY <1>1, <2>1 DEF EnterState, IsMet, q
    <3>2. /\ stack' \in Seq(FrameSet)
          /\ PathIsOnStack' /\ ChildrenComeFirst' /\ GoalsAreWalked'
          /\ \A p : Exit(p) \in Range(stack') <=> Exit(p) \in Range(stack) /\ Exit(p) # stack[1]
      <4>1. Head(stack).state = q
        BY DEF q
      <4>. QED  BY <1>1, <1>2, <2>1, <3>1, <4>1, Popped
    <3>3. \A p : Exit(p) # stack[1]
      BY <1>2, FrameFacts
    <3>. QED  BY <1>1, <3>1, <3>2, <3>3 DEF WalkInv, WalkTypeOK
  <2>2. CASE marks[q] = 0
    <3>1. marks' = [marks EXCEPT ![q] = 1]
      BY <1>1, <2>2 DEF EnterState, IsMet, q, EnteredMark
    <3>2. /\ stack' \in Seq(FrameSet)
          /\ PathIsOnStack' /\ ChildrenComeFirst' /\ GoalsAreWalked'
          /\ \A p : Exit(p) \in Range(stack') <=> p = q \/ Exit(p) \in Range(stack)
      BY <1>2, <2>2, Entered
    <3>3. \A p \in Nodes : marks'[p] = IF p = q THEN 1 ELSE marks[p]
      BY <1>1, <3>1
    <3>. QED  BY <1>1, <1>2, <2>2, <3>1, <3>2, <3>3 DEF WalkInv, WalkTypeOK
  <2>. QED  BY <2>1, <2>2
<1>4. BackpointersDerive' /\ AnswerIsChosen' /\ ScoresAreFinal'
  BY <1>1, <1>3, NothingScored
<1>5. WalkTypeOK'
  BY <1>1, <1>3 DEF WalkInv, WalkTypeOK, RulesInto, Exit, FrameSet
<1>. QED  BY <1>1, <1>3, <1>4, <1>5 DEF WalkInv

(* The best rule for a state that has a derivation is no loop. *)
LEMMA Attained ==
  ASSUME problem \in Problems, NEW q \in Nodes, problem.inside[q] < Infinity
  PROVE  \E r \in RulesInto(q) : ~IsSelfLoop(r) /\ Inside(r, problem.inside) = problem.inside[q]
<1>. SUFFICES ASSUME \A r \in RulesInto(q) : ~IsSelfLoop(r) => Inside(r, problem.inside) # problem.inside[q]
              PROVE  FALSE
  OBVIOUS
<1>. DEFINE S == Nodes \ {q}
<1>1. ASSUME NEW r \in problem.rules, Inside(r, problem.inside) = problem.inside[r.result],
             Range(r.children) \subseteq S
      PROVE  r.result \in S
  <2>1. r.result \in Nodes
    BY ProblemFacts DEF IsWeighted
  <2>2. CASE r.result = q
    <3>1. r \in RulesInto(q) /\ ~IsSelfLoop(r)
      BY <1>1, <2>2 DEF RulesInto, IsSelfLoop
    <3>. QED  BY <1>1, <2>2, <3>1
  <2>. QED  BY <2>1, <2>2
<1>2. S \in SUBSET Nodes
  OBVIOUS
<1>3. {p \in Nodes : problem.inside[p] < Infinity} \subseteq S
  <2>. HIDE DEF S
  <2>. QED  BY <1>1, <1>2, ProblemFacts DEF IsInside
<1>. QED  BY <1>3

(* On an acyclic chart, the children of a state that is left are scored: if *)
(* one were still on the path, the path would close a cycle.                *)
LEMMA ChildrenAreScored ==
  ASSUME WalkInv, Popping(TRUE), AcyclicButForLoops
  PROVE  \A c \in ChildrenOf(Head(stack).state) : marks[c] = 2
<1>. SUFFICES ASSUME NEW c \in ChildrenOf(Head(stack).state), marks[c] # 2
              PROVE  FALSE
  OBVIOUS
<1>. DEFINE len == Len(stack)
<1>1. /\ len \in Nat /\ len >= 1 /\ DOMAIN stack = 1..len
      /\ \A i \in 1..len : stack[i] \in FrameSet
      /\ Range(stack) = {stack[i] : i \in 1..len}
      /\ Head(stack) = stack[1] /\ stack[1].exit
  <2>1. stack # <<>> /\ Head(stack).exit = TRUE
    BY DEF Popping
  <2>. QED  BY <2>1, StackFacts
<1>. HIDE DEF len
<1>2. c \in Nodes /\ marks[c] \in 0..2
  BY RulesIntoFacts DEF WalkInv, WalkTypeOK
<1>3. marks[c] # 0
  <2>1. 1 \in DOMAIN stack /\ stack[1].exit /\ c \in ChildrenOf(stack[1].state)
    BY <1>1
  <2>2. marks[c] # 0 \/ \E i \in DOMAIN stack : i < 1 /\ stack[i] = Enter(c)
    BY <2>1 DEF WalkInv, ChildrenComeFirst
  <2>. QED  BY <1>1, <2>2
<1>4. Exit(c) \in Range(stack)
  BY <1>2, <1>3 DEF WalkInv, WalkTypeOK
<1>5. PICK last \in 1..len : stack[last] = Exit(c)
  BY <1>1, <1>4
<1>. DEFINE S == {stack[i].state : i \in {k \in 1..last : stack[k].exit}}
<1>6. \A i \in 1..last : i \in 1..len
  BY <1>1
<1>7. S \subseteq Nodes /\ c \in S
  <2>1. \A i \in 1..len : stack[i].state \in Nodes
    BY <1>1, FrameIs
  <2>2. last \in 1..last /\ stack[last].exit /\ stack[last].state = c
    BY <1>5, FrameFacts
  <2>. QED  BY <1>6, <2>1, <2>2
<1>8. ASSUME NEW x \in S PROVE ChildrenOf(x) \cap S # {}
  <2>1. PICK j \in 1..last : stack[j].exit /\ x = stack[j].state
    OBVIOUS
  <2>2. CASE j = 1
    BY <1>1, <1>7, <2>1, <2>2
  <2>3. CASE j # 1
    <3>. DEFINE above == {k \in 1..(j - 1) : stack[k].exit}
    <3>1. 1 \in above /\ above \subseteq 0..j /\ j \in Nat
      BY <1>1, <2>3
    <3>2. PICK i \in above : \A k \in above : k <= i
      <4>. HIDE DEF above
      <4>. QED  BY <3>1, GreatestElement
    <3>3. i \in 1..last /\ i < j /\ stack[i].exit
      BY <1>1
    <3>4. ASSUME NEW k \in 1..len, i < k, k < j PROVE ~stack[k].exit
      <4>1. k \in 1..(j - 1)
        BY <1>1, <3>4
      <4>. QED  BY <1>1, <3>2, <3>3, <3>4, <4>1
    <3>5. stack[i].state \in ChildrenOf(stack[j].state)
      BY <1>1, <1>6, <2>1, <3>3, <3>4 DEF WalkInv, PathIsOnStack
    <3>. QED  BY <2>1, <3>3, <3>5
  <2>. QED  BY <2>2, <2>3
<1>. HIDE DEF S
<1>9. \A x \in S : \E r \in RulesInto(x) : ~IsSelfLoop(r) /\ Range(r.children) \cap S # {}
  BY <1>8 DEF ChildrenOf
<1>. QED  BY <1>7, <1>9 DEF AcyclicButForLoops

(* What a state that is left is scored from. *)
LEMMA AvailableFacts ==
  ASSUME WalkInv, NEW q \in Nodes, NEW r \in Available(q)
  PROVE  /\ r \in RulesInto(q) /\ r \in problem.rules /\ IsWeighted(r) /\ r.result = q
         /\ Range(r.children) \subseteq DOMAIN best /\ ~IsSelfLoop(r)
         /\ q \notin Range(r.children)
         /\ RuleScore(r) \in Costs
<1>1. r \in RulesInto(q) /\ ~IsSelfLoop(r) /\ Range(r.children) \subseteq DOMAIN best
  BY DEF Available
<1>2. r \in problem.rules /\ IsWeighted(r) /\ r.result = q
  BY <1>1, RulesIntoFacts DEF WalkInv
<1>3. RuleScore(r) \in Costs
  BY <1>2, ScoreSoFarIs, InsideIsCost DEF RuleScore
<1>. QED  BY <1>1, <1>2, <1>3 DEF IsSelfLoop

(* The score of a state that is left, on an acyclic chart. *)
LEMMA ScoreIsFinal ==
  ASSUME WalkInv, NEW q \in Nodes, \A c \in ChildrenOf(q) : ScoreSoFar[c] = problem.inside[c]
  PROVE  /\ Available(q) = {} => problem.inside[q] = Infinity
         /\ \A r \in Available(q) :
               (\A s \in Available(q) : RuleScore(r) <= RuleScore(s)) => RuleScore(r) = problem.inside[q]
<1>. DEFINE finals == problem.inside
<1>1. /\ finals \in [Nodes -> Costs] /\ ScoreSoFar \in [Nodes -> Costs] /\ finals[q] \in Costs
      /\ problem \in Problems
      /\ \A r \in problem.rules : finals[r.result] <= Inside(r, finals)
  BY ProblemFacts, ScoreSoFarIs DEF WalkInv, IsInside
<1>2. ASSUME NEW r \in RulesInto(q), ~IsSelfLoop(r) PROVE RuleScore(r) = Inside(r, finals)
  <2>1. \A c \in Range(r.children) : ScoreSoFar[c] = finals[c]
    BY <1>2 DEF ChildrenOf
  <2>2. IsWeighted(r)
    BY <1>1, RulesIntoFacts
  <2>. QED  BY <1>1, <2>1, <2>2, InsideOfChildren DEF RuleScore
<1>3. ASSUME finals[q] < Infinity PROVE \E s \in Available(q) : RuleScore(s) = finals[q]
  <2>1. PICK s \in RulesInto(q) : ~IsSelfLoop(s) /\ Inside(s, finals) = finals[q]
    BY <1>1, <1>3, Attained
  <2>2. IsWeighted(s)
    BY <1>1, RulesIntoFacts
  <2>3. ASSUME NEW c \in Range(s.children) PROVE c \in DOMAIN best
    <3>1. finals[c] <= Inside(s, finals)
      BY <1>1, <2>2, InsideAboveChildren
    <3>2. c \in Nodes /\ c \in ChildrenOf(q)
      BY <2>1, <2>2, ChildrenAreNodes DEF ChildrenOf, IsWeighted
    <3>3. ScoreSoFar[c] < Infinity
      BY <1>1, <1>3, <2>1, <3>1, <3>2, InfinityIsPositive DEF Costs
    <3>4. c \notin DOMAIN best => ScoreSoFar[c] = Infinity
      BY <3>2 DEF ScoreSoFar
    <3>. QED  BY <3>3, <3>4, InfinityIsPositive
  <2>4. s \in Available(q)
    BY <2>1, <2>3 DEF Available
  <2>. QED  BY <1>2, <2>1, <2>4
<1>. HIDE DEF finals
<1>4. Available(q) = {} => finals[q] = Infinity
  BY <1>1, <1>3, InfinityIsPositive DEF Costs
<1>5. ASSUME NEW r \in Available(q), \A s \in Available(q) : RuleScore(r) <= RuleScore(s)
      PROVE  RuleScore(r) = finals[q]
  <2>1. /\ RuleScore(r) \in Nat /\ RuleScore(r) <= Infinity /\ Infinity \in Nat
        /\ finals[q] \in Nat /\ finals[q] <= Infinity
    BY <1>1, AvailableFacts, InfinityIsPositive DEF Costs
  <2>2. finals[q] <= RuleScore(r)
    <3>1. r \in RulesInto(q) /\ ~IsSelfLoop(r) /\ r \in problem.rules /\ r.result = q
      BY AvailableFacts
    <3>. QED  BY <1>1, <1>2, <3>1
  <2>3. CASE finals[q] < Infinity
    <3>1. PICK s \in Available(q) : RuleScore(s) = finals[q]
      BY <1>3, <2>3
    <3>. QED  BY <1>5, <2>1, <2>2, <3>1
  <2>4. CASE ~(finals[q] < Infinity)
    BY <2>1, <2>2, <2>4
  <2>. QED  BY <2>3, <2>4
<1>. QED  BY <1>4, <1>5 DEF finals

LEMMA ExitStateWalk ==
  ASSUME WalkInv, ExitState
  PROVE  WalkInv'
<1>. DEFINE q == Head(stack).state
            D == DOMAIN best
<1>1. /\ stack # <<>> /\ walk = "visit" /\ Head(stack).exit = TRUE /\ Popping(TRUE)
      /\ problem' = problem /\ unwalked' = unwalked /\ answer' = answer /\ walk' = walk
      /\ stack' = Tail(stack) /\ marks' = [marks EXCEPT ![q] = 2]
      /\ marks \in [Nodes -> 0..2]
  BY DEF ExitState, Popping, WalkInv, WalkTypeOK
<1>2. \/ /\ Available(q) = {} /\ DOMAIN best' = D \ {q}
         /\ \A p \in D \ {q} : best'[p] = best[p]
      \/ \E r \in Available(q) :
            /\ \A s \in Available(q) : RuleScore(r) <= RuleScore(s)
            /\ DOMAIN best' = D \cup {q}
            /\ \A p \in D \ {q} : best'[p] = best[p]
            /\ best'[q] = [rule |-> r, score |-> RuleScore(r)]
  BY DEF ExitState
<1>3. q \in Nodes /\ stack[1] = Exit(q) /\ 1 \in DOMAIN stack /\ Head(stack) = stack[1]
  <2>1. Head(stack) \in FrameSet /\ Head(stack) = stack[1] /\ 1 \in DOMAIN stack
    BY <1>1, StackFacts
  <2>2. q \in Nodes /\ Head(stack) = IF Head(stack).exit THEN Exit(q) ELSE Enter(q)
    BY <2>1, FrameIs
  <2>. QED  BY <1>1, <2>1, <2>2
<1>4. \A c \in ChildrenOf(q) : AcyclicButForLoops => marks[c] = 2
  BY <1>1, ChildrenAreScored
<1>5. /\ stack' \in Seq(FrameSet)
      /\ PathIsOnStack' /\ ChildrenComeFirst' /\ GoalsAreWalked'
      /\ \A p : Exit(p) \in Range(stack') <=> Exit(p) \in Range(stack) /\ Exit(p) # stack[1]
  <2>1. marks'[q] # 0 /\ \A p \in Nodes : marks[p] # 0 => marks'[p] # 0
    BY <1>1, <1>3
  <2>2. Head(stack).state = q
    OBVIOUS
  <2>. HIDE DEF q
  <2>. QED  BY <1>1, <1>3, <2>1, <2>2, Popped
<1>. HIDE DEF q
<1>6. marks[q] = 1 /\ q \notin D /\ D \subseteq {p \in Nodes : marks[p] = 2}
  <2>1. Exit(q) \in Range(stack)
    BY <1>3 DEF Range
  <2>2. marks[q] = 1
    BY <1>3, <2>1 DEF WalkInv, WalkTypeOK
  <2>3. D \subseteq {p \in Nodes : marks[p] = 2}
    BY DEF WalkInv, WalkTypeOK
  <2>. QED  BY <2>2, <2>3
<1>7. /\ marks' \in [Nodes -> 0..2] /\ marks'[q] = 2
      /\ \A p \in Nodes : p # q => marks'[p] = marks[p]
  BY <1>1, <1>3
<1>8. \A p \in Nodes : marks'[p] = 1 <=> Exit(p) \in Range(stack')
  <2>. TAKE p \in Nodes
  <2>1. Exit(p) = stack[1] <=> p = q
    BY <1>3, FrameFacts
  <2>2. marks[p] = 1 <=> Exit(p) \in Range(stack)
    BY DEF WalkInv, WalkTypeOK
  <2>. QED  BY <1>5, <1>7, <2>1, <2>2
(* The scores afterwards. *)
<1>9. /\ D \subseteq DOMAIN best' /\ DOMAIN best' \subseteq D \cup {q}
      /\ \A p \in D : best'[p] = best[p]
      /\ q \in DOMAIN best' => \E r \in Available(q) : best'[q] = [rule |-> r, score |-> RuleScore(r)]
  BY <1>2, <1>6
<1>10. /\ \A p \in Nodes : p # q => ScoreSoFar'[p] = ScoreSoFar[p]
       /\ q \in DOMAIN best' => ScoreSoFar'[q] = best'[q].score
       /\ q \notin DOMAIN best' => ScoreSoFar'[q] = Infinity
       /\ DOMAIN ScoreSoFar' = Nodes /\ ScoreSoFar' = [p \in Nodes |-> ScoreSoFar'[p]]
  BY <1>3, <1>9 DEF ScoreSoFar
<1>11. q \in DOMAIN best' => /\ best'[q].rule \in Available(q) /\ best'[q].score \in Costs
                             /\ best'[q].score = RuleScore(best'[q].rule)
                             /\ best'[q] \in [rule : RulesInto(q), score : Costs]
  <2>. SUFFICES ASSUME q \in DOMAIN best'
                PROVE  /\ best'[q].rule \in Available(q) /\ best'[q].score \in Costs
                       /\ best'[q].score = RuleScore(best'[q].rule)
                       /\ best'[q] \in [rule : RulesInto(q), score : Costs]
    OBVIOUS
  <2>1. PICK r \in Available(q) : best'[q] = [rule |-> r, score |-> RuleScore(r)]
    BY <1>9
  <2>2. RuleScore(r) \in Costs /\ r \in RulesInto(q)
    BY <1>3, AvailableFacts
  <2>3. best'[q].rule = r /\ best'[q].score = RuleScore(r)
    BY <2>1
  <2>. QED  BY <2>1, <2>2, <2>3
<1>12. ScoreSoFar \in [Nodes -> Costs] /\ ScoreSoFar' \in [Nodes -> Costs]
  <2>1. ScoreSoFar \in [Nodes -> Costs]
    BY ScoreSoFarIs
  <2>2. Infinity \in Costs
    BY InfinityIsPositive DEF Costs
  <2>3. \A p \in Nodes : ScoreSoFar'[p] \in Costs
    BY <1>10, <1>11, <2>1, <2>2
  <2>. QED  BY <1>10, <2>1, <2>3
<1>13. ASSUME NEW r, IsWeighted(r), Range(r.children) \subseteq D
       PROVE  Inside(r, ScoreSoFar') = Inside(r, ScoreSoFar)
  <2>1. \A c \in Range(r.children) : ScoreSoFar'[c] = ScoreSoFar[c]
    BY <1>6, <1>10, <1>13
  <2>. QED  BY <1>12, <1>13, <2>1, InsideOfChildren
<1>14. WalkTypeOK'
  <2>1. ASSUME NEW p \in DOMAIN best'
        PROVE  /\ p \in Nodes /\ marks'[p] = 2
               /\ best'[p] \in [rule : RulesInto(p), score : Costs]
    <3>1. CASE p = q
      BY <1>3, <1>7, <1>11, <2>1, <3>1
    <3>2. CASE p # q
      <4>1. p \in D /\ best'[p] = best[p]
        BY <1>9, <2>1, <3>2
      <4>2. best[p] \in [rule : RulesInto(p), score : Costs]
        BY <4>1 DEF WalkInv, WalkTypeOK
      <4>. QED  BY <1>6, <1>7, <3>2, <4>1, <4>2
    <3>. QED  BY <3>1, <3>2
  <2>. QED  BY <1>1, <1>5, <1>7, <1>8, <2>1 DEF WalkInv, WalkTypeOK, RulesInto, Exit, FrameSet
<1>15. BackpointersDerive'
  <2>1. ASSUME NEW p \in DOMAIN best'
        PROVE  /\ best'[p].score = Inside(best'[p].rule, ScoreSoFar')
               /\ Range(best'[p].rule.children) \subseteq D
    <3>1. CASE p = q
      <4>1. best'[q].rule \in Available(q) /\ best'[q].score = RuleScore(best'[q].rule)
        BY <1>11, <2>1, <3>1
      <4>2. IsWeighted(best'[q].rule) /\ Range(best'[q].rule.children) \subseteq D
        BY <1>3, <4>1, AvailableFacts
      <4>. QED  BY <1>13, <3>1, <4>1, <4>2 DEF RuleScore
    <3>2. CASE p # q
      <4>1. p \in D /\ best'[p] = best[p]
        BY <1>9, <2>1, <3>2
      <4>2. best[p].score = RuleScore(best[p].rule) /\ Range(best[p].rule.children) \subseteq D
        BY <4>1 DEF WalkInv, BackpointersDerive
      <4>3. IsWeighted(best[p].rule)
        BY <4>1, ScoreSoFarIs
      <4>. QED  BY <1>13, <4>1, <4>2, <4>3 DEF RuleScore
    <3>. QED  BY <3>1, <3>2
  <2>2. Derive([p \in DOMAIN best' |-> best'[p].rule])
    <3>. SUFFICES ASSUME NEW S \in SUBSET Nodes,
                         \A p \in DOMAIN best' : Range(best'[p].rule.children) \subseteq S => p \in S
                  PROVE  DOMAIN best' \subseteq S
      BY DEF Derive
    <3>1. \A p \in D : Range(best[p].rule.children) \subseteq S => p \in S
      BY <1>9
    <3>2. D \subseteq S
      BY <3>1 DEF WalkInv, BackpointersDerive, Derive
    <3>3. q \in DOMAIN best' => q \in S
      BY <2>1, <3>2
    <3>. QED  BY <1>9, <3>2, <3>3
  <2>. QED  BY <1>9, <2>1, <2>2 DEF BackpointersDerive, RuleScore
<1>16. AnswerIsChosen'
  BY <1>1 DEF AnswerIsChosen
<1>17. ScoresAreFinal'
  <2>1. OptimalAnswer'
    BY <1>1 DEF OptimalAnswer
  <2>. SUFFICES ASSUME AcyclicButForLoops, NEW p \in Nodes, marks'[p] = 2
                PROVE  ScoreSoFar'[p] = problem.inside[p]
    BY <1>1, <2>1, SameProblem DEF ScoresAreFinal
  <2>2. CASE p # q
    BY <1>7, <1>10, <2>2 DEF WalkInv, ScoresAreFinal
  <2>3. CASE p = q
    <3>1. \A c \in ChildrenOf(q) : c \in Nodes /\ ScoreSoFar[c] = problem.inside[c]
      BY <1>4, RulesIntoFacts DEF WalkInv, ScoresAreFinal
    <3>2. /\ Available(q) = {} => problem.inside[q] = Infinity
          /\ \A r \in Available(q) :
               (\A s \in Available(q) : RuleScore(r) <= RuleScore(s)) => RuleScore(r) = problem.inside[q]
      BY <1>3, <3>1, ScoreIsFinal
    <3>3. CASE Available(q) = {}
      BY <1>2, <1>6, <1>10, <2>3, <3>2, <3>3
    <3>4. CASE Available(q) # {}
      <4>1. PICK r \in Available(q) :
              /\ \A s \in Available(q) : RuleScore(r) <= RuleScore(s)
              /\ DOMAIN best' = D \cup {q}
              /\ best'[q] = [rule |-> r, score |-> RuleScore(r)]
        BY <1>2, <3>4
      <4>2. q \in DOMAIN best' /\ best'[q].score = RuleScore(r)
        BY <4>1
      <4>. QED  BY <1>10, <2>3, <3>2, <4>1, <4>2
    <3>. QED  BY <3>3, <3>4
  <2>. QED  BY <2>2, <2>3
<1>. QED  BY <1>1, <1>5, <1>14, <1>15, <1>16, <1>17 DEF WalkInv

LEMMA FinishWalk ==
  ASSUME WalkInv, Finish
  PROVE  WalkInv'
<1>. DEFINE scored == problem.goals \cap DOMAIN best
<1>1. /\ stack = <<>> /\ unwalked = {} /\ walk' = "done"
      /\ UNCHANGED <<problem, unwalked, stack, marks, best>>
      /\ IF scored = {} THEN answer' = {}
         ELSE \E q \in scored : /\ \A p \in scored : best[q].score <= best[p].score
                                /\ answer' = {q}
  BY DEF Finish
<1>2. WalkTypeOK'
  <2>1. answer' \subseteq problem.goals
    BY <1>1
  <2>. QED  BY <1>1, <2>1 DEF WalkInv, WalkTypeOK, RulesInto, Exit
<1>3. PathIsOnStack' /\ ChildrenComeFirst' /\ GoalsAreWalked'
  BY <1>1 DEF WalkInv, PathIsOnStack, ChildrenComeFirst, GoalsAreWalked, ChildrenOf, RulesInto, Enter
<1>4. BackpointersDerive'
  BY <1>1 DEF WalkInv, BackpointersDerive, RuleScore, ScoreSoFar
<1>5. AnswerIsChosen'
  BY <1>1 DEF AnswerIsChosen
<1>6. ASSUME AcyclicButForLoops
      PROVE  Optimum(answer', ScoreSoFar) = Optimum(problem.goals, problem.inside)
  <2>. DEFINE goals == problem.goals
              finals == problem.inside
  <2>1. /\ goals \subseteq Nodes /\ finals \in [Nodes -> Costs]
        /\ ScoreSoFar \in [Nodes -> Costs] /\ scored \subseteq goals
        /\ \A q \in DOMAIN best : ScoreSoFar[q] = best[q].score
    BY ProblemFacts, ScoreSoFarIs DEF WalkInv
  <2>2. \A q \in goals : marks[q] = 2
    <3>. TAKE q \in goals
    <3>1. Range(stack) = {}
      BY <1>1 DEF Range
    <3>2. q \in Nodes /\ marks[q] \in 0..2 /\ marks[q] # 1
      BY <2>1, <3>1 DEF WalkInv, WalkTypeOK
    <3>3. marks[q] # 0
      BY <1>1, <3>1 DEF WalkInv, GoalsAreWalked
    <3>. QED  BY <3>2, <3>3
  <2>3. \A q \in goals : ScoreSoFar[q] = finals[q]
    BY <1>6, <2>1, <2>2 DEF WalkInv, ScoresAreFinal
  <2>4. \A q \in goals : q \notin scored => ScoreSoFar[q] = Infinity
    BY <2>1 DEF ScoreSoFar
  <2>. HIDE DEF goals, finals
  <2>5. CASE scored = {}
    <3>1. answer' = {}
      BY <1>1, <2>5
    <3>2. Optimum({}, ScoreSoFar) \in Costs /\ ~(Optimum({}, ScoreSoFar) < Infinity)
      BY <2>1, OptimumIsLeast
    <3>3. /\ Optimum(goals, finals) \in Costs
          /\ Optimum(goals, finals) < Infinity => \E q \in goals : finals[q] = Optimum(goals, finals)
      BY <2>1, OptimumIsLeast
    <3>4. \A q \in goals : finals[q] = Infinity
      BY <2>3, <2>4, <2>5
    <3>5. Optimum(goals, finals) = Infinity
      BY <3>3, <3>4, InfinityIsPositive DEF Costs
    <3>6. Optimum({}, ScoreSoFar) = Infinity
      BY <3>2, InfinityIsPositive DEF Costs
    <3>. QED  BY <3>1, <3>5, <3>6 DEF goals, finals
  <2>6. CASE scored # {}
    <3>1. PICK q \in scored : (\A p \in scored : best[q].score <= best[p].score) /\ answer' = {q}
      BY <1>1, <2>6
    <3>2. q \in goals /\ q \in Nodes /\ q \in DOMAIN best /\ ScoreSoFar[q] \in Costs
      BY <2>1, <3>1
    <3>3. \A p \in goals : ScoreSoFar[q] <= ScoreSoFar[p]
      <4>. TAKE p \in goals
      <4>1. CASE p \in scored
        BY <2>1, <3>1, <3>2, <4>1
      <4>2. CASE p \notin scored
        BY <2>4, <3>2, <4>2, InfinityIsPositive DEF Costs
      <4>. QED  BY <4>1, <4>2
    <3>4. \A p \in goals : finals[q] <= finals[p]
      BY <2>3, <3>2, <3>3
    <3>5. Optimum(goals, finals) = finals[q]
      BY <2>1, <3>2, <3>4, OptimumIs
    <3>6. Optimum({q}, ScoreSoFar) = ScoreSoFar[q]
      <4>1. {q} \subseteq Nodes /\ q \in {q} /\ \A p \in {q} : ScoreSoFar[q] <= ScoreSoFar[p]
        BY <3>2, InfinityIsPositive DEF Costs
      <4>. QED  BY <2>1, <4>1, OptimumIs
    <3>. QED  BY <2>3, <3>1, <3>2, <3>5, <3>6 DEF goals, finals
  <2>. QED  BY <2>5, <2>6
<1>7. ScoresAreFinal'
  <2>1. /\ AcyclicButForLoops' = AcyclicButForLoops /\ ScoreSoFar' = ScoreSoFar
        /\ problem' = problem /\ marks' = marks
    BY <1>1, SameProblem DEF ScoreSoFar
  <2>2. AcyclicButForLoops => OptimalAnswer'
    BY <1>6, <2>1 DEF OptimalAnswer
  <2>. QED  BY <2>1, <2>2 DEF WalkInv, ScoresAreFinal
<1>. QED  BY <1>1, <1>2, <1>3, <1>4, <1>5, <1>7 DEF WalkInv

LEMMA StepWalk == WalkInv /\ [WalkNext]_<<problem, walk_vars>> => WalkInv'
<1>. SUFFICES ASSUME WalkInv, [WalkNext]_<<problem, walk_vars>> PROVE WalkInv'
  OBVIOUS
<1>1. ASSUME NEW q \in unwalked, NextRoot(q) PROVE WalkInv'
  BY <1>1, NextRootWalk
<1>2. CASE EnterState
  BY <1>2, EnterStateWalk
<1>3. CASE ExitState
  BY <1>3, ExitStateWalk
<1>4. CASE Finish
  BY <1>4, FinishWalk
<1>5. CASE UNCHANGED <<problem, walk_vars>>
  <2>. USE <1>5 DEF walk_vars
  <2>1. WalkTypeOK'
    BY DEF WalkInv, WalkTypeOK, RulesInto, Exit
  <2>2. PathIsOnStack' /\ ChildrenComeFirst' /\ GoalsAreWalked'
    BY DEF WalkInv, PathIsOnStack, ChildrenComeFirst, GoalsAreWalked, ChildrenOf, RulesInto, Enter
  <2>3. BackpointersDerive'
    BY DEF WalkInv, BackpointersDerive, RuleScore, ScoreSoFar
  <2>4. AnswerIsChosen'
    BY DEF WalkInv, AnswerIsChosen
  <2>5. ScoreSoFar' = ScoreSoFar /\ AcyclicButForLoops' = AcyclicButForLoops
    BY SameProblem DEF ScoreSoFar
  <2>6. ScoresAreFinal'
    BY <2>5 DEF WalkInv, ScoresAreFinal, OptimalAnswer
  <2>. QED  BY <2>1, <2>2, <2>3, <2>4, <2>6 DEF WalkInv
<1>. QED  BY <1>1, <1>2, <1>3, <1>4, <1>5 DEF WalkNext

(* The walk alone: a behaviour of the query "best tree". *)
LEMMA WalkIsInvariant == WalkSpec => []WalkInv
BY InitWalk, StepWalk, PTL DEF WalkSpec

-----------------------------------------------------------------------------
(* What follows. *)

(* The score of the answer is that of the tree that the backpointers give:  *)
(* not better, as they derive it, and not worse, as no rule contradicts.    *)
LEMMA TreeIsWorth == WalkInv => TreeIsWorthItsScore
<1>. DEFINE rules == {best[q].rule : q \in DOMAIN best}
            rule == [q \in DOMAIN best |-> best[q].rule]
<1>. SUFFICES ASSUME WalkInv, walk = "done", NEW q \in answer
              PROVE  BestInside(rules)[q] = best[q].score
  BY DEF TreeIsWorthItsScore
<1>1. q \in DOMAIN best
  BY DEF WalkInv, AnswerIsChosen
<1>2. /\ ScoreSoFar \in [Nodes -> Costs] /\ DOMAIN best \subseteq Nodes
      /\ \A p \in DOMAIN best : /\ ScoreSoFar[p] = best[p].score
                                /\ IsWeighted(best[p].rule) /\ best[p].rule.result = p
  BY ScoreSoFarIs
<1>3. \A p \in DOMAIN best : /\ Inside(best[p].rule, ScoreSoFar) = ScoreSoFar[p]
                             /\ Range(best[p].rule.children) \subseteq DOMAIN best
  BY <1>2 DEF WalkInv, BackpointersDerive, RuleScore
<1>4. \A r \in rules : IsWeighted(r) /\ ScoreSoFar[r.result] = Inside(r, ScoreSoFar)
  BY <1>2, <1>3
<1>5. BestInside(rules) \in [Nodes -> Costs]
  <2>. HIDE DEF rules
  <2>. QED  BY <1>4, BestInsideIs
<1>6. BestInside(rules)[q] <= ScoreSoFar[q]
  <2>. DEFINE C == DOMAIN best
  <2>1. /\ DOMAIN rule = C /\ Derive(rule)
        /\ \A p \in C : /\ rule[p] \in rules /\ rule[p].result = p
                        /\ Range(rule[p].children) \subseteq C
    BY <1>2, <1>3 DEF WalkInv, BackpointersDerive
  <2>2. \A p \in C : Inside(rule[p], ScoreSoFar) <= ScoreSoFar[p]
    <3>. TAKE p \in C
    <3>1. ScoreSoFar[p] \in Nat
      BY <1>2, InfinityIsPositive DEF Costs
    <3>. QED  BY <1>3, <3>1
  <2>. HIDE DEF rules, rule, C
  <2>. QED  BY <1>1, <1>2, <1>4, <2>1, <2>2, DerivedIsWorth DEF C
<1>7. ScoreSoFar[q] <= BestInside(rules)[q]
  <2>1. \A r \in rules : ScoreSoFar[r.result] <= Inside(r, ScoreSoFar)
    <3>. TAKE r \in rules
    <3>1. Inside(r, ScoreSoFar) \in Nat
      BY <1>2, <1>4, InsideIsCost, InfinityIsPositive DEF Costs
    <3>. QED  BY <1>4, <3>1
  <2>2. Cardinality(Nodes) \in 0..Cardinality(Nodes)
    BY NodesAreFinite, FS_CardinalityType
  <2>. HIDE DEF rules
  <2>. QED  BY <1>1, <1>2, <1>4, <2>1, <2>2, RoundsAbove DEF BestInside, Round
<1>. HIDE DEF rules
<1>. QED  BY <1>1, <1>2, <1>5, <1>6, <1>7, InfinityIsPositive DEF Costs

(* A step of the walk writes no score twice. *)
LEMMA StepScoresOnce ==
  ASSUME WalkInv, WalkInv', [WalkNext]_<<problem, walk_vars>>
  PROVE  /\ \A i, j \in DOMAIN stack' : stack'[i].exit /\ stack'[i] = stack'[j] => i = j
         /\ \A q \in Nodes : marks[q] = 2 =>
               /\ marks'[q] = 2
               /\ q \in DOMAIN best <=> q \in DOMAIN best'
               /\ q \in DOMAIN best => best'[q] = best[q]
<1>1. \A i, j \in DOMAIN stack' : stack'[i].exit /\ stack'[i] = stack'[j] => i = j
  BY DEF WalkInv, PathIsOnStack
<1>2. ASSUME NEW q \in Nodes, marks[q] = 2
      PROVE  /\ marks'[q] = 2
             /\ q \in DOMAIN best <=> q \in DOMAIN best'
             /\ q \in DOMAIN best => best'[q] = best[q]
  <2>0. marks \in [Nodes -> 0..2]
    BY DEF WalkInv, WalkTypeOK
  <2>1. CASE \E p \in unwalked : NextRoot(p)
    BY <1>2, <2>1 DEF NextRoot
  <2>2. CASE EnterState
    <3>. DEFINE p == Head(stack).state
    <3>1. best' = best
      BY <2>2 DEF EnterState
    <3>2. marks' = marks \/ (marks[p] = 0 /\ marks' = [marks EXCEPT ![p] = 1])
      BY <2>2 DEF EnterState, IsMet, EnteredMark
    <3>. HIDE DEF p
    <3>. QED  BY <1>2, <2>0, <3>1, <3>2
  <2>3. CASE ExitState
    <3>. DEFINE p == Head(stack).state
    <3>1. stack # <<>> /\ Head(stack).exit = TRUE
      BY <2>3 DEF ExitState, Popping
    <3>2. stack[1] \in FrameSet /\ Head(stack) = stack[1] /\ 1 \in DOMAIN stack
      BY <3>1, StackFacts
    <3>3. p \in Nodes /\ stack[1] = Exit(p)
      BY <3>1, <3>2, FrameIs
    <3>4. marks[p] = 1
      BY <3>2, <3>3 DEF Range, WalkInv, WalkTypeOK
    <3>5. /\ marks' = [marks EXCEPT ![p] = 2]
          /\ DOMAIN best \ {p} \subseteq DOMAIN best' /\ DOMAIN best' \subseteq DOMAIN best \cup {p}
          /\ \A x \in DOMAIN best \ {p} : best'[x] = best[x]
      BY <2>3 DEF ExitState
    <3>. HIDE DEF p
    <3>. QED  BY <1>2, <2>0, <3>3, <3>4, <3>5
  <2>4. CASE Finish
    BY <1>2, <2>4 DEF Finish
  <2>5. CASE UNCHANGED <<problem, walk_vars>>
    BY <1>2, <2>5 DEF walk_vars
  <2>. QED  BY <2>1, <2>2, <2>3, <2>4, <2>5 DEF WalkNext
<1>. QED  BY <1>1, <1>2

-----------------------------------------------------------------------------
(* The outside heuristic of a grammar, for all grammars. *)

LEMMA GrammarFacts ==
  ASSUME problem \in Problems
  PROVE  /\ IsFiniteSet(problem.rules)
         /\ \A r \in problem.rules : IsWeighted(r) /\ r.result \in Nodes /\ r.cost \in Costs
         /\ \A r \in problem.rules : Range(r.children) \subseteq Nodes /\ IsFiniteSet(Range(r.children))
         /\ problem.goals \in SUBSET Nodes
         /\ problem.inside \in [Nodes -> Costs]
         /\ \A r \in problem.rules : problem.inside[r.result] <= Inside(r, problem.inside)
         /\ InsideOf[problem] = problem.inside
         /\ OutsideOf[problem] = BestOutside(problem.rules, problem.goals, problem.inside)
<1>1. /\ IsFiniteSet(problem.rules)
      /\ \A r \in problem.rules : IsWeighted(r)
      /\ problem.goals \in SUBSET Nodes
      /\ problem.inside \in [Nodes -> Costs]
      /\ IsInside(problem.rules, problem.inside)
  BY ProblemsAreWeighted
<1>2. \A r \in problem.rules : Range(r.children) \subseteq Nodes
  BY <1>1, ChildrenAreNodes DEF IsWeighted
<1>3. \A r \in problem.rules : IsFiniteSet(Range(r.children))
  BY <1>2, NodesAreFinite, FS_Subset
<1>4. BestInside(problem.rules) = problem.inside
  BY <1>1, InsideIsBest
<1>5. InsideOf[problem] = problem.inside
  BY <1>4 DEF InsideOf
<1>. QED  BY <1>1, <1>2, <1>3, <1>5 DEF IsWeighted, IsInside, OutsideOf

Entries == [cost : Costs, state : Nodes]

LEMMA EntryIs ==
  ASSUME NEW cost \in Costs, NEW q \in Nodes
  PROVE  Entry(cost, q) \in Entries /\ Entry(cost, q).cost = cost /\ Entry(cost, q).state = q
BY DEF Entry, Entries

LEMMA EntriesHave ==
  ASSUME NEW e \in Entries
  PROVE  e.cost \in Costs /\ e.cost \in Nat /\ e.state \in Nodes
BY DEF Entries, Costs

(* The better scores, and the entries that are added for them. *)
Improvement(score, candidates, rest, new, queue) ==
    /\ new \in [Nodes -> Costs] /\ queue \in SUBSET Entries
    /\ \A q \in Nodes : new[q] <= score[q]
    /\ \A c \in candidates : new[c.state] <= c.cost
    /\ \A q \in Nodes : \/ new[q] = score[q]
                        \/ \E c \in candidates : c.state = q /\ c.cost = new[q]
    /\ rest \subseteq queue
    /\ \A q \in Nodes : new[q] # score[q] => Entry(new[q], q) \in queue
    /\ \A e \in queue : e \in rest \/ (e.cost = new[e.state] /\ new[e.state] # score[e.state])

LEMMA ImproveIs ==
  ASSUME NEW score \in [Nodes -> Costs], NEW candidates \in SUBSET Entries, NEW rest \in SUBSET Entries,
         NEW new, new = Improve(score, candidates, rest).score,
         NEW queue, queue = Improve(score, candidates, rest).heap
  PROVE  Improvement(score, candidates, rest, new, queue)
<1>. DEFINE Of(q) == {c.cost : c \in {d \in candidates : d.state = q}}
<1>1. new = [q \in Nodes |-> Min({score[q]} \cup Of(q))]
  BY DEF Improve
<1>0. queue = rest \cup {Entry(new[q], q) : q \in {p \in Nodes : new[p] < score[p]}}
  BY <1>1 DEF Improve
<1>2. ASSUME NEW q \in Nodes
      PROVE  /\ new[q] \in {score[q]} \cup Of(q) /\ new[q] \in Costs
             /\ \A k \in {score[q]} \cup Of(q) : new[q] <= k
  <2>1. {score[q]} \cup Of(q) \subseteq Costs /\ {score[q]} \cup Of(q) # {}
    BY DEF Entries
  <2>2. {score[q]} \cup Of(q) \subseteq Nat
    BY <2>1 DEF Costs
  <2>3. new[q] = Min({score[q]} \cup Of(q))
    BY <1>1
  <2>. HIDE DEF Of
  <2>. QED  BY <2>1, <2>2, <2>3, MinIs
<1>3. new \in [Nodes -> Costs]
  BY <1>1, <1>2
<1>4. \A q \in Nodes : new[q] <= score[q]
  BY <1>2
<1>5. \A c \in candidates : new[c.state] <= c.cost
  BY <1>2 DEF Entries
<1>6. \A q \in Nodes : \/ new[q] = score[q]
                       \/ \E c \in candidates : c.state = q /\ c.cost = new[q]
  BY <1>2
<1>7. \A q \in Nodes : new[q] # score[q] <=> new[q] < score[q]
  BY <1>3, <1>4 DEF Costs
<1>8. \A q \in Nodes : Entry(new[q], q) \in Entries /\ Entry(new[q], q).cost = new[q] /\ Entry(new[q], q).state = q
  BY <1>3, EntryIs
<1>12. \A e \in queue : e \in rest \/ \E q \in Nodes : new[q] < score[q] /\ e = Entry(new[q], q)
  BY <1>0
<1>13. \A q \in Nodes : new[q] < score[q] => Entry(new[q], q) \in queue
  BY <1>0
<1>. HIDE DEF Of
<1>9. queue \in SUBSET Entries
  BY <1>12, <1>8
<1>10. \A q \in Nodes : new[q] # score[q] => Entry(new[q], q) \in queue
  BY <1>13, <1>7
<1>11. ASSUME NEW e \in queue, e \notin rest
       PROVE  e.cost = new[e.state] /\ new[e.state] # score[e.state]
  <2>1. PICK q \in Nodes : new[q] < score[q] /\ e = Entry(new[q], q)
    BY <1>12, <1>11
  <2>2. e.state = q /\ e.cost = new[q] /\ new[q] # score[q]
    BY <1>7, <1>8, <2>1
  <2>. QED  BY <2>2
<1>14. rest \subseteq queue
  BY <1>0
<1>. QED  BY <1>3, <1>4, <1>5, <1>6, <1>9, <1>10, <1>11, <1>14 DEF Improvement

(* A pass takes the least entry of its heap, makes the state final, and     *)
(* improves others by no less than that: final scores stay.                 *)
Stepped(score, candidates, new, queue, final) ==
    /\ new \in [Nodes -> Costs] /\ queue \in SUBSET Entries /\ final \in SUBSET Nodes
    /\ \A q \in Nodes : new[q] <= score[q]
    /\ \A c \in candidates : new[c.state] <= c.cost
    /\ \A q \in Nodes : \/ new[q] = score[q]
                        \/ \E c \in candidates : c.state = q /\ c.cost = new[q]
    /\ \A q \in final : new[q] = score[q]
    /\ \A q \in final : \A e \in queue : new[q] <= e.cost
    /\ \A q \in Nodes \ final : new[q] < Infinity => Entry(new[q], q) \in queue

LEMMA PassStep ==
  ASSUME NEW score \in [Nodes -> Costs], heap \in SUBSET Entries, finalized \in SUBSET Nodes,
         \A q \in finalized : \A e \in heap : score[q] <= e.cost,
         \A q \in Nodes \ finalized : score[q] < Infinity => Entry(score[q], q) \in heap,
         NEW entry \in heap, \A e \in heap : entry.cost <= e.cost,
         entry.cost = score[entry.state],
         NEW candidates \in SUBSET Entries, \A c \in candidates : entry.cost <= c.cost,
         NEW new, new = Improve(score, candidates, heap \ {entry}).score,
         NEW queue, queue = Improve(score, candidates, heap \ {entry}).heap,
         NEW final, final = finalized \cup {entry.state}
  PROVE  Stepped(score, candidates, new, queue, final)
<1>1. entry.state \in Nodes /\ entry.cost \in Costs /\ heap \ {entry} \in SUBSET Entries
      /\ final \in SUBSET Nodes
  BY EntriesHave
<1>2. /\ new \in [Nodes -> Costs] /\ queue \in SUBSET Entries
      /\ \A q \in Nodes : new[q] <= score[q]
      /\ \A c \in candidates : new[c.state] <= c.cost
      /\ \A q \in Nodes : \/ new[q] = score[q]
                          \/ \E c \in candidates : c.state = q /\ c.cost = new[q]
      /\ heap \ {entry} \subseteq queue
      /\ \A q \in Nodes : new[q] # score[q] => Entry(new[q], q) \in queue
      /\ \A e \in queue : e \in heap \ {entry} \/ (e.cost = new[e.state] /\ new[e.state] # score[e.state])
  <2>. DEFINE rest == heap \ {entry}
  <2>1. rest \in SUBSET Entries /\ new = Improve(score, candidates, rest).score
        /\ queue = Improve(score, candidates, rest).heap
    BY <1>1
  <2>. HIDE DEF rest
  <2>2. Improvement(score, candidates, rest, new, queue)
    <3>1. score \in [Nodes -> Costs] /\ candidates \in SUBSET Entries
      OBVIOUS
    <3>. QED  BY ONLY <2>1, <3>1, ImproveIs
  <2>. QED  BY <2>2 DEF rest, Improvement
<1>3. \A q \in final : score[q] <= entry.cost /\ q \in Nodes
  <2>1. entry.cost <= entry.cost
    BY <1>1 DEF Costs
  <2>. QED  BY <1>1, <2>1
<1>4. ASSUME NEW q \in final PROVE new[q] = score[q]
  <2>1. score[q] \in Nat /\ new[q] \in Nat /\ entry.cost \in Nat /\ q \in Nodes
    <3>1. score \in [Nodes -> Costs] /\ new \in [Nodes -> Costs] /\ entry.cost \in Costs /\ q \in Nodes
      BY <1>1, <1>2, <1>3
    <3>. QED  BY ONLY <3>1 DEF Costs
  <2>2. ASSUME NEW c \in candidates, c.cost = new[q] PROVE new[q] = score[q]
    <3>1. entry.cost <= new[q] /\ score[q] <= entry.cost /\ new[q] <= score[q]
      BY <1>2, <1>3, <2>1, <2>2
    <3>. QED  BY ONLY <2>1, <3>1
  <2>. QED  BY <1>2, <2>1, <2>2
<1>5. ASSUME NEW e \in queue PROVE entry.cost <= e.cost
  <2>1. CASE e \in heap
    BY <2>1
  <2>2. CASE e \notin heap
    <3>1. e \in Entries /\ e.cost = new[e.state] /\ new[e.state] # score[e.state]
      BY <1>2, <2>2
    <3>2. PICK c \in candidates : c.state = e.state /\ c.cost = new[e.state]
      BY <1>2, <3>1, EntriesHave
    <3>. QED  BY <3>1, <3>2
  <2>. QED  BY <2>1, <2>2
<1>6. ASSUME NEW q \in final, NEW e \in queue PROVE new[q] <= e.cost
  <2>1. score[q] \in Nat /\ entry.cost \in Nat /\ e.cost \in Nat
    <3>1. score \in [Nodes -> Costs] /\ entry.cost \in Costs /\ q \in Nodes /\ e.cost \in Nat
      BY <1>1, <1>2, <1>3, EntriesHave
    <3>. QED  BY ONLY <3>1 DEF Costs
  <2>2. new[q] = score[q] /\ score[q] <= entry.cost /\ entry.cost <= e.cost
    BY <1>3, <1>4, <1>5
  <2>. QED  BY ONLY <2>1, <2>2
<1>7. ASSUME NEW q \in Nodes \ final, new[q] < Infinity PROVE Entry(new[q], q) \in queue
  <2>1. CASE new[q] # score[q]
    BY <1>2, <2>1
  <2>2. CASE new[q] = score[q]
    <3>1. Entry(score[q], q) \in heap /\ Entry(score[q], q).state = q
      BY <1>7, <2>2, EntryIs
    <3>. QED  BY <1>2, <2>2, <3>1
  <2>. QED  BY <2>1, <2>2
<1>. QED  BY <1>1, <1>2, <1>4, <1>6, <1>7 DEF Stepped
-----------------------------------------------------------------------------
LEMMA EntriesAre == Entries = [cost : Costs, state : Nodes]
BY DEF Entries

LEMMA ZeroIsCost == 0 \in Costs /\ Infinity \in Costs /\ \A c \in Costs : c < Infinity \/ c = Infinity
BY InfinityIsPositive DEF Costs

LEMMA FinalScoresAre ==
  ASSUME inside \in [Nodes -> Costs]
  PROVE  FinalScores \in [Nodes -> Costs]
BY ZeroIsCost DEF FinalScores

LEMMA SeedsAre ==
  ASSUME problem \in Problems
  PROVE  /\ Seeds \in [Nodes -> Costs]
         /\ \A r \in problem.rules : r.children = <<>> => Seeds[r.result] <= r.cost
         /\ \A q \in Nodes : \/ Seeds[q] = Infinity
                             \/ \E r \in problem.rules : r.children = <<>> /\ r.result = q /\ Seeds[q] = r.cost
<1>. DEFINE Of(q) == {Infinity} \cup {r.cost : r \in {s \in problem.rules : s.children = <<>> /\ s.result = q}}
<1>1. \A q \in Nodes : Of(q) \subseteq Costs /\ Of(q) \subseteq Nat /\ Of(q) # {}
  BY GrammarFacts, ZeroIsCost DEF Costs
<1>2. \A q \in Nodes : Seeds[q] = Min(Of(q))
  BY DEF Seeds
<1>3. ASSUME NEW q \in Nodes
      PROVE  Seeds[q] \in Of(q) /\ Seeds[q] \in Costs /\ \A k \in Of(q) : Seeds[q] <= k
  <2>1. Of(q) \subseteq Costs /\ Of(q) \subseteq Nat /\ Of(q) # {} /\ Seeds[q] = Min(Of(q))
    BY <1>1, <1>2
  <2>. HIDE DEF Of
  <2>. QED  BY <2>1, MinIs
<1>4. Seeds = [q \in Nodes |-> Seeds[q]]
  BY DEF Seeds
<1>5. Seeds \in [Nodes -> Costs]
  BY <1>3, <1>4
<1>. QED  BY <1>3, <1>5, GrammarFacts

LEMMA InitEstimate ==
  ASSUME EstimateInit
  PROVE  EstimateInv
<1>1. /\ problem \in Problems /\ pass = "inside" /\ inside = Seeds
      /\ partial = [r \in problem.rules |-> r.cost]
      /\ waiting = [r \in problem.rules |-> WaitingFor(r)]
      /\ outside = Impossible
      /\ heap = {Entry(inside[q], q) : q \in {p \in Nodes : inside[p] < Infinity}}
      /\ finalized = {}
  BY DEF EstimateInit
<1>2. inside \in [Nodes -> Costs] /\ FinalScores \in [Nodes -> Costs]
  BY <1>1, SeedsAre, FinalScoresAre
<1>3. EstimateTypeOK
  <2>1. /\ partial \in [problem.rules -> Costs]
        /\ \A r \in problem.rules : waiting[r] = Cardinality(Range(r.children) \ finalized)
    BY <1>1, GrammarFacts DEF WaitingFor
  <2>2. waiting \in [problem.rules -> Nat]
    BY <1>1, GrammarFacts, FS_CardinalityType DEF WaitingFor
  <2>3. heap \subseteq Entries
    BY <1>1, <1>2, EntryIs
  <2>4. \A q \in Nodes \ finalized : PassScore[q] < Infinity => Entry(PassScore[q], q) \in heap
    BY <1>1 DEF PassScore
  <2>. QED  BY <1>1, <1>2, <2>1, <2>2, <2>3, <2>4, ImpossibleIsScore, EntriesAre DEF EstimateTypeOK
<1>4. PartialsAreSafe
  <2>. SUFFICES ASSUME NEW r \in problem.rules
                PROVE  /\ partial[r] = Inside(r, FinalScores)
                       /\ partial[r] <= Inside(r, FinalScores)
                       /\ waiting[r] = 0 => inside[r.result] <= partial[r]
    BY DEF PartialsAreSafe
  <2>1. IsWeighted(r) /\ Range(r.children) \subseteq Nodes /\ r.cost \in Nat
    BY <1>1, GrammarFacts DEF Costs
  <2>2. partial[r] = r.cost /\ r.cost = Inside(r, FinalScores)
    <3>1. \A q \in Range(r.children) : FinalScores[q] = 0
      BY <1>1, <2>1 DEF FinalScores
    <3>. QED  BY <1>1, <1>2, <2>1, <3>1, InsideOfZeros
  <2>3. waiting[r] = 0 => r.children = <<>>
    <3>1. waiting[r] = Cardinality(Range(r.children)) /\ IsFiniteSet(Range(r.children))
      BY <1>1, GrammarFacts DEF WaitingFor
    <3>2. waiting[r] = 0 => Range(r.children) = {}
      BY <3>1, FS_EmptySet
    <3>3. Len(r.children) # 0 => r.children[1] \in Range(r.children)
      <4>1. Len(r.children) # 0 => 1 \in 1..Len(r.children)
        BY <2>1 DEF IsWeighted
      <4>. QED  BY <2>1, <4>1, ChildrenAreNodes DEF IsWeighted
    <3>4. Len(r.children) = 0 => r.children = <<>>
      BY <2>1 DEF IsWeighted
    <3>. QED  BY <3>2, <3>3, <3>4
  <2>. QED  BY <1>1, <2>1, <2>2, <2>3, SeedsAre
<1>5. ASSUME NEW q \in Nodes PROVE problem.inside[q] <= inside[q]
  <2>1. CASE inside[q] = Infinity
    BY <1>1, <2>1, GrammarFacts DEF Costs
  <2>2. CASE inside[q] # Infinity
    <3>1. PICK r \in problem.rules : r.children = <<>> /\ r.result = q /\ inside[q] = r.cost
      BY <1>1, <2>2, SeedsAre
    <3>2. Range(r.children) = {}
      BY <3>1 DEF Range
    <3>3. Inside(r, problem.inside) = r.cost
      BY <1>1, <3>2, GrammarFacts, InsideOfZeros
    <3>. QED  BY <1>1, <3>1, <3>3, GrammarFacts
  <2>. QED  BY <2>1, <2>2
<1>. QED
  BY <1>1, <1>3, <1>4, <1>5 DEF EstimateInv, FinalizedFirst, InsideIsSafe, OutsideIsReached

-----------------------------------------------------------------------------
(* The steps. *)

LEMMA SkipKeepsEstimate ==
  ASSUME EstimateInv, NEW entry \in heap, Skip(entry)
  PROVE  EstimateInv'
<1>1. /\ pass \in {"inside", "outside"} /\ ~IsCurrent(entry, PassScore) /\ heap' = heap \ {entry}
      /\ UNCHANGED <<problem, pass, inside, partial, waiting, outside, finalized>>
  BY DEF Skip
<1>2. PassScore' = PassScore /\ FinalScores' = FinalScores
  BY <1>1 DEF PassScore, FinalScores
<1>3. EstimateTypeOK'
  <2>1. ASSUME NEW q \in Nodes \ finalized, PassScore[q] < Infinity
        PROVE  Entry(PassScore[q], q) \in heap'
    <3>1. Entry(PassScore[q], q) \in heap
      BY <2>1 DEF EstimateInv, EstimateTypeOK
    <3>2. Entry(PassScore[q], q) # entry
      BY <1>1 DEF IsCurrent, Entry
    <3>. QED  BY <1>1, <3>1, <3>2
  <2>. QED  BY <1>1, <1>2, <2>1 DEF EstimateInv, EstimateTypeOK
<1>4. FinalizedFirst'
  BY <1>1, <1>2 DEF EstimateInv, FinalizedFirst
<1>5. PartialsAreSafe'
  BY <1>1, <1>2 DEF EstimateInv, PartialsAreSafe, NoRepeatedChild
<1>6. InsideIsSafe'
  BY <1>1, <1>2 DEF EstimateInv, InsideIsSafe, NoRepeatedChild
<1>7. OutsideIsReached'
  BY <1>1, <1>2 DEF EstimateInv, OutsideIsReached, OutsideChild
<1>. QED  BY <1>1, <1>3, <1>4, <1>5, <1>6, <1>7 DEF EstimateInv

LEMMA FinalizeInsideKeepsEstimate ==
  ASSUME EstimateInv, NEW entry \in heap, FinalizeInside(entry)
  PROVE  EstimateInv' /\ \A p \in finalized : inside'[p] = inside[p]
<1>. DEFINE q == entry.state
            of == {r \in problem.rules : q \in Range(r.children)}
            product(r) == Capped(partial[r] + inside[q])
            complete == {r \in of : waiting[r] = 1}
            candidates == {Entry(product(r), r.result) : r \in complete}
<1>1. /\ pass = "inside" /\ IsNext(entry) /\ IsCurrent(entry, inside)
      /\ finalized' = finalized \cup {q}
      /\ partial' = [r \in problem.rules |-> IF r \in of THEN product(r) ELSE partial[r]]
      /\ waiting' = [r \in problem.rules |-> IF r \in of THEN waiting[r] - 1 ELSE waiting[r]]
      /\ inside' = Improve(inside, candidates, heap \ {entry}).score
      /\ heap' = Improve(inside, candidates, heap \ {entry}).heap
      /\ UNCHANGED <<problem, pass, outside>>
  BY DEF FinalizeInside
<1>2. /\ inside \in [Nodes -> Costs] /\ outside \in [Nodes -> Costs]
      /\ partial \in [problem.rules -> Costs] /\ waiting \in [problem.rules -> Nat]
      /\ heap \in SUBSET Entries /\ finalized \in SUBSET Nodes /\ PassScore = inside
      /\ problem \in Problems
  BY <1>1, EntriesAre DEF EstimateInv, EstimateTypeOK, PassScore
<1>3. /\ q \in Nodes \ finalized /\ entry.cost = inside[q] /\ entry.cost \in Costs /\ inside[q] \in Nat
      /\ \A e \in heap : entry.cost <= e.cost
  BY <1>1, <1>2, EntriesHave DEF IsCurrent, IsNext
<1>4. ASSUME NEW r \in problem.rules
      PROVE  /\ product(r) \in Costs /\ inside[q] <= product(r)
             /\ partial[r] \in Costs /\ IsWeighted(r) /\ r.result \in Nodes
             /\ Range(r.children) \subseteq Nodes /\ IsFiniteSet(Range(r.children))
  <2>1. partial[r] \in Costs /\ partial[r] \in Nat /\ inside[q] \in Costs /\ inside[q] \in Nat
    BY <1>2, <1>3 DEF Costs
  <2>2. partial[r] + inside[q] \in Nat /\ inside[q] <= partial[r] + inside[q]
    BY <2>1
  <2>3. product(r) \in Costs /\ inside[q] <= product(r)
    BY <2>1, <2>2, CappedIsMin
  <2>. QED  BY <1>2, <2>1, <2>3, GrammarFacts
<1>5. candidates \in SUBSET Entries /\ \A c \in candidates : entry.cost <= c.cost
  BY <1>3, <1>4, EntryIs
<1>6. Stepped(inside, candidates, inside', heap', finalized')
  <2>1. /\ \A p \in finalized : \A e \in heap : inside[p] <= e.cost
        /\ \A p \in Nodes \ finalized : inside[p] < Infinity => Entry(inside[p], p) \in heap
    BY <1>2 DEF EstimateInv, EstimateTypeOK, FinalizedFirst
  <2>2. /\ finalized' = finalized \cup {entry.state} /\ entry.cost = inside[entry.state]
        /\ inside' = Improve(inside, candidates, heap \ {entry}).score
        /\ heap' = Improve(inside, candidates, heap \ {entry}).heap
    BY <1>1, <1>3
  <2>3. inside \in [Nodes -> Costs] /\ heap \in SUBSET Entries /\ finalized \in SUBSET Nodes
        /\ entry \in heap /\ \A e \in heap : entry.cost <= e.cost
    BY <1>2, <1>3
  <2>. HIDE DEF candidates
  <2>. QED  BY ONLY <1>5, <2>1, <2>2, <2>3, PassStep
<1>7. /\ inside' \in [Nodes -> Costs] /\ heap' \in SUBSET Entries /\ finalized' \in SUBSET Nodes
      /\ \A p \in Nodes : inside'[p] <= inside[p]
      /\ \A p \in finalized' : inside'[p] = inside[p]
      /\ \A r \in complete : inside'[r.result] <= product(r)
      /\ \A p \in Nodes : \/ inside'[p] = inside[p]
                          \/ \E r \in complete : r.result = p /\ inside'[p] = product(r)
      /\ PassScore' = inside'
  <2>1. \A r \in complete : Entry(product(r), r.result).cost = product(r)
                           /\ Entry(product(r), r.result).state = r.result
                           /\ Entry(product(r), r.result) \in candidates
    BY DEF Entry
  <2>2. \A r \in complete : inside'[r.result] <= product(r)
    BY <1>6, <2>1 DEF Stepped
  <2>3. ASSUME NEW c \in candidates
        PROVE  \E r \in complete : r.result = c.state /\ c.cost = product(r)
    BY <2>1
  <2>4. \A p \in Nodes : \/ inside'[p] = inside[p]
                         \/ \E c \in candidates : c.state = p /\ c.cost = inside'[p]
    BY <1>6 DEF Stepped
  <2>5. \A p \in Nodes : \/ inside'[p] = inside[p]
                         \/ \E r \in complete : r.result = p /\ inside'[p] = product(r)
    BY <2>3, <2>4
  <2>6. PassScore' = inside'
    BY <1>1 DEF PassScore
  <2>. QED  BY <1>6, <2>2, <2>5, <2>6 DEF Stepped
<1>8. EstimateTypeOK'
  <2>1. partial' \in [problem.rules -> Costs]
    BY <1>1, <1>4
  <2>2. ASSUME NEW r \in problem.rules
        PROVE  waiting'[r] \in Nat /\ waiting'[r] = Cardinality(Range(r.children) \ finalized')
    <3>. DEFINE before == Range(r.children) \ finalized
                after == Range(r.children) \ finalized'
    <3>1. waiting[r] = Cardinality(before) /\ IsFiniteSet(before) /\ IsFiniteSet(after)
      BY <1>1, <1>4, FS_Subset DEF EstimateInv, EstimateTypeOK
    <3>2. Cardinality(after) \in Nat /\ waiting[r] \in Nat
      BY <1>2, <3>1, FS_CardinalityType
    <3>3. CASE r \in of
      <4>1. q \in before /\ after = before \ {q}
        BY <1>1, <1>3, <3>3
      <4>2. Cardinality(after) = Cardinality(before) - 1
        <5>. HIDE DEF before, after
        <5>. QED  BY <3>1, <4>1, FS_RemoveElement
      <4>3. waiting'[r] = waiting[r] - 1
        BY <1>1, <3>3
      <4>. QED  BY <3>1, <3>2, <4>2, <4>3
    <3>4. CASE r \notin of
      <4>1. after = before
        BY <1>1, <3>4
      <4>. QED  BY <1>1, <3>1, <3>2, <3>4, <4>1
    <3>. QED  BY <3>3, <3>4
  <2>3. waiting' \in [problem.rules -> Nat]
    BY <1>1, <2>2
  <2>4. \A p \in Nodes \ finalized' : PassScore'[p] < Infinity => Entry(PassScore'[p], p) \in heap'
    BY <1>6, <1>7 DEF Stepped
  <2>. QED  BY <1>1, <1>2, <1>7, <2>1, <2>2, <2>3, <2>4, EntriesAre DEF EstimateTypeOK
<1>9. FinalizedFirst'
  BY <1>6, <1>7 DEF FinalizedFirst, Stepped
<1>10. /\ FinalScores \in [Nodes -> Costs] /\ FinalScores' \in [Nodes -> Costs]
       /\ FinalScores[q] = 0 /\ FinalScores' = [FinalScores EXCEPT ![q] = inside[q]]
       /\ \A p \in finalized' : FinalScores'[p] = inside'[p]
       /\ NoRepeatedChild' <=> NoRepeatedChild
  <2>1. FinalScores \in [Nodes -> Costs] /\ FinalScores[q] = 0
    BY <1>2, <1>3, FinalScoresAre DEF FinalScores
  <2>2. FinalScores' = [p \in Nodes |-> IF p \in finalized' THEN inside'[p] ELSE 0]
    BY DEF FinalScores
  <2>3. FinalScores = [p \in Nodes |-> IF p \in finalized THEN inside[p] ELSE 0]
    BY DEF FinalScores
  <2>4. \A p \in Nodes : (IF p \in finalized' THEN inside'[p] ELSE 0)
                           = IF p = q THEN inside[q] ELSE FinalScores[p]
    BY <1>1, <1>3, <1>7, <2>3
  <2>5. FinalScores' = [FinalScores EXCEPT ![q] = inside[q]]
    BY <2>2, <2>3, <2>4
  <2>6. FinalScores' \in [Nodes -> Costs]
    BY <1>7, <2>2, ZeroIsCost
  <2>7. \A p \in finalized' : FinalScores'[p] = inside'[p]
    BY <1>7, <2>2
  <2>8. NoRepeatedChild' <=> NoRepeatedChild
    BY <1>1 DEF NoRepeatedChild
  <2>. QED  BY ONLY <2>1, <2>5, <2>6, <2>7, <2>8
<1>11. ASSUME NEW r \in problem.rules
       PROVE  /\ partial'[r] <= Inside(r, FinalScores')
              /\ NoRepeatedChild => partial'[r] = Inside(r, FinalScores')
  <2>1. /\ partial[r] <= Inside(r, FinalScores)
        /\ NoRepeatedChild => partial[r] = Inside(r, FinalScores)
    BY <1>1 DEF EstimateInv, PartialsAreSafe
  <2>2. CASE r \in of
    <3>1. partial'[r] = product(r)
      BY <1>1, <2>2
    <3>2. IsWeighted(r) /\ partial[r] \in Costs /\ inside[q] \in Costs /\ q \in Range(r.children)
      BY <1>2, <1>3, <1>4, <2>2
    <3>3. /\ product(r) <= Inside(r, FinalScores')
          /\ IsInjective(r.children) /\ partial[r] = Inside(r, FinalScores) => product(r) = Inside(r, FinalScores')
      <4>. DEFINE part == partial[r]
                  score == FinalScores
                  raised == FinalScores'
      <4>1. /\ product(r) = Capped(part + raised[q])
            /\ score \in [Nodes -> Costs] /\ raised \in [Nodes -> Costs] /\ score[q] = 0
            /\ \A p \in Nodes \ {q} : raised[p] = score[p]
        BY <1>3, <1>10
      <4>2. /\ IsWeighted(r) /\ q \in Range(r.children) /\ part \in Costs
            /\ part <= Inside(r, score)
        BY <2>1, <3>2
      <4>. HIDE DEF q, product, part, score, raised
      <4>3. /\ Capped(part + raised[q]) <= Inside(r, raised)
            /\ IsInjective(r.children) /\ part = Inside(r, score) => Capped(part + raised[q]) = Inside(r, raised)
        BY ONLY <4>1, <4>2, InsideRaised
      <4>. QED  BY <4>1, <4>3 DEF part, score, raised
    <3>4. NoRepeatedChild => IsInjective(r.children)
      BY DEF NoRepeatedChild
    <3>. QED  BY <1>10, <2>1, <3>1, <3>3, <3>4
  <2>3. CASE r \notin of
    <3>1. partial'[r] = partial[r]
      BY <1>1, <2>3
    <3>2. \A p \in Range(r.children) : FinalScores[p] = FinalScores'[p]
      BY <1>4, <1>10, <2>3
    <3>3. Inside(r, FinalScores) = Inside(r, FinalScores')
      <4>. DEFINE score == FinalScores
                  raised == FinalScores'
      <4>1. IsWeighted(r) /\ score \in [Nodes -> Costs] /\ raised \in [Nodes -> Costs]
        BY <1>4, <1>10
      <4>2. \A p \in Range(r.children) : score[p] = raised[p]
        BY <3>2
      <4>. HIDE DEF score, raised
      <4>3. Inside(r, score) = Inside(r, raised)
        BY ONLY <4>1, <4>2, InsideOfChildren
      <4>. QED  BY ONLY <4>3 DEF score, raised
    <3>. QED  BY <2>1, <3>1, <3>3
  <2>. QED  BY <2>2, <2>3
<1>12. ASSUME NEW r \in problem.rules, waiting'[r] = 0
       PROVE  inside'[r.result] <= partial'[r]
  <2>1. CASE r \in of
    <3>1. waiting'[r] = waiting[r] - 1 /\ partial'[r] = product(r) /\ waiting[r] \in Nat
      BY <1>1, <1>2, <2>1
    <3>2. r \in complete
      BY <1>12, <2>1, <3>1
    <3>. QED  BY <1>7, <3>1, <3>2
  <2>2. CASE r \notin of
    <3>1. waiting'[r] = waiting[r] /\ partial'[r] = partial[r]
      BY <1>1, <2>2
    <3>2. inside[r.result] <= partial[r]
      BY <1>1, <1>12, <3>1 DEF EstimateInv, PartialsAreSafe
    <3>3. inside'[r.result] <= inside[r.result]
      BY <1>4, <1>7
    <3>4. inside[r.result] \in Costs /\ inside'[r.result] \in Costs /\ partial[r] \in Costs
      BY <1>2, <1>4, <1>7
    <3>. QED  BY ONLY <3>1, <3>2, <3>3, <3>4 DEF Costs
  <2>. QED  BY <2>1, <2>2
<1>13. PartialsAreSafe'
  BY <1>1, <1>10, <1>11, <1>12 DEF PartialsAreSafe
<1>14. ASSUME NoRepeatedChild, NEW p \in Nodes PROVE problem.inside[p] <= inside'[p]
  <2>1. problem.inside[p] <= inside[p]
    BY <1>14 DEF EstimateInv, InsideIsSafe
  <2>2. ASSUME NEW r \in complete, r.result = p, inside'[p] = product(r)
        PROVE  problem.inside[p] <= inside'[p]
    <3>1. r \in of /\ waiting[r] = 1 /\ r \in problem.rules
      OBVIOUS
    <3>2. product(r) = Inside(r, FinalScores')
      BY <1>1, <1>11, <1>14, <3>1
    <3>3. Range(r.children) \subseteq finalized'
      <4>1. Cardinality(Range(r.children) \ finalized') = 0
        <5>1. waiting'[r] = 1 - 1
          BY <1>1, <3>1
        <5>2. waiting'[r] = Cardinality(Range(r.children) \ finalized')
          BY <1>1, <1>8, <3>1 DEF EstimateTypeOK
        <5>. QED  BY <5>1, <5>2
      <4>2. IsFiniteSet(Range(r.children) \ finalized')
        BY <1>4, <3>1, FS_Subset
      <4>3. Range(r.children) \ finalized' = {}
        BY <4>1, <4>2, FS_EmptySet
      <4>. QED  BY <4>3
    <3>4. \A c \in Range(r.children) : problem.inside[c] <= FinalScores'[c]
      <4>. SUFFICES ASSUME NEW c \in Range(r.children) PROVE problem.inside[c] <= FinalScores'[c]
        OBVIOUS
      <4>1. c \in finalized' /\ c \in Nodes
        BY <1>7, <3>3
      <4>2. FinalScores'[c] = inside[c]
        BY <1>7, <1>10, <4>1
      <4>. QED  BY <1>14, <4>1, <4>2 DEF EstimateInv, InsideIsSafe
    <3>5. Inside(r, problem.inside) <= Inside(r, FinalScores')
      BY <1>2, <1>4, <1>10, <3>1, <3>4, GrammarFacts, InsideMonotone
    <3>6. problem.inside[p] <= Inside(r, problem.inside)
      BY <1>2, <2>2, <3>1, GrammarFacts
    <3>7. problem.inside[p] \in Costs /\ Inside(r, problem.inside) \in Costs /\ Inside(r, FinalScores') \in Costs
      BY <1>2, <1>4, <1>10, <3>1, GrammarFacts, InsideIsCost
    <3>. QED  BY ONLY <2>2, <3>2, <3>5, <3>6, <3>7 DEF Costs
  <2>. QED  BY <1>7, <2>1, <2>2
<1>15. InsideIsSafe'
  BY <1>1, <1>10, <1>14 DEF InsideIsSafe
<1>16. OutsideIsReached'
  BY <1>1 DEF OutsideIsReached
<1>17. \A p \in finalized : inside'[p] = inside[p]
  BY <1>1, <1>7
<1>. QED  BY <1>1, <1>2, <1>8, <1>9, <1>13, <1>15, <1>16, <1>17 DEF EstimateInv

(* With an empty heap, the states that are not final are impossible.        *)
LEMMA StartOutsideKeepsEstimate ==
  ASSUME EstimateInv, StartOutside
  PROVE  EstimateInv'
<1>1. /\ pass = "inside" /\ heap = {} /\ pass' = "outside"
      /\ outside' = [q \in Nodes |-> IF q \in problem.goals THEN 0 ELSE Infinity]
      /\ heap' = {Entry(0, q) : q \in problem.goals} /\ finalized' = {}
      /\ UNCHANGED <<problem, inside, partial, waiting>>
  BY DEF StartOutside
<1>2. /\ inside \in [Nodes -> Costs] /\ finalized \in SUBSET Nodes /\ FinalScores \in [Nodes -> Costs]
      /\ partial \in [problem.rules -> Costs] /\ problem \in Problems
      /\ \A q \in Nodes \ finalized : inside[q] = Infinity
  <2>1. /\ inside \in [Nodes -> Costs] /\ finalized \in SUBSET Nodes /\ problem \in Problems
        /\ partial \in [problem.rules -> Costs]
        /\ \A q \in Nodes \ finalized : ~(inside[q] < Infinity)
    BY <1>1 DEF EstimateInv, EstimateTypeOK, PassScore
  <2>. QED  BY <2>1, FinalScoresAre, ZeroIsCost
<1>3. ASSUME NEW r \in problem.rules PROVE inside[r.result] <= Inside(r, inside)
  <2>1. /\ IsWeighted(r) /\ r.result \in Nodes /\ Range(r.children) \subseteq Nodes
        /\ inside[r.result] \in Costs /\ Inside(r, inside) \in Costs
    BY <1>2, GrammarFacts, InsideIsCost
  <2>2. CASE Range(r.children) \subseteq finalized
    <3>1. waiting[r] = Cardinality(Range(r.children) \ finalized)
      BY <1>1 DEF EstimateInv, EstimateTypeOK
    <3>2. Range(r.children) \ finalized = {}
      BY <2>2
    <3>3. waiting[r] = 0
      BY <3>1, <3>2, FS_EmptySet
    <3>4. inside[r.result] <= partial[r] /\ partial[r] <= Inside(r, FinalScores)
      BY <1>1, <3>3 DEF EstimateInv, PartialsAreSafe
    <3>5. \A c \in Range(r.children) : FinalScores[c] = inside[c]
      BY <2>1, <2>2 DEF FinalScores
    <3>6. Inside(r, FinalScores) = Inside(r, inside)
      BY <1>2, <2>1, <3>5, InsideOfChildren
    <3>7. partial[r] \in Costs
      BY <1>2
    <3>. QED  BY ONLY <2>1, <3>4, <3>6, <3>7 DEF Costs
  <2>3. CASE ~(Range(r.children) \subseteq finalized)
    <3>1. PICK c \in Range(r.children) : c \notin finalized
      BY <2>3
    <3>2. inside[c] = Infinity /\ inside[c] <= Inside(r, inside)
      BY <1>2, <2>1, <3>1, InsideAboveChildren
    <3>. QED  BY <2>1, <3>2, InfinityIsPositive DEF Costs
  <2>. QED  BY <2>2, <2>3
<1>4. /\ outside' \in [Nodes -> Costs] /\ heap' \in SUBSET Entries /\ PassScore' = outside'
      /\ problem.goals \in SUBSET Nodes
  BY <1>1, <1>2, GrammarFacts, ZeroIsCost, EntryIs DEF PassScore
<1>5. EstimateTypeOK'
  <2>1. \A q \in Nodes : outside'[q] < Infinity => q \in problem.goals /\ outside'[q] = 0
    BY <1>1, InfinityIsPositive
  <2>2. \A q \in Nodes \ finalized' : PassScore'[q] < Infinity => Entry(PassScore'[q], q) \in heap'
    BY <1>1, <1>4, <2>1
  <2>. QED  BY <1>1, <1>4, <2>2, EntriesAre DEF EstimateInv, EstimateTypeOK
<1>6. InsideIsSafe'
  BY <1>1, <1>3 DEF EstimateInv, InsideIsSafe, NoRepeatedChild
<1>7. OutsideIsReached'
  <2>1. \A q \in problem.goals : outside'[q] = 0
    BY <1>1, <1>4
  <2>2. {q \in Nodes : outside'[q] < Infinity} \subseteq problem.goals
    BY <1>1, InfinityIsPositive
  <2>. QED  BY <1>1, <2>1, <2>2 DEF OutsideIsReached
<1>. QED  BY <1>1, <1>5, <1>6, <1>7 DEF EstimateInv, FinalizedFirst, PartialsAreSafe

LEMMA PlacesOf ==
  ASSUME NEW rules, NEW q
  PROVE  ChildPlaces({r \in rules : r.result = q}) = {x \in ChildPlaces(rules) : x[1].result = q}
BY DEF ChildPlaces

LEMMA FinalizeOutsideKeepsEstimate ==
  ASSUME EstimateInv, NEW entry \in heap, FinalizeOutside(entry)
  PROVE  EstimateInv' /\ \A p \in finalized : outside'[p] = outside[p]
<1>. DEFINE q == entry.state
            Places == ChildPlaces(problem.rules)
            child(x) == x[1].children[x[2]]
            places == ChildPlaces({r \in problem.rules : r.result = q})
            all == {Entry(Capped(entry.cost + Context(x[1], x[2], inside)), child(x)) : x \in places}
            candidates == {c \in all : c.state \notin finalized \cup {q}}
<1>1. /\ pass = "outside" /\ IsNext(entry) /\ IsCurrent(entry, outside)
      /\ finalized' = finalized \cup {q}
      /\ outside' = Improve(outside, candidates, heap \ {entry}).score
      /\ heap' = Improve(outside, candidates, heap \ {entry}).heap
      /\ UNCHANGED <<problem, pass, inside, partial, waiting>>
  BY DEF FinalizeOutside
<1>2. /\ inside \in [Nodes -> Costs] /\ outside \in [Nodes -> Costs]
      /\ heap \in SUBSET Entries /\ finalized \in SUBSET Nodes /\ PassScore = outside
      /\ problem \in Problems
  BY <1>1, EntriesAre DEF EstimateInv, EstimateTypeOK, PassScore
<1>3. /\ q \in Nodes \ finalized /\ entry.cost = outside[q] /\ entry.cost \in Costs /\ outside[q] \in Nat
      /\ \A e \in heap : entry.cost <= e.cost
  BY <1>1, <1>2, EntriesHave DEF IsCurrent, IsNext
<1>0. places = {x \in Places : x[1].result = q}
  BY PlacesOf
<1>4. ASSUME NEW x \in Places
      PROVE  /\ child(x) \in Nodes /\ x[1].result \in Nodes
             /\ PlaceCost(x, inside, outside) \in Costs
             /\ outside[x[1].result] <= PlaceCost(x, inside, outside)
             /\ x[1].result = q => Capped(entry.cost + Context(x[1], x[2], inside)) = PlaceCost(x, inside, outside)
             /\ x \in places <=> x[1].result = q
  <2>1. \A r \in problem.rules : IsWeighted(r)
    BY <1>2, GrammarFacts
  <2>2. /\ child(x) \in Nodes /\ x[1].result \in Nodes
        /\ IsWeighted(x[1]) /\ x[2] \in 1..Len(x[1].children)
    BY <2>1, ChildPlaceIs
  <2>3. /\ PlaceCost(x, inside, outside) \in Costs
        /\ outside[x[1].result] <= PlaceCost(x, inside, outside)
    BY <1>2, <2>1, PlaceCostIs
  <2>4. Context(x[1], x[2], inside) \in Nat /\ entry.cost \in Nat
    BY <1>2, <1>3, <2>2, ContextIsCost DEF Costs
  <2>5. entry.cost + Context(x[1], x[2], inside) = Context(x[1], x[2], inside) + entry.cost
    BY <2>4
  <2>6. x[1].result = q => Capped(entry.cost + Context(x[1], x[2], inside)) = PlaceCost(x, inside, outside)
    BY <1>3, <2>5 DEF PlaceCost
  <2>7. x \in places <=> x[1].result = q
    BY <1>0
  <2>. HIDE DEF places, q, child
  <2>. QED  BY <2>2, <2>3, <2>6, <2>7
<1>5. ASSUME NEW c \in all
      PROVE  \E x \in Places : /\ x[1].result = q /\ child(x) = c.state
                               /\ c = Entry(PlaceCost(x, inside, outside), child(x))
                               /\ c.cost = PlaceCost(x, inside, outside)
  <2>1. PICK x \in places : c = Entry(Capped(entry.cost + Context(x[1], x[2], inside)), child(x))
    OBVIOUS
  <2>2. x \in Places /\ x[1].result = q
    <3>. HIDE DEF places, q
    <3>. QED  BY <1>0
  <2>. QED  BY <1>4, <2>1, <2>2, EntryIs
<1>6. candidates \in SUBSET Entries /\ \A c \in candidates : entry.cost <= c.cost
  <2>. SUFFICES ASSUME NEW c \in candidates PROVE c \in Entries /\ entry.cost <= c.cost
    OBVIOUS
  <2>1. PICK x \in Places : /\ x[1].result = q
                            /\ c = Entry(PlaceCost(x, inside, outside), child(x))
                            /\ c.cost = PlaceCost(x, inside, outside)
    BY <1>5
  <2>2. /\ PlaceCost(x, inside, outside) \in Costs /\ child(x) \in Nodes
        /\ entry.cost <= PlaceCost(x, inside, outside)
    <3>. HIDE DEF q, child
    <3>. QED  BY <1>3, <1>4, <2>1
  <2>. QED  BY <2>1, <2>2, EntryIs
<1>7. Stepped(outside, candidates, outside', heap', finalized')
  <2>1. /\ \A p \in finalized : \A e \in heap : outside[p] <= e.cost
        /\ \A p \in Nodes \ finalized : outside[p] < Infinity => Entry(outside[p], p) \in heap
    BY <1>2 DEF EstimateInv, EstimateTypeOK, FinalizedFirst
  <2>2. /\ finalized' = finalized \cup {entry.state} /\ entry.cost = outside[entry.state]
        /\ outside' = Improve(outside, candidates, heap \ {entry}).score
        /\ heap' = Improve(outside, candidates, heap \ {entry}).heap
    BY <1>1, <1>3
  <2>3. outside \in [Nodes -> Costs] /\ heap \in SUBSET Entries /\ finalized \in SUBSET Nodes
        /\ entry \in heap /\ \A e \in heap : entry.cost <= e.cost
    BY <1>2, <1>3
  <2>. HIDE DEF candidates
  <2>. QED  BY ONLY <1>6, <2>1, <2>2, <2>3, PassStep
<1>8. /\ outside' \in [Nodes -> Costs] /\ heap' \in SUBSET Entries /\ finalized' \in SUBSET Nodes
      /\ \A p \in Nodes : outside'[p] <= outside[p]
      /\ \A p \in finalized' : outside'[p] = outside[p]
      /\ \A x \in Places : x[1].result = q /\ child(x) \notin finalized'
                          => outside'[child(x)] <= PlaceCost(x, inside, outside)
      /\ \A p \in Nodes : \/ outside'[p] = outside[p]
                          \/ \E x \in Places : /\ x[1].result = q /\ child(x) = p
                                               /\ outside'[p] = PlaceCost(x, inside, outside)
      /\ PassScore' = outside'
  <2>1. ASSUME NEW x \in Places, x[1].result = q, child(x) \notin finalized'
        PROVE  outside'[child(x)] <= PlaceCost(x, inside, outside)
    <3>. DEFINE c == Entry(PlaceCost(x, inside, outside), child(x))
    <3>1. c.state = child(x) /\ c.cost = PlaceCost(x, inside, outside)
      BY DEF Entry
    <3>2. c \in all
      BY <1>4, <2>1
    <3>3. c \in candidates
      BY <1>1, <2>1, <3>1, <3>2
    <3>. QED  BY <1>7, <3>1, <3>3 DEF Stepped
  <2>2. \A p \in Nodes : \/ outside'[p] = outside[p]
                         \/ \E c \in candidates : c.state = p /\ c.cost = outside'[p]
    BY <1>7 DEF Stepped
  <2>3. \A c \in candidates : c \in all
    OBVIOUS
  <2>4. \A p \in Nodes : \/ outside'[p] = outside[p]
                         \/ \E x \in Places : /\ x[1].result = q /\ child(x) = p
                                              /\ outside'[p] = PlaceCost(x, inside, outside)
    <3>. SUFFICES ASSUME NEW p \in Nodes, outside'[p] # outside[p]
                  PROVE  \E x \in Places : /\ x[1].result = q /\ child(x) = p
                                           /\ outside'[p] = PlaceCost(x, inside, outside)
      OBVIOUS
    <3>1. PICK c \in candidates : c.state = p /\ c.cost = outside'[p]
      BY <2>2
    <3>2. c \in all
      BY <2>3
    <3>3. PICK x \in Places : /\ x[1].result = q
                             /\ c = Entry(PlaceCost(x, inside, outside), child(x))
                             /\ c.cost = PlaceCost(x, inside, outside)
      BY <1>5, <3>2
    <3>4. c.state = child(x)
      BY <3>3 DEF Entry
    <3>. WITNESS x \in Places
    <3>. QED  BY <3>1, <3>3, <3>4
  <2>5. PassScore' = outside'
    BY <1>1 DEF PassScore
  <2>. QED  BY <1>7, <2>1, <2>4, <2>5 DEF Stepped
<1>9. EstimateTypeOK'
  <2>1. \A p \in Nodes \ finalized' : PassScore'[p] < Infinity => Entry(PassScore'[p], p) \in heap'
    BY <1>7, <1>8 DEF Stepped
  <2>. QED  BY <1>1, <1>8, <2>1, EntriesAre DEF EstimateInv, EstimateTypeOK
<1>10. FinalizedFirst'
  BY <1>7, <1>8 DEF FinalizedFirst, Stepped
<1>11. /\ \A g \in problem.goals : outside[g] = 0
       /\ \A x \in Places : x[1].result \in finalized => outside[child(x)] <= PlaceCost(x, inside, outside)
  BY <1>1 DEF EstimateInv, OutsideIsReached, OutsideChild
<1>12. \A g \in problem.goals : outside'[g] = 0
  BY <1>2, <1>8, <1>11, GrammarFacts DEF Costs
<1>13. ASSUME NEW x \in Places, x[1].result \in finalized'
       PROVE  PlaceCost(x, inside, outside') = PlaceCost(x, inside, outside)
  <2>1. outside'[x[1].result] = outside[x[1].result]
    BY <1>8, <1>13
  <2>. QED  BY <2>1 DEF PlaceCost
<1>14. ASSUME NEW x \in Places, x[1].result \in finalized'
       PROVE  outside'[child(x)] <= PlaceCost(x, inside, outside')
  <2>. DEFINE cost == PlaceCost(x, inside, outside)
              c == child(x)
  <2>1. /\ cost \in Nat /\ c \in Nodes /\ outside[c] \in Nat /\ outside'[c] \in Nat
        /\ outside'[c] <= outside[c] /\ outside[x[1].result] <= cost
    <3>1. /\ cost \in Costs /\ c \in Nodes /\ outside[x[1].result] <= cost
          /\ outside \in [Nodes -> Costs] /\ outside' \in [Nodes -> Costs]
      BY <1>2, <1>4, <1>8
    <3>2. outside'[c] <= outside[c]
      BY <1>8, <3>1
    <3>. HIDE DEF cost, c
    <3>. QED  BY ONLY <3>1, <3>2 DEF Costs
  <2>2. CASE x[1].result \in finalized
    <3>1. outside[c] <= cost
      BY <1>11, <2>2
    <3>. QED  BY <1>13, <1>14, <2>1, <3>1
  <2>3. CASE x[1].result = q
    <3>1. CASE c \in finalized'
      <4>1. outside[c] <= outside[q]
        BY <1>1, <1>2, <1>3, <3>1, <2>1 DEF EstimateInv, FinalizedFirst
      <4>. QED  BY <1>3, <1>13, <1>14, <2>1, <2>3, <4>1
    <3>2. CASE c \notin finalized'
      BY <1>8, <1>13, <1>14, <2>3, <3>2
    <3>. QED  BY <3>1, <3>2
  <2>. QED  BY <1>1, <1>14, <2>2, <2>3
<1>15. ASSUME NEW S \in SUBSET Nodes, problem.goals \subseteq S,
              \A x \in Places :
                 x[1].result \in S \cap finalized' /\ outside'[child(x)] = PlaceCost(x, inside, outside')
                 => child(x) \in S,
              NEW p \in Nodes, outside'[p] < Infinity
       PROVE  p \in S
  <2>. DEFINE U == S \cup {s \in Nodes : outside'[s] # outside[s]}
  <2>1. ASSUME NEW x \in Places, x[1].result \in U \cap finalized,
               outside[child(x)] = PlaceCost(x, inside, outside)
        PROVE  child(x) \in U
    <3>1. x[1].result \in finalized' /\ x[1].result \in S
      BY <1>1, <1>8, <2>1
    <3>2. outside[child(x)] = PlaceCost(x, inside, outside')
      BY <1>13, <2>1, <3>1
    <3>. QED  BY <1>4, <1>15, <3>1, <3>2
  <2>2. {s \in Nodes : outside[s] < Infinity} \subseteq U
    <3>1. U \in SUBSET Nodes /\ problem.goals \subseteq U
      BY <1>15
    <3>. HIDE DEF U
    <3>. QED  BY <1>1, <2>1, <3>1 DEF EstimateInv, OutsideIsReached, OutsideChild
  <2>3. CASE outside'[p] = outside[p]
    BY <1>15, <2>2, <2>3
  <2>4. CASE outside'[p] # outside[p]
    <3>1. PICK x \in Places : x[1].result = q /\ child(x) = p /\ outside'[p] = PlaceCost(x, inside, outside)
      BY <1>8, <2>4
    <3>2. outside[q] <= PlaceCost(x, inside, outside) /\ q \in finalized' /\ outside'[q] = outside[q]
      BY <1>1, <1>4, <1>8, <3>1
    <3>3. outside[q] < Infinity
      <4>1. outside'[p] < Infinity /\ outside[q] <= outside'[p] /\ outside[q] \in Nat /\ outside'[p] \in Nat
        BY <1>3, <1>8, <1>15, <3>1, <3>2 DEF Costs
      <4>. QED  BY ONLY <4>1, InfinityIsPositive
    <3>4. q \in S
      BY <1>3, <2>2, <3>2, <3>3
    <3>5. outside'[child(x)] = PlaceCost(x, inside, outside')
      BY <1>13, <3>1, <3>2
    <3>. QED  BY <1>15, <3>1, <3>2, <3>4, <3>5
  <2>. QED  BY <2>3, <2>4
<1>16. OutsideIsReached'
  BY <1>1, <1>12, <1>14, <1>15 DEF OutsideIsReached, OutsideChild
<1>17. PartialsAreSafe' /\ InsideIsSafe'
  BY <1>1 DEF EstimateInv, PartialsAreSafe, InsideIsSafe, NoRepeatedChild
<1>18. \A p \in finalized : outside'[p] = outside[p]
  BY <1>1, <1>8
<1>. QED  BY <1>1, <1>2, <1>9, <1>10, <1>16, <1>17, <1>18 DEF EstimateInv

LEMMA FinishOutsideKeepsEstimate ==
  ASSUME EstimateInv, FinishOutside
  PROVE  EstimateInv'
<1>1. /\ pass = "outside" /\ heap = {} /\ pass' = "done"
      /\ UNCHANGED <<problem, inside, partial, waiting, outside, heap, finalized>>
  BY DEF FinishOutside
<1>2. PassScore' = PassScore
  BY <1>1 DEF PassScore
<1>3. EstimateTypeOK' /\ FinalizedFirst'
  BY <1>1, <1>2 DEF EstimateInv, EstimateTypeOK, FinalizedFirst
<1>4. PartialsAreSafe' /\ InsideIsSafe' /\ OutsideIsReached'
  BY <1>1 DEF EstimateInv, PartialsAreSafe, InsideIsSafe, NoRepeatedChild, OutsideIsReached, OutsideChild
<1>. QED  BY <1>1, <1>3, <1>4 DEF EstimateInv

LEMMA StepEstimate ==
  ASSUME EstimateInv, [EstimateNext]_<<problem, estimate_vars>>
  PROVE  EstimateInv'
<1>1. CASE EstimateNext
  BY <1>1, SkipKeepsEstimate, FinalizeInsideKeepsEstimate, FinalizeOutsideKeepsEstimate,
     StartOutsideKeepsEstimate, FinishOutsideKeepsEstimate DEF EstimateNext
<1>2. CASE UNCHANGED <<problem, estimate_vars>>
  <2>1. UNCHANGED <<problem, pass, inside, partial, waiting, outside, heap, finalized>>
    BY <1>2 DEF estimate_vars
  <2>2. PassScore' = PassScore /\ FinalScores' = FinalScores
    BY <2>1 DEF PassScore, FinalScores
  <2>3. EstimateTypeOK' /\ FinalizedFirst'
    BY <2>1, <2>2 DEF EstimateInv, EstimateTypeOK, FinalizedFirst
  <2>4. PartialsAreSafe' /\ InsideIsSafe' /\ OutsideIsReached'
    BY <2>1, <2>2 DEF EstimateInv, PartialsAreSafe, InsideIsSafe, NoRepeatedChild, OutsideIsReached, OutsideChild
  <2>. QED  BY <2>1, <2>3, <2>4 DEF EstimateInv
<1>. QED  BY <1>1, <1>2
FinalizedStay ==
    \A q \in finalized : /\ pass = "inside" => inside'[q] = inside[q]
                         /\ pass = "outside" => outside'[q] = outside[q]

LEMMA StepFinalizedOnce ==
  ASSUME EstimateInv, [EstimateNext]_<<problem, estimate_vars>>
  PROVE  FinalizedStay
<1>1. CASE UNCHANGED <<problem, estimate_vars>>
  BY <1>1 DEF estimate_vars, FinalizedStay
<1>2. ASSUME NEW entry \in heap, Skip(entry)
      PROVE  inside' = inside /\ outside' = outside
  BY <1>2 DEF Skip
<1>3. ASSUME NEW entry \in heap, FinalizeInside(entry)
      PROVE  pass = "inside" /\ \A q \in finalized : inside'[q] = inside[q]
  <2>1. pass = "inside"
    BY <1>3 DEF FinalizeInside
  <2>. QED  BY <1>3, <2>1, FinalizeInsideKeepsEstimate
<1>4. ASSUME NEW entry \in heap, FinalizeOutside(entry)
      PROVE  pass = "outside" /\ \A q \in finalized : outside'[q] = outside[q]
  <2>1. pass = "outside"
    BY <1>4 DEF FinalizeOutside
  <2>. QED  BY <1>4, <2>1, FinalizeOutsideKeepsEstimate
<1>5. CASE StartOutside
  BY <1>5 DEF StartOutside, FinalizedStay
<1>6. CASE FinishOutside
  BY <1>6 DEF FinishOutside, FinalizedStay
<1>. QED  BY <1>1, <1>2, <1>3, <1>4, <1>5, <1>6 DEF EstimateNext, FinalizedStay

-----------------------------------------------------------------------------
(* What the invariant says at the end. *)

LEMMA PlaceCostInner ==
  ASSUME NEW rules, \A r \in rules : IsWeighted(r), NEW x \in ChildPlaces(rules),
         NEW inner \in [Nodes -> Costs], NEW worse \in [Nodes -> Costs],
         \A q \in Nodes : inner[q] <= worse[q],
         NEW score \in [Nodes -> Costs]
  PROVE  PlaceCost(x, inner, score) <= PlaceCost(x, worse, score)
<1>. DEFINE a == Context(x[1], x[2], inner)
            b == Context(x[1], x[2], worse)
            c == score[x[1].result]
<1>1. a \in Nat /\ b \in Nat /\ c \in Nat /\ a <= b
  <2>1. IsWeighted(x[1]) /\ x[1].result \in Nodes /\ x[2] \in 1..Len(x[1].children)
    BY ChildPlaceIs
  <2>2. a \in Costs /\ b \in Costs /\ c \in Costs
    BY <2>1, ContextIsCost
  <2>3. a <= b
    BY <2>1, ContextMonotone
  <2>. HIDE DEF a, b, c
  <2>. QED  BY <2>2, <2>3 DEF Costs
<1>. HIDE DEF a, b, c
<1>2. a + c \in Nat /\ b + c \in Nat /\ a + c <= b + c
  BY <1>1
<1>3. Capped(a + c) <= Capped(b + c)
  BY <1>2, CappedIsMin
<1>. QED  BY <1>3 DEF PlaceCost, a, b, c

LEMMA DoneIs ==
  ASSUME EstimateInv, pass = "done"
  PROVE  /\ inside \in [Nodes -> Costs] /\ outside \in [Nodes -> Costs]
         /\ \A q \in Nodes : inside[q] <= problem.inside[q]
         /\ \A q \in problem.goals : outside[q] = 0
         /\ \A x \in ChildPlaces(problem.rules) : OutsideChild(x) <= PlaceCost(x, inside, outside)
         /\ \A x \in ChildPlaces(problem.rules) : OutsideChild(x) <= PlaceCost(x, problem.inside, outside)
<1>1. /\ problem \in Problems /\ heap = {} /\ finalized \in SUBSET Nodes
      /\ inside \in [Nodes -> Costs] /\ outside \in [Nodes -> Costs]
      /\ \A q \in Nodes \ finalized : ~(outside[q] < Infinity)
      /\ \A r \in problem.rules : inside[r.result] <= Inside(r, inside)
      /\ \A q \in problem.goals : outside[q] = 0
      /\ \A x \in ChildPlaces(problem.rules) :
            x[1].result \in finalized => OutsideChild(x) <= PlaceCost(x, inside, outside)
  BY DEF EstimateInv, EstimateTypeOK, PassScore, InsideIsSafe, OutsideIsReached
<1>2. (\A r \in problem.rules : IsWeighted(r)) /\ problem.inside \in [Nodes -> Costs]
  BY <1>1, GrammarFacts
<1>3. ASSUME NEW q \in Nodes PROVE inside[q] <= problem.inside[q]
  <2>1. Cardinality(Nodes) \in 0..Cardinality(Nodes)
    BY NodesAreFinite, FS_CardinalityType
  <2>2. inside[q] <= Round(problem.rules, Cardinality(Nodes))[q]
    BY <1>1, <1>2, <2>1, RoundsAbove
  <2>3. Round(problem.rules, Cardinality(Nodes)) = InsideOf[problem]
    BY <1>1 DEF Round, BestInside, InsideOf
  <2>. QED  BY <1>1, <2>2, <2>3, GrammarFacts
<1>4. ASSUME NEW x \in ChildPlaces(problem.rules)
      PROVE  /\ OutsideChild(x) \in Costs /\ PlaceCost(x, inside, outside) \in Costs
             /\ OutsideChild(x) <= PlaceCost(x, inside, outside)
  <2>1. /\ x[1].result \in Nodes /\ OutsideChild(x) \in Costs
        /\ PlaceCost(x, inside, outside) \in Costs
        /\ outside[x[1].result] <= PlaceCost(x, inside, outside)
    BY <1>1, <1>2, ChildPlaceIs, PlaceCostIs DEF OutsideChild
  <2>2. CASE x[1].result \notin finalized
    <3>1. outside[x[1].result] = Infinity
      BY <1>1, <2>1, <2>2, ZeroIsCost
    <3>. QED  BY <2>1, <3>1, InfinityIsPositive DEF Costs
  <2>. QED  BY <1>1, <2>1, <2>2
<1>5. ASSUME NEW x \in ChildPlaces(problem.rules)
      PROVE  OutsideChild(x) <= PlaceCost(x, problem.inside, outside)
  <2>1. PlaceCost(x, inside, outside) <= PlaceCost(x, problem.inside, outside)
    BY <1>1, <1>2, <1>3, PlaceCostInner
  <2>2. PlaceCost(x, problem.inside, outside) \in Costs
    BY <1>1, <1>2, PlaceCostIs
  <2>. QED  BY <1>4, <2>1, <2>2 DEF Costs
<1>. QED  BY <1>1, <1>3, <1>4, <1>5

LEMMA EstimatesFromInv ==
  ASSUME EstimateInv
  PROVE  EstimatesAreSafe
<1>. SUFFICES ASSUME pass = "done"
              PROVE  /\ \A q \in Nodes : outside[q] <= OutsideOf[problem][q]
                     /\ BoundsOutside(problem.rules, problem.goals, problem.inside, outside)
  BY GrammarFacts DEF EstimatesAreSafe, EstimateInv
<1>. DEFINE rules == problem.rules
            goals == problem.goals
            inner == problem.inside
<1>1. /\ problem \in Problems /\ (\A r \in rules : IsWeighted(r) /\ r.result \in Nodes)
      /\ inner \in [Nodes -> Costs] /\ goals \in SUBSET Nodes
      /\ OutsideOf[problem] = BestOutside(rules, goals, inner)
      /\ outside \in [Nodes -> Costs]
      /\ \A q \in goals : outside[q] = 0
      /\ \A x \in ChildPlaces(rules) : outside[x[1].children[x[2]]] <= PlaceCost(x, inner, outside)
  BY GrammarFacts, DoneIs DEF EstimateInv, OutsideChild
<1>. HIDE DEF rules, goals, inner
<1>2. ASSUME NEW q \in Nodes PROVE outside[q] <= OutsideOf[problem][q]
  <2>1. Cardinality(Nodes) \in 0..Cardinality(Nodes)
    BY NodesAreFinite, FS_CardinalityType
  <2>2. \A n \in 0..Cardinality(Nodes) : \A p \in Nodes : outside[p] <= OutsideRound(rules, goals, inner, n)[p]
    BY <1>1, OutsideRoundsAbove
  <2>3. BestOutside(rules, goals, inner) = OutsideRound(rules, goals, inner, Cardinality(Nodes))
    BY DEF BestOutside, OutsideRound
  <2>. QED  BY <1>1, <2>1, <2>2, <2>3
<1>3. ASSUME NEW r \in rules, Inside(r, inner) < Infinity, NEW q \in Range(r.children)
      PROVE  outside[q] + inner[q] <= Inside(r, inner) + outside[r.result]
  <2>1. PICK j \in 1..Len(r.children) : r.children[j] = q
    BY <1>1, ChildIsSomewhere
  <2>. DEFINE x == <<r, j>>
              context == Context(r, j, inner)
              total == Inside(r, inner)
              outer == outside[r.result]
              last == inner[q]
  <2>2. x \in ChildPlaces(rules) /\ x[1] = r /\ x[2] = j
    BY <1>1, <2>1, ChildrenAreNodes DEF ChildPlaces, IsWeighted
  <2>3. q \in Nodes
    BY <1>1, ChildrenAreNodes DEF IsWeighted
  <2>4. outside[q] <= PlaceCost(x, inner, outside)
    BY <1>1, <2>1, <2>2
  <2>5. PlaceCost(x, inner, outside) = Capped(context + outer)
    BY <2>2 DEF PlaceCost
  <2>6. /\ context \in Costs /\ context \in Nat /\ outer \in Nat /\ last \in Nat
        /\ outside[q] \in Nat /\ total \in Nat
    BY <1>1, <2>1, <2>3, ContextIsCost, InsideIsCost DEF Costs
  <2>7. context + last = total
    BY <1>1, <1>3, <2>1, ContextIs
  <2>. HIDE DEF x, context, total, outer, last
  <2>8. outside[q] <= context + outer
    <3>1. context + outer \in Nat
      BY <2>6
    <3>2. Capped(context + outer) \in Costs /\ Capped(context + outer) <= context + outer
      BY <3>1, CappedIsMin
    <3>. QED  BY <2>4, <2>5, <2>6, <3>1, <3>2 DEF Costs
  <2>9. outside[q] + last <= total + outer
    BY ONLY <2>6, <2>7, <2>8
  <2>. QED  BY <2>9 DEF last, total, outer
<1>. QED  BY <1>1, <1>2, <1>3 DEF BoundsOutside, rules, goals, inner

LEMMA OptimalFromInv ==
  ASSUME EstimateInv
  PROVE  ScoresAreOptimal
<1>. SUFFICES ASSUME pass = "done", NoRepeatedChild
              PROVE  inside = problem.inside /\ outside = BestOutside(problem.rules, problem.goals, problem.inside)
  BY GrammarFacts DEF ScoresAreOptimal, EstimateInv
<1>1. /\ problem \in Problems /\ problem.inside \in [Nodes -> Costs] /\ problem.goals \in SUBSET Nodes
      /\ \A r \in problem.rules : IsWeighted(r)
      /\ inside \in [Nodes -> Costs] /\ outside \in [Nodes -> Costs]
      /\ \A q \in Nodes : inside[q] <= problem.inside[q]
      /\ \A q \in problem.goals : outside[q] = 0
      /\ \A x \in ChildPlaces(problem.rules) : outside[x[1].children[x[2]]] <= PlaceCost(x, inside, outside)
  BY GrammarFacts, DoneIs DEF EstimateInv, OutsideChild
<1>2. inside = problem.inside
  <2>1. \A q \in Nodes : problem.inside[q] <= inside[q]
    BY DEF EstimateInv, InsideIsSafe
  <2>2. \A q \in Nodes : inside[q] = problem.inside[q]
    BY <1>1, <2>1 DEF Costs
  <2>. QED  BY <1>1, <2>2
<1>3. ASSUME NEW S \in SUBSET Nodes, problem.goals \subseteq S,
             \A x \in ChildPlaces(problem.rules) :
                x[1].result \in S /\ outside[x[1].children[x[2]]] = PlaceCost(x, inside, outside)
                => x[1].children[x[2]] \in S
      PROVE  {q \in Nodes : outside[q] < Infinity} \subseteq S
  BY <1>3 DEF EstimateInv, OutsideIsReached, OutsideChild
<1>4. BestOutside(problem.rules, problem.goals, inside) = outside
  <2>. DEFINE rules == problem.rules
              goals == problem.goals
  <2>. HIDE DEF rules, goals
  <2>2. /\ \A r \in rules : IsWeighted(r)
        /\ goals \in SUBSET Nodes
        /\ inside \in [Nodes -> Costs] /\ outside \in [Nodes -> Costs]
        /\ \A q \in goals : outside[q] = 0
        /\ \A x \in ChildPlaces(rules) : outside[x[1].children[x[2]]] <= PlaceCost(x, inside, outside)
    BY <1>1 DEF rules, goals
  <2>3. OutsideAttained(rules, goals, inside, outside)
    BY <1>3 DEF rules, goals, OutsideAttained
  <2>1. BestOutside(rules, goals, inside) = outside
    BY ONLY <2>2, <2>3, OutsideIsBest
  <2>. QED  BY <2>1 DEF rules, goals
<1>. QED  BY <1>2, <1>4

-----------------------------------------------------------------------------
(* A query never writes the automaton it is asked on. *)

LEMMA SortedKeepsProblem == Sorted!Next => problem' = problem
BY DEF Sorted!Next, Sorted!SeedRoot, Sorted!AdvanceRoot, Sorted!AskShortcut, Sorted!Ask,
       Sorted!Deliver, Sorted!Resolve, Sorted!ReturnItem, Sorted!ReturnNothing, Sorted!Emit,
       Sorted!End, Sorted!iterator

LEMMA FiniteKeepsProblem == Finite!FiniteNext => problem' = problem
<1>1. Finite!Next => problem' = problem
  BY DEF Finite!Next, Finite!Propagate, Finite!StartRelevant, Finite!MarkRelevant,
         Finite!StartTopological, Finite!Order, Finite!EndTopological, Finite!Count, Finite!EndCount
<1>2. Finite!vars' = Finite!vars => problem' = problem
  BY DEF Finite!vars
<1> QED
  BY <1>1, <1>2
     DEF Finite!FiniteNext, Finite!Analyze, Finite!NewPlan, Finite!StartAcceptingState,
         Finite!Exhaust, Finite!RebuildSuffix, Finite!Expand

LEMMA EstimateKeepsProblem == EstimateNext => problem' = problem
BY DEF EstimateNext, Skip, FinalizeInside, StartOutside, FinalizeOutside, FinishOutside

LEMMA StringsKeepProblem == Strings!Next => problem' = problem
BY DEF Strings!Next, Strings!InsideOfWidth, Strings!OutsideOfLevel, Strings!UpdateInside,
       Strings!UpdateOutside, Strings!EndInside, Strings!EndOutside, Strings!ForSentence

LEMMA QueriesKeepTheirChart ==
  ASSUME [Next]_vars
  PROVE  /\ problem' = problem
         /\ [WalkNext]_<<problem, walk_vars>>
         /\ [EstimateNext]_<<problem, estimate_vars>>
<1>1. CASE AskBestTree
  <2>1. WalkNext => problem' = problem
    BY DEF WalkNext, NextRoot, EnterState, ExitState, Finish
  <2> QED
    BY <1>1, <2>1 DEF AskBestTree, estimate_vars
<1>2. CASE AskSorted
  BY <1>2, SortedKeepsProblem DEF AskSorted, walk_vars, estimate_vars
<1>3. CASE AskFinite
  BY <1>3, FiniteKeepsProblem DEF AskFinite, walk_vars, estimate_vars
<1>4. CASE AskEstimate
  BY <1>4, EstimateKeepsProblem DEF AskEstimate, walk_vars
<1>5. CASE AskStrings
  BY <1>5, StringsKeepProblem DEF AskStrings, walk_vars, estimate_vars
<1>6. CASE UNCHANGED vars
  BY <1>6 DEF vars, walk_vars, estimate_vars
<1> QED
  BY <1>1, <1>2, <1>3, <1>4, <1>5, <1>6 DEF Next

-----------------------------------------------------------------------------
(* The best tree. *)

LEMMA WalkInAnyQuery == Spec => []WalkInv
<1>1. Init => WalkInv
  BY InitWalk DEF Init
<1>2. WalkInv /\ [Next]_vars => WalkInv'
  BY QueriesKeepTheirChart, StepWalk
<1> QED
  BY <1>1, <1>2, PTL DEF Spec

(* viterbi: on every chart the walk's variables have their types, a state   *)
(* is marked as on the way exactly while its exit frame is on the stack,    *)
(* and only left states have backpointers.                                  *)
THEOREM WalkTypes == Spec => []WalkTypeOK
<1>1. WalkInv => WalkTypeOK
  BY DEF WalkInv
<1> QED
  BY <1>1, WalkInAnyQuery, PTL

(* viterbi: on every acyclic chart, rules with their result as a child      *)
(* aside, the score of a left state is the best there is, and so is the     *)
(* tree that is returned.                                                   *)
THEOREM ScoresFinal == Spec => []ScoresAreFinal
<1>1. WalkInv => ScoresAreFinal
  BY DEF WalkInv
<1> QED
  BY <1>1, WalkInAnyQuery, PTL

(* viterbi: on every chart, cyclic ones included, the backpointers below    *)
(* the returned root give a finite tree that is worth its score.            *)
THEOREM BestTreeIsWorthItsScore == Spec => []TreeIsWorthItsScore
BY TreeIsWorth, WalkInAnyQuery, PTL

(* viterbi: on every chart no state is on the path twice, and a score is    *)
(* not written again when parents may have used it.                         *)
THEOREM ScoresOnce == Spec => ScoredOnce
<1> DEFINE A == /\ \A i, j \in DOMAIN stack' : stack'[i].exit /\ stack'[i] = stack'[j] => i = j
                /\ \A q \in Nodes : marks[q] = 2 =>
                      /\ marks'[q] = 2
                      /\ q \in DOMAIN best <=> q \in DOMAIN best'
                      /\ q \in DOMAIN best => best'[q] = best[q]
<1>1. ASSUME WalkInv, [Next]_vars
      PROVE  [A]_<<problem, walk_vars>>
  <2>1. [WalkNext]_<<problem, walk_vars>>
    BY <1>1, QueriesKeepTheirChart
  <2>2. WalkInv'
    BY <1>1, <2>1, StepWalk
  <2>3. A
    BY <1>1, <2>1, <2>2, StepScoresOnce
  <2> QED
    BY <2>3
<1> QED
  BY <1>1, WalkInAnyQuery, PTL DEF Spec, ScoredOnce
-----------------------------------------------------------------------------
(* The heuristic. *)

LEMMA EstimateInAnyQuery == Spec => []EstimateInv
<1>1. Init => EstimateInv
  BY InitEstimate DEF Init
<1>2. EstimateInv /\ [Next]_vars => EstimateInv'
  BY QueriesKeepTheirChart, StepEstimate
<1> QED
  BY <1>1, <1>2, PTL DEF Spec

(* OutsideHeuristic: on every grammar the passes' variables have their      *)
(* types, each rule waits for exactly its children that are not final, and  *)
(* no score that is not final is missing from the heap.                     *)
THEOREM EstimateTypes == Spec => []EstimateTypeOK
<1>1. EstimateInv => EstimateTypeOK
  BY DEF EstimateInv
<1> QED
  BY <1>1, EstimateInAnyQuery, PTL

(* OutsideHeuristic: on every grammar, with cycles and repeated children,   *)
(* the estimates are admissible and consistent: A* may use them.            *)
THEOREM EstimatesSafe == Spec => []EstimatesAreSafe
BY EstimatesFromInv, EstimateInAnyQuery, PTL

(* OutsideHeuristic: on every grammar without a rule that has a child       *)
(* twice, the inside and outside scores are the best ones, and not only     *)
(* bounds.                                                                  *)
THEOREM ScoresOptimal == Spec => []ScoresAreOptimal
BY OptimalFromInv, EstimateInAnyQuery, PTL

(* viterbi, OutsideHeuristic: on every automaton, a score from which others *)
(* have been computed is not written again, by the walk or by either pass   *)
(* of the heuristic, and no state is on the walk's path twice.              *)
THEOREM FinalScoresFinal == Spec => FinalScoresStay
<1> DEFINE A == \A q \in finalized :
                   /\ pass = "inside" => inside'[q] = inside[q]
                   /\ pass = "outside" => outside'[q] = outside[q]
<1>1. ASSUME EstimateInv, [Next]_vars
      PROVE  [A]_<<problem, estimate_vars>>
  <2>1. FinalizedStay
    BY <1>1, QueriesKeepTheirChart, StepFinalizedOnce
  <2> QED
    BY <2>1 DEF FinalizedStay
<1>2. Spec => FinalizedOnce
  BY <1>1, EstimateInAnyQuery, PTL DEF Spec, FinalizedOnce
<1> QED
  BY <1>2, ScoresOnce DEF FinalScoresStay
-----------------------------------------------------------------------------
(* The analysis of a language. *)

(* The child positions of a rule at which a state outside S occurs. *)
Waiting(r, S) == {i \in DOMAIN r.children : r.children[i] \notin S}

(* The productive states whose occurrences have been discharged. *)
Discharged == productive \ work

(* What the search for productive states has done so far: each rule waits   *)
(* for the occurrences that are not discharged, and fires with the last.    *)
ProductiveSearch ==
    /\ work \subseteq productive
    /\ relevant = {}
    /\ DOMAIN remaining = problem.rules
    /\ \A r \in problem.rules :
          /\ remaining[r] = Cardinality(Waiting(r, Discharged))
          /\ r \in productive_rules <=> Waiting(r, Discharged) = {}

(* What the search for relevant states has done so far: what is not marked *)
(* and occurs below marked states is on the work list.                     *)
RelevantSearch ==
    /\ work \subseteq Finite!Below(problem.rules, problem.goals)
    /\ problem.goals \cap productive \subseteq relevant \cup work
    /\ \A r \in productive_rules : r.result \in relevant => Range(r.children) \subseteq relevant \cup work

AnalysisInv ==
    /\ problem \in Problems
    /\ pc \in {"productive", "relevant", "topological", "count", "done"}
    /\ productive_rules \subseteq problem.rules
    /\ productive = {r.result : r \in productive_rules}
    /\ productive \subseteq Finite!Productive(problem.rules)
    /\ relevant \subseteq Finite!Below(problem.rules, problem.goals)
    /\ pc = "productive" => ProductiveSearch
    /\ pc # "productive" =>
          /\ productive = Finite!Productive(problem.rules)
          /\ productive_rules = Finite!Applicable(problem.rules)
    /\ pc = "relevant" => RelevantSearch
    /\ pc \in {"topological", "count", "done"} =>
          relevant = Finite!Below(problem.rules, problem.goals)

(* The operators that Finite brings along are those used elsewhere.         *)
LEMMA FiniteOperators ==
  /\ \A f : Finite!Range(f) = Range(f)
  /\ \A S : Finite!Cardinality(S) = Cardinality(S)
  /\ \A r, q : Finite!Mentions(r, q) = Cardinality({i \in DOMAIN r.children : r.children[i] = q})
<1>1. \A f : Finite!Range(f) = Range(f)
  BY DEF Finite!Range, Range
<1>2. \A S : Finite!Cardinality(S) = Cardinality(S)
  BY DEF Finite!Cardinality, Cardinality
<1>3. \A r, q : Finite!Mentions(r, q) = Cardinality({i \in DOMAIN r.children : r.children[i] = q})
  BY <1>2 DEF Finite!Mentions
<1>. QED  BY <1>1, <1>2, <1>3

(* The states with a derivation are closed under the rules, and in every    *)
(* set that is.                                                             *)
LEMMA ProductiveIsLeast ==
  ASSUME NEW rules, \A r \in rules : IsWeighted(r)
  PROVE  /\ Finite!Productive(rules) \subseteq Nodes
         /\ \A r \in rules : Range(r.children) \subseteq Finite!Productive(rules)
                             => r.result \in Finite!Productive(rules)
         /\ \A S \in SUBSET Nodes :
               (\A r \in rules : Range(r.children) \subseteq S => r.result \in S)
               => Finite!Productive(rules) \subseteq S
BY FiniteOperators DEF Finite!Productive, IsWeighted

(* The states below roots hold the roots with a derivation and are closed   *)
(* downwards, and are in every set that is so.                              *)
LEMMA BelowIsLeast ==
  ASSUME NEW rules, \A r \in rules : IsWeighted(r), NEW from
  PROVE  /\ Finite!Below(rules, from) \subseteq Nodes
         /\ \A q \in from : q \in {r.result : r \in Finite!Applicable(rules)}
                             => q \in Finite!Below(rules, from)
         /\ \A r \in Finite!Applicable(rules) : r.result \in Finite!Below(rules, from)
                             => Range(r.children) \subseteq Finite!Below(rules, from)
         /\ \A S \in SUBSET Nodes :
               /\ from \cap {r.result : r \in Finite!Applicable(rules)} \subseteq S
               /\ \A r \in Finite!Applicable(rules) : r.result \in S => Range(r.children) \subseteq S
               => Finite!Below(rules, from) \subseteq S
<1>1. \A r \in Finite!Applicable(rules) : r.result \in Nodes /\ Range(r.children) \subseteq Nodes
  BY ChildrenAreNodes DEF Finite!Applicable, IsWeighted
<1>. DEFINE applicable == Finite!Applicable(rules)
            derived == from \cap {r.result : r \in applicable}
            Closed(S) == /\ derived \subseteq S
                         /\ \A r \in applicable : r.result \in S => Range(r.children) \subseteq S
<1>2. Finite!Below(rules, from) = {q \in Nodes : \A S \in SUBSET Nodes : Closed(S) => q \in S}
  BY FiniteOperators DEF Finite!Below
<1>3. derived \subseteq Nodes /\ \A r \in applicable : Range(r.children) \subseteq Nodes
  BY <1>1
<1>4. \A q \in from : q \in {r.result : r \in applicable} => q \in derived
  OBVIOUS
<1>. HIDE DEF applicable, derived
<1>5. derived \subseteq Finite!Below(rules, from)
  BY <1>2, <1>3
<1>6. ASSUME NEW r \in applicable, r.result \in Finite!Below(rules, from)
      PROVE  Range(r.children) \subseteq Finite!Below(rules, from)
  BY <1>2, <1>3, <1>6
<1>7. \A S \in SUBSET Nodes : Closed(S) => Finite!Below(rules, from) \subseteq S
  BY <1>2
<1>. QED  BY <1>2, <1>4, <1>5, <1>6, <1>7 DEF applicable, derived

(* To discharge a state is to take its occurrences from those waited for.   *)
LEMMA WaitingLess ==
  ASSUME NEW r, IsWeighted(r), NEW S, NEW q, q \notin S
  PROVE  /\ Cardinality(Waiting(r, S)) \in Nat
         /\ Cardinality(Waiting(r, S \cup {q})) = Cardinality(Waiting(r, S)) - Finite!Mentions(r, q)
         /\ Waiting(r, S) = {} <=> Cardinality(Waiting(r, S)) = 0
         /\ Waiting(r, S \cup {q}) = {} <=> Cardinality(Waiting(r, S \cup {q})) = 0
         /\ q \notin Range(r.children) => Waiting(r, S \cup {q}) = Waiting(r, S)
<1>. DEFINE M == {i \in DOMAIN r.children : r.children[i] = q}
<1>1. IsFiniteSet(DOMAIN r.children)
  <2>1. DOMAIN r.children = 1..Len(r.children) /\ Len(r.children) \in Nat
    BY DEF IsWeighted
  <2>2. 0 \in Int /\ 1 \in Int /\ Len(r.children) \in Int
    BY <2>1
  <2>. QED  BY ONLY <2>1, <2>2, FS_Interval
<1>2. IsFiniteSet(Waiting(r, S)) /\ IsFiniteSet(M) /\ IsFiniteSet(Waiting(r, S \cup {q}))
  BY <1>1, FS_Subset DEF Waiting
<1>3. Waiting(r, S \cup {q}) = Waiting(r, S) \ M /\ Waiting(r, S) \cap M = M
  BY DEF Waiting
<1>. HIDE DEF M
<1>4. Cardinality(Waiting(r, S) \ M) = Cardinality(Waiting(r, S)) - Cardinality(M)
  BY <1>2, <1>3, FS_Difference
<1>5. q \notin Range(r.children) => M = {}
  BY DEF Range, M
<1>6. Finite!Mentions(r, q) = Cardinality(M)
  BY FiniteOperators DEF M
<1>. QED  BY <1>2, <1>3, <1>4, <1>5, <1>6, FS_CardinalityType, FS_EmptySet

LEMMA AutomatonFacts ==
  ASSUME problem \in Problems
  PROVE  /\ \A r \in problem.rules : IsWeighted(r) /\ r.result \in Nodes /\ Range(r.children) \subseteq Nodes
         /\ \A r \in problem.rules : r \in Finite!Applicable(problem.rules)
               <=> Range(r.children) \subseteq Finite!Productive(problem.rules)
         /\ Finite!Applicable(problem.rules) \subseteq problem.rules
<1>1. \A r \in problem.rules : IsWeighted(r)
  BY ProblemsAreWeighted
<1>2. \A r \in problem.rules : r.result \in Nodes /\ Range(r.children) \subseteq Nodes
  BY <1>1, ChildrenAreNodes DEF IsWeighted
<1>3. Finite!Applicable(problem.rules)
         = {r \in problem.rules : Range(r.children) \subseteq Finite!Productive(problem.rules)}
  BY FiniteOperators DEF Finite!Applicable
<1>4. \A r \in problem.rules : r \in Finite!Applicable(problem.rules)
               <=> Range(r.children) \subseteq Finite!Productive(problem.rules)
  BY ONLY <1>3
<1>5. Finite!Applicable(problem.rules) \subseteq problem.rules
  BY ONLY <1>3
<1>. QED  BY ONLY <1>1, <1>2, <1>4, <1>5

LEMMA InitAnalysis == Finite!FiniteInit => AnalysisInv
<1>. SUFFICES ASSUME Finite!FiniteInit PROVE AnalysisInv
  OBVIOUS
<1>1. /\ problem \in Problems /\ pc = "productive" /\ productive_rules = Finite!Nullary
      /\ productive = {r.result : r \in productive_rules} /\ work = productive /\ relevant = {}
      /\ DOMAIN remaining = problem.rules
      /\ \A r \in problem.rules : remaining[r] = Len(r.children)
  BY DEF Finite!FiniteInit, Finite!Init
<1>2. productive_rules = {r \in problem.rules : r.children = <<>>}
  BY <1>1 DEF Finite!Nullary
<1>3. ASSUME NEW r \in problem.rules
      PROVE  /\ remaining[r] = Cardinality(Waiting(r, Discharged))
             /\ r \in productive_rules <=> Waiting(r, Discharged) = {}
             /\ r \in productive_rules => r.result \in Finite!Productive(problem.rules)
  <2>1. Waiting(r, Discharged) = 1..Len(r.children) /\ Len(r.children) \in Nat /\ IsWeighted(r)
    BY <1>1, AutomatonFacts DEF Waiting, Discharged, IsWeighted
  <2>2. Cardinality(1..Len(r.children)) = Len(r.children)
    <3>1. 1 \in Int /\ Len(r.children) \in Int
      BY <2>1
    <3>2. Cardinality(1..Len(r.children)) =
             IF 1 > Len(r.children) THEN 0 ELSE Len(r.children) - 1 + 1
      BY ONLY <3>1, FS_Interval
    <3>. QED  BY <2>1, <3>2
  <2>3. r \in productive_rules <=> Waiting(r, Discharged) = {}
    <3>1. r.children \in Seq(Nodes)
      BY <2>1 DEF IsWeighted
    <3>2. r.children = <<>> <=> Len(r.children) = 0
      BY ONLY <3>1
    <3>3. r \in productive_rules <=> r.children = <<>>
      BY <1>2
    <3>4. 1..Len(r.children) = {} <=> Len(r.children) = 0
      <4>1. Len(r.children) \in Nat
        BY <2>1
      <4>2. Len(r.children) # 0 => 1 \in 1..Len(r.children)
        BY ONLY <4>1
      <4>3. Len(r.children) = 0 => 1..Len(r.children) = {}
        BY ONLY <4>1
      <4>. QED  BY ONLY <4>2, <4>3
    <3>. QED  BY ONLY <2>1, <3>2, <3>3, <3>4
  <2>4. ASSUME r \in productive_rules PROVE r.result \in Finite!Productive(problem.rules)
    <3>1. Range(r.children) = {}
      BY <1>2, <2>4 DEF Range
    <3>. QED  BY <1>1, <3>1, AutomatonFacts, ProductiveIsLeast
  <2>. QED  BY <1>1, <2>1, <2>2, <2>3, <2>4
<1>4. productive \subseteq Finite!Productive(problem.rules) /\ productive_rules \subseteq problem.rules
  BY <1>1, <1>2, <1>3
<1>. QED  BY <1>1, <1>3, <1>4 DEF AnalysisInv, ProductiveSearch

LEMMA PropagateKeepsAnalysis ==
  ASSUME AnalysisInv, NEW q \in work, Finite!Propagate(q)
  PROVE  AnalysisInv'
<1>. DEFINE mentioning == {r \in problem.rules : q \in Range(r.children)}
            fired == {r \in mentioning : Finite!Discharged(r, q) = 0}
            found == {r.result : r \in fired} \ productive
<1>1. /\ pc = "productive" /\ pc' = "productive" /\ problem' = problem /\ relevant' = relevant
      /\ remaining' = [r \in problem.rules |->
                          IF r \in mentioning THEN Finite!Discharged(r, q) ELSE remaining[r]]
      /\ productive_rules' = productive_rules \cup fired
      /\ productive' = productive \cup found
      /\ work' = (work \ {q}) \cup found
  BY FiniteOperators DEF Finite!Propagate
<1>2. ProductiveSearch /\ problem \in Problems
  BY <1>1 DEF AnalysisInv
<1>3. Discharged' = Discharged \cup {q} /\ q \notin Discharged
  BY <1>1, <1>2 DEF Discharged, ProductiveSearch
<1>4. ASSUME NEW r \in problem.rules
      PROVE  /\ remaining'[r] = Cardinality(Waiting(r, Discharged'))
             /\ r \in productive_rules' <=> Waiting(r, Discharged') = {}
             /\ r \in fired => Range(r.children) \subseteq productive
  <2>1. /\ Cardinality(Waiting(r, Discharged)) \in Nat
        /\ Cardinality(Waiting(r, Discharged')) = Cardinality(Waiting(r, Discharged)) - Finite!Mentions(r, q)
        /\ Waiting(r, Discharged) = {} <=> Cardinality(Waiting(r, Discharged)) = 0
        /\ Waiting(r, Discharged') = {} <=> Cardinality(Waiting(r, Discharged')) = 0
        /\ q \notin Range(r.children) => Waiting(r, Discharged') = Waiting(r, Discharged)
    <3>1. IsWeighted(r)
      BY <1>2, AutomatonFacts
    <3>. QED  BY ONLY <1>3, <3>1, WaitingLess
  <2>2. remaining[r] = Cardinality(Waiting(r, Discharged))
        /\ (r \in productive_rules <=> Waiting(r, Discharged) = {})
    BY <1>2 DEF ProductiveSearch
  <2>3. CASE r \in mentioning
    <3>1. remaining'[r] = Finite!Discharged(r, q)
          /\ Finite!Discharged(r, q) = remaining[r] - Finite!Mentions(r, q)
      BY <1>1, <2>3 DEF Finite!Discharged
    <3>2. Finite!Discharged(r, q) = Cardinality(Waiting(r, Discharged'))
      BY <2>1, <2>2, <3>1
    <3>3. r \in fired <=> Waiting(r, Discharged') = {}
      BY <2>1, <2>3, <3>2
    <3>4. Waiting(r, Discharged) = {} => Waiting(r, Discharged') = {}
      BY <1>3 DEF Waiting
    <3>5. Waiting(r, Discharged') = {} => Range(r.children) \subseteq productive
      BY <1>2, <1>3 DEF Waiting, Range, Discharged, ProductiveSearch
    <3>. QED  BY <1>1, <2>2, <3>1, <3>2, <3>3, <3>4, <3>5
  <2>4. CASE r \notin mentioning
    <3>1. remaining'[r] = remaining[r] /\ r \notin fired /\ q \notin Range(r.children)
      BY <1>1, <2>4
    <3>. QED  BY <1>1, <2>1, <2>2, <3>1
  <2>. QED  BY <2>3, <2>4
<1>5. fired \subseteq problem.rules
  OBVIOUS
<1>6. \A r \in fired : r.result \in Finite!Productive(problem.rules)
  BY <1>2, <1>4, <1>5, AutomatonFacts, ProductiveIsLeast DEF AnalysisInv
<1>. HIDE DEF fired
<1>7. /\ productive' = {r.result : r \in productive_rules'} /\ productive_rules' \subseteq problem'.rules
      /\ productive' \subseteq Finite!Productive(problem'.rules)
  BY <1>1, <1>5, <1>6 DEF AnalysisInv
<1>8. ProductiveSearch'
  BY <1>1, <1>2, <1>4 DEF ProductiveSearch
<1>9. relevant = {}
  BY <1>2 DEF ProductiveSearch
<1>. QED  BY <1>1, <1>2, <1>7, <1>8, <1>9 DEF AnalysisInv

LEMMA StartRelevantKeepsAnalysis ==
  ASSUME AnalysisInv, Finite!StartRelevant
  PROVE  AnalysisInv'
<1>1. /\ pc = "productive" /\ work = {} /\ pc' = "relevant" /\ work' = problem.goals \cap productive
      /\ problem' = problem /\ productive' = productive /\ productive_rules' = productive_rules
      /\ relevant' = relevant
  BY DEF Finite!StartRelevant
<1>2. ProductiveSearch /\ problem \in Problems /\ productive_rules \subseteq problem.rules
      /\ productive \subseteq Finite!Productive(problem.rules)
      /\ productive = {r.result : r \in productive_rules}
  BY <1>1 DEF AnalysisInv
<1>3. \A r \in problem.rules : r \in productive_rules <=> Range(r.children) \subseteq productive
  <2>1. \A r : Waiting(r, productive) = {} <=> Range(r.children) \subseteq productive
    BY DEF Waiting, Range
  <2>2. Discharged = productive
    BY <1>1 DEF Discharged
  <2>3. \A r \in problem.rules : r \in productive_rules <=> Waiting(r, Discharged) = {}
    BY <1>2 DEF ProductiveSearch
  <2>. QED  BY ONLY <2>1, <2>2, <2>3
<1>4. productive = Finite!Productive(problem.rules)
  <2>1. productive \in SUBSET Nodes
    BY <1>2, AutomatonFacts, ProductiveIsLeast
  <2>2. \A r \in problem.rules : Range(r.children) \subseteq productive => r.result \in productive
    BY <1>2, <1>3
  <2>3. Finite!Productive(problem.rules) \subseteq productive
    BY <1>2, <2>1, <2>2, AutomatonFacts, ProductiveIsLeast
  <2>. QED  BY <1>2, <2>3
<1>5. productive_rules = Finite!Applicable(problem.rules)
  <2>1. /\ \A r \in problem.rules : r \in Finite!Applicable(problem.rules) <=> Range(r.children) \subseteq productive
        /\ Finite!Applicable(problem.rules) \subseteq problem.rules
    <3>1. problem \in Problems
      BY <1>2
    <3>2. /\ \A r \in problem.rules : r \in Finite!Applicable(problem.rules)
                <=> Range(r.children) \subseteq Finite!Productive(problem.rules)
          /\ Finite!Applicable(problem.rules) \subseteq problem.rules
      BY ONLY <3>1, AutomatonFacts
    <3>. QED  BY ONLY <1>4, <3>2
  <2>2. productive_rules \subseteq problem.rules
    BY <1>2
  <2>. QED  BY ONLY <1>3, <2>1, <2>2
<1>6. problem.goals \cap productive \subseteq Finite!Below(problem.rules, problem.goals)
  BY <1>2, <1>5, AutomatonFacts, BelowIsLeast
<1>7. RelevantSearch'
  BY <1>1, <1>2, <1>6 DEF RelevantSearch, ProductiveSearch
<1>. QED  BY <1>1, <1>2, <1>4, <1>5, <1>7 DEF AnalysisInv

LEMMA MarkRelevantKeepsAnalysis ==
  ASSUME AnalysisInv, NEW q \in work, Finite!MarkRelevant(q)
  PROVE  AnalysisInv'
<1>. DEFINE into == {r \in productive_rules : r.result = q}
<1>1. /\ pc = "relevant" /\ pc' = "relevant" /\ problem' = problem /\ productive' = productive
      /\ productive_rules' = productive_rules /\ relevant' = relevant \cup {q}
      /\ work' = (work \ {q}) \cup (IF q \in relevant THEN {}
                    ELSE UNION {Range(r.children) : r \in Finite!RulesInto(q) \cap productive_rules})
  BY FiniteOperators DEF Finite!MarkRelevant
<1>2. /\ RelevantSearch /\ problem \in Problems /\ productive_rules \subseteq problem.rules
      /\ productive = Finite!Productive(problem.rules)
      /\ productive_rules = Finite!Applicable(problem.rules)
      /\ relevant \subseteq Finite!Below(problem.rules, problem.goals)
  BY <1>1 DEF AnalysisInv
<1>3. Finite!RulesInto(q) \cap productive_rules = into
  BY <1>2 DEF Finite!RulesInto
<1>. HIDE DEF into
<1>4. q \in Finite!Below(problem.rules, problem.goals)
  BY <1>2 DEF RelevantSearch
<1>5. \A r \in into : Range(r.children) \subseteq Finite!Below(problem.rules, problem.goals)
  BY <1>2, <1>4, AutomatonFacts, BelowIsLeast DEF into
<1>6. work' \subseteq Finite!Below(problem.rules, problem.goals)
  <2>1. work' \subseteq work \cup UNION {Range(r.children) : r \in into}
    BY <1>1, <1>3
  <2>. QED  BY <1>2, <1>5, <2>1 DEF RelevantSearch
<1>7. problem.goals \cap productive \subseteq relevant' \cup work'
  BY <1>1, <1>2 DEF RelevantSearch
<1>8. ASSUME NEW r \in productive_rules, r.result \in relevant'
      PROVE  Range(r.children) \subseteq relevant' \cup work'
  <2>1. CASE r.result \in relevant
    BY <1>1, <1>2, <2>1 DEF RelevantSearch
  <2>2. CASE r.result \notin relevant
    <3>1. r.result = q /\ r \in into
      BY <1>1, <1>8, <2>2 DEF into
    <3>. QED  BY <1>1, <1>3, <2>2, <3>1
  <2>. QED  BY <2>1, <2>2
<1>9. RelevantSearch'
  BY <1>1, <1>6, <1>7, <1>8 DEF RelevantSearch
<1>. QED  BY <1>1, <1>2, <1>4, <1>9 DEF AnalysisInv

LEMMA StartTopologicalKeepsAnalysis ==
  ASSUME AnalysisInv, Finite!StartTopological
  PROVE  AnalysisInv'
<1>1. /\ pc = "relevant" /\ work = {} /\ pc' = "topological" /\ problem' = problem
      /\ productive' = productive /\ productive_rules' = productive_rules /\ relevant' = relevant
  BY DEF Finite!StartTopological
<1>2. /\ RelevantSearch /\ problem \in Problems
      /\ productive = Finite!Productive(problem.rules)
      /\ productive_rules = Finite!Applicable(problem.rules)
      /\ relevant \subseteq Finite!Below(problem.rules, problem.goals)
      /\ productive = {r.result : r \in productive_rules}
  BY <1>1 DEF AnalysisInv
<1>3. /\ problem.goals \cap {r.result : r \in Finite!Applicable(problem.rules)} \subseteq relevant
      /\ \A r \in Finite!Applicable(problem.rules) :
            r.result \in relevant => Range(r.children) \subseteq relevant
  BY <1>1, <1>2 DEF RelevantSearch
<1>4. relevant = Finite!Below(problem.rules, problem.goals)
  <2>1. \A r \in problem.rules : IsWeighted(r)
    BY <1>2, AutomatonFacts
  <2>2. relevant \in SUBSET Nodes
    BY <1>2, <2>1, BelowIsLeast
  <2>. HIDE DEF AnalysisInv
  <2>3. Finite!Below(problem.rules, problem.goals) \subseteq relevant
    BY ONLY <1>3, <2>1, <2>2, BelowIsLeast
  <2>. QED  BY <1>2, <2>3
<1>. QED  BY <1>1, <1>4 DEF AnalysisInv

LEMMA StepAnalysis == AnalysisInv /\ [Finite!Next]_(Finite!vars) => AnalysisInv'
<1>. SUFFICES ASSUME AnalysisInv, [Finite!Next]_(Finite!vars) PROVE AnalysisInv'
  OBVIOUS
<1>1. CASE \E q \in work : Finite!Propagate(q)
  BY <1>1, PropagateKeepsAnalysis
<1>2. CASE \E q \in work : Finite!MarkRelevant(q)
  BY <1>2, MarkRelevantKeepsAnalysis
<1>3. CASE \E q \in work : Finite!Order(q)
  BY <1>3 DEF Finite!Order, AnalysisInv
<1>4. CASE Finite!StartRelevant
  BY <1>4, StartRelevantKeepsAnalysis
<1>5. CASE Finite!StartTopological
  BY <1>5, StartTopologicalKeepsAnalysis
<1>6. CASE Finite!EndTopological
  BY <1>6 DEF Finite!EndTopological, AnalysisInv
<1>7. CASE Finite!Count
  BY <1>7 DEF Finite!Count, AnalysisInv
<1>8. CASE Finite!EndCount
  BY <1>8 DEF Finite!EndCount, AnalysisInv
<1>9. CASE UNCHANGED Finite!vars
  BY <1>9 DEF Finite!vars, AnalysisInv, ProductiveSearch, RelevantSearch, Discharged
<1>. QED
  BY <1>1, <1>2, <1>3, <1>4, <1>5, <1>6, <1>7, <1>8, <1>9 DEF Finite!Next

LEMMA UsefulFromInv == AnalysisInv => KeepsUsefulRules
<1>. SUFFICES ASSUME AnalysisInv, pc \in {"topological", "count", "done"}
              PROVE  /\ productive = Finite!ProductiveIn[problem]
                     /\ Finite!DependencyRules = Finite!UsefulIn[problem]
                     /\ \A r \in Finite!DependencyRules : Range(r.children) \subseteq relevant
  BY FiniteOperators DEF KeepsUsefulRules, Finite!KeepsUsefulRules
<1>1. /\ problem \in Problems /\ productive = Finite!Productive(problem.rules)
      /\ productive_rules = Finite!Applicable(problem.rules)
      /\ relevant = Finite!Below(problem.rules, problem.goals)
  BY DEF AnalysisInv
<1>2. Finite!DependencyRules = Finite!Useful(problem.rules, problem.goals)
  BY <1>1 DEF Finite!DependencyRules, Finite!Useful
<1>3. \A r \in Finite!DependencyRules : Range(r.children) \subseteq relevant
  BY <1>1, AutomatonFacts, BelowIsLeast DEF Finite!DependencyRules
<1>. QED  BY <1>1, <1>2, <1>3 DEF Finite!ProductiveIn, Finite!UsefulIn

-----------------------------------------------------------------------------
(* The topological order. *)

EndOf(e) == e[1].children[e[2]]

(* The edges into q from states that are not ordered yet. *)
Open(q) == {e \in Finite!EdgesInto(q) : EndOf(e) \notin Range(order)}

(* What Kahn's algorithm has done so far: a state is ready when the last of *)
(* the edges into it is gone.                                               *)
OrderSearch ==
    /\ work \subseteq relevant
    /\ work \cap Range(order) = {}
    /\ \A q \in relevant :
          /\ dependency_count[q] = Cardinality(Open(q))
          /\ q \in Range(order) \cup work <=> Open(q) = {}

(* Every state once, and after the states below it. *)
OrderIsSound ==
    /\ order \in Seq(relevant)
    /\ \A i, j \in 1..Len(order) : order[i] = order[j] => i = j
    /\ \A k \in 1..Len(order) : \A r \in Finite!DependencyRules :
          r.result = order[k] =>
             \A c \in Range(r.children) : \E j \in 1..Len(order) : j < k /\ order[j] = c

OrderInv ==
    /\ AnalysisInv
    /\ IF pc \in {"productive", "relevant"} THEN order = <<>> ELSE OrderIsSound
    /\ pc = "topological" => OrderSearch
    /\ pc \in {"count", "done"} => (Finite!IsOrdered <=> ~Finite!HasUsefulCycle[problem])
    /\ pc = "count" => Finite!IsOrdered
    /\ pc = "done" => (cardinality = Finite!Infinite <=> ~Finite!IsOrdered)

(* The plan is made when the analysis is done. *)
PlanInv ==
    iterator # "none" => pc = "done" /\ (iterator = "error" <=> ~Finite!IsOrdered)

LEMMA FiniteBringsPlaces == \A rules : Finite!ChildPlaces(rules) = ChildPlaces(rules)
BY DEF Finite!ChildPlaces, ChildPlaces

LEMMA PlacesAreFinite ==
  ASSUME NEW rules, IsFiniteSet(rules), \A r \in rules : IsWeighted(r)
  PROVE  IsFiniteSet(ChildPlaces(rules))
<1>. DEFINE place == [r \in rules |-> {<<r, p>> : p \in DOMAIN r.children}]
            all == {place[r] : r \in rules}
<1>1. ASSUME NEW r \in rules PROVE IsFiniteSet(place[r])
  <2>1. place[r] = {r} \X (1..Len(r.children)) /\ Len(r.children) \in Nat
    BY DEF IsWeighted
  <2>2. 1 \in Int /\ Len(r.children) \in Int
    BY <2>1
  <2>3. IsFiniteSet(1..Len(r.children)) /\ IsFiniteSet({r})
    BY ONLY <2>2, FS_Interval, FS_Singleton
  <2>. QED  BY ONLY <2>1, <2>3, FS_Product
<1>2. place \in Surjection(rules, all)
  BY DEF Surjection
<1>. HIDE DEF place
<1>3. IsFiniteSet(all)
  <2>. HIDE DEF all
  <2>. QED  BY <1>2, FS_Surjection
<1>4. IsFiniteSet(UNION all)
  BY <1>1, <1>3, FS_UNION
<1>5. ChildPlaces(rules) = UNION all
  BY DEF ChildPlaces, all, place
<1>. QED  BY <1>4, <1>5

LEMMA EdgeFacts ==
  ASSUME AnalysisInv, NEW q
  PROVE  /\ IsFiniteSet(Finite!EdgesInto(q))
         /\ \A r \in Finite!DependencyRules : r.result = q =>
               \A i \in DOMAIN r.children : <<r, i>> \in Finite!EdgesInto(q)
         /\ \A e \in Finite!EdgesInto(q) : /\ e[1] \in Finite!DependencyRules /\ e[1].result = q
                                           /\ e[2] \in DOMAIN e[1].children
                                           /\ EndOf(e) \in Range(e[1].children)
<1>. DEFINE into == {r \in Finite!DependencyRules : r.result = q}
<1>1. Finite!EdgesInto(q) = ChildPlaces(into)
  BY FiniteBringsPlaces DEF Finite!EdgesInto
<1>2. problem \in Problems /\ into \subseteq problem.rules
  BY DEF AnalysisInv, Finite!DependencyRules
<1>3. IsFiniteSet(into) /\ \A r \in into : IsWeighted(r)
  <2>1. IsFiniteSet(problem.rules) /\ \A r \in problem.rules : IsWeighted(r)
    BY <1>2, ProblemsAreWeighted
  <2>. HIDE DEF into
  <2>. QED  BY <1>2, <2>1, FS_Subset
<1>. HIDE DEF into
<1>4. IsFiniteSet(ChildPlaces(into))
  BY ONLY <1>3, PlacesAreFinite
<1>5. \A r \in into : \A i \in DOMAIN r.children : <<r, i>> \in ChildPlaces(into)
  BY DEF ChildPlaces
<1>6. \A e \in ChildPlaces(into) : e[1] \in into /\ e[2] \in DOMAIN e[1].children
  BY DEF ChildPlaces
<1>7. \A e \in ChildPlaces(into) : EndOf(e) \in Range(e[1].children)
  BY <1>6 DEF EndOf, Range
<1>. QED  BY <1>1, <1>4, <1>5, <1>6, <1>7 DEF into

LEMMA InitOrder == Finite!FiniteInit => OrderInv /\ PlanInv
BY InitAnalysis DEF Finite!FiniteInit, Finite!Init, OrderInv, PlanInv

(* To order a state is to take the edges from it from those open.           *)
LEMMA OpenLess ==
  ASSUME AnalysisInv, AnalysisInv', OrderIsSound, NEW q, q \notin Range(order),
         productive_rules' = productive_rules, relevant' = relevant,
         Range(order') = Range(order) \cup {q}, NEW p
  PROVE  /\ Cardinality(Open(p)) \in Nat
         /\ Cardinality(Open(p)') = Cardinality(Open(p)) - Finite!Edges(q, p)
         /\ Open(p) = {} <=> Cardinality(Open(p)) = 0
         /\ Open(p)' = {} <=> Cardinality(Open(p)') = 0
         /\ Open(p) = {} => Open(p)' = {}
<1>. DEFINE M == {e \in Finite!EdgesInto(p) : EndOf(e) = q}
<1>1. Finite!EdgesInto(p)' = Finite!EdgesInto(p)
  BY DEF Finite!EdgesInto, Finite!DependencyRules
<1>2. IsFiniteSet(Finite!EdgesInto(p))
  BY EdgeFacts
<1>3. Open(p)' = {e \in Finite!EdgesInto(p) : EndOf(e) \notin Range(order) \cup {q}}
  BY <1>1 DEF Open, EndOf
<1>4. Open(p)' = Open(p) \ M /\ Open(p) \cap M = M
  BY <1>3 DEF Open
<1>5. Finite!Edges(q, p) = Cardinality(M)
  BY FiniteOperators DEF Finite!Edges, EndOf
<1>. HIDE DEF M
<1>6. IsFiniteSet(Open(p))
  BY <1>2, FS_Subset DEF Open
<1>7. /\ IsFiniteSet(Open(p) \ M)
      /\ Cardinality(Open(p) \ M) = Cardinality(Open(p)) - Cardinality(Open(p) \cap M)
  BY ONLY <1>6, FS_Difference
<1>. QED  BY <1>4, <1>5, <1>6, <1>7, FS_CardinalityType, FS_EmptySet

LEMMA StartTopologicalKeepsOrder ==
  ASSUME OrderInv, AnalysisInv', Finite!StartTopological
  PROVE  OrderInv'
<1>1. /\ pc = "relevant" /\ pc' = "topological" /\ order' = order /\ order = <<>>
      /\ relevant' = relevant /\ productive_rules' = productive_rules
      /\ dependency_count' = [q \in relevant |-> Finite!Dependencies(q)]
      /\ work' = {q \in relevant : Finite!Dependencies(q) = 0}
      /\ AnalysisInv
  BY DEF Finite!StartTopological, OrderInv
<1>2. Range(order') = {} /\ Len(order') = 0 /\ order' \in Seq(relevant')
  BY <1>1 DEF Range
<1>3. ASSUME NEW q \in relevant
      PROVE  /\ Open(q)' = Finite!EdgesInto(q)
             /\ Finite!Dependencies(q) = Cardinality(Open(q)')
             /\ Open(q)' = {} <=> Finite!Dependencies(q) = 0
  <2>1. Open(q)' = Finite!EdgesInto(q)
    BY <1>1, <1>2 DEF Open, Finite!EdgesInto, Finite!DependencyRules
  <2>2. Finite!Dependencies(q) = Cardinality(Finite!EdgesInto(q))
    BY FiniteOperators DEF Finite!Dependencies
  <2>3. IsFiniteSet(Finite!EdgesInto(q))
    BY <1>1, EdgeFacts
  <2>. QED  BY <2>1, <2>2, <2>3, FS_EmptySet
<1>4. OrderIsSound'
  BY <1>2 DEF OrderIsSound
<1>5. OrderSearch'
  BY <1>1, <1>2, <1>3 DEF OrderSearch
<1>. QED  BY <1>1, <1>4, <1>5 DEF OrderInv

LEMMA OrderKeepsOrder ==
  ASSUME OrderInv, AnalysisInv', NEW q \in work, Finite!Order(q)
  PROVE  OrderInv'
<1>1. /\ pc = "topological" /\ pc' = "topological" /\ order' = Append(order, q)
      /\ relevant' = relevant /\ productive_rules' = productive_rules
      /\ dependency_count' = [p \in relevant |-> dependency_count[p] - Finite!Edges(q, p)]
      /\ work' = (work \ {q}) \cup
            {p \in relevant : dependency_count[p] > 0 /\ dependency_count[p] = Finite!Edges(q, p)}
  BY DEF Finite!Order
<1>2. AnalysisInv /\ OrderIsSound /\ OrderSearch
  BY <1>1 DEF OrderInv
<1>3. order \in Seq(relevant) /\ q \in relevant /\ q \notin Range(order)
  BY <1>2 DEF OrderIsSound, OrderSearch
<1>4. /\ Len(order) \in Nat /\ Len(order') = Len(order) + 1 /\ order' \in Seq(relevant)
      /\ \A i \in 1..Len(order) : order'[i] = order[i] /\ i \in 1..(Len(order) + 1)
      /\ order'[Len(order) + 1] = q /\ Len(order) + 1 \in 1..(Len(order) + 1)
      /\ \A i \in 1..(Len(order) + 1) : i \in 1..Len(order) \/ i = Len(order) + 1
  BY <1>1, <1>3
<1>5. /\ Range(order) = {order[i] : i \in 1..Len(order)}
      /\ Range(order') = {order'[i] : i \in 1..(Len(order) + 1)}
  BY <1>3, <1>4 DEF Range
<1>6. Range(order') = Range(order) \cup {q}
  BY <1>4, <1>5
<1>7. ASSUME NEW p \in relevant
      PROVE  /\ dependency_count'[p] = Cardinality(Open(p)')
             /\ p \in work' <=> p \in work \ {q} \/ (Open(p) # {} /\ Open(p)' = {})
             /\ Open(p) = {} => Open(p)' = {}
             /\ p \in Range(order) \cup work <=> Open(p) = {}
  <2>1. /\ Cardinality(Open(p)) \in Nat
        /\ Cardinality(Open(p)') = Cardinality(Open(p)) - Finite!Edges(q, p)
        /\ Open(p) = {} <=> Cardinality(Open(p)) = 0
        /\ Open(p)' = {} <=> Cardinality(Open(p)') = 0
        /\ Open(p) = {} => Open(p)' = {}
    BY <1>1, <1>2, <1>3, <1>6, OpenLess
  <2>2. dependency_count[p] = Cardinality(Open(p)) /\ (p \in Range(order) \cup work <=> Open(p) = {})
    BY <1>2 DEF OrderSearch
  <2>3. dependency_count'[p] = dependency_count[p] - Finite!Edges(q, p)
    BY <1>1
  <2>4. p \in work' <=> \/ p \in work \ {q}
                        \/ dependency_count[p] > 0 /\ dependency_count[p] = Finite!Edges(q, p)
    BY <1>1
  <2>5. Finite!Edges(q, p) \in Nat
    <3>1. IsFiniteSet({e \in Finite!EdgesInto(p) : EndOf(e) = q})
      BY <1>2, EdgeFacts, FS_Subset
    <3>. QED  BY <3>1, FiniteOperators, FS_CardinalityType DEF Finite!Edges, EndOf
  <2>. QED  BY <2>1, <2>2, <2>3, <2>4, <2>5
<1>8. OrderSearch'
  <2>1. work' \subseteq relevant
    BY <1>1, <1>2 DEF OrderSearch
  <2>2. work' \cap Range(order') = {}
    BY <1>2, <1>6, <1>7, <2>1 DEF OrderSearch
  <2>3. \A p \in relevant : p \in Range(order') \cup work' <=> Open(p)' = {}
    BY <1>6, <1>7
  <2>. QED  BY <1>1, <1>7, <2>1, <2>2, <2>3 DEF OrderSearch
<1>9. ASSUME NEW k \in 1..(Len(order) + 1), NEW r \in Finite!DependencyRules, r.result = order'[k],
             NEW c \in Range(r.children)
      PROVE  \E j \in 1..(Len(order) + 1) : j < k /\ order'[j] = c
  <2>1. CASE k \in 1..Len(order)
    <3>1. r.result = order[k]
      BY <1>4, <1>9, <2>1
    <3>2. PICK j \in 1..Len(order) : j < k /\ order[j] = c
      BY <1>2, <2>1, <3>1 DEF OrderIsSound
    <3>. QED  BY <1>4, <3>2
  <2>2. CASE k = Len(order) + 1
    <3>1. r.result = q /\ Open(q) = {}
      BY <1>2, <1>3, <1>4, <1>9, <2>2 DEF OrderSearch
    <3>2. PICK i \in DOMAIN r.children : r.children[i] = c
      BY DEF Range
    <3>3. <<r, i>> \in Finite!EdgesInto(q) /\ EndOf(<<r, i>>) = c
      BY <1>2, <3>1, <3>2, EdgeFacts DEF EndOf
    <3>4. c \in Range(order)
      BY <3>1, <3>3 DEF Open
    <3>5. PICK j \in 1..Len(order) : order[j] = c
      BY <1>5, <3>4
    <3>6. j < k
      BY <1>4, <2>2
    <3>. QED  BY <1>4, <3>5, <3>6
  <2>. QED  BY <1>4, <2>1, <2>2
<1>10. \A i, j \in 1..(Len(order) + 1) : order'[i] = order'[j] => i = j
  <2>1. \A i \in 1..Len(order) : order[i] # q
    BY <1>3, <1>5
  <2>. QED  BY <1>2, <1>4, <2>1 DEF OrderIsSound
<1>11. Finite!DependencyRules' = Finite!DependencyRules
  BY <1>1 DEF Finite!DependencyRules
<1>12. OrderIsSound'
  <2>1. order' \in Seq(relevant') /\ 1..Len(order') = 1..(Len(order) + 1)
    BY <1>1, <1>4
  <2>2. \A k \in 1..Len(order') : \A r \in Finite!DependencyRules' :
           r.result = order'[k] =>
              \A c \in Range(r.children) : \E j \in 1..Len(order') : j < k /\ order'[j] = c
    BY ONLY <1>9, <1>11, <2>1
  <2>3. \A i, j \in 1..Len(order') : order'[i] = order'[j] => i = j
    BY ONLY <1>10, <2>1
  <2>. QED  BY ONLY <2>1, <2>2, <2>3 DEF OrderIsSound
<1>. QED  BY <1>1, <1>8, <1>12 DEF OrderInv

(* All relevant states are ordered exactly if as many are. *)
LEMMA OrderedAre ==
  ASSUME AnalysisInv, OrderIsSound
  PROVE  Finite!IsOrdered <=> Range(order) = relevant
<1>1. /\ order \in Seq(relevant) /\ Len(order) \in Nat
      /\ Range(order) = {order[i] : i \in 1..Len(order)} /\ Range(order) \subseteq relevant
  BY DEF OrderIsSound, Range
<1>2. IsFiniteSet(relevant)
  <2>1. relevant \subseteq Nodes
    BY AutomatonFacts, BelowIsLeast DEF AnalysisInv
  <2>. QED  BY <2>1, NodesAreFinite, FS_Subset
<1>3. Cardinality(Range(order)) = Len(order)
  <2>. DEFINE positions == 1..Len(order)
              ordered == Range(order)
  <2>1. order \in Surjection(positions, ordered) /\ order \in Injection(positions, ordered)
    BY <1>1 DEF OrderIsSound, Surjection, Injection, IsInjective
  <2>2. 1 \in Int /\ Len(order) \in Int
    BY <1>1
  <2>3. IsFiniteSet(positions) /\ Cardinality(positions) = Len(order)
    BY <1>1, <2>2, FS_Interval
  <2>. HIDE DEF positions, ordered
  <2>4. Cardinality(ordered) = Cardinality(positions)
    BY ONLY <2>1, <2>3, FS_Surjection
  <2>. QED  BY <2>3, <2>4 DEF ordered
<1>4. Finite!IsOrdered <=> Len(order) = Cardinality(relevant)
  BY FiniteOperators DEF Finite!IsOrdered
<1>5. Cardinality(Range(order)) = Cardinality(relevant) => Range(order) = relevant
  BY <1>1, <1>2, FS_Subset
<1>. QED  BY <1>3, <1>4, <1>5

(* What is left without a ready state is a cycle; an order leaves no room   *)
(* for one.                                                                 *)
LEMMA CycleOrOrder ==
  ASSUME AnalysisInv, OrderIsSound, OrderSearch, pc = "topological", work = {}
  PROVE  Finite!IsOrdered <=> ~Finite!HasUsefulCycle[problem]
<1>. DEFINE useful == Finite!DependencyRules
            Cyclic(S) == \A q \in S : \E r \in useful : r.result = q /\ Range(r.children) \cap S # {}
<1>1. Finite!HasUsefulCycle[problem] <=> \E S \in (SUBSET Nodes) \ {{}} : Cyclic(S)
  <2>1. problem \in Problems /\ Finite!DependencyRules = Finite!UsefulIn[problem]
    BY UsefulFromInv, FiniteOperators DEF KeepsUsefulRules, Finite!KeepsUsefulRules, AnalysisInv
  <2>. QED  BY <2>1, FiniteOperators DEF Finite!HasUsefulCycle, Finite!HasCycle
<1>2. \A r \in useful : r.result \in relevant /\ Range(r.children) \subseteq relevant
  BY UsefulFromInv, FiniteOperators DEF KeepsUsefulRules, Finite!KeepsUsefulRules, Finite!DependencyRules
<1>3. relevant \subseteq Nodes /\ Range(order) \subseteq relevant
  <2>1. relevant \subseteq Nodes
    BY AutomatonFacts, BelowIsLeast DEF AnalysisInv
  <2>. QED  BY <2>1 DEF OrderIsSound, Range
<1>4. ASSUME Range(order) # relevant PROVE \E S \in (SUBSET Nodes) \ {{}} : Cyclic(S)
  <2>. DEFINE left_over == relevant \ Range(order)
  <2>1. left_over \in (SUBSET Nodes) \ {{}}
    BY <1>3, <1>4
  <2>2. ASSUME NEW q \in left_over
        PROVE  \E r \in useful : r.result = q /\ Range(r.children) \cap left_over # {}
    <3>1. PICK e : e \in Open(q)
      BY <2>2 DEF OrderSearch
    <3>2. /\ e[1] \in useful /\ e[1].result = q /\ EndOf(e) \in Range(e[1].children)
          /\ EndOf(e) \notin Range(order)
      BY <3>1, EdgeFacts DEF Open
    <3>. QED  BY <1>2, <3>2
  <2>. QED  BY <2>1, <2>2
<1>5. ASSUME Range(order) = relevant, NEW S \in (SUBSET Nodes) \ {{}}, Cyclic(S) PROVE FALSE
  <2>. DEFINE T == {n \in Nat : \A k \in 1..Len(order) : k <= n => order[k] \notin S}
  <2>1. Len(order) \in Nat /\ Range(order) = {order[k] : k \in 1..Len(order)}
    BY DEF OrderIsSound, Range
  <2>2. 0 \in T
    BY <2>1
  <2>3. ASSUME NEW n \in Nat, n \in T PROVE n + 1 \in T
    <3>. SUFFICES ASSUME n + 1 \in 1..Len(order), order[n + 1] \in S PROVE FALSE
      BY <2>1, <2>3
    <3>1. PICK r \in useful : r.result = order[n + 1] /\ Range(r.children) \cap S # {}
      BY <1>5
    <3>2. PICK c \in Range(r.children) : c \in S
      BY <3>1
    <3>3. PICK j \in 1..Len(order) : j < n + 1 /\ order[j] = c
      BY <3>1 DEF OrderIsSound
    <3>4. j <= n
      BY <2>1, <3>3
    <3>. QED  BY <2>3, <3>2, <3>3, <3>4
  <2>4. Nat \subseteq T
    <3>. HIDE DEF T
    <3>. QED  BY <2>2, <2>3, SetInduction
  <2>5. \A k \in 1..Len(order) : order[k] \notin S
    BY <2>1, <2>4
  <2>6. PICK q \in S : TRUE
    OBVIOUS
  <2>7. q \in relevant
    BY <1>2, <1>5
  <2>. QED  BY <1>5, <2>1, <2>5, <2>7
<1>. QED  BY <1>1, <1>4, <1>5, OrderedAre

LEMMA EndTopologicalKeepsOrder ==
  ASSUME OrderInv, AnalysisInv', Finite!EndTopological
  PROVE  OrderInv'
<1>1. /\ pc = "topological" /\ work = {} /\ order' = order /\ relevant' = relevant
      /\ problem' = problem /\ productive_rules' = productive_rules
      /\ IF Finite!IsOrdered THEN pc' = "count" /\ cardinality' = cardinality
         ELSE pc' = "done" /\ cardinality' = Finite!Infinite
  BY DEF Finite!EndTopological
<1>2. AnalysisInv /\ OrderIsSound /\ OrderSearch
  BY <1>1 DEF OrderInv
<1>3. Finite!IsOrdered <=> ~Finite!HasUsefulCycle[problem]
  BY <1>1, <1>2, CycleOrOrder
<1>4. OrderIsSound' /\ (Finite!IsOrdered' <=> Finite!IsOrdered)
      /\ Finite!HasUsefulCycle[problem]' = Finite!HasUsefulCycle[problem]
  BY <1>1, <1>2 DEF OrderIsSound, Finite!IsOrdered, Finite!DependencyRules
<1>. QED  BY <1>1, <1>3, <1>4 DEF OrderInv

LEMMA StepOrder == OrderInv /\ [Finite!Next]_(Finite!vars) => OrderInv'
<1>. SUFFICES ASSUME OrderInv, [Finite!Next]_(Finite!vars) PROVE OrderInv'
  OBVIOUS
<1>0. AnalysisInv /\ AnalysisInv'
  BY StepAnalysis DEF OrderInv
<1>. DEFINE Unordered == /\ pc' \in {"productive", "relevant"} /\ pc \in {"productive", "relevant"}
                         /\ order' = order
            Kept == /\ problem' = problem /\ order' = order /\ relevant' = relevant
                    /\ productive_rules' = productive_rules
<1>1. ASSUME Unordered PROVE OrderInv'
  BY <1>0, <1>1 DEF OrderInv
<1>2. ASSUME Kept
      PROVE  /\ OrderIsSound <=> OrderIsSound'
             /\ Finite!IsOrdered <=> Finite!IsOrdered'
             /\ Finite!HasUsefulCycle[problem]' = Finite!HasUsefulCycle[problem]
  BY <1>2 DEF OrderIsSound, Finite!IsOrdered, Finite!DependencyRules
<1>3. Finite!TooManyTrees # Finite!Infinite /\ \A n : Finite!Counted(n) # Finite!Infinite
  <2>1. Finite!Infinite[1] = "infinite" /\ Finite!TooManyTrees[1] = "too large"
        /\ \A n : Finite!Counted(n)[1] = "count"
    BY DEF Finite!TooManyTrees, Finite!Infinite, Finite!Counted
  <2>. QED  BY <2>1
<1>4. CASE \E q \in work : Finite!Propagate(q)
  <2>1. Unordered
    BY <1>4 DEF Finite!Propagate
  <2>. QED  BY <1>1, <2>1
<1>5. CASE \E q \in work : Finite!MarkRelevant(q)
  <2>1. Unordered
    BY <1>5 DEF Finite!MarkRelevant
  <2>. QED  BY <1>1, <2>1
<1>6. CASE Finite!StartRelevant
  <2>1. Unordered
    BY <1>6 DEF Finite!StartRelevant
  <2>. QED  BY <1>1, <2>1
<1>7. CASE \E q \in work : Finite!Order(q)
  BY <1>0, <1>7, OrderKeepsOrder
<1>8. CASE Finite!StartTopological
  BY <1>0, <1>8, StartTopologicalKeepsOrder
<1>9. CASE Finite!EndTopological
  BY <1>0, <1>9, EndTopologicalKeepsOrder
<1>10. CASE Finite!Count
  <2>1. /\ Kept /\ pc = "count"
        /\ \/ pc' = "count"
           \/ pc' = "done" /\ cardinality' = Finite!TooManyTrees
    BY <1>10 DEF Finite!Count
  <2>. QED  BY <1>0, <1>2, <1>3, <2>1 DEF OrderInv
<1>11. CASE Finite!EndCount
  <2>1. /\ Kept /\ pc = "count" /\ pc' = "done"
        /\ cardinality' = Finite!TooManyTrees \/ cardinality' = Finite!Counted(Finite!GrandTotal)
    BY <1>11 DEF Finite!EndCount
  <2>. QED  BY <1>0, <1>2, <1>3, <2>1 DEF OrderInv
<1>12. CASE UNCHANGED Finite!vars
  <2>1. Kept /\ pc' = pc /\ work' = work /\ dependency_count' = dependency_count
        /\ cardinality' = cardinality
    BY <1>12 DEF Finite!vars
  <2>2. OrderSearch => OrderSearch'
    BY <2>1 DEF OrderSearch, Open, EndOf, Finite!EdgesInto, Finite!DependencyRules
  <2>. QED  BY <1>0, <1>2, <2>1, <2>2 DEF OrderInv
<1>. QED
  BY <1>4, <1>5, <1>6, <1>7, <1>8, <1>9, <1>10, <1>11, <1>12 DEF Finite!Next

LEMMA StepPlan ==
  OrderInv /\ PlanInv /\ [Finite!FiniteNext]_(Finite!finite_vars) => OrderInv' /\ PlanInv'
<1>. SUFFICES ASSUME OrderInv, PlanInv, [Finite!FiniteNext]_(Finite!finite_vars)
              PROVE  OrderInv' /\ PlanInv'
  OBVIOUS
<1>1. [Finite!Next]_(Finite!vars)
  BY DEF Finite!FiniteNext, Finite!finite_vars, Finite!Analyze, Finite!NewPlan,
         Finite!StartAcceptingState, Finite!Exhaust, Finite!RebuildSuffix, Finite!Expand
<1>2. OrderInv'
  BY <1>1, StepOrder
<1>3. CASE Finite!Analyze
  <2>1. iterator' = iterator /\ Finite!Next
    BY <1>3 DEF Finite!Analyze, Finite!enumeration
  <2>2. pc # "done"
    BY <2>1 DEF Finite!Next, Finite!Propagate, Finite!MarkRelevant, Finite!Order, Finite!StartRelevant,
                Finite!StartTopological, Finite!EndTopological, Finite!Count, Finite!EndCount
  <2>. QED  BY <2>1, <2>2, <1>2 DEF PlanInv
<1>4. ASSUME UNCHANGED Finite!vars
      PROVE  pc' = pc /\ (Finite!IsOrdered' <=> Finite!IsOrdered)
  BY <1>4 DEF Finite!vars, Finite!IsOrdered
<1>5. CASE Finite!NewPlan
  <2>1. /\ pc = "done" /\ UNCHANGED Finite!vars
        /\ iterator' = IF Finite!IsOrdered THEN "idle" ELSE "error"
    BY <1>5 DEF Finite!NewPlan
  <2>. QED  BY <1>2, <1>4, <2>1 DEF PlanInv
<1>6. CASE \/ \E q \in accepting : Finite!StartAcceptingState(q)
           \/ Finite!Exhaust \/ Finite!RebuildSuffix \/ Finite!Expand
  <2>1. /\ UNCHANGED Finite!vars
        /\ iterator \in {"idle", "current", "expanding"}
        /\ iterator' \in {"expanding", "exhausted", "current"}
    BY <1>6 DEF Finite!StartAcceptingState, Finite!Exhaust, Finite!RebuildSuffix, Finite!Expand,
                Finite!IsDone
  <2>. QED  BY <1>2, <1>4, <2>1 DEF PlanInv
<1>7. CASE UNCHANGED Finite!finite_vars
  <2>1. UNCHANGED Finite!vars /\ iterator' = iterator
    BY <1>7 DEF Finite!finite_vars, Finite!enumeration
  <2>. QED  BY <1>2, <1>4, <2>1 DEF PlanInv
<1>. QED
  BY <1>3, <1>5, <1>6, <1>7 DEF Finite!FiniteNext

LEMMA FiniteInAnyQuery == Spec => [](OrderInv /\ PlanInv)
<1>1. Init => OrderInv /\ PlanInv
  BY InitOrder DEF Init
<1>2. OrderInv /\ PlanInv /\ [Next]_vars => (OrderInv /\ PlanInv)'
  <2>. SUFFICES ASSUME OrderInv, PlanInv, [Next]_vars PROVE (OrderInv /\ PlanInv)'
    OBVIOUS
  <2>1. [Finite!FiniteNext]_(Finite!finite_vars)
    <3>1. problem' = problem
      BY QueriesKeepTheirChart
    <3>2. CASE AskFinite
      BY <3>2 DEF AskFinite
    <3>3. CASE UNCHANGED finite_vars
      BY <3>1, <3>3 DEF finite_vars, Finite!finite_vars, Finite!vars, Finite!enumeration, Finite!traversal
    <3>. QED
      BY <3>2, <3>3 DEF Next, AskBestTree, AskSorted, AskEstimate, AskStrings, vars
  <2>. QED  BY <2>1, StepPlan
<1>. QED
  BY <1>1, <1>2, PTL DEF Spec

(* language_analysis: on every automaton, with repeated children and dead   *)
(* rules, the productive states and the rules of accepted derivations are   *)
(* found exactly.                                                           *)
THEOREM UsefulRulesKept == Spec => []KeepsUsefulRules
<1>1. OrderInv => KeepsUsefulRules
  BY UsefulFromInv DEF OrderInv
<1>. QED
  BY <1>1, FiniteInAnyQuery, PTL

(* language_cardinality, finite_language: on every automaton a language is  *)
(* called infinite, and a plan for it refused, exactly if a cycle occurs in *)
(* accepted derivations.                                                    *)
THEOREM InfiniteExactly ==
  Spec => [](/\ pc = "done" => (cardinality = Finite!Infinite <=> Finite!HasUsefulCycle[problem])
             /\ Finite!RefusedIfInfinite)
<1>1. OrderInv /\ PlanInv =>
        /\ pc = "done" => (cardinality = Finite!Infinite <=> Finite!HasUsefulCycle[problem])
        /\ Finite!RefusedIfInfinite
  BY DEF OrderInv, PlanInv, Finite!RefusedIfInfinite
<1>. QED
  BY <1>1, FiniteInAnyQuery, PTL
=============================================================================
