-------------------------- MODULE AstarSearch_proofs --------------------------
(***************************************************************************)
(* The A* search finds best scores whatever admissible heuristic steers    *)
(* it: proofs for all problems, options and costs.                         *)
(***************************************************************************)
EXTENDS AstarSearch, Scores_proofs

LEMMA ProblemFacts ==
  ASSUME problem \in Problems
  PROVE  /\ \A r \in problem.rules : IsWeighted(r)
         /\ problem.goals \subseteq Nodes
         /\ problem.estimate \in [Nodes -> Costs]
         /\ problem.inside \in [Nodes -> Costs]
         /\ problem.outside \in [Nodes -> Costs]
         /\ IsInside(problem.rules, problem.inside)
         /\ BoundsOutside(problem.rules, problem.goals, problem.inside, problem.outside)
         /\ \A q \in Nodes : problem.estimate[q] <= problem.outside[q]
         /\ \A q \in problem.filtered : problem.outside[q] = Infinity
BY ProblemsAreWeighted DEF Admissible

LEMMA RuleFacts ==
  ASSUME problem \in Problems, NEW r \in problem.rules, NEW score \in [Nodes -> Costs]
  PROVE  /\ IsWeighted(r)
         /\ r.result \in Nodes
         /\ Range(r.children) \subseteq Nodes
         /\ Inside(r, score) \in Costs
         /\ problem.inside[r.result] <= Inside(r, problem.inside)
<1>1. IsWeighted(r)
  BY ProblemFacts
<1>. QED  BY <1>1, ProblemFacts, ChildrenAreNodes, InsideIsCost DEF IsWeighted, IsInside

LEMMA MeritFacts ==
  ASSUME problem \in Problems, NEW q \in Nodes, NEW inside \in Costs
  PROVE  Merit(q, inside) \in Costs /\ Merit(q, inside) <= inside + problem.outside[q]
<1>1. /\ problem.estimate[q] \in Nat /\ problem.outside[q] \in Nat
      /\ problem.estimate[q] <= problem.outside[q]
  BY ProblemFacts, InfinityIsPositive DEF Costs
<1>2. inside \in Nat /\ inside + problem.estimate[q] \in Nat
  BY <1>1 DEF Costs
<1>3. /\ Capped(inside + problem.estimate[q]) \in Costs
      /\ Capped(inside + problem.estimate[q]) <= inside + problem.estimate[q]
  BY <1>2, CappedIsMin
<1>. QED  BY <1>1, <1>2, <1>3 DEF Costs, Merit

-----------------------------------------------------------------------------
(* The frontier: where every rule has been offered and no open state is on *)
(* a best derivation within a bound, the states of all such derivations    *)
(* are closed with their best scores.                                      *)
LEMMA Frontier ==
  ASSUME IInv, candidates = {}, options.stop_at_first_goal => goal_state = {},
         NEW bound \in Nat, bound < Infinity,
         \A p \in DOMAIN agenda : best_score[p] = problem.inside[p]
                                  => ~(problem.inside[p] + problem.outside[p] <= bound)
  PROVE  \A q \in Nodes : problem.inside[q] + problem.outside[q] <= bound
                          => q \in finalized /\ best_score[q] = problem.inside[q]
<1>. USE InfinityIsPositive DEF Costs
<1>0. /\ problem \in Problems /\ TypeOK /\ NothingForgotten /\ ScoresAreKept
      /\ best_score \in [Nodes -> Costs]
      /\ problem.inside \in [Nodes -> Costs] /\ problem.outside \in [Nodes -> Costs]
  BY ProblemFacts DEF IInv, SearchInv, TypeOK
<1>1. \A q \in Nodes : /\ best_score[q] \in Nat /\ problem.inside[q] \in Nat
                       /\ problem.outside[q] \in Nat
  BY <1>0
<1>2. Expanded = finalized
  BY DEF Expanded
<1>. DEFINE S == {q \in Nodes : problem.inside[q] + problem.outside[q] <= bound
                                => q \in finalized /\ best_score[q] = problem.inside[q]}
<1>3. ASSUME NEW r \in problem.rules,
             Inside(r, problem.inside) = problem.inside[r.result], Range(r.children) \subseteq S
      PROVE  r.result \in S
  <2>. DEFINE p == r.result
  <2>1. /\ IsWeighted(r) /\ p \in Nodes /\ Range(r.children) \subseteq Nodes
        /\ Inside(r, problem.inside) \in Costs
    BY <1>0, RuleFacts
  <2>. SUFFICES ASSUME problem.inside[p] + problem.outside[p] <= bound
                PROVE  p \in finalized /\ best_score[p] = problem.inside[p]
    BY <2>1
  <2>2. Inside(r, problem.inside) < Infinity /\ problem.outside[p] < Infinity
    BY <1>1, <1>3, <2>1
  <2>3. \A q \in Range(r.children) :
           problem.outside[q] + problem.inside[q] <= problem.inside[p] + problem.outside[p]
    BY <1>0, <1>3, <2>2, ProblemFacts DEF BoundsOutside
  <2>4. \A q \in Range(r.children) : q \in finalized /\ best_score[q] = problem.inside[q]
    <3>. TAKE q \in Range(r.children)
    <3>1. q \in S /\ q \in Nodes
      BY <1>3
    <3>2. problem.inside[q] + problem.outside[q] <= bound
      BY <1>1, <2>1, <2>3, <3>1
    <3>. QED  BY <3>1, <3>2
  <2>5. Admits(p)
    BY <1>0, <2>2, ProblemFacts, InfinityIsPositive DEF Admits
  <2>6. best_score[p] <= Inside(r, best_score)
    BY <1>0, <1>2, <2>4, <2>5 DEF NothingForgotten
  <2>7. Inside(r, best_score) = Inside(r, problem.inside)
    BY <1>0, <2>1, <2>4, InsideOfChildren
  <2>8. best_score[p] = problem.inside[p]
    BY <1>0, <1>1, <1>3, <2>1, <2>6, <2>7 DEF ScoresAreKept
  <2>9. best_score[p] < Infinity
    BY <1>3, <2>2, <2>8
  <2>10. p \in finalized \cup DOMAIN agenda
    BY <1>0, <2>1, <2>9 DEF ScoresAreKept
  <2>. QED  BY <2>8, <2>10
<1>4. {q \in Nodes : problem.inside[q] < Infinity} \subseteq S
  <2>1. S \in SUBSET Nodes
    OBVIOUS
  <2>2. \A r \in problem.rules : /\ Inside(r, problem.inside) = problem.inside[r.result]
                                 /\ Range(r.children) \subseteq S
                                 => r.result \in S
    BY <1>3
  <2>. HIDE DEF S
  <2>. QED  BY <1>0, <2>1, <2>2, ProblemFacts DEF IsInside
<1>. SUFFICES ASSUME NEW q \in Nodes, problem.inside[q] + problem.outside[q] <= bound
              PROVE  q \in S
  OBVIOUS
<1>5. problem.inside[q] < Infinity
  BY <1>1
<1>. QED  BY <1>4, <1>5

(* A goal that is known to have the optimum. *)
LEMMA GoalFacts ==
  ASSUME problem \in Problems
  PROVE  LET best == Optimum(problem.goals, problem.inside)
         IN  /\ best \in Costs
             /\ \A q \in problem.goals : best <= problem.inside[q] /\ problem.outside[q] = 0
             /\ best < Infinity => \E q \in problem.goals : problem.inside[q] = best
BY ProblemFacts, OptimumIsLeast DEF BoundsOutside

(* The merit of what is popped before a goal is closed is not above the    *)
(* optimum.                                                                *)
LEMMA PoppedIsPromising ==
  ASSUME IInv, pc = "pop", goal_state = {}, NEW q, IsBest(q)
  PROVE  agenda[q].merit <= Optimum(problem.goals, problem.inside)
<1>. USE InfinityIsPositive DEF Costs
<1>. DEFINE best == Optimum(problem.goals, problem.inside)
<1>0. /\ problem \in Problems /\ TypeOK /\ ScoresAreKept /\ AgendaIsCurrent
      /\ candidates = {} /\ finalized_partners \cap problem.goals = {}
      /\ finalized \subseteq finalized_partners
      /\ DOMAIN agenda \subseteq Nodes
      /\ best_score \in [Nodes -> Costs]
      /\ problem.inside \in [Nodes -> Costs] /\ problem.outside \in [Nodes -> Costs]
      /\ problem.goals \subseteq Nodes
  BY ProblemFacts DEF IInv, SearchInv, TypeOK, CandidatesAreReady, GoalIsFirst
<1>1. best \in Costs
  BY <1>0, GoalFacts
<1>2. \A p \in DOMAIN agenda : agenda[p].merit \in Costs
  BY <1>0 DEF TypeOK
<1>. SUFFICES ASSUME best < agenda[q].merit PROVE FALSE
  BY <1>1, <1>2 DEF IsBest
<1>. HIDE DEF best
<1>3. best \in Nat /\ best < Infinity
  BY <1>1, <1>2 DEF IsBest
<1>4. ASSUME NEW p \in DOMAIN agenda, best_score[p] = problem.inside[p],
             problem.inside[p] + problem.outside[p] <= best
      PROVE  FALSE
  <2>1. p \in Nodes /\ best_score[p] \in Costs /\ problem.outside[p] \in Nat
    BY <1>0
  <2>2. agenda[p].merit <= best_score[p] + problem.outside[p]
    BY <1>0, <2>1, MeritFacts DEF AgendaIsCurrent
  <2>3. agenda[q].merit <= agenda[p].merit
    BY DEF IsBest
  <2>4. agenda[p].merit \in Nat /\ agenda[q].merit \in Nat
    BY <1>2 DEF IsBest
  <2>. QED  BY <1>3, <1>4, <2>1, <2>2, <2>3, <2>4
<1>5. \A p \in Nodes : problem.inside[p] + problem.outside[p] <= best => p \in finalized
  BY <1>0, <1>3, <1>4, Frontier
<1>6. PICK g \in problem.goals : problem.inside[g] = best /\ problem.outside[g] = 0
  BY <1>0, <1>3, GoalFacts DEF best
<1>7. g \in finalized
  BY <1>0, <1>3, <1>5, <1>6
<1>. QED  BY <1>0, <1>6, <1>7

LEMMA PoppedGoalIsBest ==
  ASSUME IInv, pc = "pop", goal_state = {}, NEW q \in problem.goals, IsBest(q)
  PROVE  /\ best_score[q] = Optimum(problem.goals, problem.inside)
         /\ agenda[q].merit = best_score[q]
<1>. USE InfinityIsPositive DEF Costs
<1>0. /\ problem \in Problems /\ TypeOK /\ ScoresAreKept /\ AgendaIsCurrent
      /\ q \in Nodes
      /\ best_score \in [Nodes -> Costs]
      /\ problem.inside \in [Nodes -> Costs] /\ problem.outside \in [Nodes -> Costs]
      /\ problem.estimate \in [Nodes -> Costs]
  BY ProblemFacts DEF IInv, SearchInv, TypeOK
<1>1. /\ Optimum(problem.goals, problem.inside) \in Costs
      /\ Optimum(problem.goals, problem.inside) <= problem.inside[q]
      /\ problem.outside[q] = 0
  BY <1>0, GoalFacts
<1>2. problem.inside[q] <= best_score[q] /\ best_score[q] \in Costs /\ problem.inside[q] \in Costs
  BY <1>0 DEF ScoresAreKept
<1>3. problem.estimate[q] = 0
  <2>1. problem.estimate[q] <= problem.outside[q] /\ problem.estimate[q] \in Nat
    BY <1>0, ProblemFacts
  <2>. QED  BY <1>1, <2>1
<1>4. agenda[q].merit = best_score[q]
  <2>1. agenda[q].merit = Capped(best_score[q] + 0)
    BY <1>0, <1>3 DEF AgendaIsCurrent, IsBest, Merit
  <2>2. best_score[q] \in Nat /\ best_score[q] <= Infinity
    BY <1>2
  <2>. QED  BY <2>1, <2>2, InfinityIsPositive DEF Capped
<1>5. agenda[q].merit <= Optimum(problem.goals, problem.inside)
  BY PoppedIsPromising
<1>. QED  BY <1>1, <1>2, <1>4, <1>5

(* When nothing is left to do, the scores of the goals are the best ones.  *)
LEMMA NothingOpenIsDone ==
  ASSUME IInv, candidates = {}, options.stop_at_first_goal => goal_state = {},
         DOMAIN agenda = {}
  PROVE  /\ \A q \in Nodes : problem.inside[q] + problem.outside[q] < Infinity
                             => q \in finalized /\ best_score[q] = problem.inside[q]
         /\ Optimum(problem.goals, problem.inside) < Infinity =>
               \E g \in problem.goals : /\ g \in finalized
                                        /\ best_score[g] = problem.inside[g]
                                        /\ problem.inside[g] = Optimum(problem.goals, problem.inside)
<1>. USE InfinityIsPositive DEF Costs
<1>0. /\ problem \in Problems
      /\ problem.inside \in [Nodes -> Costs] /\ problem.outside \in [Nodes -> Costs]
      /\ problem.goals \subseteq Nodes
  BY ProblemFacts DEF IInv
<1>1. ASSUME NEW q \in Nodes, problem.inside[q] + problem.outside[q] < Infinity
      PROVE  q \in finalized /\ best_score[q] = problem.inside[q]
  <2>1. problem.inside[q] \in Nat /\ problem.outside[q] \in Nat
    BY <1>0
  <2>. DEFINE bound == problem.inside[q] + problem.outside[q]
  <2>2. bound \in Nat /\ bound < Infinity /\ bound <= bound
    BY <1>1, <2>1
  <2>3. \A p \in Nodes : problem.inside[p] + problem.outside[p] <= bound
                         => p \in finalized /\ best_score[p] = problem.inside[p]
    <3>. HIDE DEF bound
    <3>. QED  BY <2>2, Frontier
  <2>. QED  BY <2>2, <2>3
<1>2. ASSUME Optimum(problem.goals, problem.inside) < Infinity
      PROVE  \E g \in problem.goals : /\ g \in finalized
                                      /\ best_score[g] = problem.inside[g]
                                      /\ problem.inside[g] = Optimum(problem.goals, problem.inside)
  <2>1. PICK g \in problem.goals : /\ problem.inside[g] = Optimum(problem.goals, problem.inside)
                                   /\ problem.outside[g] = 0
    BY <1>0, <1>2, GoalFacts
  <2>2. g \in Nodes /\ problem.inside[g] + problem.outside[g] < Infinity
    BY <1>0, <1>2, <2>1
  <2>. QED  BY <1>1, <2>1, <2>2
<1>. QED  BY <1>1, <1>2

(* The first goal that ends a search has the optimum. *)
LEMMA ClosedGoalIsPossible ==
  ASSUME IInv, goal_state # {}
  PROVE  Optimum(problem.goals, problem.inside) < Infinity
<1>. USE InfinityIsPositive DEF Costs
<1>1. PICK g \in finalized_partners \cap problem.goals : goal_state = {g}
  BY DEF IInv, SearchInv, GoalIsFirst
<1>2. /\ problem \in Problems /\ g \in Nodes
      /\ problem.inside[g] \in Costs /\ best_score[g] \in Costs
      /\ problem.inside[g] <= best_score[g] /\ best_score[g] < Infinity
  BY <1>1, ProblemFacts DEF IInv, SearchInv, TypeOK, ScoresAreKept
<1>3. /\ Optimum(problem.goals, problem.inside) \in Costs
      /\ Optimum(problem.goals, problem.inside) <= problem.inside[g]
  BY <1>1, <1>2, GoalFacts
<1>. QED  BY <1>2, <1>3

-----------------------------------------------------------------------------
(* Every step keeps the invariant. *)

LEMMA InitInv ==
  ASSUME Init
  PROVE  IInv
<1>. USE InfinityIsPositive DEF Costs
<1>1. /\ problem \in Problems /\ options \in Options
      /\ \A q \in Nodes : problem.inside[q] \in Costs
      /\ \A r \in problem.rules : IsWeighted(r)
  BY ProblemFacts DEF Init
<1>2. \A q \in Nodes : best_score[q] = Infinity
  BY DEF Init, Impossible
<1>3. \A r \in candidates : r \in problem.rules /\ Range(r.children) = {}
  BY DEF Init, Seeds, Range
<1>4. TypeOK
  <2>1. best_score \in [Nodes -> Costs]
    BY ImpossibleIsScore DEF Init
  <2>2. DOMAIN agenda = {} /\ DOMAIN backpointers = {}
    BY DEF Init
  <2>. QED  BY <1>3, <2>1, <2>2 DEF Init, TypeOK
<1>5. NothingForgotten
  <2>. SUFFICES ASSUME NEW r \in problem.rules, Range(r.children) \subseteq Expanded
                PROVE  r \in candidates
    BY DEF NothingForgotten
  <2>1. Range(r.children) = {}
    BY DEF Init, Expanded
  <2>2. r.children \in Seq(Nodes)
    BY <1>1 DEF IsWeighted
  <2>3. Len(r.children) \in Nat /\ Range(r.children) = {r.children[i] : i \in 1..Len(r.children)}
    BY <2>2, ChildrenAreNodes
  <2>4. Len(r.children) = 0
    <3>. SUFFICES ASSUME Len(r.children) # 0 PROVE FALSE
      OBVIOUS
    <3>1. 1 \in 1..Len(r.children)
      BY <2>3
    <3>. QED  BY <2>1, <2>3, <3>1
  <2>5. r.children = <<>>
    BY <2>2, <2>4
  <2>. QED  BY <2>5 DEF Init, Seeds
<1>6. DOMAIN agenda = {} /\ finalized_partners = {} /\ goal_state = {} /\ pc = "push"
  BY DEF Init
<1>7. ScoresAreKept
  BY <1>1, <1>2, <1>6 DEF ScoresAreKept
<1>8. CandidatesAreReady
  BY <1>3, <1>6 DEF CandidatesAreReady
<1>9. GoalIsFirst /\ EndIsReached
  BY <1>6 DEF GoalIsFirst, EndIsReached
<1>10. AgendaIsCurrent /\ \A q \in DOMAIN agenda : agenda[q].rule.result = q
  BY <1>6 DEF AgendaIsCurrent
<1>. QED  BY <1>1, <1>4, <1>5, <1>7, <1>8, <1>9, <1>10 DEF IInv, SearchInv

(* What a push that improves its product state changes. *)
LEMMA PushFacts ==
  ASSUME IInv, NEW r \in candidates, PushCandidate(r), Improves(r.result, Inside(r, best_score))
  PROVE  LET inside == Inside(r, best_score)
             parent == r.result
         IN  /\ r \in problem.rules /\ IsWeighted(r) /\ parent \in Nodes /\ inside \in Costs
             /\ inside < best_score[parent]
             /\ finalized' = finalized \ {parent}
             /\ candidates' = candidates \ {r}
             /\ problem' = problem /\ options' = options /\ pc = "push"
             /\ UNCHANGED <<pc, finalized_partners, backpointers, emitted, duplicate, goal_state, cancelled>>
             /\ best_score' \in [Nodes -> Costs]
             /\ best_score'[parent] = inside
             /\ \A q \in Nodes : q # parent => best_score'[q] = best_score[q]
             /\ \A q \in Nodes : best_score'[q] <= best_score[q]
             /\ DOMAIN agenda' = DOMAIN agenda \cup {parent}
             /\ agenda'[parent] = [rule |-> r, merit |-> Merit(parent, inside)]
             /\ \A q \in DOMAIN agenda : q # parent => agenda'[q] = agenda[q]
             /\ \A s \in problem.rules : /\ IsWeighted(s) /\ s.result \in Nodes
                                         /\ Inside(s, best_score) \in Costs
                                         /\ Inside(s, best_score') \in Costs
                                         /\ Inside(s, best_score') <= Inside(s, best_score)
<1>. USE InfinityIsPositive DEF Costs
<1>. DEFINE inside == Inside(r, best_score)
            parent == r.result
<1>0. problem \in Problems /\ best_score \in [Nodes -> Costs] /\ r \in problem.rules
  BY DEF IInv, SearchInv, TypeOK
<1>1. IsWeighted(r) /\ parent \in Nodes /\ inside \in Costs
  BY <1>0, RuleFacts
<1>2. inside < best_score[parent]
  BY DEF Improves
<1>3. /\ best_score' = [best_score EXCEPT ![parent] = inside]
      /\ finalized' = finalized \ {parent}
      /\ agenda' = [p \in DOMAIN agenda \cup {parent} |->
                       IF p = parent THEN [rule |-> r, merit |-> Merit(parent, inside)] ELSE agenda[p]]
      /\ candidates' = candidates \ {r}
      /\ problem' = problem /\ options' = options /\ pc = "push"
      /\ UNCHANGED <<pc, finalized_partners, backpointers, emitted, duplicate, goal_state, cancelled>>
  BY DEF PushCandidate, Reopen, Put, input, closed
<1>. HIDE DEF inside, parent
<1>4. /\ best_score' \in [Nodes -> Costs]
      /\ best_score'[parent] = inside
      /\ \A q \in Nodes : q # parent => best_score'[q] = best_score[q]
      /\ \A q \in Nodes : best_score'[q] <= best_score[q]
  BY <1>0, <1>1, <1>2, <1>3
<1>5. /\ DOMAIN agenda' = DOMAIN agenda \cup {parent}
      /\ agenda'[parent] = [rule |-> r, merit |-> Merit(parent, inside)]
      /\ \A q \in DOMAIN agenda : q # parent => agenda'[q] = agenda[q]
  BY <1>3
<1>6. \A s \in problem.rules : /\ IsWeighted(s) /\ s.result \in Nodes
                               /\ Inside(s, best_score) \in Costs
                               /\ Inside(s, best_score') \in Costs
                               /\ Inside(s, best_score') <= Inside(s, best_score)
  <2>. TAKE s \in problem.rules
  <2>1. /\ IsWeighted(s) /\ s.result \in Nodes /\ Range(s.children) \subseteq Nodes
        /\ Inside(s, best_score) \in Costs /\ Inside(s, best_score') \in Costs
    BY <1>0, <1>4, RuleFacts
  <2>2. \A q \in Range(s.children) : best_score'[q] <= best_score[q]
    BY <1>4, <2>1
  <2>3. Inside(s, best_score') <= Inside(s, best_score)
    BY <1>0, <1>4, <2>1, <2>2, InsideMonotone
  <2>. QED  BY <2>1, <2>3
<1>. QED  BY <1>0, <1>1, <1>2, <1>3, <1>4, <1>5, <1>6 DEF inside, parent

LEMMA ImprovingPush ==
  ASSUME IInv, NEW r \in candidates, PushCandidate(r), Improves(r.result, Inside(r, best_score))
  PROVE  IInv'
<1>. USE InfinityIsPositive DEF Costs
<1>. DEFINE inside == Inside(r, best_score)
            parent == r.result
<1>0. /\ problem \in Problems /\ options \in Options
      /\ TypeOK /\ AgendaIsCurrent /\ NothingForgotten /\ ScoresAreKept
      /\ CandidatesAreReady /\ GoalIsFirst /\ EndIsReached
      /\ \A q \in DOMAIN agenda : agenda[q].rule.result = q
      /\ best_score \in [Nodes -> Costs] /\ problem.inside \in [Nodes -> Costs]
      /\ finalized \subseteq finalized_partners
      /\ r \in problem.rules
      /\ pc = "push"
  BY ProblemFacts DEF IInv, SearchInv, TypeOK, PushCandidate
<1>1. /\ IsWeighted(r) /\ parent \in Nodes /\ inside \in Costs
      /\ problem.inside[parent] <= Inside(r, problem.inside)
      /\ Inside(r, problem.inside) \in Costs
  BY <1>0, RuleFacts
<1>2. inside < best_score[parent]
  BY DEF Improves
<1>3. /\ finalized' = finalized \ {parent}
      /\ candidates' = candidates \ {r}
      /\ problem' = problem /\ options' = options
      /\ pc' = pc /\ finalized_partners' = finalized_partners /\ backpointers' = backpointers
      /\ emitted' = emitted /\ duplicate' = duplicate /\ goal_state' = goal_state
      /\ cancelled' = cancelled
  BY PushFacts
<1>4. /\ best_score' \in [Nodes -> Costs]
      /\ best_score'[parent] = inside
      /\ \A q \in Nodes : q # parent => best_score'[q] = best_score[q]
      /\ \A q \in Nodes : best_score'[q] <= best_score[q]
  BY PushFacts
<1>5. /\ DOMAIN agenda' = DOMAIN agenda \cup {parent}
      /\ agenda'[parent] = [rule |-> r, merit |-> Merit(parent, inside)]
      /\ \A q \in DOMAIN agenda : q # parent => agenda'[q] = agenda[q]
  BY PushFacts
<1>6. \A s \in problem.rules : /\ IsWeighted(s) /\ s.result \in Nodes
                               /\ Inside(s, best_score) \in Costs
                               /\ Inside(s, best_score') \in Costs
                               /\ Inside(s, best_score') <= Inside(s, best_score)
  BY PushFacts
<1>. HIDE DEF inside, parent
<1>7. TypeOK'
  <2>1. Merit(parent, inside) \in Costs
    BY <1>0, <1>1, MeritFacts
  <2>2. \A q \in DOMAIN agenda' : agenda'[q] \in [rule : problem.rules, merit : Costs]
    BY <1>0, <1>5, <2>1 DEF TypeOK
  <2>3. DOMAIN agenda' \subseteq Nodes
    BY <1>0, <1>1, <1>5 DEF TypeOK
  <2>. QED  BY <1>0, <1>3, <1>4, <2>2, <2>3 DEF TypeOK
<1>8. \A q \in DOMAIN agenda' : agenda'[q].rule.result = q
  BY <1>0, <1>5 DEF parent
<1>9. AgendaIsCurrent'
  <2>. SUFFICES ASSUME NEW q \in DOMAIN agenda'
                PROVE  /\ q \notin finalized'
                       /\ agenda'[q].merit = Merit(q, best_score'[q])
                       /\ Inside(agenda'[q].rule, best_score') <= best_score'[q]
                       /\ Range(agenda'[q].rule.children) \subseteq finalized_partners'
    BY <1>3 DEF AgendaIsCurrent, Merit
  <2>1. CASE q = parent
    <3>1. agenda'[q].rule = r /\ agenda'[q].merit = Merit(parent, inside)
      BY <1>5, <2>1
    <3>2. Inside(r, best_score') <= inside
      BY <1>0, <1>6 DEF inside
    <3>. QED  BY <1>0, <1>3, <1>4, <2>1, <3>1, <3>2 DEF CandidatesAreReady
  <2>2. CASE q # parent
    <3>1. q \in DOMAIN agenda /\ q \in Nodes /\ agenda'[q] = agenda[q] /\ best_score'[q] = best_score[q]
          /\ agenda[q].rule \in problem.rules /\ best_score[q] \in Costs
      BY <1>0, <1>4, <1>5, <2>2 DEF TypeOK
    <3>2. Inside(agenda[q].rule, best_score) <= best_score[q]
      BY <1>0, <3>1 DEF AgendaIsCurrent
    <3>3. Inside(agenda[q].rule, best_score') <= best_score'[q]
      BY <1>6, <3>1, <3>2
    <3>. QED  BY <1>0, <1>3, <3>1, <3>3 DEF AgendaIsCurrent
  <2>. QED  BY <2>1, <2>2
<1>10. NothingForgotten'
  <2>. SUFFICES ASSUME NEW s \in problem.rules,
                       Range(s.children) \subseteq Expanded', Admits(s.result), s \notin candidates'
                PROVE  best_score'[s.result] <= Inside(s, best_score')
    BY <1>3 DEF NothingForgotten, Admits
  <2>1. parent \notin Range(s.children) /\ Range(s.children) \subseteq Expanded
    BY <1>3 DEF Expanded
  <2>2. Range(s.children) \subseteq Nodes
    BY <1>0, RuleFacts
  <2>3. Inside(s, best_score') = Inside(s, best_score)
    <3>1. \A q \in Range(s.children) : best_score'[q] = best_score[q]
      BY <1>4, <2>1, <2>2
    <3>. QED  BY <1>0, <1>4, <1>6, <3>1, InsideOfChildren
  <2>4. CASE s = r
    <3>1. Inside(s, best_score') = inside /\ s.result = parent
      BY <2>3, <2>4 DEF inside, parent
    <3>. QED  BY <1>1, <1>4, <3>1
  <2>5. CASE s # r
    <3>1. best_score[s.result] <= Inside(s, best_score)
      BY <1>0, <1>3, <2>1, <2>5 DEF NothingForgotten
    <3>2. /\ best_score'[s.result] \in Costs /\ best_score[s.result] \in Costs
          /\ Inside(s, best_score) \in Costs
          /\ best_score'[s.result] <= best_score[s.result]
      BY <1>0, <1>4, <1>6
    <3>. QED  BY <2>3, <3>1, <3>2
  <2>. QED  BY <2>4, <2>5
<1>11. ScoresAreKept'
  <2>1. problem.inside[parent] <= inside
    <3>1. Range(r.children) \subseteq Nodes
      BY <1>0, RuleFacts
    <3>2. Inside(r, problem.inside) <= inside
      BY <1>0, <1>1, <3>1, InsideMonotone DEF ScoresAreKept, inside
    <3>. QED  BY <1>0, <1>1, <3>2
  <2>2. inside < Infinity
    BY <1>0, <1>1, <1>2
  <2>3. \A q \in Nodes : problem.inside[q] <= best_score'[q]
    BY <1>0, <1>4, <2>1 DEF ScoresAreKept
  <2>4. ASSUME NEW q \in Nodes, best_score'[q] < Infinity
        PROVE  q \in finalized' \cup DOMAIN agenda'
    BY <1>0, <1>3, <1>4, <1>5, <2>4 DEF ScoresAreKept
  <2>5. ASSUME NEW q \in finalized_partners \cup DOMAIN agenda' PROVE best_score'[q] < Infinity
    <3>1. CASE q = parent
      BY <1>4, <2>2, <3>1
    <3>2. CASE q # parent
      <4>1. q \in finalized_partners \cup DOMAIN agenda /\ q \in Nodes
        BY <1>0, <1>5, <2>5, <3>2 DEF TypeOK
      <4>. QED  BY <1>0, <1>4, <3>2, <4>1 DEF ScoresAreKept
    <3>. QED  BY <3>1, <3>2
  <2>. QED  BY <1>3, <2>3, <2>4, <2>5 DEF ScoresAreKept
<1>12. CandidatesAreReady' /\ EndIsReached'
  BY <1>0, <1>3 DEF CandidatesAreReady, EndIsReached
<1>13. GoalIsFirst'
  BY <1>0, <1>3 DEF GoalIsFirst
<1>. QED  BY <1>0, <1>3, <1>7, <1>8, <1>9, <1>10, <1>11, <1>12, <1>13 DEF IInv, SearchInv

(* A push that is filtered or dominated. *)
LEMMA IdlePush ==
  ASSUME IInv, NEW r \in candidates, PushCandidate(r), ~Improves(r.result, Inside(r, best_score))
  PROVE  IInv'
<1>. USE InfinityIsPositive DEF Costs
<1>0. /\ problem \in Problems /\ TypeOK /\ NothingForgotten /\ r \in problem.rules
      /\ best_score \in [Nodes -> Costs]
      /\ pc = "push"
  BY DEF IInv, SearchInv, TypeOK, PushCandidate
<1>1. /\ candidates' = candidates \ {r}
      /\ best_score' = best_score /\ finalized' = finalized /\ agenda' = agenda
      /\ problem' = problem /\ options' = options
      /\ pc' = pc /\ finalized_partners' = finalized_partners /\ backpointers' = backpointers
      /\ emitted' = emitted /\ duplicate' = duplicate /\ goal_state' = goal_state
      /\ cancelled' = cancelled
  BY DEF PushCandidate, input, closed
<1>2. Admits(r.result) => best_score[r.result] <= Inside(r, best_score)
  <2>1. Inside(r, best_score) \in Costs /\ r.result \in Nodes
    BY <1>0, RuleFacts
  <2>2. Inside(r, best_score) \in Nat /\ best_score[r.result] \in Nat
    BY <1>0, <2>1
  <2>3. Admits(r.result) => ~(Inside(r, best_score) < best_score[r.result])
    BY DEF Improves
  <2>. QED  BY <2>2, <2>3
<1>3. NothingForgotten'
  <2>. SUFFICES ASSUME NEW s \in problem.rules,
                       Range(s.children) \subseteq Expanded, Admits(s.result), s \notin candidates'
                PROVE  best_score[s.result] <= Inside(s, best_score)
    BY <1>1 DEF NothingForgotten, Admits, Expanded
  <2>. QED  BY <1>0, <1>1, <1>2 DEF NothingForgotten
<1>4. TypeOK' /\ CandidatesAreReady'
  BY <1>0, <1>1 DEF IInv, SearchInv, TypeOK, CandidatesAreReady
<1>5. AgendaIsCurrent' /\ ScoresAreKept' /\ GoalIsFirst' /\ EndIsReached'
  BY <1>1 DEF IInv, SearchInv, AgendaIsCurrent, Merit, ScoresAreKept, GoalIsFirst, EndIsReached
<1>. QED  BY <1>1, <1>3, <1>4, <1>5 DEF IInv, SearchInv

(* The best open state is closed; a first goal may end the loop. *)
LEMMA Pop ==
  ASSUME IInv, NEW q \in Nodes, PopFinalized(q)
  PROVE  IInv'
<1>. USE InfinityIsPositive DEF Costs
<1>. DEFINE stop == q \in problem.goals /\ options.stop_at_first_goal
<1>0. /\ problem \in Problems /\ options \in Options
      /\ TypeOK /\ AgendaIsCurrent /\ NothingForgotten /\ ScoresAreKept
      /\ CandidatesAreReady /\ GoalIsFirst
      /\ \A p \in DOMAIN agenda : agenda[p].rule.result = p
      /\ pc = "pop" /\ candidates = {}
      /\ q \in DOMAIN agenda /\ IsBest(q)
      /\ agenda[q] \in [rule : problem.rules, merit : Costs]
      /\ finalized \subseteq finalized_partners
  BY DEF IInv, SearchInv, TypeOK, CandidatesAreReady, PopFinalized, IsBest
<1>1. /\ options.stop_at_first_goal => goal_state = {}
      /\ options.stop_at_first_goal \in BOOLEAN /\ options.chart \in BOOLEAN
  BY <1>0, OptionsAreModes DEF GoalIsFirst
<1>2. /\ finalized' = finalized \cup {q}
      /\ agenda' = [p \in DOMAIN agenda \ {q} |-> agenda[p]]
      /\ best_score' = best_score
      /\ problem' = problem /\ options' = options /\ cancelled' = cancelled
      /\ finalized_partners' = finalized_partners \cup {q}
      /\ candidates' = IF stop THEN {} ELSE CandidatesOf(q, finalized_partners \cup {q})
      /\ pc' = IF stop THEN "stopped" ELSE "push"
      /\ goal_state' = IF q \in problem.goals /\ goal_state = {} THEN {q} ELSE goal_state
      /\ backpointers' = IF options.chart THEN backpointers ELSE SetBackpointer(q, agenda[q].rule)
      /\ Emit(agenda[q].rule, agenda[q].merit)
  BY DEF PopFinalized, Activate, Restrict, input
<1>. HIDE DEF stop
<1>3. /\ DOMAIN agenda' = DOMAIN agenda \ {q}
      /\ \A p \in DOMAIN agenda' : agenda'[p] = agenda[p]
  BY <1>2
<1>4. TypeOK'
  <2>1. emitted' \subseteq problem.rules /\ duplicate' \in BOOLEAN
    BY <1>0, <1>2, Zenon DEF Emit, TypeOK
  <2>2. /\ DOMAIN backpointers' \subseteq finalized_partners'
        /\ \A p \in DOMAIN backpointers' : backpointers'[p] \in [rule : problem.rules, score : Costs]
    <3>1. CASE options.chart
      BY <1>0, <1>2, <3>1 DEF TypeOK
    <3>2. CASE ~options.chart
      <4>1. backpointers' = [p \in DOMAIN backpointers \cup {q} |->
                               IF p = q THEN [rule |-> agenda[q].rule, score |-> best_score[q]]
                               ELSE backpointers[p]]
        BY <1>2, <3>2 DEF SetBackpointer, Put
      <4>2. agenda[q].rule \in problem.rules /\ best_score[q] \in Costs
        BY <1>0 DEF TypeOK
      <4>. QED  BY <1>0, <1>2, <4>1, <4>2 DEF TypeOK
    <3>. QED  BY <3>1, <3>2
  <2>3. /\ DOMAIN agenda' \subseteq Nodes
        /\ \A p \in DOMAIN agenda' : agenda'[p] \in [rule : problem.rules, merit : Costs]
    BY <1>0, <1>3 DEF TypeOK
  <2>4. /\ finalized' \subseteq finalized_partners' /\ finalized_partners' \subseteq Nodes
        /\ candidates' \subseteq problem.rules /\ goal_state' \subseteq problem.goals
    BY <1>0, <1>2 DEF TypeOK, CandidatesOf
  <2>. QED  BY <1>0, <1>2, <2>1, <2>2, <2>3, <2>4 DEF TypeOK
<1>5. \A p \in DOMAIN agenda' : agenda'[p].rule.result = p
  BY <1>0, <1>3
<1>6. AgendaIsCurrent'
  BY <1>0, <1>2, <1>3 DEF AgendaIsCurrent, Merit
<1>7. NothingForgotten'
  <2>. SUFFICES ASSUME NEW s \in problem.rules,
                       Range(s.children) \subseteq Expanded', Admits(s.result), s \notin candidates'
                PROVE  Range(s.children) \subseteq Expanded
    BY <1>0, <1>2 DEF NothingForgotten, Admits
  <2>1. CASE stop
    <3>1. goal_state = {} /\ goal_state' = {q} /\ options.stop_at_first_goal
      BY <1>1, <1>2, <2>1 DEF stop
    <3>. QED  BY <1>2, <3>1 DEF Expanded
  <2>2. CASE ~stop
    <3>1. Expanded' \subseteq finalized \cup {q}
      BY <1>2 DEF Expanded
    <3>2. q \notin Range(s.children)
      BY <1>0, <1>2, <2>2, <3>1 DEF CandidatesOf
    <3>3. Range(s.children) \subseteq finalized
      BY <3>1, <3>2
    <3>. QED  BY <1>1, <3>3 DEF Expanded
  <2>. QED  BY <2>1, <2>2
<1>8. ScoresAreKept'
  BY <1>0, <1>2, <1>3 DEF ScoresAreKept
<1>9. CandidatesAreReady'
  BY <1>0, <1>2 DEF CandidatesAreReady, CandidatesOf
<1>10. GoalIsFirst'
  <2>1. goal_state' = {} => finalized_partners' \cap problem.goals = {}
    BY <1>0, <1>2 DEF GoalIsFirst
  <2>2. goal_state' # {} => \E p \in finalized_partners' \cap problem.goals : goal_state' = {p}
    BY <1>0, <1>2 DEF GoalIsFirst
  <2>3. ASSUME options.stop_at_first_goal, goal_state' # {}
        PROVE  /\ pc' \notin {"push", "pop"}
               /\ \A p \in goal_state' : best_score[p] = Optimum(problem.goals, problem.inside)
    <3>1. goal_state = {} /\ stop /\ goal_state' = {q} /\ q \in problem.goals
      BY <1>1, <1>2, <2>3 DEF stop
    <3>2. best_score[q] = Optimum(problem.goals, problem.inside)
      BY <1>0, <3>1, PoppedGoalIsBest
    <3>. QED  BY <1>2, <3>1, <3>2
  <2>. QED  BY <1>2, <2>1, <2>2, <2>3 DEF GoalIsFirst
<1>11. EndIsReached'
  BY <1>2 DEF EndIsReached, stop
<1>. QED  BY <1>0, <1>2, <1>4, <1>5, <1>6, <1>7, <1>8, <1>9, <1>10, <1>11 DEF IInv, SearchInv

(* Steps that leave the scores alone. *)
LEMMA ControlSteps ==
  ASSUME IInv, EndPush \/ EndSearch \/ Return \/ Cancel \/ UNCHANGED vars
  PROVE  IInv'
<1>1. /\ problem' = problem /\ options' = options /\ best_score' = best_score
      /\ agenda' = agenda /\ finalized' = finalized /\ finalized_partners' = finalized_partners
      /\ candidates' = candidates /\ backpointers' = backpointers /\ emitted' = emitted
      /\ duplicate' = duplicate /\ goal_state' = goal_state
  BY DEF EndPush, EndSearch, Return, Cancel, vars, input, closed
<1>2. /\ pc' \in {"push", "pop", "stopped", "done", "cancelled"} /\ cancelled' \in BOOLEAN
      /\ pc' # "push" => candidates = {}
      /\ pc' \in {"push", "pop"} => pc \in {"push", "pop"}
      /\ EndIsReached'
  <2>0. TypeOK /\ CandidatesAreReady /\ EndIsReached
    BY DEF IInv, SearchInv
  <2>1. CASE EndPush
    BY <1>1, <2>0, <2>1 DEF EndPush, TypeOK, CandidatesAreReady, EndIsReached
  <2>2. CASE EndSearch
    BY <1>1, <2>0, <2>2 DEF EndSearch, TypeOK, CandidatesAreReady, EndIsReached
  <2>3. CASE Return
    BY <1>1, <2>0, <2>3 DEF Return, TypeOK, CandidatesAreReady, EndIsReached
  <2>4. CASE Cancel
    BY <1>1, <2>0, <2>4 DEF Cancel, TypeOK, CandidatesAreReady, EndIsReached
  <2>5. CASE UNCHANGED vars
    BY <1>1, <2>0, <2>5 DEF vars, TypeOK, CandidatesAreReady, EndIsReached
  <2>. QED  BY <2>1, <2>2, <2>3, <2>4, <2>5
<1>3. TypeOK' /\ CandidatesAreReady' /\ GoalIsFirst'
  BY <1>1, <1>2 DEF IInv, SearchInv, TypeOK, CandidatesAreReady, GoalIsFirst
<1>4. AgendaIsCurrent' /\ NothingForgotten' /\ ScoresAreKept'
  BY <1>1 DEF IInv, SearchInv, AgendaIsCurrent, Merit, NothingForgotten, Expanded, Admits,
              ScoresAreKept
<1>. QED  BY <1>1, <1>2, <1>3, <1>4 DEF IInv, SearchInv

LEMMA StepInv ==
  ASSUME IInv, [Next]_vars
  PROVE  IInv'
<1>1. ASSUME NEW r \in candidates, PushCandidate(r) PROVE IInv'
  BY <1>1, ImprovingPush, IdlePush
<1>2. ASSUME NEW q \in Nodes, PopFinalized(q) PROVE IInv'
  BY <1>2, Pop
<1>. QED  BY <1>1, <1>2, ControlSteps DEF Next, Work

-----------------------------------------------------------------------------
(* Theorems. *)

LEMMA Invariance == Spec => []IInv
<1>. QED  BY InitInv, StepInv, PTL DEF Spec

(* Every variable of the A* search of astar.rs keeps its type. *)
THEOREM TypeCorrect == Spec => []TypeOK
<1>1. IInv => TypeOK
  BY DEF IInv, SearchInv
<1>. QED  BY <1>1, Invariance, PTL

(* The agenda entry of an open product state always has the merit of its   *)
(* best score and a rule that is worth it: the heap of pop_next_finalized  *)
(* never acts on a stale entry.                                            *)
THEOREM AgendaStaysCurrent == Spec => []AgendaIsCurrent
<1>1. IInv => AgendaIsCurrent
  BY DEF IInv, SearchInv
<1>. QED  BY <1>1, Invariance, PTL

(* Snapshots of candidates, moving scores and reopened states never lose a *)
(* rule: expand_from_finalized and push_candidate together miss nothing.   *)
THEOREM NothingIsForgotten == Spec => []NothingForgotten
<1>1. IInv => NothingForgotten
  BY DEF IInv, SearchInv
<1>. QED  BY <1>1, Invariance, PTL

(* Whatever admissible heuristic steers it, consistent or not, the search  *)
(* returns the optimum: its first goal has it, and a search that goes on   *)
(* ends with the best score of every state that an answer can use.         *)
THEOREM AnswerIsOptimal == Spec => []OptimalAnswer
<1>1. ASSUME IInv PROVE OptimalAnswer
  <2>. USE InfinityIsPositive DEF Costs
  <2>. SUFFICES ASSUME pc = "done"
                PROVE  /\ goal_state = {} <=> Optimum(problem.goals, problem.inside) = Infinity
                       /\ options.stop_at_first_goal =>
                             \A q \in goal_state :
                                best_score[q] = Optimum(problem.goals, problem.inside)
                       /\ ~options.stop_at_first_goal =>
                             \A q \in Nodes : problem.inside[q] + problem.outside[q] < Infinity
                                => q \in finalized /\ best_score[q] = problem.inside[q]
    BY DEF OptimalAnswer
  <2>1. /\ candidates = {} /\ GoalIsFirst /\ problem \in Problems
        /\ finalized \subseteq finalized_partners
        /\ DOMAIN agenda = {} \/ (options.stop_at_first_goal /\ goal_state # {})
    BY <1>1 DEF IInv, SearchInv, CandidatesAreReady, EndIsReached, TypeOK
  <2>2. ASSUME goal_state = {} PROVE Optimum(problem.goals, problem.inside) = Infinity
    <3>1. \A g \in problem.goals : g \notin finalized
      BY <2>1, <2>2 DEF GoalIsFirst
    <3>2. ~(Optimum(problem.goals, problem.inside) < Infinity)
      BY <1>1, <2>1, <2>2, <3>1, NothingOpenIsDone
    <3>3. Optimum(problem.goals, problem.inside) \in Costs
      BY <2>1, GoalFacts
    <3>. QED  BY <3>2, <3>3
  <2>3. ASSUME goal_state # {} PROVE Optimum(problem.goals, problem.inside) # Infinity
    BY <1>1, <2>3, ClosedGoalIsPossible
  <2>4. ASSUME options.stop_at_first_goal, NEW q \in goal_state
        PROVE  best_score[q] = Optimum(problem.goals, problem.inside)
    BY <2>1, <2>4 DEF GoalIsFirst
  <2>5. ASSUME ~options.stop_at_first_goal
        PROVE  \A q \in Nodes : problem.inside[q] + problem.outside[q] < Infinity
                                => q \in finalized /\ best_score[q] = problem.inside[q]
    BY <1>1, <2>1, <2>5, NothingOpenIsDone
  <2>. QED  BY <2>2, <2>3, <2>4, <2>5
<1>. QED  BY <1>1, Invariance, PTL

(* A search for one goal closes no state whose merit is above the optimum. *)
THEOREM NothingWorseExpanded == Spec => NothingWorseIsExpanded
<1>1. ASSUME IInv, NEW q \in DOMAIN agenda, PopFinalized(q), options.stop_at_first_goal
      PROVE  agenda[q].merit <= Optimum(problem.goals, problem.inside)
  <2>1. pc = "pop" /\ IsBest(q) /\ goal_state = {}
    BY <1>1 DEF PopFinalized, IInv, SearchInv, GoalIsFirst
  <2>. QED  BY <1>1, <2>1, PoppedIsPromising
<1>2. IInv => [\A q \in DOMAIN agenda :
                  PopFinalized(q) /\ options.stop_at_first_goal
                  => agenda[q].merit <= Optimum(problem.goals, problem.inside)]_vars
  BY <1>1
<1>. QED  BY <1>2, Invariance, PTL DEF NothingWorseIsExpanded

-----------------------------------------------------------------------------
(* What is handed out is worth its score. *)

(* A rule that improves a state derives it from others: a derivation that  *)
(* used the state would cost at least what the state has cost so far.      *)
LEMMA ImprovementDerives ==
  ASSUME NEW score \in [Nodes -> Costs],
         NEW rule, DOMAIN rule \subseteq Nodes, Derive(rule),
         \A q \in DOMAIN rule : IsWeighted(rule[q]) /\ Inside(rule[q], score) <= score[q],
         NEW r, IsWeighted(r), Range(r.children) \subseteq DOMAIN rule,
         NEW parent \in Nodes, Inside(r, score) < score[parent],
         NEW better, DOMAIN better = DOMAIN rule \cup {parent}, better[parent] = r,
         \A q \in DOMAIN rule : q # parent => better[q] = rule[q]
  PROVE  Derive(better)
<1>. DEFINE found == DOMAIN rule
<1>. SUFFICES ASSUME NEW S \in SUBSET Nodes,
                     \A q \in DOMAIN better : Range(better[q].children) \subseteq S => q \in S
              PROVE  DOMAIN better \subseteq S
  BY DEF Derive
<1>2. /\ \A q \in found : q # parent /\ Range(rule[q].children) \subseteq S => q \in S
      /\ Range(r.children) \subseteq S => parent \in S
  OBVIOUS
<1>. DEFINE U == S \cup {q \in Nodes : score[parent] <= score[q]}
<1>3. \A q \in Nodes : score[q] \in Nat
  BY InfinityIsPositive DEF Costs
<1>4. ASSUME NEW q \in found, Range(rule[q].children) \subseteq U PROVE q \in U
  <2>. SUFFICES ASSUME ~(score[parent] <= score[q]) PROVE q \in S
    OBVIOUS
  <2>1. /\ q \in Nodes /\ q # parent /\ IsWeighted(rule[q])
        /\ Inside(rule[q], score) <= score[q] /\ Inside(rule[q], score) \in Nat
    BY <1>3, InsideIsCost, InfinityIsPositive DEF Costs
  <2>2. ASSUME NEW x \in Range(rule[q].children) PROVE x \in S
    <3>1. x \in Nodes /\ score[x] <= Inside(rule[q], score)
      BY <2>1, ChildrenAreNodes, InsideAboveChildren DEF IsWeighted
    <3>2. ~(score[parent] <= score[x])
      BY <1>3, <2>1, <3>1
    <3>. QED  BY <1>4, <3>2
  <2>. QED  BY <1>2, <2>1, <2>2
<1>5. found \subseteq U
  <2>1. U \in SUBSET Nodes /\ DOMAIN rule = found
    OBVIOUS
  <2>. HIDE DEF U
  <2>. QED  BY <1>4, <2>1 DEF Derive
<1>6. ASSUME NEW x \in Range(r.children) PROVE x \in S
  <2>1. x \in Nodes /\ score[x] <= Inside(r, score)
    BY ChildrenAreNodes, InsideAboveChildren DEF IsWeighted
  <2>3. Inside(r, score) \in Nat
    BY InsideIsCost, InfinityIsPositive DEF Costs
  <2>2. ~(score[parent] <= score[x])
    BY <1>3, <2>1, <2>3
  <2>. QED  BY <1>5, <2>2
<1>7. parent \in S
  BY <1>2, <1>6
<1>8. found \subseteq S
  <2>1. DOMAIN rule = found /\ \A q \in found : Range(rule[q].children) \subseteq S => q \in S
    BY <1>2, <1>7
  <2>. QED  BY <2>1 DEF Derive
<1>. QED  BY <1>7, <1>8

LEMMA MeritStrict ==
  ASSUME problem \in Problems, NEW q \in Nodes, NEW inside \in Costs, NEW other \in Costs,
         inside < other, Merit(q, other) < Infinity
  PROVE  Merit(q, inside) < Merit(q, other)
<1>1. problem.estimate[q] \in Nat /\ inside \in Nat /\ other \in Nat
  BY ProblemFacts, InfinityIsPositive DEF Costs
<1>. QED  BY <1>1, InfinityIsPositive DEF Merit, Capped

LEMMA InitAnswer ==
  ASSUME Init
  PROVE  AnswerInv
<1>1. finalized = {} /\ DOMAIN agenda = {} /\ finalized_partners = {} /\ goal_state = {}
  BY DEF Init
<1>. DEFINE rule == [q \in {} |-> CHOOSE r \in problem.rules : TRUE]
<1>2. rule \in [finalized \cup DOMAIN agenda -> problem.rules] /\ DOMAIN rule = {}
  BY <1>1
<1>3. Derive(rule)
  BY <1>2 DEF Derive
<1>. HIDE DEF rule
<1>4. WinnersAreKept
  BY <1>1, <1>2, <1>3 DEF WinnersAreKept
<1>5. ReopenedIsBetter
  BY <1>1 DEF ReopenedIsBetter
<1>. QED  BY <1>4, <1>5 DEF AnswerInv

LEMMA PushAnswer ==
  ASSUME IInv, AnswerInv,
         NEW r \in candidates, PushCandidate(r), Improves(r.result, Inside(r, best_score))
  PROVE  AnswerInv'
<1>. USE InfinityIsPositive DEF Costs
<1>. DEFINE parent == r.result
            found == finalized \cup DOMAIN agenda
<1>0. /\ problem \in Problems /\ best_score \in [Nodes -> Costs]
      /\ finalized \subseteq finalized_partners /\ finalized_partners \subseteq Nodes
      /\ DOMAIN agenda \subseteq Nodes
      /\ \A s \in problem.rules : IsWeighted(s)
      /\ Range(r.children) \subseteq finalized_partners
      /\ finalized_partners \subseteq found
      /\ \A q \in DOMAIN agenda : q \notin finalized
  BY ProblemFacts DEF IInv, SearchInv, TypeOK, CandidatesAreReady, ScoresAreKept, AgendaIsCurrent
<1>1. /\ r \in problem.rules /\ parent \in Nodes /\ Inside(r, best_score) \in Costs
      /\ Inside(r, best_score) < best_score[parent]
      /\ finalized' = finalized \ {parent}
      /\ problem' = problem /\ options' = options /\ pc = "push"
      /\ finalized_partners' = finalized_partners /\ backpointers' = backpointers
      /\ emitted' = emitted /\ goal_state' = goal_state
  BY PushFacts
<1>2. /\ best_score' \in [Nodes -> Costs]
      /\ best_score'[parent] = Inside(r, best_score)
      /\ \A q \in Nodes : q # parent => best_score'[q] = best_score[q]
  BY PushFacts
<1>3. /\ DOMAIN agenda' = DOMAIN agenda \cup {parent} /\ agenda'[parent].rule = r
      /\ \A q \in DOMAIN agenda : q # parent => agenda'[q] = agenda[q]
  <2>1. agenda'[parent] = [rule |-> r, merit |-> Merit(parent, Inside(r, best_score))]
    BY PushFacts
  <2>2. agenda'[parent].rule = r
    BY <2>1
  <2>3. /\ DOMAIN agenda' = DOMAIN agenda \cup {parent}
        /\ \A q \in DOMAIN agenda : q # parent => agenda'[q] = agenda[q]
    BY PushFacts
  <2>. QED  BY <2>2, <2>3
<1>4. \A s \in problem.rules : /\ Inside(s, best_score) \in Nat /\ Inside(s, best_score') \in Nat
                               /\ Inside(s, best_score') <= Inside(s, best_score)
  <2>1. \A s \in problem.rules : /\ Inside(s, best_score) \in Costs /\ Inside(s, best_score') \in Costs
                                 /\ Inside(s, best_score') <= Inside(s, best_score)
    BY PushFacts
  <2>. QED  BY <2>1
<1>5. WinnersAreKept'
  <2>1. PICK rule \in [found -> problem.rules] :
              /\ \A q \in found : /\ rule[q].result = q
                                  /\ Range(rule[q].children) \subseteq finalized_partners
                                  /\ Inside(rule[q], best_score) <= best_score[q]
              /\ \A q \in DOMAIN agenda : rule[q] = agenda[q].rule
              /\ \A q \in finalized : HandedOut(rule[q], q)
              /\ Derive(rule)
    BY DEF AnswerInv, WinnersAreKept
  <2>2. PICK better : better = [q \in found \cup {parent} |-> IF q = parent THEN r ELSE rule[q]]
    OBVIOUS
  <2>3. found \cup {parent} = finalized' \cup DOMAIN agenda'
    BY <1>1, <1>3
  <2>4. better \in [finalized' \cup DOMAIN agenda' -> problem.rules]
    BY <1>1, <2>2, <2>3
  <2>5. /\ DOMAIN better = found \cup {parent} /\ better[parent] = r
        /\ \A q \in found : q # parent => better[q] = rule[q]
    BY <2>2
  <2>. HIDE DEF parent, found
  <2>9. Derive(better)
    <3>1. DOMAIN rule = found /\ DOMAIN rule \subseteq Nodes /\ Range(r.children) \subseteq DOMAIN rule
      BY <1>0 DEF found
    <3>2. /\ \A q \in DOMAIN rule : IsWeighted(rule[q]) /\ Inside(rule[q], best_score) <= best_score[q]
          /\ IsWeighted(r) /\ Derive(rule)
      BY <1>0, <1>1, <2>1, <3>1
    <3>3. /\ DOMAIN better = DOMAIN rule \cup {parent}
          /\ \A q \in DOMAIN rule : q # parent => better[q] = rule[q]
      BY <2>5, <3>1
    <3>4. /\ best_score \in [Nodes -> Costs] /\ parent \in Nodes
          /\ Inside(r, best_score) < best_score[parent] /\ better[parent] = r
      BY <1>0, <1>1, <2>5
    <3>5. \A score \in [Nodes -> Costs] :
            (\A q \in DOMAIN rule : IsWeighted(rule[q]) /\ Inside(rule[q], score) <= score[q])
             /\ Inside(r, score) < score[parent] => Derive(better)
      BY ONLY <3>1, <3>2, <3>3, <3>4, ImprovementDerives
    <3>. QED  BY <3>2, <3>4, <3>5
  <2>6. ASSUME NEW q \in DOMAIN better
        PROVE  /\ better[q].result = q
               /\ Range(better[q].children) \subseteq finalized_partners
               /\ Inside(better[q], best_score') <= best_score'[q]
    <3>1. CASE q = parent
      BY <1>0, <1>1, <1>2, <1>4, <2>5, <3>1 DEF parent
    <3>2. CASE q # parent
      <4>1. q \in found /\ better[q] = rule[q] /\ rule[q] \in problem.rules
        BY <2>1, <2>5, <3>2
      <4>2. q \in Nodes /\ best_score'[q] = best_score[q] /\ best_score[q] \in Nat
        BY <1>0, <1>2, <3>2, <4>1 DEF found
      <4>. QED  BY <1>4, <2>1, <4>1, <4>2
    <3>. QED  BY <3>1, <3>2
  <2>7. ASSUME NEW q \in DOMAIN agenda' PROVE better[q] = agenda'[q].rule
    BY <1>3, <2>1, <2>5 DEF found
  <2>8. ASSUME NEW q \in finalized' PROVE HandedOut(better[q], q)'
    <3>1. q \in finalized /\ q # parent /\ q \in found /\ q \in Nodes
      BY <1>0, <1>1 DEF found
    <3>2. HandedOut(rule[q], q) /\ better[q] = rule[q] /\ best_score'[q] = best_score[q]
      BY <1>2, <2>1, <2>5, <3>1
    <3>. QED  BY <1>1, <3>2 DEF HandedOut, Merit
  <2>. QED  BY <1>1, <2>4, <2>6, <2>7, <2>8, <2>9 DEF WinnersAreKept
<1>6. ReopenedIsBetter'
  <2>. DEFINE best == Optimum(problem.goals, problem.inside)
  <2>. SUFFICES ASSUME options.stop_at_first_goal, best < Infinity, NEW q \in finalized_partners
                PROVE  /\ goal_state = {}
                       /\ Merit(q, best_score'[q]) <= best
                       /\ q \in DOMAIN agenda' => Merit(q, best_score'[q]) < best
    BY <1>1 DEF ReopenedIsBetter, Merit
  <2>1. goal_state = {}
    BY <1>1 DEF IInv, SearchInv, GoalIsFirst
  <2>2. /\ Merit(q, best_score[q]) <= best
        /\ q \in DOMAIN agenda => Merit(q, best_score[q]) < best
    BY <2>1 DEF AnswerInv, ReopenedIsBetter
  <2>3. CASE q = parent
    <3>1. best \in Nat /\ Merit(q, best_score[q]) \in Nat /\ Merit(q, best_score'[q]) \in Nat
      BY <1>0, <1>1, <1>2, <2>3, MeritFacts, GoalFacts
    <3>2. Merit(q, best_score[q]) < Infinity
      BY <2>2, <3>1
    <3>3. Merit(q, best_score'[q]) < Merit(q, best_score[q])
      BY <1>0, <1>1, <1>2, <2>3, <3>2, MeritStrict
    <3>. QED  BY <2>1, <2>2, <3>1, <3>3
  <2>4. CASE q # parent
    BY <1>0, <1>2, <1>3, <2>1, <2>2, <2>4
  <2>. QED  BY <2>3, <2>4
<1>. QED  BY <1>5, <1>6 DEF AnswerInv

LEMMA PopAnswer ==
  ASSUME IInv, AnswerInv, NEW q \in Nodes, PopFinalized(q)
  PROVE  AnswerInv'
<1>. USE InfinityIsPositive DEF Costs
<1>0. /\ problem \in Problems /\ options \in Options /\ best_score \in [Nodes -> Costs]
      /\ finalized \subseteq finalized_partners /\ finalized_partners \subseteq Nodes
      /\ pc = "pop" /\ q \in DOMAIN agenda /\ IsBest(q)
      /\ \A p \in DOMAIN agenda : /\ p \in Nodes /\ p \notin finalized
                                  /\ agenda[p].merit \in Costs
                                  /\ agenda[p].merit = Merit(p, best_score[p])
      /\ GoalIsFirst
  BY DEF IInv, SearchInv, TypeOK, AgendaIsCurrent, PopFinalized, IsBest
<1>1. options.beam \in Costs /\ options.chart \in BOOLEAN /\ options.stop_at_first_goal \in BOOLEAN
  BY <1>0, OptionsAreModes
<1>2. /\ finalized' = finalized \cup {q} /\ finalized_partners' = finalized_partners \cup {q}
      /\ agenda' = [p \in DOMAIN agenda \ {q} |-> agenda[p]]
      /\ best_score' = best_score /\ problem' = problem /\ options' = options
      /\ goal_state' = IF q \in problem.goals /\ goal_state = {} THEN {q} ELSE goal_state
      /\ backpointers' = IF options.chart THEN backpointers ELSE SetBackpointer(q, agenda[q].rule)
      /\ Emit(agenda[q].rule, agenda[q].merit)
  BY DEF PopFinalized, Activate, Restrict, input
<1>3. /\ DOMAIN agenda' = DOMAIN agenda \ {q}
      /\ \A p \in DOMAIN agenda' : agenda'[p] = agenda[p]
  BY <1>2
<1>4. WinnersAreKept'
  <2>1. PICK rule \in [finalized \cup DOMAIN agenda -> problem.rules] :
              /\ \A p \in DOMAIN rule : /\ rule[p].result = p
                                        /\ Range(rule[p].children) \subseteq finalized_partners
                                        /\ Inside(rule[p], best_score) <= best_score[p]
              /\ \A p \in DOMAIN agenda : rule[p] = agenda[p].rule
              /\ \A p \in finalized : HandedOut(rule[p], p)
              /\ Derive(rule)
    BY DEF AnswerInv, WinnersAreKept
  <2>2. rule \in [finalized' \cup DOMAIN agenda' -> problem.rules]
    <3>1. finalized' \cup DOMAIN agenda' = finalized \cup DOMAIN agenda
      BY <1>0, <1>2, <1>3
    <3>. QED  BY <3>1
  <2>3. \A p \in DOMAIN agenda' : rule[p] = agenda'[p].rule
    BY <1>3, <2>1
  <2>4. emitted \subseteq emitted' /\ (options.chart => \/ agenda[q].rule \in emitted'
                                                        \/ /\ ~options.stop_at_first_goal
                                                           /\ agenda[q].merit > options.beam)
    <3>1. CASE options.chart /\ (options.stop_at_first_goal \/ agenda[q].merit <= options.beam)
      BY <1>2, <3>1 DEF Emit
    <3>2. CASE ~(options.chart /\ (options.stop_at_first_goal \/ agenda[q].merit <= options.beam))
      <4>1. emitted' = emitted
        BY <1>2, <3>2, Zenon DEF Emit
      <4>2. ~(agenda[q].merit <= options.beam) => agenda[q].merit > options.beam
        BY <1>0, <1>1
      <4>. QED  BY <3>2, <4>1, <4>2
    <3>. QED  BY <3>1, <3>2
  <2>5. ~options.chart =>
           backpointers' = [p \in DOMAIN backpointers \cup {q} |->
                               IF p = q THEN [rule |-> agenda[q].rule, score |-> best_score[q]]
                               ELSE backpointers[p]]
    BY <1>2 DEF SetBackpointer, Put
  <2>6. ASSUME NEW p \in finalized' PROVE HandedOut(rule[p], p)'
    <3>1. CASE p = q
      <4>1. rule[q] = agenda[q].rule /\ agenda[q].merit = Merit(q, best_score[q])
        BY <1>0, <2>1
      <4>. QED  BY <1>2, <2>4, <2>5, <3>1, <4>1 DEF HandedOut, Merit
    <3>2. CASE p # q
      <4>1. HandedOut(rule[p], p)
        BY <1>2, <2>1, <3>2
      <4>. QED  BY <1>2, <2>4, <2>5, <3>2, <4>1 DEF HandedOut, Merit
    <3>. QED  BY <3>1, <3>2
  <2>7. \A p \in DOMAIN rule : /\ rule[p].result = p
                               /\ Range(rule[p].children) \subseteq finalized_partners'
                               /\ Inside(rule[p], best_score') <= best_score'[p]
    BY <1>2, <2>1
  <2>. QED  BY <1>2, <2>1, <2>2, <2>3, <2>6, <2>7 DEF WinnersAreKept
<1>5. ReopenedIsBetter'
  <2>. DEFINE best == Optimum(problem.goals, problem.inside)
  <2>. SUFFICES ASSUME options.stop_at_first_goal, best < Infinity
                PROVE  IF goal_state' = {}
                         THEN \A p \in finalized_partners' :
                                 /\ Merit(p, best_score[p]) <= best
                                 /\ p \in DOMAIN agenda' => Merit(p, best_score[p]) < best
                         ELSE finalized_partners' \cap DOMAIN agenda' = {}
    BY <1>2 DEF ReopenedIsBetter, Merit
  <2>1. goal_state = {}
    BY <1>0 DEF GoalIsFirst
  <2>2. \A p \in finalized_partners : /\ Merit(p, best_score[p]) <= best
                                      /\ p \in DOMAIN agenda => Merit(p, best_score[p]) < best
    BY <2>1 DEF AnswerInv, ReopenedIsBetter
  <2>3. Merit(q, best_score[q]) <= best
    BY <1>0, <2>1, PoppedIsPromising
  <2>4. ASSUME q \in problem.goals, NEW p \in finalized_partners', p \in DOMAIN agenda' PROVE FALSE
    <3>1. p \in DOMAIN agenda /\ p \in finalized_partners
      BY <1>2, <1>3, <2>4
    <3>2. Merit(p, best_score[p]) < best /\ agenda[q].merit <= agenda[p].merit
      BY <1>0, <2>2, <3>1 DEF IsBest
    <3>3. agenda[q].merit = best
      BY <1>0, <2>1, <2>4, PoppedGoalIsBest
    <3>. QED  BY <1>0, <3>1, <3>2, <3>3
  <2>. HIDE DEF best
  <2>5. CASE q \in problem.goals
    BY <1>2, <2>1, <2>4, <2>5
  <2>6. CASE q \notin problem.goals
    BY <1>2, <1>3, <2>1, <2>2, <2>3, <2>6
  <2>. QED  BY <2>5, <2>6
<1>. QED  BY <1>4, <1>5 DEF AnswerInv

LEMMA StepAnswer ==
  ASSUME IInv, AnswerInv, [Next]_vars
  PROVE  AnswerInv'
<1>1. ASSUME /\ problem' = problem /\ options' = options /\ best_score' = best_score
             /\ agenda' = agenda /\ finalized' = finalized
             /\ finalized_partners' = finalized_partners /\ backpointers' = backpointers
             /\ emitted' = emitted /\ goal_state' = goal_state
      PROVE  AnswerInv'
  BY <1>1 DEF AnswerInv, WinnersAreKept, HandedOut, ReopenedIsBetter, Merit
<1>2. ASSUME NEW r \in candidates, PushCandidate(r) PROVE AnswerInv'
  <2>1. CASE Improves(r.result, Inside(r, best_score))
    BY <1>2, <2>1, PushAnswer
  <2>2. CASE ~Improves(r.result, Inside(r, best_score))
    BY <1>1, <1>2, <2>2 DEF PushCandidate, input, closed
  <2>. QED  BY <2>1, <2>2
<1>3. ASSUME NEW q \in Nodes, PopFinalized(q) PROVE AnswerInv'
  BY <1>3, PopAnswer
<1>4. ASSUME EndPush \/ EndSearch \/ Return \/ Cancel \/ UNCHANGED vars PROVE AnswerInv'
  BY <1>1, <1>4 DEF EndPush, EndSearch, Return, Cancel, vars, input, closed
<1>. QED  BY <1>2, <1>3, <1>4 DEF Next, Work

LEMMA AnswerInvariance == Spec => []AnswerInv
<1>. QED  BY InitAnswer, StepAnswer, Invariance, PTL DEF Spec

(* When the search is done, no closed state is open again. *)
LEMMA NothingReopened ==
  ASSUME IInv, AnswerInv, pc = "done"
  PROVE  finalized = finalized_partners /\ finalized_partners \cap DOMAIN agenda = {}
<1>1. /\ DOMAIN agenda = {} \/ (options.stop_at_first_goal /\ goal_state # {})
      /\ finalized \subseteq finalized_partners /\ finalized_partners \subseteq Nodes
  BY DEF IInv, SearchInv, TypeOK, EndIsReached
<1>2. finalized_partners \subseteq finalized \cup DOMAIN agenda
  BY <1>1 DEF IInv, SearchInv, ScoresAreKept
<1>3. CASE DOMAIN agenda = {}
  BY <1>1, <1>2, <1>3
<1>4. CASE options.stop_at_first_goal /\ goal_state # {}
  <2>1. Optimum(problem.goals, problem.inside) < Infinity
    BY <1>4, ClosedGoalIsPossible
  <2>2. finalized_partners \cap DOMAIN agenda = {}
    BY <1>4, <2>1 DEF AnswerInv, ReopenedIsBetter
  <2>. QED  BY <1>1, <1>2, <2>2
<1>. QED  BY <1>1, <1>3, <1>4

(* A closed state with its best score, on a derivation that is no worse    *)
(* than the bound, has won with a rule over states of this kind.           *)
LEMMA WinnerIsTight ==
  ASSUME problem \in Problems, best_score \in [Nodes -> Costs],
         \A q \in Nodes : problem.inside[q] <= best_score[q],
         NEW bound \in Nat, bound < Infinity,
         NEW q \in Nodes, best_score[q] = problem.inside[q],
         problem.inside[q] + problem.outside[q] <= bound,
         NEW r \in problem.rules, r.result = q, Inside(r, best_score) <= best_score[q]
  PROVE  \A x \in Range(r.children) : /\ best_score[x] = problem.inside[x]
                                      /\ problem.inside[x] + problem.outside[x] <= bound
<1>. USE InfinityIsPositive DEF Costs
<1>1. /\ IsWeighted(r) /\ Range(r.children) \subseteq Nodes
      /\ problem.inside \in [Nodes -> Costs] /\ problem.outside \in [Nodes -> Costs]
  BY RuleFacts, ProblemFacts
<1>2. /\ Inside(r, best_score) \in Nat /\ Inside(r, problem.inside) \in Nat
      /\ problem.inside[q] <= Inside(r, problem.inside)
      /\ best_score[q] \in Nat /\ problem.inside[q] \in Nat /\ problem.outside[q] \in Nat
  <2>1. /\ Inside(r, best_score) \in Costs /\ Inside(r, problem.inside) \in Costs
        /\ problem.inside[q] <= Inside(r, problem.inside)
    BY <1>1, RuleFacts
  <2>. QED  BY <1>1, <2>1
<1>3. \A x \in Range(r.children) : problem.inside[x] <= best_score[x]
  BY <1>1
<1>4. Inside(r, problem.inside) <= Inside(r, best_score)
  BY <1>1, <1>3, InsideMonotone
<1>5. Inside(r, problem.inside) = problem.inside[q] /\ Inside(r, best_score) = problem.inside[q]
  BY <1>2, <1>4
<1>6. Inside(r, problem.inside) < Infinity
  BY <1>2, <1>5
<1>. TAKE x \in Range(r.children)
<1>7. x \in Nodes /\ problem.inside[x] \in Nat /\ problem.outside[x] \in Nat /\ best_score[x] \in Nat
  BY <1>1
<1>8. ~(problem.inside[x] < best_score[x])
  <2>. SUFFICES ASSUME problem.inside[x] < best_score[x] PROVE FALSE
    OBVIOUS
  <2>1. Inside(r, problem.inside) < Inside(r, best_score)
    BY <1>1, <1>3, <1>6, InsideStrict
  <2>. QED  BY <1>2, <1>5, <2>1
<1>9. problem.outside[x] + problem.inside[x] <= Inside(r, problem.inside) + problem.outside[q]
  BY <1>6, ProblemFacts DEF BoundsOutside
<1>. QED  BY <1>2, <1>3, <1>5, <1>7, <1>8, <1>9

(* What is handed out is worth the score it is handed out with: the tree   *)
(* that build_one_best_tree rebuilds from backpointers that have been      *)
(* overwritten whenever states were closed again, and the chart of the     *)
(* winning rules, in which a best derivation is found.                     *)
THEOREM AnswerIsWorth == Spec => []AnswerIsWorthItsScore
<1>. USE InfinityIsPositive DEF Costs
<1>. DEFINE best == Optimum(problem.goals, problem.inside)
<1>1. ASSUME IInv, AnswerInv PROVE AnswerIsWorthItsScore
  <2>. SUFFICES ASSUME pc = "done"
                PROVE  IF options.chart
                         THEN options.stop_at_first_goal \/ best <= options.beam
                              => Optimum(problem.goals, BestInside(emitted)) = best
                         ELSE \A q \in goal_state :
                                 BestInside({backpointers[p].rule : p \in DOMAIN backpointers})[q]
                                    = backpointers[q].score
    BY DEF AnswerIsWorthItsScore
  <2>1. /\ problem \in Problems /\ options \in Options /\ candidates = {}
        /\ best_score \in [Nodes -> Costs] /\ problem.inside \in [Nodes -> Costs]
        /\ problem.outside \in [Nodes -> Costs]
        /\ problem.goals \subseteq Nodes /\ finalized_partners \subseteq Nodes
        /\ emitted \subseteq problem.rules /\ DOMAIN backpointers \subseteq finalized_partners
        /\ \A p \in DOMAIN backpointers : backpointers[p].rule \in problem.rules
        /\ \A r \in problem.rules : IsWeighted(r)
        /\ \A q \in Nodes : problem.inside[q] <= best_score[q]
        /\ \A q \in finalized_partners : best_score[q] < Infinity
        /\ DOMAIN agenda = {} \/ (options.stop_at_first_goal /\ goal_state # {})
        /\ GoalIsFirst
    BY <1>1, ProblemFacts DEF IInv, SearchInv, TypeOK, CandidatesAreReady, ScoresAreKept, EndIsReached
  <2>2. finalized = finalized_partners /\ finalized_partners \cap DOMAIN agenda = {}
    BY <1>1, NothingReopened
  <2>3. PICK rule \in [finalized \cup DOMAIN agenda -> problem.rules] :
              /\ \A q \in DOMAIN rule : /\ rule[q].result = q
                                        /\ Range(rule[q].children) \subseteq finalized
                                        /\ Inside(rule[q], best_score) <= best_score[q]
              /\ \A q \in finalized : HandedOut(rule[q], q)
              /\ Derive(rule)
    BY <1>1, <2>2 DEF AnswerInv, WinnersAreKept
  <2>4. DOMAIN rule \subseteq Nodes /\ finalized \subseteq DOMAIN rule
    BY <1>1, <2>1, <2>2 DEF IInv, SearchInv, TypeOK
  <2>5. best \in Costs /\ \A q \in problem.goals : best <= problem.inside[q] /\ problem.outside[q] = 0
    BY <2>1, GoalFacts
  <2>6. ~options.stop_at_first_goal =>
           \A q \in Nodes : problem.inside[q] + problem.outside[q] < Infinity
                            => q \in finalized /\ best_score[q] = problem.inside[q]
    BY <1>1, <2>1, NothingOpenIsDone
  <2>. HIDE DEF best
  <2>7. CASE ~options.chart
    <3>. DEFINE rules == {backpointers[p].rule : p \in DOMAIN backpointers}
                tree == BestInside(rules)
    <3>. SUFFICES ASSUME NEW g \in goal_state PROVE tree[g] = backpointers[g].score
      BY <2>7
    <3>1. g \in finalized /\ g \in problem.goals /\ g \in Nodes
      BY <2>1, <2>2 DEF GoalIsFirst
    <3>2. \A q \in finalized : /\ q \in DOMAIN backpointers
                               /\ backpointers[q].rule = rule[q] /\ backpointers[q].score = best_score[q]
      <4>. TAKE q \in finalized
      <4>1. HandedOut(rule[q], q)
        BY <2>3
      <4>2. /\ q \in DOMAIN backpointers
            /\ backpointers[q] = [rule |-> rule[q], score |-> best_score[q]]
        BY <2>7, <4>1, Zenon DEF HandedOut
      <4>. QED  BY <4>2
    <3>3. \A q \in finalized : rule[q] \in rules
      <4>. TAKE q \in finalized
      <4>1. backpointers[q].rule = rule[q] /\ q \in DOMAIN backpointers
        BY <3>2
      <4>. QED  BY <4>1
    <3>4. rules \subseteq problem.rules
      BY <2>1
    <3>. HIDE DEF rules
    <3>5. tree[g] <= best_score[g]
      <4>1. \A r \in rules : IsWeighted(r)
        BY <2>1, <3>4
      <4>2. \A q \in finalized : /\ rule[q] \in rules /\ rule[q].result = q
                                 /\ Range(rule[q].children) \subseteq finalized
                                 /\ Inside(rule[q], best_score) <= best_score[q]
        BY <2>3, <2>4, <3>3
      <4>. QED  BY <2>1, <2>3, <2>4, <3>1, <4>1, <4>2, DerivedIsWorth
    <3>6. problem.inside[g] <= tree[g]
      <4>1. IsInside(problem.rules, problem.inside)
        BY <2>1, ProblemFacts
      <4>. QED  BY <2>1, <3>1, <3>4, <4>1, FewerRules
    <3>7. best_score[g] = problem.inside[g]
      <4>0. problem.inside[g] \in Nat /\ best_score[g] \in Nat /\ problem.outside[g] = 0
            /\ problem.inside[g] <= best_score[g] /\ best_score[g] < Infinity
        BY <2>1, <2>2, <2>5, <3>1
      <4>1. CASE options.stop_at_first_goal
        <5>1. best_score[g] = best
          BY <2>1, <4>1 DEF GoalIsFirst, best
        <5>. QED  BY <2>5, <3>1, <4>0, <5>1
      <4>2. CASE ~options.stop_at_first_goal
        BY <2>6, <3>1, <4>0, <4>2
      <4>. QED  BY <4>1, <4>2
    <3>8. tree[g] \in Nat /\ best_score[g] \in Nat
      <4>1. \A r \in rules : IsWeighted(r)
        BY <2>1, <3>4
      <4>2. tree \in [Nodes -> Costs]
        BY <4>1, BestInsideIs
      <4>. QED  BY <2>1, <3>1, <4>2
    <3>9. backpointers[g].score = best_score[g]
      BY <3>1, <3>2
    <3>. QED  BY <3>5, <3>6, <3>7, <3>8, <3>9
  <2>8. CASE options.chart
    <3>. DEFINE tree == BestInside(emitted)
    <3>. SUFFICES ASSUME options.stop_at_first_goal \/ best <= options.beam
                  PROVE  Optimum(problem.goals, tree) = best
      BY <2>8
    <3>1. \A r \in emitted : IsWeighted(r)
      BY <2>1
    <3>2. tree \in [Nodes -> Costs]
      BY <3>1, BestInsideIs
    <3>3. \A q \in Nodes : problem.inside[q] <= tree[q]
      <4>1. IsInside(problem.rules, problem.inside)
        BY <2>1, ProblemFacts
      <4>. QED  BY <2>1, <4>1, FewerRules
    <3>. HIDE DEF tree
    <3>4. \A q \in problem.goals : best <= tree[q]
      <4>. TAKE q \in problem.goals
      <4>1. /\ best <= problem.inside[q] /\ problem.inside[q] <= tree[q]
            /\ best \in Nat /\ problem.inside[q] \in Nat /\ tree[q] \in Nat
        BY <2>1, <2>5, <3>2, <3>3
      <4>. QED  BY <4>1
    <3>5. CASE best = Infinity
      <4>1. /\ Optimum(problem.goals, tree) \in Costs
            /\ Optimum(problem.goals, tree) < Infinity =>
                  \E q \in problem.goals : tree[q] = Optimum(problem.goals, tree)
        BY <2>1, <3>2, OptimumIsLeast
      <4>2. ~(Optimum(problem.goals, tree) < Infinity)
        BY <3>4, <3>5, <4>1
      <4>. QED  BY <3>5, <4>1, <4>2
    <3>6. CASE best < Infinity
      <4>. DEFINE tight == {q \in finalized : /\ best_score[q] = problem.inside[q]
                                              /\ problem.inside[q] + problem.outside[q] <= best}
                  C == IF options.stop_at_first_goal THEN finalized ELSE tight
      <4>1. \A q \in C : /\ rule[q] \in emitted /\ rule[q].result = q
                         /\ Range(rule[q].children) \subseteq C
                         /\ Inside(rule[q], best_score) <= best_score[q]
        <5>1. CASE options.stop_at_first_goal
          BY <2>3, <2>4, <2>8, <5>1 DEF HandedOut
        <5>2. CASE ~options.stop_at_first_goal
          <6>. SUFFICES ASSUME NEW q \in tight
                        PROVE  /\ rule[q] \in emitted /\ rule[q].result = q
                               /\ Range(rule[q].children) \subseteq tight
                               /\ Inside(rule[q], best_score) <= best_score[q]
            BY <5>2
          <6>1. /\ q \in Nodes /\ q \in finalized /\ rule[q] \in problem.rules
                /\ rule[q].result = q /\ Range(rule[q].children) \subseteq finalized
                /\ Inside(rule[q], best_score) <= best_score[q]
                /\ HandedOut(rule[q], q)
            BY <2>3, <2>4
          <6>2. \A x \in Range(rule[q].children) :
                   /\ best_score[x] = problem.inside[x]
                   /\ problem.inside[x] + problem.outside[x] <= best
            BY <2>1, <2>5, <3>6, <6>1, WinnerIsTight
          <6>3. Merit(q, best_score[q]) \in Nat /\ Merit(q, best_score[q]) <= best
            <7>1. /\ Merit(q, best_score[q]) \in Costs
                  /\ Merit(q, best_score[q]) <= best_score[q] + problem.outside[q]
              BY <2>1, <6>1, MeritFacts
            <7>2. problem.outside[q] \in Nat /\ best_score[q] \in Nat
              BY <2>1, <6>1
            <7>. QED  BY <2>5, <7>1, <7>2
          <6>4. rule[q] \in emitted
            <7>1. options.beam \in Nat
              BY <2>1, OptionsAreModes
            <7>2. ~(Merit(q, best_score[q]) > options.beam)
              BY <2>5, <5>2, <6>3, <7>1
            <7>. QED  BY <2>8, <6>1, <7>2 DEF HandedOut
          <6>. QED  BY <6>1, <6>2, <6>4
        <5>. QED  BY <5>1, <5>2
      <4>2. PICK g \in problem.goals : g \in C /\ best_score[g] = best
        <5>1. CASE options.stop_at_first_goal
          <6>1. goal_state # {}
            <7>. SUFFICES ASSUME goal_state = {} PROVE FALSE
              OBVIOUS
            <7>1. DOMAIN agenda = {} /\ finalized \cap problem.goals = {}
              BY <2>1, <2>2 DEF GoalIsFirst
            <7>. QED  BY <1>1, <2>1, <3>6, <7>1, NothingOpenIsDone DEF best
          <6>2. PICK g \in finalized \cap problem.goals : goal_state = {g}
            BY <2>1, <2>2, <6>1 DEF GoalIsFirst
          <6>. QED  BY <2>1, <5>1, <6>1, <6>2 DEF GoalIsFirst, best
        <5>2. CASE ~options.stop_at_first_goal
          <6>1. PICK g \in problem.goals : problem.inside[g] = best /\ problem.outside[g] = 0
            BY <2>1, <3>6, GoalFacts DEF best
          <6>2. g \in Nodes /\ problem.inside[g] + problem.outside[g] = best
            BY <2>1, <2>5, <6>1
          <6>3. g \in finalized /\ best_score[g] = problem.inside[g]
            BY <2>6, <3>6, <5>2, <6>2
          <6>4. problem.inside[g] + problem.outside[g] <= best
            BY <2>5, <6>2
          <6>. QED  BY <5>2, <6>1, <6>3, <6>4
        <5>. QED  BY <5>1, <5>2
      <4>3. C \subseteq DOMAIN rule
        BY <2>4
      <4>. HIDE DEF C
      <4>4. tree[g] <= best
        <5>1. tree[g] <= best_score[g]
          BY <2>1, <2>3, <2>4, <3>1, <4>1, <4>2, <4>3, DerivedIsWorth DEF tree
        <5>. QED  BY <4>2, <5>1
      <4>5. tree[g] = best
        <5>1. tree[g] \in Nat /\ best \in Nat /\ best <= tree[g]
          BY <2>1, <2>5, <3>2, <3>4
        <5>. QED  BY <4>4, <5>1
      <4>. QED  BY <2>1, <3>2, <3>4, <4>5, OptimumIs
    <3>7. best = Infinity \/ best < Infinity
      BY <2>5
    <3>. QED  BY <3>5, <3>6, <3>7
  <2>. QED  BY <2>7, <2>8
<1>. QED  BY <1>1, Invariance, AnswerInvariance, PTL

-----------------------------------------------------------------------------
(* Refinement. *)

(* When the search ends by itself, some goal has the optimum. *)
LEMMA ScoredOptimum ==
  ASSUME IInv, pc = "stopped", ~cancelled
  PROVE  Optimum(problem.goals, best_score) = Optimum(problem.goals, problem.inside)
<1>. USE InfinityIsPositive DEF Costs
<1>. DEFINE best == Optimum(problem.goals, problem.inside)
<1>0. /\ problem \in Problems /\ candidates = {} /\ GoalIsFirst /\ ScoresAreKept
      /\ best_score \in [Nodes -> Costs] /\ problem.inside \in [Nodes -> Costs]
      /\ problem.goals \subseteq Nodes
      /\ DOMAIN agenda = {} \/ (options.stop_at_first_goal /\ goal_state # {})
  BY ProblemFacts DEF IInv, SearchInv, CandidatesAreReady, EndIsReached, TypeOK
<1>1. /\ best \in Costs /\ \A q \in problem.goals : best <= problem.inside[q]
  BY <1>0, GoalFacts
<1>. HIDE DEF best
<1>2. \A q \in problem.goals : best <= best_score[q]
  <2>. TAKE q \in problem.goals
  <2>1. /\ best <= problem.inside[q] /\ problem.inside[q] <= best_score[q]
        /\ problem.inside[q] \in Nat /\ best_score[q] \in Nat
    BY <1>0, <1>1 DEF ScoresAreKept
  <2>. QED  BY <1>1, <2>1
<1>3. best < Infinity => \E q \in problem.goals : best_score[q] = best
  <2>1. CASE options.stop_at_first_goal /\ goal_state # {}
    BY <1>0, <2>1 DEF GoalIsFirst, best
  <2>2. CASE ~(options.stop_at_first_goal /\ goal_state # {})
    <3>1. DOMAIN agenda = {} /\ (options.stop_at_first_goal => goal_state = {})
      BY <1>0, <2>2
    <3>. QED  BY <1>0, <3>1, NothingOpenIsDone DEF best
  <2>. QED  BY <2>1, <2>2
<1>4. CASE best < Infinity
  <2>1. PICK q \in problem.goals : best_score[q] = best
    BY <1>3, <1>4
  <2>. QED  BY <1>0, <1>2, <2>1, OptimumIs DEF best
<1>5. CASE ~(best < Infinity)
  <2>1. best = Infinity
    BY <1>1, <1>5
  <2>2. /\ Optimum(problem.goals, best_score) \in Costs
        /\ Optimum(problem.goals, best_score) < Infinity =>
               \E q \in problem.goals : best_score[q] = Optimum(problem.goals, best_score)
    BY <1>0, OptimumIsLeast
  <2>3. ~(Optimum(problem.goals, best_score) < Infinity)
    BY <1>2, <2>1, <2>2
  <2>. QED  BY <2>1, <2>2, <2>3 DEF best
<1>. QED  BY <1>4, <1>5

(* Relaxation speaks of the same scores. *)
LEMMA SameScores ==
  /\ Promise!Impossible = Impossible
  /\ \A rule, score : Promise!Inside(rule, score) = Inside(rule, score)
  /\ \A goals, inner : Promise!Optimum(goals, inner) = Optimum(goals, inner)
<1>1. Promise!Impossible = Impossible
  BY DEF Impossible, Promise!Impossible
<1>2. ASSUME NEW rule, NEW score PROVE Promise!Inside(rule, score) = Inside(rule, score)
  <2>1. Promise!PartialCosts(rule, score) = PartialCosts(rule, score)
    BY Zenon DEF PartialCosts, Promise!PartialCosts
  <2>2. \A n : Promise!Capped(n) = Capped(n)
    BY DEF Capped, Promise!Capped
  <2>. QED  BY <2>1, <2>2 DEF Inside, Promise!Inside
<1>3. ASSUME NEW goals, NEW inner PROVE Promise!Optimum(goals, inner) = Optimum(goals, inner)
  BY Zenon DEF Optimum, Promise!Optimum, Min, Promise!Min
<1>. QED  BY <1>1, <1>2, <1>3

(* Every step of the search is one of Relaxation, or changes nothing that  *)
(* it speaks of: scores only sink, by rules over scored children, and an   *)
(* answer is given when some goal has the optimum, unless the search was   *)
(* cancelled.  (ImplementsRelaxation without its fairness.)                *)
THEOREM SearchRelaxes == Spec => Promise!Init /\ [][Promise!Next]_Promise!vars
<1>1. Init => Promise!Init
  BY SameScores DEF Init, Promise!Init
<1>2. ASSUME IInv, [Next]_vars PROVE [Promise!Next]_Promise!vars
  <2>1. TypeOK /\ candidates \subseteq problem.rules
    BY <1>2 DEF IInv, SearchInv, TypeOK
  <2>2. ASSUME NEW r \in candidates, PushCandidate(r) PROVE [Promise!Next]_Promise!vars
    <3>1. CASE Improves(r.result, Inside(r, best_score))
      <4>1. Promise!Relax(r)
        BY <2>2, <3>1, SameScores DEF PushCandidate, Improves, Promise!Relax, input
      <4>. QED  BY <2>1, <4>1 DEF Promise!Next
    <3>2. CASE ~Improves(r.result, Inside(r, best_score))
      BY <2>2, <3>2 DEF PushCandidate, Promise!vars, input
    <3>. QED  BY <3>1, <3>2
  <2>3. ASSUME NEW q \in Nodes, PopFinalized(q) PROVE UNCHANGED Promise!vars
    BY <2>3 DEF PopFinalized, Promise!vars, input
  <2>4. ASSUME EndPush \/ EndSearch \/ Cancel \/ UNCHANGED vars PROVE UNCHANGED Promise!vars
    BY <2>4 DEF EndPush, EndSearch, Cancel, vars, Promise!vars, input
  <2>5. ASSUME Return PROVE Promise!Next
    <3>1. CASE cancelled
      BY <2>5, <3>1 DEF Return, Promise!Next, Promise!Abandon, input
    <3>2. CASE ~cancelled
      <4>1. Optimum(problem.goals, best_score) = Optimum(problem.goals, problem.inside)
        BY <1>2, <2>5, <3>2, ScoredOptimum DEF Return
      <4>. QED  BY <2>5, <3>2, <4>1, SameScores DEF Return, Promise!Next, Promise!Answer, input
    <3>. QED  BY <3>1, <3>2
  <2>. QED  BY <1>2, <2>2, <2>3, <2>4, <2>5 DEF Next, Work
<1>. QED  BY <1>1, <1>2, Invariance, PTL DEF Spec
=============================================================================
