--------------------------- MODULE OutsideHeuristic ---------------------------
(***************************************************************************)
(* OutsideHeuristic::from_grammar_with: for each state of a grammar, the   *)
(* best score of a context that completes it to an accepted derivation,    *)
(* which A* uses as its estimate.  Two passes with a heap each: inside     *)
(* scores from the leaves up, then outside scores from the accepting       *)
(* states down.  Entries made obsolete by a better one stay in the heap    *)
(* and are skipped.  The choice between equal scores is left open.         *)
(***************************************************************************)
EXTENDS Languages

VARIABLES         \* problem is the grammar
    pass,       \* "inside", "outside" or "done"
    inside,     \* state |-> inside score so far
    partial,    \* rule |-> its cost and those of its finalized children
    waiting,    \* rule |-> distinct children not finalized
    outside,    \* state |-> outside score so far
    heap,       \* entries [cost, state] of the pass
    finalized   \* states finalized in the pass

estimate_vars == <<pass, inside, partial, waiting, outside, heap, finalized>>

-----------------------------------------------------------------------------
Entry(cost, q) == [cost |-> cost, state |-> q]

(* Faulty variant: any entry of the heap. *)
IsNext_Any(entry) == entry \in heap

IsNext(entry) == entry \in heap /\ \A other \in heap : entry.cost <= other.cost

(* The state of the entry is finalized now, unless it is, or the entry is   *)
(* stale.                                                                   *)
IsCurrent(entry, score) == entry.state \notin finalized /\ entry.cost = score[entry.state]

(* The scores that the pass computes. *)
PassScore == IF pass = "inside" THEN inside ELSE outside

(* What nullary rules give their results. *)
Seeds == [q \in Nodes |->
    Min({Infinity} \cup {r.cost : r \in {s \in problem.rules : s.children = <<>> /\ s.result = q}})]

(* Faulty variant: a repeated child multiplies as often as it occurs, but   *)
(* counts as waiting each time, too.                                        *)
WaitingFor_Occurrences(r) == Len(r.children)

(* by_child and pending count a repeated child once. *)
WaitingFor(r) == Cardinality(Range(r.children))

-----------------------------------------------------------------------------
EstimateInit ==
    /\ problem \in Problems
    /\ pass = "inside"
    /\ inside = Seeds
    /\ partial = [r \in problem.rules |-> r.cost]
    /\ waiting = [r \in problem.rules |-> WaitingFor(r)]
    /\ outside = Impossible
    /\ heap = {Entry(inside[q], q) : q \in {p \in Nodes : inside[p] < Infinity}}
    /\ finalized = {}

Skip(entry) ==
    /\ pass \in {"inside", "outside"}
    /\ IsNext(entry)
    /\ ~IsCurrent(entry, PassScore)
    /\ heap' = heap \ {entry}
    /\ UNCHANGED <<problem, pass, inside, partial, waiting, outside, finalized>>

(* Scores that are better than those so far, and the heap with their entries. *)
Improve(score, candidates, rest) ==
    LET best == [q \in Nodes |-> Min({score[q]} \cup {c.cost : c \in {d \in candidates : d.state = q}})]
    IN  [score |-> best,
         heap  |-> rest \cup {Entry(best[q], q) : q \in {p \in Nodes : best[p] < score[p]}}]

(* A state's inside score is final: the rules that wait for no other child  *)
(* score their results.                                                     *)
FinalizeInside(entry) ==
    /\ pass = "inside"
    /\ IsNext(entry)
    /\ IsCurrent(entry, inside)
    /\ LET q == entry.state
           of == {r \in problem.rules : q \in Range(r.children)}
           product(r) == Capped(partial[r] + inside[q])
           complete == {r \in of : waiting[r] = 1}
           improved == Improve(inside, {Entry(product(r), r.result) : r \in complete}, heap \ {entry})
       IN  /\ finalized' = finalized \cup {q}
           /\ partial' = [r \in problem.rules |-> IF r \in of THEN product(r) ELSE partial[r]]
           /\ waiting' = [r \in problem.rules |-> IF r \in of THEN waiting[r] - 1 ELSE waiting[r]]
           /\ inside' = improved.score
           /\ heap' = improved.heap
    /\ UNCHANGED <<problem, pass, outside>>

(* The second pass starts with the accepting states. *)
StartOutside ==
    /\ pass = "inside"
    /\ heap = {}
    /\ pass' = "outside"
    /\ outside' = [q \in Nodes |-> IF q \in problem.goals THEN 0 ELSE Infinity]
    /\ heap' = {Entry(0, q) : q \in problem.goals}
    /\ finalized' = {}
    /\ UNCHANGED <<problem, inside, partial, waiting>>

(* A state's outside score is final: its rules score their children.  An    *)
(* entry that a later rule of the same state makes stale is left out.       *)
FinalizeOutside(entry) ==
    /\ pass = "outside"
    /\ IsNext(entry)
    /\ IsCurrent(entry, outside)
    /\ LET q == entry.state
           places == ChildPlaces({r \in problem.rules : r.result = q})
           candidates == {Entry(Capped(entry.cost + Context(x[1], x[2], inside)), x[1].children[x[2]]) :
                             x \in places}
           improved == Improve(outside, {c \in candidates : c.state \notin finalized \cup {q}},
                               heap \ {entry})
       IN  /\ finalized' = finalized \cup {q}
           /\ outside' = improved.score
           /\ heap' = improved.heap
    /\ UNCHANGED <<problem, pass, inside, partial, waiting>>

FinishOutside ==
    /\ pass = "outside"
    /\ heap = {}
    /\ pass' = "done"
    /\ UNCHANGED <<problem, inside, partial, waiting, outside, heap, finalized>>

EstimateNext ==
    \/ \E entry \in heap : Skip(entry) \/ FinalizeInside(entry) \/ FinalizeOutside(entry)
    \/ StartOutside
    \/ FinishOutside

EstimateSpec == EstimateInit /\ [][EstimateNext]_<<problem, estimate_vars>>

-----------------------------------------------------------------------------
(* Properties. *)

(* Every variable has its type; a rule waits for exactly its children that  *)
(* are not finalized; a score that is not final has its entry in the heap.  *)
EstimateTypeOK ==
    /\ pass \in {"inside", "outside", "done"}
    /\ inside \in [Nodes -> Costs] /\ outside \in [Nodes -> Costs]
    /\ partial \in [problem.rules -> Costs]
    /\ waiting \in [problem.rules -> Nat]
    /\ heap \subseteq [cost : Costs, state : Nodes]
    /\ pass = "inside" =>
          \A r \in problem.rules : waiting[r] = Cardinality(Range(r.children) \ finalized)
    /\ finalized \subseteq Nodes
    /\ \A q \in Nodes \ finalized : PassScore[q] < Infinity => Entry(PassScore[q], q) \in heap
    /\ pass = "done" => heap = {}

(* The reference values. *)
InsideOf  == [p \in Problems |-> BestInside(p.rules)]
OutsideOf == [p \in Problems |-> BestOutside(p.rules, p.goals, InsideOf[p])]

(* The estimates are admissible and consistent for the grammar, cycles and  *)
(* repeated children included: no context of a state that has derivations   *)
(* is better than its estimate, nor is a rule's context for a child better  *)
(* than the estimate of the child.                                          *)
EstimatesAreSafe ==
    pass = "done" =>
        /\ \A q \in Nodes : outside[q] <= OutsideOf[problem][q]
        /\ BoundsOutside(problem.rules, problem.goals, InsideOf[problem], outside)

(* "each state is finalized at most once with its optimal value": in both   *)
(* passes, cyclic grammars included, a score is not improved after it was   *)
(* final, when others have been computed from it.                           *)
FinalizedOnce ==
    [][\A q \in finalized :
          /\ pass = "inside" => inside'[q] = inside[q]
          /\ pass = "outside" => outside'[q] = outside[q]]_<<problem, estimate_vars>>

NoRepeatedChild == \A r \in problem.rules : IsInjective(r.children)

(* Where no rule has a child twice, the scores are the optimal ones. *)
ScoresAreOptimal ==
    pass = "done" /\ NoRepeatedChild =>
        /\ inside = InsideOf[problem]
        /\ outside = OutsideOf[problem]

-----------------------------------------------------------------------------
(* The inductive invariant. *)

(* Entries come off the heap in order: what comes cannot improve what is    *)
(* final.                                                                   *)
FinalizedFirst == \A q \in finalized : \A entry \in heap : PassScore[q] <= entry.cost

(* The scores that partial products have: 1 for the others. *)
FinalScores == [q \in Nodes |-> IF q \in finalized THEN inside[q] ELSE 0]

(* A rule is worth at least its score; less costly only by children that it *)
(* has more than once.                                                      *)
PartialsAreSafe ==
    pass = "inside" => \A r \in problem.rules :
        /\ partial[r] <= Inside(r, FinalScores)
        /\ NoRepeatedChild => partial[r] = Inside(r, FinalScores)
        /\ waiting[r] = 0 => inside[r.result] <= partial[r]

InsideIsSafe ==
    /\ pass # "inside" => \A r \in problem.rules : inside[r.result] <= Inside(r, inside)
    /\ NoRepeatedChild => \A q \in Nodes : problem.inside[q] <= inside[q]

(* The outside scores: no rule of a finalized state improves them, and the  *)
(* rules that attain them lead from the goals to every state that has one.  *)
OutsideChild(place) == outside[place[1].children[place[2]]]

OutsideIsReached ==
    pass # "inside" =>
        /\ \A q \in problem.goals : outside[q] = 0
        /\ \A x \in ChildPlaces(problem.rules) :
              x[1].result \in finalized => OutsideChild(x) <= PlaceCost(x, inside, outside)
        /\ \A S \in SUBSET Nodes :
              /\ problem.goals \subseteq S
              /\ \A x \in ChildPlaces(problem.rules) :
                    x[1].result \in S \cap finalized /\ OutsideChild(x) = PlaceCost(x, inside, outside)
                    => x[1].children[x[2]] \in S
              => {q \in Nodes : outside[q] < Infinity} \subseteq S

EstimateInv ==
    /\ problem \in Problems
    /\ EstimateTypeOK
    /\ FinalizedFirst
    /\ PartialsAreSafe
    /\ InsideIsSafe
    /\ OutsideIsReached
=============================================================================
