----------------------------- MODULE AstarSearch -----------------------------
(***************************************************************************)
(* The eager A* search of astar.rs over the product of a grammar and a     *)
(* right automaton, with both of its users: the chart materializer, which  *)
(* emits the winning rule of a product state whenever it is finalized, and *)
(* the one-best search, which keeps backpointers and rebuilds a tree.      *)
(*                                                                         *)
(* The heuristic is any admissible one.  It need not be consistent: a      *)
(* finalized product state whose score is improved later is opened again.  *)
(* The weighted rules of the product are given; how joins find them is the *)
(* matter of IndexedIntersection.  A product state is named by its pair.   *)
(***************************************************************************)
EXTENDS Scores

CONSTANTS
    Problems,   \* inputs: rules, goals (accepting product states), estimate,
                \* filtered, and, for reference, inside and outside
    Options     \* ways to call the search: chart, stop_at_first_goal, beam

(* A heuristic that is never above the true outside cost.  The product      *)
(* states that it filters, for which `admits` is false, are hopeless.       *)
Admissible(problem) ==
    /\ BoundsOutside(problem.rules, problem.goals, problem.inside, problem.outside)
    /\ \A q \in Nodes : problem.estimate[q] <= problem.outside[q]
    /\ \A q \in problem.filtered : problem.outside[q] = Infinity

ASSUME ProblemsAreWeighted ==
    \A problem \in Problems :
        /\ \A r \in problem.rules : IsWeighted(r)
        /\ problem.goals \subseteq Nodes
        /\ {problem.estimate, problem.inside, problem.outside} \subseteq [Nodes -> Costs]
        /\ IsInside(problem.rules, problem.inside)
        /\ Admissible(problem)

ASSUME OptionsAreModes ==
    Options \subseteq [chart : BOOLEAN, stop_at_first_goal : BOOLEAN, beam : Costs]

VARIABLES
    problem, options,     \* the inputs, never written
    pc,                   \* "push", "pop", "stopped", "done" or "cancelled"
    best_score,           \* best inside score found for each product state
    agenda,               \* open product state |-> [rule, merit]: heap and pending
    finalized,            \* closed product states
    finalized_partners,   \* product states that have ever been closed
    candidates,           \* rules found but not yet pushed
    backpointers,         \* product state |-> [rule, score], in one-best mode
    emitted,              \* rules of the chart, in chart mode
    duplicate,            \* the rule tracker has met a rule it had seen
    goal_state,           \* the first goal finalized: {} or {product state}
    cancelled             \* the shared ParseControl flag

vars == <<problem, options, pc, best_score, agenda, finalized, finalized_partners,
          candidates, backpointers, emitted, duplicate, goal_state, cancelled>>

input  == <<problem, options>>
closed == <<finalized_partners, backpointers, emitted, duplicate, goal_state>>

-----------------------------------------------------------------------------
Put(f, q, value) == [p \in DOMAIN f \cup {q} |-> IF p = q THEN value ELSE f[p]]

(* seed_nullary_edges. *)
Seeds == {r \in problem.rules : r.children = <<>>}

(* Faulty variant: only rules whose other children differ from the trigger. *)
CandidatesOf_OnceEach(q, partners) ==
    {r \in problem.rules : /\ Range(r.children) \subseteq partners
                           /\ Cardinality({i \in DOMAIN r.children : r.children[i] = q}) = 1}

(* expand_from_finalized: the rules with q as a child whose children are    *)
(* all partners.  first_trigger picks one of q's positions.                 *)
CandidatesOf(q, partners) ==
    {r \in problem.rules : q \in Range(r.children) /\ Range(r.children) \subseteq partners}

(* Faulty variant: the heap is not put in order after an update. *)
IsBest_AnyOpen(q) == q \in DOMAIN agenda

(* The heap's order: nothing open has a better merit; ties are arbitrary.   *)
IsBest(q) ==
    q \in DOMAIN agenda /\ \A p \in DOMAIN agenda : agenda[q].merit <= agenda[p].merit

Merit(q, inside) == Capped(inside + problem.estimate[q])

Admits(q) == q \notin problem.filtered

(* Faulty variant: a finalized product state is final. *)
Improves_UnlessFinalized(q, inside) ==
    Admits(q) /\ inside < best_score[q] /\ q \notin finalized

(* Faulty variant: an equal score counts as better. *)
Improves_OrEquals(q, inside) == Admits(q) /\ inside <= best_score[q] /\ inside < Infinity

(* A candidate with this score is neither filtered nor dominated. *)
Improves(q, inside) == Admits(q) /\ inside < best_score[q]

(* Faulty variant: an improved product state stays closed. *)
Reopen_Not(q) == finalized

Reopen(q) == finalized \ {q}

(* Faulty variant: a goal is not activated. *)
Activate_NoGoal(q) == finalized_partners \cup ({q} \ problem.goals)

Activate(q) == finalized_partners \cup {q}

(* Faulty variant: the first backpointer is kept. *)
SetBackpointer_First(q, rule) ==
    IF q \in DOMAIN backpointers THEN backpointers
    ELSE Put(backpointers, q, [rule |-> rule, score |-> best_score[q]])

SetBackpointer(q, rule) == Put(backpointers, q, [rule |-> rule, score |-> best_score[q]])

-----------------------------------------------------------------------------
Init ==
    /\ problem \in Problems
    /\ options \in Options
    /\ pc = "push"
    /\ best_score = Impossible
    /\ agenda = <<>>
    /\ finalized = {}
    /\ finalized_partners = {}
    /\ candidates = Seeds
    /\ backpointers = <<>>
    /\ emitted = {}
    /\ duplicate = FALSE
    /\ goal_state = {}
    /\ cancelled = FALSE

(* push_candidate and push_seed: with the children's scores of this moment. *)
(* A product that is not admitted, or not improved, is left alone.  A       *)
(* better rule replaces the pending one, and opens a finalized product.     *)
PushCandidate(r) ==
    /\ pc = "push"
    /\ r \in candidates
    /\ candidates' = candidates \ {r}
    /\ LET inside == Inside(r, best_score)
           parent == r.result
       IN  IF Improves(parent, inside)
             THEN /\ best_score' = [best_score EXCEPT ![parent] = inside]
                  /\ finalized' = Reopen(parent)
                  /\ agenda' = Put(agenda, parent, [rule |-> r, merit |-> Merit(parent, inside)])
             ELSE UNCHANGED <<best_score, finalized, agenda>>
    /\ UNCHANGED <<input, pc, closed, cancelled>>

(* All candidates are pushed: back to the head of the loop. *)
EndPush ==
    /\ pc = "push"
    /\ candidates = {}
    /\ pc' = "pop"
    /\ UNCHANGED <<input, best_score, agenda, finalized, candidates, closed, cancelled>>

(* on_finalize of the chart materializer: the winning rule is emitted. *)
Emit(rule, merit) ==
    IF options.chart /\ (options.stop_at_first_goal \/ merit <= options.beam)
      THEN emitted' = emitted \cup {rule} /\ duplicate' = (duplicate \/ rule \in emitted)
      ELSE UNCHANGED <<emitted, duplicate>>

(* pop_next_finalized, activate, on_finalize, and enumerate up to the point *)
(* where candidates are pushed; at the first goal the loop may end instead. *)
PopFinalized(q) ==
    /\ pc = "pop"
    /\ ~cancelled
    /\ IsBest(q)
    /\ LET rule == agenda[q].rule
           stop == q \in problem.goals /\ options.stop_at_first_goal
       IN  /\ Emit(rule, agenda[q].merit)
           /\ backpointers' = IF options.chart THEN backpointers ELSE SetBackpointer(q, rule)
           /\ goal_state' = IF q \in problem.goals /\ goal_state = {} THEN {q} ELSE goal_state
           /\ finalized_partners' = Activate(q)
           /\ candidates' = IF stop THEN {} ELSE CandidatesOf(q, Activate(q))
           /\ pc' = IF stop THEN "stopped" ELSE "push"
    /\ finalized' = finalized \cup {q}
    /\ agenda' = Restrict(agenda, DOMAIN agenda \ {q})
    /\ UNCHANGED <<input, best_score, cancelled>>

(* The loop ends: no product state is open, or the flag was seen. *)
EndSearch ==
    /\ pc = "pop"
    /\ cancelled \/ DOMAIN agenda = {}
    /\ pc' = "stopped"
    /\ UNCHANGED <<input, best_score, agenda, finalized, candidates, closed, cancelled>>

(* The caller's check after the search: a chart cut short is not returned.  *)
Return ==
    /\ pc = "stopped"
    /\ pc' = IF cancelled THEN "cancelled" ELSE "done"
    /\ UNCHANGED <<input, best_score, agenda, finalized, candidates, closed, cancelled>>

(* ParseControl::cancel, from any thread.  The one-best search has no flag. *)
Cancel ==
    /\ options.chart
    /\ ~cancelled
    /\ cancelled' = TRUE
    /\ UNCHANGED <<input, pc, best_score, agenda, finalized, candidates, closed>>

Work ==
    \/ \E r \in candidates : PushCandidate(r)
    \/ EndPush
    \/ \E q \in Nodes : PopFinalized(q)
    \/ EndSearch
    \/ Return

Next == Work \/ Cancel

(* The parsing thread keeps running; nobody has to cancel it. *)
Spec == Init /\ [][Next]_vars /\ WF_vars(Work)

-----------------------------------------------------------------------------
(* Properties. *)

(* Every variable has its type. *)
TypeOK ==
    /\ pc \in {"push", "pop", "stopped", "done", "cancelled"}
    /\ best_score \in [Nodes -> Costs]
    /\ DOMAIN agenda \subseteq Nodes
    /\ \A q \in DOMAIN agenda : agenda[q] \in [rule : problem.rules, merit : Costs]
    /\ finalized \subseteq finalized_partners
    /\ finalized_partners \subseteq Nodes
    /\ candidates \subseteq problem.rules
    /\ DOMAIN backpointers \subseteq finalized_partners
    /\ \A q \in DOMAIN backpointers : backpointers[q] \in [rule : problem.rules, score : Costs]
    /\ emitted \subseteq problem.rules
    /\ duplicate \in BOOLEAN
    /\ goal_state \subseteq problem.goals
    /\ cancelled \in BOOLEAN

(* A product state is open or closed, never both: the assertion when a      *)
(* product is popped.  The agenda is up to date: the entry of an open state *)
(* has the merit of its best score, however often it was improved, and its  *)
(* rule gives that score, or a better one since a child has improved.       *)
AgendaIsCurrent ==
    \A q \in DOMAIN agenda :
        /\ q \notin finalized
        /\ agenda[q].merit = Merit(q, best_score[q])
        /\ Inside(agenda[q].rule, best_score) <= best_score[q]
        /\ Range(agenda[q].rule.children) \subseteq finalized_partners

(* Expanded product states: a first goal that ends the search is not. *)
Expanded == IF options.stop_at_first_goal THEN finalized \ goal_state ELSE finalized

(* No rule is lost between the snapshot of candidates, the moving scores    *)
(* and the states that are closed and opened again: a rule over expanded    *)
(* states has been offered to its result with the scores they have now, or  *)
(* is waiting to be.                                                        *)
NothingForgotten ==
    \A r \in problem.rules :
        Range(r.children) \subseteq Expanded /\ Admits(r.result)
        => r \in candidates \/ best_score[r.result] <= Inside(r, best_score)

(* However misleading an admissible heuristic is, the first goal finalized  *)
(* has the best score of all accepted derivations, and there is none only   *)
(* if nothing is accepted.  A search that does not stop there ends with the *)
(* best score of every product state that an accepted derivation can use.   *)
OptimalAnswer ==
    pc = "done" =>
        /\ goal_state = {} <=> Optimum(problem.goals, problem.inside) = Infinity
        /\ options.stop_at_first_goal =>
              \A q \in goal_state : best_score[q] = Optimum(problem.goals, problem.inside)
        /\ ~options.stop_at_first_goal =>
              \A q \in Nodes : problem.inside[q] + problem.outside[q] < Infinity
                                => q \in finalized /\ best_score[q] = problem.inside[q]

(* What is handed out is worth the score it is handed out with.  The tree   *)
(* rebuilt from the backpointers, which are overwritten when states are     *)
(* finalized again, is finite and has the score of its goal; the chart      *)
(* contains a best derivation, if the beam admits it.                       *)
AnswerIsWorthItsScore ==
    pc = "done" =>
        IF options.chart
          THEN LET best == Optimum(problem.goals, problem.inside)
               IN  options.stop_at_first_goal \/ best <= options.beam
                   => Optimum(problem.goals, BestInside(emitted)) = best
          ELSE LET tree == BestInside({backpointers[q].rule : q \in DOMAIN backpointers})
               IN  \A q \in goal_state : tree[q] = backpointers[q].score

(* A search for one goal never finalizes a product state whose merit is     *)
(* worse than the best accepted derivation.                                 *)
NothingWorseIsExpanded ==
    [][\A q \in DOMAIN agenda :
          PopFinalized(q) /\ options.stop_at_first_goal
          => agenda[q].merit <= Optimum(problem.goals, problem.inside)]_vars

(* The search only ever lowers scores by rules over scored children, ends,  *)
(* and answers with the best score or, cancelled, not at all.               *)
Promise == INSTANCE Relaxation
             WITH score   <- best_score,
                  outcome <- IF pc = "done" THEN "answer"
                             ELSE IF pc = "cancelled" THEN "none" ELSE "running"

ImplementsRelaxation == Promise!Spec

(* The chart materializer never hands the same transition to the builder    *)
(* twice, as the rule tracker asserts.                                      *)
NoDuplicateRule == ~duplicate

-----------------------------------------------------------------------------
(* The inductive invariant. *)

(* Scores are those of derivations, and a state that has one is open or     *)
(* closed.                                                                  *)
ScoresAreKept ==
    /\ \A q \in Nodes : problem.inside[q] <= best_score[q]
    /\ \A q \in Nodes : best_score[q] < Infinity => q \in finalized \cup DOMAIN agenda
    /\ \A q \in finalized_partners \cup DOMAIN agenda : best_score[q] < Infinity

CandidatesAreReady ==
    /\ \A r \in candidates : Range(r.children) \subseteq finalized_partners
    /\ pc # "push" => candidates = {}

(* goal_state is the first goal that was finalized, and the best one if the *)
(* search stops there.                                                      *)
GoalIsFirst ==
    /\ goal_state = {} => finalized_partners \cap problem.goals = {}
    /\ goal_state # {} => \E q \in finalized_partners \cap problem.goals : goal_state = {q}
    /\ options.stop_at_first_goal /\ goal_state # {} =>
          /\ pc \notin {"push", "pop"}
          /\ \A q \in goal_state : best_score[q] = Optimum(problem.goals, problem.inside)

(* A search ends at its goal, when nothing is open, or cancelled. *)
EndIsReached ==
    pc = "done" \/ (pc = "stopped" /\ ~cancelled) =>
        DOMAIN agenda = {} \/ (options.stop_at_first_goal /\ goal_state # {})

SearchInv ==
    /\ TypeOK
    /\ \A q \in DOMAIN agenda : agenda[q].rule.result = q
    /\ AgendaIsCurrent
    /\ NothingForgotten
    /\ ScoresAreKept
    /\ CandidatesAreReady
    /\ GoalIsFirst
    /\ EndIsReached

IInv == problem \in Problems /\ options \in Options /\ SearchInv

(* For AnswerIsWorthItsScore: the rule that a closed state has won with was *)
(* handed out.                                                              *)
HandedOut(rule, q) ==
    IF options.chart
      THEN \/ rule \in emitted
           \/ ~options.stop_at_first_goal /\ Merit(q, best_score[q]) > options.beam
      ELSE q \in DOMAIN backpointers /\ backpointers[q] = [rule |-> rule, score |-> best_score[q]]

(* Open and closed states have rules that derive them and are worth their   *)
(* scores: as a score is no better than a child's, no improvement closes a  *)
(* cycle.                                                                   *)
WinnersAreKept ==
    \E rule \in [finalized \cup DOMAIN agenda -> problem.rules] :
        /\ \A q \in DOMAIN rule : /\ rule[q].result = q
                                  /\ Range(rule[q].children) \subseteq finalized_partners
                                  /\ Inside(rule[q], best_score) <= best_score[q]
        /\ \A q \in DOMAIN agenda : rule[q] = agenda[q].rule
        /\ \A q \in finalized : HandedOut(rule[q], q)
        /\ Derive(rule)

(* A search for one goal closes what is promising.  What it has opened      *)
(* again is better than the optimum promises, so it comes before the goal.  *)
ReopenedIsBetter ==
    LET best == Optimum(problem.goals, problem.inside)
    IN  options.stop_at_first_goal /\ best < Infinity =>
           IF goal_state = {}
             THEN \A q \in finalized_partners :
                     /\ Merit(q, best_score[q]) <= best
                     /\ q \in DOMAIN agenda => Merit(q, best_score[q]) < best
             ELSE finalized_partners \cap DOMAIN agenda = {}

AnswerInv == WinnersAreKept /\ ReopenedIsBetter
=============================================================================
