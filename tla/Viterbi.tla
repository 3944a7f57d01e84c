------------------------------- MODULE Viterbi -------------------------------
(***************************************************************************)
(* Explicit::viterbi_with: the best tree of a chart, by a depth-first walk *)
(* from the accepting states that scores a state when its children have    *)
(* been walked.  The walk's stack is explicit.  The order in which the     *)
(* rules of a state are indexed, and with it the choice between equally    *)
(* good rules, is left open.                                               *)
(***************************************************************************)
EXTENDS Languages

VARIABLES
    walk,       \* "visit" or "done"
    unwalked,   \* accepting states not yet walked from
    stack,      \* frames [state, exit], the top first
    marks,      \* 0: not met, 1: on the way, 2: scored
    best,       \* scored state |-> [rule, score]: the backpointers
    answer      \* the root of the returned tree, if there is one: {} or {state}

walk_vars == <<walk, unwalked, stack, marks, best, answer>>

-----------------------------------------------------------------------------
Enter(q) == [state |-> q, exit |-> FALSE]
Exit(q)  == [state |-> q, exit |-> TRUE]

RulesInto(q) == {r \in problem.rules : r.result = q}

IsSelfLoop(r) == r.result \in Range(r.children)

(* Children met for the first time, for the rules of q in this order. *)
NewChildren(q, order) ==
    LET children == FlattenSeq([i \in DOMAIN order |->
                        IF IsSelfLoop(order[i]) THEN <<>> ELSE order[i].children])
        frames(child) == IF child # q /\ marks[child] = 0 THEN <<Enter(child)>> ELSE <<>>
    IN  FlattenSeq([i \in DOMAIN children |-> frames(children[i])])

(* Faulty variant: a state is scored before its children are walked. *)
Frames_ExitFirst(q, order) == <<Exit(q)>> \o NewChildren(q, order)

Frames(q, order) == NewChildren(q, order) \o <<Exit(q)>>

(* The scores so far: a state without a backpointer has none. *)
ScoreSoFar == [q \in Nodes |-> IF q \in DOMAIN best THEN best[q].score ELSE Infinity]

RuleScore(r) == Inside(r, ScoreSoFar)

(* The rules score_state chooses from. *)
Available(q) ==
    {r \in RulesInto(q) : ~IsSelfLoop(r) /\ Range(r.children) \subseteq DOMAIN best}

(* The mark that keeps a state from being entered again. *)
IsMet(q) == marks[q] # 0

(* Faulty variant: a state counts as scored when it is entered. *)
EnteredMark_Scored == 2

EnteredMark == 1

-----------------------------------------------------------------------------
WalkInit ==
    /\ problem \in Problems
    /\ walk = "visit"
    /\ unwalked = problem.goals
    /\ stack = <<>>
    /\ marks = [q \in Nodes |-> 0]
    /\ best = <<>>
    /\ answer = {}

(* visit_and_score for the next accepting state. *)
NextRoot(q) ==
    /\ walk = "visit"
    /\ stack = <<>>
    /\ q \in unwalked
    /\ unwalked' = unwalked \ {q}
    /\ stack' = IF marks[q] # 0 THEN stack ELSE <<Enter(q)>>
    /\ UNCHANGED <<problem, walk, marks, best, answer>>

Popping(exit) == walk = "visit" /\ stack # <<>> /\ Head(stack).exit = exit

(* A state is popped on the way down. *)
EnterState ==
    /\ Popping(FALSE)
    /\ LET q == Head(stack).state
       IN  IF IsMet(q)
             THEN stack' = Tail(stack) /\ UNCHANGED marks
             ELSE /\ marks' = [marks EXCEPT ![q] = EnteredMark]
                  /\ \E order \in SetToSeqs(RulesInto(q)) : stack' = Frames(q, order) \o Tail(stack)
    /\ UNCHANGED <<problem, walk, unwalked, best, answer>>

(* A state is popped on the way up: score_state. *)
ExitState ==
    /\ Popping(TRUE)
    /\ LET q == Head(stack).state
           others == [p \in DOMAIN best \ {q} |-> best[p]]
       IN  /\ marks' = [marks EXCEPT ![q] = 2]
           /\ IF Available(q) = {}
                THEN best' = others
                ELSE \E r \in Available(q) :
                        /\ \A s \in Available(q) : RuleScore(r) <= RuleScore(s)
                        /\ best' = [p \in DOMAIN best \cup {q} |->
                                      IF p = q THEN [rule |-> r, score |-> RuleScore(r)] ELSE best[p]]
    /\ stack' = Tail(stack)
    /\ UNCHANGED <<problem, walk, unwalked, answer>>

(* finish_best, and the tree of the best accepting state. *)
Finish ==
    /\ walk = "visit"
    /\ stack = <<>>
    /\ unwalked = {}
    /\ walk' = "done"
    /\ LET scored == problem.goals \cap DOMAIN best
       IN  IF scored = {}
             THEN answer' = {}
             ELSE \E q \in scored :
                    /\ \A p \in scored : best[q].score <= best[p].score
                    /\ answer' = {q}
    /\ UNCHANGED <<problem, unwalked, stack, marks, best>>

WalkNext ==
    \/ \E q \in unwalked : NextRoot(q)
    \/ EnterState
    \/ ExitState
    \/ Finish

WalkSpec == WalkInit /\ [][WalkNext]_<<problem, walk_vars>>

-----------------------------------------------------------------------------
(* Properties. *)

(* Every variable has its type; a state is on the way exactly while its     *)
(* exit frame is on the stack, and is scored at most once.                  *)
WalkTypeOK ==
    /\ walk \in {"visit", "done"}
    /\ unwalked \subseteq problem.goals
    /\ stack \in Seq([state : Nodes, exit : BOOLEAN])
    /\ marks \in [Nodes -> 0..2]
    /\ \A q \in Nodes : marks[q] = 1 <=> Exit(q) \in Range(stack)
    /\ DOMAIN best \subseteq {q \in Nodes : marks[q] = 2}
    /\ \A q \in DOMAIN best : best[q] \in [rule : RulesInto(q), score : Costs]
    /\ answer \subseteq problem.goals

(* No cycles but rules with their result as a child. *)
AcyclicButForLoops ==
    ~ \E S \in (SUBSET Nodes) \ {{}} : \A q \in S :
        \E r \in RulesInto(q) : ~IsSelfLoop(r) /\ Range(r.children) \cap S # {}

(* "Compute the highest-weighted accepted tree": nothing accepted is better *)
(* than the answer, and there is an answer if anything is accepted.         *)
OptimalAnswer ==
    walk = "done" => Optimum(answer, ScoreSoFar) = Optimum(problem.goals, problem.inside)

(* On an acyclic chart a score is final when it is written, although states *)
(* are shared by many parents and reached over several of them: it is the   *)
(* best there is, and the state has no score only if it has no derivation.  *)
(* So the answer is the best tree.                                          *)
ScoresAreFinal ==
    AcyclicButForLoops =>
        /\ \A q \in Nodes : marks[q] = 2 => ScoreSoFar[q] = problem.inside[q]
        /\ OptimalAnswer

(* On any chart, cyclic ones included, the backpointers of the answer give  *)
(* a finite tree with the score that is returned.                           *)
TreeIsWorthItsScore ==
    LET tree == BestInside({best[q].rule : q \in DOMAIN best})
    IN  walk = "done" => \A q \in answer : tree[q] = best[q].score

(* Why the walk ends, on cyclic charts too: no state is on the depth-first  *)
(* path twice, and one that has left the path never comes back: its score,  *)
(* which its parents have used, is not written again.                       *)
ScoredOnce ==
    [][/\ \A i, j \in DOMAIN stack' : stack'[i].exit /\ stack'[i] = stack'[j] => i = j
       /\ \A q \in Nodes : marks[q] = 2 =>
             /\ marks'[q] = 2
             /\ q \in DOMAIN best <=> q \in DOMAIN best'
             /\ q \in DOMAIN best => best'[q] = best[q]]_<<problem, walk_vars>>
-----------------------------------------------------------------------------
(* The inductive invariant. *)

(* The states that the walk goes down to from q. *)
ChildrenOf(q) == UNION {Range(r.children) : r \in {s \in RulesInto(q) : ~IsSelfLoop(s)}}

(* The exit frames are the depth-first path: no state is on it twice, and   *)
(* every frame is for a child of the next state on the path.                *)
PathIsOnStack ==
    /\ \A i, j \in DOMAIN stack : stack[i].exit /\ stack[i] = stack[j] => i = j
    /\ \A i, j \in DOMAIN stack :
          /\ i < j /\ stack[j].exit
          /\ \A k \in DOMAIN stack : i < k /\ k < j => ~stack[k].exit
          => stack[i].state \in ChildrenOf(stack[j].state)

(* A state is left after its children: those not met have their frames      *)
(* above its own.                                                           *)
ChildrenComeFirst ==
    \A j \in DOMAIN stack : stack[j].exit =>
        \A child \in ChildrenOf(stack[j].state) :
            marks[child] # 0 \/ \E i \in DOMAIN stack : i < j /\ stack[i] = Enter(child)

GoalsAreWalked ==
    \A q \in problem.goals : q \in unwalked \/ marks[q] # 0 \/ Enter(q) \in Range(stack)

(* Backpointers are over scored states, are worth what they say, and derive *)
(* the states that have them.                                               *)
BackpointersDerive ==
    /\ \A q \in DOMAIN best : /\ best[q].score = RuleScore(best[q].rule)
                              /\ Range(best[q].rule.children) \subseteq DOMAIN best
    /\ Derive([q \in DOMAIN best |-> best[q].rule])

AnswerIsChosen ==
    walk = "done" =>
        /\ stack = <<>> /\ unwalked = {}
        /\ answer \subseteq DOMAIN best
        /\ \A p \in problem.goals \cap DOMAIN best : \E q \in answer : best[q].score <= best[p].score
        /\ \A p, q \in answer : p = q

WalkInv ==
    /\ problem \in Problems
    /\ WalkTypeOK
    /\ PathIsOnStack
    /\ ChildrenComeFirst
    /\ GoalsAreWalked
    /\ BackpointersDerive
    /\ AnswerIsChosen
    /\ ScoresAreFinal
=============================================================================
