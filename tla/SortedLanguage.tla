---------------------------- MODULE SortedLanguage ----------------------------
(***************************************************************************)
(* SortedLanguageIterator: the accepted derivations of a weighted          *)
(* automaton one by one, the best first, none built before it is needed.   *)
(*                                                                         *)
(* Each state has a stream: the items found so far, in rank order, and the *)
(* candidates for the next one.  An item is a rule with one rank per       *)
(* child; the candidates that follow it raise one of these ranks.  Asking  *)
(* for an item asks the streams of the children, recursively, and a state  *)
(* that is asked again while it is being answered blocks the candidate     *)
(* instead.  The recursion is an explicit stack of calls here.             *)
(*                                                                         *)
(* Ranks start at 1 here and at 0 in the code.  The order of a state's     *)
(* rules is left open.  Heaps are sequences in the order of the sequence   *)
(* numbers their entries are given, by which ties are broken.  Trees are   *)
(* not built: a tree is the state and rank of its root.                    *)
(***************************************************************************)
EXTENDS Languages

CONSTANT MaxTrees     \* bound: how many trees are drawn from the iterator

VARIABLES
    streams,        \* state |-> [known, agenda, generated, unstarted, successors_pending]
    calls,          \* ensure_item_recursive: [state, todo, ready, leftovers], innermost first
    roots,          \* accepting states the root agenda has not been seeded with
    root_agenda,    \* next item of each accepting stream: [state, rank, cost]
    pending_root_successor,  \* the item to ask for at the next call of next(): {} or {[state, rank]}
    request,        \* the item a root stream is being asked for: {} or {[state, rank]}
    output,         \* the trees returned so far: [state, rank, cost]
    ended           \* next() has returned None

vars == <<problem, streams, calls, roots, root_agenda, pending_root_successor, request,
          output, ended>>

-----------------------------------------------------------------------------
RulesInto(q) == {r \in problem.rules : r.result = q}

(* reachable_states_ref: the states with a derivation. *)
Reachable == ProductiveIn[problem]

Known(q) == streams[q].known

Item(rule, ranks, cost) == [rule |-> rule, ranks |-> ranks, cost |-> cost]

(* A candidate that raises the rank of one child of an earlier item (base); *)
(* factor is the score of everything but that child.                        *)
Bump(rule, base, dimension, factor) ==
    [rule |-> rule, base |-> base, dimension |-> dimension, factor |-> factor]

(* The first candidate of a rule: the best item of each child. *)
Zero(rule) == Bump(rule, 0, 0, rule.cost)

(* Faulty variant: every rank of every item may be raised. *)
SuccessorLimit_Every(ranks) == Len(ranks)

(* canonical_successor_limit: up to the first rank that was raised already. *)
SuccessorLimit(ranks) ==
    Min({i \in DOMAIN ranks : ranks[i] # 1} \cup {Len(ranks)})

(* Faulty variant: the raised child's old score stays in the factor. *)
FactorWithout_Kept(item, d) == item.cost

(* The score of an item without that of child d: left_factor * right_factor. *)
FactorWithout(item, d) ==
    LET others == DOMAIN item.ranks \ {d}
        cost(i) == Known(item.rule.children[i])[item.ranks[i]].cost
    IN  Capped(item.rule.cost + SumFunction([i \in others |-> cost(i)]))

(* expand_successors for the last item of a stream. *)
Successors(q) ==
    LET base == Len(Known(q))
        item == Known(q)[base]
    IN  [d \in 1..SuccessorLimit(item.ranks) |-> Bump(item.rule, base, d, FactorWithout(item, d))]

(* The items a candidate of stream q is made of, in the order asked for. *)
Needs(q, candidate) ==
    LET children == candidate.rule.children
        d == candidate.dimension
    IN  IF d = 0
          THEN [i \in DOMAIN children |-> [state |-> children[i], rank |-> 1]]
          ELSE <<[state |-> children[d], rank |-> Known(q)[candidate.base].ranks[d] + 1]>>

IsKnown(need) == need.rank <= Len(Known(need.state))

(* A candidate whose items are all known, with its score. *)
Scored(q, candidate) ==
    LET needs == Needs(q, candidate)
        cost(i) == Known(needs[i].state)[needs[i].rank].cost
    IN  [rule |-> candidate.rule, base |-> candidate.base, dimension |-> candidate.dimension,
         cost |-> Capped(candidate.factor + SumFunction([i \in DOMAIN needs |-> cost(i)]))]

(* Faulty variant: the candidate pushed first, not the best one. *)
BestIn_First(heap) == 1

(* The position of the best entry of a heap, the earliest of equals. *)
BestIn(heap) ==
    Min({i \in DOMAIN heap : \A j \in DOMAIN heap : heap[i].cost <= heap[j].cost})

(* The ranks of a scored candidate of stream q. *)
RanksOf(q, scored) ==
    IF scored.dimension = 0
      THEN [i \in DOMAIN scored.rule.children |-> 1]
      ELSE [Known(q)[scored.base].ranks EXCEPT ![scored.dimension] = @ + 1]

(* finalize_candidate: the candidate is the next item.  A unary item's     *)
(* successor is generated now, those of a wider one before the next item.  *)
Finalized(q, scored, stream) ==
    LET rank  == Len(stream.known) + 1
        arity == Len(scored.rule.children)
    IN  [stream EXCEPT
            !.known = Append(@, Item(scored.rule, RanksOf(q, scored), scored.cost)),
            !.generated = IF arity = 1 THEN Append(@, Bump(scored.rule, rank, 1, scored.rule.cost))
                                       ELSE @,
            !.successors_pending = arity >= 2]

(* The best entry of the agenda becomes the next item. *)
PopBest(q, agenda, stream) ==
    LET best == BestIn(agenda)
    IN  Finalized(q, agenda[best], [stream EXCEPT !.agenda = RemoveAt(agenda, best)])

(* expand_pending. *)
Expanded(q) ==
    IF streams[q].successors_pending
      THEN [streams[q] EXCEPT !.generated = @ \o Successors(q), !.successors_pending = FALSE]
      ELSE streams[q]

(* The stream cannot be asked for this item now. *)
IsBlocked(need) ==
    \/ need.rank # Len(Known(need.state)) + 1
    \/ \E i \in DOMAIN calls : calls[i].state = need.state

(* Rules with a child without derivations never become candidates. *)
InitialRules(q) ==
    IF streams[q].unstarted
      THEN {r \in RulesInto(q) : Range(r.children) \subseteq Reachable}
      ELSE {}

(* ensure_item_recursive starts: the generated candidates, the last first,  *)
(* then the rules that have not been tried.                                 *)
Call(q) ==
    LET stream == Expanded(q)
    IN  /\ \E order \in SetToSeqs(InitialRules(q)) :
              calls' = <<[state |-> q,
                          todo |-> Reverse(stream.generated) \o [i \in DOMAIN order |-> Zero(order[i])],
                          ready |-> <<>>, leftovers |-> <<>>]>> \o calls
        /\ streams' = [streams EXCEPT ![q] = [stream EXCEPT !.generated = <<>>, !.unstarted = FALSE]]

-----------------------------------------------------------------------------
Init ==
    /\ problem \in Problems
    /\ streams = [q \in Nodes |-> [known |-> <<>>, agenda |-> <<>>, generated |-> <<>>,
                                   unstarted |-> q \in Reachable, successors_pending |-> FALSE]]
    /\ calls = <<>>
    /\ roots = problem.goals
    /\ root_agenda = <<>>
    /\ pending_root_successor = {}
    /\ request = {}
    /\ output = <<>>
    /\ ended = FALSE

iterator == <<problem, roots, root_agenda, pending_root_successor, request, output, ended>>

(* initialize_root_agenda asks each accepting stream for its first item. *)
SeedRoot(q) ==
    /\ request = {}
    /\ q \in roots
    /\ roots' = roots \ {q}
    /\ request' = {[state |-> q, rank |-> 1]}
    /\ UNCHANGED <<problem, streams, calls, root_agenda, pending_root_successor, output, ended>>

(* advance_pending_root_stream: the stream of the last tree is asked again. *)
AdvanceRoot ==
    /\ request = {}
    /\ pending_root_successor # {}
    /\ Len(output) < MaxTrees
    /\ request' = pending_root_successor
    /\ pending_root_successor' = {}
    /\ UNCHANGED <<problem, streams, calls, roots, root_agenda, output, ended>>

(* All unstarted rules of q are nullary and there is nothing else to try. *)
NullaryOnly(q) ==
    LET stream == streams[q]
    IN  /\ stream.generated = <<>>
        /\ stream.agenda = <<>>
        /\ ~stream.successors_pending
        /\ stream.unstarted
        /\ RulesInto(q) # {}
        /\ \A r \in RulesInto(q) : r.children = <<>>

(* state_item_weight without recursion: nullary rules, or candidates that   *)
(* are all on the agenda.                                                   *)
AskShortcut ==
    /\ calls = <<>>
    /\ \E need \in request :
          LET q == need.state
              stream == Expanded(q)
          IN  /\ ~IsKnown(need)
              /\ NullaryOnly(q) \/ (stream.agenda # <<>> /\ stream.generated = <<>> /\ ~stream.unstarted)
              /\ \E agenda \in IF NullaryOnly(q) THEN SetToSeqs({Scored(q, Zero(r)) : r \in RulesInto(q)})
                                                  ELSE {stream.agenda} :
                    streams' = [streams EXCEPT ![q] =
                                   PopBest(q, agenda, [stream EXCEPT !.unstarted = FALSE])]
    /\ UNCHANGED <<calls, iterator>>

(* state_item_weight with recursion. *)
Ask ==
    /\ calls = <<>>
    /\ \E need \in request :
          LET q == need.state
              stream == Expanded(q)
          IN  /\ ~IsKnown(need)
              /\ ~NullaryOnly(q)
              /\ stream.agenda = <<>> \/ stream.generated # <<>> \/ stream.unstarted
              /\ Call(q)
    /\ UNCHANGED iterator

(* The item asked for is there: push_root. *)
Deliver ==
    /\ calls = <<>>
    /\ \E need \in request :
          /\ IsKnown(need)
          /\ root_agenda' = Append(root_agenda,
                [state |-> need.state, rank |-> need.rank, cost |-> Known(need.state)[need.rank].cost])
    /\ request' = {}
    /\ UNCHANGED <<problem, streams, calls, roots, pending_root_successor, output, ended>>

(* resolve_candidate_recursive: the first item that is not known is asked   *)
(* for, unless it is blocked; a candidate without such items is ready.      *)
Resolve ==
    /\ calls # <<>>
    /\ calls[1].todo # <<>>
    /\ LET call == calls[1]
           candidate == Head(call.todo)
           needs == Needs(call.state, candidate)
           missing == {i \in DOMAIN needs : ~IsKnown(needs[i])}
           next == needs[Min(missing)]
       IN  IF missing = {}
             THEN /\ calls' = [calls EXCEPT ![1].todo = Tail(@),
                                            ![1].ready = Append(@, Scored(call.state, candidate))]
                  /\ UNCHANGED streams
             ELSE IF IsBlocked(next)
                    THEN /\ calls' = [calls EXCEPT ![1].todo = Tail(@),
                                                   ![1].leftovers = Append(@, candidate)]
                         /\ UNCHANGED streams
                    ELSE Call(next.state)
    /\ UNCHANGED iterator

(* Faulty variant: a candidate that waits for a blocked child is dropped. *)
CallerAfter_Drops(caller, is_exhausted) == [caller EXCEPT !.todo = Tail(@)]

(* Faulty variant: the caller asks the exhausted child again. *)
CallerAfter_Retries(caller, is_exhausted) ==
    IF is_exhausted THEN caller
    ELSE [caller EXCEPT !.todo = Tail(@), !.leftovers = Append(@, Head(caller.todo))]

(* A caller whose child has no further item: the candidate is dead, or      *)
(* kept if the child is only blocked.                                       *)
CallerAfter(caller, is_exhausted) ==
    [caller EXCEPT !.todo = Tail(@),
                   !.leftovers = IF is_exhausted THEN @ ELSE Append(@, Head(caller.todo))]

(* merge_ready_and_pop, finalize_candidate, and the return to the caller,   *)
(* which finds the item known.                                              *)
ReturnItem ==
    /\ calls # <<>>
    /\ calls[1].todo = <<>>
    /\ LET q == calls[1].state
           agenda == streams[q].agenda \o calls[1].ready
       IN  /\ agenda # <<>>
           /\ streams' = [streams EXCEPT ![q] =
                             PopBest(q, agenda, [streams[q] EXCEPT !.generated = calls[1].leftovers])]
    /\ calls' = Tail(calls)
    /\ UNCHANGED iterator

(* Nothing is ready: Exhausted or Blocked.  For a root stream both mean     *)
(* that it is given up.                                                     *)
ReturnNothing ==
    /\ calls # <<>>
    /\ calls[1].todo = <<>>
    /\ LET q == calls[1].state
       IN  /\ streams[q].agenda = <<>> /\ calls[1].ready = <<>>
           /\ streams' = [streams EXCEPT ![q].generated = calls[1].leftovers]
    /\ IF Len(calls) = 1
         THEN calls' = <<>> /\ request' = {}
         ELSE /\ calls' = <<CallerAfter(calls[2], calls[1].leftovers = <<>>)>> \o Tail(Tail(calls))
              /\ UNCHANGED request
    /\ UNCHANGED <<problem, roots, root_agenda, pending_root_successor, output, ended>>

(* next() returns the best of the accepting streams' items. *)
Emit ==
    /\ request = {} /\ roots = {} /\ pending_root_successor = {}
    /\ root_agenda # <<>>
    /\ LET best == root_agenda[BestIn(root_agenda)]
       IN  /\ root_agenda' = RemoveAt(root_agenda, BestIn(root_agenda))
           /\ pending_root_successor' = {[state |-> best.state, rank |-> best.rank + 1]}
           /\ output' = Append(output, best)
    /\ UNCHANGED <<problem, streams, calls, roots, request, ended>>

(* next() returns None. *)
End ==
    /\ request = {} /\ roots = {} /\ pending_root_successor = {}
    /\ root_agenda = <<>>
    /\ ~ended
    /\ ended' = TRUE
    /\ UNCHANGED <<problem, streams, calls, roots, root_agenda, pending_root_successor, request, output>>

Next ==
    \/ \E q \in roots : SeedRoot(q)
    \/ AdvanceRoot
    \/ AskShortcut
    \/ Ask
    \/ Deliver
    \/ Resolve
    \/ ReturnItem
    \/ ReturnNothing
    \/ Emit
    \/ End

(* A call of next() runs to its end, and the caller keeps calling. *)
Spec == Init /\ [][Next]_vars /\ WF_vars(Next)

-----------------------------------------------------------------------------
(* Properties. *)

(* Every variable has its type; an item refers to known items of its        *)
(* children, from which its tree is built; no state is on the call stack    *)
(* twice, so the recursion is no deeper than the automaton has states.      *)
TypeOK ==
    /\ DOMAIN streams = Nodes
    /\ \A q \in Nodes : \A i \in DOMAIN Known(q) :
          /\ Known(q)[i].rule \in RulesInto(q)
          /\ Known(q)[i].cost \in Costs
          /\ DOMAIN Known(q)[i].ranks = DOMAIN Known(q)[i].rule.children
          /\ \A c \in DOMAIN Known(q)[i].ranks :
                Known(q)[i].ranks[c] \in DOMAIN Known(Known(q)[i].rule.children[c])
    /\ \A i, j \in DOMAIN calls : calls[i].state = calls[j].state => i = j
    /\ \A root \in Range(root_agenda) \cup Range(output) : root.rank \in DOMAIN Known(root.state)
    /\ roots \subseteq problem.goals
    /\ ended \in BOOLEAN

(* An item has the score of its tree, although the scores of successors are *)
(* computed from partial products taken when they were generated.           *)
ItemsAreWorthTheirScore ==
    \A q \in Nodes : \A i \in DOMAIN Known(q) :
        LET item == Known(q)[i]
            cost(c) == Known(item.rule.children[c])[item.ranks[c]].cost
        IN  item.cost = Capped(item.rule.cost + SumFunction([c \in DOMAIN item.ranks |-> cost(c)]))

(* No derivation is returned twice, although a tuple of ranks can be        *)
(* reached by raising its ranks in several orders, and the same state may   *)
(* be asked for by the caller and by other streams.                         *)
NoDerivationTwice ==
    /\ \A q \in Nodes : \A i, j \in DOMAIN Known(q) :
          /\ Known(q)[i].rule = Known(q)[j].rule
          /\ Known(q)[i].ranks = Known(q)[j].ranks
          => i = j
    /\ \A i, j \in DOMAIN output :
          output[i].state = output[j].state /\ output[i].rank = output[j].rank => i = j

(* "in descending weight order": a tree is no better than those before it. *)
DescendingOrder == \A i, j \in DOMAIN output : i < j => output[i].cost <= output[j].cost

(* On acyclic automata the trees come in order, and the first is as good as *)
(* the best derivation there is.                                            *)
AcyclicDescendingOrder ==
    ~HasCycleIn[problem] =>
        /\ DescendingOrder
        /\ output # <<>> => output[1].cost = Optimum(problem.goals, problem.inside)

(* The derivations of q that the streams' items can make. *)
Combinations(q) ==
    UNION {{<<r, ranks>> : ranks \in {f \in [DOMAIN r.children -> 1..MaxTrees] :
              \A i \in DOMAIN f : f[i] \in DOMAIN Known(r.children[i])}} : r \in RulesInto(q)}

(* Nothing more will be asked of the stream of an accepting state. *)
GivenUp(q) ==
    /\ q \in problem.goals \ roots
    /\ \A need \in request \cup pending_root_successor \cup Range(root_agenda) : need.state # q

(* When an accepting stream is given up, every derivation of its state has  *)
(* been returned, and every derivation of the states below it found: no     *)
(* candidate is lost while it is blocked, and a stream that is blocked has  *)
(* nothing left to return.                                                  *)
NothingMissed ==
    \A q \in problem.goals \cap Reachable : GivenUp(q) =>
        /\ \A p \in Below(problem.rules, {q}) :
              /\ Known(p) # <<>>
              /\ Combinations(p) = {<<Known(p)[i].rule, Known(p)[i].ranks>> : i \in DOMAIN Known(p)}
        /\ \A i \in DOMAIN Known(q) :
              \E j \in DOMAIN output : output[j].state = q /\ output[j].rank = i

(* next() returns: the recursion ends on cyclic automata too. *)
Progress == <>(ended \/ Len(output) = MaxTrees)
=============================================================================
