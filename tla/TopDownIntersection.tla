-------------------------- MODULE TopDownIntersection --------------------------
(***************************************************************************)
(* materialize_topdown_condensed_intersection: the right automaton is      *)
(* walked depth first from its accepting states.  A right state's normal   *)
(* rules are joined with the grammar once their children have been visited;*)
(* its loop rules, which have the state itself as a child, are joined last *)
(* and saturated, one loop position after the other.                       *)
(*                                                                         *)
(* The call stack of visit() is the variable work: what the active calls   *)
(* have still to do, innermost call first.  The order in which the oracle  *)
(* reports rules and the iteration order of hash sets are left open.       *)
(***************************************************************************)
EXTENDS Chart, SequencesExt

VARIABLES
    pc,         \* "start", "visit", "saturate", "join", "done" or "cancelled"
    work,       \* the pending steps of the active calls of visit
    visited,    \* right states whose visit has begun
    partners,   \* right state |-> left states it is paired with
    matches,    \* matched left rules not yet collected
    agenda,     \* left states not yet tried at the loop position
    seen,       \* left states that have been put on this agenda
    cancelled   \* the shared ParseControl flag

vars == <<left, right, pc, product_pairs, accepting, rules, duplicate, work, visited,
          partners, matches, agenda, seen, cancelled>>

input == <<left, right>>
chart == <<product_pairs, accepting, rules, duplicate, partners>>
loop  == <<agenda, seen>>

-----------------------------------------------------------------------------
(* The steps of a call. *)

Visit(q)         == [do |-> "visit", state |-> q]
Join(r)          == [do |-> "join", rule |-> r]
Saturate(r, p)   == [do |-> "saturate", rule |-> r, position |-> p]
Return(q)        == [do |-> "return", state |-> q]

IsLoop(r) == r.result \in Range(r.children)

VisitAll(states) == [i \in DOMAIN states |-> Visit(states[i])]

(* The children of a loop rule that are visited first, and the positions at *)
(* which its own result stands, in order.                                   *)
VisitOthers(r) ==
    FlattenSeq([i \in DOMAIN r.children |->
                   IF r.children[i] = r.result THEN <<>> ELSE <<Visit(r.children[i])>>])

Saturations(r) ==
    FlattenSeq([i \in DOMAIN r.children |->
                   IF r.children[i] = r.result THEN <<Saturate(r, i)>> ELSE <<>>])

(* Faulty variant: a normal rule is joined before its children are visited. *)
BodyOf_JoinFirst(q, order) ==
    FlattenSeq([i \in DOMAIN order |-> <<Join(order[i])>> \o VisitAll(order[i].children)])
    \o <<Return(q)>>

(* What visit(q) does when the oracle reports q's rules in this order. *)
BodyOf(q, order) ==
    LET Normal(r) == IF IsLoop(r) THEN <<>> ELSE VisitAll(r.children) \o <<Join(r)>>
        Before(r) == IF IsLoop(r) THEN VisitOthers(r) ELSE <<>>
        Loops(r)  == IF IsLoop(r) THEN Saturations(r) ELSE <<>>
    IN  FlattenSeq([i \in DOMAIN order |-> Normal(order[i])])
        \o FlattenSeq([i \in DOMAIN order |-> Before(order[i])])
        \o FlattenSeq([i \in DOMAIN order |-> Loops(order[i])])
        \o <<Return(q)>>

CondensedRulesByParent(q) == {r \in right.rules : r.result = q}

(* Faulty variant: the lookup restricts the first child only. *)
MatchesFor_FirstChild(r, sets) ==
    {l \in left.rules : Joins(l, r) /\ \A i \in DOMAIN l.children \cap {1} : l.children[i] \in sets[i]}

(* rule_indexes_for_sets_into: the grammar rules that join r with their     *)
(* children in the given sets.                                              *)
MatchesFor(r, sets) ==
    {l \in left.rules : Joins(l, r) /\ \A i \in DOMAIN l.children : l.children[i] \in sets[i]}

PartnerSets(r) == [i \in DOMAIN r.children |-> partners[r.children[i]]]

(* collect_pair has an id for every child of the match. *)
ChildrenKnown(l, r) ==
    \A i \in DOMAIN l.children : Known(<<l.children[i], r.children[i]>>)

-----------------------------------------------------------------------------
Init ==
    /\ InitChart
    /\ pc = "start"
    /\ work = <<>>
    /\ visited = {}
    /\ partners = [q \in RightStates |-> {}]
    /\ matches = {}
    /\ agenda = <<>>
    /\ seen = {}
    /\ cancelled = FALSE

(* A check that sees the flag: the active calls return without writing      *)
(* anything and the run ends with Err(Cancelled).                           *)
GiveUp ==
    /\ cancelled
    /\ pc' = "cancelled"
    /\ UNCHANGED <<input, chart, work, visited, matches, loop, cancelled>>

(* The check on entry; then the accepting states are visited. *)
Start ==
    /\ pc = "start"
    /\ \/ GiveUp
       \/ /\ ~cancelled
          /\ \E roots \in SetToSeqs(right.accepting) : work' = VisitAll(roots)
          /\ pc' = "visit"
          /\ UNCHANGED <<input, chart, visited, matches, loop, cancelled>>

(* The next pending step of the innermost call. *)
Doing(step) == pc = "visit" /\ work # <<>> /\ Head(work).do = step

(* visit(q) on entry. *)
EnterVisit ==
    /\ Doing("visit")
    /\ \/ GiveUp
       \/ /\ ~cancelled
          /\ LET q == Head(work).state
             IN  /\ visited' = visited \cup {q}
                 /\ IF q \in visited
                      THEN work' = Tail(work)
                      ELSE \E order \in SetToSeqs(CondensedRulesByParent(q)) :
                              work' = BodyOf(q, order) \o Tail(work)
          /\ UNCHANGED <<input, pc, chart, matches, loop, cancelled>>

ReturnFromVisit ==
    /\ Doing("return")
    /\ work' = Tail(work)
    /\ UNCHANGED <<input, pc, chart, visited, matches, loop, cancelled>>

(* process_normal_rule looks up the matches once. *)
JoinNormalRule ==
    /\ Doing("join")
    /\ matches' = MatchesFor(Head(work).rule, PartnerSets(Head(work).rule))
    /\ pc' = "join"
    /\ UNCHANGED <<input, chart, work, visited, loop, cancelled>>

(* process_loop_rules starts a loop position from the current partners of q. *)
StartSaturation ==
    /\ Doing("saturate")
    /\ LET q == Head(work).rule.result
       IN  /\ \E order \in SetToSeqs(partners[q]) : agenda' = order
           /\ seen' = partners[q]
    /\ pc' = "saturate"
    /\ UNCHANGED <<input, chart, work, visited, matches, cancelled>>

(* One left state of the agenda is tried at the loop position. *)
TryPartner ==
    /\ pc = "saturate"
    /\ agenda # <<>>
    /\ \/ GiveUp
       \/ /\ ~cancelled
          /\ LET r == Head(work).rule
             IN  matches' = MatchesFor(r, [PartnerSets(r) EXCEPT ![Head(work).position] = {Head(agenda)}])
          /\ agenda' = Tail(agenda)
          /\ pc' = "join"
          /\ UNCHANGED <<input, chart, work, visited, seen, cancelled>>

(* collect_pair for one match, and the bookkeeping of its caller.  The code *)
(* gathers newly_added first and appends it when the matches are exhausted; *)
(* the agenda is not read before that.                                      *)
CollectPair(l) ==
    /\ pc = "join"
    /\ l \in matches
    /\ \/ GiveUp
       \/ /\ ~cancelled
          /\ LET r == Head(work).rule
                 pair == <<l.result, r.result>>
                 is_new == ~Known(pair)
                 requeue == Head(work).do = "saturate" /\ is_new /\ l.result \notin seen
             IN  IF ChildrenKnown(l, r)
                   THEN /\ AddProductRule(l.symbol,
                              [i \in DOMAIN l.children |-> IdOf(<<l.children[i], r.children[i]>>)],
                              pair)
                        /\ partners' = IF is_new THEN [partners EXCEPT ![r.result] = @ \cup {l.result}]
                                       ELSE partners
                        /\ seen' = IF requeue THEN seen \cup {l.result} ELSE seen
                        /\ agenda' = IF requeue THEN Append(agenda, l.result) ELSE agenda
                   ELSE UNCHANGED <<chart, loop>>
          /\ matches' = matches \ {l}
          /\ UNCHANGED <<input, pc, work, visited, cancelled>>

(* The matches are exhausted: a normal rule is done, a saturation goes on. *)
EndJoin ==
    /\ pc = "join"
    /\ matches = {}
    /\ IF Head(work).do = "saturate"
         THEN pc' = "saturate" /\ work' = work
         ELSE pc' = "visit" /\ work' = Tail(work)
    /\ UNCHANGED <<input, chart, visited, matches, loop, cancelled>>

EndSaturation ==
    /\ pc = "saturate"
    /\ agenda = <<>>
    /\ pc' = "visit"
    /\ work' = Tail(work)
    /\ UNCHANGED <<input, chart, visited, matches, loop, cancelled>>

(* All accepting states are visited; the last check decides. *)
Finish ==
    /\ pc = "visit"
    /\ work = <<>>
    /\ pc' = IF cancelled THEN "cancelled" ELSE "done"
    /\ UNCHANGED <<input, chart, work, visited, matches, loop, cancelled>>

(* ParseControl::cancel, from any thread. *)
Cancel ==
    /\ ~cancelled
    /\ cancelled' = TRUE
    /\ UNCHANGED <<input, pc, chart, work, visited, matches, loop>>

Work ==
    \/ Start \/ EnterVisit \/ ReturnFromVisit
    \/ JoinNormalRule \/ StartSaturation \/ TryPartner
    \/ \E l \in matches : CollectPair(l)
    \/ EndJoin \/ EndSaturation \/ Finish

Next == Work \/ Cancel

(* The parsing thread keeps running; nobody has to cancel it. *)
Spec == Init /\ [][Next]_vars /\ WF_vars(Work)

-----------------------------------------------------------------------------
(* Properties. *)

IsStep(step) ==
    \/ step \in [do : {"visit", "return"}, state : RightStates]
    \/ step \in [do : {"join"}, rule : right.rules]
    \/ step \in [do : {"saturate"}, rule : right.rules, position : Nat \ {0}]

Active == {q \in RightStates : Return(q) \in Range(work)}

(* Every variable has its type, and a join has a rule to work on. *)
TypeOK ==
    /\ ChartTypeOK
    /\ pc \in {"start", "visit", "saturate", "join", "done", "cancelled"}
    /\ \A step \in Range(work) : IsStep(step)
    /\ pc \in {"saturate", "join"} => work # <<>> /\ Head(work).do \in {"saturate", "join"}
    /\ visited \subseteq RightStates
    /\ partners \in [RightStates -> SUBSET LeftStates]
    /\ matches \subseteq left.rules
    /\ Range(agenda) \subseteq seen
    /\ seen \subseteq LeftStates
    /\ cancelled \in BOOLEAN

(* The partner sets that steer the joins and the product ids that name the  *)
(* children say the same: a match never names a child without an id (the    *)
(* `return false` of collect_pair would lose its rule), and the active      *)
(* calls nest: no right state is visited twice.                             *)
PartnersAreProducts ==
    /\ \A q \in RightStates : partners[q] = {l \in LeftStates : Known(<<l, q>>)}
    /\ \A l \in matches : pc = "join" => ChildrenKnown(l, Head(work).rule)
    /\ Active \subseteq visited
    /\ \A i, j \in DOMAIN work : work[i] = work[j] /\ work[i].do = "return" => i = j

(* A normal rule is joined when the visits of all its children have         *)
(* returned, and from then on their partners are final: nothing is added    *)
(* behind the back of a parent that has already used them.                  *)
UsedPartnersAreFinal ==
    [][/\ JoinNormalRule => Range(Head(work).rule.children) \subseteq visited \ Active
       /\ \A q \in visited \ Active : partners'[q] = partners[q]]_vars

-----------------------------------------------------------------------------
(* The invariant of the walk.                                              *)

Steps ==
    {Visit(q) : q \in RightStates} \cup {Return(q) : q \in RightStates}
    \cup {Join(r) : r \in {x \in right.rules : ~IsLoop(x)}}
    \cup UNION {{Saturate(r, p) : p \in {i \in DOMAIN r.children : r.children[i] = r.result}} :
                   r \in right.rules}

(* The call a step belongs to. *)
Owner(step) == IF step.do \in {"visit", "return"} THEN step.state ELSE step.rule.result

WalkTypes ==
    /\ pc \in {"start", "visit", "saturate", "join", "done", "cancelled"}
    /\ work \in Seq(Steps)
    /\ pc = "saturate" => work # <<>> /\ Head(work).do = "saturate"
    /\ pc = "join" => work # <<>> /\ Head(work).do \in {"join", "saturate"}
    /\ visited \subseteq RightStates
    /\ partners \in [RightStates -> SUBSET LeftStates]
    /\ matches \subseteq left.rules
    /\ agenda \in Seq(seen)
    /\ seen \subseteq LeftStates
    /\ cancelled \in BOOLEAN

(* A rule is joined inside the call for its result, ... *)
CallsNest ==
    \A i \in DOMAIN work : work[i].do \in {"join", "saturate"} =>
        \E j \in (i + 1)..Len(work) : work[j] = Return(work[i].rule.result)

(* ... after the calls for its children. *)
ChildrenComeFirst ==
    \A i \in DOMAIN work : work[i].do = "join" =>
        \A c \in Range(work[i].rule.children) :
            c \in visited \/ \E k \in 1..(i - 1) : work[k] = Visit(c)

(* Only states that have been entered have steps of their own, once each. *)
StepsAreOwned ==
    /\ \A i \in DOMAIN work : work[i].do # "visit" => Owner(work[i]) \in visited
    /\ \A i, j \in DOMAIN work : work[i] = work[j] /\ work[i].do # "visit" => i = j

(* What is being joined has ids for its children. *)
MatchesAreKnown ==
    /\ \A q \in RightStates : partners[q] = {l \in LeftStates : Known(<<l, q>>)}
    /\ pc = "join" => \A l \in matches : Joins(l, Head(work).rule) /\ ChildrenKnown(l, Head(work).rule)
    /\ pc \in {"join", "saturate"} /\ Head(work).do = "saturate" =>
          seen \subseteq partners[Head(work).rule.result]

WalkInv == WalkTypes /\ CallsNest /\ ChildrenComeFirst /\ StepsAreOwned /\ MatchesAreKnown

(* What the caller sees of the run. *)
Outcome == CASE pc = "done" -> "chart" [] pc = "cancelled" -> "none" [] OTHER -> "running"
=============================================================================
