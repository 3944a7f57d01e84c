--------------------------- MODULE LanguageAnalysis ---------------------------
(***************************************************************************)
(* analyze_inner: which states of an automaton have derivations            *)
(* (productive), which of them occur in accepted ones (relevant), and a    *)
(* child-before-parent order of these, if there is one.  On top of it,     *)
(* language_cardinality_as: the number of accepted derivations in an       *)
(* integer type that may be too small for it; and try_build_trimmed: the   *)
(* automaton without its irrelevant part.                                  *)
(*                                                                         *)
(* The order in which the work lists are served is left open.              *)
(***************************************************************************)
EXTENDS Languages

CONSTANT MaxCount     \* the largest number of the integer type

VARIABLES
    pc,                 \* "productive", "relevant", "topological", "count" or "done"
    remaining,          \* rule |-> child occurrences not known productive
    productive,
    productive_rules,
    relevant,
    work,               \* the work list of the phase: states
    dependency_count,   \* relevant state |-> child occurrences not ordered yet
    order,              \* child before parent
    counts,             \* state |-> its derivations, 0 before it is counted
    cardinality         \* the answer: Counted(n), Infinite, TooManyTrees; or NoAnswer

vars == <<problem, pc, remaining, productive, productive_rules, relevant, work,
          dependency_count, order, counts, cardinality>>

-----------------------------------------------------------------------------
RulesInto(q) == {r \in problem.rules : r.result = q}

(* How often q is a child of r. *)
Mentions(r, q) == Cardinality({i \in DOMAIN r.children : r.children[i] = q})

(* Faulty variant: a repeated child is discharged once. *)
Discharged_Once(r, q) == remaining[r] - Min({1, Mentions(r, q)})

Discharged(r, q) == remaining[r] - Mentions(r, q)

Nullary == {r \in problem.rules : r.children = <<>>}

(* The rules of accepted derivations: what trimming keeps, and whose edges  *)
(* the topological order respects.                                          *)
DependencyRules == {r \in productive_rules : r.result \in relevant}

(* The edges into q, one for each occurrence of a child in a rule. *)
EdgesInto(q) == ChildPlaces({r \in DependencyRules : r.result = q})

Dependencies(q) == Cardinality(EdgesInto(q))

(* How many of them come from p. *)
Edges(p, q) == Cardinality({e \in EdgesInto(q) : e[1].children[e[2]] = p})

(* The answers of language_cardinality_as. *)
NoAnswer     == <<"none">>
Infinite     == <<"infinite">>
TooManyTrees == <<"too large">>
Counted(n)   == <<"count", n>>

(* checked_add and checked_mul; an overflow is kept to the end. *)
TooLarge == MaxCount + 1
Checked(n) == IF n > MaxCount THEN TooLarge ELSE n
CheckedAdd(m, n) == IF TooLarge \in {m, n} THEN TooLarge ELSE Checked(m + n)
CheckedMul(m, n) == IF TooLarge \in {m, n} THEN TooLarge ELSE Checked(m * n)

(* Faulty variant: the derivations of the children are added. *)
CombinationsOf_Sum(r) ==
    FoldLeft(LAMBDA n, child : CheckedAdd(n, counts[child]), 1, r.children)

(* The derivations a rule roots. *)
CombinationsOf(r) ==
    FoldLeft(LAMBDA n, child : CheckedMul(n, counts[child]), 1, r.children)

(* The derivations of q, when its children have been counted. *)
StateTotal(q) ==
    FoldLeft(LAMBDA n, r : CheckedAdd(n, CombinationsOf(r)), 0,
             SetToSeq(RulesInto(q) \cap productive_rules))

GrandTotal ==
    FoldLeft(LAMBDA n, q : CheckedAdd(n, counts[q]), 0, SetToSeq(problem.goals \cap productive))

-----------------------------------------------------------------------------
Init ==
    /\ problem \in Problems
    /\ pc = "productive"
    /\ remaining = [r \in problem.rules |-> Len(r.children)]
    /\ productive_rules = Nullary
    /\ productive = {r.result : r \in Nullary}
    /\ work = productive
    /\ relevant = {}
    /\ dependency_count = <<>>
    /\ order = <<>>
    /\ counts = [q \in Nodes |-> 0]
    /\ cardinality = NoAnswer

(* A productive state discharges its occurrences as a child. *)
Propagate(q) ==
    /\ pc = "productive"
    /\ q \in work
    /\ LET mentioning == {r \in problem.rules : q \in Range(r.children)}
           fired == {r \in mentioning : Discharged(r, q) = 0}
           found == {r.result : r \in fired} \ productive
       IN  /\ remaining' = [r \in problem.rules |->
                               IF r \in mentioning THEN Discharged(r, q) ELSE remaining[r]]
           /\ productive_rules' = productive_rules \cup fired
           /\ productive' = productive \cup found
           /\ work' = (work \ {q}) \cup found
    /\ UNCHANGED <<problem, pc, relevant, dependency_count, order, counts, cardinality>>

(* relevant_states starts from the accepting states with derivations. *)
StartRelevant ==
    /\ pc = "productive"
    /\ work = {}
    /\ pc' = "relevant"
    /\ work' = problem.goals \cap productive
    /\ UNCHANGED <<problem, remaining, productive, productive_rules, relevant, dependency_count,
                   order, counts, cardinality>>

(* A state is popped; one that is marked already is skipped. *)
MarkRelevant(q) ==
    /\ pc = "relevant"
    /\ q \in work
    /\ relevant' = relevant \cup {q}
    /\ work' = (work \ {q}) \cup
          IF q \in relevant THEN {}
          ELSE UNION {Range(r.children) : r \in RulesInto(q) \cap productive_rules}
    /\ UNCHANGED <<problem, pc, remaining, productive, productive_rules, dependency_count,
                   order, counts, cardinality>>

(* The states without dependencies are ready. *)
StartTopological ==
    /\ pc = "relevant"
    /\ work = {}
    /\ pc' = "topological"
    /\ dependency_count' = [q \in relevant |-> Dependencies(q)]
    /\ work' = {q \in relevant : Dependencies(q) = 0}
    /\ UNCHANGED <<problem, remaining, productive, productive_rules, relevant, order, counts,
                   cardinality>>

(* Kahn's algorithm: the next ready state, and the parents it completes. *)
Order(q) ==
    /\ pc = "topological"
    /\ q \in work
    /\ order' = Append(order, q)
    /\ dependency_count' = [p \in relevant |-> dependency_count[p] - Edges(q, p)]
    /\ work' = (work \ {q}) \cup
          {p \in relevant : dependency_count[p] > 0 /\ dependency_count[p] = Edges(q, p)}
    /\ UNCHANGED <<problem, pc, remaining, productive, productive_rules, relevant, counts,
                   cardinality>>

IsOrdered == Len(order) = Cardinality(relevant)

(* No order: the language is infinite. *)
EndTopological ==
    /\ pc = "topological"
    /\ work = {}
    /\ IF IsOrdered
         THEN pc' = "count" /\ UNCHANGED cardinality
         ELSE pc' = "done" /\ cardinality' = Infinite
    /\ UNCHANGED <<problem, remaining, productive, productive_rules, relevant, work,
                   dependency_count, order, counts>>

(* The states still to be counted, in order. *)
Uncounted == SelectSeq(order, LAMBDA q : counts[q] = 0)

(* One state; an overflow ends the count. *)
Count ==
    /\ pc = "count"
    /\ Uncounted # <<>>
    /\ LET q == Head(Uncounted)
           total == StateTotal(q)
       IN  IF total = TooLarge
             THEN pc' = "done" /\ cardinality' = TooManyTrees /\ UNCHANGED counts
             ELSE counts' = [counts EXCEPT ![q] = total] /\ UNCHANGED <<pc, cardinality>>
    /\ UNCHANGED <<problem, remaining, productive, productive_rules, relevant, work,
                   dependency_count, order>>

EndCount ==
    /\ pc = "count"
    /\ Uncounted = <<>>
    /\ pc' = "done"
    /\ cardinality' = IF GrandTotal = TooLarge THEN TooManyTrees ELSE Counted(GrandTotal)
    /\ UNCHANGED <<problem, remaining, productive, productive_rules, relevant, work,
                   dependency_count, order, counts>>

Next ==
    \/ \E q \in work : Propagate(q) \/ MarkRelevant(q) \/ Order(q)
    \/ StartRelevant
    \/ StartTopological
    \/ EndTopological
    \/ Count
    \/ EndCount

Spec == Init /\ [][Next]_vars /\ WF_vars(Next)

-----------------------------------------------------------------------------
(* Properties. *)

(* Every variable has its type, and no counter runs below zero. *)
TypeOK ==
    /\ pc \in {"productive", "relevant", "topological", "count", "done"}
    /\ remaining \in [problem.rules -> Nat]
    /\ productive_rules \subseteq problem.rules
    /\ work \subseteq productive /\ relevant \subseteq productive /\ productive \subseteq Nodes
    /\ pc \in {"topological", "count"} => dependency_count \in [relevant -> Nat]
    /\ order \in Seq(relevant)
    /\ counts \in [Nodes -> 0..MaxCount]

(* The two searches find what the definitions say: the states with a        *)
(* derivation, and, of the rules, exactly those that occur in accepted      *)
(* derivations, which is what trimming keeps.  A child that a rule mentions *)
(* twice must be discharged twice, and a rule with a child that has no      *)
(* derivation must not make its other children relevant.                    *)
KeepsUsefulRules ==
    pc \in {"topological", "count", "done"} =>
        /\ productive = ProductiveIn[problem]
        /\ DependencyRules = UsefulIn[problem]
        /\ \A r \in DependencyRules : Range(r.children) \subseteq relevant

(* The answer is "infinite" exactly if a cycle occurs in an accepted        *)
(* derivation, however many cycles occur elsewhere, and "too large" exactly *)
(* if the count is not representable: no intermediate number is larger than *)
(* the result.                                                              *)
CardinalityIsExact ==
    pc = "done" => 
        cardinality = IF HasUsefulCycle[problem] THEN Infinite
                      ELSE IF AcceptedIn[problem] > MaxCount THEN TooManyTrees
                      ELSE Counted(AcceptedIn[problem])
=============================================================================
