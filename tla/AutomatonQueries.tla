---------------------------- MODULE AutomatonQueries ----------------------------
(***************************************************************************)
(* What is asked of a finished automaton, mostly a chart: its best tree,   *)
(* its trees in order, all its trees after their number, and the estimates *)
(* that A* takes from a grammar, with or without the strings it yields.    *)
(* An automaton does not change once it is built, and each query keeps a   *)
(* state of its own, so that queries do not disturb each other: a          *)
(* behaviour is one query on one automaton.                                *)
(***************************************************************************)
EXTENDS Viterbi, OutsideHeuristic

CONSTANTS MaxTrees,         \* bound: trees drawn from a sorted language
          MaxCount,         \* the largest number of the type that counts trees
          StringProblems,   \* the automata asked for estimates of strings
          Yields, MaxLength, Sentences    \* of StringHeuristics

VARIABLES
    query,
    (* SortedLanguage *)
    streams, calls, roots, root_agenda, pending_root_successor, request, output, ended,
    (* LanguageAnalysis and FiniteLanguage *)
    pc, remaining, productive, productive_rules, relevant, work, dependency_count, order,
    counts, cardinality, iterator, accepting, nodes, alternatives, pending, changed_from,
    derivations,
    (* StringHeuristics *)
    phase, level, minwidth, bi, sx, mic, req_left, req_right, sentence

Sorted  == INSTANCE SortedLanguage
Finite  == INSTANCE FiniteLanguage
Strings == INSTANCE StringHeuristics

(* What StringHeuristics takes for granted of its inputs. *)
ASSUME StringInputs == Strings!YieldsAreLinear /\ Strings!SentencesFit

stream_vars == <<streams, calls, roots, root_agenda, pending_root_successor, request, output, ended>>
finite_vars == <<pc, remaining, productive, productive_rules, relevant, work, dependency_count,
                 order, counts, cardinality, iterator, accepting, nodes, alternatives, pending,
                 changed_from, derivations>>
string_vars == <<phase, level, minwidth, bi, sx, mic, req_left, req_right, sentence>>

vars == <<problem, query, walk_vars, stream_vars, finite_vars, estimate_vars, string_vars>>

-----------------------------------------------------------------------------
Init ==
    /\ query \in {"best tree", "sorted", "finite", "estimate", "strings"}
    /\ query = "strings" => problem \in StringProblems
    /\ WalkInit
    /\ Sorted!Init
    /\ Finite!FiniteInit
    /\ EstimateInit
    /\ Strings!Init

AskBestTree ==
    /\ query = "best tree"
    /\ WalkNext
    /\ UNCHANGED <<query, stream_vars, finite_vars, estimate_vars, string_vars>>

AskSorted ==
    /\ query = "sorted"
    /\ Sorted!Next
    /\ UNCHANGED <<query, walk_vars, finite_vars, estimate_vars, string_vars>>

AskFinite ==
    /\ query = "finite"
    /\ Finite!FiniteNext
    /\ UNCHANGED <<query, walk_vars, stream_vars, estimate_vars, string_vars>>

AskEstimate ==
    /\ query = "estimate"
    /\ EstimateNext
    /\ UNCHANGED <<query, walk_vars, stream_vars, finite_vars, string_vars>>

AskStrings ==
    /\ query = "strings"
    /\ Strings!Next
    /\ UNCHANGED <<query, walk_vars, stream_vars, finite_vars, estimate_vars>>

Next == AskBestTree \/ AskSorted \/ AskFinite \/ AskEstimate \/ AskStrings

(* A query runs in one thread, to its end. *)
Spec == Init /\ [][Next]_vars /\ WF_vars(Next)

-----------------------------------------------------------------------------
(* Properties: those of the modules.  Viterbi's ScoresAreFinal and           *)
(* OptimalAnswer, and OutsideHeuristic's EstimatesAreSafe and               *)
(* ScoresAreOptimal, are checked as they are.                               *)

(* The types of all queries. *)
TypeOK == WalkTypeOK /\ Sorted!TypeOK /\ Finite!TypeOK /\ EstimateTypeOK /\ Strings!TypeOK

(* viterbi, sorted_language: what is handed out is worth the score it is    *)
(* handed out with.  On any chart the backpointers of the best tree give a  *)
(* finite tree with the score that is returned, and the score that an item  *)
(* of a sorted language gets by replacing one factor is that of its tree.   *)
AnswerIsWorthItsScore == TreeIsWorthItsScore /\ Sorted!ItemsAreWorthTheirScore

(* sorted_language: no derivation is found or returned twice, although a    *)
(* tuple of ranks can be reached by raising its ranks in several orders.    *)
NoDerivationTwice == Sorted!NoDerivationTwice

(* sorted_language: "in descending weight order". *)
DescendingOrder == Sorted!DescendingOrder

(* sorted_language: on acyclic automata the trees come in order, the best   *)
(* one first.                                                               *)
AcyclicDescendingOrder == Sorted!AcyclicDescendingOrder

(* sorted_language: a stream that is given up has nothing left to return,   *)
(* however often its candidates were blocked by cycles.                     *)
NothingMissed == Sorted!NothingMissed

(* language_analysis: the productive and relevant part are what the         *)
(* definitions say, with repeated children and dead rules.                  *)
KeepsUsefulRules == Finite!KeepsUsefulRules

(* language_cardinality: infinite, too large, or the number of accepted     *)
(* derivations, each exactly when it should be.                             *)
CardinalityIsExact == Finite!CardinalityIsExact

(* finite_language: every derivation is shown, once, and is accepted;      *)
(* "Everything before the returned position is identical to the preceding   *)
(* derivation"; an infinite language is refused.                            *)
EachDerivationOnce ==
    /\ Finite!EachDerivationOnce
    /\ Finite!CurrentIsDerivation
    /\ Finite!ChangedFromHere
    /\ Finite!RefusedIfInfinite

(* string heuristics: where chains of rules with one child and no word end  *)
(* in words, neither SX nor F is worse than any completion of a span in any *)
(* sentence.                                                                *)
StringEstimatesAreSafe == Strings!StringEstimatesAreSafe

(* string heuristics: "admissible for all sentence lengths <= n_max". *)
AdmissibleForAllLengths == Strings!AdmissibleForAllLengths

(* viterbi, heuristic: no score is written again after others were computed *)
(* from it, and no state is on the depth-first path twice.                  *)
FinalScoresStay == ScoredOnce /\ FinalizedOnce

(* Every query returns, on cyclic automata too, and every finite language   *)
(* is enumerated to its end.                                                *)
QueriesEnd ==
    <>(CASE query = "best tree" -> walk = "done"
         [] query = "sorted"    -> ended \/ Len(output) = MaxTrees
         [] query = "finite"    -> iterator \in {"error", "exhausted"}
         [] query = "estimate"  -> pass = "done"
         [] query = "strings"   -> phase = "done")
=============================================================================
