--------------------------- MODULE ParsingStrategies ---------------------------
(***************************************************************************)
(* Parsing one string or TAG string: the grammar is intersected with the   *)
(* inverse homomorphic image of the input's decomposition automaton,       *)
(* top-down, with the sibling finder or lazily; or filtering a chart by the*)
(* feature structures of its derivations.  A behaviour is one such job; all*)
(* build the same kind of chart, and one control can cancel each but the   *)
(* lazy one.                                                               *)
(***************************************************************************)
EXTENDS Chart, InverseHomomorphism, StringAlgebras, FeatureAlgebra, TagTreeAlgebra

CONSTANTS Jobs,     \* [strategy, left, input, order]
          Objects   \* [algebra, decomp, value, terms]: what is decomposed, and terms to try

(* The right automata report finitely many rules, and the walk lists them.  *)
ASSUME RightsAreFinite ==
    \A a \in Rights : IsFiniteSet(a.rules) /\ IsFiniteSet(a.accepting)

(* A symbol and its image have the same arity.                              *)
ASSUME ImagesKeepArity ==
    \A job \in Jobs : \A l \in job.left.rules :
        l.symbol \in DOMAIN job.input.hom =>
            LET id == job.input.hom[l.symbol]
            IN  id \in DOMAIN Terms /\ Arity(Terms[id]) = Len(l.children)

VARIABLES
    strategy, decomp, hom, cancelled,
    (* TopDownIntersection *)
    walk, work, visited, partners, matches, agenda, seen,
    (* SiblingFinder *)
    pc, items, initialized, scheduled, queue, current, todo, group, new_roots, tries, emitted,
    (* FeatureFilter *)
    phase, order, at, combos, changed,
    (* LazyMaterialization *)
    stage, worklist, lookups, cached, answers

TopDown == INSTANCE TopDownIntersection WITH pc <- walk
Sibling == INSTANCE SiblingFinder
Filter  == INSTANCE FeatureFilter
Lazy    == INSTANCE LazyMaterialization

walk_vars    == <<walk, work, visited, partners, matches, agenda, seen>>
program_vars == <<pc, items, initialized, scheduled, queue, current, todo, group, new_roots,
                  tries, emitted>>
sweep_vars   == <<phase, order, at, combos, changed>>
memo_vars    == <<stage, worklist, lookups, cached, answers>>

vars == <<strategy, left, right, decomp, hom, product_pairs, accepting, rules, duplicate,
          cancelled, walk_vars, program_vars, sweep_vars, memo_vars>>

-----------------------------------------------------------------------------
Init ==
    /\ \E job \in Jobs :
          /\ strategy = job.strategy
          /\ left = job.left
          /\ decomp = job.input.decomp
          /\ hom = job.input.hom
          /\ right = (IF job.strategy = "top-down" THEN ImagesByParent ELSE Images)[job.input]
          /\ order = job.order
    /\ TopDown!Init
    /\ Sibling!Init
    /\ Filter!Init
    /\ Lazy!Init

ParseTopDown ==
    /\ strategy = "top-down"
    /\ TopDown!Work
    /\ UNCHANGED <<strategy, decomp, hom, program_vars, sweep_vars, memo_vars>>

ParseWithSiblings ==
    /\ strategy = "sibling"
    /\ Sibling!Work
    /\ UNCHANGED <<strategy, walk_vars, sweep_vars, memo_vars>>

FilterChart ==
    /\ strategy = "filter"
    /\ Filter!Work
    /\ UNCHANGED <<strategy, decomp, hom, walk_vars, program_vars, memo_vars>>

MaterializeLazily ==
    /\ strategy = "lazy"
    /\ Lazy!Work
    /\ UNCHANGED <<strategy, decomp, hom, cancelled, walk_vars, program_vars, sweep_vars>>

Cancel ==
    /\ strategy # "lazy"
    /\ Sibling!Cancel
    /\ UNCHANGED <<strategy, walk_vars, sweep_vars, memo_vars>>

Next == ParseTopDown \/ ParseWithSiblings \/ FilterChart \/ MaterializeLazily \/ Cancel

(* The parsing thread keeps running; nobody has to cancel it. *)
Spec ==
    /\ Init /\ [][Next]_vars
    /\ WF_vars(ParseTopDown) /\ WF_vars(ParseWithSiblings)
    /\ WF_vars(FilterChart) /\ WF_vars(MaterializeLazily)

-----------------------------------------------------------------------------
(* Properties: those of the algorithms, and that all keep one promise.      *)

(* The types of all four. *)
TypeOK == TopDown!TypeOK /\ Sibling!TypeOK /\ Filter!TypeOK /\ Lazy!TypeOK

(* Top-down: the partner sets that steer the joins are the product states,  *)
(* and the active calls nest.                                               *)
PartnersAreProducts == strategy = "top-down" => TopDown!PartnersAreProducts

(* Top-down: no rule is joined before the partners of its children are      *)
(* final.                                                                   *)
UsedPartnersAreFinal == TopDown!UsedPartnersAreFinal

(* Sibling finder: every term chart holds exactly the items that follow     *)
(* from the product states processed so far.                                *)
ItemsAreExact == Sibling!ItemsAreExact

(* What the right automaton contributes: all of it, or what is reached      *)
(* top-down.                                                                *)
TopDownParts == [a \in Rights |-> TopDownPart(a)]

Contribution == IF strategy = "top-down" THEN TopDownParts[right] ELSE right

Contributions == Rights \cup Range(TopDownParts)

Outcome == CASE strategy = "top-down" -> TopDown!Outcome
             [] strategy = "sibling"  -> Sibling!Outcome
             [] strategy = "filter"   -> Filter!Outcome
             [] strategy = "lazy"     -> Lazy!Outcome

(* All implement the abstract intersection with the inverse image of the    *)
(* decomposition automaton: justified rules are added one at a time, only a *)
(* closed chart is returned, a cancelled job returns none or, if it was     *)
(* cancelled too late, a closed one, and every job ends.                    *)
Promise == INSTANCE ProductClosure
             WITH Rights  <- Contributions,
                  right   <- Contribution,
                  states  <- Pairs,
                  rules   <- {Decode(rule) : rule \in rules},
                  outcome <- Outcome

ImplementsProductClosure == Promise!Spec

(* "The strategies recognize the same derivations": the chart has all rules *)
(* that occur in accepted derivations.                                      *)
SameDerivations ==
    "done" \in {walk, pc, phase, stage} => UsefulRules(left, right) \subseteq {Decode(rule) : rule \in rules}

(* The filter: "If cancellation is observed, the method returns             *)
(* IrtgError::Cancelled and discards the partial filtered chart."  A chart  *)
(* that is returned therefore lacks no rule.                                *)
NoPartialFilteredChart ==
    phase = "done" => \A p \in ReachableRules(left, right) : p \in {Decode(rule) : rule \in rules}

ValueOf(algebra, term) ==
    CASE algebra = "string"     -> TermValue(term, EvaluateString)
      [] algebra = "tag-string" -> TermValue(term, EvaluateTagString)
      [] algebra = "tag-tree"   -> BinarizedTreeValue(term)

(* A decomposition accepts a term iff its value is the object.  That of a   *)
(* TAG tree accepts only such terms, and all of them that substitute for    *)
(* one hole at a time.                                                      *)
IsExactFor(object) ==
    \A term \in object.terms :
        LET evaluated == ValueOf(object.algebra, term) = {object.value}
        IN  /\ Accepts(object.decomp, term) => evaluated
            /\ evaluated /\ (object.algebra = "tag-tree" => EveryHostHasOneHole(term))
               => Accepts(object.decomp, term)

Exactness == [d \in {object.decomp : object \in Objects} |->
                 \A object \in Objects : object.decomp = d => IsExactFor(object)]

(* "Create a decomposition automaton accepting terms that evaluate to" the  *)
(* input: what evaluate and its binarizing wrapper compute from the leaves  *)
(* up, and what the hand-written automata recognize, is the same language.  *)
DecompositionIsExact == decomp \in DOMAIN Exactness => Exactness[decomp]

=============================================================================
