# TLA+ models and proofs for rusty-alto

`rusty-alto` is a Rust library for weighted bottom-up tree automata and for
parsing with interpreted regular tree grammars (IRTGs). A parse is an
intersection: the grammar automaton is multiplied with the automaton of all
decompositions of the input, and the result, the *chart*, is an automaton
again, from which best trees are read off. The algorithms are worklists and
fixpoints over shared mutable tables, with a cancellation flag raised by other
threads and, in the evaluation tool, a pool of parsing threads. Their
correctness rests on orders (what has been seen when something is collected,
when it is applied), on caches, and on cycles in the automata; that is what is
modelled here.

Source paths below are relative to `src/`, the root of the repository.

## Contents

| Module | Models | Checked by |
|---|---|---|
| `Automata` | automata as data, the reference meaning of a product, the part of the right side a top-down walk reaches | all intersection runs |
| `ProductClosure` | what an intersection promises (abstract specification) | refined by `indexed` and `strategies` |
| `Chart` | the chart under construction: product ids, rules, the rule tracker | all intersection runs |
| `IndexedIntersection` | the bottom-up indexed intersection | `indexed` |
| `IndexedIntersection_proofs` | its correctness, for all automata | TLAPS |
| `StringAlgebras` | evaluation, decomposition and sibling indexes of strings and TAG strings | `strategies` |
| `TagTreeAlgebra` | evaluation, decomposition and binarization of TAG derived trees | `strategies` |
| `FeatureAlgebra` | the feature-structure filter automaton | `strategies` |
| `InverseHomomorphism` | compiled terms, the run over one tree, and the inverse image of a decomposition, asked bottom-up or by parent | `strategies` |
| `TopDownIntersection` | the top-down intersection | `strategies`, `topdown_cyclic` |
| `SiblingFinder` | the sibling-finder intersection | `strategies` |
| `LazyMaterialization` | the memoized lazy product and its materialization | `strategies` |
| `FeatureFilter` | the filtering of a chart by feature structures | `strategies`, `filter_cancelled` |
| `ParsingStrategies` | one parse, with its algebra, homomorphism and strategy | composes the nine above |
| `ParsingStrategies_proofs` | what holds of every top-down walk, and that no strategy gives a transition twice | TLAPS |
| `ChartPromise_proofs` | the steps of the filter, the lazy product and the walk as steps of `ProductClosure` | TLAPS |
| `ParsingPromise_proofs` | those of the sibling finder, and the safety part of the refinement for all four | TLAPS |
| `Scores` | scores of rules and derivations; inside and outside references | the runs with weights |
| `Scores_proofs` | what the references compute, for all rules | TLAPS |
| `Relaxation` | what a best-first search promises (abstract specification) | refined by `astar` |
| `AstarSearch` | A* parsing, chart and one-best mode | `astar`, `astar_reopening` |
| `AstarSearch_proofs` | its safety and optimality, for all rules, heuristics and filters | TLAPS |
| `Languages` | derivations of an automaton, for reference | `queries` |
| `Viterbi` | the best tree of a chart | `queries`, `viterbi_cyclic` |
| `SortedLanguage` | the trees of a chart, the best first, lazily | `queries`, `sorted_cyclic` |
| `LanguageAnalysis` | productive and relevant part, topological order, counting | `queries` |
| `FiniteLanguage` | the iterator over a finite language | `queries` |
| `OutsideHeuristic` | the two passes of the grammar heuristic | `queries` |
| `StringHeuristics` | the SX tables, the obligatory leaves and the estimate of both | `queries`, `string_chains` |
| `AutomatonQueries` | one query on one automaton | composes the six above |
| `AutomatonQueries_proofs` | the best tree, the grammar heuristic and the analysis of a language, for all automata | TLAPS |
| `ParsePool` | the worker pool of `eval --jobs` | `pool` |
| `GrammarCache` | the compiled sibling grammars shared by parsing threads | `grammar_cache` |
| `Threads_proofs` | safety of the pool, for any number of workers and instances, and of the cache, for any threads and interpretations | TLAPS |
| `MC*` | small inputs for TLC | |

Module structure: `Chart` extends `Automata`, and the intersections and the
filter extend `Chart`. `ParsingStrategies` extends `Chart` and the algebras and
instantiates the four algorithms over shared variables: the chart, the inputs
and the cancellation flag are theirs in common, the rest of the state is each
one's own. `AutomatonQueries` composes the five kinds of queries over one automaton, the
variable `problem` of `Languages`: it extends `Viterbi` and `OutsideHeuristic`, which
are proved about, and instantiates the other three. `ProductClosure` and `Relaxation` are instantiated with refinement
mappings (`Promise == INSTANCE ... WITH ...`).

To check a run: `tlc -config MCParsingStrategies.cfg MCParsingStrategies`; to
check the proofs: `tlapm AstarSearch_proofs.tla`. `PROJECT.json` lists
the runs, the source lines behind each definition, one fault per property that
the property detects, the hazards and the theorems.

## Inventory of the system

| Component | State | Operations | What makes it hard | What makes it correct |
|---|---|---|---|---|
| Indexed condensed intersection (`src/materialize.rs` 381-799) | product ids and pairs, FIFO queue, collected edges, cache of oracle answers | collect nullary edges; pop; collect; filter and apply; finish | edges collected before they are applied; each edge is found once per child and position; cancellation cuts oracle answers short | exactly the reachable product, each rule once, no truncated chart |
| Top-down condensed intersection (`src/materialize.rs` 849-1149) | visited right states, partner sets, loop agendas, call stack | visit, join normal rules, saturate loop rules, collect a pair | a rule is joined once, with the partners of that moment; recursion over cycles | the same derivations as the other strategies |
| Set-trie rule index (`src/set_trie.rs`, `LeftIndex`) | trie from child tuples to rules | insert, lookup by key sets | shared prefixes, set-valued lookups | a lookup returns exactly the matching rules |
| Cancellation (`src/control.rs`) | one atomic flag | `cancel`, `check` | polled between steps while another thread raises it | no partial result is returned |
| Explicit automata (`src/explicit.rs`, `src/interner.rs`, `src/signature.rs`) | rule tables, `OnceLock` indexes | build, trim, reachability, condensed queries | lazy indexes built by any thread, renumbering | same language after trimming |
| A* parsing (`src/astar.rs`, `src/astar/`) | best scores, agenda with pending rules, finalized products, partner sets, backpointers | seed, push, pop, activate, expand, emit, stop | closed products are opened again; candidates wait while scores move | best derivation first; nothing forgotten; termination |
| Viterbi (`src/viterbi.rs`) | marks, backpointers, explicit stack | enter, exit, choose | shared children, cycles | best tree, finite, worth its score |
| Lazy materialization (`src/materialize.rs` 1-150, `src/memo.rs`) | interner, worklist, memo | look up, report, pop | states are found while a snapshot of the known ones is combined | the same transitions as the oracle |
| Combinators (`src/combinators/`) | none (wrappers over other automata) | step, query by child, by parent, condensed | several symbols share an image, a term can be evaluated in several ways | the inverse image, each transition as often as the caller can take it |
| Sibling finder (`src/sibling.rs`, `src/sibling/engine.rs`) | activated variables, root transitions, product rows | activate, try to emit | states arrive in any order, each tuple is due once | the same chart as the indexed intersection |
| Sorted language (`src/sorted_language/`) | per-state streams and candidates, `visiting` marks | ensure item, advance candidates | streams of a cycle wait for each other | descending order, no tree twice, none missed |
| Finite language, analysis, cardinality | productivity and reachability marks, counts | analyse, enumerate, count | cycles outside the useful part, overflow | finite iff no useful cycle; exact or reported overflow |
| Heuristics (`src/heuristic.rs`, `src/obligatory_leaf.rs`, `src/algebras/string.rs` 566-1596) | inside and outside tables, best scores by width and by words outside, obligatory words | fixpoints, estimates | cycles, repeated children, tables filled in an order | admissible: never worse than the truth |
| IRTG pipeline (`src/irtg.rs`) | grammar, interpretations, cache of compiled sibling grammars behind a mutex | parse, fold over inputs, filter | cache shared by threads, looked up and filled under separate locks | one compiled grammar per interpretation |
| Evaluation tool (`src/bin/eval.rs`) | shared iterator, channel, result slots | parse instances, score | workers finish in any order, fail or panic | complete results in corpus order, failures reported |
| Algebras (`src/algebras/`) | interned spans, values, feature structures | evaluate, decompose, sibling index, binarize, filter | evaluation and decomposition are written twice, binarization again | a decomposition accepts exactly the terms of its value |
| Feature filter (`src/irtg.rs` 160-270) | pairs of a chart state and a value, emitted rules | sweep, evaluate, emit | sweeps in the order of the chart; cancelled callbacks that write nothing | the whole intersection or an error |
| Codecs, bindings, probes | none of their own that is shared | read, print, drive | text and data formats | out of scope here |

How they interact: the IRTG pipeline chooses a strategy and calls an
intersection or the A* search on the grammar (`Explicit`) and the decomposition
automaton of the input (a condensed oracle); the result is an `Explicit` that
Viterbi or the sorted language reads. `ParseControl` is handed down to the
algorithms and shared with the thread that may cancel. The pool of the
evaluation tool calls the pipeline from several threads on one `&Irtg`, always with
the top-down intersection or A*. The cache of compiled grammars belongs to the
sibling finder; it is met by the threads of a program that embeds the library and
shares an `Irtg`, whose mutex is there for them. Neither `eval` nor the Python
binding offers the sibling finder as a strategy.

## The models

### Automata, Chart, ProductClosure

An automaton is a record of a set of rules and a set of accepting states. A
condensed rule has a set of symbols. The inputs range over the constants `Lefts`
and `Rights` and are read, never written. `ReachableRules` is the reference: the
product rules over derivable product states, where `Derivable` is the least
closed set. It is defined without recursion, as the states in all closed sets,
so that the proofs can use it.

`ProductClosure` says what every intersection promises: product rules are added
one at a time over derived children, a chart is returned only when no rule is
missing, or nothing is returned at all; and it ends.

### IndexedIntersection

Translates `materialize_indexed_condensed_intersection_with_pairs_controlled`.
Program points: `start` (check on entry), `seed` (nullary edges are collected),
`check` (the check between collecting and applying), `apply` (one edge at a time),
`pop`, `collect`, `done`/`cancelled`. The state is the code's: `product_pairs`
(id to pair), `queue`, `candidate_edges`, `right_by_child_cache`, the chart's rules,
and `duplicate`, the verdict of the debug rule tracker. `CurrentProductIsLatest`
is the filter that keeps an edge only for its latest child at its first position.
When the flag is up, an oracle answer may be any part of the whole answer, and
this part stays in the cache: the run must give up before it is used.

Abstractions: weights are copied and never looked at, so they are left out, as are
the counters; ids start at 1; the order of oracle answers is open, which covers
every order; right states are not interned separately.

### TopDownIntersection

Translates `TopDownIntersection::visit`, `process_normal_rule`,
`process_loop_rules` and `collect_pair`. The call stack is the variable `work`:
what the active calls have still to do. `partners` and `product_pairs` are both
kept, as in the code, and their agreement is an invariant. The promise is a product
with what the walk reaches of the right automaton from its accepting states
(`TopDownPart`).

### StringAlgebras, TagTreeAlgebra, InverseHomomorphism

The right automaton of a parse is no longer arbitrary here: it is the inverse image
of a real decomposition automaton under a real homomorphism. A term is the
preorder sequence of its nodes, as the sibling finder compiles it. `Image` is what
`condensed_rules` reports; `ImageByParent` is what `condensed_rules_by_parent`
reports, a rule for every way to match a term against a parent state, which
is where duplicates come from; as automata both are the same, which `ImagesAgree` in
`MCParsingStrategies` has TLC check for all decompositions. The algebras are modelled twice, as the code
has them: `Evaluate...` computes the value of a term from its leaves up, and
`...Decomposition` is the hand-written automaton. A state is a span, a pair of spans
with a gap, or a context `<<top, bottom>>` of the target tree. The binarized tree
algebra is the wrapper around both, with the interval states of one rule
told apart by the rule's parent and symbol.

### SiblingFinder

Translates `sibling/engine.rs` and the compilation in `sibling.rs`. A popped
product state is fed to the variables its left state stands at, one occurrence group
at a time (`NextGroup`): items move up the term (`Propagate`), at a binary node by
way of the sibling index, which is a set of items in slots named by boundaries
(`Slot`); root items are joined with the grammar rules whose children have product
states, now (`NextRoot`) or when the last one arrives (`NextGroup`, through
`root_by_child`). `emitted` is the code's set of emitted pairs. A grammar with a
term of more than two children is refused.

### LazyMaterialization

Translates `materialize` with `Memo` in front of a lazy product. A lookup is asked
for by symbol and child tuple (`Lookup`), its answers are reported one by one
(`Report`), which pushes new states, and the popped state is combined with a snapshot
of the known states at every position (`Pop`). It takes no cancellation flag.

### FeatureAlgebra, FeatureFilter

`FeatureFilter` translates `filter_feature_chart`: a sweep over the chart's rules
in the order in which they are listed, the flag checked between them, until a
sweep finds no new pair. The order is an input, since the result on cancellation
depends on it. `FeatureAlgebra` gives the values: an atom, a variable, or a map with
one attribute. Structures of any depth and reentrant ones are left out.

### ParsingStrategies

One job: a strategy, a grammar, an input and, for the filter, an order of the
chart's rules. All four build the same kind of chart, and all are shown to refine
`ProductClosure`. `Cancel` can come at any moment for all but the lazy strategy.
`DecompositionIsExact` does not depend on a behaviour: it compares evaluation and
decomposition over the terms of `Objects`, and holds or fails in the initial
states.

### Scores, Relaxation, AstarSearch

Scores are costs, minus the logarithm of weights, capped at `Infinity`; weights
above 1 do not occur, and rounding is left out. The problem gives the weighted
rules of the product, the goals and an estimate for every product state, and the
product states that `admits` refuses; `InsideRounds` and `OutsideRounds` compute the
references; the assumption `ProblemsAreWeighted` states that
the estimate is admissible and that nothing is refused that has a completion. It need
not be consistent: the contract of `IntersectionHeuristic` asks for admissibility
only, so a finalized product state may be improved and opened again.

One action per step of the loop: `PushCandidate` (score with the scores of this
moment, filter, compare, open or reopen, update heap and pending rule together),
`EndPush`, `PopFinalized` (close, activate, emit or set the backpointer, find the
candidates, stop at a goal), `EndSearch`, `Return` (the caller's check), `Cancel`.
Ties in the heap are arbitrary. A product state is named by its pair, the
candidate joins are read off the product's rules; products that never get a score
are left out. Not modelled: the span sibling source, the memo of heuristic
admissions, the experimental lazy frontier.

`Relaxation` is the promise: scores only fall, each time to what a rule over
scored children gives; the answer is the optimum or there is none because the
search was cancelled; it ends.

### Languages, AutomatonQueries

`Languages` defines, over all subsets of the states, the productive states, the
useful rules, cycles, and the number of accepted derivations. `AutomatonQueries`
runs one query on one automaton; an automaton does not change once it is built, so
queries do not disturb each other.

### Viterbi

Translates `visit_and_score`, `score_state` and `finish_best`, with the explicit
stack of enter and exit frames. The order of a state's rules, and with it the
choice between equal scores, is open. `ScoresAreFinal` says of acyclic charts
(rules with their result as a child aside, which the code skips) that a state that was
left has its best score and that the answer is the best tree.

### SortedLanguage

Translates `SortedLanguageIterator`. The recursion of `ensure_item_recursive` is a
stack of calls: `Resolve` asks for a missing item of a child, unless the child is being
answered further up, which blocks the candidate; `ReturnItem` and
`ReturnNothing` end a call; `AskShortcut` is the path without recursion. A tree is
the state and rank of its root; the arena's trees are not built.

### LanguageAnalysis, FiniteLanguage

`LanguageAnalysis` translates `analyze_inner` (three phases with work lists),
`language_cardinality_as` with an integer type whose largest number is `MaxCount`,
and `try_build_trimmed`. `FiniteLanguage` adds the iterator: a derivation as its
preorder nodes, advanced by giving the last node that has one its next rule and
expanding everything to the right of it again. The code counts the edges between two
states; here an edge is an occurrence of a child in a rule (`EdgesInto`), so that the
count is the number of edges, and a repeated child has several.

### OutsideHeuristic

Translates `from_grammar_with`. Both passes leave obsolete entries in the heap and
skip them. A repeated child counts once in the inside pass and as often as it
occurs in the outside pass: the estimates are optimal where no rule has a repeated
child, and admissible and consistent everywhere (`ScoresAreOptimal`, `EstimatesAreSafe`). The
reference `BestOutside` is computed by rounds, over contexts: a rule without one of its
children. The invariant of both passes is at the end of the module. This is the assumption
`ProblemsAreWeighted` of `AstarSearch`, here a result.

### StringHeuristics

Translates `SxHeuristic::new_with`, `ObligatoryLeafTables::from_grammar`, the views
of both for one sentence, and `MinHeuristic`. `InsideOfWidth` fills the best scores
of derivations with one more word (`bi`), `OutsideOfLevel` those of contexts with one
more word outside (`sx`), each in the order of the code: rules with one child and no
word are followed to their fixpoint first, the others once. A homomorphism is given
by the yields of its images, and the code's three cases by arity are one: `Splits`
are the widths of some children, `Expansions` what a rule gives the child at a
place. `UpdateInside` and `UpdateOutside` are one rule of a sweep over the
obligatory-leaf equations, in any order; `None` is `Unknown`, where all counts are
infinite.

The reference does not use widths: `ParseRules` are the parses of one sentence over
states and spans, and `AdmissibleForSentence` compares `EstimateOf` with the best
inside and outside scores among them. `ChainsOverWords` is the condition under which
the tables keep their promise (finding 4 shows that they break it otherwise).

### ParsePool

Translates `parse_instances` of `bin/eval.rs`. A worker takes an instance, parses
it, and sends the result; the main thread receives. How each parse ends, in a
result, an error or a panic, is fixed at the start and unknown to the workers, so
every combination is explored. A panic unwinds the worker and drops its sender; the
scope passes it on to the caller when all threads have ended. Not modelled: what
parsing computes, and the progress bar.

### GrammarCache

Translates `Irtg::compiled_sibling_grammar`. A thread that parses with the sibling
finder looks the grammar of its first input's interpretation up in one critical
section (`LookUp`), compiles it under no lock if it is missing (`Compile`), and
inserts it in another (`Insert`), where a grammar that came first stays. Whether a
grammar compiles is a property of the interpretation, fixed at the start. A
compiled grammar is named by the thread that compiled it, so that two `Arc`s of
one interpretation are told apart; `answers` records what the calls returned.

## Runs

| Run | Bound | What it shows |
|---|---|---|
| `indexed` | 128 pairs of automata: 2 states a side, nullary, unary and binary symbols; optional rules give cycles on either side, repeated children, several symbols in a condensed rule | `ChartComplete`, `NoDuplicateRule`, `WellFounded`, and `ImplementsProductClosure` with termination, under cancellation at every point (40,672 states) |
| `strategies` | grammars over 2 states and 6 symbols with chains, repeated children and a ternary rule; sentences of 2 and 3 words, TAG strings of 0 and 1 word, the tree S(A, B(C), A) plain and binarized; homomorphisms that permute, nest, share and are ground; feature structures that agree, clash and nest | the properties below (189,813 states) |
| `topdown_cyclic` | two loop rules at one span of a TAG string | violation of `SameDerivations` (see findings) |
| `filter_cancelled` | a chart with one lexical rule, cancelled at any moment | violation of `NoPartialFilteredChart` (see findings) |
| `astar` | 4 product states, 50 rule sets with repeated children and cycles (some of cost 0), every heuristic that is exact on some states and blind on the others, with and without a filter, 4 modes | `AgendaIsCurrent`, `NothingForgotten`, `OptimalAnswer`, `AnswerIsWorthItsScore`, `NothingWorseIsExpanded`, refinement of `Relaxation` with termination (90,712 states) |
| `astar_reopening` | the same | violation of `NoDuplicateRule` (see findings) |
| `queries` | 272 automata over 4 states: shared and repeated children, several accepting states, equal scores, states without derivations, loops, longer cycles, productive or not; for the string heuristics those with one accepting state, words and images that concatenate in either order, and 4 sentences of 2 and 3 words | the properties below (49,773 states) |
| `string_chains` | the cyclic ones, with their images | violation of `AdmissibleForAllLengths` (see findings) |
| `viterbi_cyclic` | the cyclic ones | violation of `OptimalAnswer` (see findings) |
| `sorted_cyclic` | the cyclic ones | violation of `DescendingOrder` (see findings) |
| `pool` | 3 workers, 4 instances, every outcome of every parse | `InOnePlace`, `FaithfulOutcome`, termination, under every interleaving (117,718 states) |
| `grammar_cache` | 3 threads, 2 interpretations, each of which compiles or not | `OneAnswer` under every interleaving of any number of calls (9,614 states) |

What `strategies` shows, job by job: `NoDuplicateRule` (the builder trusts its
caller, so that a rule given twice is in the chart twice), `PartnersAreProducts` and
`UsedPartnersAreFinal` for the top-down walk, `ItemsAreExact` for the term charts of the
sibling finder, `ImplementsProductClosure` for all four strategies (nothing but
justified rules, the whole intersection or nothing, and an end), and
`DecompositionIsExact` for the algebras.

What `queries` shows: for Viterbi `ScoresAreFinal` on acyclic charts; for the sorted
language `NoDerivationTwice` and `NothingMissed` on all, and
`AcyclicDescendingOrder`; for both `AnswerIsWorthItsScore`; for finite languages
`KeepsUsefulRules`, `CardinalityIsExact` and `EachDerivationOnce`; for the grammar
heuristic `EstimatesAreSafe` and `ScoresAreOptimal`, for Viterbi's scores and its own `FinalScoresStay`; for
the string heuristics `StringEstimatesAreSafe`; and `QueriesEnd` for all of them, on
cyclic automata too.

The named bounds: `MaxTrees` = 8 trees are drawn from a sorted language, more than the
acyclic automata have and enough to go around every cycle; `MaxCount` = 7 is the
largest number of the counting type, so that some languages fit, some overflow in
the total and some in an intermediate product; `Infinity` = 40 is above every
score that is compared; `MaxLength` = 3 is the length the string tables are made for,
read for sentences of that length and a shorter one. The other models are finite because their inputs are.

What the jobs of `strategies` leave out, and why: TAG strings are parsed with the
sibling finder only, because their decomposition is cyclic (an empty span is
concatenated with itself), where the top-down walk is wrong (finding 1, and the first observation after the
findings); the same holds for adjunction in trees, which only the lazy strategy parses here. Feature
images that embed a value on every turn of a cycle are excluded: the filter's
fixpoint need not end. Filtered charts list a rule with children last, as a chart
built bottom-up does; the other order is finding 2. `DecompositionIsExact` compares 38
terms for strings, 983 for TAG strings, 1,083 for trees and 2,163 for binarized trees. A
decomposition of a tree accepts only terms whose value is the tree, and all of them
in which every `@` has a first argument with one hole: evaluation substitutes for
every hole, a state of the decomposition has one.

Why the bounds are enough to be interesting: in the intersections a rule with a
repeated child, two children discovered in either order, and a product state
derived again through a cycle all fit in two states a side; the faults in
`PROJECT.json` (a strict comparison, a missing position test, a missing check) are
all found. Three words are enough for two ways to split a span, and a TAG string of
one word has empty spans, pairs with empty parts, and cycles through both. In A* a
state that is closed, improved, reopened and closed again with dependents in between
needs three product states. In the pool there are more instances than workers, so
that a worker takes twice, and workers go on after others panicked. In the cache one
thread can look up before, between and after the inserts of the two others, which
compile the same grammar.

Deadlock is checked in `grammar_cache` only: the other programs end, and a model
that has ended has no step. That they reach the end, and do not get stuck
before it, is the liveness part of the refinements, `QueriesEnd`, and `Terminates` in
the pool.

### Fairness

`WF_vars(Work)` in the intersections and A*, weak fairness of the running strategy in
`ParsingStrategies`, and `WF_vars(Next)` in `AutomatonQueries`: the parsing thread
keeps running; it waits for nobody, and the caller of an iterator keeps calling.
`Cancel` is never forced. `GrammarCache` assumes no fairness. In the pool, weak
fairness for each worker and for the main thread: the operating system schedules
every thread, a parse ends, and the mutex of the iterator is held for one action
only, so that no strong fairness is needed.

## Findings

1. `topdown_cyclic`: on right automata with a cycle longer than a loop, or with two
   loop rules at one state, the top-down chart lacks rules of accepted
   derivations (a rule is joined before its children are final and never again),
   although the wiki says that all strategies recognize the same derivations. TAG
   strings have such automata: two images that leave a span as it is, by an empty
   string on its left or on its right, are two loop rules.
2. `filter_cancelled`: the feature filter checks the flag after a rule with children,
   but not after one without. If the last rules of a chart are lexical and nothing is
   found, the truncated chart is returned as the answer, although the doc says that
   a partial chart is discarded.
3. `astar_reopening`: with an admissible, inconsistent heuristic a reopened product
   state emits its winning rule again, and the debug assertion of the rule tracker
   fails.
4. `string_chains`: the best scores of a width are closed under rules with one child
   and no words before the rules with several children are applied for that width. Where
   such a rule stands over a child of several words, scores are missed, SX is too low or
   zero for siblings, and A* can return a worse tree, although the table is documented
   as admissible.
5. `viterbi_cyclic`: on a cyclic chart a state that is scored while one of its
   children is on the depth-first path keeps the incomplete result, and the best
   tree, or every tree, is missed; that tree need not traverse a cycle.
6. `sorted_cyclic`: on a cyclic automaton a stream can be filled while its best
   candidate is blocked by a caller, so that a better tree is returned after a worse
   one. No tree is lost (`NothingMissed`).

More observations, not checked by a run. A loop rule `f(q, q) -> q` is saturated once
at each child by the top-down walk, over the same partners (`src/materialize.rs` 1047),
and every transition it gives is handed to the builder twice: the debug assertion of
the rule tracker fails (`src/materialize.rs` 237), and a release build has a chart with the
same transition twice. An empty span of a TAG string that is concatenated with itself
is such a state (`src/algebras/tag_string.rs` 497). The proof of `NeverTwice` has this as
its one hypothesis. With `b <- d()`, `a <- g(b)` and `b <- f(a, b)`, where `d` is the empty
string, `g(x) = x E` and `f(x, y) = x y`, TLC finds a behaviour that adds the transition
of `f` twice. Further: the splits of rules with three or more children start from
a score of 1.0 whatever the scorer's one is (`src/algebras/string.rs` 1011), which
raises log scores and keeps them admissible; with `stop_at_first_goal` the
chart holds the winning rule of every product state finalized so far, more than
"exactly the states and rules needed to derive that one best tree"
(`src/astar.rs` 181-182); if several instances fail, the error the pool returns
depends on which arrives first; the module comment of `src/algebras/tag_tree.rs` says
that `@` substitutes for every hole, and evaluation does, but no context of the
decomposition has more than one; `append` below an operation of two children
evaluates, but is not read back, since only rules with more than two children are
binarized (`src/algebras/tag_tree.rs` 609).

## Proofs

### Intersection

`IndexedIntersection_proofs` proves, for all symbols, states, automata that satisfy
`InputsAreAutomata`, and under cancellation at any moment:

- `TypeCorrect`: `Spec => []TypeOK`.
- `Invariance`: `Spec => []IInv`, the inductive invariant defined at the end of
  `IndexedIntersection`.
- `NeverTwice`, `AlwaysWellFounded`: the builder gets no transition twice; every
  product state has a derivation from older ones.
- `Completeness`: `Spec => []ChartComplete`, a returned chart is exactly the
  reachable product.

The argument. `NoDuplicateRule` is not inductive: it needs that an edge that
survives the filter is new (`Fresh`), which in turn needs that ids are discovered
and popped in order (`IdsInOrder`) and that rules in the chart have only popped
children (`Faithful`): an edge is kept at the pop of its latest child, and that
child is popped once. Completeness needs the converse, that every combination of
popped children is in the chart or among the collected edges (`Covered`), whose
step for `CollectCandidates` picks the least position of the largest child
(`LeastIndex`, the one use of well-founded induction, as a cited fact), and
that cached answers are whole unless the run is about to give up
(`CacheComplete`). At `done` the queue is empty, so all ids are popped, the chart is
closed, and with `Sound` (product states lie in every closed set) it is the least
closed set.

`BuildsProductClosure` (`IndexedIntersection_proofs`) and `SearchRelaxes`
(`AstarSearch_proofs`) are the safety parts of two refinements: initial states map
to initial states, and every step to a step of the abstract specification or to a
stutter.

### The top-down walk

`ParsingStrategies_proofs` proves, for all automata whose right side has finitely many
rules (`RightsAreFinite`; the walk lists the rules of a state), cyclic ones included, and
under cancellation at any moment, `PartnersStayProducts`
(`Spec => []PartnersAreProducts`). From one hypothesis, `TopDownOnlyLoops`, it proves
`PartnersFinalWhenUsed` (`Spec => UsedPartnersAreFinal`): the automata that top-down jobs
walk go round only through loop rules, so that going down any other rule goes down in
some rank. Decompositions of strings are such, their rank is the length of the span, and
`JobsOnlyLoop` in `MCParsingStrategies` has TLC check it of the jobs of `strategies`. The
automaton of `topdown_cyclic` is not, and there the chart does lack rules (finding 1).

`RightsAreFinite` is stated in `ParsingStrategies` and evaluated by TLC, as are the
assumptions of the next section.

The argument (`WalkInv` in `TopDownIntersection`, which TLC can check with
`strategy = "top-down"`). The call stack of `visit` is one sequence of pending steps. A
rule is joined or saturated above the return of the call for its result (`CallsNest`), and
below the visits of its children, unless these have been entered (`ChildrenComeFirst`);
a state is entered once, so its steps are there once (`StepsAreOwned`). A match is looked
up in the partner sets, and these are the product states (`MatchesAreKnown`), so the
product ids that `collect_pair` asks for exist. Partners are added only for the state
whose return is on the stack, so those of a state that has returned do not change: this
needs no hypothesis. What it takes for `UsedPartnersAreFinal` is that no child of a rule
is on the path to it: states deeper in the stack have no lower rank (`Falls`), and a child
of a normal rule has a lower one.

### No transition twice

`NeverTwice` in `ParsingStrategies_proofs` (`Spec => []NoDuplicateRule`) covers all four
strategies, every order of the work and cancellation at any moment. The builder does
not look for duplicates, so the callers have to see to it, and each has its own reason:

- The filter looks the transition up before it adds it (`FilterOnce`).
- The lazy product computes a memo entry once and reports each of its answers once;
  a rule of the chart belongs to a key that is cached (`MemoOnce`). This is why a rule can be
  met at several positions and at several pops.
- The sibling finder keeps the pairs of a grammar rule and a root item that it has joined
  (`RulesFit`). That two pairs never give one transition takes more: the row of a root item
  has one state for every child of the rule (`RootRow`), so the transition tells both
  (`JoinOnce`). Rows are put together on the way up, and the lemmas `UpwardOK` and
  `LeavesOK` are that an item has one state for every variable below its node
  (`ItemOK`), whatever way it came. This is where the assumptions on terms are needed:
  `TermsAreTrees` and `TermsAreNondeleting` (what `compile_term` and
  `validate_nondeleting` establish), and `ImagesKeepArity`, an image has as many variables as its
  rule has children.
- The top-down walk remembers nothing: it visits a right state once, and every rule of
  the state is on the stack once, to be joined or to be saturated (`JoinedOnce`). In a
  saturation every left state enters the agenda once, and a match belongs to the
  state at the loop position (`AgendaOnce`). This holds only if the rule has one such
  position, which is the hypothesis of the theorem, `TopDownLoopsOnce`. It is true of
  strings, where a rule with two children has shorter spans below; `JobsLoopOnce` in
  `MCParsingStrategies` has TLC check it of the jobs of `strategies`. It is not true of TAG
  strings, and there the walk does give rules twice (the first observation after the findings).

### The term charts of the sibling finder

`ItemsStayExact` in `ParsingStrategies_proofs` (`Spec => []ItemsAreExact`) is about the
part of the parser where a pair of siblings meets once, in an index that is probed before
the item is added to it: no pair of items is missed, and no item is made of nothing.
The inductive invariant (`TermCharts`) says, at every step and not only between two
product states:

- `ItemsSound`: an item at an operation is made by it of items at its children, and an item
  at a variable is a state fed to it.
- `ItemsClosed`: what an operation makes of items that have left the agenda
  (`Unsettled` are those that have not) is in the chart. An item that leaves the
  agenda meets all partners that have left it before (`ChartsPropagate`, by way of
  `UpwardIs`); a pair is made when the later of the two leaves.
- `StatesFed`, `GroupsWait`: a product state taken from the queue has been fed to every
  variable its left state stands at, or the group is still to be processed.

Between two product states the agenda and the groups are empty, and the three give
equality at every node. The hypothesis, `SiblingIndexesFit`, is that the
index of an operation returns all pairs of siblings that a rule of the operation takes;
`SiblingJobsFit` in `MCParsingStrategies` has TLC check it of the jobs.
`StringItemsStayExact` has no such hypothesis: `StringIndexFits` and `TagIndexFits` prove it of
the slots of strings and TAG strings, for a sentence of any words and length. Two more
assumptions on terms are used: `TermsAreLinear` (what `validate_nondeleting` refuses
otherwise) and `TermsAreInPreorder` (how `compile_term` numbers the nodes).

### The promise of the other strategies

`BuildsProductClosure` in `ParsingPromise_proofs` is the safety part of
`ImplementsProductClosure` for the top-down walk, the sibling finder, the lazy product and
the filter: rules of the product are added one at a time, over product states that the
chart has, and a chart is returned only when none of them is missing, whenever the job is
cancelled. The theorem has six hypotheses about the jobs, each of which TLC evaluates for
the jobs of `strategies`, in `MCParsingStrategies`:

| Hypothesis | Says | Evaluated by |
|---|---|---|
| `TopDownOnlyLoops` | what is walked top-down goes round only through loop rules | `JobsOnlyLoop` |
| `TopDownLoopsOneStep` | a state has at most one loop: one child of one rule | `JobsLoopOnce`, `JobsLoopByOneRule` |
| `SiblingIndexesFit` | the sibling index of an operation returns all pairs of siblings that a rule of the operation takes | `SiblingJobsFit` |
| `SiblingJobsParse` | what is decomposed is among the inputs, and the results of its rules are states of it | `SiblingJobsReachStates` |
| `LazyImagesEvaluate` | an inverse image that is asked by symbol and child states answers with the results of its rules | `LazyJobsEvaluate` |
| `FiltersListRules` | a filter gets all rules of a chart, in an order that does not end with a rule without children, and feature operations have one value | `FilterJobsList` |

None can be left out: without the first two the walk misses rules (finding 1), an index
that misses a pair of siblings hides a rule, and a filter whose last rule has no
children returns a truncated chart (finding 2). `LazyImagesEvaluate` is about
the folds that evaluate a term upwards and enumerate its evaluations.

The argument (in `ChartPromise_proofs`, the sibling finder's in `ParsingPromise_proofs`).
Soundness is the same for all (`PromiseAdds`): ids are those of the pairs they stand for,
so that a rule handed to the builder is a product rule over known pairs, and a pair is
new or its rule is. Completeness has an invariant for each strategy.

- Filter (`FilterSweeps`): while a sweep has found no new pair and the flag has not been
  seen, all rules before the present one are covered, that is, are in the chart for every
  combination of the pairs of their children that has a value (`Swept`). A sweep that
  finds no new pair has met all combinations that there are, also of rules that it has
  added itself.
- Lazy product (`MemoWorks`): a lookup that would find something is cached, or is among
  those to be made, or one of its states is on the worklist (`Waits`): every known state
  is combined with all others when it is popped, and the later of two waits for the
  earlier. What a cached lookup found is recorded in the chart or among the answers
  still to be reported (`Recorded`).
- Top-down (`WalkCovers`): a rule of a visited state is still on the stack, or all its
  matches over the present partners are in the chart (`Walked`). For a normal rule the
  partners are final when it is joined, by the argument for `PartnersFinalWhenUsed`. A
  loop rule is saturated after all normal rules of its state (`LoopsAfter`, `LoopsLast`), by an
  agenda that holds every partner not yet tried (`Awaited`, `Trying`); and the states below a
  visited one are visited or on the stack (`Fed`), so that in the end all states that are
  reached top-down have returned.
- Sibling finder (`SiblingJoins`): it never lists the rules of the inverse image, so that
  both directions go through the terms. An item at a root, followed down through the
  items it was made of (`Unfolding`), gives a state to every node of the term, which is
  an evaluation of it: what is joined is a rule of the inverse image (`ItemsEvaluate`,
  `RootItemJoins`). A rule of the inverse image comes from an evaluation, and when the queue is
  empty every node of it has its item, from the variables up (`ItemsComplete`). That the
  root item has then been joined is `RootsJoined`: a grammar rule that fits a root item and
  whose children all have product states has been joined with it or will be tried, or
  the root item has not been registered yet, or a child is still in the queue, or is
  the product state being processed and its group has not been. This covers both
  orders in which the last child and the root item can arrive. `EvaluationsFit` and
  `FitsEvaluate` characterize the evaluations node by node; the fold that
  enumerates them is unrolled once (`EvaluationsFold`), as a function from positions to
  sets of evaluations.

### Pool and cache

`Threads_proofs` proves of the pool, for any number of jobs and instances, and whatever fails
or panics (assumption `SomeWork`: there is at least one of each):

- `TypeCorrect`, and `Invariance`: `Spec => []IInv`, the inductive invariant at the
  end of `ParsePool`.
- `OnePlace`: `Spec => []InOnePlace`; `Faithfulness`: `Spec => []FaithfulOutcome`.

The argument. `AtWork` says what a worker has at each program point (a result about
to be sent is true; a worker that panicked still holds an instance that panics; a
worker is gone only when the iterator is exhausted). `Apart` keeps the places of an
instance disjoint, `Accounted` says that none is lost, `Reported` that what was sent
or received is true. When the main thread leaves, all workers have ended and the
channel is empty; if none panicked, at least one is gone, so everything was taken,
nothing is held, and `Accounted` leaves only "received".

Of the cache it proves `CacheTypeCorrect`, `CacheInvariance` and `SameGrammar`
(`CacheSpec => []OneAnswer`) for any sets of threads and interpretations, from no
assumption. `OneAnswer` speaks of past answers only; `AnswersAreCached` ties them to
the cache: what was ever returned for an interpretation that compiles is what the
cache holds, and the cache never changes what it holds. The third part of `CacheIInv`
says that a thread at its insert holds a grammar that compiled.

### Scores

`Scores_proofs` has the facts about sums of costs and about the references on which
the rest relies. States are numbered, so `Nodes` is finite (`NodesAreFinite`), and so are the
rules of an automaton; nothing else is assumed of them. A score is called the inside
score (`IsInside`) if no rule improves it and the rules that attain it derive every
state that has one. The main lemmas: such a score exists (`InsideExists`); it is
unique, and `BestInside` computes it (`InsideIsBest`): a round that settles no state
would be a fixpoint, so each round settles one and as many rounds as states are enough.
`OutsideIsBest` says the same of `BestOutside`. `DerivedIsWorth` says that one rule for
each state, which together derive them, is worth no less than the best.

These need induction over numbers and over sequences. The library's induction theorems
cannot be cited, because they take a predicate; `SetInduction` takes a *set* of numbers
instead, which is what well-founded induction over `Nat` gives, and recursive functions
(`PartialCosts`, the rounds, the fold in `FlattenSeq`) are unfolded with it.

### A* search

`AstarSearch_proofs`, for all weighted rules, goals, admissible estimates and refused
states as `ProblemsAreWeighted` allows them, and under cancellation at any moment:
`TypeCorrect`, `AgendaStaysCurrent`, `NothingIsForgotten`, `AnswerIsOptimal`,
`NothingWorseExpanded`, `AnswerIsWorth`.

The argument for the optimum (`IInv`). Scores never fall below the best inside score,
because each is what a rule over scored children gives. As long as the best derivation
of a goal is not found, it has a frontier: a state that is worth its best score and is
open, or a candidate over expanded children that is still to be pushed
(`NothingForgotten`, for the scores of this moment and not those of the time of the
join). The estimate is admissible, so the merit of the frontier is at most the optimum,
and what the agenda pops is no worse. Consistency is not used: states may be closed, improved and opened
again. The argument for the backpointers (`AnswerInv`). They are well-founded although they are
overwritten: a push that improves a state cannot use a child whose derivation contains that
state, since costs do not fall along a derivation; when the first goal is popped nothing that its
derivation uses is open again, and the rules that won attain the scores.

### Best trees

`AutomatonQueries_proofs`, for all automata, cyclic ones included: `WalkTypes`,
`ScoresOnce` (a state is scored once, and is not on the path twice) and
`BestTreeIsWorthItsScore` (the backpointers of the answer give a finite tree, worth
the score that is returned); for acyclic ones `ScoresFinal`
(`Spec => []ScoresAreFinal`).

The argument (`WalkInv` in `Viterbi`). The states on
the path are those with an exit frame on the stack, each frame below is of a state that
has the next one as a child, and what a state's rules need is above its frame, on the
path, or done. At the exit frame all children are therefore done, unless one is on
the path; then the frames between them are a cycle of useful rules, which an acyclic chart
does not have. A backpointer leads to states that were scored before, so following them
ends.

### The grammar heuristic

Also in `AutomatonQueries_proofs`, for all grammars: `EstimateTypes`;
`EstimatesSafe` (`Spec => []EstimatesAreSafe`), the estimates are admissible and
consistent with any cycles and repeated children; `ScoresOptimal`
(`Spec => []ScoresAreOptimal`), where no rule has a child twice they are the optimum;
and `FinalScoresFinal` (`Spec => FinalScoresStay`), for the walk and both passes.

The argument (`EstimateInv` in `OutsideHeuristic`). Final scores are at most the cost of any entry of the heap
(`FinalizedFirst`), and what a final state adds costs no less, so that final scores are
never improved. A partial product is at most the score of the rule with the final
scores of its children and 1 for the others, and equal to it where no child is repeated
(`PartialsAreSafe`); when the heap is empty, states that are not final are impossible,
and no rule improves a score (`InsideIsSafe`). In the second pass no rule of a final
state improves a child, and the places that attain a score lead from the goals to
every state that has one (`OutsideIsReached`). At the end the scores bound all
rounds of the references, and where nothing is repeated they are fixpoints that are
attained, hence the references.

### The analysis of a language

Also in `AutomatonQueries_proofs`, for all automata: `UsefulRulesKept`
(`Spec => []KeepsUsefulRules`), the productive states and the rules of accepted
derivations are found exactly; and `InfiniteExactly`, a language is called infinite, and
a plan for it refused, exactly if some accepted derivation traverses a cycle. A loop of
one state counts; cycles outside the useful part do not.

The argument (`AnalysisInv`). The productive states are the least set closed under the
rules. A rule waits for as many occurrences of children as there are of states not yet
discharged (`ProductiveSearch`); it is this count, by occurrence and not by state, that
makes it fire with its last child, once. When the work list is empty every rule whose
children are productive has fired, so the set is closed, and nothing entered it that is
not in every closed set. The relevant states are the least set below the goals, by the
same argument downwards (`RelevantSearch`). For the order (`OrderInv`), a state waits
for the edges into it from states that are not ordered (`OrderSearch`), and each state
in the order comes after its children (`OrderIsSound`). If states are left over when the
work list is empty, each of them waits for a child that is left over as well: they are a
set in which every state has a child in the set, which is what a cycle is. Conversely,
in a complete order the first state of such a set would come after another of them.

The counts that follow the order are not proved: the number of derivations of a state is
defined by recursion over the automaton, and the overflow of the counting type
depends on the order of additions.

One trap for whoever extends the proofs: `tlapm` parses `SUBSET A \ {{}}` as
`SUBSET (A \ {{}})`, TLC as `(SUBSET A) \ {{}}`. With the first reading an empty cycle is
a cycle, and theorems about acyclic automata are vacuous. The definitions have the
parentheses.

### Only model-checked

All liveness (`Terminates`, `QueriesEnd` and the liveness half of the refinements;
liveness under fairness and `ENABLED` are out of the prover's reach);
`TypeOK` of `ParsingStrategies` and of `AutomatonQueries`; the algebras; the sorted language; the
counting and the enumeration of a finite language; and the string heuristics. No module
declares a recursive operator.

## Not modelled

`PROJECT.json` has the status of each component.

- The fold over several inputs in `Irtg::parse_with_control` and the one-best search
  over several inputs: one input is modelled, with its strategy and its filter.
- In A*, the span sibling source and the memo of admissions, which change how
  candidates are found and not which; the experimental lazy frontier.
- The span index of the string A* (`src/algebras/string_astar.rs`), and saving
  heuristic tables to bytes.
- The trie behind the rule index, and the lazily built indexes of `Explicit`: they
  enter by what a lookup returns.
- Feature structures deeper than one attribute, reentrancy, `remap`, and the parsing
  and printing of values of all algebras.
- Codecs and grammar readers, the Python bindings, the probes and benchmarks: text
  processing, wrappers and drivers without state these properties are about.
- Floating-point rounding, and weights above 1.

## Plan

In order:

1. `ParsePipeline`: the fold of a parse over several inputs, with the provenance of
   chart states, the compiled grammars and A*'s answer over the joint language.
2. `ExplicitAutomata`: the builder and the lazy indexes; the set trie.
3. Proofs: `NoDerivationTwice` and the scores of the items of the sorted language.
