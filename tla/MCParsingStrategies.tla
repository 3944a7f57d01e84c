-------------------------- MODULE MCParsingStrategies --------------------------
(***************************************************************************)
(* Small jobs for ParsingStrategies: sentences of up to three words, TAG   *)
(* strings of up to one word, feature structures with one attribute, and   *)
(* homomorphisms with shared, permuted, nested and ground images and with  *)
(* bare variables.                                                         *)
(***************************************************************************)
EXTENDS ParsingStrategies

(* Terms by name, each an operation on terms named before or after it. *)
Variables == [x1 |-> 1, x2 |-> 2, x3 |-> 3]

Compounds ==
    [v            |-> <<"v", <<>>>>,
     w            |-> <<"w", <<>>>>,
     vw           |-> <<"*", <<"v", "w">>>>,
     x1_w         |-> <<"*", <<"x1", "w">>>>,
     x1_x2        |-> <<"*", <<"x1", "x2">>>>,
     x2_x1        |-> <<"*", <<"x2", "x1">>>>,
     v_x1         |-> <<"*", <<"v", "x1">>>>,
     x2_v_x1      |-> <<"*", <<"x2", "v_x1">>>>,
     x3_x1_x2     |-> <<"*", <<"x3", "x1_x2">>>>,
     triple       |-> <<"*", <<"x1", "x2", "x3">>>>,
     other        |-> <<"other", <<"x1", "x2">>>>,
     E            |-> <<"*E*", <<>>>>,
     EE           |-> <<"*EE*", <<>>>>,
     x1_E         |-> <<"*CONC11*", <<"x1", "E">>>>,
     E_x1         |-> <<"*CONC11*", <<"E", "x1">>>>,
     x1_cat_x2    |-> <<"*CONC11*", <<"x1", "x2">>>>,
     v_gap        |-> <<"*CONC12*", <<"v", "EE">>>>,
     gap_x1       |-> <<"*CONC12*", <<"x1", "EE">>>>,
     right_gap    |-> <<"*CONC21*", <<"EE", "x1">>>>,
     x2_around_x1 |-> <<"*WRAP21*", <<"x2", "x1">>>>,
     x1_in_x2     |-> <<"*WRAP22*", <<"x2", "x1">>>>,
     m            |-> <<"m", <<>>>>,
     n            |-> <<"n", <<>>>>,
     free         |-> <<"?", <<>>>>,
     gen_free     |-> <<"[gen: ?]", <<>>>>,
     unify        |-> <<"unify", <<"x1", "x2">>>>,
     gen_x1       |-> <<"emb", <<"x1">>>>,
     unify_gen    |-> <<"unify", <<"x2", "gen_x1">>>>,
     gen_of       |-> <<"proj", <<"x1">>>>,
     nested_gen   |-> <<"emb", <<"gen_of">>>>,
     A            |-> <<"A", <<>>>>,
     C            |-> <<"C", <<>>>>,
     hole         |-> <<"hole", <<>>>>,
     hole_in_B    |-> <<"B", <<"hole">>>>,
     B_of_C       |-> <<"B", <<"C">>>>,
     S_A_x1_A     |-> <<"S", <<"A", "x1", "A">>>>,
     S_all        |-> <<"S", <<"x1", "x2", "x3">>>>,
     pair_left    |-> <<"append", <<"x1", "x2">>>>,
     all_left     |-> <<"append", <<"pair_left", "x3">>>>,
     S_left       |-> <<"S", <<"all_left">>>>,
     pair_right   |-> <<"append", <<"x2", "x3">>>>,
     all_right    |-> <<"append", <<"x1", "pair_right">>>>,
     S_right      |-> <<"S", <<"all_right">>>>,
     x1_A         |-> <<"append", <<"x1", "A">>>>,
     A_x1_A       |-> <<"append", <<"A", "x1_A">>>>,
     S_A_x1_A_bin |-> <<"S", <<"A_x1_A">>>>,
     x1_at_x2     |-> <<"@", <<"x1", "x2">>>>]

Term[name \in DOMAIN Variables \cup DOMAIN Compounds] ==
    IF name \in DOMAIN Variables THEN Variable(Variables[name])
    ELSE Operation(Compounds[name][1],
                   [i \in DOMAIN Compounds[name][2] |-> Term[Compounds[name][2][i]]])

(* The images of the homomorphisms, without their proper parts. *)
TermTable ==
    LET parts == {"v_x1", "gen_x1", "hole", "pair_left", "all_left", "pair_right",
                  "all_right", "x1_A", "A_x1_A", "x2", "x3"}
    IN  Restrict(Term, DOMAIN Term \ parts)

MCSymbols == {"c", "d", "g", "h", "f", "t"}
MCLeftStates == {"a", "b"}

(* S(A, B(C), A) *)
TargetTree ==
    LET leaf(label) == Operation(label, <<>>)
    IN  Operation("S", <<leaf("A"), Operation("B", <<leaf("C")>>), leaf("A")>>)

Ranks(rank_of_S) ==
    LET is(label, arity) == [label |-> label, arity |-> arity]
    IN  [A |-> is("A", 0), B |-> is("B", 1), C |-> is("C", 0), S |-> is("S", rank_of_S)]

Decomps ==
    [v   |-> StringDecomposition(<<"v">>),
     vw  |-> StringDecomposition(<<"v", "w">>),
     vvw |-> StringDecomposition(<<"v", "v", "w">>),
     tag_empty |-> TagStringDecomposition(<<>>),
     tag_v     |-> TagStringDecomposition(<<"v">>),
     tree      |-> TagTreeDecomposition(TargetTree, Ranks(3)),
     binarized |-> BinarizedDecomposition(TargetTree, Ranks(1)),
     features  |-> FeatureDecomposition({"m", "n"}, "gen",
                       ("m" :> <<"m">>) @@ ("n" :> <<"n">>) @@ ("?" :> Free)
                       @@ ("[gen: m]" :> <<"gen", ":", "m">>) @@ ("[gen: ?]" :> <<"gen", ":", "?">>))]

(* Terms to be evaluated and decomposed: concatenations of up to four words,*)
(* the TAG operations on what they yield in turn, and trees that are cut    *)
(* and put together in all ways.                                            *)
Binary(symbols, firsts, seconds) ==
    {Operation(s, <<p[1], p[2]>>) : s \in symbols, p \in firsts \X seconds}

Nullary(symbols) == {Operation(s, <<>>) : s \in symbols}

StringTerms ==
    LET words == Nullary({"v", "w"})
        pairs == words \cup Binary({"*"}, words, words)
    IN  pairs \cup Binary({"*"}, pairs, pairs)

TagStringTerms ==
    LET symbols == TagOperations \ {"*E*", "*EE*"}
        leaves == Nullary({"v", "*E*", "*EE*"})
        defined == {t \in leaves \cup Binary(symbols, leaves, leaves) : TermValue(t, EvaluateTagString) # {}}
    IN  defined \cup Binary(symbols, defined, defined)

TreeTerms(all(_, _, _)) ==
    LET a == Operation("A", <<>>)
        c == Operation("C", <<>>)
        hole == Operation("hole", <<>>)
        parts == {a, c, hole, Operation("B", <<c>>), Operation("B", <<hole>>),
                  Operation("@", <<Operation("B", <<hole>>), c>>)}
        wholes == {all(p[1], p[2], p[3]) : p \in parts \X parts \X parts}
    IN  wholes \cup Binary({"@"}, wholes \cup {hole}, {a, c, Operation("B", <<c>>)})
               \cup Binary({"@"}, {hole}, wholes)

PlainTerms == TreeTerms(LAMBDA p, q, r : Operation("S", <<p, q, r>>))

Append2(p, q) == Operation("append", <<p, q>>)

BinarizedTerms ==
    TreeTerms(LAMBDA p, q, r : Operation("S", <<Append2(p, Append2(q, r))>>))
    \cup TreeTerms(LAMBDA p, q, r : Operation("S", <<Append2(Append2(p, q), r)>>))

DecomposedObjects ==
    LET object(algebra, name, value, terms) ==
            [algebra |-> algebra, decomp |-> Decomps[name], value |-> value, terms |-> terms]
    IN  {object("string", "vw", <<"v", "w">>, StringTerms),
         object("string", "vvw", <<"v", "v", "w">>, StringTerms),
         object("tag-string", "tag_empty", <<<<>>>>, TagStringTerms),
         object("tag-string", "tag_v", <<<<"v">>>>, TagStringTerms),
         object("tag-tree", "tree", TargetTree, PlainTerms),
         object("tag-tree", "binarized", TargetTree, BinarizedTerms)}

DecompositionStates == UNION {Decomps[name].states : name \in DOMAIN Decomps}

LeftRule(s, children, result) == [symbol |-> s, children |-> children, result |-> result]

Grammars(base, optional) ==
    {[rules |-> base \cup more, accepting |-> {"b"}] : more \in SUBSET optional}

(* Inputs and jobs name their decomposition, to be looked up at the end. *)
InputsOf(names, homs) == {[decomp |-> d, hom |-> h] : d \in names, h \in homs}

Decomposed(input) == [input EXCEPT !.decomp = Decomps[@]]

ParsesOf(algorithm, lefts, inputs) ==
    {[strategy |-> algorithm, left |-> l, input |-> i, order |-> <<>>] : l \in lefts, i \in inputs}

(* Charts to be filtered, with their rules listed in every order. *)
FiltersOf(charts, inputs) ==
    UNION {{[strategy |-> "filter", left |-> l, input |-> i, order |-> o] :
               o \in SetToSeqs(l.rules), i \in inputs} : l \in charts}

LeftGrammars ==
    Grammars({LeftRule("c", <<>>, "a"), LeftRule("d", <<>>, "b"), LeftRule("f", <<"a", "b">>, "b")},
             {LeftRule("f", <<"b", "a">>, "b"), LeftRule("g", <<"b">>, "a"), LeftRule("h", <<"b">>, "b"),
              LeftRule("t", <<"a", "b", "a">>, "b")})

TreeGrammars ==
    Grammars({LeftRule("c", <<>>, "a"), LeftRule("d", <<>>, "b"), LeftRule("t", <<"a", "b", "a">>, "b")},
             {LeftRule("g", <<"b">>, "a"), LeftRule("c", <<>>, "b")})

Plain    == ("c" :> "v") @@ ("d" :> "w") @@ ("g" :> "x1") @@ ("h" :> "x1") @@ ("f" :> "x1_x2")
Permuted == ("c" :> "v") @@ ("d" :> "w") @@ ("g" :> "x1_w") @@ ("h" :> "x1_w") @@ ("f" :> "x2_x1")
Nested   == ("c" :> "v") @@ ("d" :> "w") @@ ("g" :> "x1") @@ ("f" :> "x2_v_x1") @@ ("t" :> "x3_x1_x2")
Ground   == ("c" :> "v") @@ ("d" :> "vw") @@ ("h" :> "x1_w") @@ ("f" :> "x1_x2") @@ ("t" :> "triple")

Unknown  == ("c" :> "v") @@ ("d" :> "w") @@ ("f" :> "other")

TwoWords     == InputsOf({"vw"}, {Plain, Permuted, Nested, Ground, Unknown})
ThreeWords   == InputsOf({"vvw"}, {Plain, Permuted, Nested, Ground})
StringInputs == TwoWords \cup ThreeWords

TagSpans1 == ("c" :> "v") @@ ("d" :> "E") @@ ("g" :> "x1_E") @@ ("h" :> "x1") @@ ("f" :> "x1_cat_x2")
TagPairs1 == ("c" :> "v") @@ ("d" :> "EE") @@ ("g" :> "gap_x1") @@ ("h" :> "right_gap") @@ ("f" :> "x2_around_x1")
TagPairs2 == ("c" :> "v_gap") @@ ("d" :> "EE") @@ ("f" :> "x1_in_x2") @@ ("h" :> "x1")

SpanInputs   == InputsOf({"tag_empty", "tag_v"}, {TagSpans1})
PairInputs   == InputsOf({"tag_empty", "tag_v"}, {TagPairs1, TagPairs2})

(* Two images that leave a span as it is. *)
Idle == ("c" :> "v") @@ ("g" :> "x1_E") @@ ("h" :> "E_x1")

IdleInputs == InputsOf({"tag_v"}, {Idle})

(* Feature structures that agree, that clash, and that nest. *)
Agreeing   == ("c" :> "m") @@ ("d" :> "free") @@ ("g" :> "x1") @@ ("h" :> "x1") @@ ("f" :> "unify")
Clashing   == ("c" :> "m") @@ ("d" :> "n") @@ ("g" :> "gen_of") @@ ("f" :> "unify")
Structured == ("c" :> "m") @@ ("d" :> "gen_free") @@ ("g" :> "gen_of") @@ ("h" :> "nested_gen") @@ ("f" :> "unify_gen")

FeatureInputs == InputsOf({"features"}, {Agreeing, Clashing, Structured})

(* Trees built of their children, and by adjunction; as written and with    *)
(* the children of S put together from the left or the right.               *)
Leaves  == ("c" :> "A") @@ ("d" :> "B_of_C") @@ ("g" :> "x1")
Adjoins == ("c" :> "hole_in_B") @@ ("d" :> "C") @@ ("f" :> "x1_at_x2")

TreeInputs == InputsOf({"tree"}, {Leaves @@ ("t" :> "S_all")})
AdjunctionInputs == InputsOf({"tree"}, {Adjoins @@ ("h" :> "S_A_x1_A")})
BinarizedInputs == InputsOf({"binarized"}, {Leaves @@ ("t" :> "S_left"), Leaves @@ ("t" :> "S_right")})
BinarizedAdjunctionInputs == InputsOf({"binarized"}, {Adjoins @@ ("h" :> "S_A_x1_A_bin")})

ParseInputs ==
    TreeInputs \cup AdjunctionInputs \cup BinarizedInputs \cup BinarizedAdjunctionInputs \cup
    StringInputs \cup SpanInputs \cup PairInputs \cup IdleInputs \cup FeatureInputs

Alternating ==
    [rules |-> {LeftRule("c", <<>>, "a"), LeftRule("g", <<"a">>, "b"), LeftRule("h", <<"b">>, "a")},
     accepting |-> {"b"}]

(* Grammars that differ in several rules without an image parse alike. *)
IsUsed(l, input) == \A rule \in l.rules : rule.symbol \in DOMAIN input.hom \cup {"g"}

Smaller(rules_at_most) == {l \in LeftGrammars : Cardinality(l.rules) <= rules_at_most}

Parses ==
    {job \in ParsesOf("top-down", LeftGrammars, StringInputs)
              \cup ParsesOf("sibling", LeftGrammars, TwoWords \cup SpanInputs)
              \cup ParsesOf("sibling", Smaller(5), ThreeWords)
              \cup ParsesOf("sibling", Smaller(4), PairInputs) :
        IsUsed(job.left, job.input)}

(* Charts whose last rule has children, as in a chart that was built bottom *)
(* up; the filter is checked after such a rule.                             *)
Filters ==
    {job \in FiltersOf(Smaller(4), FeatureInputs) :
        IsUsed(job.left, job.input) /\ Last(job.order).children # <<>>}

(* Both automata are walked without the loops of substitution, but for the  *)
(* lazy product.                                                            *)
TreeParses ==
    ParsesOf("top-down", TreeGrammars, TreeInputs \cup BinarizedInputs)
    \cup ParsesOf("lazy", TreeGrammars, TreeInputs \cup BinarizedInputs)
    \cup {job \in ParsesOf("lazy", LeftGrammars, AdjunctionInputs \cup BinarizedAdjunctionInputs)
                  \cup ParsesOf("lazy", Smaller(4), InputsOf({"vvw"}, {Plain, Nested})) :
             IsUsed(job.left, job.input)}

AllJobs == Parses \cup Filters \cup TreeParses

SingleWord == [rules |-> {LeftRule("c", <<>>, "b")}, accepting |-> {"b"}]

SingleWordFilters == FiltersOf({SingleWord}, InputsOf({"features"}, {Agreeing}))

AlternatingParses == ParsesOf("top-down", {Alternating}, IdleInputs)

InverseImages == Range(Images)

DecomposedInputs == {Decomposed(input) : input \in ParseInputs}

WithDecomposition(jobs) == {[job EXCEPT !.input = Decomposed(@)] : job \in jobs}

DecomposedJobs == WithDecomposition(AllJobs)

MCSingleWordFilters == WithDecomposition(SingleWordFilters)
MCAlternatingParses == WithDecomposition(AlternatingParses)

(* The inverse image is the same asked bottom-up and by parent. *)
ASSUME ImagesAgree == Images = ImagesByParent

(* The states that are left when those that only lead to themselves and to  *)
(* removed ones have been removed, as often as there are states.            *)
RoundStates(a) ==
    FoldSet(LAMBDA q, rest : {p \in rest : \E r \in a.rules :
                                 r.result = p /\ (Range(r.children) \cap rest) \ {p} # {}},
            DecompositionStates, DecompositionStates)

(* The top-down jobs walk automata that go round only through loop rules.   *)
ASSUME JobsOnlyLoop ==
    \A job \in DecomposedJobs : job.strategy = "top-down" => RoundStates(ImagesByParent[job.input]) = {}

(* ... and from one child each.                                             *)
ASSUME JobsLoopOnce ==
    \A job \in DecomposedJobs : job.strategy = "top-down" =>
        \A r \in ImagesByParent[job.input].rules :
            Cardinality({i \in DOMAIN r.children : r.children[i] = r.result}) <= 1

(* ... by at most one child of one rule of each state.                      *)
ASSUME JobsLoopByOneRule ==
    \A job \in DecomposedJobs : job.strategy = "top-down" =>
        LET loops == {r \in ImagesByParent[job.input].rules : r.result \in Range(r.children)}
        IN  Cardinality({r.result : r \in loops}) = Cardinality(loops)

(* Asked for a symbol and child states, the inverse images that are        *)
(* evaluated lazily answer with the results of their rules.                 *)
ASSUME LazyJobsEvaluate ==
    LET asked == {<<job.input, {<<l.symbol, Len(l.children)>> : l \in job.left.rules}>> :
                     job \in {j \in DecomposedJobs : j.strategy = "lazy"}}
    IN  \A inquiry \in asked :
            LET input == inquiry[1]
                image == Images[input]
                results(s, q) == {r.result : r \in {x \in image.rules : s \in x.symbols /\ x.children = q}}
            IN  /\ \A r \in image.rules : r.result \in input.decomp.states
                /\ \A s \in inquiry[2] : \A q \in [1..s[2] -> input.decomp.states] :
                      StepOf(input.decomp, input.hom, s[1], q) = results(s[1], q)

(* The filters go over all rules, the last of which has children, and the  *)
(* operations of the features have one value.                               *)
ASSUME FilterJobsList ==
    \A job \in DecomposedJobs : job.strategy = "filter" =>
        /\ Range(job.order) = job.left.rules
        /\ job.order # <<>> => Last(job.order).children # <<>>
        /\ \A r1, r2 \in Images[job.input].rules :
              r1.children = r2.children /\ r1.symbols \cap r2.symbols # {} => r1.result = r2.result

(* The decompositions that the sibling jobs parse fit the sibling indexes.  *)
ASSUME SiblingJobsFit ==
    \A job \in DecomposedJobs : job.strategy = "sibling" =>
        \A r \in job.input.decomp.rules : r.symbol \in IndexedOperations /\ Len(r.children) = 2 =>
            Compatible(r.symbol, r.children[1], r.children[2])

(* ... and name the states that their rules reach.                          *)
ASSUME SiblingJobsReachStates ==
    \A job \in DecomposedJobs : job.strategy = "sibling" =>
        /\ job.input \in DecomposedInputs
        /\ \A r \in job.input.decomp.rules : r.result \in job.input.decomp.states

(* TLC evaluates a constant's definition at every use, and a definition's   *)
(* only once: the constants are given definitions that name others.         *)
MCTerms       == TermTable
MCRightStates == DecompositionStates
MCLefts       == LeftGrammars \cup TreeGrammars \cup {Alternating, SingleWord}
MCInputs      == DecomposedInputs
MCJobs        == DecomposedJobs
MCObjects     == DecomposedObjects
MCRights      == InverseImages
=============================================================================
