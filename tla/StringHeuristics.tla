--------------------------- MODULE StringHeuristics ---------------------------
(***************************************************************************)
(* The estimates that A* takes from a grammar whose derivations yield      *)
(* strings.  SX: the best score of a context with l words on the left and  *)
(* r words on the right, for sentences of any length up to MaxLength,      *)
(* computed from the best scores of derivations with w words.  F: the      *)
(* words that every context of a state has on each side, so that a span    *)
(* is hopeless in a sentence without them.  The tables are made once; a    *)
(* sentence is asked for afterwards, and the worse of both estimates is    *)
(* taken.                                                                  *)
(*                                                                         *)
(* A homomorphism is given by the yields of its images: sequences of words *)
(* and of child positions, each child once.                                *)
(***************************************************************************)
EXTENDS Languages

CONSTANTS Yields,       \* symbol |-> tokens of its image, left to right
          MaxLength,    \* n_max, the length that the tables are made for
          Sentences     \* the sentences that are parsed with them

VARIABLES
    phase,        \* "inside", "outside", "leaves", "sides", "ready" or "done"
    level,        \* the width, or number of words outside, that comes next
    minwidth,     \* state |-> least number of words of a derivation
    bi,           \* width |-> state |-> best score of a derivation
    sx,           \* <<state, left, right>> |-> best score of a context
    mic,          \* state |-> bag of the words that all its derivations have
    req_left,     \* state |-> ... that all its contexts have on the left
    req_right,    \* ... and on the right
    sentence      \* the sentence that estimates are asked for

vars == <<problem, phase, level, minwidth, bi, sx, mic, req_left, req_right, sentence>>

-----------------------------------------------------------------------------
(* Yields. *)

Word(w)  == <<"word", w>>
Child(k) == <<"child", k>>

IsWord(token) == token[1] = "word"

Yield(r) == Yields[r.symbol]

(* The places of a yield where a child stands. *)
Places(r) == {i \in DOMAIN Yield(r) : ~IsWord(Yield(r)[i])}

ChildAt(r, i) == r.children[Yield(r)[i][2]]

WordCount(r) == Len(Yield(r)) - Cardinality(Places(r))

(* Every image uses each child once, and no image is empty. *)
YieldsAreLinear ==
    \A p \in Problems : \A r \in p.rules :
        /\ Yield(r) # <<>>
        /\ Cardinality(Places(r)) = Len(r.children)
        /\ {Yield(r)[i][2] : i \in Places(r)} = DOMAIN r.children

SentencesFit == \A s \in Sentences : Len(s) \in 1..MaxLength

Widths == 0..MaxLength

(* Rules with one child and no word: the width is that of the child. *)
Preserving(r) == WordCount(r) = 0 /\ Cardinality(Places(r)) = 1

Lexical(r) == Places(r) = {}

General(r) == ~Lexical(r) /\ ~Preserving(r)

(* Bags of words.  Nothing is known yet where all counts are infinite. *)
Leaves == UNION {{t[2] : t \in {u \in Range(yield) : IsWord(u)}} : yield \in Range(Yields)}

Unknown == [w \in Leaves |-> Infinity]
NoWords == [w \in Leaves |-> 0]

(* meet_update: what both have. *)
Meet(b, c) == [w \in Leaves |-> Min({b[w], c[w]})]

(* enumerate_splits: widths for these places, no less than they need. *)
Splits(r, places) ==
    {v \in [places -> Widths] : \A i \in places : v[i] >= minwidth[ChildAt(r, i)]}

(* The score of a rule whose children at these places have these widths. *)
SplitCost(r, v) == Capped(r.cost + SumFunction([i \in DOMAIN v |-> bi[v[i]][ChildAt(r, i)]]))

(* The scores that follow from the given ones by rules with one child. *)
Saturated(score, chains) ==
    BestInside(chains \cup {[symbol |-> "given", children |-> <<>>, result |-> q, cost |-> score[q]] : q \in Nodes})

Chains == {r \in problem.rules : Preserving(r)}

(* The same rules from the parent to the child. *)
ChainsDown ==
    {[symbol |-> r.symbol, children |-> <<r.result>>, result |-> r.children[1], cost |-> r.cost] : r \in Chains}

-----------------------------------------------------------------------------
(* SX. *)

Contexts == Nodes \X Widths \X Widths

Init ==
    /\ problem \in Problems
    /\ phase = "inside"
    /\ level = 0
    /\ minwidth = BestInside({[r EXCEPT !.cost = WordCount(r)] : r \in problem.rules})
    /\ bi = [w \in Widths |-> [q \in Nodes |->
                Min({Infinity} \cup {r.cost : r \in {s \in problem.rules :
                        Lexical(s) /\ s.result = q /\ WordCount(s) = w}})]]
    /\ sx = [c \in Contexts |-> IF c[1] \in problem.goals /\ c[2] + c[3] = 0 THEN 0 ELSE Infinity]
    /\ mic = [q \in Nodes |-> Unknown]
    /\ req_left = [q \in Nodes |-> IF q \in problem.goals THEN NoWords ELSE Unknown]
    /\ req_right = req_left
    /\ sentence = <<>>

(* The derivations with `level` words: chains over words first, then rules  *)
(* with several children, or with a child and words.                        *)
InsideOfWidth ==
    /\ phase = "inside"
    /\ LET saturated == Saturated(bi[level], Chains)
           splits(r) == {v \in Splits(r, Places(r)) : WordCount(r) + SumFunction(v) = level}
           built(q) == UNION {{SplitCost(r, v) : v \in splits(r)} :
                                 r \in {s \in problem.rules : General(s) /\ s.result = q}}
       IN  bi' = [bi EXCEPT ![level] = [q \in Nodes |-> Min({saturated[q]} \cup built(q))]]
    /\ IF level < MaxLength THEN level' = level + 1 /\ UNCHANGED phase
                            ELSE level' = 0 /\ phase' = "outside"
    /\ UNCHANGED <<problem, minwidth, sx, mic, req_left, req_right, sentence>>

(* Faulty variant: the words of the rule itself are not counted. *)
WordsIn_Siblings(r, places, v) == SumFunction([i \in places \cap DOMAIN v |-> v[i]])

(* Words of the rule before or after a place, with those of its siblings. *)
WordsIn(r, places, v) ==
    Cardinality(places \ Places(r)) + SumFunction([i \in places \cap DOMAIN v |-> v[i]])

Before(r, i, v) == WordsIn(r, {j \in DOMAIN Yield(r) : j < i}, v)
After(r, i, v)  == WordsIn(r, {j \in DOMAIN Yield(r) : j > i}, v)

(* What the rule, in contexts with `level` words outside, gives the child   *)
(* at a place: its contexts, with their scores.                             *)
Expansions(r, i, scores) ==
    LET least == minwidth[ChildAt(r, i)]
        needed == IF least < Infinity /\ Cardinality(Places(r)) > 1 THEN least ELSE 0
        fits(v) == level + WordCount(r) + SumFunction(v) + needed <= MaxLength
    IN  {[context |-> <<ChildAt(r, i), l + Before(r, i, v), level - l + After(r, i, v)>>,
          cost    |-> Capped(scores[<<r.result, l, level - l>>] + SplitCost(r, v))] :
            l \in 0..level, v \in {u \in Splits(r, Places(r) \ {i}) : fits(u)}}

(* The contexts with `level` words outside are complete once rules with one *)
(* child are followed; all others lead to contexts with more words.         *)
OutsideOfLevel ==
    /\ phase = "outside"
    /\ LET saturated(l) == Saturated([q \in Nodes |-> sx[<<q, l, level - l>>]], ChainsDown)
           scores == [c \in Contexts |->
                         IF c[2] + c[3] = level THEN saturated(c[2])[c[1]] ELSE sx[c]]
           expansions == UNION {UNION {Expansions(r, i, scores) : i \in Places(r)} :
                                   r \in {s \in problem.rules : General(s)}}
       IN  sx' = [c \in Contexts |->
                     Min({scores[c]} \cup {e.cost : e \in {x \in expansions : x.context = c}})]
    /\ IF level < MaxLength THEN level' = level + 1 /\ UNCHANGED phase
                            ELSE level' = 0 /\ phase' = "leaves"
    /\ UNCHANGED <<problem, minwidth, bi, mic, req_left, req_right, sentence>>

-----------------------------------------------------------------------------
(* F. *)

(* The words at these places of the rule, and those of the children there.  *)
BagAt(r, places) ==
    [w \in Leaves |->
        LET words == Cardinality({i \in places \ Places(r) : Yield(r)[i] = Word(w)})
        IN  Capped(words + SumFunction([i \in places \cap Places(r) |-> mic[ChildAt(r, i)][w]]))]

ChildrenDerive(r) == \A i \in Places(r) : mic[ChildAt(r, i)] # Unknown

(* One rule of a sweep over the rules, until no rule changes anything. *)
MeetInside(r) == Meet(mic[r.result], BagAt(r, DOMAIN Yield(r)))

UpdateInside(r) ==
    /\ phase = "leaves"
    /\ ChildrenDerive(r)
    /\ MeetInside(r) # mic[r.result]
    /\ mic' = [mic EXCEPT ![r.result] = MeetInside(r)]
    /\ UNCHANGED <<problem, phase, level, minwidth, bi, sx, req_left, req_right, sentence>>

EndInside ==
    /\ phase = "leaves"
    /\ \A r \in problem.rules : ChildrenDerive(r) => MeetInside(r) = mic[r.result]
    /\ phase' = "sides"
    /\ UNCHANGED <<problem, level, minwidth, bi, sx, mic, req_left, req_right, sentence>>

(* What a context of the rule's result says of a child's context. *)
BagSum(b, c) == [w \in Leaves |-> Capped(b[w] + c[w])]

MeetLeft(r, i) ==
    IF req_left[r.result] = Unknown THEN req_left[ChildAt(r, i)]
    ELSE Meet(req_left[ChildAt(r, i)], BagSum(req_left[r.result], BagAt(r, {j \in DOMAIN Yield(r) : j < i})))

MeetRight(r, i) ==
    IF req_right[r.result] = Unknown THEN req_right[ChildAt(r, i)]
    ELSE Meet(req_right[ChildAt(r, i)], BagSum(req_right[r.result], BagAt(r, {j \in DOMAIN Yield(r) : j > i})))

Unsettled(r, i) ==
    /\ ChildrenDerive(r)
    /\ \/ MeetLeft(r, i) # req_left[ChildAt(r, i)]
       \/ MeetRight(r, i) # req_right[ChildAt(r, i)]

UpdateOutside(r, i) ==
    /\ phase = "sides"
    /\ Unsettled(r, i)
    /\ req_left' = [req_left EXCEPT ![ChildAt(r, i)] = MeetLeft(r, i)]
    /\ req_right' = [req_right EXCEPT ![ChildAt(r, i)] = MeetRight(r, i)]
    /\ UNCHANGED <<problem, phase, level, minwidth, bi, sx, mic, sentence>>

EndOutside ==
    /\ phase = "sides"
    /\ \A r \in problem.rules : \A i \in Places(r) : ~Unsettled(r, i)
    /\ phase' = "ready"
    /\ UNCHANGED <<problem, level, minwidth, bi, sx, mic, req_left, req_right, sentence>>

-----------------------------------------------------------------------------
(* Estimates. *)

ForSentence(s) ==
    /\ phase = "ready"
    /\ sentence' = s
    /\ phase' = "done"
    /\ UNCHANGED <<problem, level, minwidth, bi, sx, mic, req_left, req_right>>

Supply(w, places) == Cardinality({k \in places : sentence[k] = w})

(* A span reaches from after word i to word j. *)
LacksLeaf(q, i, j) ==
    \E w \in Leaves :
        \/ req_left[q] # Unknown  /\ Supply(w, 1..i) < req_left[q][w]
        \/ req_right[q] # Unknown /\ Supply(w, (j + 1)..Len(sentence)) < req_right[q][w]

(* SX: what is outside the span is a context of the table. *)
SxEstimate(q, i, j) == sx[<<q, i, Len(sentence) - j>>]

(* MinHeuristic: the worse score of both, and nothing if F has none. *)
EstimateOf(q, i, j) == IF LacksLeaf(q, i, j) THEN Infinity ELSE SxEstimate(q, i, j)

Next ==
    \/ InsideOfWidth
    \/ OutsideOfLevel
    \/ \E r \in problem.rules :
          UpdateInside(r) \/ \E i \in Places(r) : UpdateOutside(r, i)
    \/ EndInside
    \/ EndOutside
    \/ \E s \in Sentences : ForSentence(s)

Spec == Init /\ [][Next]_vars /\ WF_vars(Next)

-----------------------------------------------------------------------------
(* Properties. *)

Bags == [Leaves -> Costs]

(* Every variable has its type; the tables only tell apart what is within   *)
(* the length they are made for.                                            *)
TypeOK ==
    /\ phase \in {"inside", "outside", "leaves", "sides", "ready", "done"}
    /\ level \in Widths
    /\ minwidth \in [Nodes -> Costs]
    /\ bi \in [Widths -> [Nodes -> Costs]]
    /\ sx \in [Contexts -> Costs]
    /\ {mic, req_left, req_right} \subseteq [Nodes -> Bags]
    /\ sentence \in Sentences \cup {<<>>}
    /\ \A q \in Nodes : bi[0][q] = Infinity
    /\ \A c \in Contexts : c[2] + c[3] > MaxLength => sx[c] = Infinity

(* The parses of a sentence, for reference: states over spans. *)
Items == Nodes \X Widths \X Widths
Parse == INSTANCE Scores WITH Nodes <- Items

(* Where the tokens of the rule's yield may begin and end. *)
Cuts(r, s) ==
    {c \in [1..(Len(Yield(r)) + 1) -> 0..Len(s)] : \A t \in DOMAIN Yield(r) :
        /\ c[t] < c[t + 1]
        /\ IsWord(Yield(r)[t]) => c[t + 1] = c[t] + 1 /\ Yield(r)[t] = Word(s[c[t + 1]])}

ParseRule(r, c) ==
    LET place(k) == CHOOSE t \in Places(r) : Yield(r)[t] = Child(k)
    IN  [symbol   |-> r.symbol,
         children |-> [k \in DOMAIN r.children |-> <<r.children[k], c[place(k)], c[place(k) + 1]>>],
         result   |-> <<r.result, c[1], c[Len(Yield(r)) + 1]>>,
         cost     |-> r.cost]

ParseRules(s) == UNION {{ParseRule(r, c) : c \in Cuts(r, s)} : r \in problem.rules}

(* No estimate is worse than the best completion of the span in the         *)
(* sentence, whatever its length and words: SX is not too low for a context *)
(* that exists, and F prunes no span that a parse of the sentence has.      *)
AdmissibleForSentence ==
    LET parses == ParseRules(sentence)
        goals  == {<<q, 0, Len(sentence)>> : q \in problem.goals}
        inner  == Parse!BestInside(parses)
        outer  == Parse!BestOutside(parses, goals, inner)
    IN  \A x \in Items : inner[x] < Infinity => EstimateOf(x[1], x[2], x[3]) <= outer[x]

(* "A precomputed SX heuristic table that is admissible for all sentence    *)
(* lengths <= n_max".                                                       *)
AdmissibleForAllLengths == phase = "done" => AdmissibleForSentence

(* No rule with one child and no word has a child that other rules build    *)
(* from parts: what Saturated takes for granted when a width is begun.      *)
ChainsOverWords ==
    \A r \in Chains : \A s \in problem.rules :
        General(s) => s.result \notin Range(r.children) \ {r.result}

(* Where there are no such chains, the tables keep their promise. *)
StringEstimatesAreSafe == phase = "done" /\ ChainsOverWords => AdmissibleForSentence
=============================================================================
