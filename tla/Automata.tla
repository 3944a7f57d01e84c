------------------------------ MODULE Automata ------------------------------
(***************************************************************************)
(* Weighted bottom-up tree automata as data, and the reference meaning of  *)
(* their product.                                                          *)
(*                                                                         *)
(* An explicit automaton is a record                                       *)
(*     [rules |-> set of rules, accepting |-> set of states]               *)
(* and a rule is [symbol, children, result].  A condensed automaton groups *)
(* the symbols of rules that have one shape: its rules are                 *)
(* [symbols, children, result] with a set of symbols.  Weights are copied  *)
(* from the grammar rule to the product rule without being looked at by    *)
(* the intersections, so they are left out here.                           *)
(*                                                                         *)
(* Bottom-up reachability is not recursive: the least fixpoint is the      *)
(* intersection of all closed sets, which TLC evaluates on small automata  *)
(* and TLAPS can reason about without induction.                           *)
(***************************************************************************)
EXTENDS Naturals, Sequences, FiniteSets, Functions

CONSTANTS Symbols,      \* the ranked alphabet's symbols
          LeftStates,   \* states of the grammar automaton (an Explicit)
          RightStates   \* states of the right automaton (an oracle)

ExplicitRules == [symbol   : Symbols,
                  children : Seq(LeftStates),
                  result   : LeftStates]

CondensedRules == [symbols  : SUBSET Symbols,
                   children : Seq(RightStates),
                   result   : RightStates]

(* The explicit automata over these states. *)
IsExplicit(a) ==
    /\ a.rules \subseteq ExplicitRules
    /\ a.accepting \subseteq LeftStates

(* The condensed automata: "Each shape is emitted exactly once", or, for   *)
(* an oracle that groups symbols by homomorphic image, at least no symbol  *)
(* is reported twice with one shape.                                       *)
IsCondensed(a) ==
    /\ a.rules \subseteq CondensedRules
    /\ a.accepting \subseteq RightStates
    /\ \A r1, r2 \in a.rules :
          /\ r1.children = r2.children
          /\ r1.result = r2.result
          /\ r1.symbols \cap r2.symbols # {}
          => r1 = r2

CONSTANTS Lefts, Rights   \* the automata a run may be started on

ASSUME InputsAreAutomata ==
    /\ \A a \in Lefts : IsExplicit(a)
    /\ \A a \in Rights : IsCondensed(a)

-----------------------------------------------------------------------------
(* Bottom-up reachability: the least set of states closed under the rules. *)

Results(rules) == {r.result : r \in rules}

Closed(S, rules) == \A r \in rules : Range(r.children) \subseteq S => r.result \in S

Derivable(rules) ==
    {q \in Results(rules) : \A S \in SUBSET Results(rules) : Closed(S, rules) => q \in S}

-----------------------------------------------------------------------------
(* The product of an explicit and a condensed automaton.                   *)

(* A grammar rule and a condensed rule agree on symbol and arity. *)
Joins(l, r) == l.symbol \in r.symbols /\ Len(l.children) = Len(r.children)

ProductRule(l, r) ==
    [symbol   |-> l.symbol,
     children |-> [i \in DOMAIN l.children |-> <<l.children[i], r.children[i]>>],
     result   |-> <<l.result, r.result>>]

ProductRules(left, right) ==
    {ProductRule(x[1], x[2]) : x \in {y \in left.rules \X right.rules : Joins(y[1], y[2])}}

(* The rules of the product all of whose children are derivable, and the   *)
(* derivable product states that both sides accept.                        *)
ReachableRules(left, right) ==
    LET all == ProductRules(left, right)
        ok  == Derivable(all)
    IN  {p \in all : Range(p.children) \subseteq ok}

AcceptingPairs(left, right) == left.accepting \X right.accepting

-----------------------------------------------------------------------------
(* The part of a condensed automaton that is reached top-down from its     *)
(* accepting states, and the rules of a product that occur in some         *)
(* accepted derivation.                                                    *)

TopDownStates(a) ==
    LET n == Cardinality(UNION {Range(r.children) : r \in a.rules})
        below(S) == UNION {Range(r.children) : r \in {x \in a.rules : x.result \in S}}
        reach[k \in 0..n] == IF k = 0 THEN a.accepting
                             ELSE LET S == reach[k - 1] IN S \cup below(S)
    IN  reach[n]

TopDownPart(a) ==
    [rules     |-> {r \in a.rules : r.result \in TopDownStates(a)},
     accepting |-> a.accepting]

UsefulRules(left, right) ==
    LET reachable == ReachableRules(left, right)
        useful == {q \in Results(reachable) : \A S \in SUBSET Results(reachable) :
                      /\ Results(reachable) \cap AcceptingPairs(left, right) \subseteq S
                      /\ \A p \in reachable : p.result \in S => Range(p.children) \subseteq S
                      => q \in S}
    IN  {p \in reachable : p.result \in useful}
=============================================================================
