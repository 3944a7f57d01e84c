-------------------------------- MODULE Chart --------------------------------
(***************************************************************************)
(* The chart under construction, shared by the two condensed               *)
(* intersections of materialize.rs: product states with dense ids in       *)
(* discovery order, the rules given to the trusted builder, and the        *)
(* tracker that asserts no transition is given twice.  Ids start at 1 here *)
(* and at 0 in the code.  Interned right states are identified with the    *)
(* states themselves.                                                      *)
(***************************************************************************)
EXTENDS Automata

VARIABLES
    left, right,      \* the inputs, never written
    product_pairs,    \* product id |-> <<left state, right state>>
    accepting,        \* accepting product ids
    rules,            \* rules handed to the builder: [symbol, children, parent]
    duplicate         \* the rule tracker has met a rule it had seen

Ids == DOMAIN product_pairs

Known(pair) == \E i \in Ids : product_pairs[i] = pair

(* Faulty variant: one past the id. *)
IdOf_PastEnd(pair) == 1 + CHOOSE i \in Ids : product_pairs[i] = pair

IdOf(pair) == CHOOSE i \in Ids : product_pairs[i] = pair

(* Faulty variant: a new product state is given the preceding id. *)
ProductId_Stale(pair) == IF Known(pair) THEN IdOf(pair) ELSE Len(product_pairs)

(* The id a pair has, or gets when it is appended. *)
ProductId(pair) == IF Known(pair) THEN IdOf(pair) ELSE Len(product_pairs) + 1

(* get_or_create_product_id for the parent pair, then add_rule. *)
AddProductRule(symbol, children, pair) ==
    LET is_new == ~Known(pair)
        parent == ProductId(pair)
        rule   == [symbol |-> symbol, children |-> children, parent |-> parent]
    IN  /\ product_pairs' = IF is_new THEN Append(product_pairs, pair) ELSE product_pairs
        /\ accepting' = IF is_new /\ pair \in AcceptingPairs(left, right)
                          THEN accepting \cup {parent} ELSE accepting
        /\ rules' = rules \cup {rule}
        /\ duplicate' = (duplicate \/ rule \in rules)

InitChart ==
    /\ left \in Lefts
    /\ right \in Rights
    /\ product_pairs = <<>>
    /\ accepting = {}
    /\ rules = {}
    /\ duplicate = FALSE

ChartTypeOK ==
    /\ left \in Lefts
    /\ right \in Rights
    /\ product_pairs \in Seq(LeftStates \X RightStates)
    /\ accepting \subseteq Ids
    /\ rules \subseteq [symbol : Symbols, children : Seq(Ids), parent : Ids]
    /\ duplicate \in BOOLEAN

Pairs == {product_pairs[i] : i \in Ids}

(* A rule of the chart over pairs instead of ids. *)
Decode(rule) ==
    [symbol   |-> rule.symbol,
     children |-> [i \in DOMAIN rule.children |-> product_pairs[rule.children[i]]],
     result   |-> product_pairs[rule.parent]]

(* The trusted materializer never hands the same transition to the builder  *)
(* twice: build_trusted does not look for duplicates, so this is what makes *)
(* the chart a valid Explicit.  In the indexed intersection it rests on     *)
(* current_product_is_latest choosing exactly one of the pops that see an   *)
(* edge, and one of the positions at which the trigger occurs in it.        *)
NoDuplicateRule == ~duplicate

(* Every product state is supported by a rule of the chart whose children   *)
(* are older product states: the chart contains a finite derivation of each *)
(* of its states, however cyclic the two automata are.                      *)
WellFounded ==
    \A i \in Ids : \E rule \in rules :
        rule.parent = i /\ \A c \in DOMAIN rule.children : rule.children[c] < i
=============================================================================
