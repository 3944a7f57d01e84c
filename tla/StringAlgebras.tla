---------------------------- MODULE StringAlgebras ----------------------------
(***************************************************************************)
(* The decomposition automata of the string algebra and of the TAG string  *)
(* algebra, and the slots of their sibling indexes.                        *)
(*                                                                         *)
(* An input of n words has the boundaries 0..n.  A state is a span <<i, j>>*)
(* or, in the TAG string algebra, also a pair of spans <<i, j, k, l>>      *)
(* around a gap.  An automaton is [states, rules, accepting] with rules    *)
(* [symbol, children, result]; a word is a symbol of its own.              *)
(***************************************************************************)
EXTENDS Naturals, Sequences

Rule(symbol, children, result) == [symbol |-> symbol, children |-> children, result |-> result]

IsSpan(q) == Len(q) = 2
IsPair(q) == Len(q) = 4

-----------------------------------------------------------------------------
(* Strings: every span holds a word, concatenation joins adjacent spans.   *)

Spans(n) == {q \in (0..n) \X (0..n) : q[1] < q[2]}

WordRules(words) == {Rule(words[i], <<>>, <<i - 1, i>>) : i \in DOMAIN words}

StringDecomposition(words) ==
    LET spans == Spans(Len(words))
    IN  [states |-> spans,
         rules |-> WordRules(words) \cup
                   {Rule("*", <<p[1], p[2]>>, <<p[1][1], p[2][2]>>) :
                       p \in {x \in spans \X spans : x[1][2] = x[2][1]}},
         accepting |-> {<<0, Len(words)>>} \cap spans]

(* The value of an operation, a set of at most one. *)
EvaluateString(symbol, values) ==
    CASE symbol = "*" /\ Len(values) = 2 -> {values[1] \o values[2]}
      [] symbol # "*" /\ values = <<>>   -> {<<symbol>>}
      [] OTHER -> {}

-----------------------------------------------------------------------------
(* TAG strings: spans and pairs of spans, all of them possibly empty.      *)

TagSpans(n) == {q \in (0..n) \X (0..n) : q[1] <= q[2]}

TagPairs(n) == {<<x[1][1], x[1][2], x[2][1], x[2][2]>> :
                   x \in {y \in TagSpans(n) \X TagSpans(n) : y[1][2] <= y[2][1]}}

TagOperations == {"*E*", "*EE*", "*CONC11*", "*CONC12*", "*CONC21*", "*WRAP21*", "*WRAP22*"}

(* The transitions of the operation on two children. *)
TagBinaryRules(n) ==
    LET one == TagSpans(n)
        two == TagPairs(n)
    IN  {Rule("*CONC11*", x, <<x[1][1], x[2][2]>>) :
            x \in {y \in one \X one : y[1][2] = y[2][1]}}
        \cup
        {Rule("*CONC12*", x, <<x[1][1], x[2][2], x[2][3], x[2][4]>>) :
            x \in {y \in one \X two : y[1][2] = y[2][1]}}
        \cup
        {Rule("*CONC21*", x, <<x[1][1], x[1][2], x[1][3], x[2][2]>>) :
            x \in {y \in two \X one : y[1][4] = y[2][1]}}
        \cup
        {Rule("*WRAP21*", x, <<x[1][1], x[1][4]>>) :
            x \in {y \in two \X one : y[1][2] = y[2][1] /\ y[2][2] = y[1][3]}}
        \cup
        {Rule("*WRAP22*", x, <<x[1][1], x[2][2], x[2][3], x[1][4]>>) :
            x \in {y \in two \X two : y[1][2] = y[2][1] /\ y[2][4] = y[1][3]}}

TagConstantRules(n) ==
    {Rule("*E*", <<>>, <<i, i>>) : i \in 0..n}
    \cup {Rule("*EE*", <<>>, <<p[1], p[1], p[2], p[2]>>) : p \in TagSpans(n)}

TagStringDecomposition(words) ==
    [states    |-> TagSpans(Len(words)) \cup TagPairs(Len(words)),
     rules     |-> WordRules(words) \cup TagConstantRules(Len(words)) \cup TagBinaryRules(Len(words)),
     accepting |-> {<<0, Len(words)>>}]

(* A value is one string or a pair, as a sequence of them. *)
EvaluateTagString(symbol, values) ==
    LET given == [i \in DOMAIN values |-> Len(values[i])]
        a == values[1]
        b == values[2]
    IN  CASE symbol = "*CONC11*" /\ given = <<1, 1>> -> {<<a[1] \o b[1]>>}
          [] symbol = "*CONC12*" /\ given = <<1, 2>> -> {<<a[1] \o b[1], b[2]>>}
          [] symbol = "*CONC21*" /\ given = <<2, 1>> -> {<<a[1], a[2] \o b[1]>>}
          [] symbol = "*WRAP21*" /\ given = <<2, 1>> -> {<<a[1] \o b[1] \o a[2]>>}
          [] symbol = "*WRAP22*" /\ given = <<2, 2>> -> {<<a[1] \o b[1], b[2] \o a[2]>>}
          [] symbol = "*E*"  /\ given = <<>> -> {<<<<>>>>}
          [] symbol = "*EE*" /\ given = <<>> -> {<<<<>>, <<>>>>}
          [] symbol \notin TagOperations /\ given = <<>> -> {<<<<symbol>>>>}
          [] OTHER -> {}

-----------------------------------------------------------------------------
(* The sibling indexes keep an item in a slot named by the boundaries at    *)
(* which its partner must continue; <<>> is "no slot".                      *)

IndexedOperations == {"*", "*CONC11*", "*CONC12*", "*CONC21*", "*WRAP21*", "*WRAP22*"}

Slot(operation, position, q) ==
    CASE operation \in {"*", "*CONC11*", "*CONC12*"} /\ position = 1 /\ IsSpan(q) -> <<q[2]>>
      [] operation \in {"*", "*CONC11*", "*CONC21*"} /\ position = 2 /\ IsSpan(q) -> <<q[1]>>
      [] operation = "*CONC12*" /\ position = 2 /\ IsPair(q) -> <<q[1]>>
      [] operation = "*CONC21*" /\ position = 1 /\ IsPair(q) -> <<q[4]>>
      [] operation \in {"*WRAP21*", "*WRAP22*"} /\ position = 1 /\ IsPair(q) -> <<q[2], q[3]>>
      [] operation = "*WRAP21*" /\ position = 2 /\ IsSpan(q) -> <<q[1], q[2]>>
      [] operation = "*WRAP22*" /\ position = 2 /\ IsPair(q) -> <<q[1], q[4]>>
      [] OTHER -> <<>>

(* The index returns an item at one position to an item at the other. *)
Compatible(operation, first, second) ==
    /\ Slot(operation, 1, first) # <<>>
    /\ Slot(operation, 1, first) = Slot(operation, 2, second)
=============================================================================
