------------------------- MODULE MCIntersectionInputs -------------------------
(***************************************************************************)
(* Small automata for the runs of the intersections: a nullary, two unary  *)
(* and a binary symbol, two states on each side.  The optional rules give  *)
(* cycles on one or both sides, rules with a repeated child, condensed     *)
(* rules with several symbols and product states reached in several ways.  *)
(***************************************************************************)
EXTENDS Naturals, Sequences

MCSymbols == {"c", "g", "h", "f"}
MCLeftStates == {"a", "b"}
MCRightStates == {"q", "r"}

LeftRule(s, children, result) == [symbol |-> s, children |-> children, result |-> result]

RightRule(ss, children, result) == [symbols |-> ss, children |-> children, result |-> result]

MCLefts ==
    {[rules |-> {LeftRule("c", <<>>, "a"), LeftRule("f", <<"a", "b">>, "b")} \cup optional,
      accepting |-> {"b"}] :
        optional \in SUBSET {LeftRule("c", <<>>, "b"),
                             LeftRule("f", <<"a", "a">>, "b"),
                             LeftRule("g", <<"b">>, "a"),
                             LeftRule("h", <<"b">>, "b")}}

MCRights ==
    {[rules |-> {RightRule({"c"}, <<>>, "q"), RightRule({"f"}, <<"q", "q">>, "r")} \cup optional,
      accepting |-> {"r"}] :
        optional \in SUBSET {RightRule({"g", "h"}, <<"r">>, "q"),
                             RightRule({"f"}, <<"r", "q">>, "r"),
                             RightRule({"f"}, <<"q", "q">>, "q")}}
=============================================================================
