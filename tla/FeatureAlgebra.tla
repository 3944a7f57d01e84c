---------------------------- MODULE FeatureAlgebra ----------------------------
(***************************************************************************)
(* The feature-structure algebra on the smallest structures that unify,    *)
(* clash and nest: an atom <<a>>, the variable <<"?">>, and a map with one *)
(* attribute <<attribute, ":", value>>, where value is an atom's name or   *)
(* "?".  Reentrant structures are left out.                                *)
(*                                                                         *)
(* FeatureStructureFilter is the automaton whose states are the values and *)
(* whose transitions are the operations where they are defined.            *)
(***************************************************************************)
EXTENDS Naturals, Sequences

Free == <<"?">>

IsMap(v) == Len(v) = 3

MapOf(attribute, v) == <<attribute, ":", v[1]>>

ValueAt(v) == <<v[3]>>

(* The unifier as a set, empty where unification fails. *)
UnifySimple(u, v) ==
    IF u = Free THEN {v} ELSE IF v = Free \/ u = v THEN {u} ELSE {}

Unify(u, v) ==
    IF IsMap(u) /\ IsMap(v)
      THEN {MapOf(u[1], w) : w \in UnifySimple(ValueAt(u), ValueAt(v))}
      ELSE UnifySimple(u, v)

Values(atoms, attribute) ==
    LET simple == {Free} \cup {<<a>> : a \in atoms}
    IN  simple \cup {MapOf(attribute, v) : v \in simple}

(* literals: symbol |-> value. *)
FeatureRules(values, attribute, literals) ==
    LET rule(symbol, children, v) == [symbol |-> symbol, children |-> children, result |-> v]
        maps == {v \in values : IsMap(v)}
    IN  {rule(symbol, <<>>, literals[symbol]) : symbol \in DOMAIN literals}
        \cup UNION {{rule("unify", p, v) : v \in Unify(p[1], p[2])} : p \in values \X values}
        \cup {rule("proj", <<v>>, ValueAt(v)) : v \in maps}
        \cup {rule("emb", <<v>>, MapOf(attribute, v)) : v \in values \ maps}

(* Every value is accepting. *)
FeatureDecomposition(atoms, attribute, literals) ==
    LET values == Values(atoms, attribute)
    IN  [states |-> values, rules |-> FeatureRules(values, attribute, literals), accepting |-> values]
=============================================================================
