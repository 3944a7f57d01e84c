-------------------------- MODULE InverseHomomorphism --------------------------
(***************************************************************************)
(* Homomorphisms from source symbols to terms of the target algebra, and   *)
(* the inverse image of a decomposition automaton under one: the right     *)
(* automaton of a parse.                                                   *)
(*                                                                         *)
(* A term is the sequence of its nodes in preorder, as the sibling finder  *)
(* compiles it.  A node is [label, variable, parent, position]; variable   *)
(* is 0 at an operation, and the root's parent is 0.  Equal images share a *)
(* term id: a homomorphism maps symbols to ids, and Terms maps ids to      *)
(* terms.                                                                  *)
(***************************************************************************)
EXTENDS Automata, SequencesExt

CONSTANTS Terms,    \* term id |-> term
          Inputs    \* what can be parsed: [decomp, hom]

-----------------------------------------------------------------------------
(* Compiling a term.                                                       *)

Variable(v) == <<[label |-> "?", variable |-> v, parent |-> 0, position |-> 0]>>

(* A subterm below a root, after `offset` other nodes. *)
Placed(term, offset, position) ==
    [n \in DOMAIN term |->
        [term[n] EXCEPT !.parent = IF n = 1 THEN 1 ELSE @ + offset,
                        !.position = IF n = 1 THEN position ELSE @]]

Operation(symbol, subterms) ==
    FoldLeftDomain(LAMBDA term, i : term \o Placed(subterms[i], Len(term), i),
                   <<[label |-> symbol, variable |-> 0, parent |-> 0, position |-> 0]>>,
                   subterms)

Root == 1

(* The children of a node, in order. *)
Children(term, n) == SelectSeq([m \in DOMAIN term |-> m], LAMBDA m : term[m].parent = n)

IsOperation(term, n) == term[n].variable = 0

(* The nodes of the subterm at n: everything up to the next node that hangs *)
(* from above n.                                                            *)
Subterm(term, n) ==
    {m \in DOMAIN term : m >= n /\ \A k \in n + 1..m : term[k].parent >= n}

(* The variables below n, as the nodes that hold them in term order. *)
VariableNodes(term, n) ==
    SelectSeq([m \in DOMAIN term |-> m],
              LAMBDA m : m \in Subterm(term, n) /\ ~IsOperation(term, m))

Arity(term) == Len(VariableNodes(term, Root))

VariableNode(term, v) == CHOOSE n \in DOMAIN term : term[n].variable = v

(* A homomorphism is linear and nondeleting: every source child stands once *)
(* in the image.                                                            *)
IsNondeleting(term) ==
    {term[n].variable : n \in {k \in DOMAIN term : ~IsOperation(term, k)}} = 1..Arity(term)

ASSUME TermsAreNondeleting == \A id \in DOMAIN Terms : IsNondeleting(Terms[id])

(* Linear: no two nodes hold the same variable. *)
IsLinear(term) ==
    \A m, n \in DOMAIN term : ~IsOperation(term, n) /\ term[m].variable = term[n].variable => m = n

ASSUME TermsAreLinear == \A id \in DOMAIN Terms : IsLinear(Terms[id])

(* The nodes of a term hang together: a node is at its position among the   *)
(* children of an operation, and has the variables of its children.         *)
IsTree(term) ==
    \A n \in DOMAIN term :
        LET kids == Children(term, n)
            variables(m) == VariableNodes(term, m)
            above == term[n].parent
        IN  /\ kids \in Seq(DOMAIN term) /\ variables(n) \in Seq(DOMAIN term)
            /\ variables(n) = IF IsOperation(term, n) THEN FlattenSeq([i \in DOMAIN kids |-> variables(kids[i])])
                                                     ELSE <<n>>
            /\ n # Root => /\ above \in DOMAIN term /\ IsOperation(term, above)
                           /\ term[n].position \in DOMAIN Children(term, above)
                           /\ n = Children(term, above)[term[n].position]

ASSUME TermsAreTrees == \A id \in DOMAIN Terms : IsTree(Terms[id])

(* The root hangs from nothing, a node comes before its children, and all   *)
(* between a node and a child of it hangs from the node or from below it.   *)
IsPreorder(term) ==
    /\ Len(term) \in Nat \ {0} /\ DOMAIN term = 1..Len(term) /\ term[Root].parent = 0
    /\ \A n \in DOMAIN term : \A i \in DOMAIN Children(term, n) :
          LET kid == Children(term, n)[i] IN term[kid].parent = n /\ term[kid].position = i
    /\ \A n \in DOMAIN term \ {Root} :
          LET above == term[n].parent
          IN  above < n /\ \A k \in above + 1..n : term[k].parent >= above

ASSUME TermsAreInPreorder == \A id \in DOMAIN Terms : IsPreorder(Terms[id])

-----------------------------------------------------------------------------
(* The inverse image.                                                      *)

(* One transition of the decomposition automaton. *)
Step(alg, symbol, states) ==
    {r.result : r \in {x \in alg.rules : x.symbol = symbol /\ x.children = states}}

(* The states that the operation above a node takes at its position. *)
Operands(alg, term, n) ==
    IF n = Root THEN alg.states
    ELSE LET above == term[term[n].parent]
             position == term[n].position
         IN  {r.children[position] :
                 r \in {x \in alg.rules : x.symbol = above.label /\ position \in DOMAIN x.children}}

(* The ways to evaluate a term: a state for every node, with a transition   *)
(* at every operation.  They are put together from the last node back to    *)
(* the root, so that a node comes after its children.                       *)
Evaluations(alg, term) ==
    LET kids == [n \in DOMAIN term |-> Children(term, n)]
        facts == {<<r.symbol, r.children, r.result>> : r \in alg.rules}
        operands == [n \in DOMAIN term |-> Operands(alg, term, n)]
        below(n, e) == [i \in DOMAIN kids[n] |-> e[kids[n][i] - n]]
        results(n, e) ==
            IF IsOperation(term, n)
              THEN {q \in alg.states : <<term[n].label, below(n, e), q>> \in facts}
              ELSE operands[n]
        extend(n, evaluations) == UNION {{<<q>> \o e : q \in results(n, e)} : e \in evaluations}
    IN  FoldRightDomain(extend, term, {<<>>})

Accepts(alg, term) == \E e \in Evaluations(alg, term) : e[Root] \in alg.accepting

(* What a term evaluates to, from the leaves up, if each variable stands    *)
(* for a given value and an operation has a set of results.                 *)
TermResults(term, given, apply(_, _)) ==
    LET kids == [n \in DOMAIN term |-> Children(term, n)]
        tuples(n, known) ==
            FoldLeftDomain(LAMBDA ts, i : {Append(t, v) : t \in ts, v \in known[kids[n][i] - n]},
                           {<<>>}, kids[n])
        results(n, known) ==
            IF IsOperation(term, n) THEN UNION {apply(term[n].label, t) : t \in tuples(n, known)}
                                    ELSE {given[term[n].variable]}
    IN  Head(FoldRightDomain(LAMBDA n, known : <<results(n, known)>> \o known, term, <<>>))

(* The value of a term without variables, a set of at most one. *)
TermValue(term, evaluate(_, _)) == TermResults(term, <<>>, evaluate)

(* InvHom::step: one source symbol over states of the target automaton. *)
StepOf(alg, images, symbol, states) ==
    IF symbol \notin DOMAIN images \/ Arity(Terms[images[symbol]]) # Len(states) THEN {}
    ELSE TermResults(Terms[images[symbol]], states, LAMBDA f, children : Step(alg, f, children))

(* The source symbols with this image. *)
LabelSet(images, id) == {s \in DOMAIN images : images[s] = id}

CondensedRule(images, id, e) ==
    [symbols  |-> LabelSet(images, id),
     children |-> [v \in 1..Arity(Terms[id]) |-> e[VariableNode(Terms[id], v)]],
     result   |-> e[Root]]

(* InvHom(decomp, hom) as a condensed automaton. *)
Image(alg, images) ==
    [rules |-> UNION {{CondensedRule(images, id, e) : e \in Evaluations(alg, Terms[id])} :
                         id \in Range(images)},
     accepting |-> alg.accepting]

(* The ways to match a term downwards from a state: every node passes its   *)
(* children the states of one transition.                                   *)
MatchesFrom(alg, term, state) ==
    LET kids == [n \in DOMAIN term |-> Children(term, n)]
        choices(n, e) ==
            IF IsOperation(term, n)
              THEN {r.children : r \in {x \in alg.rules :
                       x.symbol = term[n].label /\ x.result = e[n] /\ Len(x.children) = Len(kids[n])}}
              ELSE {<<>>}
        extended(e, n, states) ==
            e @@ [m \in Range(kids[n]) |-> states[term[m].position]]
    IN  FoldLeftDomain(LAMBDA es, n : UNION {{extended(e, n, c) : c \in choices(n, e)} : e \in es},
                       {Root :> state}, term)

(* InvHom::condensed_rules_by_parent, for every parent. *)
ImageByParent(alg, images) ==
    [rules |-> UNION {{CondensedRule(images, id, e) :
                          e \in UNION {MatchesFrom(alg, Terms[id], q) : q \in alg.states}} :
                         id \in Range(images)},
     accepting |-> alg.accepting]

Images == [input \in Inputs |-> Image(input.decomp, input.hom)]

ImagesByParent == [input \in Inputs |-> ImageByParent(input.decomp, input.hom)]

=============================================================================
