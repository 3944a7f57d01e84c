---------------------------- MODULE TagTreeAlgebra ----------------------------
(***************************************************************************)
(* The decomposition automaton of a TAG derived tree, and its              *)
(* binarization.  The tree is a term of InverseHomomorphism without        *)
(* variables.  A state <<top, bottom>> is the context from the node top    *)
(* down to a hole at bottom, or with bottom = 0 the whole subtree at top.  *)
(*                                                                         *)
(* The signature maps the ordinary operations to [label, arity]; "@"       *)
(* substitutes a tree for the hole of a context, and "hole" is the hole.   *)
(***************************************************************************)
EXTENDS InverseHomomorphism

Whole(n) == <<n, 0>>

Contexts(tree, top) == {<<top, b>> : b \in Subterm(tree, top)}

TagTreeStates(tree) ==
    UNION {{Whole(n)} \cup Contexts(tree, n) : n \in DOMAIN tree}

TreeRule(symbol, children, result) ==
    [symbol |-> symbol, children |-> children, result |-> result]

HoleRules(tree) == {TreeRule("hole", <<>>, <<n, n>>) : n \in DOMAIN tree}

(* A context is put on top of what stands at its hole. *)
SubstitutionRules(tree) ==
    UNION {{TreeRule("@", <<host, q>>, <<host[1], q[2]>>) :
               q \in {Whole(host[2])} \cup Contexts(tree, host[2])} :
              host \in UNION {Contexts(tree, n) : n \in DOMAIN tree}}

(* The symbols of a node.  If the signature is that of a binarized algebra, *)
(* an operation's own rank does not count.                                  *)
SymbolsForNode(tree, n, signature, permissive) ==
    {s \in DOMAIN signature :
        /\ signature[s].label = tree[n].label
        /\ \/ signature[s].arity = Len(Children(tree, n))
           \/ permissive /\ signature[s].arity > 0}

(* An ordinary operation at a node: its children are whole, or one of them  *)
(* has the hole.                                                            *)
NodeRules(tree, n, signature, permissive) ==
    LET kids    == Children(tree, n)
        symbols == SymbolsForNode(tree, n, signature, permissive)
        whole   == [i \in DOMAIN kids |-> Whole(kids[i])]
        holes   == UNION {{<<i, b>> : b \in Subterm(tree, kids[i])} : i \in DOMAIN kids}
    IN  {TreeRule(s, whole, Whole(n)) : s \in symbols}
        \cup {TreeRule(x[1], [whole EXCEPT ![x[2][1]] = <<kids[x[2][1]], x[2][2]>>], <<n, x[2][2]>>) :
                 x \in symbols \X holes}

TagTreeRules(tree, signature, permissive) ==
    HoleRules(tree) \cup SubstitutionRules(tree)
    \cup UNION {NodeRules(tree, n, signature, permissive) : n \in DOMAIN tree}

TagTreeDecomposition(tree, signature) ==
    [states    |-> TagTreeStates(tree),
     rules     |-> TagTreeRules(tree, signature, FALSE),
     accepting |-> {Whole(Root)}]

-----------------------------------------------------------------------------
(* Binarization: the children of a rule with more than two are put together *)
(* by "append", an interval of them after another.  An interval of one      *)
(* child is the child's state, a longer one is a state of its own.          *)

IsHigh(rule) == Len(rule.children) > 2

(* Faulty variant: an interval does not know its operation and its parent.  *)
Segment_Anonymous(rule, start, end) ==
    IF end = start + 1 THEN rule.children[end] ELSE <<rule.children[start + 1][1], 0, "", start, end>>

Segment(rule, start, end) ==
    IF end = start + 1 THEN rule.children[end]
                       ELSE <<rule.result[1], rule.result[2], rule.symbol, start, end>>

BinarizationOf(rule) ==
    LET n == Len(rule.children)
        cuts == {c \in (0..n) \X (0..n) \X (0..n) : c[1] < c[2] /\ c[2] < c[3]}
    IN  {TreeRule(rule.symbol, <<Segment(rule, 0, n)>>, rule.result)}
        \cup {TreeRule("append", <<Segment(rule, c[1], c[2]), Segment(rule, c[2], c[3])>>,
                       Segment(rule, c[1], c[3])) : c \in cuts}

BinarizedDecomposition(tree, signature) ==
    LET inner == TagTreeRules(tree, signature, TRUE)
        all   == {r \in inner : ~IsHigh(r)}
                 \cup UNION {BinarizationOf(r) : r \in {x \in inner : IsHigh(x)}}
    IN  [states    |-> TagTreeStates(tree) \cup {r.result : r \in all},
         rules     |-> all,
         accepting |-> {Whole(Root)}]

-----------------------------------------------------------------------------
(* Values are trees, and trees are terms again.                            *)

Holes(tree) == {n \in DOMAIN tree : tree[n].label = "hole"}

(* substitute_all: a tree in place of every hole. *)
SubstituteAll(host, tree) ==
    CHOOSE t \in TermValue(host, LAMBDA label, trees :
                   IF label = "hole" THEN {tree} ELSE {Operation(label, trees)}) : TRUE

EvaluateTree(symbol, trees) ==
    CASE symbol # "@" -> {Operation(symbol, trees)}
      [] symbol = "@" /\ Len(trees) = 2 -> {SubstituteAll(trees[1], trees[2])}
      [] OTHER -> {}

(* Binarizing: an append stands for what its children stand for, in the     *)
(* child list of the node above.                                            *)
Unbinarized(term) ==
    CHOOSE forest \in TermValue(term, LAMBDA label, forests :
                        IF label = "append" THEN {FlattenSeq(forests)}
                                            ELSE {<<Operation(label, FlattenSeq(forests))>>}) : TRUE

TreeValue(term) == TermValue(term, EvaluateTree)

BinarizedTreeValue(term) ==
    LET forest == Unbinarized(term) IN IF Len(forest) = 1 THEN TreeValue(forest[1]) ELSE {}

(* The subterm at a node as a term of its own. *)
Cut(term, n) ==
    [m \in 1..Cardinality(Subterm(term, n)) |->
        [term[n + m - 1] EXCEPT !.parent = IF m = 1 THEN 0 ELSE @ - (n - 1),
                                !.position = IF m = 1 THEN 0 ELSE @]]

(* A context has one hole, while a tree may have several or none. *)
EveryHostHasOneHole(term) ==
    \A n \in DOMAIN term :
        term[n].label = "@" =>
            \A host \in BinarizedTreeValue(Cut(term, Children(term, n)[1])) : Cardinality(Holes(host)) = 1
=============================================================================
