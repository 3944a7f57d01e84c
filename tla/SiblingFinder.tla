----------------------------- MODULE SiblingFinder -----------------------------
(***************************************************************************)
(* The sibling-finder intersection: the homomorphic image terms of the     *)
(* grammar rules are run as programs.  A popped product state feeds its    *)
(* right state to the variables its left state stands at; items move up    *)
(* the term, at a binary node by way of a sibling index; an item at the    *)
(* root is a condensed rule, which is joined with the grammar rules whose  *)
(* children have product states, now or when the last one arrives.         *)
(*                                                                         *)
(* A program is named by its term id.  An item [node, state, row] carries  *)
(* the states of the variables below its node.  An item that has left the  *)
(* agenda of its program is in the sibling index of its parent node, or in *)
(* root_by_child at the root.  The order in which programs, groups and     *)
(* items are processed is left open.                                       *)
(***************************************************************************)
EXTENDS Chart, InverseHomomorphism, StringAlgebras

VARIABLES
    decomp, hom,   \* the inputs, never written; right is their image
    pc,            \* "start", "groups", "older", "propagate", "roots", "done",
                   \* "refused" or "cancelled"
    items,         \* program |-> its term chart
    initialized,   \* programs whose constants have been evaluated
    scheduled,     \* agenda of the running program
    queue,         \* product states not yet processed, first in first out
    current,       \* the product state being processed
    todo,          \* its occurrence groups <<program, variable>> not yet processed
    group,         \* the group being processed
    new_roots,     \* root items of the running program not yet joined
    tries,         \* pairs <<grammar rule, root item>> to be tried
    emitted,       \* pairs that have been joined
    cancelled      \* the shared ParseControl flag

input    == <<left, right, decomp, hom>>
chart    == <<product_pairs, accepting, rules, duplicate, queue, emitted>>
programs == <<items, initialized, scheduled>>
position == <<current, todo, group>>
vars     == <<input, chart, programs, position, pc, new_roots, tries, cancelled>>

-----------------------------------------------------------------------------
(* CompiledSiblingGrammar.                                                 *)

Interpreted == {l \in left.rules : l.symbol \in DOMAIN hom}

Program(l) == hom[l.symbol]

Programs == {Program(l) : l \in Interpreted}

IsGround(id) == Arity(Terms[id]) = 0

(* by_left_child: the programs and variables a left state stands at. *)
Groups(q) ==
    UNION {{<<Program(l), v>> : v \in {i \in DOMAIN l.children : l.children[i] = q}} :
              l \in Interpreted}

RulesOfGroup(q, id, v) ==
    {l \in Interpreted : Program(l) = id /\ l.children[v] = q}

(* compile_term refuses operations of rank above two. *)
IsBinary(id) == \A n \in DOMAIN Terms[id] : Len(Children(Terms[id], n)) <= 2

(* new_index: every operation with two children needs a sibling index. *)
HasSiblingIndexes(id) ==
    LET term == Terms[id]
    IN  \A n \in DOMAIN term :
            Len(Children(term, n)) = 2 => term[n].label \in IndexedOperations

-----------------------------------------------------------------------------
(* RunningProgram.                                                         *)

Item(n, q, row) == [node |-> n, state |-> q, row |-> row]

Settled(id) == items[id] \ scheduled

(* Rows follow the term, but at the root the order of the rule's children.  *)
RowAt(term, n, row) ==
    IF n = Root
      THEN [v \in DOMAIN row |->
               row[CHOOSE k \in DOMAIN row : term[VariableNodes(term, Root)[k]].variable = v]]
      ELSE row

(* Faulty variant: only a first child looks for partners. *)
Upward_FirstChild(id, x) ==
    LET term   == Terms[id]
        parent == term[x.node].parent
        kids   == Children(term, parent)
        second(y) == Len(kids) = 2 => y.node = kids[2] /\ Compatible(term[parent].label, x.state, y.state)
        made(states, row) == {Item(parent, q, RowAt(term, parent, row)) :
                                 q \in Step(decomp, term[parent].label, states)}
    IN  CASE Len(kids) = 1 -> made(<<x.state>>, x.row)
          [] term[x.node].position = 1 ->
               UNION {made(<<x.state, y.state>>, x.row \o y.row) : y \in {z \in Settled(id) : second(z)}}
          [] OTHER -> {}

(* The items that a settled or new item makes at its parent node. *)
Upward(id, x) ==
    LET term    == Terms[id]
        parent  == term[x.node].parent
        kids    == Children(term, parent)
        made(first, second) ==
            {Item(parent, q, RowAt(term, parent, first.row \o second.row)) :
                q \in Step(decomp, term[parent].label, <<first.state, second.state>>)}
        partners(at) == {y \in Settled(id) : y.node = kids[at]}
        fits(first, second) == Compatible(term[parent].label, first.state, second.state)
    IN  IF Len(kids) = 1
          THEN {Item(parent, q, RowAt(term, parent, x.row)) :
                   q \in Step(decomp, term[parent].label, <<x.state>>)}
        ELSE IF term[x.node].position = 1
          THEN UNION {made(x, y) : y \in {z \in partners(2) : fits(x, z)}}
          ELSE UNION {made(y, x) : y \in {z \in partners(1) : fits(z, x)}}

Constants(id) ==
    LET term == Terms[id]
    IN  UNION {{Item(n, q, <<>>) : q \in Step(decomp, term[n].label, <<>>)} :
                  n \in {k \in DOMAIN term : IsOperation(term, k) /\ Children(term, k) = <<>>}}

(* insert: an item that is there already is not scheduled again. *)
Insert(id, new) ==
    /\ items' = [items EXCEPT ![id] = @ \cup new]
    /\ scheduled' = scheduled \cup (new \ items[id])

-----------------------------------------------------------------------------
NoGroup == <<>>

Init ==
    /\ InitChart
    /\ right = Images[[decomp |-> decomp, hom |-> hom]]
    /\ pc = "start"
    /\ items = [id \in DOMAIN Terms |-> {}]
    /\ initialized = {}
    /\ scheduled = {}
    /\ queue = <<>>
    /\ current = <<>>
    /\ todo = {}
    /\ group = NoGroup
    /\ new_roots = {}
    /\ tries = {}
    /\ emitted = {}
    /\ cancelled = FALSE

(* A check that sees the flag: the run ends with Err(Cancelled). *)
GiveUp ==
    /\ cancelled
    /\ pc' = "cancelled"
    /\ UNCHANGED <<input, chart, programs, position, new_roots, tries, cancelled>>

(* Compilation, the check on entry and the sibling indexes; then the ground *)
(* programs are run, as groups of no variable.                              *)
Start ==
    /\ pc = "start"
    /\ \/ (\A id \in Programs : IsBinary(id)) /\ GiveUp
       \/ /\ \/ \E id \in Programs : ~IsBinary(id)
             \/ ~cancelled /\ \E id \in Programs : ~HasSiblingIndexes(id)
          /\ pc' = "refused"
          /\ UNCHANGED <<input, chart, programs, position, new_roots, tries, cancelled>>
       \/ /\ ~cancelled
          /\ \A id \in Programs : IsBinary(id) /\ HasSiblingIndexes(id)
          /\ todo' = {<<id, 0>> : id \in {p \in Programs : IsGround(p)}}
          /\ pc' = "groups"
          /\ UNCHANGED <<input, chart, programs, current, group, new_roots, tries, cancelled>>

(* The next occurrence group.  Older root items with the new product state  *)
(* at this variable are joined first.                                       *)
NextGroup(id, v) ==
    /\ pc = "groups"
    /\ <<id, v>> \in todo
    /\ todo' = todo \ {<<id, v>>}
    /\ group' = <<id, v>>
    /\ tries' = IF v = 0 THEN {}
                ELSE RulesOfGroup(current[1], id, v) \X
                     {x \in items[id] : x.node = Root /\ x.row[v] = current[2]}
    /\ pc' = "older"
    /\ UNCHANGED <<input, chart, programs, current, new_roots, cancelled>>

(* Faulty variant: the pairs that were joined are not remembered. *)
TryEmit_Again(l, root) ==
    LET children == [i \in DOMAIN l.children |-> <<l.children[i], root.row[i]>>]
        pair     == <<l.result, root.state>>
    IN  /\ pc \in {"older", "roots"}
        /\ <<l, root>> \in tries
        /\ tries' = tries \ {<<l, root>>}
        /\ IF \A i \in DOMAIN children : Known(children[i])
             THEN /\ AddProductRule(l.symbol, [i \in DOMAIN children |-> IdOf(children[i])], pair)
                  /\ queue' = IF Known(pair) THEN queue ELSE Append(queue, pair)
             ELSE UNCHANGED <<product_pairs, accepting, rules, duplicate, queue>>
        /\ UNCHANGED <<input, programs, position, pc, new_roots, cancelled, emitted>>

(* try_emit: nothing happens if the pair was joined before or a child has   *)
(* no product state yet.                                                    *)
TryEmit(l, root) ==
    LET children == [i \in DOMAIN l.children |-> <<l.children[i], root.row[i]>>]
        pair     == <<l.result, root.state>>
    IN  /\ pc \in {"older", "roots"}
        /\ <<l, root>> \in tries
        /\ tries' = tries \ {<<l, root>>}
        /\ IF <<l, root>> \notin emitted /\ \A i \in DOMAIN children : Known(children[i])
             THEN /\ AddProductRule(l.symbol, [i \in DOMAIN children |-> IdOf(children[i])], pair)
                  /\ queue' = IF Known(pair) THEN queue ELSE Append(queue, pair)
                  /\ emitted' = emitted \cup {<<l, root>>}
             ELSE UNCHANGED chart
        /\ UNCHANGED <<input, programs, position, pc, new_roots, cancelled>>

(* activate: the constants once, and the new right state at the variable.   *)
Activate ==
    /\ pc = "older"
    /\ tries = {}
    /\ LET id == group[1]
           constants == IF id \in initialized THEN {} ELSE Constants(id)
           variable == IF group[2] = 0 THEN {}
                       ELSE {Item(VariableNode(Terms[id], group[2]), current[2], <<current[2]>>)}
       IN  Insert(id, constants \cup variable) /\ initialized' = initialized \cup {id}
    /\ pc' = "propagate"
    /\ UNCHANGED <<input, chart, position, new_roots, tries, cancelled>>

(* One scheduled item: a root item is registered, any other one moves up.   *)
Propagate(x) ==
    /\ pc = "propagate"
    /\ x \in scheduled
    /\ \/ GiveUp
       \/ /\ ~cancelled
          /\ IF x.node = Root
               THEN /\ new_roots' = new_roots \cup {x}
                    /\ scheduled' = scheduled \ {x}
                    /\ UNCHANGED items
               ELSE LET made == Upward(group[1], x) IN
                    /\ items' = [items EXCEPT ![group[1]] = @ \cup made]
                    /\ scheduled' = (scheduled \ {x}) \cup (made \ items[group[1]])
                    /\ UNCHANGED new_roots
          /\ UNCHANGED <<input, chart, initialized, position, pc, tries, cancelled>>

EndPropagate ==
    /\ pc = "propagate"
    /\ scheduled = {}
    /\ pc' = "roots"
    /\ UNCHANGED <<input, chart, programs, position, new_roots, tries, cancelled>>

(* for_each_value_for_key_sets: the rules of the program whose children     *)
(* have product states with the row's states now.                           *)
Candidates(id, row) ==
    {l \in Interpreted :
        /\ Program(l) = id
        /\ \A i \in DOMAIN l.children : Known(<<l.children[i], row[i]>>)}

NextRoot(root) ==
    /\ pc = "roots"
    /\ tries = {}
    /\ root \in new_roots
    /\ new_roots' = new_roots \ {root}
    /\ tries' = Candidates(group[1], root.row) \X {root}
    /\ UNCHANGED <<input, chart, programs, position, pc, cancelled>>

EndGroup ==
    /\ pc = "roots"
    /\ tries = {}
    /\ new_roots = {}
    /\ pc' = "groups"
    /\ UNCHANGED <<input, chart, programs, position, new_roots, tries, cancelled>>

(* The next product state. *)
Pop ==
    /\ pc = "groups"
    /\ todo = {}
    /\ queue # <<>>
    /\ \/ GiveUp
       \/ /\ ~cancelled
          /\ current' = Head(queue)
          /\ queue' = Tail(queue)
          /\ todo' = Groups(Head(queue)[1])
          /\ UNCHANGED <<input, product_pairs, accepting, rules, duplicate, emitted, programs,
                         group, pc, new_roots, tries, cancelled>>

Finish ==
    /\ pc = "groups"
    /\ todo = {}
    /\ queue = <<>>
    /\ pc' = "done"
    /\ UNCHANGED <<input, chart, programs, position, new_roots, tries, cancelled>>

(* ParseControl::cancel, from any thread. *)
Cancel ==
    /\ ~cancelled
    /\ cancelled' = TRUE
    /\ UNCHANGED <<input, chart, programs, position, pc, new_roots, tries>>

Work ==
    \/ Start
    \/ \E g \in todo : NextGroup(g[1], g[2])
    \/ \E t \in tries : TryEmit(t[1], t[2])
    \/ Activate
    \/ \E x \in scheduled : Propagate(x)
    \/ EndPropagate
    \/ \E root \in new_roots : NextRoot(root)
    \/ EndGroup \/ Pop \/ Finish

Next == Work \/ Cancel

Spec == Init /\ [][Next]_vars /\ WF_vars(Work)

-----------------------------------------------------------------------------
(* Properties.                                                             *)

IsItemOf(id, x) ==
    LET term == Terms[id]
    IN  /\ x.node \in DOMAIN term
        /\ x.state \in RightStates
        /\ x.row \in [1..Len(VariableNodes(term, x.node)) -> RightStates]

(* Every variable has its type; an item's row has one state for every       *)
(* variable below its node.                                                 *)
TypeOK ==
    /\ ChartTypeOK
    /\ pc \in {"start", "groups", "older", "propagate", "roots", "done", "refused", "cancelled"}
    /\ \A id \in DOMAIN Terms : \A x \in items[id] : IsItemOf(id, x)
    /\ initialized \subseteq Programs
    /\ Range(queue) \subseteq Pairs
    /\ \A g \in todo : g[1] \in Programs
    /\ pc \in {"older", "propagate", "roots"} =>
         /\ group[1] \in Programs
         /\ scheduled \cup new_roots \subseteq items[group[1]]
    /\ \A t \in tries \cup emitted :
         t[1] \in Interpreted /\ t[2] \in items[Program(t[1])] /\ t[2].node = Root
    /\ cancelled \in BOOLEAN

Processed == Pairs \ Range(queue)

(* The right states that have been fed to a variable of a program. *)
Activated(id, v) ==
    {p[2] : p \in {x \in Processed : <<id, v>> \in Groups(x[1])}}

(* What the items of a node's children make there, sibling indexes aside. *)
Derived(id, n) ==
    LET term == Terms[id]
        kids == Children(term, n)
        choices == {c \in [DOMAIN kids -> items[id]] : \A i \in DOMAIN kids : c[i].node = kids[i]}
        results(c) == Step(decomp, term[n].label, [i \in DOMAIN kids |-> c[i].state])
        row(c) == RowAt(term, n, FlattenSeq([i \in DOMAIN kids |-> c[i].row]))
    IN  IF IsOperation(term, n)
          THEN UNION {{Item(n, q, row(c)) : q \in results(c)} : c \in choices}
          ELSE {Item(n, q, <<q>>) : q \in Activated(id, term[n].variable)}

(* Between two product states every term chart is exact: at every node      *)
(* exactly the items that follow from the product states processed so far,  *)
(* although each pair of siblings meets once, through an index that is      *)
(* filled as items arrive.                                                  *)
ItemsAreExact ==
    pc = "groups" /\ todo = {} =>
        \A id \in initialized : \A n \in DOMAIN Terms[id] :
            {x \in items[id] : x.node = n} = Derived(id, n)

(* What the caller gets. *)
Outcome == CASE pc = "done" -> "chart"
             [] pc \in {"cancelled", "refused"} -> "none"
             [] OTHER -> "running"
=============================================================================
