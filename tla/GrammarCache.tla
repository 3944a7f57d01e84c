----------------------------- MODULE GrammarCache -----------------------------
(***************************************************************************)
(* Irtg::compiled_sibling_grammar: threads that parse with one shared Irtg *)
(* and the sibling finder share the compiled grammars.  The cache is read  *)
(* under its mutex, a missing grammar is compiled under no lock, and the   *)
(* cache is read and written again under its mutex.  The names of the      *)
(* specification differ from those of ParsePool, so that both can be       *)
(* reasoned about in one module.                                           *)
(***************************************************************************)
EXTENDS Naturals, Functions

CONSTANTS Threads, Interpretations

VARIABLES
    compilable,     \* interpretations whose grammar compiles; never written
    step,           \* thread |-> "idle", "lookup", "compile" or "insert"
    wanted,         \* thread |-> the interpretation of its call
    compiled,       \* thread |-> the grammar of its call, if it compiled one
    cache,          \* compiled_sibling_grammars: interpretation |-> grammar
    answers         \* interpretation |-> what calls for it have returned

cache_vars == <<compilable, step, wanted, compiled, cache, answers>>

(* A thread compiles the grammar of an interpretation once at most, since   *)
(* it is in the cache afterwards: who compiled it says which Arc it is.     *)
Grammars == Threads \X Interpretations
Error == <<"error">>
NoGrammar == <<"none">>

GoOn(t, label) == step' = [step EXCEPT ![t] = label]

Answer(t, answer) == answers' = [answers EXCEPT ![wanted[t]] = @ \cup {answer}]

-----------------------------------------------------------------------------
CacheInit ==
    /\ compilable \in SUBSET Interpretations
    /\ step = [t \in Threads |-> "idle"]
    /\ wanted \in [Threads -> Interpretations]
    /\ compiled = [t \in Threads |-> NoGrammar]
    /\ cache = [p \in {} |-> NoGrammar]
    /\ answers = [p \in Interpretations |-> {}]

Call(t, p) ==
    /\ step[t] = "idle"
    /\ wanted' = [wanted EXCEPT ![t] = p]
    /\ GoOn(t, "lookup")
    /\ UNCHANGED <<compilable, compiled, cache, answers>>

(* The first critical section. *)
LookUp(t) ==
    /\ step[t] = "lookup"
    /\ IF wanted[t] \in DOMAIN cache
         THEN Answer(t, cache[wanted[t]]) /\ GoOn(t, "idle")
         ELSE GoOn(t, "compile") /\ UNCHANGED answers
    /\ UNCHANGED <<compilable, wanted, compiled, cache>>

(* Faulty variant: the error of the compiler is not passed on. *)
Compiles_Unchecked(p) == TRUE

Compiles(p) == p \in compilable

(* CompiledSiblingGrammar::new; on an error the call returns it. *)
Compile(t) ==
    /\ step[t] = "compile"
    /\ IF Compiles(wanted[t])
         THEN /\ compiled' = [compiled EXCEPT ![t] = <<t, wanted[t]>>]
              /\ GoOn(t, "insert")
              /\ UNCHANGED answers
         ELSE Answer(t, Error) /\ GoOn(t, "idle") /\ UNCHANGED compiled
    /\ UNCHANGED <<compilable, wanted, cache>>

(* Faulty variant: a later compiler's grammar replaces the cached one. *)
Cached_Replaced(t) == compiled[t]

(* entry().or_insert_with(): the grammar that is in the cache afterwards. *)
Cached(t) == IF wanted[t] \in DOMAIN cache THEN cache[wanted[t]] ELSE compiled[t]

(* The second critical section. *)
Insert(t) ==
    /\ step[t] = "insert"
    /\ cache' = [p \in DOMAIN cache \cup {wanted[t]} |-> IF p = wanted[t] THEN Cached(t) ELSE cache[p]]
    /\ Answer(t, Cached(t))
    /\ compiled' = [compiled EXCEPT ![t] = NoGrammar]
    /\ GoOn(t, "idle")
    /\ UNCHANGED <<compilable, wanted>>

CacheNext == \E t \in Threads :
    \/ \E p \in Interpretations : Call(t, p)
    \/ LookUp(t)
    \/ Compile(t)
    \/ Insert(t)

CacheSpec == CacheInit /\ [][CacheNext]_cache_vars

-----------------------------------------------------------------------------
(* Properties. *)

(* Every variable has its type, and only what compiles is in the cache. *)
CacheTypeOK ==
    /\ compilable \subseteq Interpretations
    /\ step \in [Threads -> {"idle", "lookup", "compile", "insert"}]
    /\ wanted \in [Threads -> Interpretations]
    /\ compiled \in [Threads -> Grammars \cup {NoGrammar}]
    /\ DOMAIN cache \subseteq compilable
    /\ cache \in [DOMAIN cache -> Grammars]
    /\ answers \in [Interpretations -> SUBSET (Grammars \cup {Error})]

(* Several threads may compile the grammar of one interpretation at the     *)
(* same time, but all calls for it return the same grammar, now and later,  *)
(* and the same one whether it was found, inserted, or came too late; or    *)
(* they all return the error.                                               *)
OneAnswer ==
    \A p \in Interpretations : \A x, y \in answers[p] : x = y

(* What a call has returned stays in the cache: the inductive invariant     *)
(* behind OneAnswer.                                                        *)
AnswersAreCached ==
    \A p \in Interpretations : \A x \in answers[p] :
        IF p \in compilable THEN p \in DOMAIN cache /\ x = cache[p] ELSE x = Error

CacheIInv ==
    /\ CacheTypeOK
    /\ AnswersAreCached
    /\ \A t \in Threads : step[t] = "insert" =>
          wanted[t] \in compilable /\ compiled[t] = <<t, wanted[t]>>

=============================================================================
