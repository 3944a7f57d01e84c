---------------------------- MODULE MCGrammarCache ----------------------------
(* Three threads and two interpretations: two threads race for one grammar  *)
(* while the third finds it, or compiles the other one.                     *)
EXTENDS GrammarCache
=============================================================================
