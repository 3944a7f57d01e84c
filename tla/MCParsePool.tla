----------------------------- MODULE MCParsePool -----------------------------
(* Four instances and three workers: a worker takes several instances, and  *)
(* goes on when others have failed or panicked.                             *)
EXTENDS ParsePool
=============================================================================
