------------------------ MODULE MCIndexedIntersection ------------------------
(* Model checking IndexedIntersection on the small automata, all of them    *)
(* tried as initial states of one run.                                      *)
EXTENDS IndexedIntersection, MCIntersectionInputs
=============================================================================
