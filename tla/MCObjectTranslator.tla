------------------------- MODULE MCObjectTranslator -------------------------
(***************************************************************************)
(* ObjectTranslator with two threads (the application thread and a pool  *)
(* worker), two local objects and payloads of up to two flat objects.    *)
(***************************************************************************)
EXTENDS ObjectTranslator, TLC

CONSTANTS t1, t2

\* The real addresses of the endpoint's two local objects.
MCAddress == {-1, -2}

Symmetry == Permutations({t1, t2})

=============================================================================
