----------------------------- MODULE MCWaitFor ------------------------------
(* Model checking of WaitFor and WalkingCache: two waits of one request, of  *)
(* which the second may walk, and one document.                              *)
EXTENDS WalkingCache

CONSTANTS w1, w2
Waits == {w1, w2}
Walkers == {{}, {w2}}
=============================================================================
