------------------------------ MODULE MCRealPilot ------------------------------
(* The real pilot for TLC: two requests, the first of which two humans authorize  *)
(* with different content, so that two grants name the same cycle.               *)
EXTENDS RealPilot, TLC

CONSTANTS c1, c2, a1, b1, a2

MCRequestOf == a1 :> c1 @@ b1 :> c1 @@ a2 :> c2

\* Processes are interchangeable, and so are the two grants for one request.
Symmetry == Permutations(Processes) \cup Permutations({a1, b1})
=============================================================================
