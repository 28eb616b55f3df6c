----------------------------- MODULE MCController -----------------------------
(* The controller for TLC.  MCController_cycle.cfg follows one cycle through    *)
(* all its iterations; MCController_races.cfg lets two processes race over two   *)
(* cycles of one iteration.                                                      *)
EXTENDS Controller, TLC

\* Processes are interchangeable in the safety properties.
Symmetry == Permutations(Processes)
=============================================================================
