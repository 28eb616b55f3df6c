-------------------------- MODULE MCGeneralAutopilot --------------------------
(* The general autopilot for TLC: one run of all three rounds, with an operator  *)
(* at work on the run's state file, who prepares and checkpoints workspaces in a *)
(* process of his own, and somebody in the target's checkout.                    *)
EXTENDS GeneralAutopilot
=============================================================================
