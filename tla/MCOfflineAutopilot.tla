-------------------------- MODULE MCOfflineAutopilot --------------------------
(* The offline autopilot for TLC: one run of up to two iterations, with an       *)
(* operator at work on the run's state file, who prepares and checkpoints        *)
(* workspaces in a process of his own.                                           *)
EXTENDS OfflineAutopilot
=============================================================================
