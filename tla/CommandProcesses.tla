---------------------------- MODULE CommandProcesses ----------------------------
(* What the modules about commands at work side by side have in common.           *)

CONSTANT Processes      \* command invocations, each with a terminal of its own
=============================================================================
