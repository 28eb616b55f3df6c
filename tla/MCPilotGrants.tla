----------------------------- MODULE MCPilotGrants -----------------------------
(* Four grants for three requests: two of them compete for the first request.     *)
EXTENDS PilotGrants, TLC

CONSTANTS r1, r2, r3, a1, b1, a2, a3

MCRequestOf == a1 :> r1 @@ b1 :> r1 @@ a2 :> r2 @@ a3 :> r3
=============================================================================
