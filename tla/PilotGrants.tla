------------------------------ MODULE PilotGrants ------------------------------
(***************************************************************************)
(* What the real pilot promises of its authorizations: a grant is used for one  *)
(* cycle, one cycle runs at a time, a request is run at most once, and at most  *)
(* one candidate ever reaches the target branch, under the grant whose          *)
(* integration is in progress.  No process, lock, file, hold or crash is in it. *)
(***************************************************************************)
CONSTANTS Grants,       \* authorizations a human may issue
          Requests,     \* the requests they are for
          RequestOf,    \* the request a grant is for
          None

ASSUME RequestAssumption == RequestOf \in [Grants -> Requests]
ASSUME NoGrantAssumption == None \notin Grants

VARIABLES status,       \* lifecycle.status of each grant, "NONE" while not issued
          moved         \* the grant whose candidate the target branch holds, or None

grantVars == <<status, moved>>

Status == {"NONE", "ISSUED", "CLAIMED", "INTEGRATING", "CONSUMED", "CLOSED",
           "RECONCILIATION_REQUIRED"}

Unused == {"NONE", "ISSUED"}

\* A cycle under the grant may still do something.
Live == {"CLAIMED", "INTEGRATING"}

GrantInit == status = [a \in Grants |-> "NONE"] /\ moved = None

Become(a, to) == status' = [status EXCEPT ![a] = to]

Issue(a) ==
    /\ status[a] = "NONE"
    /\ Become(a, "ISSUED")
    /\ UNCHANGED moved

\* Mutant: another cycle may be under way.
ClaimBesideLive(a) ==
    /\ status[a] = "ISSUED"
    /\ \A b \in Grants : RequestOf[b] = RequestOf[a] => status[b] \in Unused
    /\ Become(a, "CLAIMED")
    /\ UNCHANGED moved

\* No other grant is live, and none for the same request was ever used.
Claim(a) ==
    /\ status[a] = "ISSUED"
    /\ \A b \in Grants : status[b] \notin Live
    /\ \A b \in Grants : RequestOf[b] = RequestOf[a] => status[b] \in Unused
    /\ Become(a, "CLAIMED")
    /\ UNCHANGED moved

\* Mutant: a late result closes a cycle whose integration is in progress.
CloseLive(a) ==
    /\ status[a] \in Live
    /\ Become(a, "CLOSED")
    /\ UNCHANGED moved

\* The cycle ends without an integration.
Close(a) ==
    /\ status[a] = "CLAIMED"
    /\ Become(a, "CLOSED")
    /\ UNCHANGED moved

Intend(a) ==
    /\ status[a] = "CLAIMED"
    /\ moved = None
    /\ Become(a, "INTEGRATING")
    /\ UNCHANGED moved

Move(a) ==
    /\ status[a] = "INTEGRATING"
    /\ moved = None
    /\ moved' = a
    /\ UNCHANGED status

Consume(a) ==
    /\ status[a] = "INTEGRATING"
    /\ moved = a
    /\ Become(a, "CONSUMED")
    /\ UNCHANGED moved

\* Also an integration that was recorded may be doubted: its record was not known to
\* be durable.
Doubt(a) ==
    /\ status[a] \in {"INTEGRATING", "CONSUMED"}
    /\ Become(a, "RECONCILIATION_REQUIRED")
    /\ UNCHANGED moved

GrantStep(a) ==
    \/ Issue(a) \/ Claim(a) \/ Close(a)
    \/ Intend(a) \/ Move(a) \/ Consume(a) \/ Doubt(a)

GrantNext == \E a \in Grants : GrantStep(a)

GrantSpec == GrantInit /\ [][GrantNext]_grantVars

-----------------------------------------------------------------------------
(* What follows from it                                                     *)

GrantTypeOK == status \in [Grants -> Status] /\ moved \in Grants \cup {None}

\* A request is run under one grant at most, however many were issued for it.
OneUsePerRequest ==
    \A a, b \in Grants :
        /\ RequestOf[a] = RequestOf[b]
        /\ status[a] \notin Unused /\ status[b] \notin Unused
        => a = b

\* One grant is live at a time.
OneLiveGrant == \A a, b \in Grants : status[a] \in Live /\ status[b] \in Live => a = b

\* A consumed grant is the one whose candidate is on the target branch: no two
\* integrations are ever reported as done.
ConsumedOnTarget == \A a \in Grants : status[a] = "CONSUMED" => moved = a

\* The target only ever holds the candidate of a grant that was integrating.
MovedUnderGrant ==
    moved # None => status[moved] \in {"INTEGRATING", "CONSUMED", "RECONCILIATION_REQUIRED"}

\* real-pilot-admission.mjs, admitRealPilotRequest: no two grants are used at once, and
\* none for a request that was run before.
GrantsUsedOnce == OneUsePerRequest /\ OneLiveGrant

\* real-local-integration.mjs, integrateRealCandidate: the target branch and the ledger agree,
\* whatever ends, is doubted or comes late: what is consumed is what the target holds,
\* and the target holds nothing that no integration recorded.
TargetUnderGrant == ConsumedOnTarget /\ MovedUnderGrant
=============================================================================
