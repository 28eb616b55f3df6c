------------------------------- MODULE RealPilot -------------------------------
(***************************************************************************)
(* The controller of a real pilot, on a schema-3 state: a human issues          *)
(* authorizations (src/src/pilot-authorization.mjs), a request that one of      *)
(* them names is admitted (src/src/real-pilot-admission.mjs), its cycle runs as  *)
(* in module RoleCycle, and the accepted candidate is integrated by moving the  *)
(* target's ref only (src/src/real-local-integration.mjs).                      *)
(*                                                                            *)
(* state, ledger and lifecycle are the content of one file, changed together by *)
(* one mutateStateV2 call.  The target's lock file is left out: only the process *)
(* that wrote the grant's one intent gets as far as taking it, so what stands   *)
(* in its way (another controller, a stale file) is a failing alternative.       *)
(***************************************************************************)
EXTENDS LocalCheckpoint

CONSTANTS Grants,       \* authorizations a human may issue: digests of requests
          RequestOf     \* the request, and so the cycle, that a grant is for

ASSUME RequestOfAssumption == RequestOf \in [Grants -> Cycles]
ASSUME GrantsAssumption == None \notin Grants

VARIABLES ledger,       \* authorizations: the grants in the order of the file
          lifecycle,    \* lifecycle.status of each grant, "NONE" outside the ledger
          tip,          \* the grant whose candidate the target branch holds, or None
          uncertain     \* grants whose integration threw INTEGRATION_RECONCILIATION_REQUIRED

pilotVars == <<ledger, lifecycle, tip, uncertain>>

vars == <<state, workVars, pilotVars>>

PilotSteps == {"first", "issuing", "admitting", "intending", "integrating", "moved", "doubting"}

Used(a) == lifecycle[a] \notin {"NONE", "ISSUED"}

Init == /\ \E mode \in Modes : state = InitialState(mode)
        /\ NoWork
        /\ ledger = <<>>
        /\ lifecycle = [a \in Grants |-> "NONE"]
        /\ tip = None
        /\ uncertain = {}

-----------------------------------------------------------------------------
(* pilot-authorization.mjs                                                  *)

\* Neither this authorization nor another for the same request is in the ledger.
NotRecorded(a) == \A i \in DOMAIN ledger : RequestOf[ledger[i]] # RequestOf[a]

\* Prepared on the target at its baseline, confirmed by the human, and checked again,
\* all without the lock.  The state file is there or is yet to be created.
IssueBegin(p, a) ==
    /\ At(p, "idle")
    /\ NotRecorded(a)
    /\ tip = None
    /\ Begin(p, IF ledger = <<>> THEN "first" ELSE "issuing", a)
    /\ UNCHANGED <<state, clones, commits, reported, pilotVars>>

\* Mutant: a grant is appended that another process has just appended.
IssueCommitBlind(p) ==
    LET a == Subject(p)
    IN  /\ At(p, "issuing") \/ (At(p, "first") /\ ledger = <<>>)
        /\ ledger' = Append(ledger, a)
        /\ lifecycle' = [lifecycle EXCEPT ![a] = "ISSUED"]
        /\ End(p)
        /\ UNCHANGED <<state, clones, commits, reported, tip, uncertain>>

\* initializeStateV2 creates the file exclusively.  A later grant is appended to the
\* file as it is by now: only its own identifier has to be new in it.
IssueCommit(p) ==
    LET a == Subject(p)
    IN  /\ \/ At(p, "first") /\ ledger = <<>>
           \/ At(p, "issuing") /\ lifecycle[a] = "NONE"
        /\ ledger' = Append(ledger, a)
        /\ lifecycle' = [lifecycle EXCEPT ![a] = "ISSUED"]
        /\ End(p)
        /\ UNCHANGED <<state, clones, commits, reported, tip, uncertain>>

\* The file exists by now, the identifier is taken, or the lock is.
IssueFails(p) ==
    /\ At(p, "first") \/ At(p, "issuing")
    /\ End(p)
    /\ UNCHANGED <<state, clones, commits, reported, pilotVars>>

-----------------------------------------------------------------------------
(* real-pilot-admission.mjs                                                 *)

\* Mutant: any grant for the request will do.
RecordedForRequest(a) == lifecycle[a] # "NONE"

\* Array.prototype.find: the first grant for the request; the digest of any other
\* does not match.
FoundForRequest(a) ==
    \E i \in DOMAIN ledger :
        /\ ledger[i] = a
        /\ \A j \in DOMAIN ledger : RequestOf[ledger[j]] = RequestOf[a] => i <= j

\* Checked without the lock: the target is at its baseline, the grant not used, and
\* the controller idle, not held, and with nothing to reconcile.
AdmitBegin(p, a) ==
    /\ At(p, "idle")
    /\ FoundForRequest(a)
    /\ tip = None
    /\ lifecycle[a] = "ISSUED"
    /\ ~state.hold
    /\ state.active = None
    /\ \A i \in DOMAIN state.intents : state.intents[i].status = "COMPLETED"
    /\ \A i \in DOMAIN state.integrations : state.integrations[i].status = "APPLIED"
    /\ Begin(p, "admitting", a)
    /\ UNCHANGED <<state, clones, commits, reported, pilotVars>>

\* Mutant: the lifecycle is not looked at again under the lock.
MayClaimUnchecked(a) == state.active = None

\* Under the lock only the grant is looked at again; the validator refuses a second
\* active cycle.
MayClaim(a) == lifecycle[a] = "ISSUED" /\ state.active = None

AdmitCommit(p) ==
    LET a == Subject(p)
        c == RequestOf[a]
    IN  /\ At(p, "admitting")
        /\ MayClaim(a)
        /\ lifecycle' = [lifecycle EXCEPT ![a] = "CLAIMED"]
        /\ state' = Issue([state EXCEPT !.active = c], c, NewCycle(None), "ARCHITECT_PLAN")
        /\ End(p)
        /\ UNCHANGED <<clones, commits, reported, ledger, tip, uncertain>>

\* The grant was used meanwhile, another cycle is active, or the lock is taken.
AdmitFails(p) ==
    /\ At(p, "admitting")
    /\ End(p)
    /\ UNCHANGED <<state, clones, commits, reported, pilotVars>>

-----------------------------------------------------------------------------
(* The roles                                                                *)

\* Mutant: the grant of a closed cycle stays claimed.
LifecycleKept(a) == lifecycle[a]

\* The schema-3 part of finalizeTerminalCycle: the claimed grant of a cycle that ends
\* without an integration is closed with it.
LifecycleAfter(a) ==
    IF /\ Used(a)
       /\ state.finals[RequestOf[a]] = None /\ state'.finals[RequestOf[a]] # None
       /\ lifecycle[a] # "RECONCILIATION_REQUIRED"
    THEN "CLOSED"
    ELSE lifecycle[a]

Mutation(action) ==
    /\ action
    /\ lifecycle' = [a \in Grants |-> LifecycleAfter(a)]
    /\ UNCHANGED <<workVars, ledger, tip, uncertain>>

Inputs(task) ==
    [verdict : Verdicts(task.purpose), evidence : {"PASS", "FAIL"}, subject : Commits]

Finish == \E ms \in Durations : FinishRole(ms)

Submit == \E task \in state.tasks : \E r \in Inputs(task) : SubmitResult(task, r)

-----------------------------------------------------------------------------
(* real-local-integration.mjs                                               *)

\* requireApprovalEvidence.
ApprovalEvidence(c) ==
    /\ state.cycles[c].decision = "ACCEPT"
    /\ MayAccept(c)
    /\ LatestReview(c).iteration = state.cycles[c].review
    /\ LatestReview(c).reviewed = state.cycles[c].candidate

\* requireIntegrationEligibility.
Eligible(a) ==
    LET c == RequestOf[a]
    IN  /\ ~state.hold
        /\ state.active = c
        /\ \A i \in DOMAIN state.intents : state.intents[i].status = "COMPLETED"
        /\ \A i \in DOMAIN state.integrations : state.integrations[i].status = "APPLIED"
        /\ state.cycles[c].stage = "AWAITING_INTEGRATION"
        /\ lifecycle[a] = "CLAIMED"
        /\ ApprovalEvidence(c)

\* The candidate of the builder task issued last has its receipt and its workspace.
CandidateVerified(c) ==
    \E task \in state.workspaces \cap Checkpointed(state) :
        /\ task.cycle = c
        /\ task.iteration = state.cycles[c].candidate
        /\ task \in commits

\* Checked without the lock, on the target at its baseline.
IntegrateBegin(p, a) ==
    /\ At(p, "idle")
    /\ Eligible(a)
    /\ tip = None
    /\ CandidateVerified(RequestOf[a])
    /\ Begin(p, "intending", a)
    /\ UNCHANGED <<state, clones, commits, reported, pilotVars>>

\* The intent, written when everything checked still holds under the lock.  It raises
\* no hold.
IntegrateIntent(p) ==
    LET a == Subject(p)
    IN  /\ At(p, "intending")
        /\ Eligible(a)
        /\ tip = None
        /\ state' = [state EXCEPT !.integrations =
                        Append(@, [cycle |-> RequestOf[a], status |-> "PREPARED"])]
        /\ lifecycle' = [lifecycle EXCEPT ![a] = "INTEGRATING"]
        /\ job' \in {[job EXCEPT ![p].step = "integrating"], [job EXCEPT ![p] = Idle]}
        /\ UNCHANGED <<clones, commits, reported, ledger, tip, uncertain>>

\* A check fails now, or mutateStateV2 throws before its change is visible.
IntegrateIntentFails(p) ==
    /\ At(p, "intending")
    /\ End(p)
    /\ UNCHANGED <<state, clones, commits, reported, pilotVars>>

\* The intent of the grant: its identifier is that of the authorization.
IntentIndex(a) == CHOOSE i \in DOMAIN state.integrations :
    state.integrations[i].cycle = RequestOf[a]

\* Mutant: a hold that came up after the intent is not looked at.
StillIntegratingHeld(a) ==
    /\ state.integrations[IntentIndex(a)].status = "PREPARED"
    /\ lifecycle[a] = "INTEGRATING"
    /\ ApprovalEvidence(RequestOf[a])

\* The intent is still the one written, and nobody raised a hold.
StillIntegrating(a) ==
    /\ ~state.hold
    /\ state.integrations[IntentIndex(a)].status = "PREPARED"
    /\ lifecycle[a] = "INTEGRATING"
    /\ ApprovalEvidence(RequestOf[a])

\* Under both locks the state and the target are checked once more, and the ref is
\* moved with a compare-and-swap.
MoveRef(p) ==
    LET a == Subject(p)
    IN  /\ At(p, "integrating")
        /\ StillIntegrating(a)
        /\ tip = None
        /\ tip' = a
        /\ Goto(p, "moved")
        /\ UNCHANGED <<state, clones, commits, reported, ledger, lifecycle, uncertain>>

\* The target's lock, the fetch, a lock of the state or a check fails.
MoveRefFails(p) ==
    /\ At(p, "integrating")
    /\ Goto(p, "doubting")
    /\ UNCHANGED <<state, clones, commits, reported, pilotVars>>

\* The final mutation: the intent is applied, the grant consumed, the cycle closed.
\* When it throws after its change is visible, the catch block follows.
IntegrateComplete(p) ==
    LET a == Subject(p)
        c == RequestOf[a]
    IN  /\ At(p, "moved")
        /\ StillIntegrating(a)
        /\ state' = FinalizeTerminalCycle(
                        [state EXCEPT !.integrations[IntentIndex(a)].status = "APPLIED",
                                      !.outcomes = Append(@, [cycle |-> c, status |-> "INTEGRATED"])],
                        c, state.cycles[c], "ACCEPTED", "COMPLETE", "INTEGRATED", FALSE)
        /\ lifecycle' = [lifecycle EXCEPT ![a] = "CONSUMED"]
        /\ job' \in {[job EXCEPT ![p] = Idle], [job EXCEPT ![p].step = "doubting"]}
        /\ UNCHANGED <<clones, commits, reported, ledger, tip, uncertain>>

\* The checkout is not what was left, a hold came up, or mutateStateV2 throws before
\* its change is visible.
IntegrateCompleteFails(p) ==
    /\ At(p, "moved")
    /\ Goto(p, "doubting")
    /\ UNCHANGED <<state, clones, commits, reported, pilotVars>>

\* reconcile: an outcome is added only when there is none.
Reconciled(a) ==
    LET c == RequestOf[a]
        outcome == [cycle |-> c, status |-> "INTEGRATION_RECONCILIATION_REQUIRED"]
    IN  [state EXCEPT
            !.hold = TRUE,
            !.integrations[IntentIndex(a)].status = "RECONCILIATION_REQUIRED",
            !.outcomes = IF \E i \in DOMAIN @ : @[i].cycle = c THEN @ ELSE Append(@, outcome)]

Reconcile(p) ==
    /\ At(p, "doubting")
    /\ state' = Reconciled(Subject(p))
    /\ lifecycle' = [lifecycle EXCEPT ![Subject(p)] = "RECONCILIATION_REQUIRED"]
    /\ uncertain' = uncertain \cup {Subject(p)}
    /\ End(p)
    /\ UNCHANGED <<clones, commits, reported, ledger, tip>>

\* The mutation of reconcile throws (the state lock is taken): the error is swallowed.
ReconcileSwallowed(p) ==
    /\ At(p, "doubting")
    /\ uncertain' = uncertain \cup {Subject(p)}
    /\ End(p)
    /\ UNCHANGED <<state, clones, commits, reported, ledger, lifecycle, tip>>

-----------------------------------------------------------------------------

\* The next step of a process's own code.
Proceed(p) ==
    \/ Work(p) /\ UNCHANGED pilotVars
    \/ IssueCommit(p) \/ IssueFails(p)
    \/ AdmitCommit(p) \/ AdmitFails(p)
    \/ IntegrateIntent(p) \/ IntegrateIntentFails(p)
    \/ MoveRef(p) \/ MoveRefFails(p)
    \/ IntegrateComplete(p) \/ IntegrateCompleteFails(p)
    \/ Reconcile(p) \/ ReconcileSwallowed(p)

Next ==
    \/ Mutation(StartRole) \/ Mutation(Finish) \/ Mutation(Submit)
    \/ \E p \in Processes :
         \/ StartWork(p) /\ UNCHANGED pilotVars
         \/ \E a \in Grants : IssueBegin(p, a) \/ AdmitBegin(p, a) \/ IntegrateBegin(p, a)
         \/ Proceed(p)
         \/ Crash(p) /\ UNCHANGED pilotVars

Spec == Init /\ [][Next]_vars

-----------------------------------------------------------------------------
(* Properties                                                               *)

\* Every variable has its type.
TypeOK ==
    /\ state \in State
    /\ job \in [Processes -> [step : {"idle"} \cup PrepareSteps \cup CheckpointSteps \cup PilotSteps,
                              subject : Task \cup Grants \cup {None}]]
    /\ clones \subseteq Task /\ commits \subseteq Task /\ reported \subseteq Task
    /\ IsInjective(ledger) /\ Range(ledger) \subseteq Grants
    /\ lifecycle \in [Grants -> {"NONE", "ISSUED", "CLAIMED", "INTEGRATING", "CONSUMED", "CLOSED",
                                 "RECONCILIATION_REQUIRED"}]
    /\ tip \in Grants \cup {None}
    /\ uncertain \subseteq Grants

\* The grants behave as module PilotGrants promises: used once, for a request that was
\* not run before, one at a time, and the target moves once, under an integrating one.
Promise == INSTANCE PilotGrants WITH Requests <- Cycles, status <- lifecycle, moved <- tip

ImplementsGrants == Promise!GrantSpec

\* The lifecycle of a grant and the cycle it was claimed for tell the same story: a
\* cycle under way has a live or doubted grant, one that ended without an integration
\* a closed one, and one closed as integrated has its candidate on the target branch.
GrantTellsCycle ==
    \A a \in Grants :
        LET c == RequestOf[a]
        IN  /\ lifecycle[a] \in {"CLAIMED", "INTEGRATING"} => state.active = c
            /\ lifecycle[a] = "CLOSED" =>
                 state.finals[c] # None /\ state.finals[c].reason # "INTEGRATED"
            /\ lifecycle[a] = "CONSUMED" =>
                 tip = a /\ state.finals[c] # None /\ state.finals[c].reason = "INTEGRATED"

\* An integration in doubt whose cycle is not closed keeps the controller held: no
\* checkpoint command that was under way lowers that hold.  (One that was doubted
\* after its record became visible may lose its hold: a late admission runs on.)
DoubtHolds ==
    \A a \in Grants :
        /\ lifecycle[a] = "RECONCILIATION_REQUIRED"
        /\ state.finals[RequestOf[a]] = None
        => state.hold

\* A hold that comes up anywhere between the intent and the final record (a checkpoint
\* command that was under way raises one) stops the integration: the ref is not moved
\* and no grant consumed under it.
HoldStopsIntegration ==
    [][(tip' # tip \/ \E a \in Grants : lifecycle[a] # "CONSUMED" /\ lifecycle'[a] = "CONSUMED")
         => ~state.hold]_vars

\* README.md: "Human holds remain durable and block new cycle admission."
AdmissionUnheld ==
    [][\A a \in Grants : lifecycle[a] = "ISSUED" /\ lifecycle'[a] = "CLAIMED" => ~state.hold]_vars

\* docs/activation-gate-plan.md: "Any uncertainty after durable intent creates a
\* reconciliation hold."  An integration that reported uncertainty left one.
UncertainIntegrationHolds == uncertain # {} => state.hold
=============================================================================
