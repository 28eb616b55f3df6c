-------------------------- MODULE FixtureIntegration --------------------------
(***************************************************************************)
(* integrateFixtureCandidate of src/src/local-integration.mjs: the accepted     *)
(* candidate of a rehearsal cycle becomes the tip of the fixture's target       *)
(* branch.  The command checks the state and the target without a lock, writes  *)
(* an intent, takes a lock file in the target's git directory, moves the ref    *)
(* with a compare-and-swap, verifies the checkout and closes the cycle.         *)
(***************************************************************************)
EXTENDS LocalCheckpoint

VARIABLES tip,          \* whose candidate the target branch holds; None at first
          targetLock,   \* gov002-integration.lock: None, a process, or "stale"
          advanced      \* the cycles whose update-ref succeeded, in that order

targetVars == <<tip, targetLock, advanced>>

IntegrationSteps == {"preparing", "prepared", "fetched", "advanced", "recovering"}

ASSUME ProcessAssumption == None \notin Processes /\ "stale" \notin Processes

NoTarget == tip = None /\ targetLock = None /\ advanced = <<>>

\* requireApproved: the architect accepted, on a passing review of this candidate.
Approved(c) ==
    LET cycle == state.cycles[c]
    IN  /\ cycle.decision = "ACCEPT"
        /\ MayAccept(c)
        /\ LatestReview(c).iteration = cycle.review
        /\ LatestReview(c).reviewed = cycle.candidate

\* The builder task that was issued last.
LastBuild(c) == CHOOSE task \in state.tasks :
    /\ task.cycle = c /\ task.purpose = "BUILDER_IMPLEMENTATION"
    /\ \A t \in state.tasks : t.cycle = c /\ t.purpose = task.purpose => t.iteration <= task.iteration

IntegrationBegin(p, c) ==
    /\ At(p, "idle")
    /\ state.mode = "SIMULATED"
    /\ state.cycles[c] # None
    /\ \A i \in DOMAIN state.integrations : state.integrations[i].cycle # c
    /\ ~state.hold
    /\ Approved(c)
    /\ LastBuild(c) \in state.workspaces \cap Checkpointed(state)
    /\ LastBuild(c).iteration = state.cycles[c].candidate
    /\ tip = state.cycles[c].target
    /\ Begin(p, "preparing", c)
    /\ UNCHANGED <<state, clones, commits, reported, tip, targetLock, advanced>>

\* Mutant: the intent does not raise the hold.
PreparedWithoutHold(c) ==
    [state EXCEPT !.integrations = Append(@, [cycle |-> c, status |-> "PREPARED"])]

Prepared(c) == [state EXCEPT !.integrations = Append(@, [cycle |-> c, status |-> "PREPARED"]),
                             !.hold = TRUE]

\* The intent and the hold are written, on whatever state there is now.
IntegrationIntent(p) ==
    /\ At(p, "preparing")
    /\ state' = Prepared(Subject(p))
    /\ Goto(p, "prepared")
    /\ UNCHANGED <<clones, commits, reported, tip, targetLock, advanced>>

\* mutateStateV2 throws, without or with the intent in the visible state.
IntegrationIntentFails(p) ==
    /\ At(p, "preparing")
    /\ state' \in {state, Prepared(Subject(p))}
    /\ End(p)
    /\ UNCHANGED <<clones, commits, reported, tip, targetLock, advanced>>

\* The target's lock, then the candidate is fetched and its ancestry and scope
\* checked.
LockTarget(p) ==
    /\ At(p, "prepared")
    /\ targetLock = None
    /\ targetLock' = p
    /\ Goto(p, "fetched")
    /\ UNCHANGED <<state, clones, commits, reported, tip, advanced>>

\* TARGET_EXCLUSIVE_WRITER_UNAVAILABLE, outside the try block: the intent stays
\* PREPARED and the hold stays up.
LockTargetFails(p) ==
    /\ At(p, "prepared")
    /\ targetLock # None
    /\ End(p)
    /\ UNCHANGED <<state, clones, commits, reported, tip, targetLock, advanced>>

\* Mutant: update-ref without the old value.
UpdateRefForced(p) ==
    /\ At(p, "fetched")
    /\ tip' = Subject(p)
    /\ advanced' = Append(advanced, Subject(p))
    /\ Goto(p, "advanced")
    /\ UNCHANGED <<state, clones, commits, reported, targetLock>>

\* update-ref with the old value: only the expected tip is replaced.
UpdateRef(p) ==
    /\ At(p, "fetched")
    /\ tip = state.cycles[Subject(p)].target
    /\ tip' = Subject(p)
    /\ advanced' = Append(advanced, Subject(p))
    /\ Goto(p, "advanced")
    /\ UNCHANGED <<state, clones, commits, reported, targetLock>>

\* The fetch, a check or the compare-and-swap fails.
UpdateRefFails(p) ==
    /\ At(p, "fetched")
    /\ Goto(p, "recovering")
    /\ UNCHANGED <<state, clones, commits, reported, tip, targetLock, advanced>>

\* Array.prototype.find: the first intent of the cycle.
FirstIntegration(s, c) ==
    CHOOSE i \in DOMAIN s.integrations :
        /\ s.integrations[i].cycle = c
        /\ \A j \in DOMAIN s.integrations : s.integrations[j].cycle = c => i <= j

\* The outcome and the terminal cycle; the only mutation that closes a cycle with
\* the hold lowered.
Integrated(c) ==
    FinalizeTerminalCycle(
        [state EXCEPT !.integrations[FirstIntegration(state, c)].status = "APPLIED",
                      !.outcomes = Append(@, [cycle |-> c, status |-> "INTEGRATED"])],
        c, state.cycles[c], "ACCEPTED", "COMPLETE", "INTEGRATED", FALSE)

ReleaseTarget(p) == targetLock' = IF targetLock = p THEN None ELSE targetLock

\* The checkout is updated and verified, the cycle closed and the lock released.
IntegrationComplete(p) ==
    /\ At(p, "advanced")
    /\ state' = Integrated(Subject(p))
    /\ ReleaseTarget(p)
    /\ End(p)
    /\ UNCHANGED <<clones, commits, reported, tip, advanced>>

\* The checkout cannot be updated or verified, or mutateStateV2 throws before or
\* after its change is visible.
IntegrationCompleteFails(p) ==
    /\ At(p, "advanced")
    /\ state' \in {state, Integrated(Subject(p))}
    /\ Goto(p, "recovering")
    /\ UNCHANGED <<clones, commits, reported, tip, targetLock, advanced>>

\* Mutant: the catch block lets the cycle await its integration again.
IntegrationUncertainReopens(p) ==
    /\ At(p, "recovering")
    /\ state' = [state EXCEPT !.hold = TRUE,
                              !.cycles[Subject(p)].status = "REVIEW",
                              !.cycles[Subject(p)].stage = "AWAITING_INTEGRATION"]
    /\ ReleaseTarget(p)
    /\ End(p)
    /\ UNCHANGED <<clones, commits, reported, tip, advanced>>

\* The catch block: the first intent of the cycle, whatever its status, and one
\* more outcome.
IntegrationUncertain(p) ==
    /\ At(p, "recovering")
    /\ LET c == Subject(p)
       IN  state' = [state EXCEPT
                       !.hold = TRUE,
                       !.integrations[FirstIntegration(state, c)].status = "RECONCILIATION_REQUIRED",
                       !.outcomes = Append(@, [cycle |-> c,
                                               status |-> "INTEGRATION_RECONCILIATION_REQUIRED"])]
    /\ ReleaseTarget(p)
    /\ End(p)
    /\ UNCHANGED <<clones, commits, reported, tip, advanced>>

\* The mutation of the catch block fails as well.
IntegrationUncertainSwallowed(p) ==
    /\ At(p, "recovering")
    /\ ReleaseTarget(p)
    /\ End(p)
    /\ UNCHANGED <<state, clones, commits, reported, tip, advanced>>

\* The process is killed: the target's lock file stays, and nothing removes it.
CrashIntegrating(p) ==
    /\ Crash(p)
    /\ targetLock' = IF targetLock = p THEN "stale" ELSE targetLock
    /\ UNCHANGED <<tip, advanced>>

Integrate(p) ==
    \/ IntegrationIntent(p) \/ IntegrationIntentFails(p)
    \/ LockTarget(p) \/ LockTargetFails(p)
    \/ UpdateRef(p) \/ UpdateRefFails(p)
    \/ IntegrationComplete(p) \/ IntegrationCompleteFails(p)
    \/ IntegrationUncertain(p) \/ IntegrationUncertainSwallowed(p)
=============================================================================
