------------------------------- MODULE RoleCycle -------------------------------
(***************************************************************************)
(* The controller's version-2 state and the operations that move a cycle       *)
(* through its roles: enqueueRequest and finalizeTerminalCycle of              *)
(* src/src/coordinator.mjs, src/src/role-timing.mjs,                           *)
(* src/src/result-submission.mjs and terminateCycle of                         *)
(* src/src/general-autopilot.mjs.                                              *)
(*                                                                            *)
(* Each operation is one mutateStateV2 call, atomic by module StateStore: an    *)
(* action's guard is what the mutator does not throw on, and a call that throws *)
(* or replays an accepted result changes nothing and is no action.  What is     *)
(* written also passes validateMachineStateV2: the relations it demands are the *)
(* invariant ValidState, so no action needs them in its guard.                  *)
(***************************************************************************)
EXTENDS Naturals, Sequences, Functions

CONSTANTS Cycles,       \* the requests that may be enqueued, one cycle each
          None,         \* null
          Modes,        \* evidence modes a controller may be created in
          Durations,    \* active times a role may take
          RoleLimit,    \* PHASE2.maxExecutionSeconds
          CycleLimit,   \* PHASE2.maxCycleExecutionSeconds
          MaxIterations \* PHASE2.maxIterations

ASSUME ModeAssumption ==
    Modes \subseteq {"SIMULATED", "HUMAN_ASSISTED", "OFFLINE_FIXTURE", "GENERAL_AUTOPILOT"}
ASSUME TimeAssumption == Durations \subseteq Nat /\ RoleLimit \in Nat /\ CycleLimit \in Nat
ASSUME IterationAssumption == MaxIterations \in Nat \ {0}
ASSUME NoneAssumption == None \notin Cycles

Purposes == {"ARCHITECT_PLAN", "BUILDER_IMPLEMENTATION", "ANALYST_REVIEW",
             "ARCHITECT_REVISION", "ARCHITECT_FINAL_DECISION"}

\* A task identifier: cycle, purpose, iteration and plan revision.
Task == [cycle : Cycles, purpose : Purposes,
         iteration : 1 .. MaxIterations, planRevision : 1 .. MaxIterations]

ASSUME NoTaskAssumption == None \notin Task

\* Commits of a cycle: 0 is the baseline, i the candidate of iteration i.
Commits == 0 .. MaxIterations

Terminal == {"ACCEPTED", "REJECTED", "ESCALATED", "HALTED"}

Statuses == {"AWAITING_HUMAN_ROLE", "REVIEW"} \cup Terminal

Stages == Purposes \cup {"AWAITING_INTEGRATION", "READY_FOR_INTEGRATION", "COMPLETE",
                         "BLOCKED", "DISPOSITION", "FAILED"}

\* What a role result says, by purpose.  PASS stands for PASS_WITH_RECOMMENDATIONS
\* too, and REJECT of an analyst for HUMAN_REVIEW_REQUIRED: no test tells them apart.
Verdicts(purpose) ==
    {"BLOCKED"} \cup
    CASE purpose \in {"ARCHITECT_PLAN", "ARCHITECT_REVISION"} -> {"PLANNED"}
      [] purpose = "BUILDER_IMPLEMENTATION" -> {"BUILT"}
      [] purpose = "ANALYST_REVIEW" -> {"PASS", "REVISE", "REJECT"}
      [] purpose = "ARCHITECT_FINAL_DECISION" -> {"ACCEPT", "REVISE", "REJECT", "HUMAN_REVIEW"}

AllVerdicts == UNION {Verdicts(p) : p \in Purposes}

\* A result: its verdict, the outcome of its validation entries, and the commit
\* (for a final decision, the review, named by its iteration) that it is about.
Result == [verdict : AllVerdicts, evidence : {"PASS", "FAIL"}, subject : Commits]

Cycle == [status : Statuses, stage : Stages,
          iteration : 1 .. MaxIterations, planRevision : 1 .. MaxIterations,
          target : Cycles \cup {None},  \* baselineCommit: whose candidate the target branch held
          base : Commits,        \* iterationBaseCommit
          candidate : Commits,   \* candidateCommit, 0 while null
          review : Commits,      \* analystResultDigest: the iteration of that review
          decision : {"NONE", "ACCEPT", "REVISE", "REJECT", "HUMAN_REVIEW"}]

\* The timing record of the pending task; spent sums those of earlier ones.
Timing == [status : {"NONE", "EXECUTING", "COMPLETED", "INTERRUPTED"}, active : Nat]

NoTiming == [status |-> "NONE", active |-> 0]

Iteration == [cycle : Cycles, index : 1 .. MaxIterations, planRevision : 1 .. MaxIterations,
              candidate : Commits, verdict : AllVerdicts \cup {"NONE"}]

Review == [iteration : 1 .. MaxIterations, reviewed : Commits, verdict : AllVerdicts,
           evidence : {"PASS", "FAIL"}]

Final == [terminal : Terminal, reason : AllVerdicts \cup {"INTEGRATED", "FAIL_CLOSED"}]

ASSUME NoCycleAssumption == None \notin Cycle /\ None \notin Final

VARIABLE state      \* the content of the state file

\* The parts of the state file.
State == [mode : Modes,
          active : Cycles \cup {None},
          hold : BOOLEAN,
          cycles : [Cycles -> Cycle \cup {None}],
          plans : [Cycles -> SUBSET (1 .. MaxIterations)],
          tasks : SUBSET Task,
          pending : Task \cup {None},
          timing : Timing,
          spent : [Cycles -> Nat],
          results : SUBSET [task : Task, verdict : AllVerdicts, active : Nat],
          iterations : SUBSET Iteration,
          reviews : [Cycles -> Seq(Review)],
          finals : [Cycles -> Final \cup {None}],
          workspaces : SUBSET Task,
          intents : Seq([task : Task, status : {"PREPARED", "COMPLETED", "RECONCILIATION_REQUIRED"}]),
          checkpoints : Seq(Task),
          integrations : Seq([cycle : Cycles, status : {"PREPARED", "APPLIED", "RECONCILIATION_REQUIRED"}]),
          outcomes : Seq([cycle : Cycles, status : {"INTEGRATED", "INTEGRATION_RECONCILIATION_REQUIRED"}])]

InitialState(mode) ==
    [mode |-> mode, active |-> None, hold |-> FALSE,
     cycles |-> [c \in Cycles |-> None], plans |-> [c \in Cycles |-> {}],
     tasks |-> {}, pending |-> None, timing |-> NoTiming, spent |-> [c \in Cycles |-> 0],
     results |-> {}, iterations |-> {}, reviews |-> [c \in Cycles |-> <<>>],
     finals |-> [c \in Cycles |-> None], workspaces |-> {}, intents |-> <<>>,
     checkpoints |-> <<>>, integrations |-> <<>>, outcomes |-> <<>>]

General == state.mode = "GENERAL_AUTOPILOT"

\* The builder tasks that have a checkpoint receipt.
Checkpointed(s) == Range(s.checkpoints)

-----------------------------------------------------------------------------
(* coordinator.mjs                                                          *)

\* Issue the cycle's next task: it becomes the pending one, not yet started.
Issue(s, c, cycle, purpose) ==
    LET task == [cycle |-> c, purpose |-> purpose,
                 iteration |-> cycle.iteration, planRevision |-> cycle.planRevision]
    IN  [s EXCEPT !.cycles[c] = [cycle EXCEPT !.stage = purpose, !.status = "AWAITING_HUMAN_ROLE"],
                  !.tasks = @ \cup {task},
                  !.pending = task,
                  !.timing = NoTiming]

\* Mutant: the cycle is closed and stays the active one.
FinalizeKeepingActive(s, c, cycle, status, stage, reason, hold) ==
    IF s.finals[c] # None
    THEN s
    ELSE [s EXCEPT !.cycles[c] = [cycle EXCEPT !.status = status, !.stage = stage],
                   !.pending = None, !.timing = NoTiming, !.hold = hold,
                   !.finals[c] = [terminal |-> status, reason |-> reason]]

\* Mutant: a cycle that an earlier summary reported on is closed without a new one.
FinalizeUnlessReviewed(s, c, cycle, status, stage, reason, hold) ==
    [s EXCEPT !.cycles[c] = [cycle EXCEPT !.status = status, !.stage = stage],
              !.active = None, !.pending = None, !.timing = NoTiming, !.hold = hold,
              !.finals[c] = IF s.reviews[c] # <<>> THEN @
                            ELSE [terminal |-> status, reason |-> reason]]

\* Close a cycle with its one final summary; a cycle that has one is left alone.
FinalizeTerminalCycle(s, c, cycle, status, stage, reason, hold) ==
    IF s.finals[c] # None
    THEN s
    ELSE [s EXCEPT !.cycles[c] = [cycle EXCEPT !.status = status, !.stage = stage],
                   !.active = None,
                   !.pending = None,
                   !.timing = NoTiming,
                   !.hold = hold,
                   !.finals[c] = [terminal |-> status, reason |-> reason]]

NewCycle(tip) ==
    [status |-> "AWAITING_HUMAN_ROLE", stage |-> "ARCHITECT_PLAN",
     iteration |-> 1, planRevision |-> 1, target |-> tip, base |-> 0, candidate |-> 0,
     review |-> 0, decision |-> "NONE"]

\* The request names the commit of the target branch it starts from.
EnqueueRequest(c, tip) ==
    /\ state.active = None
    /\ ~state.hold
    /\ state.cycles[c] = None
    /\ state' = Issue([state EXCEPT !.active = c], c, NewCycle(tip), "ARCHITECT_PLAN")

-----------------------------------------------------------------------------
(* role-timing.mjs                                                          *)

\* A hold stops every role but the architect's final decision.
HoldAllows == state.hold => state.pending.purpose = "ARCHITECT_FINAL_DECISION"

StartRole ==
    /\ state.pending # None
    /\ HoldAllows
    /\ state.timing.status = "NONE"
    /\ state' = [state EXCEPT !.timing.status = "EXECUTING"]

\* The role ends; its time counts, and a time over a limit raises the hold.
Timed(status, ms) ==
    LET c == state.pending.cycle
        total == state.spent[c] + ms
    IN  [state EXCEPT !.timing = [status |-> status, active |-> ms],
                      !.spent[c] = total,
                      !.hold = @ \/ ms > RoleLimit \/ total > CycleLimit]

FinishRole(ms) ==
    /\ state.pending # None
    /\ HoldAllows
    /\ state.timing.status = "EXECUTING"
    /\ state' = Timed("COMPLETED", ms)

\* An interruption is recorded even under a hold.
InterruptRole(ms) ==
    /\ state.pending # None
    /\ state.timing.status = "EXECUTING"
    /\ state' = Timed("INTERRUPTED", ms)

-----------------------------------------------------------------------------
(* result-submission.mjs                                                    *)

\* Mutant: a held controller takes nothing but the architect's disposition.
DispositionByArchitect(task, r) ==
    task.purpose = "ARCHITECT_FINAL_DECISION" /\ r.verdict # "ACCEPT"

\* Results that close a cycle without accepting anything; they pass a hold.
Disposition(task, r) ==
    \/ r.verdict = "BLOCKED"
    \/ task.purpose = "ARCHITECT_FINAL_DECISION" /\ r.verdict # "ACCEPT"

\* Mutant: the hold alone stops a late result.
TimingAllowsLate(task, r) == state.timing.status = "COMPLETED"

\* assertSubmissionTiming: only BLOCKED may come after a limit was exceeded.
TimingAllows(task, r) ==
    /\ state.timing.status = "COMPLETED"
    /\ r.verdict # "BLOCKED" => /\ state.timing.active <= RoleLimit
                                /\ state.spent[task.cycle] <= CycleLimit

\* validateRequiredValidationEvidence: a checkpointed candidate was validated, and
\* every entry passed where all have to.
EvidenceAllows(task, r) ==
    /\ task.purpose = "BUILDER_IMPLEMENTATION" =>
         task \in Checkpointed(state) /\ (r.evidence = "PASS" \/ state.mode = "OFFLINE_FIXTURE")
    /\ task.purpose = "ANALYST_REVIEW" => (r.evidence = "PASS" \/ (r.verdict # "PASS" /\ ~General))

\* What every accepted result has to pass, before its purpose is looked at.
Acceptable(task, r) ==
    /\ task # None
    /\ task = state.pending
    /\ r.verdict \in Verdicts(task.purpose)
    /\ state.hold => Disposition(task, r)
    /\ TimingAllows(task, r)
    /\ r.verdict # "BLOCKED" => EvidenceAllows(task, r)

\* The state with the result and its receipt recorded and no task pending.
Recorded(task, r) ==
    [state EXCEPT !.results = @ \cup {[task |-> task, verdict |-> r.verdict,
                                         active |-> state.timing.active]},
                  !.pending = None,
                  !.timing = NoTiming]

SubmitBlocked(task, r) ==
    /\ Acceptable(task, r)
    /\ r.verdict = "BLOCKED"
    /\ LET c == task.cycle
       IN  state' = FinalizeTerminalCycle(Recorded(task, r), c, state.cycles[c],
                                          "HALTED", "BLOCKED", "BLOCKED", TRUE)

SubmitPlan(task, r) ==
    /\ Acceptable(task, r)
    /\ task.purpose = "ARCHITECT_PLAN" /\ r.verdict = "PLANNED"
    /\ LET c == task.cycle
           planned == [Recorded(task, r) EXCEPT !.plans[c] = @ \cup {task.planRevision}]
       IN  state' = Issue(planned, c, state.cycles[c], "BUILDER_IMPLEMENTATION")

\* Mutant: the next iteration starts from the commit this one started from.
NextIterationSameBase(cycle) == [cycle EXCEPT !.iteration = @ + 1]

\* The next iteration builds on this one's candidate.
NextIteration(cycle) == [cycle EXCEPT !.iteration = @ + 1, !.base = cycle.candidate]

SubmitRevision(task, r) ==
    /\ Acceptable(task, r)
    /\ task.purpose = "ARCHITECT_REVISION" /\ r.verdict = "PLANNED"
    /\ state.cycles[task.cycle].iteration < MaxIterations
    /\ LET c == task.cycle
           planned == [Recorded(task, r) EXCEPT !.plans[c] = @ \cup {task.planRevision}]
       IN  state' = Issue(planned, c, NextIteration(state.cycles[c]), "BUILDER_IMPLEMENTATION")

SubmitBuild(task, r) ==
    /\ Acceptable(task, r)
    /\ task.purpose = "BUILDER_IMPLEMENTATION" /\ r.verdict = "BUILT"
    /\ task \in Checkpointed(state)
    /\ r.subject = task.iteration
    /\ LET c == task.cycle
           cycle == [state.cycles[c] EXCEPT !.candidate = task.iteration]
           record == [cycle |-> c, index |-> cycle.iteration, planRevision |-> cycle.planRevision,
                      candidate |-> task.iteration, verdict |-> "NONE"]
           built == [Recorded(task, r) EXCEPT !.iterations = @ \cup {record}]
       IN  state' = Issue(built, c, cycle, "ANALYST_REVIEW")

\* Mutant: any commit may have been reviewed.
ReviewedIterationOfAnyCommit(task, r) ==
    {record \in state.iterations : /\ record.cycle = task.cycle
                                   /\ record.index = state.cycles[task.cycle].iteration}

\* The cycle's current iteration, when the review is of its candidate.
ReviewedIteration(task, r) ==
    {record \in state.iterations : /\ record.cycle = task.cycle
                                   /\ record.index = state.cycles[task.cycle].iteration
                                   /\ record.candidate = r.subject}

\* Mutant: revisions without end.
MayIterateForever(cycle, r) == r.verdict = "REVISE"

MayIterate(cycle, r) == r.verdict = "REVISE" /\ cycle.iteration < MaxIterations

\* The review, its iteration summary and its notification event are recorded with
\* the next task: another iteration, or the final decision, under a hold unless the
\* analyst passed the candidate.
SubmitReview(task, r) ==
    /\ Acceptable(task, r)
    /\ task.purpose = "ANALYST_REVIEW" /\ r.verdict # "BLOCKED"
    /\ \E record \in ReviewedIteration(task, r) :
         LET c == task.cycle
             cycle == [state.cycles[c] EXCEPT !.review = task.iteration]
             review == [iteration |-> task.iteration, reviewed |-> r.subject,
                        verdict |-> r.verdict, evidence |-> r.evidence]
             reviewed == [Recorded(task, r) EXCEPT
                            !.iterations = (@ \ {record}) \cup {[record EXCEPT !.verdict = r.verdict]},
                            !.reviews[c] = Append(@, review)]
         IN  \/ /\ MayIterate(cycle, r) /\ General
                /\ state' = Issue(reviewed, c, NextIteration(cycle), "BUILDER_IMPLEMENTATION")
             \/ /\ MayIterate(cycle, r) /\ ~General
                /\ state' = Issue(reviewed, c, [cycle EXCEPT !.planRevision = @ + 1],
                                  "ARCHITECT_REVISION")
             \/ /\ ~MayIterate(cycle, r)
                /\ state' = Issue([reviewed EXCEPT !.hold = @ \/ r.verdict # "PASS"], c, cycle,
                                  "ARCHITECT_FINAL_DECISION")

LatestReview(c) == state.reviews[c][Len(state.reviews[c])]

\* ACCEPT needs the latest review to be a validated PASS.
MayAccept(c) ==
    /\ state.reviews[c] # <<>>
    /\ LatestReview(c).verdict = "PASS"
    /\ LatestReview(c).evidence = "PASS"

SubmitDecision(task, r) ==
    /\ Acceptable(task, r)
    /\ task.purpose = "ARCHITECT_FINAL_DECISION" /\ r.verdict # "BLOCKED"
    /\ r.subject = state.cycles[task.cycle].review
    /\ r.verdict = "ACCEPT" => MayAccept(task.cycle)
    /\ LET c == task.cycle
           cycle == [state.cycles[c] EXCEPT !.decision = r.verdict]
           closed == CASE r.verdict = "REJECT" -> "REJECTED"
                       [] r.verdict = "HUMAN_REVIEW" -> "ESCALATED"
                       [] OTHER -> "HALTED"
       IN  state' =
             IF r.verdict # "ACCEPT"
             THEN FinalizeTerminalCycle(Recorded(task, r), c, cycle, closed, "DISPOSITION",
                                        r.verdict, TRUE)
             ELSE IF General
             THEN FinalizeTerminalCycle(Recorded(task, r), c, cycle, "ACCEPTED",
                                        "READY_FOR_INTEGRATION", "ACCEPT", TRUE)
             ELSE [Recorded(task, r) EXCEPT
                     !.cycles[c] = [cycle EXCEPT !.status = "REVIEW", !.stage = "AWAITING_INTEGRATION"]]

SubmitResult(task, r) ==
    \/ SubmitBlocked(task, r)
    \/ SubmitPlan(task, r) \/ SubmitRevision(task, r)
    \/ SubmitBuild(task, r)
    \/ SubmitReview(task, r)
    \/ SubmitDecision(task, r)

-----------------------------------------------------------------------------
(* general-autopilot.mjs                                                    *)

\* terminateCycle: the general run fails or reaches a deadline, and closes its cycle
\* wherever it is; FAILED stands for LIMIT_EXCEEDED too.
TerminateCycle(ms) ==
    /\ General
    /\ state.pending # None
    /\ LET c == state.pending.cycle
           timed == IF state.timing.status = "EXECUTING"
                    THEN [state EXCEPT !.spent[c] = @ + ms] ELSE state
       IN  state' = FinalizeTerminalCycle(timed, c, state.cycles[c], "HALTED", "FAILED",
                                          "FAIL_CLOSED", TRUE)

-----------------------------------------------------------------------------
(* What every state satisfies                                               *)

\* The relations between records that validateMachineStateV2 demands.
ValidState ==
    /\ \A c \in Cycles :
         state.active = c <=> state.cycles[c] # None /\ state.cycles[c].status \notin Terminal
    /\ state.pending # None =>
         state.pending \in state.tasks /\ \A res \in state.results : res.task # state.pending
    /\ \A res \in state.results : res.task \in state.tasks
    /\ \A r1, r2 \in state.results : r1.task = r2.task => r1 = r2
    /\ state.workspaces \subseteq state.tasks
    /\ \A c \in Cycles : \A i, j \in DOMAIN state.reviews[c] :
         i # j => state.reviews[c][i].iteration # state.reviews[c][j].iteration
=============================================================================
