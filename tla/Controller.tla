------------------------------ MODULE Controller ------------------------------
(***************************************************************************)
(* The version-2 controller: the role cycle, the workspaces, the checkpoints    *)
(* and the integration of a rehearsal, run by an operator who may call any      *)
(* command of src/src/cli.mjs at any time, from several terminals.              *)
(***************************************************************************)
EXTENDS FixtureIntegration

vars == <<state, workVars, targetVars>>

Init == (\E mode \in Modes : state = InitialState(mode)) /\ NoWork /\ NoTarget

Inputs(task) ==
    [verdict : Verdicts(task.purpose), evidence : {"PASS", "FAIL"}, subject : Commits]

\* What the operator may do to the state in one mutation.  A new request starts
\* from the target's first commit or from its tip.
Enqueue == \E c \in Cycles : \E from \in {None, tip} : EnqueueRequest(c, from)

Finish == \E ms \in Durations : FinishRole(ms)

\* Only the offline executor interrupts a role, when its execution fails.
Interrupt == state.mode = "OFFLINE_FIXTURE" /\ \E ms \in Durations : InterruptRole(ms)

Submit == \E task \in state.tasks : \E r \in Inputs(task) : SubmitResult(task, r)

\* The general run closes its cycle on an error or a deadline.
Terminate == \E ms \in Durations : TerminateCycle(ms)

Mutation(action) == action /\ UNCHANGED <<workVars, targetVars>>

\* The next step of a process's own code, in whatever command it is.
Proceed(p) == (Work(p) /\ UNCHANGED targetVars) \/ Integrate(p)

Next ==
    \/ Mutation(Enqueue) \/ Mutation(StartRole) \/ Mutation(Finish)
    \/ Mutation(Interrupt) \/ Mutation(Terminate) \/ Mutation(Submit)
    \/ \E p \in Processes : \/ StartWork(p) /\ UNCHANGED targetVars
                            \/ \E c \in Cycles : IntegrationBegin(p, c)
                            \/ Proceed(p)
                            \/ CrashIntegrating(p)

Spec == Init /\ [][Next]_vars

\* A started command runs on, and the operator serves the pending task: starts the
\* role, finishes it, and submits some result.  Nobody has to enqueue a request,
\* prepare a workspace, take a checkpoint or integrate.
FairSpec ==
    /\ Spec
    /\ \A p \in Processes : WF_vars(Proceed(p))
    /\ WF_vars(Mutation(StartRole)) /\ WF_vars(Mutation(Finish)) /\ WF_vars(Mutation(Submit))

-----------------------------------------------------------------------------
(* Properties                                                               *)

Steps == {"idle"} \cup PrepareSteps \cup CheckpointSteps \cup IntegrationSteps

\* Every variable has its type.
TypeOK ==
    /\ state \in State
    /\ job \in [Processes -> [step : Steps, subject : Task \cup Cycles \cup {None}]]
    /\ clones \subseteq Task
    /\ commits \subseteq Task
    /\ reported \subseteq Task
    /\ tip \in Cycles \cup {None}
    /\ targetLock \in Processes \cup {None, "stale"}
    /\ \A i \in DOMAIN advanced : advanced[i] \in Cycles

Exists(c) == state.cycles[c] # None

\* The builder task that produced iteration i of the cycle.
Builds(c, i) == {task \in state.tasks :
    task.cycle = c /\ task.purpose = "BUILDER_IMPLEMENTATION" /\ task.iteration = i}

\* An accepted candidate is the one the latest review passed, with passing evidence,
\* and it is a checkpointed commit of the cycle's last builder task.
AcceptedOnMerit ==
    \A c \in Cycles :
        Exists(c) /\ state.cycles[c].decision = "ACCEPT" =>
          /\ MayAccept(c)
          /\ LatestReview(c).reviewed = state.cycles[c].candidate
          /\ LatestReview(c).iteration = state.cycles[c].iteration
          /\ Builds(c, state.cycles[c].candidate) \subseteq Checkpointed(state) \cap commits

\* Work that took too long is never accepted, also when a checkpoint command has
\* lowered the hold that the late role raised: only BLOCKED closes it.
WithinLimits ==
    /\ \A res \in state.results : res.verdict # "BLOCKED" => res.active <= RoleLimit
    /\ \A c \in Cycles :
         Exists(c) /\ state.cycles[c].decision = "ACCEPT" => state.spent[c] <= CycleLimit

\* An iteration starts from the candidate of the one before it, which was reviewed
\* and sent back: no iteration is skipped, repeated or built on another commit.
IterationsChain ==
    \A c \in Cycles :
        /\ Exists(c) => /\ state.cycles[c].base = state.cycles[c].iteration - 1
                        /\ state.cycles[c].candidate \in
                             {state.cycles[c].iteration - 1, state.cycles[c].iteration}
        /\ \A i \in 1 .. MaxIterations :
             Builds(c, i + 1) # {} =>
               \E record \in state.iterations :
                 /\ record.cycle = c /\ record.index = i
                 /\ record.candidate = i /\ record.verdict = "REVISE"

\* A closed cycle has exactly its one final summary, and a summary says how it closed.
OneFinalSummary ==
    \A c \in Cycles :
        IF Exists(c) /\ state.cycles[c].status \in Terminal
        THEN state.finals[c] # None /\ state.finals[c].terminal = state.cycles[c].status
        ELSE state.finals[c] = None

\* Nothing that comes late (a result, a checkpoint, a second integration) changes a
\* closed cycle or its final summary.
ClosedForGood ==
    [][\A c \in Cycles : state.finals[c] # None =>
         state'.finals[c] = state.finals[c] /\ state'.cycles[c] = state.cycles[c]]_vars

\* A candidate is committed and receipted once, however many checkpoint commands run
\* for its task, and the receipt is for a commit that exists in a workspace that is
\* registered.
OneReceiptPerCommit ==
    /\ IsInjective(state.checkpoints)
    /\ Checkpointed(state) \subseteq commits \cap clones \cap state.workspaces

\* A checkpoint intent that was not completed keeps the controller held: the task's
\* other checkpoints, and those of other cycles, do not lift that hold.
UnsettledIntentHolds ==
    \A i \in DOMAIN state.intents :
        state.intents[i].task \notin Checkpointed(state) => state.hold

\* The target branch moves to a candidate only once, and only after the architect
\* accepted it: a second integration of the cycle, racing the first, loses.
TargetMovesOnce ==
    /\ IsInjective(advanced)
    /\ tip = IF advanced = <<>> THEN None ELSE advanced[Len(advanced)]
    /\ \A i \in DOMAIN advanced : state.cycles[advanced[i]].decision = "ACCEPT"

\* A target branch that was moved without the cycle being closed as integrated is
\* held for reconciliation, and no cycle is closed as integrated without the move.
AdvancedOrHeld ==
    \A c \in Cycles :
        /\ c \in Range(advanced) => state.hold \/ state.finals[c] # None
        /\ state.finals[c] # None /\ state.finals[c].reason = "INTEGRATED" => c \in Range(advanced)

\* A task whose result no command can bring any more: its role was interrupted, or
\* a hold came up before the role was finished.
Stranded ==
    /\ state.pending # None
    /\ \/ state.timing.status = "INTERRUPTED"
       \/ /\ state.hold /\ state.pending.purpose # "ARCHITECT_FINAL_DECISION"
          /\ state.timing.status # "COMPLETED"

\* An admitted cycle is closed, or its candidate accepted, or its task is stranded:
\* revisions come to an end, and a time violation can always be closed.
CycleSettles ==
    \A c \in Cycles :
        state.active = c ~> \/ state.active # c
                            \/ state.cycles[c].status = "REVIEW"
                            \/ Stranded

\* README.md: "Human holds remain durable and block new cycle admission."  After a
\* cycle that was not accepted the controller is held.
HeldAfterDisposition ==
    \A c \in Cycles :
        state.finals[c] # None /\ state.finals[c].terminal # "ACCEPTED" => state.hold

\* docs/phase-2-builder-handoff.md: "Checkpoint and integration uncertainty create
\* durable reconciliation holds."  A checkpoint that reported uncertainty left one.
UncertaintyHolds == reported # {} => state.hold
=============================================================================
