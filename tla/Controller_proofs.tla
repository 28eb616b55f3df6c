--------------------------- MODULE Controller_proofs ---------------------------
(***************************************************************************)
(* The controller, for any number of cycles, processes and iterations: what       *)
(* module RoleCycle_proofs shows of the role cycle is kept by the commands that      *)
(* leave the state file between two mutations, and what those commands leave on    *)
(* the file system and on the target branch agrees with the state.                *)
(***************************************************************************)
EXTENDS Controller, RoleCycle_proofs

-----------------------------------------------------------------------------
(* The invariant                                                             *)

\* A cycle that another command could still integrate has its hold up, or is closed.
HeldOrClosed(c) == state.hold \/ state.finals[c] # None

\* What a process has made sure of when it is at this step, and what of that still holds.
JobTells(q) ==
    LET step == job[q].step
        x    == job[q].subject
    IN  /\ step \in PrepareSteps => x \in state.tasks
        /\ step = "cloned" => x \in clones
        /\ step \in CheckpointSteps => x \in state.tasks /\ Builder(x) /\ x \in state.workspaces
        /\ step = "committed" => x \in commits /\ x \notin Checkpointed(state)
        /\ step \in IntegrationSteps => x \in Cycles /\ Accepted(x)
        /\ step \in IntegrationSteps \ {"preparing"} => HeldOrClosed(x)
        /\ step = "advanced" => x \in Range(advanced)

JobsTell == \A q \in Processes : JobTells(q)

\* A commit is made once: the process that made it is the only one to report it.
OneCommitter ==
    \A p, q \in Processes :
        At(p, "committed") /\ At(q, "committed") /\ Subject(p) = Subject(q) => p = q

\* Receipts and workspaces are of issued tasks, and of what is on the file system.
FilesTell ==
    /\ state.workspaces \subseteq clones \cap state.tasks
    /\ Checkpointed(state) \subseteq commits \cap state.workspaces
    /\ IsInjective(state.checkpoints)
    /\ \A i \in DOMAIN state.intents :
         state.intents[i].task \in state.tasks /\ Builder(state.intents[i].task)

\* Each candidate on the target branch was accepted on top of the one before it.
BranchTells ==
    /\ advanced \in Seq(Cycles)
    /\ \A i \in DOMAIN advanced :
         /\ Accepted(advanced[i])
         /\ state.cycles[advanced[i]].target = IF i = 1 THEN None ELSE advanced[i - 1]
         /\ HeldOrClosed(advanced[i])
    /\ IsInjective(advanced)
    /\ tip = IF advanced = <<>> THEN None ELSE advanced[Len(advanced)]
    /\ \A c \in Cycles :
         state.finals[c] # None /\ state.finals[c].reason = "INTEGRATED" => c \in Range(advanced)

ControllerInv == /\ TypeOK /\ CycleInv
                 /\ JobsTell /\ OneCommitter /\ FilesTell /\ BranchTells /\ UnsettledIntentHolds

-----------------------------------------------------------------------------
(* The steps, by what they leave alone                                        *)

\* What a step on the state file never does.
Onward ==
    /\ state.tasks \subseteq state'.tasks
    /\ \A c \in Cycles : Accepted(c) =>
         Accepted(c)' /\ state'.cycles[c].target = state.cycles[c].target
    /\ \A c \in Cycles : state.finals[c] # None =>
         state'.finals[c] = state.finals[c] /\ state'.cycles[c] = state.cycles[c]
    /\ \A c \in Cycles : Accepted(c) /\ HeldOrClosed(c) => HeldOrClosed(c)'
    /\ \A c \in Cycles :
         state.finals[c] = None /\ state'.finals[c] # None
           /\ state'.finals[c].reason = "INTEGRATED" => c \in Range(advanced)

LEMMA RoleOnward ==
  ASSUME CycleInv, RoleStep
  PROVE  Onward
  <1>1. \A c \in Cycles : Accepted(c) => state'.cycles[c] = state.cycles[c]
    BY DEF RoleStep, Accepted
  <1>2. QED
    BY <1>1 DEF RoleStep, Onward, Accepted, HeldOrClosed

\* What a process knew is still so after a step of another one.
LEMMA OtherJobsTell ==
  ASSUME JobsTell, Onward, NEW q \in Processes, job'[q] = job[q],
         clones \subseteq clones', commits \subseteq commits',
         state.workspaces \subseteq state'.workspaces,
         Range(advanced) \subseteq Range(advanced)',
         At(q, "committed") => Subject(q) \notin Checkpointed(state)'
  PROVE  JobTells(q)'
  <1> DEFINE step == job[q].step
             x == job[q].subject
  <1>1. JobTells(q)
    BY DEF JobsTell
  <1>2. step \in IntegrationSteps => x \in Cycles /\ Accepted(x) /\ Accepted(x)'
    BY <1>1 DEF JobTells, Onward
  <1>3. step \in IntegrationSteps \ {"preparing"} => HeldOrClosed(x)'
    BY <1>1, <1>2 DEF JobTells, Onward
  <1>4. QED
    BY <1>1, <1>2, <1>3 DEF JobTells, Onward, At, Subject

LEMMA BranchKept ==
  ASSUME BranchTells, Onward, UNCHANGED <<tip, advanced>>
  PROVE  BranchTells'
  <1>1. \A i \in DOMAIN advanced : advanced[i] \in Cycles
    BY DEF BranchTells
  <1>2. \A i \in DOMAIN advanced :
          /\ Accepted(advanced[i])'
          /\ state'.cycles[advanced[i]].target = state.cycles[advanced[i]].target
          /\ HeldOrClosed(advanced[i])'
    BY <1>1 DEF BranchTells, Onward
  <1>3. \A c \in Cycles :
          state'.finals[c] # None /\ state'.finals[c].reason = "INTEGRATED" => c \in Range(advanced)
    BY DEF BranchTells, Onward
  <1>4. QED
    BY <1>2, <1>3 DEF BranchTells

LEMMA IntentsKept ==
  ASSUME UnsettledIntentHolds, state'.intents = state.intents,
         Checkpointed(state) \subseteq Checkpointed(state)', state.hold => state'.hold
  PROVE  UnsettledIntentHolds'
  BY DEF UnsettledIntentHolds

\* A step of the role cycle: nothing else moves.
LEMMA RoleStepKeeps ==
  ASSUME ControllerInv, CycleInv', RoleStep, UNCHANGED <<workVars, targetVars>>
  PROVE  ControllerInv' /\ Onward
  <1>1. Onward
    BY RoleOnward DEF ControllerInv
  <1>2. /\ state'.workspaces = state.workspaces /\ Checkpointed(state)' = Checkpointed(state)
        /\ state'.checkpoints = state.checkpoints /\ state'.intents = state.intents
        /\ state.tasks \subseteq state'.tasks /\ (state.hold => state'.hold)
    BY DEF RoleStep, Elsewhere, Checkpointed
  <1>3. /\ job' = job /\ clones' = clones /\ commits' = commits /\ reported' = reported
        /\ tip' = tip /\ targetLock' = targetLock /\ advanced' = advanced
    BY DEF workVars, targetVars
  <1>4. JobsTell'
    <2> SUFFICES ASSUME NEW q \in Processes PROVE JobTells(q)'
      BY DEF JobsTell
    <2>1. At(q, "committed") => Subject(q) \notin Checkpointed(state)'
      BY <1>2 DEF ControllerInv, JobsTell, JobTells, At, Subject
    <2>2. QED
      BY <1>1, <1>2, <1>3, <2>1, OtherJobsTell DEF ControllerInv
  <1>5. FilesTell'
    BY <1>2, <1>3 DEF ControllerInv, FilesTell
  <1>6. OneCommitter'
    BY <1>3 DEF ControllerInv, OneCommitter, At, Subject
  <1>7. TypeOK'
    BY <1>3 DEF ControllerInv, TypeOK, CycleInv
  <1>8. BranchTells' /\ UnsettledIntentHolds'
    BY <1>1, <1>2, <1>3, BranchKept, IntentsKept DEF ControllerInv
  <1>9. QED
    BY <1>1, <1>4, <1>5, <1>6, <1>7, <1>8 DEF ControllerInv

\* The operator's mutations.
LEMMA MutationKeeps ==
  ASSUME ControllerInv, UNCHANGED <<workVars, targetVars>>,
         Enqueue \/ StartRole \/ Finish \/ Interrupt \/ Terminate \/ Submit
  PROVE  ControllerInv' /\ Onward
  <1>1. CycleInv
    BY DEF ControllerInv
  <1>2. ASSUME Enqueue PROVE CycleInv' /\ RoleStep
    <2>1. tip \in Cycles \cup {None}
      BY DEF ControllerInv, TypeOK
    <2>2. QED
      BY <1>1, <1>2, <2>1, EnqueueKeeps DEF Enqueue
  <1>3. ASSUME StartRole \/ Finish \/ Interrupt PROVE CycleInv' /\ RoleStep
    BY <1>1, <1>3, TimingKeeps DEF Finish, Interrupt
  <1>4. ASSUME Terminate PROVE CycleInv' /\ RoleStep
    BY <1>1, <1>4, TerminateKeeps DEF Terminate
  <1>5. ASSUME Submit PROVE CycleInv' /\ RoleStep
    <2>1. PICK task \in state.tasks : \E r \in Inputs(task) : SubmitResult(task, r)
      BY <1>5 DEF Submit
    <2>2. task \in Task
      BY <1>1, TypeFacts DEF CycleInv
    <2>3. task.purpose \in Purposes
      BY <2>2 DEF Task
    <2>4. Verdicts(task.purpose) \subseteq AllVerdicts
      BY <2>3 DEF AllVerdicts
    <2>5. Inputs(task) \subseteq Result
      BY <2>4 DEF Inputs, Result
    <2>6. QED
      BY <1>1, <2>1, <2>5, SubmitKeeps
  <1>6. CycleInv' /\ RoleStep
    BY <1>2, <1>3, <1>4, <1>5
  <1>7. QED
    BY <1>6, RoleStepKeeps

-----------------------------------------------------------------------------
(* What the commands write into the state file                                *)

LEMMA StillOnward ==
  ASSUME CycleInv, Still(state, state'), \A c \in Cycles : HeldOrClosed(c) => HeldOrClosed(c)'
  PROVE  Onward
  BY DEF Still, Onward, Accepted

LEMMA CompletedEffect ==
  ASSUME state \in State, NEW task \in Task, state' = Completed(task)
  PROVE  /\ Still(state, state') /\ state'.workspaces = state.workspaces
         /\ state'.checkpoints = Append(state.checkpoints, task)
         /\ DOMAIN state'.intents = DOMAIN state.intents
         /\ \A i \in DOMAIN state.intents : state'.intents[i].task = state.intents[i].task
  <1> DEFINE first == FirstIntent(state, task)
  <1>1. \/ state' = [state EXCEPT !.checkpoints = Append(@, task)]
        \/ state' = [state EXCEPT !.checkpoints = Append(@, task),
                                  !.intents = Marked(@, first, "COMPLETED"), !.hold = FALSE]
    BY DEF Completed, Marked
  <1> HIDE DEF first
  <1>2. QED
    BY <1>1, ReceiptEffect

LEMMA PreparedEffect ==
  ASSUME state \in State, NEW c \in Cycles, state' = Prepared(c)
  PROVE  /\ Still(state, state') /\ SameFiles(state, state') /\ state'.hold
         /\ state'.intents = state.intents
  <1> DEFINE integration == [cycle |-> c, status |-> "PREPARED"]
             integrations == Append(state.integrations, integration)
  <1>1. DOMAIN state = Fields /\ state.integrations \in Seq(Integration)
    BY StateFields, LedgerTypes
  <1>2. integration \in Integration
    BY DEF Integration
  <1>3. state' = [state EXCEPT !.integrations = integrations, !.hold = TRUE]
    BY DEF Prepared
  <1> HIDE DEF integration
  <1>4. integrations \in Seq(Integration)
    BY <1>1, <1>2
  <1> HIDE DEF integrations
  <1>5. state' \in State
    BY <1>3, <1>4, ZenonT(60) DEF State, Integration
  <1>6. Still(state, state')
    BY <1>1, <1>3, <1>5 DEF Fields, Still
  <1>7. QED
    BY <1>1, <1>3, <1>6 DEF Fields, SameFiles

\* When the hold goes down no candidate is without its receipt, so none was left behind.
LEMMA NothingUnsettled ==
  ASSUME FilesTell', Open(state)' = {}
  PROVE  UnsettledIntentHolds'
  BY DEF FilesTell, Open, UnsettledIntentHolds

LEMMA IntegratedKeeps ==
  ASSUME CycleInv, NEW c \in Cycles, Accepted(c), c \in Range(advanced), state' = Integrated(c)
  PROVE  /\ CycleInv' /\ Onward /\ SameFiles(state, state') /\ state'.intents = state.intents
         /\ state.hold => state'.hold \/ Open(state)' = {}
  <1> DEFINE s == Entered(c, FirstIntegration(state, c), "APPLIED", "INTEGRATED")
  <1>1. state' = FinalizeTerminalCycle(s, c, state.cycles[c], "ACCEPTED", "COMPLETE",
                                       "INTEGRATED", FALSE)
    BY DEF Integrated, Entered
  <1>2. state \in State
    BY DEF CycleInv
  <1>3. /\ Still(state, s) /\ SameFiles(state, s) /\ DOMAIN s = Fields
        /\ s.intents = state.intents /\ s.hold = state.hold
    BY <1>2, EnteredEffect
  <1>4. CASE state.finals[c] # None
    <2> HIDE DEF s
    <2>1. state' = s
      BY <1>1, <1>3, <1>4 DEF FinalizeTerminalCycle, Still
    <2>2. Still(state, state') /\ SameFiles(state, state') /\ state'.intents = state.intents
          /\ state'.hold = state.hold
      BY <1>3, <2>1
    <2>3. Checkpointed(state)' = Checkpointed(state)
      BY <2>2 DEF SameFiles, Checkpointed
    <2>4. \A d \in Cycles : HeldOrClosed(d) => HeldOrClosed(d)'
      BY <2>2 DEF HeldOrClosed, Still
    <2>5. CycleInv'
      BY <2>2, <2>3, StillKeeps
    <2>6. QED
      BY <2>2, <2>4, <2>5, StillOnward
  <1>5. CASE state.finals[c] = None
    <2>1. /\ CycleInv' /\ SameFiles(state, state') /\ state'.intents = state.intents
          /\ Open(state)' = {} /\ state'.tasks = state.tasks
          /\ state'.finals[c] # None
          /\ Accepted(c)' /\ state'.cycles[c].target = state.cycles[c].target
          /\ \A d \in Cycles \ {c} : /\ state'.cycles[d] = state.cycles[d]
                                     /\ state'.finals[d] = state.finals[d]
      BY <1>1, <1>5, IntegrationCloses DEF ClosesIntegrated
    <2>2. ASSUME NEW d \in Cycles, Accepted(d)
          PROVE  /\ Accepted(d)' /\ state'.cycles[d].target = state.cycles[d].target
                 /\ HeldOrClosed(d)'
      <3>1. CASE d = c
        BY <2>1, <3>1 DEF HeldOrClosed
      <3>2. CASE d # c
        <4>1. state.finals[d] # None
          BY <1>5, <2>2, <3>2, WaitingFacts, NoneAssumption
        <4>2. QED
          BY <2>1, <2>2, <3>2, <4>1 DEF HeldOrClosed, Accepted
      <3>3. QED
        BY <3>1, <3>2
    <2>3. Onward
      BY <1>5, <2>1, <2>2 DEF Onward
    <2>4. QED
      BY <2>1, <2>3
  <1>6. QED
    BY <1>4, <1>5

-----------------------------------------------------------------------------
(* The steps of a process                                                     *)

\* The process is at this step now, for this task or cycle; the others where they were.
Moved(p, step, subject) ==
    /\ job' \in [Processes -> [step : Steps, subject : Task \cup Cycles \cup {None}]]
    /\ job'[p].step = step /\ job'[p].subject = subject
    /\ \A q \in Processes \ {p} : job'[q] = job[q]

LEMMA Moves ==
  ASSUME TypeOK, NEW p \in Processes
  PROVE  /\ \A step \in Steps : Goto(p, step) => Moved(p, step, Subject(p))
         /\ \A step \in Steps, subject \in Task \cup Cycles :
              Begin(p, step, subject) => Moved(p, step, subject)
         /\ End(p) => Moved(p, "idle", None)
  <1>1. job \in [Processes -> [step : Steps, subject : Task \cup Cycles \cup {None}]]
    BY DEF TypeOK
  <1>2. job[p] \in [step : Steps, subject : Task \cup Cycles \cup {None}]
    BY <1>1
  <1>3. ASSUME NEW step \in Steps, Goto(p, step) PROVE Moved(p, step, Subject(p))
    <2> DEFINE new == [job[p] EXCEPT !.step = step]
    <2>1. /\ new \in [step : Steps, subject : Task \cup Cycles \cup {None}]
          /\ new.step = step /\ new.subject = job[p].subject
      BY <1>2
    <2>2. job' = [job EXCEPT ![p] = new]
      BY <1>3 DEF Goto
    <2> HIDE DEF new
    <2>3. QED
      BY <1>1, <2>1, <2>2 DEF Moved, Subject
  <1>4. ASSUME NEW step \in Steps, NEW subject \in Task \cup Cycles, Begin(p, step, subject)
        PROVE  Moved(p, step, subject)
    BY <1>1, <1>4 DEF Begin, Moved
  <1>5. ASSUME End(p) PROVE Moved(p, "idle", None)
    <2>1. /\ Idle \in [step : Steps, subject : Task \cup Cycles \cup {None}]
          /\ Idle.step = "idle" /\ Idle.subject = None
      BY DEF Idle, Steps
    <2>2. job' = [job EXCEPT ![p] = Idle]
      BY <1>5 DEF End
    <2>3. QED
      BY <1>1, <2>1, <2>2 DEF Moved
  <1>6. QED
    BY <1>3, <1>4, <1>5

\* The file system only gains, and stays within its types.
Gains ==
    /\ clones \subseteq clones' /\ commits \subseteq commits'
    /\ clones' \subseteq Task /\ commits' \subseteq Task /\ reported' \subseteq Task
    /\ targetLock' \in Processes \cup {None, "stale"}

\* What a step of process p has to show.
LEMMA StepKeeps ==
  ASSUME ControllerInv, NEW p \in Processes, NEW step, NEW subject, Moved(p, step, subject),
         JobTells(p)', CycleInv', Onward, Gains,
         state.workspaces \subseteq state'.workspaces,
         Range(advanced) \subseteq Range(advanced)',
         step = "committed" => subject \notin commits \/ (At(p, step) /\ Subject(p) = subject),
         \A q \in Processes \ {p} :
             At(q, "committed") => Subject(q) \notin Checkpointed(state)',
         FilesTell', BranchTells', tip' \in Cycles \cup {None}, UnsettledIntentHolds'
  PROVE  ControllerInv'
  <1>1. \A q \in Processes \ {p} : job'[q] = job[q]
    BY DEF Moved
  <1>2. JobsTell'
    <2> SUFFICES ASSUME NEW q \in Processes PROVE JobTells(q)'
      BY DEF JobsTell
    <2>1. CASE q = p
      BY <2>1
    <2>2. CASE q # p
      BY <1>1, <2>2, OtherJobsTell DEF ControllerInv, Gains
    <2>3. QED
      BY <2>1, <2>2
  <1>3. OneCommitter'
    <2> SUFFICES ASSUME NEW q1 \in Processes, NEW q2 \in Processes, q1 # q2,
                        job'[q1].step = "committed", job'[q2].step = "committed",
                        job'[q1].subject = job'[q2].subject
                 PROVE  FALSE
      BY DEF OneCommitter, At, Subject
    <2>1. ASSUME NEW q \in Processes \ {p}, job'[q].step = "committed", step = "committed",
                 job'[q].subject = subject
          PROVE  FALSE
      <3>1. At(q, "committed") /\ Subject(q) = subject
        BY <1>1, <2>1 DEF At, Subject
      <3>2. subject \in commits
        BY <3>1 DEF ControllerInv, JobsTell, JobTells, At, Subject
      <3>3. At(p, "committed") /\ Subject(p) = subject
        BY <2>1, <3>2
      <3>4. QED
        BY <3>1, <3>3 DEF ControllerInv, OneCommitter
    <2>2. CASE q1 = p
      BY <2>1, <2>2 DEF Moved
    <2>3. CASE q2 = p
      BY <2>1, <2>3 DEF Moved
    <2>4. CASE q1 # p /\ q2 # p
      BY <1>1, <2>4 DEF ControllerInv, OneCommitter, At, Subject
    <2>5. QED
      BY <2>2, <2>3, <2>4
  <1>4. TypeOK'
    <2>1. \A i \in DOMAIN advanced' : advanced'[i] \in Cycles
      BY DEF BranchTells
    <2>2. QED
      BY <2>1 DEF TypeOK, Moved, Gains, CycleInv
  <1>5. QED
    BY <1>2, <1>3, <1>4 DEF ControllerInv

\* A step that leaves the state and the target branch alone.
LEMMA QuietStepKeeps ==
  ASSUME ControllerInv, NEW p \in Processes, NEW step, NEW subject, Moved(p, step, subject),
         UNCHANGED <<state, tip, advanced>>, JobTells(p)', Gains,
         step = "committed" => subject \notin commits \/ (At(p, step) /\ Subject(p) = subject)
  PROVE  ControllerInv' /\ Onward
  <1>1. CycleInv'
    BY DEF ControllerInv, CycleInv, PendingTells, ActiveTells, FinalsTell, TasksTell, OpenTells, Stalled,
       ResultsTell, ChainTells, ReviewsTell, AcceptTells, MayAccept, LatestReview
  <1>2. Onward
    BY DEF Onward, Accepted, HeldOrClosed
  <1>3. FilesTell'
    BY DEF ControllerInv, FilesTell, Gains, Checkpointed
  <1>4. BranchTells' /\ UnsettledIntentHolds'
    BY <1>2, BranchKept DEF ControllerInv, UnsettledIntentHolds
  <1>5. \A q \in Processes \ {p} :
          At(q, "committed") => Subject(q) \notin Checkpointed(state)'
    BY DEF ControllerInv, JobsTell, JobTells, At, Subject
  <1>6. tip' \in Cycles \cup {None}
    BY DEF ControllerInv, TypeOK
  <1>7. QED
    BY <1>1, <1>2, <1>3, <1>4, <1>5, <1>6, StepKeeps

\* Nothing is known of an idle process.
LEMMA IdleTells ==
  ASSUME NEW p \in Processes, Moved(p, "idle", None)
  PROVE  JobTells(p)'
  BY DEF Moved, JobTells, PrepareSteps, CheckpointSteps, IntegrationSteps

\* What the invariant says of one process.
LEMMA ProcessFacts ==
  ASSUME ControllerInv, NEW p \in Processes
  PROVE  /\ TypeOK /\ CycleInv /\ JobTells(p) /\ state \in State /\ state.tasks \subseteq Task
         /\ job[p].step = "idle" \/ job[p].step \in PrepareSteps
              \/ job[p].step \in CheckpointSteps \/ job[p].step \in IntegrationSteps
         /\ clones \subseteq Task /\ commits \subseteq Task /\ reported \subseteq Task
         /\ tip \in Cycles \cup {None} /\ targetLock \in Processes \cup {None, "stale"}
  <1>1. TypeOK /\ CycleInv /\ JobTells(p) /\ state \in State /\ state.tasks \subseteq Task
    BY TypeFacts DEF ControllerInv, CycleInv, JobsTell
  <1>2. job[p].step \in Steps
    BY <1>1 DEF TypeOK
  <1>3. QED
    BY <1>1, <1>2 DEF TypeOK, Steps

\* A process takes up a command.
LEMMA StartKeeps ==
  ASSUME ControllerInv, NEW p \in Processes, StartWork(p), UNCHANGED targetVars
  PROVE  ControllerInv' /\ Onward
  <1>1. PICK task \in state.tasks : PrepareBegin(p, task) \/ CheckpointBegin(p, task)
    BY DEF StartWork
  <1>2. task \in Task /\ TypeOK
    BY ProcessFacts
  <1>3. "cloning" \in Steps /\ "checked" \in Steps
    BY DEF Steps, PrepareSteps, CheckpointSteps
  <1>4. UNCHANGED <<state, tip, advanced>> /\ Gains
    BY <1>1, ProcessFacts DEF PrepareBegin, CheckpointBegin, targetVars, Gains
  <1>5. CASE PrepareBegin(p, task)
    <2>1. Moved(p, "cloning", task)
      BY <1>2, <1>3, <1>5, Moves DEF PrepareBegin
    <2>2. JobTells(p)'
      BY <1>4, <2>1 DEF Moved, JobTells, PrepareSteps, CheckpointSteps, IntegrationSteps
    <2>3. QED
      BY <1>4, <2>1, <2>2, QuietStepKeeps
  <1>6. CASE CheckpointBegin(p, task)
    <2>1. Moved(p, "checked", task)
      BY <1>2, <1>3, <1>6, Moves DEF CheckpointBegin
    <2>2. task \in state.workspaces /\ Builder(task)
      BY <1>6 DEF CheckpointBegin, Builder
    <2>3. JobTells(p)'
      BY <1>4, <2>1, <2>2 DEF Moved, JobTells, PrepareSteps, CheckpointSteps, IntegrationSteps
    <2>4. QED
      BY <1>4, <2>1, <2>3, QuietStepKeeps
  <1>7. QED
    BY <1>1, <1>5, <1>6

\* The steps of a preparation.
LEMMA PrepareKeeps ==
  ASSUME ControllerInv, NEW p \in Processes, UNCHANGED targetVars,
         Clone(p) \/ CloneFails(p) \/ RegisterWorkspace(p) \/ RegisterFails(p)
  PROVE  ControllerInv' /\ Onward
  <1>1. /\ UNCHANGED <<tip, advanced>> /\ targetLock' = targetLock
        /\ TypeOK /\ CycleInv /\ JobTells(p) /\ state \in State /\ state.tasks \subseteq Task
        /\ targetLock \in Processes \cup {None, "stale"}
        /\ clones \subseteq Task /\ commits \subseteq Task /\ reported \subseteq Task
    BY ProcessFacts DEF targetVars
  <1>2. At(p, "cloning") \/ At(p, "cloned") => Subject(p) \in state.tasks
    BY <1>1 DEF JobTells, At, Subject, PrepareSteps
  <1>3. CASE Clone(p)
    <2>1. "cloned" \in Steps
      BY DEF Steps, PrepareSteps
    <2>2. Moved(p, "cloned", Subject(p))
      BY <1>1, <1>3, <2>1, Moves DEF Clone
    <2>3. Gains /\ UNCHANGED state
      BY <1>1, <1>2, <1>3 DEF Clone, Gains
    <2>4. JobTells(p)'
      BY <1>2, <1>3, <2>2, <2>3
      DEF Clone, Moved, JobTells, PrepareSteps, CheckpointSteps, IntegrationSteps
    <2>5. QED
      BY <1>1, <2>2, <2>3, <2>4, QuietStepKeeps
  <1>4. CASE CloneFails(p) \/ RegisterFails(p)
    <2>1. Moved(p, "idle", None)
      BY <1>1, <1>4, Moves DEF CloneFails, RegisterFails
    <2>2. Gains /\ UNCHANGED state
      BY <1>1, <1>2, <1>4 DEF CloneFails, RegisterFails, Gains
    <2>3. QED
      BY <1>1, <2>1, <2>2, IdleTells, QuietStepKeeps
  <1>5. CASE RegisterWorkspace(p)
    <2>1. Moved(p, "idle", None)
      BY <1>1, <1>5, Moves DEF RegisterWorkspace
    <2>2. Subject(p) \in Task /\ Subject(p) \in clones /\ Subject(p) \in state.tasks
      BY <1>1, <1>5 DEF RegisterWorkspace, JobTells, At, Subject, PrepareSteps
    <2>3. state' = [state EXCEPT !.workspaces = @ \cup {Subject(p)}]
      BY <1>5 DEF RegisterWorkspace
    <2>4. /\ Still(state, state') /\ state'.workspaces = state.workspaces \cup {Subject(p)}
          /\ state'.checkpoints = state.checkpoints /\ state'.intents = state.intents
          /\ state'.hold = state.hold
      BY <1>1, <2>2, <2>3, RegisterEffect
    <2>5. Checkpointed(state)' = Checkpointed(state)
      BY <2>4 DEF Checkpointed
    <2>6. CycleInv'
      BY <1>1, <2>4, <2>5, StillKeeps
    <2>7. Onward
      BY <1>1, <2>4, StillOnward DEF HeldOrClosed, Still
    <2>8. Gains
      BY <1>1, <1>5 DEF RegisterWorkspace, Gains
    <2>9. FilesTell'
      BY <1>5, <2>2, <2>4, <2>5 DEF RegisterWorkspace, ControllerInv, FilesTell, Still
    <2>10. BranchTells' /\ UnsettledIntentHolds'
      BY <1>1, <2>4, <2>5, <2>7, BranchKept, IntentsKept DEF ControllerInv
    <2>11. \A q \in Processes \ {p} :
             At(q, "committed") => Subject(q) \notin Checkpointed(state)'
      BY <2>5 DEF ControllerInv, JobsTell, JobTells, At, Subject
    <2>12. tip' \in Cycles \cup {None} /\ Range(advanced) \subseteq Range(advanced)'
      BY <1>1 DEF TypeOK
    <2>13. state.workspaces \subseteq state'.workspaces /\ JobTells(p)'
      BY <2>1, <2>4, IdleTells
    <2>14. QED
      BY <2>1, <2>6, <2>7, <2>8, <2>9, <2>10, <2>11, <2>12, <2>13, StepKeeps
  <1>6. QED
    BY <1>3, <1>4, <1>5

\* A step that writes to the state file and leaves the hold up.
LEMMA HoldingStepKeeps ==
  ASSUME ControllerInv, NEW p \in Processes, NEW step, NEW subject, Moved(p, step, subject),
         step # "committed", JobTells(p)', Gains, UNCHANGED <<tip, advanced>>,
         Still(state, state'), SameFiles(state, state'), state'.hold,
         \A i \in DOMAIN state'.intents :
             state'.intents[i].task \in state.tasks /\ Builder(state'.intents[i].task)
  PROVE  ControllerInv' /\ Onward
  <1>1. /\ Checkpointed(state)' = Checkpointed(state) /\ state'.tasks = state.tasks
        /\ state'.checkpoints = state.checkpoints /\ state'.workspaces = state.workspaces
    BY DEF Still, SameFiles, Checkpointed
  <1>2. CycleInv'
    BY <1>1, StillKeeps DEF ControllerInv
  <1>3. Onward
    BY StillOnward DEF ControllerInv, HeldOrClosed
  <1>4. FilesTell'
    BY <1>1 DEF ControllerInv, FilesTell, Gains
  <1>5. BranchTells' /\ UnsettledIntentHolds'
    BY <1>3, BranchKept DEF ControllerInv, UnsettledIntentHolds
  <1>6. \A q \in Processes \ {p} :
          At(q, "committed") => Subject(q) \notin Checkpointed(state)'
    BY <1>1 DEF ControllerInv, JobsTell, JobTells, At, Subject
  <1>7. tip' \in Cycles \cup {None} /\ Range(advanced) \subseteq Range(advanced)'
    BY ProcessFacts
  <1>8. QED
    BY <1>1, <1>2, <1>3, <1>4, <1>5, <1>6, <1>7, StepKeeps

\* The receipt of a candidate that a process has just committed.
LEMMA CompletedKeeps ==
  ASSUME ControllerInv, NEW p \in Processes, At(p, "committed"), state' = Completed(Subject(p)),
         NEW step, NEW subject, Moved(p, step, subject),
         step # "committed", JobTells(p)', Gains, UNCHANGED <<tip, advanced>>
  PROVE  ControllerInv' /\ Onward
  <1> DEFINE x == Subject(p)
  <1>1. /\ x \in state.tasks /\ Builder(x) /\ x \in state.workspaces /\ x \in commits
        /\ x \notin Checkpointed(state)
    BY ProcessFacts DEF JobTells, At, Subject, CheckpointSteps
  <1>2. x \in Task /\ state \in State /\ CycleInv
    BY <1>1, ProcessFacts
  <1>3. /\ Still(state, state') /\ state'.workspaces = state.workspaces
        /\ state'.checkpoints = Append(state.checkpoints, x)
        /\ DOMAIN state'.intents = DOMAIN state.intents
        /\ \A i \in DOMAIN state.intents : state'.intents[i].task = state.intents[i].task
    BY <1>2, CompletedEffect
  <1>4. state.checkpoints \in Seq(Task)
    BY <1>2, LedgerTypes
  <1>5. Checkpointed(state)' = Checkpointed(state) \cup {x} /\ IsInjective(state'.checkpoints)
    <2>1. IsInjective(state.checkpoints)
      BY DEF ControllerInv, FilesTell
    <2>2. QED
      BY <1>1, <1>2, <1>3, <1>4, <2>1 DEF Checkpointed, Range, IsInjective
  <1>6. Open(state) \subseteq {x} /\ x \in Open(state)
    BY <1>1, <1>2 DEF Open, CycleInv, OpenTells
  <1>7. Open(state)' = {}
    BY <1>3, <1>5, <1>6 DEF Open, Still
  <1>8. CycleInv'
    BY <1>2, <1>3, <1>5, <1>7, StillKeeps
  <1>9. ASSUME NEW c \in Cycles, Accepted(c), HeldOrClosed(c) PROVE HeldOrClosed(c)'
    <2>1. state.finals[c] # None
      BY <1>2, <1>6, <1>9, WaitingFacts
    <2>2. QED
      BY <1>3, <2>1 DEF HeldOrClosed, Still
  <1>10. Onward
    BY <1>3, <1>9 DEF Onward, Still, Accepted
  <1>11. FilesTell'
    BY <1>1, <1>3, <1>5 DEF ControllerInv, FilesTell, Gains, Still
  <1>12. BranchTells' /\ UnsettledIntentHolds'
    BY <1>7, <1>10, <1>11, BranchKept, NothingUnsettled DEF ControllerInv
  <1>13. ASSUME NEW q \in Processes \ {p}, At(q, "committed")
         PROVE  Subject(q) \notin Checkpointed(state)'
    <2>1. Subject(q) \notin Checkpointed(state)
      BY <1>13 DEF ControllerInv, JobsTell, JobTells, At, Subject
    <2>2. Subject(q) # x
      BY <1>13 DEF ControllerInv, OneCommitter
    <2>3. QED
      BY <1>5, <2>1, <2>2
  <1>14. tip' \in Cycles \cup {None} /\ Range(advanced) \subseteq Range(advanced)'
    BY ProcessFacts
  <1>15. state.workspaces \subseteq state'.workspaces
    BY <1>3
  <1> HIDE DEF x
  <1>16. QED
    BY <1>8, <1>10, <1>11, <1>12, <1>13, <1>14, <1>15, StepKeeps

\* What a process that takes a checkpoint has made sure of.
LEMMA CheckpointFacts ==
  ASSUME ControllerInv, NEW p \in Processes, NEW step \in CheckpointSteps, At(p, step)
  PROVE  Subject(p) \in Task /\ Subject(p) \in state.tasks /\ Builder(Subject(p))
         /\ Subject(p) \in state.workspaces
  BY ProcessFacts DEF JobTells, At, Subject

LEMMA IntentStepKeeps ==
  ASSUME ControllerInv, NEW p \in Processes, At(p, "checked"), state' = Intended(Subject(p)),
         NEW step, Moved(p, step, Subject(p)) \/ Moved(p, step, None),
         step # "committed", JobTells(p)', Gains, UNCHANGED <<tip, advanced>>
  PROVE  ControllerInv' /\ Onward
  <1>1. "checked" \in CheckpointSteps
    BY DEF CheckpointSteps
  <1>2. Subject(p) \in Task /\ Subject(p) \in state.tasks /\ Builder(Subject(p))
    BY <1>1, CheckpointFacts
  <1>3. /\ Still(state, state') /\ SameFiles(state, state') /\ state'.hold
        /\ \A i \in DOMAIN state'.intents :
             \/ state'.intents[i].task = Subject(p)
             \/ i \in DOMAIN state.intents /\ state'.intents[i] = state.intents[i]
    BY <1>2, ProcessFacts, IntendedEffect
  <1>4. \A i \in DOMAIN state'.intents :
          state'.intents[i].task \in state.tasks /\ Builder(state'.intents[i].task)
    BY <1>2, <1>3 DEF ControllerInv, FilesTell
  <1>5. QED
    BY <1>3, <1>4, HoldingStepKeeps

\* The steps of a checkpoint.
LEMMA CheckpointKeeps ==
  ASSUME ControllerInv, NEW p \in Processes, UNCHANGED targetVars,
         \/ CheckpointIntent(p) \/ CheckpointIntentFails(p)
         \/ CheckpointCommit(p) \/ CheckpointCommitFails(p)
         \/ CheckpointComplete(p) \/ CheckpointCompleteFails(p)
         \/ CheckpointUncertain(p) \/ CheckpointUncertainSwallowed(p)
  PROVE  ControllerInv' /\ Onward
  <1> DEFINE x == Subject(p)
  <1>1. /\ UNCHANGED <<tip, advanced>> /\ targetLock' = targetLock
        /\ TypeOK /\ CycleInv /\ state \in State
        /\ targetLock \in Processes \cup {None, "stale"}
        /\ clones \subseteq Task /\ commits \subseteq Task /\ reported \subseteq Task
    BY ProcessFacts DEF targetVars
  <1>2. /\ "intended" \in Steps /\ "committed" \in Steps /\ "failing" \in Steps
        /\ "checked" \in CheckpointSteps /\ "intended" \in CheckpointSteps
        /\ "committed" \in CheckpointSteps /\ "failing" \in CheckpointSteps
    BY DEF Steps, CheckpointSteps
  <1>3. job[p].step \in CheckpointSteps
    BY <1>2 DEF At, CheckpointIntent, CheckpointIntentFails, CheckpointCommit,
       CheckpointCommitFails, CheckpointComplete, CheckpointCompleteFails, CheckpointUncertain,
       CheckpointUncertainSwallowed
  <1>4. x \in Task /\ x \in state.tasks /\ Builder(x) /\ x \in state.workspaces
    BY <1>3, CheckpointFacts DEF At
  <1>5. Gains
    BY <1>1, <1>4 DEF Gains, CheckpointIntent, CheckpointIntentFails, CheckpointCommit,
       CheckpointCommitFails, CheckpointComplete, CheckpointCompleteFails, CheckpointUncertain,
       CheckpointUncertainSwallowed
  <1>6. ASSUME NEW step \in CheckpointSteps, step # "committed", Moved(p, step, x),
               state'.tasks = state.tasks, state'.workspaces = state.workspaces
        PROVE  JobTells(p)'
    BY <1>4, <1>6 DEF Moved, JobTells, PrepareSteps, CheckpointSteps, IntegrationSteps
  <1>7. ASSUME Moved(p, "idle", None) PROVE JobTells(p)'
    BY <1>7, IdleTells
  <1> HIDE DEF x
  <1>8. CASE CheckpointIntent(p)
    <2>1. Moved(p, "intended", Subject(p)) /\ At(p, "checked") /\ state' = Intended(Subject(p))
      BY <1>1, <1>2, <1>8, Moves DEF CheckpointIntent, Intended
    <2>2. Still(state, state') /\ SameFiles(state, state')
      BY <1>1, <1>4, <2>1, IntendedEffect DEF x
    <2>3. state'.tasks = state.tasks /\ state'.workspaces = state.workspaces
      BY <2>2 DEF Still, SameFiles
    <2>4. JobTells(p)'
      BY <1>2, <1>6, <2>1, <2>3 DEF x
    <2>5. QED
      BY <1>1, <1>5, <2>1, <2>4, IntentStepKeeps
  <1>9. CASE CheckpointIntentFails(p)
    <2>1. Moved(p, "idle", None) /\ At(p, "checked")
          /\ (state' = Intended(Subject(p)) \/ UNCHANGED state)
      BY <1>1, <1>9, Moves DEF CheckpointIntentFails, Intended
    <2>2. JobTells(p)'
      BY <1>7, <2>1
    <2>3. CASE UNCHANGED state
      BY <1>1, <1>5, <2>1, <2>2, <2>3, QuietStepKeeps
    <2>4. CASE state' = Intended(Subject(p))
      BY <1>1, <1>5, <2>1, <2>2, <2>4, IntentStepKeeps
    <2>5. QED
      BY <2>1, <2>3, <2>4
  <1>10. CASE CheckpointCommit(p)
    <2>1. Moved(p, "committed", x) /\ x \notin commits /\ x \in commits' /\ UNCHANGED state
      BY <1>1, <1>2, <1>10, Moves DEF CheckpointCommit, x
    <2>2. x \notin Checkpointed(state)
      BY <2>1 DEF ControllerInv, FilesTell
    <2>3. JobTells(p)'
      BY <1>4, <2>1, <2>2
      DEF Moved, JobTells, PrepareSteps, CheckpointSteps, IntegrationSteps, Checkpointed
    <2>4. QED
      BY <1>1, <1>5, <2>1, <2>3, QuietStepKeeps
  <1>11. CASE CheckpointCommitFails(p)
    <2>1. (Moved(p, "idle", None) \/ Moved(p, "failing", x)) /\ UNCHANGED state
      BY <1>1, <1>2, <1>11, Moves DEF CheckpointCommitFails, x
    <2>2. JobTells(p)'
      BY <1>2, <1>6, <1>7, <2>1
    <2>3. QED
      BY <1>1, <1>5, <2>1, <2>2, QuietStepKeeps
  <1>12. CASE CheckpointComplete(p)
    <2>1. Moved(p, "idle", None) /\ At(p, "committed") /\ state' = Completed(Subject(p))
      BY <1>1, <1>12, Moves DEF CheckpointComplete
    <2>2. QED
      BY <1>1, <1>5, <1>7, <2>1, CompletedKeeps
  <1>13. CASE CheckpointCompleteFails(p)
    <2>1. (Moved(p, "idle", None) \/ Moved(p, "failing", x)) /\ At(p, "committed")
          /\ (state' = Completed(Subject(p)) \/ UNCHANGED state)
      BY <1>1, <1>2, <1>13, Moves DEF CheckpointCompleteFails, x
    <2>2. state'.tasks = state.tasks /\ state'.workspaces = state.workspaces
      BY <1>1, <1>4, <2>1, CompletedEffect DEF Still, x
    <2>3. JobTells(p)'
      BY <1>2, <1>6, <1>7, <2>1, <2>2
    <2>4. CASE UNCHANGED state
      BY <1>1, <1>5, <2>1, <2>3, <2>4, QuietStepKeeps
    <2>5. CASE state' = Completed(Subject(p))
      BY <1>1, <1>5, <2>1, <2>3, <2>5, CompletedKeeps
    <2>6. QED
      BY <2>1, <2>4, <2>5
  <1>14. CASE CheckpointUncertain(p)
    <2>1. Moved(p, "idle", None)
      BY <1>1, <1>14, Moves DEF CheckpointUncertain
    <2>2. PICK i : state' = [state EXCEPT !.hold = TRUE,
                                          !.intents[i].status = "RECONCILIATION_REQUIRED"]
      BY <1>14 DEF CheckpointUncertain
    <2>3. /\ Still(state, state') /\ SameFiles(state, state') /\ state'.hold
          /\ DOMAIN state'.intents = DOMAIN state.intents
          /\ \A j \in DOMAIN state.intents : state'.intents[j].task = state.intents[j].task
      BY <1>1, <2>2, UncertainEffect
    <2>4. \A j \in DOMAIN state'.intents :
            state'.intents[j].task \in state.tasks /\ Builder(state'.intents[j].task)
      BY <2>3 DEF ControllerInv, FilesTell
    <2>5. QED
      BY <1>1, <1>5, <1>7, <2>1, <2>3, <2>4, HoldingStepKeeps
  <1>15. CASE CheckpointUncertainSwallowed(p)
    <2>1. Moved(p, "idle", None) /\ UNCHANGED state
      BY <1>1, <1>15, Moves DEF CheckpointUncertainSwallowed
    <2>2. QED
      BY <1>1, <1>5, <1>7, <2>1, QuietStepKeeps
  <1>16. QED
    BY <1>8, <1>9, <1>10, <1>11, <1>12, <1>13, <1>14, <1>15

\* A killed process leaves its command, and perhaps the target's lock, where it was.
LEMMA CrashKeeps ==
  ASSUME ControllerInv, NEW p \in Processes, CrashIntegrating(p)
  PROVE  ControllerInv' /\ Onward
  <1>1. Moved(p, "idle", None)
    BY ProcessFacts, Moves DEF CrashIntegrating, Crash
  <1>2. UNCHANGED <<state, tip, advanced>> /\ Gains
    BY ProcessFacts DEF CrashIntegrating, Crash, Gains
  <1>3. QED
    BY <1>1, <1>2, IdleTells, QuietStepKeeps

\* The catch block of an integration.
UncertainOutcome(c, i) ==
    [state EXCEPT !.hold = TRUE,
                  !.integrations[i].status = "RECONCILIATION_REQUIRED",
                  !.outcomes = Append(@, [cycle |-> c,
                                          status |-> "INTEGRATION_RECONCILIATION_REQUIRED"])]

LEMMA UncertainOutcomeEffect ==
  ASSUME state \in State, NEW c \in Cycles, NEW i, state' = UncertainOutcome(c, i)
  PROVE  /\ Still(state, state') /\ SameFiles(state, state') /\ state'.hold
         /\ state'.intents = state.intents
  <1> DEFINE entry == [cycle |-> c, status |-> "INTEGRATION_RECONCILIATION_REQUIRED"]
             outcomes == Append(state.outcomes, entry)
             marked == Marked(state.integrations, i, "RECONCILIATION_REQUIRED")
  <1>1. DOMAIN state = Fields /\ state.outcomes \in Seq(Outcome)
    BY StateFields, LedgerTypes
  <1>2. entry \in Outcome
    BY DEF Outcome
  <1>3. marked \in Seq(Integration)
    BY MarkedIntegrations
  <1>4. state' = [state EXCEPT !.hold = TRUE, !.integrations = marked, !.outcomes = outcomes]
    BY DEF UncertainOutcome, Marked
  <1> HIDE DEF entry, marked
  <1>5. outcomes \in Seq(Outcome)
    BY <1>1, <1>2
  <1> HIDE DEF outcomes
  <1>6. state' \in State
    BY <1>3, <1>4, <1>5, ZenonT(60) DEF State, Integration, Outcome
  <1>7. Still(state, state')
    BY <1>1, <1>4, <1>6 DEF Fields, Still
  <1>8. SameFiles(state, state') /\ state'.hold /\ state'.intents = state.intents
    BY <1>1, <1>4 DEF Fields, SameFiles
  <1>9. QED
    BY <1>7, <1>8

\* What a process that integrates has made sure of.
LEMMA IntegrationTells ==
  ASSUME NEW p \in Processes, NEW step \in IntegrationSteps, NEW c \in Cycles,
         Moved(p, step, c), Accepted(c)', step # "preparing" => HeldOrClosed(c)',
         step = "advanced" => c \in Range(advanced)'
  PROVE  JobTells(p)'
  BY DEF Moved, JobTells, PrepareSteps, CheckpointSteps, IntegrationSteps

LEMMA IntegrationFacts ==
  ASSUME ControllerInv, NEW p \in Processes, NEW step \in IntegrationSteps, At(p, step)
  PROVE  LET c == Subject(p)
         IN  /\ c \in Cycles /\ Accepted(c)
             /\ step # "preparing" => HeldOrClosed(c)
             /\ step = "advanced" => c \in Range(advanced)
  BY ProcessFacts DEF JobTells, At, Subject

\* A mutation of an integration that leaves the hold up.
LEMMA LedgerStepKeeps ==
  ASSUME ControllerInv, NEW p \in Processes, NEW step, NEW subject, Moved(p, step, subject),
         step # "committed", JobTells(p)', Gains, UNCHANGED <<tip, advanced>>,
         Still(state, state'), SameFiles(state, state'), state'.hold,
         state'.intents = state.intents
  PROVE  ControllerInv' /\ Onward
  <1>1. \A i \in DOMAIN state'.intents :
          state'.intents[i].task \in state.tasks /\ Builder(state'.intents[i].task)
    BY DEF ControllerInv, FilesTell
  <1>2. QED
    BY <1>1, HoldingStepKeeps

\* The mutation that closes a cycle as integrated, its process staying or ending.
LEMMA IntegratedStepKeeps ==
  ASSUME ControllerInv, NEW p \in Processes, At(p, "advanced"),
         state' = Integrated(Subject(p)), UNCHANGED <<tip, advanced>>, Gains,
         Moved(p, "idle", None) \/ Moved(p, "recovering", Subject(p))
  PROVE  ControllerInv' /\ Onward
  <1>1. "advanced" \in IntegrationSteps /\ "recovering" \in IntegrationSteps
    BY DEF IntegrationSteps
  <1>2. PICK c \in Cycles : /\ c = Subject(p) /\ Accepted(c) /\ HeldOrClosed(c)
                            /\ c \in Range(advanced)
    BY <1>1, IntegrationFacts
  <1>3. CycleInv /\ tip \in Cycles \cup {None}
    BY ProcessFacts
  <1>4. /\ CycleInv' /\ Onward /\ SameFiles(state, state') /\ state'.intents = state.intents
        /\ state.hold => state'.hold \/ Open(state)' = {}
    BY <1>2, <1>3, IntegratedKeeps
  <1>5. /\ Checkpointed(state)' = Checkpointed(state)
        /\ state'.workspaces = state.workspaces /\ state'.checkpoints = state.checkpoints
    BY <1>4 DEF SameFiles, Checkpointed
  <1>6. FilesTell'
    BY <1>4, <1>5 DEF ControllerInv, FilesTell, Gains, Onward
  <1>7. BranchTells'
    BY <1>4, BranchKept DEF ControllerInv
  <1>8. UnsettledIntentHolds'
    BY <1>4, <1>5, <1>6, NothingUnsettled DEF ControllerInv, UnsettledIntentHolds
  <1>9. Accepted(c)' /\ HeldOrClosed(c)'
    BY <1>2, <1>4 DEF Onward
  <1>10. JobTells(p)'
    BY <1>1, <1>2, <1>9, IdleTells, IntegrationTells
  <1>11. \A q \in Processes \ {p} :
           At(q, "committed") => Subject(q) \notin Checkpointed(state)'
    BY <1>5 DEF ControllerInv, JobsTell, JobTells, At, Subject
  <1>12. state.workspaces \subseteq state'.workspaces /\ tip' \in Cycles \cup {None}
         /\ Range(advanced) \subseteq Range(advanced)'
    BY <1>3, <1>5
  <1>13. QED
    BY <1>4, <1>6, <1>7, <1>8, <1>10, <1>11, <1>12, StepKeeps

\* The compare-and-swap: no candidate is on the branch twice, for each was accepted on
\* top of the one before it.
LEMMA AdvanceTargetKeeps ==
  ASSUME ControllerInv, NEW p \in Processes, UpdateRef(p)
  PROVE  ControllerInv' /\ Onward
  <1> DEFINE n == Len(advanced)
  <1>1. "fetched" \in IntegrationSteps /\ "advanced" \in IntegrationSteps /\ "advanced" \in Steps
    BY DEF IntegrationSteps, Steps
  <1>2. PICK c \in Cycles : c = Subject(p) /\ Accepted(c) /\ HeldOrClosed(c)
    BY <1>1, IntegrationFacts DEF UpdateRef
  <1>3. /\ tip = state.cycles[c].target /\ tip' = c /\ advanced' = Append(advanced, c)
        /\ UNCHANGED state
    BY <1>2 DEF UpdateRef
  <1>4. Moved(p, "advanced", c)
    BY <1>1, <1>2, ProcessFacts, Moves DEF UpdateRef
  <1>5. BranchTells
    BY DEF ControllerInv
  <1>6. /\ advanced \in Seq(Cycles) /\ n \in Nat /\ DOMAIN advanced = 1 .. n
        /\ \A i \in 1 .. n : advanced[i] \in Cycles
        /\ tip = IF n = 0 THEN None ELSE advanced[n]
    BY <1>5 DEF BranchTells
  <1>7. ASSUME NEW i \in 1 .. n, advanced[i] = c PROVE FALSE
    <2>1. tip = IF i = 1 THEN None ELSE advanced[i - 1]
      BY <1>3, <1>5, <1>6, <1>7 DEF BranchTells
    <2>2. tip = advanced[n] /\ tip \in Cycles
      BY <1>6
    <2>3. i # 1
      BY <2>1, <2>2, NoneAssumption
    <2>4. i - 1 \in 1 .. n /\ n \in 1 .. n /\ i - 1 # n
      BY <1>6, <2>3
    <2>5. QED
      BY <1>5, <1>6, <2>1, <2>2, <2>3, <2>4 DEF BranchTells, IsInjective
  <1>8. /\ advanced' \in Seq(Cycles) /\ DOMAIN advanced' = 1 .. n + 1 /\ Len(advanced') = n + 1
        /\ advanced'[n + 1] = c
        /\ \A i \in 1 .. n : advanced'[i] = advanced[i]
    BY <1>2, <1>3, <1>6
  <1>9. Range(advanced) \subseteq Range(advanced)' /\ c \in Range(advanced)'
    BY <1>6, <1>8 DEF Range
  <1>10. IsInjective(advanced')
    BY <1>5, <1>6, <1>7, <1>8 DEF BranchTells, IsInjective
  <1> HIDE DEF n
  <1>11. ASSUME NEW i \in 1 .. n + 1
         PROVE  /\ state'.cycles[advanced'[i]] # None
                /\ state'.cycles[advanced'[i]].decision = "ACCEPT"
                /\ state'.cycles[advanced'[i]].target = IF i = 1 THEN None ELSE advanced'[i - 1]
                /\ state'.hold \/ state'.finals[advanced'[i]] # None
    <2>1. CASE i = n + 1
      <3>1. i = 1 <=> n = 0
        BY <1>6, <2>1
      <3>2. n # 0 => advanced'[i - 1] = advanced[n]
        BY <1>6, <1>8, <2>1
      <3>3. QED
        BY <1>2, <1>3, <1>6, <1>8, <2>1, <3>1, <3>2 DEF Accepted, HeldOrClosed
    <2>2. CASE i # n + 1
      <3>1. i \in 1 .. n /\ (i # 1 => i - 1 \in 1 .. n)
        BY <1>6, <2>2
      <3>2. QED
        BY <1>3, <1>5, <1>6, <1>8, <3>1 DEF BranchTells, Accepted, HeldOrClosed
    <2>3. QED
      BY <2>1, <2>2
  <1>12. tip' = IF advanced' = <<>> THEN None ELSE advanced'[Len(advanced')]
    BY <1>3, <1>6, <1>8
  <1>13. BranchTells'
    <2>1. \A d \in Cycles :
            state'.finals[d] # None /\ state'.finals[d].reason = "INTEGRATED"
              => d \in Range(advanced)'
      BY <1>3, <1>5, <1>9 DEF BranchTells
    <2>2. QED
      BY <1>8, <1>10, <1>11, <1>12, <2>1 DEF BranchTells, Accepted, HeldOrClosed
  <1>14. CycleInv'
    BY <1>3 DEF ControllerInv, CycleInv, PendingTells, ActiveTells, FinalsTell, TasksTell,
       OpenTells, Stalled, ResultsTell, ChainTells, ReviewsTell, AcceptTells, MayAccept, LatestReview
  <1>15. Onward
    BY <1>3 DEF Onward, Accepted, HeldOrClosed
  <1>16. Gains
    BY ProcessFacts DEF UpdateRef, Gains
  <1>17. FilesTell' /\ UnsettledIntentHolds'
    BY <1>3, <1>16 DEF ControllerInv, FilesTell, Gains, Checkpointed, UnsettledIntentHolds
  <1>18. Accepted(c)' /\ HeldOrClosed(c)'
    BY <1>2, <1>3 DEF Accepted, HeldOrClosed
  <1>19. JobTells(p)'
    BY <1>1, <1>2, <1>4, <1>9, <1>18, IntegrationTells
  <1>20. \A q \in Processes \ {p} :
           At(q, "committed") => Subject(q) \notin Checkpointed(state)'
    BY <1>3 DEF ControllerInv, JobsTell, JobTells, At, Subject
  <1>21. tip' \in Cycles \cup {None} /\ state.workspaces \subseteq state'.workspaces
    BY <1>2, <1>3
  <1>22. QED
    BY <1>4, <1>9, <1>13, <1>14, <1>15, <1>16, <1>17, <1>19, <1>20, <1>21, StepKeeps

LEMMA BeginKeeps ==
  ASSUME ControllerInv, NEW p \in Processes, NEW c \in Cycles, IntegrationBegin(p, c)
  PROVE  ControllerInv' /\ Onward
  <1>1. "preparing" \in IntegrationSteps /\ "preparing" \in Steps
    BY DEF IntegrationSteps, Steps
  <1>2. UNCHANGED <<state, tip, advanced>> /\ Gains
    BY ProcessFacts DEF IntegrationBegin, Gains
  <1>3. Accepted(c)
    BY DEF IntegrationBegin, Approved, Accepted
  <1>4. Moved(p, "preparing", c)
    BY <1>1, ProcessFacts, Moves DEF IntegrationBegin
  <1>5. Accepted(c)'
    BY <1>2, <1>3 DEF Accepted
  <1>6. JobTells(p)'
    BY <1>1, <1>4, <1>5, IntegrationTells
  <1>7. QED
    BY <1>2, <1>4, <1>6, QuietStepKeeps

LEMMA IntegrateKeeps ==
  ASSUME ControllerInv, NEW p \in Processes, Integrate(p)
  PROVE  ControllerInv' /\ Onward
  <1>1. /\ TypeOK /\ CycleInv /\ state \in State
        /\ targetLock \in Processes \cup {None, "stale"}
        /\ clones \subseteq Task /\ commits \subseteq Task /\ reported \subseteq Task
    BY ProcessFacts
  <1>2. /\ "preparing" \in IntegrationSteps /\ "prepared" \in IntegrationSteps
        /\ "fetched" \in IntegrationSteps /\ "advanced" \in IntegrationSteps
        /\ "recovering" \in IntegrationSteps
    BY DEF IntegrationSteps
  <1>3. IntegrationSteps \subseteq Steps
    BY DEF Steps
  <1>4. job[p].step \in IntegrationSteps
    BY <1>2 DEF At, Integrate, IntegrationIntent, IntegrationIntentFails, LockTarget,
       LockTargetFails, UpdateRef, UpdateRefFails, IntegrationComplete,
       IntegrationCompleteFails, IntegrationUncertain, IntegrationUncertainSwallowed
  <1>5. PICK c \in Cycles : /\ c = Subject(p) /\ Accepted(c)
                            /\ job[p].step # "preparing" => HeldOrClosed(c)
    BY <1>4, IntegrationFacts DEF At
  <1>6. Gains
    BY <1>1 DEF Gains, Integrate, IntegrationIntent, IntegrationIntentFails, LockTarget,
       LockTargetFails, UpdateRef, UpdateRefFails, IntegrationComplete, ReleaseTarget,
       IntegrationCompleteFails, IntegrationUncertain, IntegrationUncertainSwallowed
  <1>7. ASSUME Moved(p, "idle", None) PROVE JobTells(p)'
    BY <1>7, IdleTells
  <1>8. ASSUME NEW step \in IntegrationSteps, step \notin {"preparing", "advanced"},
               Moved(p, step, c), Accepted(c)', HeldOrClosed(c)'
        PROVE  JobTells(p)'
    BY <1>8, IntegrationTells
  <1>9. ASSUME state' = Prepared(c), UNCHANGED <<tip, advanced>>,
               Moved(p, "idle", None) \/ Moved(p, "prepared", c)
        PROVE  ControllerInv' /\ Onward
    <2>1. /\ Still(state, state') /\ SameFiles(state, state') /\ state'.hold
          /\ state'.intents = state.intents
      BY <1>1, <1>9, PreparedEffect
    <2>2. Accepted(c)' /\ HeldOrClosed(c)'
      BY <1>5, <2>1 DEF Accepted, HeldOrClosed, Still
    <2>3. JobTells(p)'
      BY <1>2, <1>7, <1>8, <1>9, <2>2
    <2>4. QED
      BY <1>6, <1>9, <2>1, <2>3, LedgerStepKeeps
  <1>10. CASE IntegrationIntent(p)
    BY <1>1, <1>2, <1>3, <1>5, <1>9, <1>10, Moves DEF IntegrationIntent
  <1>11. ASSUME UNCHANGED <<state, tip, advanced>>, Moved(p, "idle", None)
         PROVE  ControllerInv' /\ Onward
    BY <1>6, <1>7, <1>11, QuietStepKeeps
  <1>12. CASE IntegrationIntentFails(p)
    <2>1. Moved(p, "idle", None) /\ UNCHANGED <<tip, advanced>>
          /\ (UNCHANGED state \/ state' = Prepared(c))
      BY <1>1, <1>5, <1>12, Moves DEF IntegrationIntentFails
    <2>2. QED
      BY <1>9, <1>11, <2>1
  <1>13. CASE LockTarget(p) \/ UpdateRefFails(p)
    <2>1. UNCHANGED <<state, tip, advanced>> /\ job[p].step # "preparing"
      BY <1>13 DEF LockTarget, UpdateRefFails, At
    <2>2. Moved(p, "fetched", c) \/ Moved(p, "recovering", c)
      BY <1>1, <1>2, <1>3, <1>5, <1>13, Moves DEF LockTarget, UpdateRefFails
    <2>3. Accepted(c)' /\ HeldOrClosed(c)'
      BY <1>5, <2>1 DEF Accepted, HeldOrClosed
    <2>4. JobTells(p)'
      BY <1>2, <1>8, <2>2, <2>3
    <2>5. QED
      BY <1>6, <2>1, <2>2, <2>4, QuietStepKeeps
  <1>14. CASE LockTargetFails(p) \/ IntegrationUncertainSwallowed(p)
    BY <1>1, <1>11, <1>14, Moves DEF LockTargetFails, IntegrationUncertainSwallowed
  <1>15. CASE UpdateRef(p)
    BY <1>15, AdvanceTargetKeeps
  <1>16. CASE IntegrationComplete(p)
    BY <1>1, <1>6, <1>16, Moves, IntegratedStepKeeps DEF IntegrationComplete
  <1>17. CASE IntegrationCompleteFails(p)
    <2>1. /\ Moved(p, "recovering", c) /\ At(p, "advanced") /\ UNCHANGED <<tip, advanced>>
          /\ UNCHANGED state \/ state' = Integrated(Subject(p))
      BY <1>1, <1>2, <1>3, <1>5, <1>17, Moves DEF IntegrationCompleteFails
    <2>2. CASE UNCHANGED state
      <3>1. Accepted(c)' /\ HeldOrClosed(c)'
        BY <1>5, <2>1, <2>2 DEF Accepted, HeldOrClosed, At
      <3>2. JobTells(p)'
        BY <1>2, <1>8, <2>1, <3>1
      <3>3. QED
        BY <1>6, <2>1, <2>2, <3>2, QuietStepKeeps
    <2>3. CASE state' = Integrated(Subject(p))
      BY <1>5, <1>6, <2>1, <2>3, IntegratedStepKeeps
    <2>4. QED
      BY <2>1, <2>2, <2>3
  <1>18. CASE IntegrationUncertain(p)
    <2>1. Moved(p, "idle", None) /\ UNCHANGED <<tip, advanced>>
      BY <1>1, <1>18, Moves DEF IntegrationUncertain
    <2>2. state' = UncertainOutcome(c, FirstIntegration(state, c))
      BY <1>5, <1>18 DEF IntegrationUncertain, UncertainOutcome
    <2>3. /\ Still(state, state') /\ SameFiles(state, state') /\ state'.hold
          /\ state'.intents = state.intents
      BY <1>1, <2>2, UncertainOutcomeEffect
    <2>4. QED
      BY <1>6, <1>7, <2>1, <2>3, LedgerStepKeeps
  <1>19. QED
    BY <1>10, <1>12, <1>13, <1>14, <1>15, <1>16, <1>17, <1>18 DEF Integrate

-----------------------------------------------------------------------------
(* The whole controller                                                       *)

LEMMA NextKeeps ==
  ASSUME ControllerInv, Next
  PROVE  ControllerInv' /\ Onward
  <1>1. CASE \/ Mutation(Enqueue) \/ Mutation(StartRole) \/ Mutation(Finish)
             \/ Mutation(Interrupt) \/ Mutation(Terminate) \/ Mutation(Submit)
    BY <1>1, MutationKeeps DEF Mutation
  <1>2. ASSUME NEW p \in Processes,
               \/ StartWork(p) /\ UNCHANGED targetVars
               \/ \E c \in Cycles : IntegrationBegin(p, c)
               \/ Proceed(p)
               \/ CrashIntegrating(p)
        PROVE  ControllerInv' /\ Onward
    <2>1. CASE Work(p) /\ UNCHANGED targetVars
      BY <2>1, PrepareKeeps, CheckpointKeeps DEF Work
    <2>2. QED
      BY <1>2, <2>1, StartKeeps, BeginKeeps, IntegrateKeeps, CrashKeeps DEF Proceed
  <1>3. QED
    BY <1>1, <1>2 DEF Next

LEMMA StutterKeeps ==
  ASSUME ControllerInv, UNCHANGED vars
  PROVE  ControllerInv'
  <1>1. /\ state' = state /\ job' = job /\ clones' = clones /\ commits' = commits
        /\ reported' = reported /\ tip' = tip /\ targetLock' = targetLock /\ advanced' = advanced
    BY DEF vars, workVars, targetVars
  <1>2. CycleInv'
    BY <1>1 DEF ControllerInv, CycleInv, PendingTells, ActiveTells, FinalsTell, TasksTell,
       OpenTells, Stalled, ResultsTell, ChainTells, ReviewsTell, AcceptTells, MayAccept, LatestReview
  <1>3. TypeOK' /\ FilesTell' /\ UnsettledIntentHolds'
    BY <1>1 DEF ControllerInv, TypeOK, FilesTell, Checkpointed, UnsettledIntentHolds
  <1>4. JobsTell' /\ OneCommitter'
    BY <1>1 DEF ControllerInv, JobsTell, JobTells, OneCommitter, At, Subject, Accepted,
       HeldOrClosed, Checkpointed
  <1>5. BranchTells'
    BY <1>1 DEF ControllerInv, BranchTells, Accepted, HeldOrClosed
  <1>6. QED
    BY <1>2, <1>3, <1>4, <1>5 DEF ControllerInv

LEMMA InitKeeps == Init => ControllerInv
  <1> SUFFICES ASSUME Init PROVE ControllerInv
    OBVIOUS
  <1>1. PICK mode \in Modes : state = InitialState(mode)
    BY DEF Init
  <1>2. /\ job = [q \in Processes |-> Idle] /\ clones = {} /\ commits = {} /\ reported = {}
        /\ tip = None /\ targetLock = None /\ advanced = <<>>
    BY DEF Init, NoWork, NoTarget
  <1>3. /\ CycleInv /\ state \in State /\ Checkpointed(state) = {}
        /\ state.workspaces = {} /\ state.intents = <<>> /\ state.checkpoints = <<>>
        /\ \A c \in Cycles : state.cycles[c] = None /\ state.finals[c] = None
    BY <1>1, InitialFacts
  <1>4. TypeOK
    <2>1. Idle \in [step : Steps, subject : Task \cup Cycles \cup {None}]
      BY DEF Idle, Steps
    <2>2. job \in [Processes -> [step : Steps, subject : Task \cup Cycles \cup {None}]]
      BY <1>2, <2>1
    <2>3. QED
      BY <1>2, <1>3, <2>2 DEF TypeOK
  <1>5. \A q \in Processes : job[q].step = "idle"
    BY <1>2 DEF Idle
  <1>6. JobsTell /\ OneCommitter
    BY <1>5 DEF JobsTell, JobTells, OneCommitter, At, PrepareSteps, CheckpointSteps,
       IntegrationSteps
  <1>7. FilesTell /\ UnsettledIntentHolds
    BY <1>3 DEF FilesTell, UnsettledIntentHolds, IsInjective
  <1>8. BranchTells
    BY <1>2, <1>3 DEF BranchTells, IsInjective
  <1>9. QED
    BY <1>3, <1>4, <1>6, <1>7, <1>8 DEF ControllerInv

\* Every reachable state satisfies the invariant.
THEOREM ControllerInvariant == Spec => []ControllerInv
  <1>1. ControllerInv /\ [Next]_vars => ControllerInv'
    BY NextKeeps, StutterKeeps
  <1>2. QED
    BY <1>1, InitKeeps, PTL DEF Spec

\* Every variable of the controller keeps its type, whatever commands run together.
THEOREM TypesHold == Spec => []TypeOK
  <1>1. ControllerInv => TypeOK
    BY DEF ControllerInv
  <1>2. QED
    BY <1>1, ControllerInvariant, PTL

\* The state is always one that validateMachineStateV2 accepts: no mutation is refused for
\* what an earlier one left.
THEOREM AlwaysValid == Spec => []ValidState
  <1>1. ControllerInv => ValidState
    <2> SUFFICES ASSUME ControllerInv PROVE ValidState
      OBVIOUS
    <2>1. \A c \in Cycles :
            state.active = c <=> state.cycles[c] # None /\ state.cycles[c].status \notin Terminal
      BY DEF ControllerInv, CycleInv, ActiveTells
    <2>2. /\ state.pending # None => /\ state.pending \in state.tasks
                                     /\ \A res \in state.results : res.task # state.pending
          /\ \A res \in state.results : res.task \in state.tasks
          /\ \A r1, r2 \in state.results : r1.task = r2.task => r1 = r2
      BY DEF ControllerInv, CycleInv, PendingTells, ResultsTell
    <2>3. state.workspaces \subseteq state.tasks
      BY DEF ControllerInv, FilesTell
    <2>4. \A c \in Cycles : \A i, j \in DOMAIN state.reviews[c] :
            i # j => state.reviews[c][i].iteration # state.reviews[c][j].iteration
      BY DEF ControllerInv, CycleInv, ReviewsTell
    <2>5. QED
      BY <2>1, <2>2, <2>3, <2>4 DEF ValidState
  <1>2. QED
    BY <1>1, ControllerInvariant, PTL

\* What the architect accepts is the reviewed, passed and checkpointed candidate of the
\* cycle's last iteration, whatever the operator calls and in whatever order.
THEOREM AcceptsOnMerit == Spec => []AcceptedOnMerit
  <1>1. ControllerInv => AcceptedOnMerit
    <2> SUFFICES ASSUME ControllerInv, NEW c \in Cycles,
                        Exists(c), state.cycles[c].decision = "ACCEPT"
                 PROVE  /\ MayAccept(c)
                        /\ LatestReview(c).reviewed = state.cycles[c].candidate
                        /\ LatestReview(c).iteration = state.cycles[c].iteration
                        /\ Builds(c, state.cycles[c].candidate)
                             \subseteq Checkpointed(state) \cap commits
      BY DEF AcceptedOnMerit
    <2>1. /\ MayAccept(c)
          /\ LatestReview(c).reviewed = state.cycles[c].candidate
          /\ LatestReview(c).iteration = state.cycles[c].iteration
          /\ \A task \in state.tasks :
               task.cycle = c /\ Builder(task) => task \in Checkpointed(state)
      BY DEF ControllerInv, CycleInv, AcceptTells, Exists
    <2>2. Checkpointed(state) \subseteq commits
      BY DEF ControllerInv, FilesTell
    <2>3. QED
      BY <2>1, <2>2 DEF Builds, Builder
  <1>2. QED
    BY <1>1, ControllerInvariant, PTL

\* No result that took too long says anything but BLOCKED, and no cycle that took too long
\* is accepted.
THEOREM LimitsHold == Spec => []WithinLimits
  <1>1. ControllerInv => WithinLimits
    BY DEF ControllerInv, CycleInv, ResultsTell, AcceptTells, WithinLimits, Exists
  <1>2. QED
    BY <1>1, ControllerInvariant, PTL

\* Each iteration is built on the candidate of the one before it.
THEOREM ChainHolds == Spec => []IterationsChain
  <1>1. ControllerInv => IterationsChain
    <2> SUFFICES ASSUME ControllerInv, NEW c \in Cycles
                 PROVE  /\ Exists(c) =>
                             /\ state.cycles[c].base = state.cycles[c].iteration - 1
                             /\ state.cycles[c].candidate \in
                                  {state.cycles[c].iteration - 1, state.cycles[c].iteration}
                        /\ \A i \in 1 .. MaxIterations :
                             Builds(c, i + 1) # {} => Revised(state, c, i)
      BY DEF IterationsChain, Revised
    <2>1. ChainTells
      BY DEF ControllerInv, CycleInv
    <2>2. ASSUME NEW i \in 1 .. MaxIterations, Builds(c, i + 1) # {}
          PROVE  Revised(state, c, i)
      <3>1. PICK task \in state.tasks : /\ task.cycle = c /\ Builder(task)
                                        /\ task.iteration = i + 1
        BY <2>2 DEF Builds, Builder
      <3>2. i + 1 > 1 /\ (i + 1) - 1 = i
        BY IterationAssumption
      <3>3. QED
        BY <2>1, <3>1, <3>2 DEF ChainTells
    <2>3. QED
      BY <2>1, <2>2 DEF ChainTells, Exists
  <1>2. QED
    BY <1>1, ControllerInvariant, PTL

\* A cycle has its final summary when it is closed, and not before.
THEOREM SummaryHolds == Spec => []OneFinalSummary
  <1>1. ControllerInv => OneFinalSummary
    BY DEF ControllerInv, CycleInv, FinalsTell, OneFinalSummary, Exists
  <1>2. QED
    BY <1>1, ControllerInvariant, PTL

\* No command changes a closed cycle or its final summary.
THEOREM ClosedStays == Spec => ClosedForGood
  <1>1. ControllerInv /\ [Next]_vars =>
          [\A c \in Cycles : state.finals[c] # None =>
             state'.finals[c] = state.finals[c] /\ state'.cycles[c] = state.cycles[c]]_vars
    <2> SUFFICES ASSUME ControllerInv, Next, NEW c \in Cycles, state.finals[c] # None
                 PROVE  state'.finals[c] = state.finals[c] /\ state'.cycles[c] = state.cycles[c]
      OBVIOUS
    <2>1. Onward
      BY NextKeeps
    <2>2. QED
      BY <2>1 DEF Onward
  <1>2. QED
    BY <1>1, ControllerInvariant, PTL DEF Spec, ClosedForGood

\* However many checkpoint commands race, a candidate has one receipt, of a commit that
\* was made in a workspace that is registered.
THEOREM ReceiptsHold == Spec => []OneReceiptPerCommit
  <1>1. ControllerInv => OneReceiptPerCommit
    BY DEF ControllerInv, FilesTell, OneReceiptPerCommit
  <1>2. QED
    BY <1>1, ControllerInvariant, PTL

\* The hold of a checkpoint that was not completed is lowered by no other command.
THEOREM IntentHolds == Spec => []UnsettledIntentHolds
  <1>1. ControllerInv => UnsettledIntentHolds
    BY DEF ControllerInv
  <1>2. QED
    BY <1>1, ControllerInvariant, PTL

\* Racing integrations move the target branch to a candidate once, after its acceptance.
THEOREM TargetHolds == Spec => []TargetMovesOnce
  <1>1. ControllerInv => TargetMovesOnce
    BY DEF ControllerInv, BranchTells, Accepted, TargetMovesOnce
  <1>2. QED
    BY <1>1, ControllerInvariant, PTL

\* A target branch that moved for a cycle that is not closed is held, and a cycle closed as
\* integrated is on the branch.
THEOREM BranchHolds == Spec => []AdvancedOrHeld
  <1>1. ControllerInv => AdvancedOrHeld
    BY DEF ControllerInv, BranchTells, HeldOrClosed, AdvancedOrHeld, Range
  <1>2. QED
    BY <1>1, ControllerInvariant, PTL
=============================================================================
