------------------------ MODULE GeneralAutopilot_proofs ------------------------
(***************************************************************************)
(* The general autopilot, for any number of cycles and rounds: a run that fails    *)
(* leaves its cycle closed, and a run that returns has validated what it reports,  *)
(* a candidate with a receipt, whatever an operator does to the state meanwhile.  *)
(***************************************************************************)
EXTENDS GeneralAutopilot, RoleCycle_proofs

-----------------------------------------------------------------------------
(* The invariant                                                             *)

\* The roles a general run asks: a revision goes to the builder.
Served == Purposes \ {"ARCHITECT_REVISION"}

\* What the answer of a role may say.
Said(purpose) ==
    CASE purpose = "ARCHITECT_PLAN" -> {"PLANNED"}
      [] purpose = "BUILDER_IMPLEMENTATION" -> {"BUILT"}
      [] purpose = "ANALYST_REVIEW" -> {"PASS", "REVISE"}
      [] OTHER -> {"ACCEPT", "REJECT"}

\* Answers recorded before this role is asked in this round.
Before(purpose, round) ==
    CASE purpose = "ARCHITECT_PLAN" -> 0
      [] purpose = "BUILDER_IMPLEMENTATION" -> 2 * round - 1
      [] purpose = "ANALYST_REVIEW" -> 2 * round
      [] OTHER -> 2 * round + 1

Starting == {"cloning", "enqueueing", "handoff"}
Asking == {"registering", "beginning", "calling"}
Building == {"writing", "committing", "validating"}
Ending == {"checking", "leaving", "returned"}
Failing == {"halting", "closing", "thrown", "dead"}
Answering == Building \cup {"finishing", "completing"}

\* The role that is asked is the one expected, and what was answered is one of its answers.
RoleTells ==
    /\ run.expects \in Served
    /\ run.at \in Asking \cup Answering =>
         run.task \in Task /\ run.task.purpose = run.expects
    /\ run.at \in Building => Builder(run.task)
    /\ run.at \in Answering =>
         run.answer \in Result /\ run.answer.verdict \in Said(run.expects)

CallsTell ==
    /\ run.at \in Starting \cup Asking => run.calls <= Before(run.expects, run.round)
    /\ run.at \in Answering => run.calls <= Before(run.expects, run.round) + 1

\* The run's process is at work on the candidate of the run's task only.
WorkTells ==
    ~At(Runner, "idle") => In("committing") /\ Subject(Runner) = run.task

\* The candidate that the run has in hand has its receipt, and while the run goes on it is
\* validated; what an operator checkpoints is of no account.
CandidateTells ==
    run.candidate # None =>
        /\ run.candidate \in Task /\ Builder(run.candidate)
        /\ run.candidate \in Checkpointed(state)
        /\ run.at \notin Failing =>
             run.candidate \in validated \/ (In("validating") /\ run.candidate = run.task)

\* What a decision made of its cycle.
Concluded(task, verdict) ==
    LET cycle == state.cycles[task.cycle]
    IN  /\ state.finals[task.cycle] # None /\ cycle # None
        /\ verdict = "ACCEPT" =>
             /\ cycle.decision = "ACCEPT" /\ cycle.status = "ACCEPTED"
             /\ cycle.stage = "READY_FOR_INTEGRATION" /\ cycle.candidate = task.iteration
        /\ verdict = "REJECT" => cycle.status = "REJECTED"

Decides(res) ==
    res.task.purpose = "ARCHITECT_FINAL_DECISION" /\ res.verdict \in {"ACCEPT", "REJECT"}

\* Of a general controller's state: a cycle is open only with a task to serve, none is
\* closed without a hold, and each decision on file was carried out.
GeneralTells ==
    /\ General
    /\ state.active = None \/ state.pending # None
    /\ \A c \in Cycles : state.finals[c] # None => state.hold
    /\ \A res \in state.results : Decides(res) => Concluded(res.task, res.verdict)

\* The catch block found a cycle and closed it: there is a summary, so there is a hold.
ClosedTells ==
    run.closed => /\ In("thrown") /\ state.active = None
                  /\ \E c \in Cycles : state.finals[c] # None

\* A run that ends has had its cycle decided as its last answer said, on the candidate that
\* it has in hand.
EndTells ==
    run.at \in Ending =>
        /\ run.task \in Task /\ run.answer.verdict \in Said("ARCHITECT_FINAL_DECISION")
        /\ OfCandidate(run.task) /\ Concluded(run.task, run.answer.verdict)

Types ==
    /\ job \in [Processes -> [step : WorkSteps, subject : WorkSubjects]]
    /\ clones \subseteq Task /\ commits \subseteq Task /\ reported \subseteq Task
    /\ run \in Run
    /\ validated \subseteq Task
    /\ target \in {Untouched, "touched"}

\* What is true of the state, and of the run and its work.
StateTells == CycleInv /\ GeneralTells

RunTells == RoleTells /\ CallsTell /\ WorkTells /\ CandidateTells /\ ClosedTells /\ EndTells

RunInv == Types /\ StateTells /\ RunTells

\* The commands of the run and of the operators side by side, as in module RoleCycle_proofs.
GeneralInv == RunInv /\ WorkInv

-----------------------------------------------------------------------------
(* The steps, by what they do to the state                                     *)

\* A closed cycle stays as it is, and so does every receipt.
Kept ==
    /\ Checkpointed(state) \subseteq Checkpointed(state)'
    /\ \A c \in Cycles : state.finals[c] # None =>
         state'.finals[c] # None /\ state'.cycles[c] = state.cycles[c]

\* A decision on a cycle that is closed stays carried out.
LEMMA ConcludedKept ==
  ASSUME NEW task, task.cycle \in Cycles, NEW verdict, Concluded(task, verdict), Kept
  PROVE  Concluded(task, verdict)'
  BY DEF Concluded, Kept

\* Only a submission files a result.
LEMMA IssueFiles ==
  ASSUME NEW s, DOMAIN s = Fields, NEW c, NEW cycle, NEW purpose
  PROVE  Issue(s, c, cycle, purpose).results = s.results
  BY DEF Issue, Fields

LEMMA FinalizeFiles ==
  ASSUME NEW s, DOMAIN s = Fields, NEW c, NEW cycle, NEW status, NEW stage, NEW reason, NEW held
  PROVE  FinalizeTerminalCycle(s, c, cycle, status, stage, reason, held).results = s.results
  BY DEF FinalizeTerminalCycle, Fields

LEMMA QuietFiles ==
  ASSUME state \in State,
         \/ \E c \in Cycles : EnqueueRequest(c, None)
         \/ StartRole
         \/ \E ms \in Durations : FinishRole(ms) \/ TerminateCycle(ms)
  PROVE  state'.results = state.results
  <1>1. DOMAIN state = Fields
    BY StateFields
  <1>2. ASSUME NEW c \in Cycles, EnqueueRequest(c, None) PROVE state'.results = state.results
    <2> DEFINE begun == [state EXCEPT !.active = c]
    <2>1. DOMAIN begun = Fields /\ begun.results = state.results
      BY <1>1 DEF Fields
    <2>2. state' = Issue(begun, c, NewCycle(None), "ARCHITECT_PLAN")
      BY <1>2 DEF EnqueueRequest
    <2> HIDE DEF begun
    <2>3. QED
      BY <2>1, <2>2, IssueFiles
  <1>3. ASSUME StartRole PROVE state'.results = state.results
    BY <1>1, <1>3 DEF StartRole, Fields
  <1>4. ASSUME NEW ms \in Durations, FinishRole(ms) PROVE state'.results = state.results
    BY <1>1, <1>4 DEF FinishRole, Timed, Fields
  <1>5. ASSUME NEW ms \in Durations, TerminateCycle(ms) PROVE state'.results = state.results
    <2> DEFINE c == state.pending.cycle
               timed == IF state.timing.status = "EXECUTING"
                        THEN [state EXCEPT !.spent[c] = @ + ms] ELSE state
               held == TRUE
    <2>1. DOMAIN timed = Fields /\ timed.results = state.results
      BY <1>1 DEF Fields
    <2>2. state' = FinalizeTerminalCycle(timed, c, state.cycles[c], "HALTED", "FAILED",
                                         "FAIL_CLOSED", held)
      BY <1>5 DEF TerminateCycle
    <2> HIDE DEF timed, c, held
    <2>3. QED
      BY <2>1, <2>2, FinalizeFiles
  <1>6. QED
    BY <1>2, <1>3, <1>4, <1>5

\* A submission files one result, of the pending task.
LEMMA SubmitFiles ==
  ASSUME StateTells, NEW task, NEW r \in Result, SubmitResult(task, r)
  PROVE  state'.results = state.results \cup {ResultOf(task, r)}
  <1> DEFINE c == task.cycle
             filed == Recorded(task, r)
             results == state.results \cup {ResultOf(task, r)}
  <1>1. Acceptable(task, r) /\ General /\ CycleInv
    BY DEF SubmitResult, SubmitBlocked, SubmitPlan, SubmitRevision, SubmitBuild, SubmitReview,
       SubmitDecision, StateTells, GeneralTells
  <1>2. filed.results = results /\ DOMAIN filed = Fields
    BY <1>1, RecordedMidway DEF Midway
  <1> HIDE DEF filed, results
  <1>3. ASSUME \E s, cycle, purpose : /\ DOMAIN s = Fields /\ s.results = results
                                      /\ state' = Issue(s, c, cycle, purpose)
        PROVE  state'.results = results
    BY <1>3, IssueFiles
  <1>4. ASSUME \E cycle, status, stage, reason, held :
                 state' = FinalizeTerminalCycle(filed, c, cycle, status, stage, reason, held)
        PROVE  state'.results = results
    BY <1>2, <1>4, FinalizeFiles
  <1>5. ASSUME SubmitBlocked(task, r) \/ SubmitDecision(task, r) PROVE state'.results = results
    <2> DEFINE held == TRUE
    <2>1. \/ \E cycle, status, stage, reason :
               state' = FinalizeTerminalCycle(filed, c, cycle, status, stage, reason, held)
          \/ ~General
      BY <1>5 DEF SubmitBlocked, SubmitDecision, filed
    <2> HIDE DEF held
    <2>2. QED
      BY <1>1, <1>4, <2>1
  <1>6. ASSUME SubmitPlan(task, r) \/ SubmitRevision(task, r) PROVE state'.results = results
    <2> DEFINE s == [filed EXCEPT !.plans[c] = @ \cup {task.planRevision}]
    <2>1. DOMAIN s = Fields /\ s.results = results
      BY <1>2 DEF Fields
    <2>2. \E cycle : state' = Issue(s, c, cycle, "BUILDER_IMPLEMENTATION")
      BY <1>6 DEF SubmitPlan, SubmitRevision, filed
    <2> HIDE DEF s
    <2>3. QED
      BY <1>3, <2>1, <2>2
  <1>7. ASSUME SubmitBuild(task, r) PROVE state'.results = results
    <2>1. PICK record, cycle :
            state' = Issue([filed EXCEPT !.iterations = @ \cup {record}], c, cycle, "ANALYST_REVIEW")
      BY <1>7 DEF SubmitBuild, filed
    <2> DEFINE s == [filed EXCEPT !.iterations = @ \cup {record}]
    <2>2. DOMAIN s = Fields /\ s.results = results
      BY <1>2 DEF Fields
    <2>3. state' = Issue(s, c, cycle, "ANALYST_REVIEW")
      BY <2>1
    <2> HIDE DEF s
    <2>4. QED
      BY <1>3, <2>2, <2>3
  <1>8. ASSUME SubmitReview(task, r) PROVE state'.results = results
    <2> DEFINE review == [iteration |-> task.iteration, reviewed |-> r.subject,
                          verdict |-> r.verdict, evidence |-> r.evidence]
               after(record) == (state.iterations \ {record}) \cup {[record EXCEPT !.verdict = r.verdict]}
               reviewed(record) == [filed EXCEPT !.iterations = after(record),
                                                 !.reviews[c] = Append(@, review)]
    <2>1. filed.iterations = state.iterations
      BY <1>1, RecordedMidway DEF filed
    <2>2. PICK record :
            \/ \E cycle, purpose : state' = Issue(reviewed(record), c, cycle, purpose)
            \/ \E cycle, purpose :
                 state' = Issue([reviewed(record) EXCEPT !.hold = @ \/ r.verdict # "PASS"], c, cycle, purpose)
      BY <1>8, <2>1 DEF SubmitReview, filed
    <2> DEFINE s == reviewed(record)
    <2>3. DOMAIN s = Fields /\ s.results = results
      BY <1>2 DEF Fields
    <2> DEFINE held == [s EXCEPT !.hold = @ \/ r.verdict # "PASS"]
    <2>4. \E cycle, purpose : state' = Issue(s, c, cycle, purpose) \/ state' = Issue(held, c, cycle, purpose)
      BY <2>2
    <2> HIDE DEF s
    <2>5. DOMAIN held = Fields /\ held.results = results
      BY <2>3 DEF Fields
    <2> HIDE DEF held
    <2>6. QED
      BY <1>3, <2>3, <2>4, <2>5
  <1>9. QED
    BY <1>5, <1>6, <1>7, <1>8 DEF SubmitResult, results

LEMMA RoleStateKeeps ==
  ASSUME StateTells, CycleInv', RoleStep,
         \A res \in state'.results :
             res \in state.results \/ (Decides(res) => Concluded(res.task, res.verdict)')
  PROVE  StateTells' /\ Kept
  <1>1. General'
    BY DEF StateTells, GeneralTells, General, RoleStep, Elsewhere
  <1>2. state'.active = None \/ state'.pending # None
    BY DEF StateTells, GeneralTells, RoleStep
  <1>3. \A c \in Cycles : state'.finals[c] # None => state'.hold
    BY DEF StateTells, GeneralTells, RoleStep
  <1>4. Kept
    BY DEF Kept, RoleStep, Elsewhere, Checkpointed
  <1>5. ASSUME NEW res \in state'.results, Decides(res) PROVE Concluded(res.task, res.verdict)'
    <2>1. CASE res \in state.results
      <3>1. Concluded(res.task, res.verdict) /\ res.task \in state.tasks
        BY <1>5, <2>1 DEF StateTells, GeneralTells, CycleInv, ResultsTell
      <3>2. res.task.cycle \in Cycles
        BY <3>1, TypeFacts DEF StateTells, CycleInv, Task
      <3>3. QED
        BY <1>4, <3>1, <3>2, ConcludedKept
    <2>2. QED
      BY <1>5, <2>1
  <1>6. \A res \in state'.results : Decides(res) => Concluded(res.task, res.verdict)'
    BY <1>5
  <1>7. QED
    BY <1>1, <1>2, <1>3, <1>4, <1>6 DEF StateTells, GeneralTells, Decides

\* A step of the cycle that is no submission.
LEMMA QuietStateKeeps ==
  ASSUME StateTells,
         \/ \E c \in Cycles : EnqueueRequest(c, None)
         \/ StartRole
         \/ \E ms \in Durations : FinishRole(ms) \/ TerminateCycle(ms)
  PROVE  StateTells' /\ Kept /\ RoleStep
  <1>1. CycleInv /\ state \in State
    BY DEF StateTells, CycleInv
  <1>2. CycleInv' /\ RoleStep
    BY <1>1, EnqueueKeeps, TimingKeeps, TerminateKeeps
  <1>3. state'.results = state.results
    BY <1>1, QuietFiles
  <1>4. QED
    BY <1>2, <1>3, RoleStateKeeps

LEMMA SameStateKeeps ==
  ASSUME StateTells, UNCHANGED state
  PROVE  StateTells' /\ Kept
  <1>1. CycleInv' /\ Checkpointed(state)' = Checkpointed(state)
    BY StateKept DEF StateTells
  <1>2. GeneralTells'
    BY DEF StateTells, GeneralTells, General, Decides, Concluded
  <1>3. QED
    BY <1>1, <1>2 DEF StateTells, Kept

\* A step of a command that moves no cycle.
LEMMA StillStateKeeps ==
  ASSUME StateTells, Still(state, state'), Checkpointed(state) \subseteq Checkpointed(state)',
         state.hold => state'.hold
  PROVE  StateTells' /\ Kept
  <1>1. CycleInv'
    BY StillKeeps DEF StateTells
  <1>2. GeneralTells' /\ Kept
    BY DEF StateTells, GeneralTells, General, Still, Decides, Concluded, Kept
  <1>3. QED
    BY <1>1, <1>2 DEF StateTells

\* terminateCycle, or nothing where no task is pending: every cycle is closed.
LEMMA CloseCycleKeeps ==
  ASSUME StateTells, CloseCycle
  PROVE  /\ StateTells' /\ Kept /\ (RoleStep \/ UNCHANGED state) /\ state'.active = None
         /\ \A c \in Cycles : state.cycles[c] # None => state'.finals[c] # None
  <1>1. StateTells' /\ Kept /\ (RoleStep \/ UNCHANGED state) /\ state'.active = None
    <2>1. CASE state.pending = None /\ UNCHANGED state
      BY <2>1, SameStateKeeps DEF StateTells, GeneralTells
    <2>2. CASE \E ms \in Durations : TerminateCycle(ms)
      BY <2>2, TerminateKeeps, QuietStateKeeps DEF StateTells
    <2>3. QED
      BY <2>1, <2>2 DEF CloseCycle
  <1>2. ASSUME NEW c \in Cycles, state.cycles[c] # None PROVE state'.finals[c] # None
    <2>1. state'.cycles[c] # None
      BY <1>1, <1>2 DEF RoleStep
    <2>2. state'.cycles[c].status \in Terminal
      BY <1>1, <2>1, NoneAssumption DEF StateTells, CycleInv, ActiveTells
    <2>3. QED
      BY <1>1, <2>1, <2>2 DEF StateTells, CycleInv, FinalsTell
  <1>3. QED
    BY <1>1, <1>2

-----------------------------------------------------------------------------
(* The steps, by what they do to the run                                       *)

LEMMA RunFacts ==
  ASSUME run \in Run
  PROVE  /\ run.at \in RunSteps /\ run.task \in Task \cup {None}
         /\ run.answer \in Result \cup {None} /\ run.candidate \in Task \cup {None}
         /\ run.expects \in Purposes
         /\ run.round \in 1 .. MaxIterations /\ run.calls \in 0 .. MaxRoleCalls
         /\ run.repaired \in BOOLEAN /\ run.closed \in BOOLEAN
  BY DEF Run

\* The run goes to another step and stays as it is otherwise, but for its catch block.
Dropping == {"closing", "thrown", "dead"}

LEMMA MoveFacts ==
  ASSUME run \in Run, NEW step \in RunSteps, Move(step)
  PROVE  /\ run' \in Run /\ run'.at = step
         /\ run'.expects = run.expects /\ run'.round = run.round /\ run'.calls = run.calls
         /\ run'.closed = run.closed
         /\ IF step \in Dropping THEN run'.candidate = None
            ELSE /\ run'.task = run.task /\ run'.answer = run.answer
                 /\ run'.candidate = run.candidate
  BY DEF Move, Run, Dropping

\* The run gives up, for whatever reason.
LEMMA FailKeeps ==
  ASSUME RunInv, run.at \notin Ended, NEW step \in Failing, Move(step), StateTells',
         Checkpointed(state) \subseteq Checkpointed(state)',
         At(Runner, "idle")', Types' \/ UNCHANGED <<workVars, validated, target>>
  PROVE  RunInv'
  <1>1. step \in RunSteps /\ run \in Run
    BY DEF Failing, RunSteps, RunInv, Types
  <1>2. /\ run' \in Run /\ run'.at = step /\ run'.expects = run.expects
        /\ run'.closed = run.closed /\ run'.candidate \in {None, run.candidate}
    BY <1>1, MoveFacts
  <1>3. Types'
    BY <1>2 DEF RunInv, Types, workVars
  <1>4. RoleTells' /\ CallsTell' /\ EndTells'
    BY <1>2 DEF RunInv, RunTells, RoleTells, CallsTell, EndTells,
       Starting, Asking, Building, Answering, Ending, Failing
  <1>5. WorkTells'
    BY DEF WorkTells
  <1>6. CandidateTells'
    BY <1>2 DEF RunInv, RunTells, CandidateTells, Failing
  <1>7. ClosedTells'
    BY <1>2 DEF RunInv, RunTells, ClosedTells, In, Ended
  <1>8. QED
    BY <1>3, <1>4, <1>5, <1>6, <1>7 DEF RunInv, RunTells

\* Steps within a role, which change nothing that is known of the run.
Onward == {<<"cloning", "enqueueing">>, <<"enqueueing", "handoff">>, <<"registering", "beginning">>,
           <<"beginning", "calling">>, <<"writing", "committing">>, <<"finishing", "completing">>}

LEMMA OnwardKeeps ==
  ASSUME RunInv, NEW step, <<run.at, step>> \in Onward, Move(step), StateTells', Kept, RestUnchanged
  PROVE  RunInv'
  <1>1. run.at \notin Failing \cup Ending /\ step \notin Failing \cup Ending
    BY DEF Onward, Failing, Ending
  <1>2. step \in RunSteps /\ run \in Run /\ step \notin Dropping
    BY DEF Onward, RunSteps, RunInv, Types, Dropping
  <1>3. /\ run' \in Run /\ run'.at = step /\ run'.task = run.task /\ run'.answer = run.answer
        /\ run'.expects = run.expects /\ run'.round = run.round /\ run'.calls = run.calls
        /\ run'.closed = run.closed /\ run'.candidate = run.candidate
    BY <1>2, MoveFacts
  <1>4. job' = job /\ validated' = validated
    BY DEF RestUnchanged, workVars
  <1>5. Types'
    BY <1>3 DEF RunInv, Types, RestUnchanged, workVars
  <1>6. RoleTells'
    BY <1>3 DEF RunInv, RunTells, RoleTells, Onward, Starting, Asking, Building, Answering
  <1>7. CallsTell'
    BY <1>3 DEF RunInv, RunTells, CallsTell, Onward, Starting, Asking, Building, Answering
  <1>8. WorkTells'
    BY <1>3, <1>4 DEF RunInv, RunTells, WorkTells, At, In, Onward
  <1>9. CandidateTells'
    BY <1>1, <1>3, <1>4 DEF RunInv, RunTells, CandidateTells, In, Onward, Kept
  <1>10. ClosedTells' /\ EndTells'
    BY <1>1, <1>3 DEF RunInv, RunTells, ClosedTells, EndTells, In, Failing
  <1>11. QED
    BY <1>5, <1>6, <1>7, <1>8, <1>9, <1>10 DEF RunInv, RunTells

LEMMA IdleKept ==
  ASSUME RunInv, ~In("committing"), RestUnchanged
  PROVE  At(Runner, "idle") /\ At(Runner, "idle")'
  BY DEF RunInv, RunTells, WorkTells, RestUnchanged, workVars, At

\* A mutation that the run goes on from, or fails with.
LEMMA MutateKeeps ==
  ASSUME RunInv, NEW step, <<run.at, step>> \in Onward, RestUnchanged, ~In("committing"),
         StateTells', Kept, Move(step) \/ Move("halting") \/ Move("closing")
  PROVE  RunInv'
  <1>1. run.at \notin Ended
    BY DEF Onward, Ended
  <1>2. At(Runner, "idle")'
    BY IdleKept
  <1>3. ASSUME NEW fails \in {"halting", "closing"}, Move(fails) PROVE RunInv'
    <2>1. fails \in Failing
      BY DEF Failing
    <2>2. QED
      BY <1>1, <1>2, <1>3, <2>1, FailKeeps DEF RestUnchanged, Kept
  <1>4. QED
    BY <1>3, OnwardKeeps

-----------------------------------------------------------------------------
(* The actions                                                               *)

LEMMA StartKeeps ==
  ASSUME RunInv, CloneWorkspace \/ Enqueue
  PROVE  RunInv'
  <1>1. StateTells
    BY DEF RunInv
  <1>2. CASE CloneWorkspace
    <2>1. StateTells' /\ Kept
      BY <1>1, <1>2, SameStateKeeps DEF CloneWorkspace
    <2>2. RestUnchanged /\ In("cloning") /\ (Move("enqueueing") \/ Move("thrown"))
      BY <1>2 DEF CloneWorkspace
    <2>3. CASE Move("enqueueing")
      <3>1. <<run.at, "enqueueing">> \in Onward
        BY <2>2 DEF In, Onward
      <3>2. QED
        BY <2>1, <2>2, <2>3, <3>1, OnwardKeeps
    <2>4. CASE Move("thrown")
      <3>1. ~In("committing") /\ run.at \notin Ended /\ "thrown" \in Failing
        BY <2>2 DEF In, Ended, Failing
      <3>2. At(Runner, "idle")'
        BY <2>2, <3>1, IdleKept
      <3>3. QED
        BY <2>1, <2>2, <2>4, <3>1, <3>2, FailKeeps DEF RestUnchanged, Kept
    <2>5. QED
      BY <2>2, <2>3, <2>4
  <1>3. CASE Enqueue
    <2>1. /\ In("enqueueing") /\ RestUnchanged /\ (Move("handoff") \/ Move("closing"))
          /\ (\E c \in Cycles : EnqueueRequest(c, None)) \/ UNCHANGED state
      BY <1>3 DEF Enqueue, Mutate
    <2>2. StateTells' /\ Kept
      BY <1>1, <2>1, QuietStateKeeps, SameStateKeeps
    <2>3. <<run.at, "handoff">> \in Onward /\ ~In("committing")
      BY <2>1 DEF In, Onward
    <2>4. QED
      BY <2>1, <2>2, <2>3, MutateKeeps
  <1>4. QED
    BY <1>2, <1>3

LEMMA HandoffKeeps ==
  ASSUME RunInv, Handoff
  PROVE  RunInv'
  <1>1. /\ In("handoff") /\ RestUnchanged /\ UNCHANGED state
        /\ IF state.pending # None /\ state.pending.purpose = run.expects
           THEN run' = [run EXCEPT !.task = state.pending, !.answer = None,
                               !.at = IF run.expects \in {"BUILDER_IMPLEMENTATION", "ANALYST_REVIEW"}
                                      THEN "registering" ELSE "beginning"]
           ELSE Move("closing")
    BY DEF Handoff
  <1>2. StateTells' /\ Kept
    BY <1>1, SameStateKeeps DEF RunInv
  <1>3. ~In("committing") /\ run.at \notin Ended
    BY <1>1 DEF In, Ended
  <1>4. At(Runner, "idle") /\ At(Runner, "idle")'
    BY <1>1, <1>3, IdleKept
  <1>5. CASE Move("closing")
    <2>1. "closing" \in Failing
      BY DEF Failing
    <2>2. QED
      BY <1>1, <1>2, <1>3, <1>4, <1>5, <2>1, FailKeeps DEF RestUnchanged, Kept
  <1>6. CASE /\ state.pending # None /\ state.pending.purpose = run.expects
             /\ run' = [run EXCEPT !.task = state.pending, !.answer = None,
                               !.at = IF run.expects \in {"BUILDER_IMPLEMENTATION", "ANALYST_REVIEW"}
                                      THEN "registering" ELSE "beginning"]
    <2>1. state.pending \in Task
      BY <1>6, PendingFacts DEF RunInv, StateTells
    <2>2. run \in Run
      BY DEF RunInv, Types
    <2>3. /\ run' \in Run /\ run'.task = state.pending /\ run'.answer = None
          /\ run'.expects = run.expects /\ run'.round = run.round /\ run'.calls = run.calls
          /\ run'.closed = run.closed /\ run'.candidate = run.candidate
          /\ run'.at = (IF run.expects \in {"BUILDER_IMPLEMENTATION", "ANALYST_REVIEW"}
                        THEN "registering" ELSE "beginning")
      BY <1>6, <2>1, <2>2 DEF Run, RunSteps
    <2>4. run'.at \in {"registering", "beginning"}
      BY <2>3
    <2>5. Types'
      BY <1>1, <2>3 DEF RunInv, Types, RestUnchanged, workVars
    <2>6. RoleTells'
      BY <1>6, <2>1, <2>3, <2>4 DEF RunInv, RunTells, RoleTells, Asking, Building, Answering
    <2>7. CallsTell'
      BY <1>1, <2>3, <2>4 DEF RunInv, RunTells, CallsTell, In, Starting, Asking, Building,
         Answering
    <2>8. WorkTells'
      BY <1>4 DEF WorkTells
    <2>9. CandidateTells'
      BY <1>1, <1>2, <2>3, <2>4 DEF RunInv, RunTells, CandidateTells, In, Failing, Kept,
         RestUnchanged
    <2>10. ClosedTells' /\ EndTells'
      BY <1>1, <2>3, <2>4 DEF RunInv, RunTells, ClosedTells, EndTells, In, Ending
    <2>11. QED
      BY <1>2, <2>5, <2>6, <2>7, <2>8, <2>9, <2>10 DEF RunInv, RunTells
  <1>7. QED
    BY <1>1, <1>5, <1>6

\* The clone is registered for a task, or the state stays as it is.
LEMMA RegisterState ==
  ASSUME StateTells, NEW task \in state.tasks,
         state' = [state EXCEPT !.workspaces = @ \cup {task}]
  PROVE  /\ Still(state, state') /\ state'.workspaces = state.workspaces \cup {task}
         /\ state'.checkpoints = state.checkpoints /\ state'.intents = state.intents
         /\ state'.hold = state.hold
  BY TypeFacts, RegisterEffect DEF StateTells, CycleInv

LEMMA RegisterKeeps ==
  ASSUME RunInv, Register
  PROVE  RunInv'
  <1>1. /\ In("registering") /\ RestUnchanged /\ (Move("beginning") \/ Move("closing"))
        /\ \/ /\ run.task \in state.tasks
              /\ state' = [state EXCEPT !.workspaces = @ \cup {run.task}]
           \/ UNCHANGED state
    BY DEF Register, Mutate
  <1>2. StateTells
    BY DEF RunInv
  <1>3. ASSUME run.task \in state.tasks, state' = [state EXCEPT !.workspaces = @ \cup {run.task}]
        PROVE  StateTells' /\ Kept
    <2>1. /\ Still(state, state') /\ state'.checkpoints = state.checkpoints
          /\ state'.hold = state.hold
      BY <1>2, <1>3, RegisterState
    <2>2. Checkpointed(state)' = Checkpointed(state)
      BY <2>1 DEF Checkpointed
    <2>3. QED
      BY <1>2, <2>1, <2>2, StillStateKeeps
  <1>4. StateTells' /\ Kept
    BY <1>1, <1>2, <1>3, SameStateKeeps
  <1>5. <<run.at, "beginning">> \in Onward /\ ~In("committing")
    BY <1>1 DEF In, Onward
  <1>6. QED
    BY <1>1, <1>4, <1>5, MutateKeeps

LEMMA BeginRoleKeeps ==
  ASSUME RunInv, BeginRole
  PROVE  RunInv'
  <1>1. /\ In("beginning") /\ RestUnchanged /\ (StartRole \/ UNCHANGED state)
        /\ Move("calling") \/ Move("halting") \/ Move("closing")
    BY DEF BeginRole, Mutate
  <1>2. StateTells' /\ Kept
    BY <1>1, QuietStateKeeps, SameStateKeeps DEF RunInv
  <1>3. <<run.at, "calling">> \in Onward /\ ~In("committing")
    BY <1>1 DEF In, Onward
  <1>4. QED
    BY <1>1, <1>2, <1>3, MutateKeeps

LEMMA AnswersFacts ==
  ASSUME NEW task \in Task, task.purpose \in Served, NEW answer \in Answers(task)
  PROVE  answer \in Result /\ answer.verdict \in Said(task.purpose)
  <1>1. task.purpose \in Purposes /\ task.iteration \in Commits
    BY IterationAssumption DEF Task, Commits
  <1>2. /\ answer.evidence = "PASS" /\ answer.subject = task.iteration
        /\ answer.verdict \in Said(task.purpose)
        /\ answer = [verdict |-> answer.verdict, evidence |-> answer.evidence,
                     subject |-> answer.subject]
    BY <1>1 DEF Answers, Said, Purposes
  <1>3. Said(task.purpose) \subseteq AllVerdicts
    BY <1>1 DEF Said, AllVerdicts, Verdicts, Purposes, Served
  <1>4. QED
    BY <1>1, <1>2, <1>3 DEF Result

\* The calls that were made when the last role is asked.
LEMMA CallsFacts ==
  ASSUME run \in Run, run.expects \in Served
  PROVE  /\ Before(run.expects, run.round) \in Nat
         /\ Before(run.expects, run.round) + 1 <= 2 * MaxIterations + 2
  BY IterationAssumption DEF Run, Before, Served, Purposes

LEMMA CallKeeps ==
  ASSUME RunInv, Call
  PROVE  RunInv'
  <1>1. In("calling") /\ RestUnchanged /\ UNCHANGED state
    BY DEF Call
  <1>2. StateTells' /\ Kept
    BY <1>1, SameStateKeeps DEF RunInv
  <1>3. ~In("committing") /\ run.at \notin Ended
    BY <1>1 DEF In, Ended
  <1>4. At(Runner, "idle") /\ At(Runner, "idle")'
    BY <1>1, <1>3, IdleKept
  <1>5. /\ run \in Run /\ run.task \in Task /\ run.task.purpose = run.expects
        /\ run.expects \in Served /\ run.calls <= Before(run.expects, run.round)
    BY <1>1 DEF RunInv, Types, RunTells, RoleTells, CallsTell, In, Asking
  <1>6. CASE run.calls < MaxRoleCalls /\ Repair
    <2>1. /\ run' \in Run /\ run'.at = run.at /\ run'.task = run.task /\ run'.answer = run.answer
          /\ run'.expects = run.expects /\ run'.round = run.round /\ run'.calls = run.calls
          /\ run'.closed = run.closed /\ run'.candidate = run.candidate
      BY <1>5, <1>6 DEF Repair, Run
    <2>2. Types'
      BY <1>1, <2>1 DEF RunInv, Types, RestUnchanged, workVars
    <2>3. RoleTells' /\ CallsTell' /\ ClosedTells' /\ EndTells'
      BY <1>1, <2>1 DEF RunInv, RunTells, RoleTells, CallsTell, ClosedTells, EndTells, In, Ending
    <2>4. WorkTells'
      BY <1>4 DEF WorkTells
    <2>5. CandidateTells'
      BY <1>1, <1>2, <2>1 DEF RunInv, RunTells, CandidateTells, In, Kept, RestUnchanged
    <2>6. QED
      BY <1>2, <2>2, <2>3, <2>4, <2>5 DEF RunInv, RunTells
  <1>7. CASE run.calls < MaxRoleCalls /\ Answered
    <2>1. PICK answer \in Answers(run.task) :
            run' = [run EXCEPT !.answer = answer, !.calls = @ + 1,
                               !.at = IF run.task.purpose = "BUILDER_IMPLEMENTATION"
                                      THEN "writing" ELSE "finishing"]
      BY <1>7 DEF Answered
    <2>2. answer \in Result /\ answer.verdict \in Said(run.expects)
      BY <1>5, AnswersFacts
    <2>3. run.calls \in Nat /\ run.calls + 1 \in 0 .. MaxRoleCalls
      BY <1>5, <1>7, CallsAssumption DEF Run
    <2>4. /\ run' \in Run /\ run'.answer = answer /\ run'.calls = run.calls + 1
          /\ run'.task = run.task /\ run'.expects = run.expects /\ run'.round = run.round
          /\ run'.closed = run.closed /\ run'.candidate = run.candidate
          /\ run'.at = (IF run.task.purpose = "BUILDER_IMPLEMENTATION" THEN "writing" ELSE "finishing")
      BY <1>5, <2>1, <2>2, <2>3 DEF Run, RunSteps
    <2>5. run'.at \in {"writing", "finishing"}
      BY <2>4
    <2>6. Types'
      BY <1>1, <2>4 DEF RunInv, Types, RestUnchanged, workVars
    <2>7. RoleTells'
      BY <1>5, <2>2, <2>4, <2>5 DEF RoleTells, Asking, Building, Answering, Builder
    <2>8. CallsTell'
      <3>1. run'.calls <= Before(run.expects, run.round) + 1
        BY <1>5, <2>3, <2>4, CallsFacts
      <3>2. QED
        BY <2>4, <2>5, <3>1 DEF CallsTell, Starting, Asking, Building, Answering
    <2>9. WorkTells'
      BY <1>4 DEF WorkTells
    <2>10. CandidateTells'
      BY <1>1, <1>2, <2>4, <2>5 DEF RunInv, RunTells, CandidateTells, In, Failing, Kept,
         RestUnchanged
    <2>11. ClosedTells' /\ EndTells'
      BY <1>1, <2>4, <2>5 DEF RunInv, RunTells, ClosedTells, EndTells, In, Ending
    <2>12. QED
      BY <1>2, <2>6, <2>7, <2>8, <2>9, <2>10, <2>11 DEF RunInv, RunTells
  <1>8. ASSUME NEW fails \in {"halting", "closing"}, Move(fails) PROVE RunInv'
    <2>1. fails \in Failing
      BY DEF Failing
    <2>2. QED
      BY <1>1, <1>2, <1>3, <1>4, <1>8, <2>1, FailKeeps DEF RestUnchanged, Kept
  <1>9. QED
    BY <1>6, <1>7, <1>8 DEF Call

LEMMA WriteFilesKeeps ==
  ASSUME RunInv, WriteFiles
  PROVE  RunInv'
  <1>1. /\ In("writing") /\ RestUnchanged /\ UNCHANGED state
        /\ Move("committing") \/ Move("halting") \/ Move("closing")
    BY DEF WriteFiles
  <1>2. StateTells' /\ Kept
    BY <1>1, SameStateKeeps DEF RunInv
  <1>3. <<run.at, "committing">> \in Onward /\ ~In("committing")
    BY <1>1 DEF In, Onward
  <1>4. QED
    BY <1>1, <1>2, <1>3, MutateKeeps

LEMMA GeneralBase ==
  ASSUME GeneralInv
  PROVE  WorkBase /\ General /\ state \in State /\ state.checkpoints \in Seq(Task)
  <1>1. JobShape
    BY JobShaped DEF GeneralInv, RunInv, Types
  <1>2. CycleInv /\ General /\ state \in State
    BY DEF GeneralInv, RunInv, StateTells, GeneralTells, CycleInv
  <1>3. state.checkpoints \in Seq(Task)
    BY <1>2, LedgerTypes
  <1>4. QED
    BY <1>1, <1>2, <1>3 DEF WorkBase, GeneralInv, RunInv, Types

LEMMA GeneralUncertain ==
  ASSUME DOMAIN state = Fields, NEW i,
         state' = [state EXCEPT !.hold = TRUE, !.intents[i].status = "RECONCILIATION_REQUIRED"]
  PROVE  state'.hold
  BY DEF Fields

\* No command of a general controller lowers its hold.
LEMMA WorkHolds ==
  ASSUME General, state \in State, NEW p \in Processes, Work(p) \/ StartWork(p) \/ Crash(p), state.hold
  PROVE  state'.hold
  <1>1. DOMAIN state = Fields
    BY StateFields
  <1>2. \/ UNCHANGED state
        \/ \E x : \/ state' = [state EXCEPT !.workspaces = @ \cup {x}]
                  \/ state' = [state EXCEPT !.checkpoints = Append(@, x)]
        \/ CheckpointUncertain(p)
    BY DEF Work, StartWork, Crash, PrepareBegin, CheckpointBegin, Clone, CloneFails,
       RegisterWorkspace, RegisterFails, CheckpointIntent, CheckpointIntentFails, CheckpointCommit,
       CheckpointCommitFails, CheckpointComplete, CheckpointCompleteFails, Completed,
       CheckpointUncertainSwallowed
  <1>3. ASSUME CheckpointUncertain(p) PROVE state'.hold
    BY <1>1, <1>3, GeneralUncertain DEF CheckpointUncertain
  <1>4. QED
    BY <1>1, <1>2, <1>3 DEF Fields

\* What a step of these commands leaves, whoever runs it.
LEMMA WorkStateKeeps ==
  ASSUME GeneralInv, NEW p \in Processes, Work(p) \/ StartWork(p) \/ Crash(p),
         UNCHANGED <<validated, target>>, run' \in Run
  PROVE  Types' /\ StateTells' /\ Kept /\ Worked(p)
  <1>1. WorkBase /\ General /\ state \in State
    BY GeneralBase
  <1>2. Worked(p)
    BY <1>1, WorkKeeps
  <1>3. state.hold => state'.hold
    BY <1>1, WorkHolds
  <1>4. StateTells' /\ Kept
    BY <1>2, <1>3, StillStateKeeps DEF GeneralInv, RunInv, Worked
  <1>5. job' \in [Processes -> [step : WorkSteps, subject : WorkSubjects]]
    BY <1>2, JobTyped DEF Worked, GeneralInv, RunInv, Types
  <1>6. Types'
    BY <1>2, <1>5 DEF GeneralInv, RunInv, Types, Worked, WorkGains
  <1>7. QED
    BY <1>2, <1>4, <1>6

LEMMA EndIdles ==
  ASSUME GeneralInv, End(Runner)
  PROVE  At(Runner, "idle")'
  BY GeneralBase, JobMoves, RunnerAssumption DEF JobMoved, At

\* The run's own commands are those of module LocalCheckpoint.
LEMMA OwnWork ==
  ASSUME Checkpoint, ~UNCHANGED <<state, workVars>>
  PROVE  Work(Runner) \/ StartWork(Runner)
  BY DEF Checkpoint, Work, StartWork, CheckpointBegin

\* The run has the receipt of its task in hand: its own, or an operator's.
LEMMA ReceiptInHand ==
  ASSUME RunInv, In("committing"), StateTells', Kept, Types', At(Runner, "idle")',
         UNCHANGED validated, run.task \in Checkpointed(state)',
         run' = [run EXCEPT !.at = "validating", !.candidate = run.task]
  PROVE  RunInv'
  <1>1. run \in Run /\ run.task \in Task /\ Builder(run.task) /\ run.at = "committing"
    BY DEF RunInv, Types, RunTells, RoleTells, In, Answering, Building
  <1>2. /\ run'.at = "validating" /\ run'.task = run.task /\ run'.answer = run.answer
        /\ run'.expects = run.expects /\ run'.round = run.round /\ run'.calls = run.calls
        /\ run'.closed = run.closed /\ run'.candidate = run.task
    BY <1>1 DEF Run
  <1>3. RoleTells' /\ CallsTell'
    BY <1>1, <1>2 DEF RunInv, RunTells, RoleTells, CallsTell, Starting, Asking, Building, Answering
  <1>4. WorkTells'
    BY DEF WorkTells
  <1>5. CandidateTells'
    BY <1>1, <1>2 DEF CandidateTells, In
  <1>6. ClosedTells' /\ EndTells'
    BY <1>1, <1>2 DEF RunInv, RunTells, ClosedTells, EndTells, In, Ending
  <1>7. QED
    BY <1>3, <1>4, <1>5, <1>6 DEF RunInv, RunTells

LEMMA CheckpointKeeps ==
  ASSUME GeneralInv, Checkpoint
  PROVE  RunInv'
  <1>1. /\ In("committing") /\ UNCHANGED <<validated, target>> /\ RunInv /\ StateTells
        /\ run.at \notin Ended /\ run \in Run
    BY DEF Checkpoint, GeneralInv, RunInv, StateTells, In, Ended, Types
  <1>2. run.task \in Task /\ (~At(Runner, "idle") => Subject(Runner) = run.task)
    BY <1>1 DEF RunInv, RunTells, RoleTells, WorkTells, In, Answering, Building
  <1>3. /\ General /\ state \in State /\ state.checkpoints \in Seq(Task) /\ WorkBase
    BY GeneralBase
  <1>4. run' \in Run
    <2>1. [run EXCEPT !.at = "validating", !.candidate = run.task] \in Run
      BY <1>1, <1>2 DEF Run, RunSteps
    <2>2. "halting" \in RunSteps /\ "closing" \in RunSteps
      BY DEF RunSteps
    <2>3. QED
      BY <1>1, <2>1, <2>2, MoveFacts DEF Checkpoint
  <1>5. Types' /\ StateTells' /\ Kept
    <2>1. CASE UNCHANGED <<state, workVars>>
      BY <1>1, <1>4, <2>1, SameStateKeeps DEF RunInv, Types, workVars
    <2>2. CASE ~UNCHANGED <<state, workVars>>
      BY <1>1, <1>4, <2>2, OwnWork, WorkStateKeeps, RunnerAssumption
    <2>3. QED
      BY <2>1, <2>2
  <1>6. ASSUME NEW fails \in {"halting", "closing"}, Move(fails), At(Runner, "idle")'
        PROVE  RunInv'
    <2>1. fails \in Failing
      BY DEF Failing
    <2>2. QED
      BY <1>1, <1>5, <1>6, <2>1, FailKeeps DEF Kept
  <1>7. ASSUME CheckpointBegin(Runner, run.task) \/ CheckpointCommit(Runner), UNCHANGED run
        PROVE  RunInv'
    <2>1. job'[Runner].subject = run.task
      <3>1. Begin(Runner, "checked", run.task) \/ (At(Runner, "checked") /\ Goto(Runner, "committed"))
        BY <1>3, <1>7 DEF CheckpointBegin, CheckpointCommit
      <3>2. At(Runner, "checked") => Subject(Runner) = run.task
        BY <1>2 DEF At
      <3>3. QED
        BY <1>3, <3>1, <3>2, JobMoves, RunnerAssumption DEF JobMoved
    <2>2. WorkTells'
      BY <1>1, <1>7, <2>1 DEF WorkTells, In, Subject
    <2>3. RoleTells' /\ CallsTell' /\ ClosedTells' /\ EndTells'
      BY <1>1, <1>7 DEF RunInv, RunTells, RoleTells, CallsTell, ClosedTells, EndTells, In, Ending
    <2>4. CandidateTells'
      BY <1>1, <1>5, <1>7 DEF RunInv, RunTells, CandidateTells, In, Kept
    <2>5. QED
      BY <1>5, <2>2, <2>3, <2>4 DEF RunInv, RunTells
  <1>8. ASSUME At(Runner, "idle")', run.task \in Checkpointed(state)',
               \/ run' = [run EXCEPT !.at = "validating", !.candidate = run.task]
               \/ Move("halting")
        PROVE  RunInv'
    BY <1>1, <1>5, <1>6, <1>8, ReceiptInHand
  <1>9. ASSUME CheckpointComplete(Runner)
        PROVE  At(Runner, "idle")' /\ run.task \in Checkpointed(state)'
    <2>1. state' = Completed(run.task) /\ End(Runner)
      BY <1>2, <1>9 DEF CheckpointComplete, At
    <2>2. state'.checkpoints = Append(state.checkpoints, run.task)
      BY <1>2, <1>3, <2>1, CandidateEffect
    <2>3. QED
      BY <1>2, <1>3, <2>1, <2>2, EndIdles DEF Checkpointed, Range
  <1>10. ASSUME At(Runner, "idle"), run.task \in Checkpointed(state), UNCHANGED <<state, workVars>>
         PROVE  At(Runner, "idle")' /\ run.task \in Checkpointed(state)'
    BY <1>10 DEF At, workVars, Checkpointed
  <1>11. ASSUME CheckpointCommitFails(Runner) \/ CheckpointCompleteFails(Runner), Move("closing")
         PROVE  RunInv'
    <2>1. End(Runner)
      BY <1>3, <1>11 DEF CheckpointCommitFails, CheckpointCompleteFails
    <2>2. QED
      BY <1>6, <1>11, <2>1, EndIdles
  <1>12. ASSUME At(Runner, "idle"), UNCHANGED <<state, workVars>>, NEW fails \in {"halting", "closing"},
                Move(fails)
         PROVE  RunInv'
    BY <1>6, <1>12 DEF At, workVars
  <1>13. QED
    BY <1>7, <1>8, <1>9, <1>10, <1>11, <1>12 DEF Checkpoint

LEMMA ValidateKeeps ==
  ASSUME RunInv, Validate
  PROVE  RunInv'
  <1>1. /\ In("validating") /\ UNCHANGED <<state, workVars, target>>
        /\ \/ validated' = validated \cup {run.task} /\ Move("finishing")
           \/ UNCHANGED validated /\ (Move("halting") \/ Move("closing"))
    BY DEF Validate
  <1>2. StateTells' /\ Kept
    BY <1>1, SameStateKeeps DEF RunInv
  <1>3. At(Runner, "idle") /\ At(Runner, "idle")'
    BY <1>1 DEF RunInv, RunTells, WorkTells, In, workVars, At
  <1>4. run \in Run /\ run.task \in Task /\ run.at \notin Ended
    BY <1>1 DEF RunInv, Types, RunTells, RoleTells, In, Building, Answering, Ended
  <1>5. ASSUME UNCHANGED validated, NEW fails \in {"halting", "closing"}, Move(fails)
        PROVE  RunInv'
    <2>1. fails \in Failing
      BY DEF Failing
    <2>2. QED
      BY <1>1, <1>2, <1>3, <1>4, <1>5, <2>1, FailKeeps DEF Kept
  <1>6. ASSUME validated' = validated \cup {run.task}, Move("finishing") PROVE RunInv'
    <2>1. /\ run' \in Run /\ run'.at = "finishing" /\ run'.task = run.task
          /\ run'.answer = run.answer
          /\ run'.expects = run.expects /\ run'.round = run.round /\ run'.calls = run.calls
          /\ run'.closed = run.closed /\ run'.candidate = run.candidate
      BY <1>4, <1>6, MoveFacts DEF RunSteps, Dropping
    <2>2. Types'
      BY <1>1, <1>4, <1>6, <2>1 DEF RunInv, Types, workVars
    <2>3. RoleTells' /\ CallsTell'
      BY <1>1, <2>1 DEF RunInv, RunTells, RoleTells, CallsTell, In, Starting, Asking, Building,
         Answering
    <2>4. WorkTells'
      BY <1>3 DEF WorkTells
    <2>5. CandidateTells'
      BY <1>1, <1>2, <1>6, <2>1 DEF RunInv, RunTells, CandidateTells, In, Failing, Kept
    <2>6. ClosedTells' /\ EndTells'
      BY <1>1, <2>1 DEF RunInv, RunTells, ClosedTells, EndTells, In, Ending
    <2>7. QED
      BY <1>2, <2>2, <2>3, <2>4, <2>5, <2>6 DEF RunInv, RunTells
  <1>7. QED
    BY <1>1, <1>5, <1>6

LEMMA FinishKeeps ==
  ASSUME RunInv, Finish
  PROVE  RunInv'
  <1>1. /\ In("finishing") /\ RestUnchanged
        /\ (\E ms \in Durations : FinishRole(ms)) \/ UNCHANGED state
        /\ Move("completing") \/ Move("halting") \/ Move("closing")
    BY DEF Finish, Mutate
  <1>2. StateTells' /\ Kept
    BY <1>1, QuietStateKeeps, SameStateKeeps DEF RunInv
  <1>3. <<run.at, "completing">> \in Onward /\ ~In("committing")
    BY <1>1 DEF In, Onward
  <1>4. QED
    BY <1>1, <1>2, <1>3, MutateKeeps

\* The next role is asked after one more answer.
LEMMA NextRoleFacts ==
  ASSUME run \in Run, run.expects \in Served \ {"ARCHITECT_FINAL_DECISION"},
         run.answer.verdict \in Said(run.expects)
  PROVE  /\ NextRole \in Served /\ NextRound \in 1 .. MaxIterations
         /\ Before(run.expects, run.round) + 1 <= Before(NextRole, NextRound)
  <1>1. run.round \in 1 .. MaxIterations /\ MaxIterations \in Nat
    BY IterationAssumption DEF Run
  <1>2. run.expects \in {"ARCHITECT_PLAN", "BUILDER_IMPLEMENTATION", "ANALYST_REVIEW"}
    BY DEF Served, Purposes
  <1>3. CASE run.expects = "ARCHITECT_PLAN"
    <2>1. NextRole = "BUILDER_IMPLEMENTATION" /\ NextRound = run.round
      BY <1>3 DEF Said, NextRole, NextRound
    <2>2. QED
      BY <1>1, <1>3, <2>1 DEF Before, Served, Purposes
  <1>4. CASE run.expects = "BUILDER_IMPLEMENTATION"
    <2>1. NextRole = "ANALYST_REVIEW" /\ NextRound = run.round
      BY <1>4 DEF Said, NextRole, NextRound
    <2>2. QED
      BY <1>1, <1>4, <2>1 DEF Before, Served, Purposes
  <1>5. CASE run.expects = "ANALYST_REVIEW"
    <2>1. \/ NextRole = "BUILDER_IMPLEMENTATION" /\ NextRound = run.round + 1
             /\ run.round < MaxIterations
          \/ NextRole = "ARCHITECT_FINAL_DECISION" /\ NextRound = run.round
      BY <1>5 DEF Said, NextRole, NextRound
    <2>2. QED
      BY <1>1, <1>5, <2>1 DEF Before, Served, Purposes
  <1>6. QED
    BY <1>2, <1>3, <1>4, <1>5

\* The last answer decides the cycle.
LEMMA DecisionEnds ==
  ASSUME StateTells, NEW task, NEW r \in Result, SubmitResult(task, r),
         task.purpose = "ARCHITECT_FINAL_DECISION", r.verdict # "BLOCKED"
  PROVE  Concluded(task, r.verdict)'
  <1>1. SubmitDecision(task, r) /\ CycleInv /\ General
    BY DEF SubmitResult, SubmitBlocked, SubmitPlan, SubmitRevision, SubmitBuild, SubmitReview,
       StateTells, GeneralTells
  <1>2. Disposed(task.cycle, r.verdict)
    BY <1>1, DecisionKeeps
  <1>3. task = state.pending /\ state.pending # None
    BY <1>1, AcceptableFacts DEF SubmitDecision
  <1>4. state.cycles[task.cycle].candidate = task.iteration
    BY <1>1, <1>3, PendingFacts DEF StageTells
  <1>5. QED
    BY <1>2, <1>4 DEF Disposed, Concluded

LEMMA SubmitStateKeeps ==
  ASSUME StateTells, NEW task, NEW r \in Result, SubmitResult(task, r)
  PROVE  StateTells' /\ Kept /\ RoleStep
  <1>1. CycleInv' /\ RoleStep
    BY SubmitKeeps DEF StateTells
  <1>2. state'.results = state.results \cup {ResultOf(task, r)}
    BY SubmitFiles
  <1>3. ASSUME NEW res \in state'.results, res \notin state.results, Decides(res)
        PROVE  Concluded(res.task, res.verdict)'
    <2>1. res.task = task /\ res.verdict = r.verdict
      BY <1>2, <1>3 DEF ResultOf
    <2>2. task.purpose = "ARCHITECT_FINAL_DECISION" /\ r.verdict # "BLOCKED"
      BY <1>3, <2>1 DEF Decides
    <2>3. Concluded(task, r.verdict)'
      BY <2>2, DecisionEnds
    <2>4. QED
      BY <2>1, <2>3
  <1>4. QED
    BY <1>1, <1>3, RoleStateKeeps

\* The result of the run's task is on file: it was accepted now, or before.
LEMMA ResultOnFile ==
  ASSUME StateTells, NEW task, NEW r \in Result,
         \/ SubmitResult(task, r)
         \/ /\ \E res \in state.results : res.task = task /\ res.verdict = r.verdict
            /\ UNCHANGED state
  PROVE  /\ StateTells' /\ Kept /\ (RoleStep \/ UNCHANGED state)
         /\ task.purpose = "ARCHITECT_FINAL_DECISION" /\ r.verdict \in {"ACCEPT", "REJECT"} =>
              Concluded(task, r.verdict)'
  <1>1. CASE SubmitResult(task, r)
    BY <1>1, SubmitStateKeeps, DecisionEnds
  <1>2. CASE (\E res \in state.results : res.task = task /\ res.verdict = r.verdict) /\ UNCHANGED state
    <2>1. StateTells' /\ Kept
      BY <1>2, SameStateKeeps
    <2>2. ASSUME task.purpose = "ARCHITECT_FINAL_DECISION", r.verdict \in {"ACCEPT", "REJECT"}
          PROVE  Concluded(task, r.verdict)
      BY <1>2, <2>2 DEF StateTells, GeneralTells, Decides
    <2>3. Concluded(task, r.verdict) => Concluded(task, r.verdict)'
      BY <1>2 DEF Concluded
    <2>4. QED
      BY <1>2, <2>1, <2>2, <2>3
  <1>3. QED
    BY <1>1, <1>2

\* The run goes on after its decision only on the candidate that it has in hand.
LEMMA EndReached ==
  ASSUME run'.task \in Task, run'.answer.verdict \in Said("ARCHITECT_FINAL_DECISION"), OfCandidate(run.task)',
         NEW task, NEW verdict, task = run'.task, verdict = run'.answer.verdict,
         Concluded(task, verdict)'
  PROVE  EndTells'
  BY DEF EndTells, Concluded

LEMMA CompleteKeeps ==
  ASSUME RunInv, Complete
  PROVE  RunInv'
  <1>1. In("completing") /\ RestUnchanged
    BY DEF Complete
  <1>2. /\ run.at = "completing" /\ ~In("committing") /\ run.at \notin Ended
    BY <1>1 DEF In, Ended
  <1>3. At(Runner, "idle") /\ At(Runner, "idle")'
    BY <1>1, <1>2, IdleKept
  <1>4. /\ run \in Run /\ StateTells /\ run.task \in Task /\ run.task.purpose = run.expects
        /\ run.expects \in Served /\ run.answer \in Result
        /\ run.answer.verdict \in Said(run.expects)
        /\ run.calls <= Before(run.expects, run.round) + 1
    BY <1>2 DEF RunInv, Types, RunTells, RoleTells, CallsTell, Answering, Building
  <1>5. ASSUME SubmitResult(run.task, run.answer) \/ UNCHANGED state, Move("closing")
        PROVE  RunInv'
    <2>1. StateTells' /\ Kept /\ "closing" \in Failing
      BY <1>4, <1>5, SubmitStateKeeps, SameStateKeeps DEF Failing
    <2>2. QED
      BY <1>1, <1>2, <1>3, <1>5, <2>1, FailKeeps DEF RestUnchanged, Kept
  <1> DEFINE OnFile == \/ SubmitResult(run.task, run.answer)
                       \/ /\ \E res \in state.results :
                               res.task = run.task /\ res.verdict = run.answer.verdict
                          /\ UNCHANGED state
  <1>6. ASSUME OnFile PROVE StateTells' /\ Kept
    BY <1>4, <1>6, ResultOnFile
  <1>7. ASSUME OnFile, OfCandidate(run.task),
               run.task.purpose = "ARCHITECT_FINAL_DECISION", run' = [run EXCEPT !.at = "checking"]
        PROVE  RunInv'
    <2>1. /\ run' \in Run /\ run'.at = "checking" /\ run'.task = run.task /\ run'.answer = run.answer
          /\ run'.expects = run.expects /\ run'.closed = run.closed /\ run'.candidate = run.candidate
      BY <1>4, <1>7 DEF Run, RunSteps
    <2>2. Types'
      BY <1>1, <2>1 DEF RunInv, Types, RestUnchanged, workVars
    <2>3. RoleTells' /\ CallsTell'
      BY <1>4, <2>1 DEF RoleTells, CallsTell, Starting, Asking, Building, Answering
    <2>4. WorkTells'
      BY <1>3 DEF WorkTells
    <2>5. CandidateTells'
      BY <1>1, <1>2, <1>6, <1>7, <2>1 DEF RunInv, RunTells, CandidateTells, In, Failing, Kept,
         RestUnchanged
    <2>6. ClosedTells'
      BY <1>2, <2>1 DEF RunInv, RunTells, ClosedTells, In
    <2>7. EndTells'
      <3>1. PICK task, verdict : task = run.task /\ verdict = run.answer.verdict
        OBVIOUS
      <3>2. verdict \in {"ACCEPT", "REJECT"} /\ verdict \in Said("ARCHITECT_FINAL_DECISION")
        BY <1>4, <1>7, <3>1 DEF Said
      <3>3. PICK r \in Result : r = run.answer
        BY <1>4
      <3>4. Concluded(task, verdict)'
        BY <1>4, <1>7, <3>1, <3>2, <3>3, ResultOnFile
      <3>5. OfCandidate(run.task)'
        BY <1>7, <2>1 DEF OfCandidate
      <3>6. QED
        BY <1>4, <2>1, <3>1, <3>2, <3>4, <3>5, EndReached
    <2>8. QED
      BY <1>6, <1>7, <2>2, <2>3, <2>4, <2>5, <2>6, <2>7 DEF RunInv, RunTells
  <1>8. ASSUME OnFile, run.task.purpose # "ARCHITECT_FINAL_DECISION",
               run' = [run EXCEPT !.at = "handoff", !.expects = NextRole, !.round = NextRound]
        PROVE  RunInv'
    <2>1. /\ NextRole \in Served /\ NextRound \in 1 .. MaxIterations
          /\ Before(run.expects, run.round) + 1 <= Before(NextRole, NextRound)
      BY <1>4, <1>8, NextRoleFacts
    <2>2. /\ run' \in Run /\ run'.at = "handoff" /\ run'.expects = NextRole
          /\ run'.round = NextRound /\ run'.calls = run.calls /\ run'.closed = run.closed
          /\ run'.candidate = run.candidate
      BY <1>4, <1>8, <2>1 DEF Run, RunSteps, Served
    <2>3. Types'
      BY <1>1, <2>2 DEF RunInv, Types, RestUnchanged, workVars
    <2>4. RoleTells'
      BY <2>1, <2>2 DEF RoleTells, Asking, Building, Answering
    <2>5. run'.calls <= Before(run'.expects, run'.round)
      <3>1. Before(run.expects, run.round) \in Nat /\ run.calls \in Nat
        BY <1>4, CallsFacts, CallsAssumption DEF Run
      <3>2. Before(NextRole, NextRound) \in Int
        BY <2>1, IterationAssumption DEF Before
      <3>3. QED
        BY <1>4, <2>1, <2>2, <3>1, <3>2
    <2>6. CallsTell'
      BY <2>2, <2>5 DEF CallsTell, Building, Answering
    <2>7. WorkTells'
      BY <1>3 DEF WorkTells
    <2>8. CandidateTells'
      BY <1>1, <1>2, <1>6, <1>8, <2>2 DEF RunInv, RunTells, CandidateTells, In, Failing, Kept,
         RestUnchanged
    <2>9. ClosedTells' /\ EndTells'
      BY <1>2, <2>2 DEF RunInv, RunTells, ClosedTells, EndTells, In, Ending
    <2>10. QED
      BY <1>6, <1>8, <2>3, <2>4, <2>6, <2>7, <2>8, <2>9 DEF RunInv, RunTells
  <1>9. QED
    BY <1>5, <1>7, <1>8 DEF Complete, Reviewing

\* The target is looked at before anything is returned.
LEMMA EndKeeps ==
  ASSUME RunInv, CheckTarget \/ Leave
  PROVE  RunInv'
  <1>1. /\ RestUnchanged /\ UNCHANGED state
        /\ \/ In("checking") /\ (Move("leaving") \/ Move("closing"))
           \/ In("leaving") /\ (Move("returned") \/ Move("thrown"))
    BY DEF CheckTarget, Leave
  <1>2. ~In("committing") /\ run.at \in {"checking", "leaving"} /\ run.at \notin Ended
    BY <1>1 DEF In, Ended
  <1>3. At(Runner, "idle") /\ At(Runner, "idle")'
    BY <1>1, <1>2, IdleKept
  <1>4. run \in Run /\ StateTells /\ StateTells' /\ Kept
    BY <1>1, SameStateKeeps DEF RunInv, Types
  <1>5. ASSUME NEW fails \in {"closing", "thrown"}, Move(fails) PROVE RunInv'
    <2>1. fails \in Failing
      BY DEF Failing
    <2>2. QED
      BY <1>1, <1>2, <1>3, <1>4, <1>5, <2>1, FailKeeps DEF RestUnchanged, Kept
  <1>6. ASSUME NEW step \in {"leaving", "returned"}, Move(step) PROVE RunInv'
    <2>1. /\ run' \in Run /\ run'.at = step /\ run'.task = run.task /\ run'.answer = run.answer
          /\ run'.expects = run.expects /\ run'.closed = run.closed /\ run'.candidate = run.candidate
      BY <1>4, <1>6, MoveFacts DEF RunSteps, Dropping
    <2>2. Types'
      BY <1>1, <2>1 DEF RunInv, Types, RestUnchanged, workVars
    <2>3. RoleTells' /\ CallsTell'
      BY <2>1 DEF RunInv, RunTells, RoleTells, CallsTell, Starting, Asking, Building, Answering
    <2>4. WorkTells'
      BY <1>3 DEF WorkTells
    <2>5. CandidateTells'
      BY <1>1, <1>2, <1>4, <2>1 DEF RunInv, RunTells, CandidateTells, In, Failing, Kept,
         RestUnchanged
    <2>6. ClosedTells'
      BY <1>1, <1>2, <2>1 DEF RunInv, RunTells, ClosedTells, In
    <2>7. EndTells'
      BY <1>1, <1>2, <2>1 DEF RunInv, RunTells, EndTells, Ending, OfCandidate, Concluded
    <2>8. QED
      BY <1>4, <2>2, <2>3, <2>4, <2>5, <2>6, <2>7 DEF RunInv, RunTells
  <1>7. QED
    BY <1>1, <1>5, <1>6

LEMMA HaltKeeps ==
  ASSUME RunInv, Halt
  PROVE  RunInv'
  <1>1. In("halting") /\ RestUnchanged /\ (CloseCycle \/ UNCHANGED state) /\ Move("closing")
    BY DEF Halt, Mutate
  <1>2. StateTells' /\ Kept
    BY <1>1, CloseCycleKeeps, SameStateKeeps DEF RunInv
  <1>3. ~In("committing") /\ run.at \notin Ended /\ "closing" \in Failing
    BY <1>1 DEF In, Ended, Failing
  <1>4. At(Runner, "idle")'
    BY <1>1, <1>3, IdleKept
  <1>5. QED
    BY <1>1, <1>2, <1>3, <1>4, FailKeeps DEF RestUnchanged, Kept

LEMMA CatchKeeps ==
  ASSUME RunInv, Catch
  PROVE  RunInv'
  <1>1. In("closing") /\ RestUnchanged
    BY DEF Catch
  <1>2. ~In("committing") /\ run.at \notin Ended /\ "thrown" \in Failing
    BY <1>1 DEF In, Ended, Failing
  <1>3. At(Runner, "idle")'
    BY <1>1, <1>2, IdleKept
  <1>4. CASE (CloseCycle \/ UNCHANGED state) /\ Move("thrown")
    <2>1. StateTells' /\ Kept
      BY <1>4, CloseCycleKeeps, SameStateKeeps DEF RunInv
    <2>2. QED
      BY <1>1, <1>2, <1>3, <1>4, <2>1, FailKeeps DEF RestUnchanged, Kept
  <1>5. CASE CloseCycle /\ run' = [run EXCEPT !.at = "thrown",
                                               !.closed = \E c \in Cycles : state.cycles[c] # None]
    <2> DEFINE found == \E c \in Cycles : state.cycles[c] # None
    <2>1. /\ StateTells' /\ Kept /\ state'.active = None
          /\ \A c \in Cycles : state.cycles[c] # None => state'.finals[c] # None
      BY <1>5, CloseCycleKeeps DEF RunInv
    <2>2. found \in BOOLEAN /\ (found => \E c \in Cycles : state'.finals[c] # None)
      BY <2>1
    <2>3. run' = [run EXCEPT !.at = "thrown", !.closed = found]
      BY <1>5
    <2> HIDE DEF found
    <2>4. /\ run' \in Run /\ run'.at = "thrown" /\ run'.expects = run.expects
          /\ run'.candidate = run.candidate
      BY <2>2, <2>3 DEF RunInv, Types, Run, RunSteps
    <2>5. run'.closed = found
      BY <2>3 DEF RunInv, Types, Run
    <2>6. Types'
      BY <1>1, <2>4 DEF RunInv, Types, RestUnchanged, workVars
    <2>7. RoleTells' /\ CallsTell' /\ EndTells'
      BY <2>4 DEF RunInv, RunTells, RoleTells, CallsTell, EndTells,
         Starting, Asking, Building, Answering, Ending
    <2>8. WorkTells'
      BY <1>3 DEF WorkTells
    <2>9. CandidateTells'
      BY <2>1, <2>4 DEF RunInv, RunTells, CandidateTells, Failing, Kept
    <2>10. ClosedTells'
      BY <2>1, <2>2, <2>4, <2>5 DEF ClosedTells, In
    <2>11. QED
      BY <2>1, <2>6, <2>7, <2>8, <2>9, <2>10 DEF RunInv, RunTells
  <1>6. QED
    BY <1>4, <1>5 DEF Catch

LEMMA KillKeeps ==
  ASSUME RunInv, Kill
  PROVE  RunInv'
  <1>1. /\ run.at \notin Ended /\ Move("dead") /\ job' = [job EXCEPT ![Runner] = Idle]
        /\ UNCHANGED <<state, clones, commits, reported, validated, target>>
    BY DEF Kill
  <1>2. StateTells' /\ Kept
    BY <1>1, SameStateKeeps DEF RunInv
  <1>3. run' \in Run
    BY <1>1, MoveFacts DEF RunInv, Types, RunSteps
  <1>4. At(Runner, "idle")' /\ Idle \in [step : WorkSteps, subject : WorkSubjects]
    BY <1>1, RunnerAssumption DEF RunInv, Types, At, Idle, WorkSteps, WorkSubjects
  <1>5. Types'
    BY <1>1, <1>3, <1>4 DEF RunInv, Types
  <1>6. "dead" \in Failing
    BY DEF Failing
  <1>7. QED
    BY <1>1, <1>2, <1>4, <1>5, <1>6, FailKeeps DEF Kept

\* What the run knows is not disturbed by steps that leave the run and its process alone.
LEMMA OthersKeep ==
  ASSUME RunInv, StateTells', Kept, Types', UNCHANGED <<run, validated>>,
         job'[Runner] = job[Runner], run.closed => state'.active = None
  PROVE  RunInv'
  <1>1. run' = run /\ validated' = validated
    OBVIOUS
  <1>2. RoleTells' /\ CallsTell'
    BY <1>1 DEF RunInv, RunTells, RoleTells, CallsTell
  <1>3. WorkTells'
    BY <1>1 DEF RunInv, RunTells, WorkTells, At, In, Subject
  <1>4. CandidateTells'
    BY <1>1 DEF RunInv, RunTells, CandidateTells, In, Kept
  <1>5. ClosedTells'
    BY <1>1 DEF RunInv, RunTells, ClosedTells, In, Kept
  <1>6. EndTells'
    <2>1. SUFFICES ASSUME run.at \in Ending PROVE EndTells'
      BY <1>1 DEF EndTells
    <2>2. PICK task, verdict : task = run.task /\ verdict = run.answer.verdict
      OBVIOUS
    <2>3. /\ task \in Task /\ verdict \in Said("ARCHITECT_FINAL_DECISION")
          /\ OfCandidate(run.task) /\ Concluded(task, verdict)
      BY <2>1, <2>2 DEF RunInv, RunTells, EndTells
    <2>4. Concluded(task, verdict)'
      BY <2>3, ConcludedKept DEF Task
    <2>5. OfCandidate(run.task)'
      BY <1>1, <2>3 DEF OfCandidate
    <2>6. QED
      BY <1>1, <2>2, <2>3, <2>4, <2>5, EndReached
  <1>7. QED
    BY <1>2, <1>3, <1>4, <1>5, <1>6 DEF RunInv, RunTells

\* A result that an operator submits.
LEMMA OperatorSubmits ==
  ASSUME StateTells, NEW task \in state.tasks, NEW verdict \in Verdicts(task.purpose)
  PROVE  [verdict |-> verdict, evidence |-> "PASS", subject |-> task.iteration] \in Result
  <1>1. task \in Task /\ task.purpose \in Purposes
    BY TypeFacts DEF StateTells, CycleInv, Task
  <1>2. verdict \in AllVerdicts /\ task.iteration \in Commits
    BY <1>1, IterationAssumption DEF AllVerdicts, Task, Commits
  <1>3. QED
    BY <1>2 DEF Result

\* What an operator's commands of the role cycle do; none but enqueue works on a controller
\* that serves no task, and a hold stops that one.
LEMMA OperatorStateKeeps ==
  ASSUME StateTells, Operator
  PROVE  StateTells' /\ Kept /\ RoleStep /\ (state.hold => state.active # None)
  <1>1. CASE \E c \in Cycles : EnqueueRequest(c, None)
    BY <1>1, QuietStateKeeps DEF EnqueueRequest
  <1>2. ASSUME state.pending # None PROVE state.active # None
    BY <1>2, NoneAssumption, PendingFacts DEF StateTells, CycleInv, PendingTells, Task
  <1>3. CASE StartRole \/ \E ms \in Durations : FinishRole(ms)
    BY <1>2, <1>3, QuietStateKeeps DEF StartRole, FinishRole
  <1>4. ASSUME NEW task \in state.tasks, NEW verdict \in Verdicts(task.purpose),
               SubmitResult(task, [verdict |-> verdict, evidence |-> "PASS", subject |-> task.iteration])
        PROVE  StateTells' /\ Kept /\ RoleStep /\ state.active # None
    <2>1. PICK r \in Result : SubmitResult(task, r)
      BY <1>4, OperatorSubmits
    <2>2. Acceptable(task, r)
      BY <2>1 DEF SubmitResult, SubmitBlocked, SubmitPlan, SubmitRevision, SubmitBuild,
         SubmitReview, SubmitDecision
    <2>3. state.active # None
      BY <1>2, <2>2, AcceptableFacts DEF StateTells
    <2>4. QED
      BY <2>1, <2>3, SubmitStateKeeps
  <1>5. QED
    BY <1>1, <1>3, <1>4 DEF Operator

LEMMA OperatorKeeps ==
  ASSUME RunInv, Operator
  PROVE  RunInv'
  <1>1. UNCHANGED <<workVars, run, validated, target>>
    BY DEF Operator
  <1>2. StateTells' /\ Kept /\ (state.hold => state.active # None)
    BY OperatorStateKeeps DEF RunInv
  <1>3. ~run.closed
    BY <1>2 DEF RunInv, RunTells, ClosedTells, StateTells, GeneralTells
  <1>4. Types'
    BY <1>1 DEF RunInv, Types, workVars
  <1>5. QED
    BY <1>1, <1>2, <1>3, <1>4, OthersKeep DEF workVars

LEMMA OperatorWorkKeeps ==
  ASSUME GeneralInv, NEW p \in Processes \ {Runner}, OperatorWork(p)
  PROVE  RunInv'
  <1>1. (Work(p) \/ StartWork(p) \/ Crash(p)) /\ UNCHANGED <<run, validated, target>> /\ RunInv
    BY DEF OperatorWork, GeneralInv
  <1>2. run' \in Run
    BY <1>1 DEF RunInv, Types
  <1>3. Types' /\ StateTells' /\ Kept /\ Worked(p)
    BY <1>1, <1>2, WorkStateKeeps
  <1>4. job'[Runner] = job[Runner] /\ state'.active = state.active
    BY <1>3, RunnerAssumption DEF Worked, JobMoved, Still
  <1>5. run.closed => state'.active = None
    BY <1>1, <1>4 DEF RunInv, RunTells, ClosedTells
  <1>6. QED
    BY <1>1, <1>3, <1>4, <1>5, OthersKeep

LEMMA TouchTargetKeeps ==
  ASSUME RunInv, TouchTarget \/ UNCHANGED vars
  PROVE  RunInv'
  <1>1. UNCHANGED <<state, workVars, run, validated>> /\ target' \in {Untouched, "touched"}
    BY DEF TouchTarget, vars, RunInv, Types
  <1>2. StateTells' /\ Kept
    BY <1>1, SameStateKeeps DEF RunInv
  <1>3. Types' /\ (run.closed => state'.active = None)
    BY <1>1 DEF RunInv, Types, RunTells, ClosedTells, workVars
  <1>4. QED
    BY <1>1, <1>2, <1>3, OthersKeep DEF workVars

LEMMA NextKeeps ==
  ASSUME GeneralInv, [Next]_vars
  PROVE  RunInv'
  <1>1. RunInv
    BY DEF GeneralInv
  <1>2. ASSUME NEW p \in Processes \ {Runner}, OperatorWork(p) PROVE RunInv'
    BY <1>2, OperatorWorkKeeps
  <1>3. QED
    BY <1>1, <1>2, StartKeeps, HandoffKeeps, RegisterKeeps, BeginRoleKeeps, CallKeeps,
       WriteFilesKeeps, CheckpointKeeps, ValidateKeeps, FinishKeeps, CompleteKeeps, EndKeeps,
       HaltKeeps, CatchKeeps, KillKeeps, OperatorKeeps, TouchTargetKeeps
    DEF Next, RunStep

-----------------------------------------------------------------------------
(* The commands of all processes side by side                                  *)

\* A mutation of the role cycle touches no file of theirs.
LEMMA RoleWorkKeeps ==
  ASSUME GeneralInv, UNCHANGED workVars, RoleStep \/ UNCHANGED state
  PROVE  WorkInv'
  <1>1. WorkBase
    BY GeneralBase
  <1>2. /\ state.tasks \subseteq state'.tasks /\ SameFiles(state, state')
        /\ state'.intents = state.intents /\ (state.hold => state'.hold)
    BY DEF RoleStep, Elsewhere, SameFiles
  <1>3. QED
    BY <1>1, <1>2, WorkKept DEF workVars

\* What the run, and an operator, do to the state between the commands' steps.
LEMMA RoleWrites ==
  ASSUME GeneralInv,
         \/ CloneWorkspace \/ Enqueue \/ Handoff \/ BeginRole \/ Call \/ WriteFiles
         \/ Validate \/ Finish \/ Complete \/ CheckTarget \/ Halt \/ Catch \/ Leave
         \/ Operator \/ TouchTarget \/ UNCHANGED vars
  PROVE  UNCHANGED workVars /\ (RoleStep \/ UNCHANGED state)
  <1>1. StateTells
    BY DEF GeneralInv, RunInv
  <1>2. CASE \/ CloneWorkspace \/ Handoff \/ Call \/ WriteFiles \/ Validate \/ CheckTarget \/ Leave
             \/ TouchTarget \/ UNCHANGED vars
    BY <1>2 DEF CloneWorkspace, Handoff, Call, WriteFiles, Validate, CheckTarget, Leave,
       TouchTarget, vars, RestUnchanged, workVars
  <1>3. CASE Enqueue \/ BeginRole \/ Finish
    BY <1>1, <1>3, QuietStateKeeps DEF Enqueue, BeginRole, Finish, Mutate, RestUnchanged
  <1>4. CASE Halt \/ Catch
    BY <1>1, <1>4, CloseCycleKeeps DEF Halt, Catch, Mutate, RestUnchanged
  <1>5. CASE Complete
    <2>1. run.answer \in Result /\ RestUnchanged
      BY <1>5 DEF Complete, GeneralInv, RunInv, RunTells, RoleTells, In, Answering, Building
    <2>2. UNCHANGED state \/ SubmitResult(run.task, run.answer)
      BY <1>5 DEF Complete
    <2>3. QED
      BY <1>1, <2>1, <2>2, SubmitStateKeeps DEF RestUnchanged
  <1>6. CASE Operator
    BY <1>1, <1>6, OperatorStateKeeps DEF Operator
  <1>7. QED
    BY <1>2, <1>3, <1>4, <1>5, <1>6

\* The run registers its clone, between the steps of the others.
LEMMA RegisterWorks ==
  ASSUME GeneralInv, Register
  PROVE  WorkInv'
  <1>1. UNCHANGED workVars /\ StateTells
    BY DEF Register, RestUnchanged, GeneralInv, RunInv
  <1>2. CASE UNCHANGED state
    BY <1>1, <1>2, RoleWorkKeeps
  <1>3. CASE run.task \in state.tasks /\ state' = [state EXCEPT !.workspaces = @ \cup {run.task}]
    <2>1. /\ Still(state, state') /\ state'.workspaces = state.workspaces \cup {run.task}
          /\ state'.checkpoints = state.checkpoints /\ state'.intents = state.intents
          /\ state'.hold = state.hold
      BY <1>1, <1>3, RegisterState
    <2>2. /\ state'.tasks = state.tasks /\ Checkpointed(state)' = Checkpointed(state)
          /\ job' = job /\ clones' = clones /\ commits' = commits
      BY <1>1, <2>1 DEF Still, Checkpointed, workVars
    <2>3. \A q \in Processes : CommandTells(q)'
      BY <2>1, <2>2 DEF GeneralInv, WorkInv, CommandTells
    <2>4. SoleCommitter' /\ ReceiptsTell' /\ IntentsHold'
      BY <1>3, <2>1, <2>2 DEF GeneralInv, WorkInv, SoleCommitter, ReceiptsTell, IntentsHold, At,
         Subject
    <2>5. QED
      BY <2>3, <2>4 DEF WorkInv
  <1>4. QED
    BY <1>2, <1>3 DEF Register, Mutate

LEMMA CommandsKeep ==
  ASSUME GeneralInv, [Next]_vars
  PROVE  WorkInv'
  <1>1. WorkBase
    BY GeneralBase
  <1>2. ASSUME NEW p \in Processes, Work(p) \/ StartWork(p) \/ Crash(p) PROVE WorkInv'
    BY <1>1, <1>2, WorkKeeps DEF Worked
  <1>3. CASE Checkpoint
    <2>1. CASE UNCHANGED <<state, workVars>>
      BY <2>1, RoleWorkKeeps
    <2>2. QED
      BY <1>2, <1>3, <2>1, OwnWork, RunnerAssumption
  <1>4. CASE Kill
    <2>1. /\ UNCHANGED <<state, clones, commits>>
          /\ job' = [job EXCEPT ![Runner] = Idle]
      BY <1>4 DEF Kill
    <2>2. ASSUME NEW q \in Processes
          PROVE  job'[q] = job[q] \/ job'[q].step \notin PrepareSteps \cup CheckpointSteps
      <3>1. DOMAIN job = Processes
        BY DEF GeneralInv, RunInv, Types
      <3>2. QED
        BY <2>1, <3>1 DEF Idle, PrepareSteps, CheckpointSteps
    <2>3. SameFiles(state, state')
      BY <2>1 DEF SameFiles
    <2>4. QED
      BY <1>1, <2>1, <2>2, <2>3, WorkKept
  <1>5. QED
    BY <1>2, <1>3, <1>4, RoleWrites, RoleWorkKeeps, RegisterWorks DEF Next, RunStep, OperatorWork

LEMMA InitKeeps ==
  ASSUME Init
  PROVE  GeneralInv
  <1>1. /\ CycleInv /\ Checkpointed(state) = {} /\ state.mode = "GENERAL_AUTOPILOT"
        /\ state.active = None /\ state.results = {}
        /\ state.workspaces = {} /\ state.intents = <<>> /\ state.checkpoints = <<>>
        /\ \A c \in Cycles : state.cycles[c] = None /\ state.finals[c] = None
    BY InitialFacts, ModeIsGeneral DEF Init
  <1>2. StateTells
    BY <1>1 DEF StateTells, GeneralTells, General
  <1>3. /\ run = [at |-> "cloning", task |-> None, answer |-> None, candidate |-> None,
                  expects |-> "ARCHITECT_PLAN", round |-> 1, calls |-> 0, repaired |-> FALSE,
                  closed |-> FALSE]
        /\ validated = {} /\ target = Untouched /\ NoWork
    BY DEF Init
  <1>4. Types
    <2>1. 1 \in 1 .. MaxIterations /\ 0 \in 0 .. MaxRoleCalls
      BY IterationAssumption, CallsAssumption
    <2>2. run \in Run
      BY <1>3, <2>1 DEF Run, RunSteps, Purposes
    <2>3. QED
      BY <1>3, <2>2 DEF Types, NoWork, Idle, WorkSteps, WorkSubjects
  <1>5. RoleTells /\ CallsTell /\ CandidateTells /\ ClosedTells /\ EndTells
    BY <1>3 DEF RoleTells, CallsTell, CandidateTells, ClosedTells, EndTells, Before, Served,
       Purposes, Starting, Asking, Building, Answering, Ending
  <1>6. WorkTells
    BY <1>3, RunnerAssumption DEF WorkTells, NoWork, At, Idle
  <1>7. WorkInv
    BY <1>1, <1>3 DEF WorkInv, CommandTells, SoleCommitter, ReceiptsTell, IntentsHold, NoWork, At,
       Idle, PrepareSteps, CheckpointSteps, IsInjective
  <1>8. QED
    BY <1>2, <1>4, <1>5, <1>6, <1>7 DEF GeneralInv, RunInv, RunTells

-----------------------------------------------------------------------------
(* The theorems                                                              *)

\* What is known of a general run holds after every step of it, of an operator's commands in
\* processes of their own, and of whoever works in the target: the lemmas above, one for each
\* action.
THEOREM GeneralInvariant == Spec => []GeneralInv
  <1>1. Init => GeneralInv
    BY InitKeeps
  <1>2. GeneralInv /\ [Next]_vars => GeneralInv'
    BY NextKeeps, CommandsKeep DEF GeneralInv
  <1>3. QED
    BY <1>1, <1>2, PTL DEF Spec

\* MAX_ROLE_CALLS never ends a run: whatever the models answer, an answer and its one
\* repair for every role of every round stay below it.  Every variable has its type.
THEOREM GeneralTypes == Spec => []TypeOK
  <1>1. GeneralInv => TypeOK
    <2>1. SUFFICES ASSUME GeneralInv PROVE TypeOK
      OBVIOUS
    <2>2. state \in State /\ RunInv
      BY <2>1 DEF GeneralInv, RunInv, StateTells, CycleInv
    <2>3. ASSUME In("calling") PROVE run.calls < MaxRoleCalls
      <3>1. run \in Run /\ run.expects \in Served /\ run.calls <= Before(run.expects, run.round)
        BY <2>2, <2>3 DEF RunInv, Types, RunTells, RoleTells, CallsTell, In, Asking
      <3>2. run.calls \in Nat
        BY <3>1, CallsAssumption DEF Run
      <3>3. QED
        BY <3>1, <3>2, CallsFacts, CallsAssumption, IterationAssumption
    <2>4. QED
      BY <2>2, <2>3 DEF TypeOK, RunInv, Types, WorkSteps, WorkSubjects
  <1>2. QED
    BY <1>1, GeneralInvariant, PTL

\* A run that throws and could write the state leaves nothing pending and its cycle
\* closed under a hold, wherever it failed and whatever an operator did meanwhile.
THEOREM FailureCloses == Spec => []FailsClosed
  <1>1. GeneralInv => FailsClosed
    <2>1. SUFFICES ASSUME GeneralInv, run.at = "thrown", run.closed PROVE FailsClosed
      BY DEF FailsClosed
    <2>2. /\ state.active = None /\ CycleInv /\ GeneralTells
          /\ \E c \in Cycles : state.finals[c] # None
      BY <2>1 DEF GeneralInv, RunInv, RunTells, ClosedTells, StateTells
    <2>3. state.pending = None
      BY <2>2, PendingFacts, NoneAssumption DEF CycleInv, PendingTells, Task
    <2>4. ASSUME NEW c \in Cycles, state.cycles[c] # None
          PROVE  state.finals[c] # None
      <3>1. state.cycles[c].status \in Terminal
        BY <2>2, <2>4, NoneAssumption DEF CycleInv, ActiveTells
      <3>2. QED
        BY <2>2, <2>4, <3>1 DEF CycleInv, FinalsTell
    <2>5. state.hold
      BY <2>2 DEF GeneralTells
    <2>6. QED
      BY <2>2, <2>3, <2>4, <2>5 DEF FailsClosed
  <1>2. QED
    BY <1>1, GeneralInvariant, PTL

\* What a run returns as ready for integration was accepted on a passed review of the
\* last candidate, which has its receipt and which the run validated.
THEOREM ReportHolds == Spec => []ReportIsEarned
  <1>1. GeneralInv => ReportIsEarned
    <2>1. SUFFICES ASSUME GeneralInv, run.at = "returned" PROVE ReportIsEarned
      BY DEF ReportIsEarned
    <2> DEFINE c == run.task.cycle
               cycle == state.cycles[c]
    <2>2. CycleInv /\ RunTells
      BY <2>1 DEF GeneralInv, RunInv, StateTells
    <2>3. /\ run.task \in Task /\ run.answer.verdict \in {"ACCEPT", "REJECT"}
          /\ OfCandidate(run.task) /\ cycle # None
          /\ run.answer.verdict = "ACCEPT" =>
               /\ cycle.decision = "ACCEPT" /\ cycle.status = "ACCEPTED"
               /\ cycle.stage = "READY_FOR_INTEGRATION" /\ cycle.candidate = run.task.iteration
          /\ run.answer.verdict = "REJECT" => cycle.status = "REJECTED"
      BY <2>1, <2>2 DEF RunTells, EndTells, Ending, Said, Concluded
    <2>4. c \in Cycles
      BY <2>3 DEF Task
    <2>5. ASSUME run.answer.verdict = "ACCEPT" PROVE ReportIsEarned
      <3>1. MayAccept(c) /\ LatestReview(c).reviewed = cycle.candidate
        BY <2>2, <2>3, <2>4, <2>5 DEF CycleInv, AcceptTells
      <3>2. /\ run.candidate \in Checkpointed(state) /\ run.candidate \in validated
            /\ run.candidate.cycle = c /\ run.candidate.iteration = cycle.candidate
        BY <2>1, <2>2, <2>3, <2>5 DEF RunTells, CandidateTells, OfCandidate, In, Failing
      <3>3. QED
        BY <2>3, <2>5, <3>1, <3>2 DEF ReportIsEarned
    <2>6. ASSUME run.answer.verdict # "ACCEPT" PROVE ReportIsEarned
      BY <2>3, <2>6 DEF ReportIsEarned
    <2>7. QED
      BY <2>5, <2>6
  <1>2. QED
    BY <1>1, GeneralInvariant, PTL

\* validateMachineStateV2 accepts every state of a general run, whichever of its writes failed
\* and whatever an operator did meanwhile: no mutation of the catch block is refused for what
\* an earlier one wrote.
THEOREM GeneralStateValid == Spec => []ValidState
  <1>1. GeneralInv => ValidState
    <2> SUFFICES ASSUME GeneralInv PROVE ValidState
      OBVIOUS
    <2>1. CycleInv /\ WorkInv
      BY DEF GeneralInv, RunInv, StateTells
    <2>2. \A c \in Cycles :
            state.active = c <=> state.cycles[c] # None /\ state.cycles[c].status \notin Terminal
      BY <2>1 DEF CycleInv, ActiveTells
    <2>3. /\ state.pending # None => /\ state.pending \in state.tasks
                                     /\ \A res \in state.results : res.task # state.pending
          /\ \A res \in state.results : res.task \in state.tasks
          /\ \A r1, r2 \in state.results : r1.task = r2.task => r1 = r2
      BY <2>1 DEF CycleInv, PendingTells, ResultsTell
    <2>4. \A c \in Cycles : \A i, j \in DOMAIN state.reviews[c] :
            i # j => state.reviews[c][i].iteration # state.reviews[c][j].iteration
      BY <2>1 DEF CycleInv, ReviewsTell
    <2>5. state.workspaces \subseteq state.tasks
      BY <2>1 DEF WorkInv, ReceiptsTell
    <2>6. QED
      BY <2>2, <2>3, <2>4, <2>5 DEF ValidState
  <1>2. QED
    BY <1>1, GeneralInvariant, PTL

=============================================================================
