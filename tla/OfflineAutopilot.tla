--------------------------- MODULE OfflineAutopilot ---------------------------
(***************************************************************************)
(* The offline autopilot: runCore of src/src/autopilot.mjs, which serves the     *)
(* roles of one request in a runtime directory of its own, and executeBoundRole  *)
(* of src/src/role-execution.mjs, which executes one role and journals it.       *)
(*                                                                            *)
(* The run writes four files (state, journal, summary, status projection), each *)
(* atomically and none together: a write may fail, before its rename or after    *)
(* it, and the catch blocks go on from whatever is on disk.  The state file is   *)
(* the one of module RoleCycle, which an operator's commands may change as well. *)
(***************************************************************************)
EXTENDS LocalCheckpoint, SequencesExt

CONSTANTS Runner,       \* the process of the run
          OperatorIterations,   \* iterations whose workspace an operator's commands work at (bound)
          OperatorVerdicts      \* verdicts of the results that an operator submits (bound)

ASSUME RunnerAssumption == Runner \in Processes

ASSUME ModeIsOffline == "OFFLINE_FIXTURE" \in Modes

VARIABLES run,          \* where the run is, and the role it executes
          journal,      \* execution-journal.json, None before it exists
          summary,      \* offline-summary.json: the tasks it lists, None before it exists
          phase         \* offline-status.json, the progress projection

fileVars == <<journal, summary, phase>>

vars == <<state, workVars, run, fileVars>>

\* Steps of runCore; "dead" is a killed process.
CoreSteps == {"fresh", "opening", "enqueueing", "loop", "preparing", "summarizing", "summarized",
              "ready", "failing", "projecting", "returned", "thrown", "dead"}

\* Steps of executeBoundRole.
RoleSteps == {"bound", "begun", "starting", "executing", "confined", "committing", "validating",
              "answered", "captured", "finished", "submitting", "submitted", "catching", "aborting"}

Ended == {"returned", "thrown", "dead"}

RecordStatuses == {"PREPARING", "CONFINEMENT_VERIFIED", "EXECUTING", "RESULT_CAPTURED",
                   "EXECUTION_FINISHED", "SUBMITTED", "ABORTED"}

\* A record of the journal; confined: it carries the executor's confinement evidence.
Record == [task : Task, status : RecordStatuses, confined : BOOLEAN,
           verdict : AllVerdicts \cup {"NONE"}]

Journal == [status : {"ACTIVE", "READY_FOR_INTEGRATION", "FAILED"}, executions : Seq(Record)]

ASSUME NoJournalAssumption == None \notin Journal

Phases == {"NONE", "CREATED", "ARCHITECT", "BUILDER", "VALIDATING", "ANALYST", "ARCHITECT_FINAL",
           "READY_FOR_INTEGRATION", "FAILED"}

\* timed: finishRoleMeasured returned; valid: the candidate passes its recipes, which
\* read the committed blob and so give every role the same outcome.
Run == [at : CoreSteps \cup RoleSteps, task : Task \cup {None}, answer : Result \cup {None},
        timed : BOOLEAN, valid : BOOLEAN]

Init ==
    /\ state = InitialState("OFFLINE_FIXTURE")
    /\ NoWork
    /\ run = [at |-> "fresh", task |-> None, answer |-> None, timed |-> FALSE, valid |-> FALSE]
    /\ journal = None
    /\ summary = None
    /\ phase = "NONE"

In(step) == run.at = step

\* What a role's execution knew is gone once it returned or threw.
Move(step) ==
    run' = IF step \in {"failing", "projecting", "thrown", "dead", "loop"}
           THEN [run EXCEPT !.at = step, !.task = None, !.answer = None, !.timed = FALSE]
           ELSE [run EXCEPT !.at = step]

\* One file is replaced: done, or reported as failed without effect or after its rename.
Write(done, nothing, next, onError) ==
    \/ done /\ Move(next)
    \/ (done \/ nothing) /\ Move(onError)

WriteState(action, next, onError) == Write(action, UNCHANGED state, next, onError)

WriteJournal(new, next, onError) == Write(journal' = new, UNCHANGED journal, next, onError)

Project(new, next, onError) == Write(phase' = new, UNCHANGED phase, next, onError)

-----------------------------------------------------------------------------
(* The execution journal                                                    *)

Executions == IF journal = None THEN <<>> ELSE journal.executions

Current == Last(journal.executions)

\* The journal with the run's current record replaced.
WithCurrent(record) == [journal EXCEPT !.executions = Front(@) \o <<record>>]

NextStatuses ==
    [PREPARING |-> {"CONFINEMENT_VERIFIED", "EXECUTING", "ABORTED"},
     CONFINEMENT_VERIFIED |-> {"EXECUTING", "ABORTED"},
     EXECUTING |-> {"RESULT_CAPTURED", "ABORTED"},
     RESULT_CAPTURED |-> {"EXECUTION_FINISHED", "ABORTED"},
     EXECUTION_FINISHED |-> {"SUBMITTED", "ABORTED"},
     SUBMITTED |-> {},
     ABORTED |-> {}]

\* transition, with the evidence it adds to the record.
Transition(record, next, onError) ==
    /\ record.status \in NextStatuses[Current.status]
    /\ WriteJournal(WithCurrent(record), next, onError)

Advance(status, next, onError) == Transition([Current EXCEPT !.status = status], next, onError)

\* The run throws where nothing was written.
Throws(next) == Move(next) /\ UNCHANGED <<state, workVars, fileVars>>

-----------------------------------------------------------------------------
(* runCore: a fresh run                                                     *)

\* The directory is new; until the request is enqueued, run is null and an error
\* finds no journal to mark.
Create ==
    /\ In("fresh")
    /\ Project("CREATED", "opening", "projecting")
    /\ UNCHANGED <<state, workVars, journal, summary>>

InitializeExecutionJournal ==
    /\ In("opening")
    /\ WriteJournal([status |-> "ACTIVE", executions |-> <<>>], "enqueueing", "projecting")
    /\ UNCHANGED <<state, workVars, summary, phase>>

Enqueue ==
    /\ In("enqueueing")
    /\ WriteState(\E c \in Cycles : EnqueueRequest(c, None), "loop", "projecting")
    /\ UNCHANGED <<workVars, fileVars>>

-----------------------------------------------------------------------------
(* runCore: the loop                                                        *)

PhaseFor(task) ==
    CASE task.purpose \in {"ARCHITECT_PLAN", "ARCHITECT_REVISION"} -> "ARCHITECT"
      [] task.purpose = "BUILDER_IMPLEMENTATION" -> "BUILDER"
      [] task.purpose = "ANALYST_REVIEW" -> "ANALYST"
      [] task.purpose = "ARCHITECT_FINAL_DECISION" -> "ARCHITECT_FINAL"

AwaitsIntegration ==
    \E c \in Cycles : /\ state.active = c
                      /\ state.cycles[c].status = "REVIEW"
                      /\ state.cycles[c].stage = "AWAITING_INTEGRATION"

\* The loop serves the pending task; without one it gives up.
Serve ==
    /\ In("loop")
    /\ ~AwaitsIntegration
    /\ IF state.pending = None
       THEN Throws("failing")
       ELSE /\ \/ /\ phase' = PhaseFor(state.pending)
                  /\ run' = [run EXCEPT !.task = state.pending, !.answer = None, !.timed = FALSE,
                                        !.at = IF state.pending.purpose = "BUILDER_IMPLEMENTATION"
                                               THEN "preparing" ELSE "bound"]
               \/ phase' \in {phase, PhaseFor(state.pending)} /\ Move("failing")
            /\ UNCHANGED <<state, workVars, journal, summary>>

\* preparePendingWorkspace, step by step as in module LocalCheckpoint; a workspace that
\* an operator registered for the task is ALREADY_PREPARED.
Prepare ==
    /\ In("preparing")
    /\ \/ (PrepareBegin(Runner, run.task) \/ Clone(Runner)) /\ UNCHANGED run
       \/ RegisterWorkspace(Runner) /\ Move("bound")
       \/ (CloneFails(Runner) \/ RegisterFails(Runner)) /\ Move("failing")
       \/ /\ At(Runner, "idle") /\ UNCHANGED <<state, workVars>>
          /\ \/ state.pending = run.task /\ run.task \in state.workspaces /\ Move("bound")
             \/ Move("failing")
    /\ UNCHANGED fileVars

\* The summary lists the submitted executions, before the journal is marked ready.
Summarize ==
    /\ In("loop") /\ AwaitsIntegration
    /\ LET submitted == {e \in Range(Executions) : e.status = "SUBMITTED"}
           listed == {e.task : e \in submitted}
       IN  Write(summary' = listed, UNCHANGED summary, "summarized", "failing")
    /\ UNCHANGED <<state, workVars, journal, phase>>

MarkExecutionJournalReady ==
    /\ In("summarized")
    /\ IF journal.status = "ACTIVE" /\ \A e \in Range(Executions) : e.status = "SUBMITTED"
       THEN /\ WriteJournal([journal EXCEPT !.status = "READY_FOR_INTEGRATION"], "ready", "failing")
            /\ UNCHANGED <<state, workVars, summary, phase>>
       ELSE Throws("failing")

Return ==
    /\ In("ready")
    /\ Project("READY_FOR_INTEGRATION", "returned", "failing")
    /\ UNCHANGED <<state, workVars, journal, summary>>

\* Mutant: a failed run goes on with the pending task.
ResumeFailed == In("failing") /\ Throws("loop")

\* Mutant: a failure after the journal was marked ready overwrites that mark.
MarkFailedAlways ==
    /\ In("failing")
    /\ WriteJournal([journal EXCEPT !.status = "FAILED"], "projecting", "thrown")
    /\ UNCHANGED <<state, workVars, summary, phase>>

\* Mutant: the journal takes the status of an aborted execution.
MarkAborted ==
    /\ In("failing")
    /\ WriteJournal([journal EXCEPT !.status = "ABORTED"], "projecting", "thrown")
    /\ UNCHANGED <<state, workVars, summary, phase>>

\* The catch block: a journal already marked ready cannot be marked failed, and an
\* error while marking keeps the projection from being written.
MarkExecutionJournalFailed ==
    /\ In("failing")
    /\ IF journal.status = "READY_FOR_INTEGRATION"
       THEN Throws("thrown")
       ELSE /\ WriteJournal([journal EXCEPT !.status = "FAILED"], "projecting", "thrown")
            /\ UNCHANGED <<state, workVars, summary, phase>>

ProjectFailed ==
    /\ In("projecting")
    /\ Project("FAILED", "thrown", "thrown")
    /\ UNCHANGED <<state, workVars, journal, summary>>

-----------------------------------------------------------------------------
(* executeBoundRole                                                         *)

\* The state is read again: the task is still pending and the cycle has time left.
BeginExecution ==
    /\ In("bound")
    /\ IF /\ state.pending = run.task
          /\ state.spent[run.task.cycle] < CycleLimit
          /\ journal.status = "ACTIVE"
          /\ \A e \in Range(Executions) : e.task # run.task
       THEN LET record == [task |-> run.task, status |-> "PREPARING", confined |-> FALSE,
                           verdict |-> "NONE"]
            IN  WriteJournal([journal EXCEPT !.executions = Append(@, record)], "begun", "failing")
                /\ UNCHANGED <<state, workVars, summary, phase>>
       ELSE Throws("failing")

\* Outside the try block: an error leaves the record as it is.  A role that is
\* executing already is taken over.
StartBoundRole ==
    /\ In("begun")
    /\ LET next == IF run.task.purpose = "BUILDER_IMPLEMENTATION" THEN "executing" ELSE "starting"
           executing == state.pending = run.task /\ HoldAllows /\ state.timing.status = "EXECUTING"
       IN  \/ state.pending = run.task /\ WriteState(StartRole, next, "failing")
           \/ executing /\ UNCHANGED state /\ Move(next)
           \/ UNCHANGED state /\ Move("failing")
    /\ UNCHANGED <<workVars, fileVars>>

StartExecuting ==
    /\ In("starting")
    /\ Advance("EXECUTING", "executing", "failing")
    /\ UNCHANGED <<state, workVars, summary, phase>>

\* OfflineFixtureTransport: what the deterministic transport answers.
Answer(task) ==
    LET passed == state.reviews[task.cycle] # <<>> /\ LatestReview(task.cycle).verdict = "PASS"
    IN  [verdict |-> CASE task.purpose \in {"ARCHITECT_PLAN", "ARCHITECT_REVISION"} -> "PLANNED"
                       [] task.purpose = "BUILDER_IMPLEMENTATION" -> "BUILT"
                       [] task.purpose = "ANALYST_REVIEW" -> IF run.valid THEN "PASS" ELSE "REVISE"
                       [] OTHER -> IF passed THEN "ACCEPT" ELSE "REVISE",
         evidence |-> IF run.valid THEN "PASS" ELSE "FAIL",
         subject |-> task.iteration]

Answers == run' = [run EXCEPT !.at = "answered", !.answer = Answer(run.task)]

\* The transport answers, or it fails, or the deadline has passed.
Execute ==
    /\ In("executing")
    /\ run.task.purpose # "BUILDER_IMPLEMENTATION"
    /\ (Answers \/ Move("catching"))
    /\ UNCHANGED <<state, workVars, fileVars>>

\* Mutant: the evidence is not merged into the record.
ConfinementUnproven == [Current EXCEPT !.status = "CONFINEMENT_VERIFIED"]

Confinement == [Current EXCEPT !.status = "CONFINEMENT_VERIFIED", !.confined = TRUE]

\* The builder's tool request runs in the confined child process, whose evidence is
\* recorded; what the candidate will be worth is decided here, unless it is committed.
VerifyConfinement ==
    /\ In("executing")
    /\ run.task.purpose = "BUILDER_IMPLEMENTATION"
    /\ \/ /\ journal' = WithCurrent(Confinement)
          /\ \E v \in IF run.task \in commits THEN {run.valid} ELSE BOOLEAN :
               run' = [run EXCEPT !.at = "confined", !.valid = v]
       \/ journal' \in {journal, WithCurrent(Confinement)} /\ Move("catching")
    /\ UNCHANGED <<state, workVars, summary, phase>>

ExecuteConfined ==
    /\ In("confined")
    /\ Advance("EXECUTING", "committing", "catching")
    /\ UNCHANGED <<state, workVars, summary, phase>>

\* createLocalCheckpoint, step by step as in module LocalCheckpoint; the receipt of an
\* operator's checkpoint is replayed.
Checkpoint ==
    /\ In("committing")
    /\ \/ /\ \/ CheckpointBegin(Runner, run.task) \/ CheckpointIntent(Runner)
             \/ CheckpointCommit(Runner) \/ CheckpointCommitFails(Runner)
             \/ CheckpointCompleteFails(Runner)
          /\ UNCHANGED run
       \/ CheckpointComplete(Runner) /\ Move("validating")
       \/ /\ \/ CheckpointIntentFails(Runner)
             \/ CheckpointUncertain(Runner) \/ CheckpointUncertainSwallowed(Runner)
          /\ Move("catching")
       \/ /\ At(Runner, "idle") /\ UNCHANGED <<state, workVars>>
          /\ \/ run.task \in Checkpointed(state) /\ Move("validating")
             \/ Move("catching")
    /\ UNCHANGED fileVars

Validate ==
    /\ In("validating")
    /\ \/ phase' = "VALIDATING" /\ Answers
       \/ phase' \in {phase, "VALIDATING"} /\ Move("catching")
    /\ UNCHANGED <<state, workVars, journal, summary>>

CaptureResult ==
    /\ In("answered")
    /\ Transition([Current EXCEPT !.status = "RESULT_CAPTURED", !.verdict = run.answer.verdict],
                  "captured", "catching")
    /\ UNCHANGED <<state, workVars, summary, phase>>

FinishBoundRole ==
    /\ In("captured")
    /\ \/ /\ state.pending = run.task
          /\ \E ms \in Durations :
               \/ FinishRole(ms) /\ run' = [run EXCEPT !.at = "finished", !.timed = TRUE]
               \/ FinishRole(ms) /\ Move("catching")
       \/ UNCHANGED state /\ Move("catching")
    /\ UNCHANGED <<workVars, fileVars>>

RecordFinished ==
    /\ In("finished")
    /\ Advance("EXECUTION_FINISHED", "submitting", "catching")
    /\ UNCHANGED <<state, workVars, summary, phase>>

\* Mutant: the result of a task that was served already counts as submitted.
SubmitBoundServed ==
    /\ In("submitting")
    /\ \/ WriteState(SubmitResult(run.task, run.answer), "submitted", "catching")
       \/ (\E res \in state.results : res.task = run.task) /\ UNCHANGED state /\ Move("submitted")
    /\ UNCHANGED <<workVars, fileVars>>

\* submitRoleResult: the same result, accepted before, is replayed.
SubmitBound ==
    /\ In("submitting")
    /\ \/ WriteState(SubmitResult(run.task, run.answer), "submitted", "catching")
       \/ /\ \E res \in state.results : res.task = run.task /\ res.verdict = run.answer.verdict
          /\ UNCHANGED state /\ Move("submitted")
    /\ UNCHANGED <<workVars, fileVars>>

RecordSubmitted ==
    /\ In("submitted")
    /\ Advance("SUBMITTED", "loop", "catching")
    /\ UNCHANGED <<state, workVars, summary, phase>>

\* Mutant: an execution that has its result is not interrupted.
CatchInterruptUnanswered ==
    /\ In("catching")
    /\ IF run.answer = None /\ state.pending = run.task /\ state.timing.status = "EXECUTING"
       THEN WriteState(\E ms \in Durations : InterruptRole(ms), "aborting", "failing")
       ELSE UNCHANGED state /\ Move("aborting")
    /\ UNCHANGED <<workVars, fileVars>>

\* The catch block closes the role's timing if it still runs, unless finishing it had
\* returned; an error in here leaves the record as it is.
CatchInterrupt ==
    /\ In("catching")
    /\ IF ~run.timed /\ state.pending = run.task /\ state.timing.status = "EXECUTING"
       THEN WriteState(\E ms \in Durations : InterruptRole(ms), "aborting", "failing")
       ELSE UNCHANGED state /\ Move("aborting")
    /\ UNCHANGED <<workVars, fileVars>>

CatchAbort ==
    /\ In("aborting")
    /\ IF Current.status \in {"SUBMITTED", "ABORTED"}
       THEN UNCHANGED journal /\ Move("failing")
       ELSE Advance("ABORTED", "failing", "failing")
    /\ UNCHANGED <<state, workVars, summary, phase>>

ExecuteBoundRole ==
    \/ BeginExecution \/ StartBoundRole \/ StartExecuting
    \/ Execute \/ VerifyConfinement \/ ExecuteConfined \/ Checkpoint \/ Validate
    \/ CaptureResult \/ FinishBoundRole \/ RecordFinished \/ SubmitBound \/ RecordSubmitted
    \/ CatchInterrupt \/ CatchAbort

RunCore ==
    \/ Create \/ InitializeExecutionJournal \/ Enqueue
    \/ Serve \/ Prepare \/ Summarize \/ MarkExecutionJournalReady \/ Return
    \/ MarkExecutionJournalFailed \/ ProjectFailed

RunStep == RunCore \/ ExecuteBoundRole

\* The run is never resumed after its process was killed.
Kill ==
    /\ run.at \notin Ended
    /\ Move("dead")
    /\ job' = [job EXCEPT ![Runner] = Idle]
    /\ UNCHANGED <<state, clones, commits, reported, fileVars>>

\* Validation entries are compared with what the controller computes from the committed
\* blob: an operator's result can carry no other outcome than the run's own.
Inputs(task) ==
    [verdict : Verdicts(task.purpose) \cap OperatorVerdicts, evidence : {Answer(task).evidence},
     subject : {task.iteration}]

\* The commands of cli.mjs work on any state file, also on that of a run.  The state is
\* created after the first projection.
Operator ==
    /\ \/ StartRole
       \/ \E ms \in Durations : FinishRole(ms)
       \/ \E task \in state.tasks : \E r \in Inputs(task) : SubmitResult(task, r)
       \/ ~In("fresh") /\ \E c \in Cycles : EnqueueRequest(c, None)
    /\ UNCHANGED <<workVars, run, fileVars>>

\* prepare-workspace and checkpoint, step by step, in processes of their own; what such
\* a checkpoint commits is worth what the workspace holds by then.
OperatorWork(p) ==
    /\ (StartWork(p) /\ job'[p].subject.iteration \in OperatorIterations) \/ Work(p) \/ Crash(p)
    /\ IF state.pending \in commits' \ commits
       THEN \E v \in BOOLEAN : run' = [run EXCEPT !.valid = v]
       ELSE UNCHANGED run
    /\ UNCHANGED fileVars

Next == RunStep \/ Kill \/ Operator \/ \E p \in Processes \ {Runner} : OperatorWork(p)

Spec == Init /\ [][Next]_vars

\* The run goes on by itself until it ends; the operator need not do anything.
FairSpec == Spec /\ WF_vars(RunStep)

-----------------------------------------------------------------------------
(* Properties                                                               *)

\* Every variable has its type.
TypeOK ==
    /\ state \in State
    /\ job \in [Processes -> [step : {"idle"} \cup PrepareSteps \cup CheckpointSteps,
                              subject : Task \cup {None}]]
    /\ clones \subseteq Task /\ commits \subseteq Task /\ reported \subseteq Task
    /\ run \in Run
    /\ journal \in Journal \cup {None}
    /\ summary \in (SUBSET Task) \cup {None}
    /\ phase \in Phases

\* The journal and the state tell the same story across their separate writes, also
\* when an operator served the task meanwhile: a record is SUBMITTED only if the state
\* accepted that very result, and EXECUTION_FINISHED only if the state has the role's
\* completed time or a result.
JournalTellsState ==
    \A e \in Range(Executions) :
        /\ e.status = "SUBMITTED" =>
             \E res \in state.results : res.task = e.task /\ res.verdict = e.verdict
        /\ e.status = "EXECUTION_FINISHED" =>
             \/ state.pending = e.task /\ state.timing.status = "COMPLETED"
             \/ \E res \in state.results : res.task = e.task

\* An execution recorded as ABORTED leaves no role running: the catch block closes the
\* timing first, whatever step of the execution failed, and nobody reopens it.
AbortedRoleIsClosed ==
    \A e \in Range(Executions) :
        e.status = "ABORTED" /\ state.pending = e.task => state.timing.status # "EXECUTING"

\* The files agree whichever write failed.  A journal that is ready stands for a cycle
\* accepted on its latest review, and every execution is submitted and listed in the
\* summary; the projection says ready only then, and says failed of a run that
\* executed anything only if its journal says so too.
FilesAgree ==
    /\ journal # None /\ journal.status = "READY_FOR_INTEGRATION" =>
         /\ AwaitsIntegration
         /\ \A c \in Cycles : state.active = c => state.cycles[c].decision = "ACCEPT" /\ MayAccept(c)
         /\ \A e \in Range(Executions) : e.status = "SUBMITTED"
         /\ summary = {e.task : e \in Range(Executions)}
    /\ phase = "READY_FOR_INTEGRATION" => journal.status = "READY_FOR_INTEGRATION"
    /\ phase = "FAILED" /\ Executions # <<>> => journal.status = "FAILED"

\* The run itself commits a candidate, and takes a builder's result, only with the
\* executor's confinement evidence on record, whatever failed on the way there.  (An
\* operator's checkpoint asks for none: the commit that the run finds may be his.)
OwnCandidatesConfined ==
    /\ job[Runner].step \in CheckpointSteps =>
         \E e \in Range(Executions) : e.task = Subject(Runner) /\ e.confined
    /\ \A e \in Range(Executions) :
         /\ e.task.purpose = "BUILDER_IMPLEMENTATION"
         /\ e.status \in {"RESULT_CAPTURED", "EXECUTION_FINISHED", "SUBMITTED"}
         => e.confined

\* A run comes to an end, by returning or by throwing (or it is killed): no failure of
\* a write, and nothing an operator does, makes it wait or go round for ever.
RunEnds == <>(run.at \in Ended)
=============================================================================
