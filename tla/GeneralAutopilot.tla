--------------------------- MODULE GeneralAutopilot ---------------------------
(***************************************************************************)
(* The general autopilot: runGeneralAutopilotCore of                            *)
(* src/src/general-autopilot.mjs, which serves the roles of one instruction with *)
(* the answers of a model, commits and validates each candidate in a clone of    *)
(* the target, and closes its cycle when anything fails or takes too long.       *)
(*                                                                            *)
(* The state is the one of module RoleCycle, changed by one mutation after the   *)
(* other; a mutation may fail before its rename or after it, a deadline may pass *)
(* at every place the code looks at the clock, an operator's commands may change *)
(* the same state, and somebody may work on the target's checkout meanwhile.     *)
(***************************************************************************)
EXTENDS LocalCheckpoint

CONSTANTS Runner,       \* the process of the run
          MaxRoleCalls  \* MAX_ROLE_CALLS

ASSUME RunnerAssumption == Runner \in Processes

ASSUME ModeIsGeneral == "GENERAL_AUTOPILOT" \in Modes

\* Every role of every round may be asked.
ASSUME CallsAssumption == MaxRoleCalls \in Nat /\ MaxRoleCalls >= 2 * MaxIterations + 2

VARIABLES run,          \* where the run is, and the role it serves
          validated,    \* builder tasks whose candidate passed the validation commands
          target        \* what the target's checkout looks like

vars == <<state, workVars, run, validated, target>>

Untouched == "as it was"

\* Steps of the run; "dead" is a killed process.
RunSteps == {"cloning", "enqueueing", "handoff", "registering", "beginning", "calling",
             "writing", "committing", "validating", "finishing", "completing", "checking",
             "halting", "closing", "leaving", "returned", "thrown", "dead"}

Ended == {"returned", "thrown", "dead"}

\* candidate: the builder task whose receipt the run got last; expects: the role to hand
\* off to; round: the iteration of the loop; calls: answers recorded; repaired: the
\* architect was asked again; closed: the catch block found a cycle and terminateCycle
\* returned.
Run == [at : RunSteps, task : Task \cup {None}, answer : Result \cup {None},
        candidate : Task \cup {None}, expects : Purposes, round : 1 .. MaxIterations, calls : 0 .. MaxRoleCalls,
        repaired : BOOLEAN, closed : BOOLEAN]

Init ==
    /\ state = InitialState("GENERAL_AUTOPILOT")
    /\ NoWork
    /\ run = [at |-> "cloning", task |-> None, answer |-> None, candidate |-> None,
              expects |-> "ARCHITECT_PLAN", round |-> 1, calls |-> 0, repaired |-> FALSE, closed |-> FALSE]
    /\ validated = {}
    /\ target = Untouched

In(step) == run.at = step

\* What the run had in hand is gone in its catch block.
Move(step) ==
    run' = IF step \in {"closing", "thrown", "dead"}
           THEN [run EXCEPT !.at = step, !.task = None, !.answer = None, !.candidate = None]
           ELSE [run EXCEPT !.at = step]

\* One mutation of the state: done, or reported as failed without effect or after its
\* rename.
Mutate(action, next, onError) ==
    \/ action /\ Move(next)
    \/ (action \/ UNCHANGED state) /\ Move(onError)

RestUnchanged == UNCHANGED <<workVars, validated, target>>

-----------------------------------------------------------------------------
(* The start of a run                                                       *)

\* Before the state's path is known there is nothing to close.
CloneWorkspace ==
    /\ In("cloning")
    /\ (Move("enqueueing") \/ Move("thrown"))
    /\ UNCHANGED state /\ RestUnchanged

Enqueue ==
    /\ In("enqueueing")
    /\ Mutate(\E c \in Cycles : EnqueueRequest(c, None), "handoff", "closing")
    /\ RestUnchanged

\* The task reviews the candidate that the run has in hand.
OfCandidate(task) ==
    /\ run.candidate # None
    /\ task.cycle = run.candidate.cycle /\ task.iteration = run.candidate.iteration

Reviewing == {"ANALYST_REVIEW", "ARCHITECT_FINAL_DECISION"}

\* The pending task is read from the state; only the builder's and the last final
\* decision's purpose is checked, but no other task would take the role's payload.
Handoff ==
    /\ In("handoff")
    /\ UNCHANGED state /\ RestUnchanged
    /\ IF state.pending # None /\ state.pending.purpose = run.expects
       THEN run' = [run EXCEPT !.task = state.pending, !.answer = None,
                               !.at = IF run.expects \in {"BUILDER_IMPLEMENTATION", "ANALYST_REVIEW"}
                                      THEN "registering" ELSE "beginning"]
       ELSE Move("closing")

\* registerWorkspace: every iteration registers the one clone again, unless an operator
\* prepared a workspace for the task.  The analyst's has to be of the run's candidate; it
\* is left out as in module LocalCheckpoint.
Register ==
    /\ In("registering")
    /\ \/ /\ run.task.purpose = "BUILDER_IMPLEMENTATION"
          /\ Mutate(/\ run.task \in state.tasks \ state.workspaces
                    /\ state' = [state EXCEPT !.workspaces = @ \cup {run.task}],
                    "beginning", "closing")
       \/ /\ run.task.purpose = "ANALYST_REVIEW" /\ OfCandidate(run.task)
          /\ UNCHANGED state /\ Move("beginning")
       \/ UNCHANGED state /\ Move("closing")
    /\ RestUnchanged

-----------------------------------------------------------------------------
(* One role                                                                 *)

\* The cycle's deadline has passed, or the role's clock starts and the role with it.
\* A role that is executing already is taken over.
BeginRole ==
    /\ In("beginning")
    /\ \/ UNCHANGED state /\ Move("halting")
       \/ state.pending = run.task /\ Mutate(StartRole, "calling", "closing")
       \/ /\ state.pending = run.task /\ HoldAllows /\ state.timing.status = "EXECUTING"
          /\ UNCHANGED state /\ Move("calling")
       \/ UNCHANGED state /\ Move("closing")
    /\ RestUnchanged

\* What a model's answer may say; a final decision without a passed review has to be
\* a rejection.
Answers(task) ==
    LET verdicts ==
          CASE task.purpose = "ARCHITECT_PLAN" -> {"PLANNED"}
            [] task.purpose = "BUILDER_IMPLEMENTATION" -> {"BUILT"}
            [] task.purpose = "ANALYST_REVIEW" -> {"PASS", "REVISE"}
            [] OTHER -> IF LatestReview(task.cycle).verdict = "PASS" THEN {"ACCEPT", "REJECT"}
                        ELSE {"REJECT"}
    IN  [verdict : verdicts, evidence : {"PASS"}, subject : {task.iteration}]

\* Mutant: every role may be asked again, and what it said is kept.
AskAgain ==
    /\ run.task.purpose # "ARCHITECT_PLAN" \/ ~run.repaired
    /\ run' = [run EXCEPT !.repaired = TRUE, !.calls = @ + 1]

\* An answer that violates the architect's schema is not recorded, and repaired once.
Repair ==
    /\ run.task.purpose = "ARCHITECT_PLAN" /\ ~run.repaired
    /\ run' = [run EXCEPT !.repaired = TRUE]

Answered ==
    \E answer \in Answers(run.task) :
        run' = [run EXCEPT !.answer = answer, !.calls = @ + 1,
                           !.at = IF run.task.purpose = "BUILDER_IMPLEMENTATION"
                                  THEN "writing" ELSE "finishing"]

\* runRole: an answer, an error of the transport or of the parser, or the deadline.
Call ==
    /\ In("calling")
    /\ \/ run.calls < MaxRoleCalls /\ (Answered \/ Repair)
       \/ Move("halting")
       \/ Move("closing")
    /\ UNCHANGED state /\ RestUnchanged

\* The builder's files stay inside the plan and the restricted executor writes them.
WriteFiles ==
    /\ In("writing")
    /\ (Move("committing") \/ Move("halting") \/ Move("closing"))
    /\ UNCHANGED state /\ RestUnchanged

\* What the clone's branch holds: the run's last candidate, or the baseline.
Tip == IF run.candidate = None THEN 0 ELSE run.candidate.iteration

\* createLocalCheckpoint, step by step as in module LocalCheckpoint, on the clone whose tip
\* has to be the iteration's base; the deadline is looked at before and after it.  The
\* receipt of an operator's checkpoint is replayed.
Checkpoint ==
    /\ In("committing")
    /\ \/ /\ CheckpointBegin(Runner, run.task) /\ Tip = state.cycles[run.task.cycle].base
          /\ UNCHANGED run
       \/ CheckpointCommit(Runner) /\ UNCHANGED run
       \/ /\ \/ CheckpointComplete(Runner)
             \/ /\ At(Runner, "idle") /\ run.task \in Checkpointed(state)
                /\ UNCHANGED <<state, workVars>>
          /\ \/ run' = [run EXCEPT !.at = "validating", !.candidate = run.task]
             \/ Move("halting")
       \/ (CheckpointCommitFails(Runner) \/ CheckpointCompleteFails(Runner)) /\ Move("closing")
       \/ /\ At(Runner, "idle") /\ UNCHANGED <<state, workVars>>
          /\ (Move("halting") \/ Move("closing"))
    /\ UNCHANGED <<validated, target>>

\* Mutant: a failed command is part of the report only.
ValidateLeniently ==
    /\ In("validating")
    /\ validated' \in {validated, validated \cup {run.task}}
    /\ (Move("finishing") \/ Move("halting") \/ Move("closing"))
    /\ UNCHANGED <<state, workVars, target>>

\* The commands run in the clone, what they leave behind is removed, and the candidate
\* is verified; a failing command ends the run.
Validate ==
    /\ In("validating")
    /\ \/ validated' = validated \cup {run.task} /\ Move("finishing")
       \/ UNCHANGED validated /\ (Move("halting") \/ Move("closing"))
    /\ UNCHANGED <<state, workVars, target>>

Finish ==
    /\ In("finishing")
    /\ \/ UNCHANGED state /\ Move("halting")
       \/ state.pending = run.task /\ Mutate(\E ms \in Durations : FinishRole(ms), "completing", "closing")
       \/ UNCHANGED state /\ Move("closing")
    /\ RestUnchanged

\* Who is next: a revision goes back to the builder while rounds are left.
NextRole ==
    CASE run.answer.verdict = "PLANNED" -> "BUILDER_IMPLEMENTATION"
      [] run.answer.verdict = "BUILT" -> "ANALYST_REVIEW"
      [] run.answer.verdict = "REVISE" /\ run.round < MaxIterations -> "BUILDER_IMPLEMENTATION"
      [] OTHER -> "ARCHITECT_FINAL_DECISION"

NextRound == IF run.answer.verdict = "REVISE" /\ run.round < MaxIterations
             THEN run.round + 1 ELSE run.round

\* submitRoleResult: a review has to be of the commit its task names, and the same result,
\* accepted before, is replayed.
Complete ==
    /\ In("completing")
    /\ \/ /\ run.task.purpose \in Reviewing => OfCandidate(run.task)
          /\ \/ SubmitResult(run.task, run.answer)
             \/ /\ \E res \in state.results : res.task = run.task /\ res.verdict = run.answer.verdict
                /\ UNCHANGED state
          /\ run' = IF run.task.purpose = "ARCHITECT_FINAL_DECISION"
                    THEN [run EXCEPT !.at = "checking"]
                    ELSE [run EXCEPT !.at = "handoff", !.expects = NextRole, !.round = NextRound]
       \/ (SubmitResult(run.task, run.answer) \/ UNCHANGED state) /\ Move("closing")
    /\ RestUnchanged

-----------------------------------------------------------------------------
(* The end of a run                                                         *)

\* GENERAL_TARGET_MUTATED, when the target is not as it was at the start.
CheckTarget ==
    /\ In("checking")
    /\ IF target = Untouched THEN Move("leaving") ELSE Move("closing")
    /\ UNCHANGED state /\ RestUnchanged

\* Mutant: only a cycle that has no candidate yet is closed.
CloseUnbuilt ==
    IF state.pending = None \/ state.cycles[state.pending.cycle].candidate # 0
    THEN UNCHANGED state
    ELSE \E ms \in Durations : TerminateCycle(ms)

\* terminateCycle, of whatever task is pending; a cycle that is closed stays as it is.
CloseCycle ==
    IF state.pending = None THEN UNCHANGED state ELSE \E ms \in Durations : TerminateCycle(ms)

\* haltForLimit closes the cycle and throws, whether or not it could.  It stops the clock
\* of the run's task, which need not be pending any more: the time of a closed cycle
\* counts for nothing.
Halt ==
    /\ In("halting")
    /\ Mutate(CloseCycle, "closing", "closing")
    /\ RestUnchanged

\* Mutant: the catch block serves the next pending task.
CatchAndRetry ==
    /\ In("closing")
    /\ UNCHANGED state /\ RestUnchanged
    /\ run' = [run EXCEPT !.at = "handoff"]

\* The catch block: STATE_LOCKED is swallowed, another error replaces the first.
Catch ==
    /\ In("closing")
    /\ \/ CloseCycle /\ run' = [run EXCEPT !.at = "thrown",
                                            !.closed = \E c \in Cycles : state.cycles[c] # None]
       \/ (CloseCycle \/ UNCHANGED state) /\ Move("thrown")
    /\ RestUnchanged

\* The finally block looks at the target once more before anything is returned.
Leave ==
    /\ In("leaving")
    /\ IF target = Untouched THEN Move("returned") ELSE Move("thrown")
    /\ UNCHANGED state /\ RestUnchanged

RunStep ==
    \/ CloneWorkspace \/ Enqueue \/ Handoff \/ Register
    \/ BeginRole \/ Call \/ WriteFiles \/ Checkpoint \/ Validate \/ Finish \/ Complete
    \/ CheckTarget \/ Halt \/ Catch \/ Leave

\* The run is never resumed after its process was killed.
Kill ==
    /\ run.at \notin Ended
    /\ Move("dead")
    /\ job' = [job EXCEPT ![Runner] = Idle]
    /\ UNCHANGED <<state, clones, commits, reported, validated, target>>

\* The commands of cli.mjs work on any state file, from its creation on.  Validation
\* entries only have to be consistent with themselves here: an operator's result may claim
\* any outcome.
Operator ==
    /\ \/ StartRole
       \/ \E ms \in Durations : FinishRole(ms)
       \/ \E task \in state.tasks : \E verdict \in Verdicts(task.purpose) :
            SubmitResult(task, [verdict |-> verdict, evidence |-> "PASS", subject |-> task.iteration])
       \/ ~In("cloning") /\ \E c \in Cycles : EnqueueRequest(c, None)
    /\ UNCHANGED <<workVars, run, validated, target>>

\* prepare-workspace and checkpoint, step by step, in processes of their own.
OperatorWork(p) ==
    /\ StartWork(p) \/ Work(p) \/ Crash(p)
    /\ UNCHANGED <<run, validated, target>>

\* Somebody works in the target's checkout, or puts it back.
TouchTarget ==
    /\ target' \in {Untouched, "touched"} \ {target}
    /\ UNCHANGED <<state, workVars, run, validated>>

Next == RunStep \/ Kill \/ Operator \/ TouchTarget \/ \E p \in Processes \ {Runner} : OperatorWork(p)

Spec == Init /\ [][Next]_vars

\* The run goes on by itself until it ends: every call of a model or a command has a
\* timeout.  Nobody else need do anything.
FairSpec == Spec /\ WF_vars(RunStep)

-----------------------------------------------------------------------------
(* Properties                                                               *)

\* Every variable has its type, and the limit on calls never ends a run: all rounds,
\* with the one repair, stay below it.
TypeOK ==
    /\ In("calling") => run.calls < MaxRoleCalls
    /\ state \in State
    /\ job \in [Processes -> [step : {"idle"} \cup PrepareSteps \cup CheckpointSteps,
                              subject : Task \cup {None}]]
    /\ clones \subseteq Task /\ commits \subseteq Task /\ reported \subseteq Task
    /\ run \in Run
    /\ validated \subseteq Task
    /\ target \in {Untouched, "touched"}

\* A run that fails closes its cycle, wherever it was and whatever an operator did to
\* the cycle meanwhile, if its catch block could write the state: nothing is left
\* pending, and a hold keeps the controller from going on.
FailsClosed ==
    run.at = "thrown" /\ run.closed =>
        /\ state.active = None /\ state.pending = None /\ state.hold
        /\ \A c \in Cycles : state.cycles[c] # None => state.finals[c] # None

\* What a run returns is what its state says.  Ready for integration: the cycle is
\* accepted on a passed review of the last candidate, which the run itself validated
\* after committing it; otherwise the cycle is rejected.
ReportIsEarned ==
    run.at = "returned" =>
        LET c == run.task.cycle
            cycle == state.cycles[c]
        IN  IF run.answer.verdict = "ACCEPT"
            THEN /\ cycle.status = "ACCEPTED" /\ cycle.stage = "READY_FOR_INTEGRATION"
                 /\ MayAccept(c) /\ LatestReview(c).reviewed = cycle.candidate
                 /\ \E build \in validated \cap Checkpointed(state) :
                      build.cycle = c /\ build.iteration = cycle.candidate
            ELSE cycle.status = "REJECTED"

\* A run comes to an end, by returning or by throwing (or it is killed).
RunEnds == <>(run.at \in Ended)
=============================================================================
