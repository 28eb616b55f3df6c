---------------------------- MODULE LocalCheckpoint ----------------------------
(***************************************************************************)
(* The commands that leave the state file between two mutations: the           *)
(* preparation of a role's workspace (preparePendingWorkspace and               *)
(* registerWorkspace of src/src/coordinator.mjs, src/src/workspaces.mjs) and    *)
(* the checkpoint of a builder's candidate (src/src/local-checkpoint.mjs).      *)
(*                                                                            *)
(* Both first look at the state without a lock, then work on the file system    *)
(* or on git, then mutate the state, so two of them, or one and any operation   *)
(* of module RoleCycle, interleave.  A process runs one command at a time and   *)
(* may be killed between any two steps.                                         *)
(***************************************************************************)
EXTENDS RoleCycle

CONSTANT Processes      \* operating-system processes that run these commands

VARIABLES job,          \* what each process is doing, and for which task or cycle
          clones,       \* tasks whose workspace directory exists
          commits,      \* builder tasks whose workspace holds the candidate commit
          reported      \* tasks whose checkpoint reported CHECKPOINT_RECONCILIATION_REQUIRED

workVars == <<job, clones, commits, reported>>

Idle == [step |-> "idle", subject |-> None]

CheckpointSteps == {"checked", "intended", "committed", "failing"}

PrepareSteps == {"cloning", "cloned"}

NoWork == /\ job = [p \in Processes |-> Idle]
          /\ clones = {}
          /\ commits = {}
          /\ reported = {}

Goto(p, step) == job' = [job EXCEPT ![p].step = step]

Begin(p, step, subject) == job' = [job EXCEPT ![p] = [step |-> step, subject |-> subject]]

\* The command returns or throws.
End(p) == job' = [job EXCEPT ![p] = Idle]

At(p, step) == job[p].step = step

Subject(p) == job[p].subject

-----------------------------------------------------------------------------
(* prepare-workspace                                                        *)

\* Checked without the lock.  A later builder clones its predecessor's workspace,
\* found through the receipt of the commit it starts from.  The analyst's workspace
\* is left out: no later step reads or needs it.
PrepareBegin(p, task) ==
    /\ At(p, "idle")
    /\ state.pending = task
    /\ task.purpose = "BUILDER_IMPLEMENTATION"
    /\ task \notin state.workspaces
    /\ task.iteration > 1 =>
         \E source \in Checkpointed(state) \cap state.workspaces :
            source.cycle = task.cycle /\ source.iteration = state.cycles[task.cycle].base
    /\ Begin(p, "cloning", task)
    /\ UNCHANGED <<state, clones, commits, reported>>

\* The clone needs a path where nothing is yet.
Clone(p) ==
    /\ At(p, "cloning")
    /\ Subject(p) \notin clones
    /\ clones' = clones \cup {Subject(p)}
    /\ Goto(p, "cloned")
    /\ UNCHANGED <<state, commits, reported>>

\* WORKSPACE_PATH_NOT_AVAILABLE, or git fails half-way and leaves the directory.
CloneFails(p) ==
    /\ At(p, "cloning")
    /\ clones' \in {clones, clones \cup {Subject(p)}}
    /\ End(p)
    /\ UNCHANGED <<state, commits, reported>>

\* registerWorkspace: the task need not be pending any more.
RegisterWorkspace(p) ==
    /\ At(p, "cloned")
    /\ Subject(p) \in state.tasks
    /\ Subject(p) \notin state.workspaces
    /\ state' = [state EXCEPT !.workspaces = @ \cup {Subject(p)}]
    /\ End(p)
    /\ UNCHANGED <<clones, commits, reported>>

\* STATE_LOCKED: the directory is there and will not be registered.
RegisterFails(p) ==
    /\ At(p, "cloned")
    /\ End(p)
    /\ UNCHANGED <<state, clones, commits, reported>>

-----------------------------------------------------------------------------
(* createLocalCheckpoint                                                    *)

IntentOf(s, task) == {i \in DOMAIN s.intents : s.intents[i].task = task}

\* Array.prototype.find: the first intent of the task.
FirstIntent(s, task) == CHOOSE i \in IntentOf(s, task) : \A j \in IntentOf(s, task) : i <= j

\* The checks, without the lock.  Any issued builder task will do, not only the
\* pending one; the workspace is clean once it is committed, and then refused.
CheckpointBegin(p, task) ==
    /\ At(p, "idle")
    /\ task \in state.tasks
    /\ task.purpose = "BUILDER_IMPLEMENTATION"
    /\ task \notin Checkpointed(state)
    /\ IntentOf(state, task) = {}
    /\ ~state.hold
    /\ task \in state.workspaces
    /\ task \notin commits
    /\ Begin(p, "checked", task)
    /\ UNCHANGED <<state, clones, commits, reported>>

\* Mutant: the intent does not raise the hold.
CheckpointIntentWithoutHold(p) ==
    /\ At(p, "checked")
    /\ ~General
    /\ state' = [state EXCEPT !.intents = Append(@, [task |-> Subject(p), status |-> "PREPARED"])]
    /\ Goto(p, "intended")
    /\ UNCHANGED <<clones, commits, reported>>

\* The intent is written down and raises the hold, on whatever state there is now.
CheckpointIntent(p) ==
    /\ At(p, "checked")
    /\ ~General
    /\ state' = [state EXCEPT !.intents = Append(@, [task |-> Subject(p), status |-> "PREPARED"]),
                              !.hold = TRUE]
    /\ Goto(p, "intended")
    /\ UNCHANGED <<clones, commits, reported>>

\* mutateStateV2 throws outside the try block: before the rename (the lock is taken)
\* or after it, when the intent is there.
CheckpointIntentFails(p) ==
    /\ At(p, "checked")
    /\ ~General
    /\ \/ UNCHANGED state
       \/ state' = [state EXCEPT !.intents = Append(@, [task |-> Subject(p), status |-> "PREPARED"]),
                                 !.hold = TRUE]
    /\ End(p)
    /\ UNCHANGED <<clones, commits, reported>>

\* Mutant: an empty commit is allowed.
CheckpointCommitEmpty(p) ==
    /\ At(p, IF General THEN "checked" ELSE "intended")
    /\ commits' = commits \cup {Subject(p)}
    /\ Goto(p, "committed")
    /\ UNCHANGED <<state, clones, reported>>

\* git commit in the workspace; with nothing left to commit it fails.  The general
\* controller commits without an intent.
CheckpointCommit(p) ==
    /\ At(p, IF General THEN "checked" ELSE "intended")
    /\ Subject(p) \notin commits
    /\ commits' = commits \cup {Subject(p)}
    /\ Goto(p, "committed")
    /\ UNCHANGED <<state, clones, reported>>

\* git fails, before or after the commit was made.
CheckpointCommitFails(p) ==
    /\ At(p, IF General THEN "checked" ELSE "intended")
    /\ commits' \in {commits, commits \cup {Subject(p)}}
    /\ IF General THEN End(p) ELSE Goto(p, "failing")
    /\ UNCHANGED <<state, clones, reported>>

\* The state with the receipt; outside the general controller the intent is
\* completed and the hold is lowered, whoever raised it.
Completed(task) ==
    IF General
    THEN [state EXCEPT !.checkpoints = Append(@, task)]
    ELSE [state EXCEPT !.checkpoints = Append(@, task),
                       !.intents[FirstIntent(state, task)].status = "COMPLETED",
                       !.hold = FALSE]

CheckpointComplete(p) ==
    /\ At(p, "committed")
    /\ state' = Completed(Subject(p))
    /\ End(p)
    /\ UNCHANGED <<clones, commits, reported>>

\* mutateStateV2 throws: before the rename, or after it, when the completion is
\* visible (PERSISTENCE_DURABILITY_UNCERTAIN, or the lock is not given back).
CheckpointCompleteFails(p) ==
    /\ At(p, "committed")
    /\ \/ UNCHANGED state
       \/ state' = Completed(Subject(p))
    /\ IF General THEN End(p) ELSE Goto(p, "failing")
    /\ UNCHANGED <<clones, commits, reported>>

\* The catch block.  A COMPLETED intent carries fields that no other status may
\* have: marking it is refused by the validator, and its error is swallowed.
CheckpointUncertain(p) ==
    /\ At(p, "failing")
    /\ LET first == FirstIntent(state, Subject(p))
       IN  /\ state.intents[first].status # "COMPLETED"
           /\ state' = [state EXCEPT !.hold = TRUE,
                                     !.intents[first].status = "RECONCILIATION_REQUIRED"]
    /\ reported' = reported \cup {Subject(p)}
    /\ End(p)
    /\ UNCHANGED <<clones, commits>>

\* The mutation of the catch block fails as well: that error is swallowed too.
CheckpointUncertainSwallowed(p) ==
    /\ At(p, "failing")
    /\ reported' = reported \cup {Subject(p)}
    /\ End(p)
    /\ UNCHANGED <<state, clones, commits>>

-----------------------------------------------------------------------------

\* A process is killed: its command ends where it is.
Crash(p) ==
    /\ ~At(p, "idle")
    /\ End(p)
    /\ UNCHANGED <<state, clones, commits, reported>>

\* The next step of the process's own code.
Work(p) ==
    \/ Clone(p) \/ CloneFails(p) \/ RegisterWorkspace(p) \/ RegisterFails(p)
    \/ CheckpointIntent(p) \/ CheckpointIntentFails(p)
    \/ CheckpointCommit(p) \/ CheckpointCommitFails(p)
    \/ CheckpointComplete(p) \/ CheckpointCompleteFails(p)
    \/ CheckpointUncertain(p) \/ CheckpointUncertainSwallowed(p)

StartWork(p) == \E task \in state.tasks : PrepareBegin(p, task) \/ CheckpointBegin(p, task)
=============================================================================
