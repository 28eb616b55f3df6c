# A TLA+ verification of the AI Agent Radar orchestrator

The orchestrator is a local controller that takes an improvement request through
the roles architect, builder and analyst, and ends with a commit on a target
branch or with a disposition by the architect. Every command is a short-lived
process. What they share is one JSON state file, a lock file beside it, git
workspaces, and the target repository. This project models that controller,
checks it with TLC and proves with TLAPS, for any number of processes, cycles and
grants, what the store, the commands that create and change the state file, the
controller, the real pilot and the two autopilots keep true. Every safety property that a passing
run checks is proved as well; what is only checked is liveness.

Line numbers in `PROJECT.json` refer to the files under `src/`; paths below are
relative to it.

## 1. Inventory

| Component | State it keeps | Operations | Interacts with |
|---|---|---|---|
| Protected state file (`src/local-store.mjs`) | state file, lock file, temporary files | `acquireLock`/`release`, `readState`, `replaceStateAtomic`, `mutateStateV2`; `initializeStateV2`, `persistReviewBundle`, `admitNextCycle` | every command mutates the state through it |
| Role cycle (`src/coordinator.mjs`, `src/role-timing.mjs`, `src/result-submission.mjs`, `src/validation-evidence.mjs`) | active cycle, pending task, hold, plans, tasks, results, timings, reviews, summaries | `enqueueRequest`, `startRole`, `finishRole`, `interruptRoleMeasured`, `submitRoleResult`, `finalizeTerminalCycle` | one `mutateStateV2` call each |
| Workspaces and checkpoints (`src/coordinator.mjs`, `src/workspaces.mjs`, `src/local-checkpoint.mjs`) | registered workspaces, directories and their commits, checkpoint intents and receipts | `preparePendingWorkspace`, `createLocalCheckpoint` | unlocked reads, git, then one or two mutations |
| Fixture integration (`src/local-integration.mjs`) | integration intents and outcomes, the target's branch, the target's lock file | `integrateFixtureCandidate` | as above, and the target repository |
| Command line (`src/cli.mjs`) | none | dispatches the operator's commands | everything above |
| Real pilot (`src/pilot-authorization.mjs`, `src/real-pilot-admission.mjs`, `src/real-local-integration.mjs`) | authorizations and their lifecycle, admission receipts, schema-3 state | grant, claim, integrate, reconcile | state file, target |
| Offline autopilot and role execution (`src/autopilot.mjs`, `src/role-execution.mjs`, `src/adapters/offline-fixture.mjs`) | a runtime directory of its own: state, execution journal, summary, status projection | the run (serve a task, prepare, execute, summarize, mark ready or failed); one bound role (bind, start, confine, commit, validate, record, finish, submit, abort) | role cycle, workspaces and checkpoints; the command line works on the same state file |
| General autopilot (`src/general-autopilot.mjs`) | its own controller state, deadlines, one clone of the target for all iterations | rounds of builder and analyst, repair of an architect's answer, `terminateCycle`, the catch and finally blocks | role cycle, checkpoints, the model's transport, the target's checkout (which it only looks at) |
| Interactive confirmation (`src/interactive-confirmation.mjs`) | one dialogue per process: its state and the raw input since the prompt | display, chunks of input, end of input, signals | `authorize-pilot`, which issues the grant that was confirmed |
| Version-1 machine (`src/queue.mjs`, `src/ownership.mjs`, `src/outbox.mjs`, and `src/transitions.mjs`, `src/eligibility.mjs`, `src/summaries.mjs`, `src/retention.mjs`, which nothing under `src/` calls) | queue, cycles, a review file with its outbox | order and dequeue, claim, append of a bundle and its event | `admitNextCycle` on the state file, `persistReviewBundle` on the review file |
| Migration (`src/state-migration.mjs`) | evidence copy, named after the digest of its bytes | `migrateStateV1ToV2` | the state's lock file, and whoever else writes the state |
| Validators, contracts, renderer, git evidence, adapters, scenario | none | pure or read-only | all |

What is hard in this code:

* **Interleaving.** Mutations exclude each other, but the checkpoint and the
  integration decide on an unlocked read and then mutate two or three times. The
  state may be another one each time.
* **Crashes.** A process may die between any two steps; lock files are never taken
  over, intents stay.
* **Partial failure.** `mutateStateV2` can throw although its change is visible: the
  directory sync failed, or the lock could not be given back. The catch blocks
  must cope with both.
* **One flag for several reasons.** `humanHold` is raised by intents, time limits,
  reviews and dispositions, and lowered by whoever completes.
* **Bounds.** Three iterations, 15 and 90 minutes; what is late may only be blocked.
* **Files that are written in place.** A new state file and the evidence of a migration
  are created exclusively and then written; a kill in between leaves a torn file, which no
  command takes over.
* **Writers without the lock.** `persistReviewBundle` takes none, and `admitNextCycle` takes
  the one its caller names.
* **Input in pieces.** A confirmation arrives in chunks, split anywhere, before or after its
  prompt, and two readers disagree about what ends a line.

What makes each component correct: for the store, mutual exclusion, no lost
update, durability of what was confirmed. For the role cycle: only a validated
pass of the current candidate is accepted, iterations chain, a cycle closes once
and always comes to an end. For checkpoints and integration: one commit, one
receipt, one move of the branch, and a hold over whatever is not settled. For the
real pilot: an authorization is used at most once, and the target moves once. For the commands
that create and change a state file: one history, whichever of them run side by side, and no
grant in it that no human confirmed. For the offline
run: its files never contradict each other, whichever write failed. For the general run: it
reports only what it validated, closes its cycle when it fails, and ends.

## 2. Modules

```
VersionedLedger   what the state file promises (abstract)
      ^ implemented by
StateStore        lock, read, mutate, stage, rename, sync, release; crashes
      ^ extended by StateStore_proofs, MCStateStore

CommandProcesses  the constant that the next three share
Confirmation      the dialogue of a human with authorize-pilot
StateFile         creation, admission, migration and mutation of one state file
ReviewBundle      the unlocked writers of a review file
OperatorSession   the composition of those three: commands in several terminals
      ^ extended by OperatorSession_proofs, MCOperatorSession

RoleCycle         the version-2 state and its one-mutation operations
      ^ extended by RoleCycle_proofs
LocalCheckpoint   + workspaces and checkpoints (processes with program counters)
FixtureIntegration + the target branch and its integration
Controller        the composition, its fairness and its properties
      ^ extended by Controller_proofs, MCController

PilotGrants       what the real pilot promises of its authorizations (abstract)
      ^ implemented by; extended by PilotGrants_proofs, MCPilotGrants
RealPilot         LocalCheckpoint + authorization, admission, ref-only integration
      ^ extended by RealPilot_proofs (with RoleCycle_proofs), MCRealPilot

OfflineAutopilot  LocalCheckpoint + the offline run and its journal
      ^ extended by OfflineAutopilot_proofs, MCOfflineAutopilot
GeneralAutopilot  LocalCheckpoint + the general run, its rounds and deadlines
      ^ extended by GeneralAutopilot_proofs, MCGeneralAutopilot
```

`RoleCycle` and what builds on it treat one `mutateStateV2` call as one step. That
is what `StateStore` justifies: `ImplementsLedger` says that each call adds at most one
entry to an append-only sequence. The two ways in which a call can fail are kept:
an action whose name ends in `Fails` leaves the state alone or, where the code can
throw after the rename, changes it and still fails.

### StateStore

A `Writer` is a call of `mutateStateV2`. `lock` is the lock file (`Free`, its creator, or
`Stale` when that is gone), `pc` the place in the code, `candidate` the copy
that `readState` returned and the mutator changed, `file` the visible content, `disk`
what a power loss cannot take back, `confirmed` the changes reported to callers.
The content is the history of mutations, so that a lost update is visible as a
missing entry. `Mutate` may advance `stateVersion` by 0, 1 or 2, so that the check of
line 256 matters. `PowerLoss` undoes any number of unsynced renames, the last first,
and may bring back or lose the lock file. `OperatorRemovesStaleLock` is the manual
recovery; the operator is trusted to know that the creator is gone. A call that
finds the lock taken throws and changes nothing, so it is no action.

### Confirmation, StateFile, ReviewBundle and OperatorSession

`Confirmation` is `confirmSingleLineInteractively` as a machine per process: `dialogue` holds
where it is and the raw input since the prompt. Text is a sequence of pieces, so that a
chunk may end anywhere: what the confirmation is made of, `nl`, and `sep`, the character
U+2028, which ends a line for `node:readline` and is plain text to the check of the raw input.
`Hear` decides at the first line end, and whatever is not exactly the confirmation and its
line end aborts. Input before the prompt is complete, the end of the input and signals abort
at any time.

`StateFile` is a controller's state file from its creation. `file` is what is visible, `disk`
what a power loss leaves, `lock` the lock files, `evidence` the copies that migrations made (whole,
torn, or lost to a power loss), and `job` each process's command, step and copy of the state. Its
steps are those of `initializeStateV2` (exclusive creation, the write in place, the sync), of
`admitNextCycle` with the order of the queue and the claim of a version, of
`migrateStateV1ToV2` with its evidence, of `enqueueRequest`, and of
`commitPilotAuthorization` on a file that is there. A version-1, version-2 or version-3 content is
its version, its queue and cycles, its active cycle and hold, its grants, and the source it names
when it was migrated. Locking and reading are one step here, as `StateStore` has them in
detail. `AdmissionLock` is the lock path that the callers of `admitNextCycle` pass: nothing under `src/src`
calls it, and the tests, where only admissions compete, pass one path (`controller.lock`) to all of
them. The session has other commands beside it, so it is checked with the state's own lock.

`ReviewBundle` is `persistReviewBundle`: `ReadReviews` reads and computes, `ReplaceReviews`
replaces, with no lock. A power loss on the review file is not modelled: it would undo a
replacement, which is a state that was there before.

`OperatorSession` runs all of them in several terminals: a process starts a command, holds the
dialogue if it is `authorize-pilot`, looks again at whether there is a file, creates or appends, and
reports. `confirmed` and `issued` are history variables: the grants that a dialogue confirmed,
and those that were reported as ISSUED. `Kill` and `PowerLoss` happen at any step. `issued` is
a little more than is reported: a `Release` whose lock was gone already reports as well.

### RoleCycle

`state` is the state file's record. Commits are named by the iteration that made them
(0 is the baseline); a task is its cycle, purpose, iteration and plan revision, which
is what its identifier is made of. A review is named by its iteration, like the
digest of its result. Receipts and results are one set, timings of finished tasks
are their sum. Summaries are `iterations` (with the review) and `finals`; the outbox
event that goes with each is written by the same mutation and carries nothing more.
`PASS_WITH_RECOMMENDATIONS` is folded into `PASS`, and `HUMAN_REVIEW_REQUIRED` into
`REJECT`: the code treats them alike everywhere. The validation entries of a result
are one outcome, `PASS` or `FAIL`.

A submission that throws, or that replays an accepted result, changes nothing and is
no action. The relations that `validateMachineStateV2` demands of every written state
are the invariant `ValidState`; as it holds, no action needs it in its guard.

### LocalCheckpoint and FixtureIntegration

Each process has a program counter and a subject. `CheckpointBegin` and
`IntegrationBegin` are the unlocked checks. Then come the intent, the git work, the
completion, and the catch block, each a step of its own, with `Crash` between any
two. `commits` and `clones` are the file system, `tip` the target branch,
`targetLock` its lock file. `reported` and `advanced` are history variables: which
checkpoints reported uncertainty, and which cycles moved the branch.

The checks of git evidence (scope, ancestry, file modes) are not computed; they can
fail at any time, which is the failing alternative of the step they belong to.

### Controller

Any command at any time: two processes inside checkpoints, preparations or
integrations, while the operator enqueues, starts, finishes and submits. The general
autopilot and the offline executor are drivers of these same operations in their
own evidence modes; as programs they have modules of their own, below. `Interrupt` is possible only in `OFFLINE_FIXTURE` mode and
`Terminate` only in `GENERAL_AUTOPILOT` mode, because only those drivers call them.

### PilotGrants and RealPilot

A grant is a human's authorization, named by its content; `RequestOf` is the request, and
so the cycle, that it names. `ledger` is the file's list of grants in its order,
`lifecycle` their status, `tip` the grant whose candidate the target branch holds.
The roles are those of `RoleCycle`: `Mutation` adds what `finalizeTerminalCycle` does on
a schema-3 state, closing the claimed grant with its cycle. `uncertain` is a history
variable, the integrations that reported INTEGRATION_RECONCILIATION_REQUIRED.

Issuing, admission and integration are processes like the checkpoints: an unlocked
check, then the mutation on whatever state there is by then, with what the code
checks again under the lock. Admission finds a grant by its request, so of two grants
for one request only the first in the file can ever be claimed; that, and the
validator's relation of active cycle and cycles, is what makes `ImplementsGrants` hold
where the code checks little under the lock. What holds up an integration between two
steps (the lock file of the target, the fetch, the snapshot of the checkout) is one
failing alternative. `initializeStateV2` is one step here; `StateFile` has its steps.

`PilotGrants` has no process, lock or hold. Its `Doubt` may follow `Consume`, because a final
record can be visible and still be reported as failed; the code then takes the
grant back to RECONCILIATION_REQUIRED although its cycle is closed as integrated.

### OfflineAutopilot

`run` is where the program is: `CoreSteps` are the steps of `runCore`, `RoleSteps` those of
`executeBoundRole`. `journal`, `summary` and `phase` are the three files it writes beside
the state. `Write` is the atomic replacement of one file, with its three outcomes: done,
failed without effect, failed after the rename. What the code does next depends on
where the error is thrown: before the request is enqueued (`run` is null, so the
journal is not marked), in the loop (`failing`), or inside the `try` of a role (`catching`).
`startRole` stands outside that `try`. `Prepare` and `Checkpoint` are the steps of
`LocalCheckpoint` made by the run's process.

The journal's lock is not modelled: only the run uses that file, and a lock that is
taken is one more way for a write to fail. Nothing prevents the commands of the command
line from working on the run's state file, and all that change such a state are modelled. `Operator` has those
of one mutation: `enqueue`, `start-role`, `finish-role` and `submit-result`; the results it submits carry the
controller's own validation outcome, because the code compares them with it. `OperatorWork` has
`prepare-workspace` and `checkpoint`, step by step in processes other than the `Runner`, as they are in
`LocalCheckpoint`. `integrate-fixture` refuses a state that is not SIMULATED
(`src/local-integration.mjs:22`), the pilot's commands one that is not of schema 3, `init` a file that is there.

The run meets what an operator left: a workspace that is registered already, an intent or a
hold that makes its own checkpoint throw, or a receipt, which it replays (`src/local-checkpoint.mjs:15`). The
candidate's worth (`valid`) is chosen when the builder's file is written and once more when
an operator's checkpoint commits the pending task's, since the file may have changed; after that
every role that looks at the commit gets the same answer. Preparing the analyst's workspace is
left out, as in `LocalCheckpoint`. So is the limit of 20 roles (`src/autopilot.mjs:100`): any step of the loop may
fail anyway, and with three iterations there are fewer roles.

### GeneralAutopilot

`run` holds the step, the task, the answer, the role that is expected next, the round and the
count of answers. `Mutate` is one mutation of the state, with the same three outcomes.
A deadline may pass wherever the code looks at the clock (`Move("halting")`); the deadlines
themselves are not counted, so that they may come in any order. `Repair` is the one
retry of an architect's answer, which is not recorded and so does not count as a call.
`Answers` is what `parse` lets through; the last final decision has to be a rejection.
`TouchTarget` is somebody at work in the target's checkout. The run registers one clone for
every iteration; the analyst's registration of that same clone changes nothing that a
later step looks at, and is kept as the check that the clone holds the commit under review.

`Operator` and `OperatorWork` are the same commands as in the offline run, with results of any
claimed outcome. The run gets its candidate from its own checkpoint or from the receipt of
an operator's; `run.candidate` is the builder task whose receipt it has in hand, and a review has to be of
that candidate (`OfCandidate`). `Complete` replays a result that was accepted before. `Tip` is what
the clone's branch holds: the run's own checkpoint needs the iteration's base there. An
operator's checkpoint may start at any time after its task's workspace is registered, since a human may edit a
workspace at any time, and in the model it looks at no tip: that allows more than the code does.

## 3. Runs

| Run | Bounds | What it shows |
|---|---|---|
| `state_store` | 3 commands, `stateVersion` up to 4 | exclusion, no lost update, durability, refinement of the ledger, and that every path gives the lock back |
| `controller_cycle` | 1 cycle, 1 process, 3 iterations, all modes, times within and over a limit | acceptance on merit, limits, chaining, one summary, and that cycles end |
| `controller_races` | 2 cycles, 2 processes, 1 iteration | receipts, intents, target and closed cycles under interleaving and crashes |
| `real_pilot` | 2 requests, 3 grants (2 for one request), 2 processes, 1 iteration | grants used once, one cycle at a time, the target moved once, and holds that stop an integration |
| `pilot_grants` | 4 grants, 3 requests | what follows from that promise: a request is run under one grant at most, no two cycles side by side (`GrantsUsedOnce`), and the target moves once, under the integration of a grant that is consumed or doubted (`TargetUnderGrant`) |
| `operator_session` | 2 processes, 3 requests (one human's), 2 grants, 4 commands, 1 power loss, 3 pieces heard without a line end | one history of the state file, confirmed grants, kept evidence, whole bundles |
| `offline_autopilot` | one run, 2 iterations, an operator with one process of his own, who works at the workspace of iteration 2 (`OperatorIterations`) and submits six of the verdicts (`OperatorVerdicts`); roles in time | that state, journal, summary and projection agree, that an aborted role is closed, that confinement is on record before the run itself commits, and that the run ends |
| `general_autopilot` | one run, 3 rounds, 10 calls, an operator with one process of his own, a target that may change | fail-closed, earned reports, and that the run ends; the bound on calls is part of its `TypeOK` |
| `admission_unheld` | as `real_pilot` | finding 3, a violation |
| `integration_uncertainty` | as `real_pilot` | finding 4, a violation |
| `hold_after_disposition` | 1 cycle, 1 process, 1 iteration | finding 1, a violation |
| `checkpoint_uncertainty` | the same | finding 2, a violation |

Why the bounds are enough. Three commands in the store allow an owner, a
competitor and a third that arrives after a stale lock was removed. Four versions
allow several unsynced renames. The iteration bound of the code is three, so
`controller_cycle` runs all of it; `RoleLimit` 1 with times 1 and 2 puts a role on both
sides of its limit, and `CycleLimit` 8 is reached by five roles or more, so both
limits are hit separately. Races are pairwise, between two commands or a command and the
operator, hence two processes; a late command of one cycle can meet the next one,
hence two cycles. Two grants for one request, and one for another, are the cases that the
ledger tells apart. One iteration is enough there because iterations share no
intents: a checkpoint belongs to one task.

The offline run needs two iterations to put a failed and a passed candidate, and two
records of one role, into one journal; its `CycleLimit` 7 lets such a run of seven roles
finish when each takes one unit. No role takes longer in that run: what a role over its limit does to
the state is checked by the controller's runs, and the theorems about the offline run hold for
all durations. An operator's process that works at iteration 2 meets both a run that has
its records of a whole iteration behind it and one that has not, and a workspace that needs iteration 1's
receipt. His work at iteration 1, and the verdicts left out (REJECT and HUMAN_REVIEW), are covered by the
theorems, which have no such bounds, and not by the check of `RunEnds`. The general run has the code's own three rounds and ten calls (`MAX_ITERATIONS`,
`MAX_ROLE_CALLS`): a plan, three times builder and analyst, and a decision make eight.

The session has two processes because its races are between two commands: a creation and an
authorization that found no file, an admission and a migration, two migrations, two reviewers.
Four commands let a file be created, changed, migrated, and met by one that started
earlier. Three requests put two scheduled ones, of which either may be due, before and behind a
human's. The confirmation has two pieces, so that a chunk can split it; three pieces without a line
end are one more than it has. The second power loss adds nothing to the first: what it finds
is a state that the first could leave.

`CHECK_DEADLOCK FALSE` stands in the controller's configurations because a controller may
stop: when every request is closed, or when it is held. The two autopilots stop when
their run is over, and a session when its commands are spent.

### Fairness

`StateStore.FairSpec`: a running command takes its next step (the operating system
schedules it) unless it is killed. Nobody has to start one or to remove a stale
lock. `Controller.FairSpec`: a started command runs on, and the operator serves the
pending task, that is, starts the role, finishes it and submits *some* result.
`CycleSettles` is stated under that assumption; it is the role of the code to make the
loop of revisions finite and to accept a closing result whatever went wrong. The `FairSpec` of both
autopilots is weak fairness of the run's own steps: it is one process that waits for
nobody, as each call of a model, a child process or git has a timeout or returns. Nobody is
assumed to be fair to it, and it may be killed.

### Findings

1. `src/local-checkpoint.mjs:43` lowers `humanHold` whoever raised it. If the
   cycle is closed as BLOCKED between a checkpoint's intent and its completion,
   the completion lifts the disposition's hold, and the next request is admitted.
   `README.md:150`: "Human holds remain durable and block new cycle admission".
2. `src/local-checkpoint.mjs:47`: if the completion is visible but `mutateStateV2`
   throws, the catch block's own mutation is refused by the validator (the
   COMPLETED intent has fields that RECONCILIATION_REQUIRED must not have), and that
   error is swallowed. The command reports CHECKPOINT_RECONCILIATION_REQUIRED and
   there is no hold. `docs/phase-2-builder-handoff.md:21`: "Checkpoint and integration
   uncertainty create durable reconciliation holds".

3. `src/real-pilot-admission.mjs:64` tests `humanHold` before the state lock is
   taken; under the lock (line 68) only the grant is looked at. Between the two,
   another request may be admitted and disposed of, and the late admission then goes
   through under that disposition's hold. `README.md:150`, as above.
4. `src/real-local-integration.mjs:111` swallows the failure of `reconcile`. The intent
   of a real integration raises no hold, so an integration that fails while another
   command has the state lock reports INTEGRATION_RECONCILIATION_REQUIRED and leaves
   none. `docs/activation-gate-plan.md:44`: "Any uncertainty after durable intent
   creates a reconciliation hold".

Two consequences of finding 3's missing check that no document speaks of. The target's
baseline is not checked again either: a request may be admitted after another's
candidate has reached the target, and then can never be integrated. And such an
admission may lower, through its own checkpoint, the hold of an earlier integration
that was doubted after its record had become visible; `DoubtHolds` is therefore stated for
cycles that are not closed.

Limits of the offline run that no document contradicts. A failure between the journal's
READY mark and the projection makes the catch block throw too, so that the projection keeps
the phase of the last role (`docs/offline-autopilot-builder-handoff.md:19` speaks of FAILED
"when possible"). A failure of `startRole` after its rename leaves the role executing
under a journal marked FAILED. And in the general run a target that changes after the
acceptance makes the run throw while its state says ACCEPTED; `FailsClosed` holds, because
the cycle is closed and held.

Another limit of the offline run: `checkpoint` asks for no confinement evidence. An operator who gives it
while a builder is executing, or after the run refused the builder's confinement and failed, commits what
is in the workspace, and has its receipt; a run that is still going replays that
receipt, validates that candidate and goes on with it. `OwnCandidatesConfined` is therefore a claim about what the
run does itself: it is inside a checkpoint only with the evidence on record, and takes a builder's result
only then. That the committed content is what the confined child wrote is not claimed.

Limits of the state file that no run shows as a violation:

* The directory of a migration's evidence is never synced (`src/state-migration.mjs:14`), so a
  power loss can take the copy while the state that names it stays; `README.md:56` says that the
  bytes are preserved. `EvidenceKept` is stated but for that case.
* A migrated state names its source, and then every cycle of it is validated as a version-1
  cycle: `enqueueRequest` is refused for good. A migrated controller admits nothing, although
  `docs/operator-guide.md:19` presents the migration as the way on.
* `admitNextCycle` locks the path it is given. With any other than the state's own, an admission and
  a migration overwrite each other: that is the mutant `LockOfOwn`, and the proofs assume
  `AdmissionLock = "state"`.
* Of two unlocked review writers one may lose its bundle, replaced by the other's; the file stays made of
  whole bundles.
* A creation that was killed leaves a torn file, which blocks every later command.

A limit that no document contradicts, and that the helper `Stranded` names: when a hold
comes up while a builder or analyst is executing, `finishRole` refuses, and without a
finished role nothing can be submitted; the cycle waits until the hold is lowered.

## 4. Proofs

| Module | Proves | From |
|---|---|---|
| `StateStore_proofs` | the four invariants of `state_store`, and that the store implements `VersionedLedger` | `LockAssumption`, `BoundAssumption` |
| `OperatorSession_proofs` | only the expected line with its one line end confirms, and it does | `ExpectedAssumption` |
| | the types, `GrantsAreConfirmed`, `OneLineage`, `EvidenceKept`, `BundlesWhole` | the modules' assumptions and, but for the bundles, `AdmissionLock = "state"` |
| `PilotGrants_proofs` | `GrantsUsedOnce`, `TargetUnderGrant` of the promise | `RequestAssumption`, `NoGrantAssumption` |
| `RealPilot_proofs` | the types, that the real pilot implements the promise, `GrantTellsCycle`, `DoubtHolds`, `HoldStopsIntegration`, `ValidState` | `RequestOfAssumption`, `GrantsAssumption`, those of `RoleCycle` |
| | also: the target holds a candidate accepted on merit (`TargetOnMerit`), one receipt per candidate and a hold over every intent without one (`PilotReceipts`), closed cycles stay as they are (`PilotClosedStays`) | the same |
| `RoleCycle_proofs`, `Controller_proofs` | the ten safety invariants of `controller_cycle` and `controller_races`, and `ClosedForGood` | the assumptions of `RoleCycle` and `FixtureIntegration` |
| `GeneralAutopilot_proofs` | the types and the limit on calls, `FailsClosed`, `ReportIsEarned`, `ValidState` | those of `RoleCycle`, and `CallsAssumption`: `MaxRoleCalls >= 2 * MaxIterations + 2`, which the source's 10 and 3 satisfy |
| `OfflineAutopilot_proofs` | the types, `JournalTellsState`, `AbortedRoleIsClosed`, `FilesAgree`, `OwnCandidatesConfined`, `ValidState` | those of `RoleCycle`, `RunnerAssumption`, `NoJournalAssumption`, and `ModeIsOffline`: the run's evidence mode is one of the modes |

Every theorem holds for any number of processes, requests, cycles, grants and iterations: the bounds
of section 3 are for TLC alone.

**The store.** None of its safety properties is inductive alone. Exclusion survives `Release` only
because a releasing command owns the lock. No lost update needs exclusion (nobody
else renames while a command is between its read and its rename). Durability needs that
a command in `renamed` or `done` has the visible file as its candidate, that the
disk is a prefix of the file, and that versions are consecutive (so that a version
names one entry). `IInv` is the conjunction; each action has its own step in the proof,
and most leave the file alone.

**The session.** `SessionInv` is four parts. `FileInv` says that a command at work under the state's
lock holds it, that what it read is still the file unless its creator is at work on it, that at most one process is
writing in place, on a torn file, and that a migration past its evidence has it on disk. `TalkInv` says
that `authorize-pilot` comes to its file operations only through a dialogue that was confirmed, and that grants on
the file and on the disk are confirmed ones, the issued among them. `CountInv`
bounds the counters and `ReviewInv` says that every draft, and not only the file, is whole. The lock's
part is where `AdmissionLock = "state"` is needed: without it two commands hold different locks.

**The real pilot.** `PilotInv` has four parts: `TypeOK`; `CycleInv` of `RoleCycle_proofs`, as the roles of a pilot
are the same; `WorkInv`, what a process that prepares or checkpoints has made sure of, the files and
receipts, and that an intent without a receipt keeps the hold; and `GrantInv`. That says that the grants in
the ledger are those with a status, that a process that admits found the first grant of its request, that
only such grants are used, that a live grant's cycle is the active one, that every cycle was admitted under a
used grant, and that what is being integrated, and what the target holds, was accepted. Each step then maps
to one of the promise's actions or to a stutter (`PilotImplementsGrants`). What `PilotGrants_proofs` shows
of the promise therefore holds of the real pilot itself: `PilotUsesGrantsOnce` states it.

`DoubtHolds` is the hard one. The integration's doubt raises the same flag that any checkpoint lowers,
and finding 3 lets a cycle be admitted while it is up. A doubted grant's cycle that is not closed was
accepted (`AcceptedTells`), so it is the active one and nothing is pending (`WaitingFacts`); then no candidate is without a
receipt, and a checkpoint that is about to complete has such a candidate as its subject: there is none. A late
admission cannot come between, since it needs that no cycle is active. What it can do is find an *earlier*
cycle's candidate without a receipt, under that candidate's hold. That is why `OpenTells` allows an active
cycle there, if it is `Stalled`: it has its plan's task only, and no role may start under the hold, so
no second candidate comes up before the checkpoint that lowers it. `AdmissionKeeps` shows this for an admission under any
hold; the controller's, which refuses one, is a special case of it. `IntegrationCloses`, of the mutation that closes a cycle as
integrated, is shared with `Controller_proofs`.

**The controller.** `RoleCycle_proofs` has `CycleInv`, which every mutation of the role cycle keeps, and
`Controller_proofs` adds the processes in `ControllerInv`. What is not in the checked invariants and
makes them inductive:

* `TasksTell`: tasks of a cycle come in the order of a rank made of iteration and purpose, and
  the pending one is the last. So no task is issued twice and no result is a second one.
* `StageTells`: what the pending task's purpose says of its cycle's candidate, plan and
  latest review. Acceptance on merit is that of the final decision's stage, kept until the decision.
* `OpenTells`: at most one candidate was never receipted, and it is the pending task's, or the
  controller is `Stalled`: held, with no active cycle or (in a pilot) one whose plan cannot be started.
  It is why a completion, which lowers the hold whoever raised it, never leaves another unsettled intent behind
  (`UnsettledIntentHolds`), and why an accepted cycle can have no checkpoint under way that would lower
  the hold of its integration (`AdvancedOrHeld`, and `DoubtHolds` of the pilot).
* `OneCommitter`, and that a process in `committed` has no receipt yet: the commit is made once, so
  the receipt is.
* `BranchTells`: each candidate on the target was accepted on top of the one before it. A candidate
  that was on the branch already could only be moved there again onto its own predecessor, which is not
  the tip any more (`TargetMovesOnce`).

`RoleStep`, `Quiet` and `Onward` say what a step leaves alone, and a step is shown to keep the
invariant through them; `ClosedForGood` follows from `Onward`, of every step.

**Commands beside each other.** The steps of `prepare-workspace` and `checkpoint` are the same in the pilot and in both
autopilots, so what they rely on is stated once, in `RoleCycle_proofs`: `WorkInv` says what a process that
prepares or checkpoints has made sure of, that only one process is in `committed` for a task, that receipts and
registered workspaces are of issued tasks, and that an intent without a receipt keeps the hold. It is
shown to be kept by each of those steps and by the mutations of the role cycle; each composition then adds what its
own processes know.

**The general autopilot.** `GeneralInv` takes `CycleInv` and `WorkInv` from `RoleCycle_proofs` and adds what a general
controller's state says (`GeneralTells`: a cycle is open only with a task to serve, none is closed
without a hold, and every decision on file was carried out) and what the run knows (`RunTells`). `CallsTell` counts
the answers that were recorded before each role of each round; it is why the limit is never met. `CandidateTells`
says that the candidate that the run has in hand has its receipt, and that until the run fails it is
validated, or being validated; of other receipts, which an operator's checkpoint may have made, it says
nothing. `EndTells` says that the cycle of a run that ends was decided as its last answer said, on that
candidate. A closed cycle stays as it is (`Kept`), so what an operator does meanwhile cannot
falsify the report.

**The offline autopilot.** What is checked of the four files speaks of what a failed write left
behind; what makes it inductive is where the run is when it writes. `OfflineInv` has, beside
`CycleInv` and `WorkInv`:

* `StateTells`: every task is pending or served, so a record that is SUBMITTED cannot have its
  task pending again, and a cycle in review was accepted.
* `RecordsTell`, of each record of the journal: a finished or an aborted execution has a clock that
  was stopped, or a task that is not pending any more, and a submitted one has its result. A
  mutation keeps it because tasks and results stay, and the clock of a task goes forward (`StateGoesOn`).
* `RoleTells`: in each step of a role, the current record is that of the run's task, its
  confinement is recorded before the run's own checkpoint and before its result, the answer's verdict is on
  record before it is submitted, and `run.timed` is a clock that was stopped. It is why the catch block need
  not stop it again.
* `WorkTells`: the run's process prepares or commits the run's own task, and no other.
* `FilesTell`: which of the files are there, by the step; a ready journal is met only by the
  steps that come after the loop, so nothing is appended to it.

The operator's commands and a `Kill` keep it as well, the one because they write only the state and the
workspaces, and the state only forward, and leave alone a cycle that awaits its integration; the other because a run that is
over executes no role and its files stay.

**The validator.** `ValidState` is what justifies that no action of the model has the validator in its
guard. It is proved of every module that writes such a state: the controller, the pilot, and the two
autopilots. That only workspaces of issued tasks are registered is part of `WorkInv`.

Only model-checked: liveness, which is beyond this prover. `LockGivenBack`, `CycleSettles` and
`RunEnds` of both autopilots are statements about fair behaviours, and their proofs would need ENABLED. The two
refuted properties of `real_pilot`'s runs and the two of the controller's (findings 1 to 4) are not theorems, of
course.

## 5. Plan

1. *(done)* `StateStore`/`VersionedLedger`, with proofs.
2. *(done)* `RoleCycle`, `LocalCheckpoint`, `FixtureIntegration`, `Controller`, with proofs.
3. *(done)* `PilotGrants` and `RealPilot`, with proofs, the refinement among them.
4. *(done)* `OfflineAutopilot`, `GeneralAutopilot`, with proofs.
5. *(done)* `Confirmation`, `StateFile`, `ReviewBundle`, `OperatorSession`, with proofs.
6. *(done)* Proofs of the real pilot's `TypeOK` and `DoubtHolds`, and of `ValidState` in the pilot and the autopilots.
7. Open: of the controller's properties that are not stated for the pilot and the autopilots
   (`IterationsChain`, `WithinLimits`), the same theorems there; they follow from `CycleInv`.

## 6. Not modelled

Field-by-field validation, canonical JSON and digests; rendering of tasks; the content of
plans, candidates and reviews; git itself; path and remote policies; model and
network transports; the framing protocol of executors and their sandbox checks; the record
of `src/integration-preparation.mjs`; `src/operator-boundary.mjs`, `src/target-snapshot.mjs` and
`src/git-evidence.mjs`, which read and compare; the adapters (constant fakes) and the content of the
Search10 scenario. They have no control of their own, or are abstracted as a step that
may fail.

`src/transitions.mjs`, `src/eligibility.mjs`, `src/summaries.mjs`, `src/retention.mjs`, and
`nextOwnership` and `markNotification`, are pure helpers that nothing under `src/` calls: no state of the program ever
passes through them, so there is nothing to check them against.
