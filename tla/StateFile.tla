------------------------------- MODULE StateFile -------------------------------
(***************************************************************************)
(* How a controller's state file comes to be and changes its kind: created in   *)
(* place by initializeStateV2, admitted to by the version-1 machine's            *)
(* admitNextCycle, migrated by migrateStateV1ToV2 with a copy of the old bytes   *)
(* as evidence, and mutated by mutateStateV2 (all of src/src/local-store.mjs but *)
(* the review bundles, src/src/state-migration.mjs, src/src/queue.mjs), by       *)
(* several processes at once, any of which may be killed between two steps, and  *)
(* under power loss.                                                           *)
(*                                                                            *)
(* Module StateStore shows in detail that mutations under the state's lock       *)
(* exclude each other; here locking and reading, and writing the lock's record,   *)
(* are one step, and the subject is what the commands do to each other's files.   *)
(***************************************************************************)
EXTENDS CommandProcesses, Naturals, Sequences, FiniteSets

CONSTANTS Requests,     \* requests of the version-1 queue
          Human,        \* those of source HUMAN; the others are SCHEDULED
          Submitted,    \* the requests by createdAt and id, earliest first
          Grants,       \* authorizations (authorizationId) a ledger may hold
          AdmissionLock, \* the lock path that the callers of admitNextCycle pass
          None, Free, Stale

ASSUME HumanAssumption == Human \subseteq Requests
ASSUME SubmittedAssumption ==
    Submitted \in [1 .. Cardinality(Requests) -> Requests]
ASSUME LockPathAssumption == AdmissionLock \in {"state", "admission"}
ASSUME HolderAssumption == Free \notin Processes /\ Stale \notin Processes /\ Free # Stale
ASSUME NoneAssumption == None \notin Requests \cup Grants

VARIABLES file,         \* the visible state file
          disk,         \* what is on the disk for good
          lock,         \* the lock files, each with the live process that created it
          evidence,     \* the copies of version-1 states: complete, torn, or taken by a power loss
          job           \* of each process: the command it runs, the step, its copy of the state

fileVars == <<file, disk, lock, evidence, job>>

LockPaths == {"state", "admission"}

-----------------------------------------------------------------------------
(* Contents                                                                  *)

\* What the versions of the state have in common.
Core == [version : Nat, queue : SUBSET Requests, cycles : SUBSET Requests,
         active : Requests \cup {None}, hold : BOOLEAN]

\* source: of a migrated state, the state that it names by its digest.
File == [kind : {"absent", "torn", "v1", "v2", "v3"}, core : Core,
         grants : SUBSET Grants, source : SUBSET Core]

NewCore == [version |-> 0, queue |-> {}, cycles |-> {}, active |-> None, hold |-> FALSE]

Content(kind, core, grants) == [kind |-> kind, core |-> core, grants |-> grants, source |-> {}]

Absent == Content("absent", NewCore, {})

\* Created and not, or not completely, written: no command can parse it.
Torn == Content("torn", NewCore, {})

\* validateMachineState: a request is queued or claimed, and the active cycle is the one
\* that is not terminal.
ValidCore(core) ==
    /\ core.queue \cap core.cycles = {}
    /\ core.active # None => core.active \in core.cycles

Legacy(queue, hold) ==
    Content("v1", [NewCore EXCEPT !.queue = queue, !.hold = hold], {})

-----------------------------------------------------------------------------
(* Processes                                                                 *)

Commands == {"none", "init", "authorize", "enqueue", "migrate", "admit"}

\* "creating" to "written" are initializeStateV2, the others a command under a lock.
Steps == {"idle", "creating", "writing", "written", "started", "read", "preserving",
          "preserved", "replaced", "done", "failed"}

Job == [command : Commands, step : Steps, subject : Requests \cup Grants \cup {None},
        claim : Nat, copy : File]

Idle == [command |-> "none", step |-> "idle", subject |-> None, claim |-> 0, copy |-> Absent]

At(p, step) == job[p].step = step

Goto(p, step) == job' = [job EXCEPT ![p].step = step]

\* A command starts.  An admission brings the stateVersion that its caller saw.
Start(p, command, step, subject) ==
    job' = [job EXCEPT ![p] = [Idle EXCEPT !.command = command, !.step = step,
                                           !.subject = subject, !.claim = file.core.version]]

End(p) == job' = [job EXCEPT ![p] = Idle]

-----------------------------------------------------------------------------
(* initializeStateV2                                                         *)

\* Mutant: the file is opened without the exclusive flag, which truncates it.
CreateOver(p) ==
    /\ At(p, "creating")
    /\ file' = Torn
    /\ Goto(p, "writing")
    /\ UNCHANGED <<disk, lock, evidence>>

\* open(filePath, "wx").  With any file there, a torn one too, it throws.
Create(p) ==
    /\ At(p, "creating")
    /\ file.kind = "absent"
    /\ file' = Torn
    /\ Goto(p, "writing")
    /\ UNCHANGED <<disk, lock, evidence>>

\* The state goes into the file itself, not into a temporary one.
Write(p) ==
    /\ At(p, "writing")
    /\ file' = IF job[p].command = "init" THEN Content("v2", NewCore, {})
                                          ELSE Content("v3", NewCore, {job[p].subject})
    /\ Goto(p, "written")
    /\ UNCHANGED <<disk, lock, evidence>>

\* File and directory are synced, and the call returns.
SyncCreated(p) ==
    /\ At(p, "written")
    /\ disk' = file
    /\ End(p)
    /\ UNCHANGED <<file, lock, evidence>>

\* It throws at any of its steps and leaves behind what it has made.
CreateFails(p) ==
    /\ job[p].step \in {"creating", "writing", "written"}
    /\ End(p)
    /\ UNCHANGED <<file, disk, lock, evidence>>

-----------------------------------------------------------------------------
(* The commands that run under a lock                                        *)

\* Mutant: an admission takes a lock of its own.
LockOfOwn(command) == IF command = "admit" THEN "admission" ELSE "state"

\* The lock path is admitNextCycle's parameter; the others take the state's.
LockOf(command) == IF command = "admit" THEN AdmissionLock ELSE "state"

\* acquireLock, readState, and the validator of the version that is read.
LockAndRead(p) ==
    /\ At(p, "started")
    /\ lock[LockOf(job[p].command)] = Free
    /\ lock' = [lock EXCEPT ![LockOf(job[p].command)] = p]
    /\ job' = [job EXCEPT ![p].step = "read", ![p].copy = file]
    /\ UNCHANGED <<file, disk, evidence>>

\* The lock is taken, or cannot be made.
LockedOut(p) ==
    /\ At(p, "started")
    /\ End(p)
    /\ UNCHANGED <<file, disk, lock, evidence>>

\* compareRequests: human before scheduled, then by time of submission.
Before(a, b) ==
    IF (a \in Human) # (b \in Human) THEN a \in Human
    ELSE \E i, j \in DOMAIN Submitted : Submitted[i] = a /\ Submitted[j] = b /\ i < j

\* dequeue: the first request that is human's, or scheduled for this very moment.
\* A schedule that was missed is not caught up with.
Selected(queue, due) ==
    {a \in queue : /\ a \in Human \cup due
                   /\ \A b \in queue \cap (Human \cup due) : b = a \/ Before(a, b)}

\* replaceStateAtomic up to and with the rename.
Replace(p, content) ==
    /\ file' = content
    /\ Goto(p, "replaced")
    /\ UNCHANGED <<disk, lock, evidence>>

Reading(p, command, kind) ==
    /\ At(p, "read")
    /\ job[p].command = command
    /\ job[p].copy.kind = kind

Available(core) == core.active = None /\ ~core.hold

\* Mutant: the request that is claimed stays in the queue.
ClaimedButQueued(core, r) ==
    [core EXCEPT !.version = @ + 1, !.active = r, !.cycles = @ \cup {r}]

\* The next state of a version-1 machine that admits r.
Claimed(core, r) ==
    [core EXCEPT !.version = @ + 1, !.active = r, !.queue = @ \ {r}, !.cycles = @ \cup {r}]

\* admitNextCycle: the claim is of this version, and the cycle is for the request that
\* is next at this moment, for which some schedules are due.
Admit(p, due) ==
    LET core == job[p].copy.core
        r    == job[p].subject
    IN  /\ Reading(p, "admit", "v1")
        /\ job[p].claim = core.version
        /\ Available(core)
        /\ r \in Selected(core.queue, due) \ core.cycles
        /\ Replace(p, [job[p].copy EXCEPT !.core = Claimed(core, r)])

\* enqueueRequest.  The validator takes the cycles of a migrated state for version-1
\* cycles and refuses every new one: a migrated controller admits nothing.
Enqueue(p) ==
    LET copy == job[p].copy
        r    == job[p].subject
    IN  /\ Reading(p, "enqueue", "v2")
        /\ Available(copy.core)
        /\ r \notin copy.core.cycles
        /\ copy.source = {}
        /\ Replace(p, [copy EXCEPT !.core = Claimed(@, r)])

\* commitPilotAuthorization on a file that is there: the grant is appended.
Authorize(p) ==
    LET copy == job[p].copy
    IN  /\ Reading(p, "authorize", "v3")
        /\ job[p].subject \notin copy.grants
        /\ Replace(p, [copy EXCEPT !.core.version = @ + 1, !.grants = @ \cup {job[p].subject}])

SyncReplaced(p) ==
    /\ At(p, "replaced")
    /\ disk' = file
    /\ Goto(p, "done")
    /\ UNCHANGED <<file, lock, evidence>>

\* PERSISTENCE_DURABILITY_UNCERTAIN.
SyncReplacedFails(p) ==
    /\ At(p, "replaced")
    /\ Goto(p, "failed")
    /\ UNCHANGED <<file, disk, lock, evidence>>

\* The state is unreadable, of another version, active or held, or the candidate is
\* refused, or a file cannot be written.
GiveUp(p) ==
    /\ job[p].step \in {"read", "preserving", "preserved"}
    /\ Goto(p, "failed")
    /\ UNCHANGED <<file, disk, lock, evidence>>

Unlock(p, to) == lock' = [l \in LockPaths |-> IF lock[l] = p THEN to ELSE lock[l]]

\* release() in the finally block, which may throw and keep the lock file.
Release(p) ==
    /\ job[p].step \in {"done", "failed"}
    /\ \E to \in {Free, Stale} : Unlock(p, to)
    /\ End(p)
    /\ UNCHANGED <<file, disk, evidence>>

-----------------------------------------------------------------------------
(* The evidence of a migration                                               *)

\* Only an idle state that nobody holds is migrated.
Migrating(p) == Reading(p, "migrate", "v1") /\ Available(job[p].copy.core)

\* Its bytes go to a file that is named after their digest, created exclusively and
\* written in place.
CreateEvidence(p) ==
    LET core == job[p].copy.core
    IN  /\ Migrating(p)
        /\ core \notin evidence.whole \cup evidence.torn
        /\ evidence' = [evidence EXCEPT !.torn = @ \cup {core}, !.lost = @ \ {core}]
        /\ Goto(p, "preserving")
        /\ UNCHANGED <<file, disk, lock>>

\* Written and synced; its directory is not.
WriteEvidence(p) ==
    LET core == job[p].copy.core
    IN  /\ At(p, "preserving")
        /\ evidence' = [evidence EXCEPT !.torn = @ \ {core}, !.whole = @ \cup {core}]
        /\ Goto(p, "preserved")
        /\ UNCHANGED <<file, disk, lock>>

\* Mutant: a file of that name is taken for the evidence.
EvidenceByName(p) ==
    /\ Migrating(p)
    /\ job[p].copy.core \in evidence.whole \cup evidence.torn
    /\ Goto(p, "preserved")
    /\ UNCHANGED <<file, disk, lock, evidence>>

\* A file of that name is there: it is the evidence if its bytes are the same, and
\* MIGRATION_EVIDENCE_CONFLICT (GiveUp) otherwise.
EvidenceExists(p) ==
    /\ Migrating(p)
    /\ job[p].copy.core \in evidence.whole
    /\ Goto(p, "preserved")
    /\ UNCHANGED <<file, disk, lock, evidence>>

\* Everything is copied, and the state names the one it was made from.
Migrate(p) ==
    LET copy == job[p].copy
    IN  /\ At(p, "preserved")
        /\ Replace(p, [copy EXCEPT !.kind = "v2", !.core.version = @ + 1,
                                   !.source = {copy.core}])

-----------------------------------------------------------------------------
(* The environment                                                           *)

\* A process is killed: its lock file stays, and nothing else of it.
Kill(p) ==
    /\ job[p].step # "idle"
    /\ Unlock(p, Stale)
    /\ End(p)
    /\ UNCHANGED <<file, disk, evidence>>

\* An unsynced replacement may be undone, an unsynced creation may leave an empty file
\* or none, and of the evidence, whose directory nobody syncs, any entry may be gone.
PowerLoss ==
    /\ file' \in {file, disk} \cup (IF disk = Absent /\ file # Absent THEN {Torn} ELSE {})
    /\ disk' = file'
    /\ \E gone \in SUBSET (evidence.whole \cup evidence.torn) :
           evidence' = [whole |-> evidence.whole \ gone, torn |-> evidence.torn \ gone,
                        lost |-> evidence.lost \cup gone]
    /\ job' = [p \in Processes |-> Idle]
    /\ lock' = [l \in LockPaths |-> IF lock[l] \in Processes THEN Stale ELSE lock[l]]

OperatorRemovesStaleLock(l) ==
    /\ lock[l] = Stale
    /\ lock' = [lock EXCEPT ![l] = Free]
    /\ UNCHANGED <<file, disk, evidence, job>>

-----------------------------------------------------------------------------

FileInit ==
    /\ file \in {Absent} \cup {Legacy(Requests, hold) : hold \in BOOLEAN}
    /\ disk = file
    /\ lock = [l \in LockPaths |-> Free]
    /\ evidence = [whole |-> {}, torn |-> {}, lost |-> {}]
    /\ job = [p \in Processes |-> Idle]

\* The next step of a command's own code.
FileStep(p) ==
    \/ Create(p) \/ Write(p) \/ SyncCreated(p) \/ CreateFails(p)
    \/ LockAndRead(p) \/ LockedOut(p)
    \/ (\E due \in SUBSET (Requests \ Human) : Admit(p, due)) \/ Enqueue(p) \/ Authorize(p)
    \/ CreateEvidence(p) \/ WriteEvidence(p) \/ EvidenceExists(p) \/ Migrate(p)
    \/ SyncReplaced(p) \/ SyncReplacedFails(p) \/ GiveUp(p) \/ Release(p)

FileTypeOK ==
    /\ file \in File /\ ValidCore(file.core)
    /\ disk \in File
    /\ lock \in [LockPaths -> Processes \cup {Free, Stale}]
    /\ evidence \in [whole : SUBSET Core, torn : SUBSET Core, lost : SUBSET Core]
    /\ job \in [Processes -> Job]
=============================================================================
