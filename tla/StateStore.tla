------------------------------ MODULE StateStore ------------------------------
(***************************************************************************)
(* src/src/local-store.mjs: mutateStateV2, with the lock file of acquireLock   *)
(* and the write/rename/fsync steps of replaceStateAtomic, run by several      *)
(* commands (operating-system processes) at once, any of which may be killed   *)
(* between two steps, and under power loss.                                    *)
(*                                                                            *)
(* The state's content is abstracted to the history of the mutations it        *)
(* contains; what a mutator computes, and why one refuses, is the business of   *)
(* the modules that use this store.                                            *)
(***************************************************************************)
EXTENDS Naturals, Sequences

CONSTANTS Writers,      \* command invocations that may run at the same time
          Free,         \* no lock file
          Stale,        \* a lock file whose creator is gone
          MaxVersion    \* bound on stateVersion

ASSUME LockAssumption == Free \notin Writers /\ Stale \notin Writers /\ Free # Stale
ASSUME BoundAssumption == MaxVersion \in Nat

VARIABLES
    lock,       \* the lock file: Free, Stale, or the live command that created it
    pc,         \* where each command is in mutateStateV2
    candidate,  \* each command's copy of the state, read and then mutated
    file,       \* the visible state file: the mutations it contains
    disk,       \* the part of them that is on the disk for good
    confirmed   \* mutations whose command returned { changed: true }

vars == <<lock, pc, candidate, file, disk, confirmed>>

Entry == [version : Nat, writer : Writers]

\* "created": lock file exists, its record is not written yet.  "held": before
\* readState.  "read": state copied and validated.  "mutated": the mutator has
\* returned a candidate.  "staged": the temporary file is synced.  "renamed":
\* the new state is visible, its directory not synced.  The rest is the finally
\* block that releases the lock, with (done) or without a confirmed change.
Steps == {"idle", "created", "held", "read", "mutated", "staged", "renamed",
          "done", "leaving"}

\* The commands that hold the lock file of acquireLock.
Holding == Steps \ {"idle"}

\* stateVersion of a state that contains these mutations.
Version(log) == IF log = <<>> THEN 0 ELSE log[Len(log)].version

TypeOK ==
    /\ lock \in Writers \cup {Free, Stale}
    /\ pc \in [Writers -> Steps]
    /\ candidate \in [Writers -> Seq(Entry)]
    /\ file \in Seq(Entry)
    /\ disk \in Seq(Entry)
    /\ confirmed \subseteq Entry

Init ==
    /\ lock = Free
    /\ pc = [w \in Writers |-> "idle"]
    /\ candidate = [w \in Writers |-> <<>>]
    /\ file = <<>>
    /\ disk = <<>>
    /\ confirmed = {}

-----------------------------------------------------------------------------
(* acquireLock                                                              *)

\* Mutant: the lock file is opened without the exclusive flag.
AcquireLockShared(w) ==
    /\ pc[w] = "idle"
    /\ lock' = w
    /\ pc' = [pc EXCEPT ![w] = "created"]
    /\ UNCHANGED <<candidate, file, disk, confirmed>>

\* open(lockPath, "wx") creates the file.  With any lock file there, a stale one
\* too, mutateStateV2 throws STATE_LOCKED and nothing changes: no action here.
AcquireLock(w) ==
    /\ pc[w] = "idle"
    /\ lock = Free
    /\ lock' = w
    /\ pc' = [pc EXCEPT ![w] = "created"]
    /\ UNCHANGED <<candidate, file, disk, confirmed>>

\* The owner record is written and synced.
WriteLockRecord(w) ==
    /\ pc[w] = "created"
    /\ pc' = [pc EXCEPT ![w] = "held"]
    /\ UNCHANGED <<lock, candidate, file, disk, confirmed>>

\* Writing the record fails: the lock file is unlinked, or stays behind when the
\* unlink fails too (the error of the clean-up is only attached).
LockRecordFails(w) ==
    /\ pc[w] = "created"
    /\ lock' \in {Free, Stale}
    /\ pc' = [pc EXCEPT ![w] = "idle"]
    /\ UNCHANGED <<candidate, file, disk, confirmed>>

-----------------------------------------------------------------------------
(* mutateStateV2 under the lock                                             *)

\* The call returns or throws: its copy of the state is gone.
Leave(w) ==
    /\ pc' = [pc EXCEPT ![w] = "idle"]
    /\ candidate' = [candidate EXCEPT ![w] = <<>>]

ReadState(w) ==
    /\ pc[w] = "held"
    /\ candidate' = [candidate EXCEPT ![w] = file]
    /\ pc' = [pc EXCEPT ![w] = "read"]
    /\ UNCHANGED <<lock, file, disk, confirmed>>

\* Mutant: the lock is given up once the mutator has run.
MutateAndUnlock(w, k) ==
    /\ pc[w] = "read"
    /\ Version(file) + k <= MaxVersion
    /\ LET next == [version |-> Version(candidate[w]) + k, writer |-> w]
       IN  candidate' = [candidate EXCEPT ![w] = Append(@, next)]
    /\ pc' = [pc EXCEPT ![w] = "mutated"]
    /\ lock' = Free
    /\ UNCHANGED <<file, disk, confirmed>>

\* Mutant: the mutator counts stateVersion down.
MutateBackwards(w, k) ==
    /\ pc[w] = "read"
    /\ Version(file) + k <= MaxVersion
    /\ LET next == [version |-> Version(candidate[w]) - k, writer |-> w]
       IN  candidate' = [candidate EXCEPT ![w] = Append(@, next)]
    /\ pc' = [pc EXCEPT ![w] = "mutated"]
    /\ UNCHANGED <<lock, file, disk, confirmed>>

\* The mutator returns a candidate whose stateVersion it advanced by k.
Mutate(w, k) ==
    /\ pc[w] = "read"
    /\ Version(file) + k <= MaxVersion
    /\ LET next == [version |-> Version(candidate[w]) + k, writer |-> w]
       IN  candidate' = [candidate EXCEPT ![w] = Append(@, next)]
    /\ pc' = [pc EXCEPT ![w] = "mutated"]
    /\ UNCHANGED <<lock, file, disk, confirmed>>

\* Mutant: any candidate is written.
AdvancesSomehow(w) == candidate[w] # <<>>

\* STATE_VERSION_MUST_ADVANCE_EXACTLY_ONCE: one more than the state that was read.
AdvancesOnce(w) == LET log == candidate[w]
                   IN  log[Len(log)].version = Version(SubSeq(log, 1, Len(log) - 1)) + 1

\* The candidate passes the version check and the validators, and its temporary
\* file is written and synced.
Stage(w) ==
    /\ pc[w] = "mutated"
    /\ AdvancesOnce(w)
    /\ pc' = [pc EXCEPT ![w] = "staged"]
    /\ UNCHANGED <<lock, candidate, file, disk, confirmed>>

\* Mutant: an error leaves without the finally block.
GiveUpHoldingLock(w) ==
    /\ pc[w] \in {"held", "read", "mutated", "staged"}
    /\ Leave(w)
    /\ UNCHANGED <<lock, file, disk, confirmed>>

\* An error or an unchanged result before the rename: unreadable or invalid state,
\* wrong owner or generation, a mutator that throws or changes nothing, a candidate
\* that is refused, a temporary file that cannot be written or renamed.
GiveUp(w) ==
    /\ pc[w] \in {"held", "read", "mutated", "staged"}
    /\ pc' = [pc EXCEPT ![w] = "leaving"]
    /\ UNCHANGED <<lock, candidate, file, disk, confirmed>>

Rename(w) ==
    /\ pc[w] = "staged"
    /\ file' = candidate[w]
    /\ pc' = [pc EXCEPT ![w] = "renamed"]
    /\ UNCHANGED <<lock, candidate, disk, confirmed>>

\* The directory is synced: this rename, and every earlier one, is on the disk.
SyncDirectory(w) ==
    /\ pc[w] = "renamed"
    /\ disk' = file
    /\ pc' = [pc EXCEPT ![w] = "done"]
    /\ UNCHANGED <<lock, candidate, file, confirmed>>

\* Mutant: the failure of the directory sync is swallowed.
SyncFailsSilently(w) ==
    /\ pc[w] = "renamed"
    /\ pc' = [pc EXCEPT ![w] = "done"]
    /\ UNCHANGED <<lock, candidate, file, disk, confirmed>>

\* PERSISTENCE_DURABILITY_UNCERTAIN: the new state is visible and the command
\* reports an error.
SyncFails(w) ==
    /\ pc[w] = "renamed"
    /\ pc' = [pc EXCEPT ![w] = "leaving"]
    /\ UNCHANGED <<lock, candidate, file, disk, confirmed>>

\* release() in the finally block; only then does a change reach the caller.
Release(w) ==
    /\ pc[w] \in {"done", "leaving"}
    /\ lock' = IF lock = w THEN Free ELSE lock
    /\ confirmed' = IF pc[w] = "done"
                    THEN confirmed \cup {candidate[w][Len(candidate[w])]}
                    ELSE confirmed
    /\ Leave(w)
    /\ UNCHANGED <<file, disk>>

\* release() throws (the lock cannot be read or unlinked): the error replaces the
\* result, also the result of a change that was made, and the lock file stays.
ReleaseFails(w) ==
    /\ pc[w] \in {"done", "leaving"}
    /\ lock' = IF lock = w THEN Stale ELSE lock
    /\ Leave(w)
    /\ UNCHANGED <<file, disk, confirmed>>

-----------------------------------------------------------------------------
(* The environment                                                          *)

\* The process is killed: nothing runs its finally block.
Crash(w) ==
    /\ pc[w] # "idle"
    /\ lock' = IF lock = w THEN Stale ELSE lock
    /\ Leave(w)
    /\ UNCHANGED <<file, disk, confirmed>>

\* All processes die; renames that were not synced may be undone, the last first,
\* and so may the creation or the unlink of a lock file.
PowerLoss(n) ==
    /\ n \in Len(disk) .. Len(file)
    /\ file' = SubSeq(file, 1, n)
    /\ disk' = file'
    /\ lock' \in {Free, Stale}
    /\ pc' = [w \in Writers |-> "idle"]
    /\ candidate' = [w \in Writers |-> <<>>]
    /\ UNCHANGED confirmed

\* No command takes over a stale lock: an operator removes it, knowing that its
\* creator is gone.
OperatorRemovesStaleLock ==
    /\ lock = Stale
    /\ lock' = Free
    /\ UNCHANGED <<pc, candidate, file, disk, confirmed>>

-----------------------------------------------------------------------------

\* The next step of a command's own code.
Run(w) ==
    \/ WriteLockRecord(w) \/ LockRecordFails(w)
    \/ ReadState(w) \/ (\E k \in 0 .. 2 : Mutate(w, k))
    \/ Stage(w) \/ GiveUp(w) \/ Rename(w)
    \/ SyncDirectory(w) \/ SyncFails(w)
    \/ Release(w) \/ ReleaseFails(w)

Next ==
    \/ \E w \in Writers : AcquireLock(w) \/ Run(w) \/ Crash(w)
    \/ \E n \in 0 .. Len(file) : PowerLoss(n)
    \/ OperatorRemovesStaleLock

Spec == Init /\ [][Next]_vars

\* A started command keeps running until it returns, throws or is killed; nobody
\* has to start one, and no operator has to come.
FairSpec == Spec /\ \A w \in Writers : WF_vars(Run(w))

-----------------------------------------------------------------------------
(* Properties                                                               *)

\* A command past acquireLock owns the lock file, so two commands are never inside
\* mutateStateV2 at the same time, whatever crashed before and whoever cleaned up.
OwnsTheLock == \A w \in Writers : pc[w] \in Holding => lock = w

\* What a command read is what it replaces: from readState to the rename nobody
\* else's mutation enters the file, so the rename overwrites none.
NothingOverwritten ==
    \A w \in Writers :
        /\ pc[w] = "read" => candidate[w] = file
        /\ pc[w] \in {"mutated", "staged"} =>
             /\ candidate[w] # <<>>
             /\ SubSeq(candidate[w], 1, Len(candidate[w]) - 1) = file

\* A change that a command reported as made is on the disk and stays there, through
\* other commands, crashes and power losses.
ConfirmedSurvives == \A e \in confirmed : e.version \in DOMAIN disk /\ disk[e.version] = e

\* What is on the disk is always the beginning of what is visible.
DurablePrefix == Len(disk) <= Len(file) /\ disk = SubSeq(file, 1, Len(disk))

\* A stateVersion names one change: the i-th mutation made version i.
VersionsCount == \A i \in DOMAIN file : file[i].version = i

\* The lock is given back by every path through mutateStateV2: the holder finishes,
\* throws or dies, and it never keeps a lock while it runs on.
LockGivenBack == \A w \in Writers : lock = w ~> lock # w

\* What each step of a command relies on: the staged candidate passed the version
\* check, and from the rename on the candidate is the visible state.
Progress ==
    \A w \in Writers :
        /\ pc[w] = "staged" => AdvancesOnce(w)
        /\ pc[w] \in {"renamed", "done"} => candidate[w] = file /\ file # <<>>
        /\ pc[w] = "done" => disk = file
        /\ pc[w] \in {"mutated", "staged"} => candidate[w][Len(candidate[w])].writer = w

\* The inductive invariant behind the store's theorems.
IInv == /\ TypeOK
        /\ OwnsTheLock
        /\ NothingOverwritten
        /\ Progress
        /\ VersionsCount
        /\ DurablePrefix
        /\ ConfirmedSurvives

\* The store implements the append-only versioned ledger.
Ledger == INSTANCE VersionedLedger WITH ledger <- file, durable <- Len(disk)
ImplementsLedger == Ledger!Spec
=============================================================================
