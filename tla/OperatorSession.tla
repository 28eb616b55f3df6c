---------------------------- MODULE OperatorSession ----------------------------
(***************************************************************************)
(* The commands that bring a state file into being or change its kind, run from  *)
(* several terminals at once (src/src/cli.mjs): init, migrate-state, enqueue, and  *)
(* authorize-pilot, which reads the file, holds the dialogue of module             *)
(* Confirmation with its human, and then creates the file or appends to it as     *)
(* module StateFile has it.  Next to them the two writers that a program calls as   *)
(* a library: admitNextCycle of a version-1 machine, and persistReviewBundle on a   *)
(* review file (module ReviewBundle).                                         *)
(***************************************************************************)
EXTENDS Confirmation, StateFile, ReviewBundle

CONSTANTS MaxCommands,  \* bound on the commands that are started
          MaxPowerLosses

ASSUME BoundsAssumption == MaxCommands \in Nat /\ MaxPowerLosses \in Nat

VARIABLES confirmed,    \* grants for which a dialogue has reached EXACT_MATCH
          issued,       \* grants that authorize-pilot has reported as ISSUED
          started,      \* commands started so far
          powerLosses

sessionVars == <<confirmed, issued, started, powerLosses>>

vars == <<dialogue, fileVars, reviewVars, sessionVars>>

Init ==
    /\ FileInit
    /\ ReviewInit
    /\ dialogue = [p \in Processes |-> NoDialogue]
    /\ confirmed = {} /\ issued = {}
    /\ started = 0 /\ powerLosses = 0

\* A process with nothing to do starts a command.
Ready(p) ==
    /\ At(p, "idle") /\ dialogue[p].at = "NONE" /\ draft[p] = {}
    /\ started < MaxCommands
    /\ started' = started + 1
    /\ UNCHANGED <<confirmed, issued, powerLosses>>

RunInit(p) ==
    /\ Ready(p)
    /\ Start(p, "init", "creating", None)
    /\ UNCHANGED <<dialogue, file, disk, lock, evidence, reviewVars>>

RunUnderLock(p, command, subject) ==
    /\ Ready(p)
    /\ Start(p, command, "started", subject)
    /\ UNCHANGED <<dialogue, file, disk, lock, evidence, reviewVars>>

\* preparePilotAuthorization: there is no file, or it is a ledger without this grant.
\* The process has no terminal, or the proposal is displayed.
RunAuthorize(p, g) ==
    /\ Ready(p)
    /\ file.kind = "absent" \/ (file.kind = "v3" /\ g \notin file.grants)
    /\ Display(p) \/ Refuse(p)
    /\ Start(p, "authorize", "idle", g)
    /\ UNCHANGED <<file, disk, lock, evidence, reviewVars>>

RunReview(p, b) ==
    /\ Ready(p)
    /\ ReadReviews(p, b)
    /\ UNCHANGED <<dialogue, fileVars>>

StartCommand(p) ==
    \/ RunInit(p)
    \/ RunUnderLock(p, "migrate", None)
    \/ \E r \in Requests : RunUnderLock(p, "enqueue", r) \/ RunUnderLock(p, "admit", r)
    \/ \E g \in Grants : RunAuthorize(p, g)
    \/ \E b \in Bundles : RunReview(p, b)

-----------------------------------------------------------------------------
(* authorize-pilot                                                           *)

Talk(p) ==
    /\ Displayed(p) \/ DisplayFails(p) \/ InputStops(p) \/ HearEarly(p)
    /\ UNCHANGED <<fileVars, reviewVars, sessionVars>>

Answer(p) ==
    /\ \E chunk \in Chunks : Hear(p, chunk)
    /\ confirmed' = IF dialogue'[p].at = "EXACT_MATCH" THEN confirmed \cup {job[p].subject}
                                                       ELSE confirmed
    /\ UNCHANGED <<fileVars, reviewVars, issued, started, powerLosses>>

\* ISSUING: commitPilotAuthorization looks for the file and creates it, or checks it once
\* more and mutates it under the lock.
Commit(p) ==
    /\ dialogue[p].at = "EXACT_MATCH" /\ At(p, "idle")
    /\ \/ file.kind = "absent" /\ Goto(p, "creating")
       \/ file.kind = "v3" /\ job[p].subject \notin file.grants /\ Goto(p, "started")
    /\ UNCHANGED <<dialogue, file, disk, lock, evidence, reviewVars, sessionVars>>

Leave(p) == dialogue' = [dialogue EXCEPT ![p] = NoDialogue]

\* AUTHORIZATION_LEDGER_CONFLICT, a file that cannot be read, or an aborted dialogue.
Abandon(p) ==
    /\ At(p, "idle")
    /\ dialogue[p].at \in {"ABORTED", "EXACT_MATCH"}
    /\ End(p)
    /\ Leave(p)
    /\ UNCHANGED <<file, disk, lock, evidence, reviewVars, sessionVars>>

\* A step of a command's file operations.  When authorize-pilot comes back from its last
\* one, with the file on the disk and the lock given back, it reports ISSUED.
Work(p) ==
    /\ FileStep(p)
    /\ IF job'[p] = Idle THEN Leave(p) ELSE UNCHANGED dialogue
    /\ issued' = IF /\ job[p].command = "authorize"
                    /\ \/ At(p, "written") /\ disk' = file
                       \/ At(p, "done") /\ \A l \in LockPaths : lock[l] = p => lock'[l] = Free
                    /\ job'[p] = Idle
                 THEN issued \cup {job[p].subject} ELSE issued
    /\ UNCHANGED <<reviewVars, confirmed, started, powerLosses>>

Review(p) ==
    /\ ReplaceReviews(p) \/ DropDraft(p)
    /\ UNCHANGED <<dialogue, fileVars, sessionVars>>

-----------------------------------------------------------------------------
(* The environment                                                           *)

\* Also while the dialogue waits: SIGKILL, or a signal once its handlers are gone.
KillProcess(p) ==
    /\ \/ Kill(p)
       \/ At(p, "idle") /\ dialogue[p].at # "NONE" /\ End(p)
          /\ UNCHANGED <<file, disk, lock, evidence>>
    /\ Leave(p)
    /\ UNCHANGED <<reviewVars, sessionVars>>

LosePower ==
    /\ powerLosses < MaxPowerLosses
    /\ powerLosses' = powerLosses + 1
    /\ PowerLoss
    /\ dialogue' = [p \in Processes |-> NoDialogue]
    /\ draft' = [p \in Processes |-> {}]
    /\ UNCHANGED <<reviews, confirmed, issued, started>>

CleanUp ==
    /\ \E l \in LockPaths : OperatorRemovesStaleLock(l)
    /\ UNCHANGED <<dialogue, reviewVars, sessionVars>>

Next ==
    \/ \E p \in Processes :
         \/ StartCommand(p) \/ Talk(p) \/ Answer(p) \/ Commit(p) \/ Abandon(p)
         \/ Work(p) \/ Review(p) \/ KillProcess(p)
    \/ LosePower \/ CleanUp

Spec == Init /\ [][Next]_vars

-----------------------------------------------------------------------------
(* Properties                                                                *)

TypeOK ==
    /\ dialogue \in [Processes -> Dialogue]
    /\ FileTypeOK
    /\ ReviewTypeOK
    /\ confirmed \subseteq Grants /\ issued \subseteq Grants
    /\ started \in 0 .. MaxCommands /\ powerLosses \in 0 .. MaxPowerLosses

\* authorize-pilot: a dialogue succeeds on the one expected line and nothing else, no
\* grant is on file that no human has confirmed in such a dialogue, and a grant that was
\* reported as issued stays on file through every other command, crash and power loss.
GrantsAreConfirmed ==
    /\ \A p \in Processes : dialogue[p].at = "EXACT_MATCH" => HeardTheConfirmation(p)
    /\ file.grants \subseteq confirmed
    /\ issued \subseteq file.grants

\* One state may follow another: an admission of the version-1 machine, in which no
\* scheduled request passes a human's; its migration; an admission of version 2 that was
\* not migrated; one more grant.
Follows(new, old) ==
    /\ new.core.version = old.core.version + 1
    /\ \/ /\ old.kind = "v1" /\ new.kind = "v1"
          /\ \E r \in old.core.queue :
               /\ new.core = Claimed(old.core, r)
               /\ r \in Human \/ old.core.queue \cap Human = {}
       \/ old.kind = "v1" /\ new.kind = "v2" /\ new.source = {old.core}
       \/ /\ old.kind = "v2" /\ new.kind = "v2" /\ old.source = {} /\ new.source = {}
          /\ new.core.cycles # old.core.cycles /\ old.core.cycles \subseteq new.core.cycles
       \/ old.kind = "v3" /\ new.kind = "v3" /\ \E g \in Grants \ old.grants :
                                                   new.grants = old.grants \cup {g}

\* A file is created where none was, a torn file only ever becomes the state its creator
\* was writing, and every later state is made from the one that it replaces.  Only a power
\* loss goes back.
HistoryStep ==
    \/ file' = file
    \/ file = Absent /\ file' = Torn
    \/ file = Torn /\ file'.core = NewCore
    \/ Follows(file', file)
    \/ powerLosses' # powerLosses

\* The state file has one history, whichever commands run side by side (mutateStateV2,
\* admitNextCycle, migrateStateV1ToV2 and initializeStateV2 overwrite nothing of each
\* other's).
OneLineage == [][HistoryStep]_vars

\* A migrated state names a version-1 state of which the bytes are kept, complete, unless
\* a power loss took them: their directory is never synced.
EvidenceKept == file.source \subseteq evidence.whole \cup evidence.lost
=============================================================================
