---------------------------- MODULE RealPilot_proofs ----------------------------
(***************************************************************************)
(* The real pilot, for any number of processes, requests, grants, iterations and *)
(* crashes: it keeps the promise of module PilotGrants, and an integration in     *)
(* doubt keeps its controller held.  What module RoleCycle_proofs shows of the    *)
(* role cycle is part of the invariant: the hold of a doubted integration stays    *)
(* up because its accepted cycle is the active one, with no candidate left that a  *)
(* checkpoint command could complete.                                           *)
(***************************************************************************)
EXTENDS RealPilot, RoleCycle_proofs

-----------------------------------------------------------------------------
(* The invariant                                                             *)

Steps == {"idle"} \cup PrepareSteps \cup CheckpointSteps \cup PilotSteps

Subjects == Task \cup Grants \cup {None}

\* A grant has a lifecycle when it is in the ledger.
LedgerTells ==
    /\ ledger \in Seq(Grants)
    /\ \A a \in Grants : lifecycle[a] # "NONE" <=> \E i \in DOMAIN ledger : ledger[i] = a

\* The lifecycles of a grant whose integration was begun.
Integrating == {"INTEGRATING", "CONSUMED", "RECONCILIATION_REQUIRED"}

\* What a process between two steps of the pilot relies on.
JobTells(p) ==
    LET a == job[p].subject
    IN  /\ job[p].step \in PilotSteps => a \in Grants
        /\ job[p].step = "admitting" => FoundForRequest(a)
        /\ job[p].step \in {"integrating", "moved", "doubting"} => lifecycle[a] \in Integrating
        /\ job[p].step = "moved" => tip = a

\* Only the first grant for a request is ever used.
FirstIsUsed == \A a \in Grants : Used(a) => FoundForRequest(a)

\* A cycle was admitted under a grant that is used.
RunTells ==
    \A c \in Cycles : state.cycles[c] # None => \E a \in Grants : Used(a) /\ RequestOf[a] = c

\* A live grant is that of the active cycle.
LiveTells ==
    \A a \in Grants : lifecycle[a] \in {"CLAIMED", "INTEGRATING"} => state.active = RequestOf[a]

ClosedTells ==
    \A a \in Grants :
        LET final == state.finals[RequestOf[a]]
        IN  /\ lifecycle[a] = "CLOSED" => final # None /\ final.reason # "INTEGRATED"
            /\ lifecycle[a] = "CONSUMED" => tip = a /\ final # None /\ final.reason = "INTEGRATED"

\* What is being integrated was accepted, and so was what the target holds.
AcceptedTells ==
    /\ \A a \in Grants : lifecycle[a] \in Integrating => Accepted(RequestOf[a])
    /\ tip # None => lifecycle[tip] \in Integrating

GrantInv == /\ LedgerTells /\ (\A p \in Processes : JobTells(p)) /\ FirstIsUsed /\ RunTells
            /\ LiveTells /\ ClosedTells /\ AcceptedTells /\ DoubtHolds

PilotInv == TypeOK /\ CycleInv /\ WorkInv /\ state.workspaces \subseteq clones /\ GrantInv

LEMMA Facts ==
  ASSUME PilotInv
  PROVE  /\ TypeOK /\ CycleInv /\ WorkBase /\ state \in State /\ state.tasks \subseteq Task
         /\ ledger \in Seq(Grants) /\ lifecycle \in [Grants -> Promise!Status]
         /\ job \in [Processes -> [step : Steps, subject : Subjects]]
         /\ clones \subseteq Task /\ commits \subseteq Task /\ reported \subseteq Task
         /\ \A a \in Grants : RequestOf[a] \in Cycles /\ a # None
         /\ \A p \in Processes : JobTells(p)
  <1>1. state \in State /\ state.tasks \subseteq Task
    BY TypeFacts DEF PilotInv, CycleInv
  <1>2. \A a \in Grants : RequestOf[a] \in Cycles /\ a # None
    BY RequestOfAssumption, GrantsAssumption
  <1>3. job \in [Processes -> [step : Steps, subject : Subjects]]
    BY DEF PilotInv, TypeOK, Steps, Subjects
  <1>4. WorkBase
    BY <1>3, JobShaped DEF PilotInv, TypeOK, WorkBase
  <1>5. QED
    BY <1>1, <1>2, <1>3, <1>4 DEF PilotInv, TypeOK, GrantInv, LedgerTells, Promise!Status, Steps, Subjects

-----------------------------------------------------------------------------
(* The processes                                                             *)

\* The process is at this step now, for this task or grant; the others where they were.
Moved(p, step, subject) ==
    /\ job' \in [Processes -> [step : Steps, subject : Subjects]]
    /\ job'[p].step = step /\ job'[p].subject = subject
    /\ \A q \in Processes \ {p} : job'[q] = job[q]

LEMMA Moves ==
  ASSUME PilotInv, NEW p \in Processes
  PROVE  /\ \A step \in Steps : Goto(p, step) => Moved(p, step, Subject(p))
         /\ \A step \in Steps, subject \in Task \cup Grants :
              Begin(p, step, subject) => Moved(p, step, subject)
         /\ End(p) => Moved(p, "idle", None)
  <1>1. job \in [Processes -> [step : Steps, subject : Subjects]]
    BY Facts
  <1>2. job[p] \in [step : Steps, subject : Subjects]
    BY <1>1
  <1>3. ASSUME NEW step \in Steps, Goto(p, step) PROVE Moved(p, step, Subject(p))
    <2> DEFINE new == [job[p] EXCEPT !.step = step]
    <2>1. /\ new \in [step : Steps, subject : Subjects]
          /\ new.step = step /\ new.subject = job[p].subject
      BY <1>2
    <2>2. job' = [job EXCEPT ![p] = new]
      BY <1>3 DEF Goto
    <2> HIDE DEF new
    <2>3. QED
      BY <1>1, <2>1, <2>2 DEF Moved, Subject
  <1>4. ASSUME NEW step \in Steps, NEW subject \in Task \cup Grants, Begin(p, step, subject)
        PROVE  Moved(p, step, subject)
    BY <1>1, <1>4 DEF Begin, Moved, Subjects
  <1>5. ASSUME End(p) PROVE Moved(p, "idle", None)
    <2>1. /\ Idle \in [step : Steps, subject : Subjects]
          /\ Idle.step = "idle" /\ Idle.subject = None
      BY DEF Idle, Steps, Subjects
    <2>2. job' = [job EXCEPT ![p] = Idle]
      BY <1>5 DEF End
    <2>3. QED
      BY <1>1, <2>1, <2>2 DEF Moved
  <1>6. QED
    BY <1>3, <1>4, <1>5

LEMMA SubjectNames ==
  ASSUME PilotInv
  PROVE  /\ None \in Subjects /\ \A a \in Grants : a \in Subjects
         /\ \A p \in Processes : Subject(p) \in Subjects
  BY Facts DEF Subjects, Subject

\* The names of the steps.
LEMMA StepNames ==
  /\ \A s \in {"idle"} \cup PrepareSteps \cup CheckpointSteps : s \in Steps /\ s \notin PilotSteps
  /\ \A s \in {"idle"} \cup PilotSteps : s \in Steps /\ s \notin PrepareSteps /\ s \notin CheckpointSteps
  /\ \A s \in PrepareSteps : s \notin CheckpointSteps
  BY DEF Steps, PrepareSteps, CheckpointSteps, PilotSteps

\* Nothing is known of a process that is at none of the pilot's steps.
LEMMA Untold ==
  ASSUME NEW p \in Processes, NEW step, NEW subject, Moved(p, step, subject),
         step \in {"idle"} \cup PrepareSteps \cup CheckpointSteps
  PROVE  JobTells(p)'
  BY DEF Moved, JobTells, PrepareSteps, CheckpointSteps, PilotSteps

\* The file system only gains, and only a clone's workspace is registered.
Gains == WorkGains /\ state'.workspaces \subseteq state.workspaces \cup clones'

\* The ledger gains, a used grant stays used, and what is integrated stays so.
LEMMA GrantsMove ==
  ASSUME PilotInv,
         \A q \in Processes : job'[q] = job[q] \/ JobTells(q)',
         \A a \in Grants : FoundForRequest(a) => FoundForRequest(a)',
         \A a \in Grants : lifecycle[a] \in Integrating => lifecycle'[a] \in Integrating,
         tip # None => tip' = tip,
         \A a \in Grants : Used(a) => Used(a)',
         \A a \in Grants : Used(a)' => Used(a) \/ FoundForRequest(a)',
         \A c \in Cycles : state'.cycles[c] # None =>
             state.cycles[c] # None \/ \E a \in Grants : Used(a)' /\ RequestOf[a] = c
  PROVE  (\A q \in Processes : JobTells(q)') /\ FirstIsUsed' /\ RunTells'
  <1>1. ASSUME NEW q \in Processes, job'[q] = job[q] PROVE JobTells(q)'
    <2>1. JobTells(q)
      BY Facts
    <2>2. \A a \in Grants : a # None
      BY Facts
    <2>3. QED
      BY <1>1, <2>1, <2>2 DEF JobTells, PilotSteps
  <1>2. FirstIsUsed'
    BY DEF PilotInv, GrantInv, FirstIsUsed
  <1>3. RunTells'
    BY DEF PilotInv, GrantInv, RunTells
  <1>4. QED
    BY <1>1, <1>2, <1>3

-----------------------------------------------------------------------------
(* The ledger of grants                                                       *)

\* A grant that is appended leaves the first grant for every request where it is.
LEMMA AppendKeepsFound ==
  ASSUME ledger \in Seq(Grants), NEW b \in Grants, ledger' = Append(ledger, b)
  PROVE  \A a \in Grants : FoundForRequest(a) => FoundForRequest(a)'
  <1>1. Len(ledger) \in Nat /\ DOMAIN ledger = 1 .. Len(ledger)
        /\ DOMAIN ledger' = 1 .. Len(ledger) + 1
        /\ \A i \in DOMAIN ledger : ledger'[i] = ledger[i]
    OBVIOUS
  <1> SUFFICES ASSUME NEW a \in Grants, FoundForRequest(a) PROVE FoundForRequest(a)'
    OBVIOUS
  <1>2. PICK i \in DOMAIN ledger : /\ ledger[i] = a
              /\ \A j \in DOMAIN ledger : RequestOf[ledger[j]] = RequestOf[a] => i <= j
    BY DEF FoundForRequest
  <1>3. ledger'[i] = a /\ i \in DOMAIN ledger'
    BY <1>1, <1>2
  <1>4. \A j \in DOMAIN ledger' : RequestOf[ledger'[j]] = RequestOf[a] => i <= j
    BY <1>1, <1>2
  <1>5. QED
    BY <1>3, <1>4 DEF FoundForRequest

\* Two grants that are both the first for their request are one.
LEMMA FoundIsOne ==
  ASSUME ledger \in Seq(Grants), NEW a \in Grants, NEW b \in Grants,
         FoundForRequest(a), FoundForRequest(b), RequestOf[a] = RequestOf[b]
  PROVE  a = b
  <1>1. PICK i \in DOMAIN ledger : /\ ledger[i] = a
              /\ \A j \in DOMAIN ledger : RequestOf[ledger[j]] = RequestOf[a] => i <= j
    BY DEF FoundForRequest
  <1>2. PICK k \in DOMAIN ledger : /\ ledger[k] = b
              /\ \A j \in DOMAIN ledger : RequestOf[ledger[j]] = RequestOf[b] => k <= j
    BY DEF FoundForRequest
  <1>3. i <= k /\ k <= i /\ i \in Nat /\ k \in Nat
    BY <1>1, <1>2
  <1>4. QED
    BY <1>1, <1>2, <1>3

-----------------------------------------------------------------------------
(* What a step has to show                                                    *)

\* What a step may do to the grants, and under a hold may not.
PromiseStep == Promise!GrantNext \/ UNCHANGED <<lifecycle, tip>>

HoldStep ==
    (tip' # tip \/ \E a \in Grants : lifecycle[a] # "CONSUMED" /\ lifecycle'[a] = "CONSUMED")
        => ~state.hold

\* A closed cycle stays as it was closed.
ClosedStep ==
    \A c \in Cycles : state.finals[c] # None =>
        state'.finals[c] = state.finals[c] /\ state'.cycles[c] = state.cycles[c]

GoodStep == PilotInv' /\ PromiseStep /\ HoldStep /\ ClosedStep

\* The ledger tells of each grant, and a request keeps its first one.
LedgerMoves ==
    /\ LedgerTells' /\ IsInjective(ledger') /\ Range(ledger') \subseteq Grants
    /\ \A a \in Grants : FoundForRequest(a) => FoundForRequest(a)'

\* No grant comes back from its use or its integration, and only a request's first is used.
LifecyclesMove ==
    /\ lifecycle' \in [Grants -> Promise!Status]
    /\ \A a \in Grants : lifecycle[a] \in Integrating => lifecycle'[a] \in Integrating
    /\ \A a \in Grants : Used(a) => Used(a)'
    /\ \A a \in Grants : Used(a)' => Used(a) \/ FoundForRequest(a)'

LEMMA LedgerKept ==
  ASSUME PilotInv, UNCHANGED ledger,
         \A a \in Grants : lifecycle'[a] # "NONE" <=> lifecycle[a] # "NONE"
  PROVE  LedgerMoves
  BY DEF PilotInv, TypeOK, GrantInv, LedgerTells, LedgerMoves, FoundForRequest

\* A grant that is used, or is to be, moves on; the others stay.
LEMMA OneGrantMoves ==
  ASSUME PilotInv, UNCHANGED ledger, NEW a \in Grants, lifecycle[a] # "NONE", FoundForRequest(a),
         NEW to \in Promise!Status \ {"NONE", "ISSUED"},
         lifecycle[a] \in Integrating => to \in Integrating,
         lifecycle' = [lifecycle EXCEPT ![a] = to]
  PROVE  /\ LedgerMoves /\ LifecyclesMove
         /\ \A b \in Grants : lifecycle'[b] = IF b = a THEN to ELSE lifecycle[b]
  <1>1. lifecycle \in [Grants -> Promise!Status]
    BY Facts
  <1>2. \A b \in Grants : lifecycle'[b] = IF b = a THEN to ELSE lifecycle[b]
    BY <1>1
  <1>3. LedgerMoves
    BY <1>2, LedgerKept
  <1>4. lifecycle' \in [Grants -> Promise!Status]
    BY <1>1
  <1>5. LifecyclesMove
    BY <1>2, <1>3, <1>4 DEF LifecyclesMove, LedgerMoves, Used
  <1>6. QED
    BY <1>2, <1>3, <1>5

LEMMA InvKeeps ==
  ASSUME PilotInv, CycleInv', WorkInv', Gains, LedgerMoves, LifecyclesMove,
         job' \in [Processes -> [step : Steps, subject : Subjects]],
         \A q \in Processes : job'[q] = job[q] \/ JobTells(q)',
         tip' \in Grants \cup {None}, tip # None => tip' = tip, uncertain' \subseteq Grants,
         \A c \in Cycles : state'.cycles[c] # None =>
             state.cycles[c] # None \/ \E a \in Grants : Used(a)' /\ RequestOf[a] = c,
         LiveTells', ClosedTells', AcceptedTells', DoubtHolds'
  PROVE  PilotInv'
  <1>1. (\A q \in Processes : JobTells(q)') /\ FirstIsUsed' /\ RunTells'
    BY GrantsMove DEF LedgerMoves, LifecyclesMove
  <1>2. GrantInv'
    BY <1>1 DEF LedgerMoves, GrantInv
  <1>3. TypeOK'
    BY DEF TypeOK, CycleInv, Gains, WorkGains, LedgerMoves, LifecyclesMove, Promise!Status, Steps,
       Subjects
  <1>4. state'.workspaces \subseteq clones'
    BY DEF PilotInv, Gains, WorkGains
  <1>5. QED
    BY <1>2, <1>3, <1>4 DEF PilotInv

\* A process takes a step of the pilot.
LEMMA PilotMoved ==
  ASSUME PilotInv, NEW p \in Processes, NEW step \in {"idle"} \cup PilotSteps, NEW subject,
         Moved(p, step, subject), JobTells(p)', UNCHANGED <<clones, commits, reported>>,
         state.tasks \subseteq state'.tasks, SameFiles(state, state'),
         state'.intents = state.intents, state.hold => state'.hold \/ Open(state)' = {}
  PROVE  /\ WorkInv' /\ Gains /\ job' \in [Processes -> [step : Steps, subject : Subjects]]
         /\ \A q \in Processes : job'[q] = job[q] \/ JobTells(q)'
  <1>1. \A q \in Processes : job'[q] = job[q] \/ job'[q].step \in {"idle"} \cup PilotSteps
    BY DEF Moved
  <1>2. WorkInv'
    BY <1>1, Facts, StepNames, WorkKept
  <1>3. Gains
    BY Facts DEF Gains, WorkGains, SameFiles
  <1>4. QED
    BY <1>2, <1>3 DEF Moved

\* The grants, and the cycles they are for, are left alone.
LEMMA TellsKept ==
  ASSUME PilotInv, Still(state, state'), UNCHANGED <<lifecycle, tip>>
  PROVE  LiveTells' /\ ClosedTells' /\ AcceptedTells' /\ ClosedStep
  BY DEF PilotInv, GrantInv, Still, LiveTells, ClosedTells, AcceptedTells, Accepted, ClosedStep

LEMMA UntouchedGood ==
  ASSUME PilotInv, CycleInv', WorkInv', Gains, Still(state, state'),
         UNCHANGED <<ledger, lifecycle, tip>>, uncertain' \subseteq Grants,
         job' \in [Processes -> [step : Steps, subject : Subjects]],
         \A q \in Processes : job'[q] = job[q] \/ JobTells(q)',
         state.hold => state'.hold \/ Open(state) # {}
  PROVE  GoodStep
  <1>1. LedgerMoves
    BY LedgerKept
  <1>2. LifecyclesMove
    BY Facts DEF LifecyclesMove, Used
  <1>3. LiveTells' /\ ClosedTells' /\ AcceptedTells' /\ ClosedStep
    BY TellsKept
  <1>4. DoubtHolds'
    <2> SUFFICES ASSUME NEW a \in Grants, lifecycle[a] = "RECONCILIATION_REQUIRED",
                        state.finals[RequestOf[a]] = None
                 PROVE  state'.hold
      BY DEF DoubtHolds, Still
    <2>1. state.hold /\ Accepted(RequestOf[a]) /\ RequestOf[a] \in Cycles
      BY RequestOfAssumption DEF PilotInv, GrantInv, DoubtHolds, AcceptedTells, Integrating
    <2>2. Open(state) = {}
      BY <2>1, WaitingFacts DEF PilotInv
    <2>3. QED
      BY <2>1, <2>2
  <1>5. tip' \in Grants \cup {None} /\ \A c \in Cycles : state'.cycles[c] = state.cycles[c]
    BY DEF PilotInv, TypeOK, Still
  <1>6. PilotInv'
    BY <1>1, <1>2, <1>3, <1>4, <1>5, InvKeeps
  <1>7. QED
    BY <1>3, <1>6 DEF GoodStep, PromiseStep, HoldStep

-----------------------------------------------------------------------------
(* The steps of the pilot                                                     *)

LEMMA WorkGood ==
  ASSUME PilotInv, NEW p \in Processes, Work(p) \/ StartWork(p) \/ Crash(p), UNCHANGED pilotVars
  PROVE  GoodStep
  <1>1. Worked(p)
    BY Facts, WorkKeeps
  <1>2. PICK step \in WorkSteps, subject \in WorkSubjects : Moved(p, step, subject)
    <2>1. PICK step \in WorkSteps, subject \in WorkSubjects : JobMoved(p, step, subject)
      BY <1>1 DEF Worked
    <2>2. step \in Steps /\ subject \in Subjects
      BY DEF Steps, Subjects, WorkSteps, WorkSubjects
    <2>3. job' \in [Processes -> [step : Steps, subject : Subjects]]
      BY <2>1, <2>2, Facts, JobTyped
    <2>4. QED
      BY <2>1, <2>3 DEF JobMoved, Moved
  <1>3. JobTells(p)'
    BY <1>2, Untold DEF WorkSteps
  <1>4. \A q \in Processes : job'[q] = job[q] \/ JobTells(q)'
    BY <1>2, <1>3 DEF Moved
  <1>5. UNCHANGED <<ledger, lifecycle, tip>> /\ uncertain' \subseteq Grants
    BY DEF pilotVars, PilotInv, TypeOK
  <1>6. job' \in [Processes -> [step : Steps, subject : Subjects]]
    BY <1>2 DEF Moved
  <1>7. Gains
    BY <1>1 DEF Worked, WorkGains, Gains
  <1>8. QED
    BY <1>1, <1>4, <1>5, <1>6, <1>7, UntouchedGood DEF Worked

\* Commands that begin, or that fail.
LEMMA QuietActions ==
  ASSUME PilotInv, NEW p \in Processes, NEW a \in Grants,
         \/ IssueBegin(p, a) \/ AdmitBegin(p, a) \/ IntegrateBegin(p, a)
         \/ IssueFails(p) \/ AdmitFails(p) \/ IntegrateIntentFails(p)
         \/ MoveRefFails(p) \/ IntegrateCompleteFails(p) \/ ReconcileSwallowed(p)
  PROVE  GoodStep
  <1>1. UNCHANGED <<state, clones, commits, reported, ledger, lifecycle, tip>>
    BY DEF IssueBegin, AdmitBegin, IntegrateBegin, IssueFails, AdmitFails, IntegrateIntentFails,
       MoveRefFails, IntegrateCompleteFails, ReconcileSwallowed, pilotVars
  <1>2. JobTells(p)
    BY Facts
  <1>3. uncertain' \subseteq Grants
    <2>1. uncertain \subseteq Grants /\ (At(p, "doubting") => Subject(p) \in Grants)
      BY <1>2 DEF PilotInv, TypeOK, JobTells, At, Subject, PilotSteps
    <2>2. QED
      BY <2>1 DEF IssueBegin, AdmitBegin, IntegrateBegin, IssueFails, AdmitFails,
         IntegrateIntentFails, MoveRefFails, IntegrateCompleteFails, ReconcileSwallowed, pilotVars
  <1>4. PICK step \in {"idle"} \cup PilotSteps, subject \in Subjects :
            Moved(p, step, subject) /\ JobTells(p)'
    <2>1. /\ "first" \in PilotSteps /\ "issuing" \in PilotSteps /\ "admitting" \in PilotSteps
          /\ "intending" \in PilotSteps /\ "doubting" \in PilotSteps
      BY DEF PilotSteps
    <2>2. \A s \in PilotSteps : s \in Steps
      BY StepNames
    <2>3. CASE IssueBegin(p, a)
      <3>1. PICK s \in {"first", "issuing"} : Moved(p, s, a)
        BY <2>1, <2>2, <2>3, Moves DEF IssueBegin
      <3>2. JobTells(p)'
        BY <3>1 DEF Moved, JobTells
      <3>3. QED
        BY <2>1, <3>1, <3>2, SubjectNames
    <2>4. CASE AdmitBegin(p, a)
      <3>1. Moved(p, "admitting", a) /\ FoundForRequest(a)
        BY <2>1, <2>2, <2>4, Moves DEF AdmitBegin
      <3>2. JobTells(p)'
        BY <1>1, <3>1 DEF Moved, JobTells, FoundForRequest
      <3>3. QED
        BY <2>1, <3>1, <3>2, SubjectNames
    <2>5. CASE IntegrateBegin(p, a)
      <3>1. Moved(p, "intending", a)
        BY <2>1, <2>2, <2>5, Moves DEF IntegrateBegin
      <3>2. JobTells(p)'
        BY <3>1 DEF Moved, JobTells
      <3>3. QED
        BY <2>1, <3>1, <3>2, SubjectNames
    <2>6. CASE IssueFails(p) \/ AdmitFails(p) \/ IntegrateIntentFails(p) \/ ReconcileSwallowed(p)
      <3>1. Moved(p, "idle", None)
        BY <2>6, Moves DEF IssueFails, AdmitFails, IntegrateIntentFails, ReconcileSwallowed
      <3>2. QED
        BY <3>1, Untold, SubjectNames
    <2>7. CASE MoveRefFails(p) \/ IntegrateCompleteFails(p)
      <3>1. Goto(p, "doubting") /\ job[p].step \in {"integrating", "moved"}
        BY <2>7 DEF MoveRefFails, IntegrateCompleteFails, At
      <3>2. Moved(p, "doubting", Subject(p))
        BY <2>1, <2>2, <3>1, Moves
      <3>3. JobTells(p)'
        BY <1>1, <1>2, <3>1, <3>2 DEF Moved, Subject, JobTells, PilotSteps
      <3>4. QED
        BY <2>1, <3>2, <3>3, SubjectNames
    <2>8. QED
      BY <2>3, <2>4, <2>5, <2>6, <2>7
  <1>5. CycleInv' /\ Still(state, state') /\ SameFiles(state, state')
    BY <1>1, StateKept DEF PilotInv
  <1>6. /\ WorkInv' /\ Gains /\ job' \in [Processes -> [step : Steps, subject : Subjects]]
        /\ \A q \in Processes : job'[q] = job[q] \/ JobTells(q)'
    BY <1>1, <1>4, <1>5, PilotMoved
  <1>7. QED
    BY <1>1, <1>3, <1>5, <1>6, UntouchedGood

LEMMA IssueGood ==
  ASSUME PilotInv, NEW p \in Processes, IssueCommit(p)
  PROVE  GoodStep
  <1> DEFINE a == Subject(p)
  <1>1. a \in Grants /\ ledger \in Seq(Grants) /\ lifecycle \in [Grants -> Promise!Status]
    BY Facts DEF JobTells, IssueCommit, At, Subject, PilotSteps
  <1>2. lifecycle[a] = "NONE"
    BY <1>1 DEF PilotInv, GrantInv, LedgerTells, IssueCommit
  <1>3. /\ ledger' = Append(ledger, a) /\ lifecycle' = [lifecycle EXCEPT ![a] = "ISSUED"]
        /\ UNCHANGED <<state, clones, commits, reported, tip, uncertain>> /\ End(p)
    BY DEF IssueCommit
  <1> HIDE DEF a
  <1>4. \A b \in Grants : lifecycle'[b] = IF b = a THEN "ISSUED" ELSE lifecycle[b]
    BY <1>1, <1>3
  <1>5. LedgerMoves
    <2>1. /\ ledger' \in Seq(Grants) /\ Len(ledger) \in Nat /\ DOMAIN ledger = 1 .. Len(ledger)
          /\ DOMAIN ledger' = 1 .. Len(ledger) + 1 /\ ledger'[Len(ledger) + 1] = a
          /\ \A i \in DOMAIN ledger : ledger'[i] = ledger[i]
      BY <1>1, <1>3
    <2>2. \A i \in DOMAIN ledger : ledger[i] # a
      BY <1>1, <1>2 DEF PilotInv, GrantInv, LedgerTells
    <2>3. ASSUME NEW b \in Grants
          PROVE  lifecycle'[b] # "NONE" <=> \E i \in DOMAIN ledger' : ledger'[i] = b
      <3>1. lifecycle[b] # "NONE" <=> \E i \in DOMAIN ledger : ledger[i] = b
        BY DEF PilotInv, GrantInv, LedgerTells
      <3>2. (\E i \in DOMAIN ledger' : ledger'[i] = b) <=>
                (\E i \in DOMAIN ledger : ledger[i] = b) \/ b = a
        BY <2>1
      <3>3. lifecycle'[b] # "NONE" <=> lifecycle[b] # "NONE" \/ b = a
        BY <1>4
      <3>4. QED
        BY <3>1, <3>2, <3>3
    <2>4. LedgerTells'
      BY <2>1, <2>3 DEF LedgerTells
    <2>5. IsInjective(ledger')
      <3>1. IsInjective(ledger)
        BY DEF PilotInv, TypeOK
      <3>2. QED
        BY <2>1, <2>2, <3>1 DEF IsInjective
    <2>6. Range(ledger') \subseteq Grants
      BY <2>1 DEF Range
    <2>7. QED
      BY <1>1, <1>3, <2>4, <2>5, <2>6, AppendKeepsFound DEF LedgerMoves
  <1>6. LifecyclesMove
    <2>1. lifecycle' \in [Grants -> Promise!Status]
      BY <1>1, <1>3 DEF Promise!Status
    <2>2. QED
      BY <1>2, <1>4, <2>1 DEF LifecyclesMove, Used, Integrating
  <1>7. /\ CycleInv' /\ Still(state, state') /\ SameFiles(state, state')
    BY <1>3, StateKept DEF PilotInv
  <1>8. /\ WorkInv' /\ Gains /\ job' \in [Processes -> [step : Steps, subject : Subjects]]
        /\ \A q \in Processes : job'[q] = job[q] \/ JobTells(q)'
    <2>1. Moved(p, "idle", None)
      BY <1>3, Moves
    <2>2. QED
      BY <1>3, <1>7, <2>1, Untold, PilotMoved
  <1>9. LiveTells' /\ ClosedTells' /\ DoubtHolds'
    BY <1>3, <1>4 DEF PilotInv, GrantInv, LiveTells, ClosedTells, DoubtHolds
  <1>10. AcceptedTells'
    BY <1>2, <1>3, <1>4 DEF PilotInv, TypeOK, GrantInv, AcceptedTells, Accepted, Integrating
  <1>11. tip' \in Grants \cup {None} /\ tip' = tip /\ uncertain' \subseteq Grants
    BY <1>3 DEF PilotInv, TypeOK
  <1>12. PilotInv'
    BY <1>3, <1>5, <1>6, <1>7, <1>8, <1>9, <1>10, <1>11, InvKeeps
  <1>13. Promise!Issue(a)
    BY <1>2, <1>3 DEF Promise!Issue, Promise!Become
  <1>14. QED
    BY <1>1, <1>3, <1>4, <1>12, <1>13
    DEF GoodStep, PromiseStep, HoldStep, ClosedStep, Promise!GrantNext, Promise!GrantStep

LEMMA AdmitGood ==
  ASSUME PilotInv, NEW p \in Processes, AdmitCommit(p)
  PROVE  GoodStep
  <1>0. PICK a \in Grants : a = Subject(p) /\ FoundForRequest(a)
    BY Facts DEF JobTells, AdmitCommit, At, Subject, PilotSteps
  <1> DEFINE c == RequestOf[a]
  <1>1. a \in Grants /\ ledger \in Seq(Grants) /\ FoundForRequest(a) /\ c \in Cycles
    BY <1>0, Facts
  <1>2. /\ lifecycle[a] = "ISSUED" /\ state.active = None
        /\ lifecycle' = [lifecycle EXCEPT ![a] = "CLAIMED"] /\ End(p)
        /\ UNCHANGED <<clones, commits, reported, ledger, tip, uncertain>>
        /\ state' = Issue([state EXCEPT !.active = c], c, NewCycle(None), "ARCHITECT_PLAN")
    BY <1>0 DEF AdmitCommit, MayClaim
  <1>3. \A b \in Grants : RequestOf[b] = c => ~Used(b)
    BY <1>1, <1>2, FoundIsOne DEF PilotInv, GrantInv, FirstIsUsed, Used
  <1>4. state.cycles[c] = None
    BY <1>1, <1>3 DEF PilotInv, GrantInv, RunTells
  <1> HIDE DEF c
  <1>5. /\ CycleInv' /\ RoleStep
        /\ state'.active = c /\ state'.cycles[c] # None /\ state'.finals = state.finals
        /\ \A d \in Cycles \ {c} : state'.cycles[d] = state.cycles[d]
    BY <1>1, <1>2, <1>4, AdmissionKeeps DEF PilotInv
  <1>6. "CLAIMED" \in Promise!Status
    BY DEF Promise!Status
  <1>7. /\ LedgerMoves /\ LifecyclesMove
        /\ \A b \in Grants : lifecycle'[b] = IF b = a THEN "CLAIMED" ELSE lifecycle[b]
    BY <1>1, <1>2, <1>6, OneGrantMoves DEF Integrating
  <1>8. \A b \in Grants : lifecycle[b] \notin {"CLAIMED", "INTEGRATING"}
    BY <1>2, NoneAssumption, Facts DEF PilotInv, GrantInv, LiveTells
  <1>9. /\ WorkInv' /\ Gains /\ job' \in [Processes -> [step : Steps, subject : Subjects]]
        /\ \A q \in Processes : job'[q] = job[q] \/ JobTells(q)'
    <2>1. Moved(p, "idle", None)
      BY <1>2, Moves
    <2>2. /\ state.tasks \subseteq state'.tasks /\ SameFiles(state, state')
          /\ state'.intents = state.intents /\ (state.hold => state'.hold)
      BY <1>5 DEF RoleStep, Elsewhere, SameFiles
    <2>3. QED
      BY <1>2, <2>1, <2>2, Untold, PilotMoved
  <1>10. LiveTells'
    BY <1>5, <1>7, <1>8 DEF LiveTells, c
  <1>11. ClosedTells'
    BY <1>2, <1>5, <1>7 DEF PilotInv, GrantInv, ClosedTells
  <1>12. AcceptedTells'
    <2>1. ASSUME NEW b \in Grants, lifecycle'[b] \in Integrating PROVE Accepted(RequestOf[b])'
      <3>1. Accepted(RequestOf[b]) /\ RequestOf[b] \in Cycles
        BY <1>7, <2>1, Facts DEF PilotInv, GrantInv, AcceptedTells, Integrating
      <3>2. QED
        BY <1>5, <3>1 DEF RoleStep, Accepted
    <2>2. tip # None => lifecycle'[tip] \in Integrating
      BY <1>7 DEF PilotInv, TypeOK, GrantInv, AcceptedTells, LifecyclesMove
    <2>3. QED
      BY <1>2, <2>1, <2>2 DEF AcceptedTells
  <1>13. DoubtHolds'
    BY <1>5, <1>7 DEF PilotInv, GrantInv, DoubtHolds, RoleStep
  <1>14. \A d \in Cycles : state'.cycles[d] # None =>
           state.cycles[d] # None \/ \E b \in Grants : Used(b)' /\ RequestOf[b] = d
    <2>1. Used(a)' /\ RequestOf[a] = c
      BY <1>1, <1>7 DEF Used, c
    <2>2. QED
      BY <1>1, <1>5, <2>1
  <1>15. tip' \in Grants \cup {None} /\ tip' = tip /\ uncertain' \subseteq Grants
    BY <1>2 DEF PilotInv, TypeOK
  <1>16. PilotInv'
    BY <1>5, <1>7, <1>9, <1>10, <1>11, <1>12, <1>13, <1>14, <1>15, InvKeeps
  <1>17. Promise!Claim(a)
    BY <1>2, <1>3, <1>8 DEF Promise!Claim, Promise!Become, Promise!Live, Promise!Unused, Used, c
  <1>18. HoldStep /\ ClosedStep
    BY <1>2, <1>5, <1>7 DEF HoldStep, ClosedStep, RoleStep
  <1>19. QED
    BY <1>1, <1>16, <1>17, <1>18
    DEF GoodStep, PromiseStep, Promise!GrantNext, Promise!GrantStep

\* A role starts or ends, or its result is accepted.
LEMMA RoleMutation ==
  ASSUME PilotInv, StartRole \/ Finish \/ Submit
  PROVE  CycleInv' /\ RoleStep /\ state.active # None
  <1>1. CycleInv
    BY DEF PilotInv
  <1>2. state.pending # None => state.active # None
    BY <1>1, PendingFacts, NoneAssumption
  <1>3. CASE StartRole \/ Finish
    BY <1>1, <1>2, <1>3, TimingKeeps DEF StartRole, Finish, FinishRole
  <1>4. CASE Submit
    <2>1. PICK task \in state.tasks : \E r \in Inputs(task) : SubmitResult(task, r)
      BY <1>4 DEF Submit
    <2>2. PICK r \in Inputs(task) : SubmitResult(task, r)
      BY <2>1
    <2>3. task \in Task
      BY <1>1, TypeFacts DEF CycleInv
    <2>4. Verdicts(task.purpose) \subseteq AllVerdicts
      BY <2>3 DEF Task, AllVerdicts
    <2>5. r \in Result
      BY <2>4 DEF Inputs, Result
    <2>6. Acceptable(task, r)
      BY <2>2 DEF SubmitResult, SubmitBlocked, SubmitPlan, SubmitRevision, SubmitBuild,
         SubmitReview, SubmitDecision
    <2>7. QED
      BY <1>1, <1>2, <2>2, <2>5, <2>6, SubmitKeeps DEF Acceptable
  <1>5. QED
    BY <1>3, <1>4

\* A result may close the cycle, and its claimed grant with it.
LEMMA RoleGood ==
  ASSUME PilotInv, Mutation(StartRole) \/ Mutation(Finish) \/ Mutation(Submit)
  PROVE  GoodStep
  <1>1. /\ UNCHANGED <<job, clones, commits, reported, ledger, tip, uncertain>>
        /\ lifecycle' = [a \in Grants |-> LifecycleAfter(a)]
    BY DEF Mutation, workVars
  <1>2. CycleInv' /\ RoleStep /\ state.active # None
    BY RoleMutation DEF Mutation
  <1>3. \A a \in Grants : RequestOf[a] \in Cycles
    BY Facts
  <1> DEFINE Ends(a) == /\ lifecycle[a] = "CLAIMED"
                        /\ state.finals[RequestOf[a]] = None /\ state'.finals[RequestOf[a]] # None
  <1>4. ASSUME NEW a \in Grants
        PROVE  /\ lifecycle[a] \in Integrating =>
                    state'.cycles[RequestOf[a]] = state.cycles[RequestOf[a]] /\ Accepted(RequestOf[a])'
               /\ lifecycle[a] \in {"CLAIMED", "INTEGRATING"} => state.finals[RequestOf[a]] = None
               /\ lifecycle[a] = "INTEGRATING" => state'.finals[RequestOf[a]] = None
    <2> DEFINE c == RequestOf[a]
    <2>1. c \in Cycles
      BY <1>3
    <2>2. lifecycle[a] \in Integrating => Accepted(c)
      BY DEF PilotInv, GrantInv, AcceptedTells
    <2>3. lifecycle[a] \in {"CLAIMED", "INTEGRATING"} => state.active = c
      BY DEF PilotInv, GrantInv, LiveTells
    <2> HIDE DEF c
    <2>4. Accepted(c) => state'.cycles[c] = state.cycles[c] /\ Accepted(c)'
      BY <1>2, <2>1 DEF RoleStep, Accepted
    <2>5. state.active = c => state.finals[c] = None
      BY <2>1 DEF PilotInv, CycleInv, ActiveTells, FinalsTell
    <2>6. state'.cycles[c] = state.cycles[c] /\ state.finals[c] = None => state'.finals[c] = None
      BY <1>2, <2>1 DEF PilotInv, CycleInv, FinalsTell
    <2>7. QED
      BY <2>2, <2>3, <2>4, <2>5, <2>6 DEF Integrating, c
  <1>5. \A a \in Grants : lifecycle'[a] = IF Ends(a) THEN "CLOSED" ELSE lifecycle[a]
    <2> SUFFICES ASSUME NEW a \in Grants
                 PROVE  LifecycleAfter(a) = IF Ends(a) THEN "CLOSED" ELSE lifecycle[a]
      BY <1>1
    <2>1. lifecycle[a] \in Promise!Status
      BY Facts
    <2>2. lifecycle[a] \in {"CLOSED", "CONSUMED"} => state.finals[RequestOf[a]] # None
      BY DEF PilotInv, GrantInv, ClosedTells
    <2>3. lifecycle[a] = "INTEGRATING" => state'.finals[RequestOf[a]] = None
      BY <1>4
    <2>4. QED
      BY <2>1, <2>2, <2>3 DEF LifecycleAfter, Used, Promise!Status
  <1>6. LedgerMoves
    BY <1>1, <1>5, LedgerKept
  <1>7. LifecyclesMove
    <2>1. lifecycle' \in [Grants -> Promise!Status]
      <3>1. \A a \in Grants : lifecycle'[a] \in Promise!Status
        BY <1>5, Facts DEF Promise!Status
      <3>2. QED
        BY <1>1, <3>1
    <2>2. QED
      BY <1>5, <2>1 DEF LifecyclesMove, Used, Integrating
  <1>8. WorkInv' /\ Gains /\ job' \in [Processes -> [step : Steps, subject : Subjects]]
    <2>1. /\ state.tasks \subseteq state'.tasks /\ SameFiles(state, state')
          /\ state'.intents = state.intents /\ (state.hold => state'.hold)
      BY <1>2 DEF RoleStep, Elsewhere, SameFiles
    <2>2. \A q \in Processes : job'[q] = job[q]
      BY <1>1
    <2>3. WorkInv'
      BY <1>1, <2>1, <2>2, Facts, WorkKept
    <2>4. QED
      BY <1>1, <2>1, <2>3, Facts DEF Gains, WorkGains, SameFiles
  <1>9. LiveTells'
    <2> SUFFICES ASSUME NEW a \in Grants, lifecycle'[a] \in {"CLAIMED", "INTEGRATING"}
                 PROVE  state'.active = RequestOf[a]
      BY DEF LiveTells
    <2> DEFINE c == RequestOf[a]
    <2>1. lifecycle[a] \in {"CLAIMED", "INTEGRATING"} /\ ~Ends(a)
      BY <1>5
    <2>2. state'.finals[c] = None
      BY <1>4, <2>1
    <2>3. state.active = c
      BY <2>1 DEF PilotInv, GrantInv, LiveTells
    <2>4. c \in Cycles
      BY <1>3
    <2> HIDE DEF c
    <2>5. state.cycles[c] # None
      BY <2>3, <2>4 DEF PilotInv, CycleInv, ActiveTells
    <2>6. state'.cycles[c] # None
      BY <1>2, <2>4, <2>5 DEF RoleStep
    <2>7. state'.active = c
      BY <1>2, <2>2, <2>4, <2>6 DEF CycleInv, FinalsTell, ActiveTells
    <2>8. QED
      BY <2>7 DEF c
  <1>10. ClosedTells'
    <2> SUFFICES ASSUME NEW a \in Grants
                 PROVE  LET final == state'.finals[RequestOf[a]]
                        IN  /\ lifecycle'[a] = "CLOSED" => final # None /\ final.reason # "INTEGRATED"
                            /\ lifecycle'[a] = "CONSUMED" =>
                                 tip' = a /\ final # None /\ final.reason = "INTEGRATED"
      BY DEF ClosedTells
    <2>1. CASE Ends(a)
      BY <1>2, <1>3, <1>5, <2>1 DEF RoleStep
    <2>2. CASE ~Ends(a)
      <3>1. lifecycle'[a] = lifecycle[a]
        BY <1>5, <2>2
      <3>2. state.finals[RequestOf[a]] # None =>
              state'.finals[RequestOf[a]] = state.finals[RequestOf[a]]
        BY <1>2, <1>3 DEF RoleStep
      <3>3. QED
        BY <1>1, <3>1, <3>2 DEF PilotInv, GrantInv, ClosedTells
    <2>3. QED
      BY <2>1, <2>2
  <1>11. AcceptedTells'
    <2>1. \A a \in Grants : lifecycle'[a] \in Integrating => lifecycle'[a] = lifecycle[a]
      BY <1>5 DEF Integrating
    <2>2. \A a \in Grants : lifecycle'[a] \in Integrating => Accepted(RequestOf[a])'
      BY <1>4, <2>1
    <2>3. tip # None => lifecycle'[tip] \in Integrating
      BY <1>7 DEF PilotInv, TypeOK, GrantInv, AcceptedTells, LifecyclesMove
    <2>4. QED
      BY <1>1, <2>2, <2>3 DEF AcceptedTells
  <1>12. DoubtHolds'
    <2> SUFFICES ASSUME NEW a \in Grants, lifecycle'[a] = "RECONCILIATION_REQUIRED",
                        state'.finals[RequestOf[a]] = None
                 PROVE  state'.hold
      BY DEF DoubtHolds
    <2>1. lifecycle[a] = "RECONCILIATION_REQUIRED"
      BY <1>5
    <2>2. state.finals[RequestOf[a]] = None
      BY <1>2, <1>3 DEF RoleStep
    <2>3. QED
      BY <1>2, <2>1, <2>2 DEF PilotInv, GrantInv, DoubtHolds, RoleStep
  <1>13. \A c \in Cycles : state'.cycles[c] # None => state.cycles[c] # None
    BY <1>2 DEF RoleStep
  <1>14. tip' \in Grants \cup {None} /\ tip' = tip /\ uncertain' \subseteq Grants
    BY <1>1 DEF PilotInv, TypeOK
  <1>15. \A q \in Processes : job'[q] = job[q]
    BY <1>1
  <1>16. PilotInv'
    BY <1>2, <1>6, <1>7, <1>8, <1>9, <1>10, <1>11, <1>12, <1>13, <1>14, <1>15, InvKeeps
  <1>17. PromiseStep
    <2>1. CASE \E a \in Grants : Ends(a)
      <3>1. PICK a \in Grants : Ends(a)
        BY <2>1
      <3>2. \A b \in Grants : lifecycle[b] = "CLAIMED" => b = a
        <4>1. \A b \in Grants : lifecycle[b] = "CLAIMED" =>
                RequestOf[b] = RequestOf[a] /\ FoundForRequest(b)
          BY <3>1 DEF PilotInv, GrantInv, LiveTells, FirstIsUsed, Used
        <4>2. QED
          BY <3>1, <4>1, FoundIsOne, Facts
      <3>3. \A b \in Grants : lifecycle'[b] = IF b = a THEN "CLOSED" ELSE lifecycle[b]
        BY <1>5, <3>1, <3>2
      <3>4. lifecycle' = [lifecycle EXCEPT ![a] = "CLOSED"]
        <4>1. lifecycle \in [Grants -> Promise!Status] /\ lifecycle' \in [Grants -> Promise!Status]
          BY <1>7, Facts DEF LifecyclesMove
        <4>2. QED
          BY <3>3, <4>1
      <3>5. Promise!Close(a)
        BY <1>1, <3>1, <3>4 DEF Promise!Close, Promise!Become
      <3>6. QED
        BY <3>5 DEF PromiseStep, Promise!GrantNext, Promise!GrantStep
    <2>2. CASE ~ \E a \in Grants : Ends(a)
      <3>1. \A b \in Grants : lifecycle'[b] = lifecycle[b]
        BY <1>5, <2>2
      <3>2. lifecycle' = lifecycle
        <4>1. lifecycle \in [Grants -> Promise!Status] /\ lifecycle' \in [Grants -> Promise!Status]
          BY <1>7, Facts DEF LifecyclesMove
        <4>2. QED
          BY <3>1, <4>1
      <3>3. QED
        BY <1>1, <3>2 DEF PromiseStep
    <2>3. QED
      BY <2>1, <2>2
  <1>18. HoldStep /\ ClosedStep
    BY <1>1, <1>2, <1>5 DEF HoldStep, ClosedStep, RoleStep
  <1>19. QED
    BY <1>16, <1>17, <1>18 DEF GoodStep

\* The intent of an integration is appended.
LEMMA IntegrationAdded ==
  ASSUME state \in State, NEW c \in Cycles,
         state' = [state EXCEPT !.integrations = Append(@, [cycle |-> c, status |-> "PREPARED"])]
  PROVE  /\ Still(state, state') /\ SameFiles(state, state')
         /\ state'.intents = state.intents /\ state'.hold = state.hold
  <1> DEFINE integration == [cycle |-> c, status |-> "PREPARED"]
             integrations == Append(state.integrations, integration)
  <1>1. DOMAIN state = Fields /\ state.integrations \in Seq(Integration)
    BY StateFields, LedgerTypes
  <1>2. integration \in Integration
    BY DEF Integration
  <1>3. state' = [state EXCEPT !.integrations = integrations]
    OBVIOUS
  <1> HIDE DEF integration
  <1>4. integrations \in Seq(Integration)
    BY <1>1, <1>2
  <1> HIDE DEF integrations
  <1>5. state' \in State
    BY <1>3, <1>4, ZenonT(60) DEF State, Integration
  <1>6. Still(state, state')
    BY <1>1, <1>3, <1>5 DEF Fields, Still
  <1>7. QED
    BY <1>1, <1>3, <1>6 DEF Fields, SameFiles

LEMMA IntentGood ==
  ASSUME PilotInv, NEW p \in Processes, IntegrateIntent(p)
  PROVE  GoodStep
  <1>1. PICK a \in Grants : a = Subject(p)
    BY Facts DEF JobTells, IntegrateIntent, At, Subject, PilotSteps
  <1> DEFINE c == RequestOf[a]
  <1>2. /\ Eligible(a) /\ tip = None /\ UNCHANGED <<clones, commits, reported, ledger, tip, uncertain>>
        /\ lifecycle' = [lifecycle EXCEPT ![a] = "INTEGRATING"]
        /\ state' = [state EXCEPT !.integrations =
                        Append(@, [cycle |-> c, status |-> "PREPARED"])]
        /\ Goto(p, "integrating") \/ End(p)
    BY <1>1 DEF IntegrateIntent, Goto, End
  <1>3. lifecycle[a] = "CLAIMED" /\ state.active = c /\ state.cycles[c].decision = "ACCEPT"
    BY <1>2 DEF Eligible, ApprovalEvidence
  <1>4. c \in Cycles
    BY Facts
  <1>5. /\ FoundForRequest(a) /\ "INTEGRATING" \in Promise!Status
    BY <1>3 DEF PilotInv, GrantInv, FirstIsUsed, Used, Promise!Status
  <1>6. /\ LedgerMoves /\ LifecyclesMove
        /\ \A b \in Grants : lifecycle'[b] = IF b = a THEN "INTEGRATING" ELSE lifecycle[b]
    BY <1>2, <1>3, <1>5, OneGrantMoves DEF Integrating
  <1> HIDE DEF c
  <1>7. /\ Still(state, state') /\ SameFiles(state, state')
        /\ state'.intents = state.intents /\ state'.hold = state.hold
    BY <1>2, <1>4, Facts, IntegrationAdded
  <1>8. CycleInv'
    <2>1. Checkpointed(state)' = Checkpointed(state)
      BY <1>7 DEF SameFiles, Checkpointed
    <2>2. QED
      BY <1>7, <2>1, StillKeeps DEF PilotInv
  <1>9. /\ WorkInv' /\ Gains /\ job' \in [Processes -> [step : Steps, subject : Subjects]]
        /\ \A q \in Processes : job'[q] = job[q] \/ JobTells(q)'
    <2>1. "integrating" \in PilotSteps /\ "integrating" \in Steps
      BY StepNames DEF PilotSteps
    <2>2. PICK step \in {"idle"} \cup PilotSteps, subject \in Subjects :
              Moved(p, step, subject) /\ JobTells(p)'
      <3>1. CASE Goto(p, "integrating")
        <4>1. Moved(p, "integrating", a)
          BY <1>1, <2>1, <3>1, Moves
        <4>2. JobTells(p)'
          BY <1>6, <4>1 DEF Moved, JobTells, Integrating
        <4>3. QED
          BY <2>1, <4>1, <4>2, SubjectNames
      <3>2. CASE End(p)
        BY <3>2, Moves, Untold, SubjectNames
      <3>3. QED
        BY <1>2, <3>1, <3>2
    <2>3. state.tasks \subseteq state'.tasks
      BY <1>7 DEF Still
    <2>4. QED
      BY <1>2, <1>7, <2>2, <2>3, PilotMoved
  <1>10. Accepted(c)
    BY <1>3, <1>4 DEF PilotInv, CycleInv, ActiveTells, Accepted
  <1>11. LiveTells' /\ ClosedTells' /\ DoubtHolds'
    BY <1>2, <1>3, <1>6, <1>7 DEF PilotInv, GrantInv, Still, LiveTells, ClosedTells, DoubtHolds, c
  <1>12. AcceptedTells'
    <2>1. \A d : Accepted(d)' <=> Accepted(d)
      BY <1>7 DEF Still, Accepted
    <2>2. QED
      BY <1>2, <1>6, <1>10, <2>1 DEF PilotInv, GrantInv, AcceptedTells, c
  <1>13. tip' \in Grants \cup {None} /\ tip' = tip /\ uncertain' \subseteq Grants
    BY <1>2 DEF PilotInv, TypeOK
  <1>14. state'.cycles = state.cycles /\ ClosedStep
    BY <1>7 DEF Still, ClosedStep
  <1>15. PilotInv'
    BY <1>6, <1>8, <1>9, <1>11, <1>12, <1>13, <1>14, InvKeeps
  <1>16. Promise!Intend(a)
    BY <1>2, <1>3 DEF Promise!Intend, Promise!Become
  <1>17. PromiseStep /\ HoldStep
    BY <1>2, <1>6, <1>16 DEF PromiseStep, HoldStep, Promise!GrantNext, Promise!GrantStep
  <1>18. QED
    BY <1>14, <1>15, <1>17 DEF GoodStep

LEMMA MoveGood ==
  ASSUME PilotInv, NEW p \in Processes, MoveRef(p)
  PROVE  GoodStep
  <1>1. PICK a \in Grants : a = Subject(p)
    BY Facts DEF JobTells, MoveRef, At, Subject, PilotSteps
  <1>2. /\ lifecycle[a] = "INTEGRATING" /\ ~state.hold /\ tip = None /\ tip' = a /\ Goto(p, "moved")
        /\ UNCHANGED <<state, clones, commits, reported, ledger, lifecycle, uncertain>>
    BY <1>1 DEF MoveRef, StillIntegrating
  <1>3. \A b \in Grants : b # None
    BY Facts
  <1>4. LedgerMoves /\ LifecyclesMove
    BY <1>2, LedgerKept, Facts DEF LifecyclesMove, Used
  <1>5. /\ CycleInv' /\ Still(state, state') /\ SameFiles(state, state')
    BY <1>2, StateKept DEF PilotInv
  <1>6. /\ WorkInv' /\ Gains /\ job' \in [Processes -> [step : Steps, subject : Subjects]]
        /\ \A q \in Processes : job'[q] = job[q] \/ JobTells(q)'
    <2>1. "moved" \in PilotSteps /\ "moved" \in Steps
      BY StepNames DEF PilotSteps
    <2>2. Moved(p, "moved", a)
      BY <1>1, <1>2, <2>1, Moves
    <2>3. JobTells(p)'
      BY <1>2, <2>2 DEF Moved, JobTells, Integrating
    <2>4. QED
      BY <1>2, <1>5, <2>1, <2>2, <2>3, PilotMoved
  <1>7. LiveTells' /\ DoubtHolds'
    BY <1>2 DEF PilotInv, GrantInv, LiveTells, DoubtHolds
  <1>8. ClosedTells'
    BY <1>2, <1>3 DEF PilotInv, GrantInv, ClosedTells
  <1>9. AcceptedTells'
    BY <1>2 DEF PilotInv, GrantInv, AcceptedTells, Accepted, Integrating
  <1>10. tip' \in Grants \cup {None} /\ uncertain' \subseteq Grants
    BY <1>2 DEF PilotInv, TypeOK
  <1>11. PilotInv'
    BY <1>2, <1>4, <1>5, <1>6, <1>7, <1>8, <1>9, <1>10, InvKeeps
  <1>12. Promise!Move(a)
    BY <1>2 DEF Promise!Move
  <1>13. QED
    BY <1>2, <1>11, <1>12
    DEF GoodStep, PromiseStep, HoldStep, ClosedStep, Promise!GrantNext, Promise!GrantStep

\* The cycle is closed as integrated and its hold lowered: no candidate is without its
\* receipt then, and no other integration in doubt has its cycle open.
LEMMA CompleteGood ==
  ASSUME PilotInv, NEW p \in Processes, IntegrateComplete(p)
  PROVE  GoodStep
  <1>1. PICK a \in Grants : a = Subject(p)
    BY Facts DEF JobTells, IntegrateComplete, At, Subject, PilotSteps
  <1> DEFINE c == RequestOf[a]
  <1>2. /\ At(p, "moved") /\ lifecycle[a] = "INTEGRATING" /\ ~state.hold
        /\ lifecycle' = [lifecycle EXCEPT ![a] = "CONSUMED"]
        /\ UNCHANGED <<clones, commits, reported, ledger, tip, uncertain>>
        /\ ClosesIntegrated(c, IntentIndex(a))
        /\ Goto(p, "doubting") \/ End(p)
    BY <1>1 DEF IntegrateComplete, StillIntegrating, Goto, End, ClosesIntegrated, Entered
  <1>3. c \in Cycles /\ tip = a /\ ledger \in Seq(Grants)
    BY <1>1, <1>2, Facts DEF JobTells, At, Subject
  <1>4. FoundForRequest(a) /\ "CONSUMED" \in Promise!Status
    BY <1>2 DEF PilotInv, GrantInv, FirstIsUsed, Used, Promise!Status
  <1>5. /\ LedgerMoves /\ LifecyclesMove
        /\ \A b \in Grants : lifecycle'[b] = IF b = a THEN "CONSUMED" ELSE lifecycle[b]
    BY <1>2, <1>4, OneGrantMoves DEF Integrating
  <1>6. \A b \in Grants : Used(b) /\ RequestOf[b] = c => b = a
    BY <1>3, <1>4, FoundIsOne DEF PilotInv, GrantInv, FirstIsUsed
  <1>7. state.active = c /\ Accepted(c)
    BY <1>2 DEF PilotInv, GrantInv, LiveTells, AcceptedTells, Integrating
  <1> HIDE DEF c
  <1>8. state.finals[c] = None
    BY <1>3, <1>7 DEF PilotInv, CycleInv, ActiveTells, FinalsTell
  <1>9. /\ CycleInv' /\ SameFiles(state, state') /\ state'.intents = state.intents
        /\ Open(state)' = {} /\ state'.tasks = state.tasks /\ state'.active = None
        /\ state'.finals[c] # None /\ state'.finals[c].reason = "INTEGRATED" /\ Accepted(c)'
        /\ \A d \in Cycles \ {c} : /\ state'.cycles[d] = state.cycles[d]
                                   /\ state'.finals[d] = state.finals[d]
    BY <1>2, <1>3, <1>7, <1>8, IntegrationCloses DEF PilotInv
  <1>10. /\ WorkInv' /\ Gains /\ job' \in [Processes -> [step : Steps, subject : Subjects]]
         /\ \A q \in Processes : job'[q] = job[q] \/ JobTells(q)'
    <2>1. "doubting" \in PilotSteps /\ "doubting" \in Steps
      BY StepNames DEF PilotSteps
    <2>2. PICK step \in {"idle"} \cup PilotSteps, subject \in Subjects :
              Moved(p, step, subject) /\ JobTells(p)'
      <3>1. CASE Goto(p, "doubting")
        <4>1. Moved(p, "doubting", a)
          BY <1>1, <2>1, <3>1, Moves
        <4>2. JobTells(p)'
          BY <1>5, <4>1 DEF Moved, JobTells, Integrating
        <4>3. QED
          BY <2>1, <4>1, <4>2, SubjectNames
      <3>2. CASE End(p)
        BY <3>2, Moves, Untold, SubjectNames
      <3>3. QED
        BY <1>2, <3>1, <3>2
    <2>3. QED
      BY <1>2, <1>9, <2>2, PilotMoved
  <1>11. ASSUME NEW b \in Grants, Used(b), b # a PROVE RequestOf[b] \in Cycles \ {c}
    BY <1>6, <1>11, Facts
  <1>12. LiveTells'
    <2>1. \A b \in Grants : lifecycle[b] \in {"CLAIMED", "INTEGRATING"} => b = a
      BY <1>6, <1>7 DEF PilotInv, GrantInv, LiveTells, Used
    <2>2. QED
      BY <1>5, <2>1 DEF LiveTells
  <1>13. ClosedTells'
    <2>1. ASSUME NEW b \in Grants, b # a, lifecycle[b] \in {"CLOSED", "CONSUMED"}
          PROVE  state'.finals[RequestOf[b]] = state.finals[RequestOf[b]]
      BY <1>9, <1>11, <2>1 DEF Used
    <2>2. QED
      BY <1>2, <1>3, <1>5, <1>9, <2>1 DEF PilotInv, GrantInv, ClosedTells, c
  <1>14. AcceptedTells'
    <2>1. ASSUME NEW b \in Grants, b # a, lifecycle[b] \in Integrating
          PROVE  Accepted(RequestOf[b])'
      <3>1. RequestOf[b] \in Cycles \ {c}
        BY <1>11, <2>1 DEF Used, Integrating
      <3>2. QED
        BY <1>9, <2>1, <3>1 DEF PilotInv, GrantInv, AcceptedTells, Accepted
    <2>2. QED
      BY <1>2, <1>3, <1>5, <1>9, <2>1 DEF AcceptedTells, Integrating, c
  <1>15. DoubtHolds'
    <2> SUFFICES ASSUME NEW b \in Grants, lifecycle'[b] = "RECONCILIATION_REQUIRED",
                        state'.finals[RequestOf[b]] = None
                 PROVE  FALSE
      BY DEF DoubtHolds
    <2>1. b # a /\ lifecycle[b] = "RECONCILIATION_REQUIRED"
      BY <1>5
    <2>2. RequestOf[b] \in Cycles \ {c} /\ Accepted(RequestOf[b])
      BY <1>11, <2>1 DEF Used, PilotInv, GrantInv, AcceptedTells, Integrating
    <2>3. state.finals[RequestOf[b]] = None
      BY <1>9, <2>2
    <2>4. state.active = RequestOf[b]
      BY <2>2, <2>3, WaitingFacts DEF PilotInv
    <2>5. QED
      BY <1>7, <2>2, <2>4
  <1>16. tip' \in Grants \cup {None} /\ tip' = tip /\ uncertain' \subseteq Grants
    BY <1>2 DEF PilotInv, TypeOK
  <1>17. \A d \in Cycles : state'.cycles[d] # None => state.cycles[d] # None
    BY <1>7, <1>9 DEF Accepted
  <1>18. PilotInv'
    BY <1>5, <1>9, <1>10, <1>12, <1>13, <1>14, <1>15, <1>16, <1>17, InvKeeps
  <1>19. Promise!Consume(a)
    BY <1>2, <1>3 DEF Promise!Consume, Promise!Become
  <1>20. PromiseStep /\ HoldStep /\ ClosedStep
    BY <1>2, <1>8, <1>9, <1>19
    DEF PromiseStep, HoldStep, ClosedStep, Promise!GrantNext, Promise!GrantStep
  <1>21. QED
    BY <1>18, <1>20 DEF GoodStep

\* The uncertainty is entered and the hold raised.
LEMMA ReconciledEffect ==
  ASSUME state \in State, NEW a \in Grants, RequestOf[a] \in Cycles, state' = Reconciled(a)
  PROVE  /\ Still(state, state') /\ SameFiles(state, state')
         /\ state'.intents = state.intents /\ state'.hold
  <1> DEFINE entry == [cycle |-> RequestOf[a], status |-> "INTEGRATION_RECONCILIATION_REQUIRED"]
             outcomes == IF \E i \in DOMAIN state.outcomes : state.outcomes[i].cycle = RequestOf[a]
                         THEN state.outcomes ELSE Append(state.outcomes, entry)
             marked == Marked(state.integrations, IntentIndex(a), "RECONCILIATION_REQUIRED")
  <1>1. DOMAIN state = Fields /\ state.outcomes \in Seq(Outcome)
    BY StateFields, LedgerTypes
  <1>2. entry \in Outcome
    BY DEF Outcome
  <1>3. marked \in Seq(Integration)
    BY MarkedIntegrations
  <1>4. state' = [state EXCEPT !.hold = TRUE, !.integrations = marked, !.outcomes = outcomes]
    BY DEF Reconciled, Marked
  <1> HIDE DEF entry, marked
  <1>5. outcomes \in Seq(Outcome)
    BY <1>1, <1>2
  <1> HIDE DEF outcomes
  <1>6. state' \in State
    BY <1>3, <1>4, <1>5, ZenonT(60) DEF State, Integration, Outcome
  <1>7. Still(state, state')
    BY <1>1, <1>4, <1>6 DEF Fields, Still
  <1>8. QED
    BY <1>1, <1>4, <1>7 DEF Fields, SameFiles

LEMMA ReconcileGood ==
  ASSUME PilotInv, NEW p \in Processes, Reconcile(p)
  PROVE  GoodStep
  <1>1. PICK a \in Grants : a = Subject(p)
    BY Facts DEF JobTells, Reconcile, At, Subject, PilotSteps
  <1>2. /\ lifecycle[a] \in Integrating
        /\ lifecycle' = [lifecycle EXCEPT ![a] = "RECONCILIATION_REQUIRED"]
        /\ UNCHANGED <<clones, commits, reported, ledger, tip>> /\ uncertain' = uncertain \cup {a}
        /\ End(p) /\ state' = Reconciled(a)
    BY <1>1, Facts DEF Reconcile, Subject, At, JobTells
  <1>3. FoundForRequest(a) /\ "RECONCILIATION_REQUIRED" \in Promise!Status
    BY <1>2 DEF PilotInv, GrantInv, FirstIsUsed, Used, Integrating, Promise!Status
  <1>4. /\ LedgerMoves /\ LifecyclesMove
        /\ \A b \in Grants :
             lifecycle'[b] = IF b = a THEN "RECONCILIATION_REQUIRED" ELSE lifecycle[b]
    BY <1>2, <1>3, OneGrantMoves DEF Integrating
  <1>5. /\ Still(state, state') /\ SameFiles(state, state')
        /\ state'.intents = state.intents /\ state'.hold
    BY <1>2, Facts, ReconciledEffect
  <1>6. CycleInv'
    <2>1. Checkpointed(state)' = Checkpointed(state)
      BY <1>5 DEF SameFiles, Checkpointed
    <2>2. QED
      BY <1>5, <2>1, StillKeeps DEF PilotInv
  <1>7. /\ WorkInv' /\ Gains /\ job' \in [Processes -> [step : Steps, subject : Subjects]]
        /\ \A q \in Processes : job'[q] = job[q] \/ JobTells(q)'
    <2>1. Moved(p, "idle", None) /\ state.tasks \subseteq state'.tasks
      BY <1>2, <1>5, Moves DEF Still
    <2>2. QED
      BY <1>2, <1>5, <2>1, Untold, PilotMoved
  <1>8. LiveTells' /\ ClosedTells' /\ DoubtHolds'
    BY <1>2, <1>4, <1>5 DEF PilotInv, GrantInv, Still, LiveTells, ClosedTells, DoubtHolds
  <1>9. AcceptedTells'
    <2>1. \A d : Accepted(d)' <=> Accepted(d)
      BY <1>5 DEF Still, Accepted
    <2>2. QED
      BY <1>2, <1>4, <2>1 DEF PilotInv, GrantInv, AcceptedTells, Integrating
  <1>10. tip' \in Grants \cup {None} /\ tip' = tip /\ uncertain' \subseteq Grants
    BY <1>2 DEF PilotInv, TypeOK
  <1>11. state'.cycles = state.cycles /\ ClosedStep
    BY <1>5 DEF Still, ClosedStep
  <1>12. PilotInv'
    BY <1>4, <1>6, <1>7, <1>8, <1>9, <1>10, <1>11, InvKeeps
  <1>13. PromiseStep
    <2>1. CASE lifecycle[a] = "RECONCILIATION_REQUIRED"
      <3>1. lifecycle' = lifecycle
        BY <1>2, <2>1, Facts
      <3>2. QED
        BY <1>2, <3>1 DEF PromiseStep
    <2>2. CASE lifecycle[a] \in {"INTEGRATING", "CONSUMED"}
      <3>1. Promise!Doubt(a)
        BY <1>2, <2>2 DEF Promise!Doubt, Promise!Become
      <3>2. QED
        BY <3>1 DEF PromiseStep, Promise!GrantNext, Promise!GrantStep
    <2>3. QED
      BY <1>2, <2>1, <2>2 DEF Integrating
  <1>14. HoldStep
    BY <1>2, <1>4 DEF HoldStep
  <1>15. QED
    BY <1>11, <1>12, <1>13, <1>14 DEF GoodStep

-----------------------------------------------------------------------------
(* The theorems                                                              *)

LEMMA PilotInvInit == Init => PilotInv
  <1> SUFFICES ASSUME Init PROVE PilotInv
    OBVIOUS
  <1>1. PICK mode \in Modes : state = InitialState(mode)
    BY DEF Init
  <1>2. /\ CycleInv /\ state \in State /\ Checkpointed(state) = {}
        /\ state.workspaces = {} /\ state.intents = <<>> /\ state.checkpoints = <<>>
        /\ \A c \in Cycles : state.cycles[c] = None /\ state.finals[c] = None
    BY <1>1, InitialFacts
  <1>3. /\ ledger = <<>> /\ tip = None /\ uncertain = {}
        /\ \A a \in Grants : lifecycle[a] = "NONE"
        /\ lifecycle \in [Grants -> Promise!Status]
        /\ clones = {} /\ commits = {} /\ reported = {}
        /\ job = [q \in Processes |-> Idle]
    BY DEF Init, NoWork, Promise!Status
  <1>4. TypeOK
    <2>1. Idle \in [step : Steps, subject : Subjects]
      BY DEF Idle, Steps, Subjects
    <2>2. job \in [Processes -> [step : Steps, subject : Subjects]]
      BY <1>3, <2>1
    <2>3. IsInjective(ledger) /\ Range(ledger) \subseteq Grants
      BY <1>3 DEF IsInjective, Range
    <2>4. QED
      BY <1>2, <1>3, <2>2, <2>3 DEF TypeOK, Promise!Status, Steps, Subjects
  <1>5. \A q \in Processes : job[q].step = "idle"
    BY <1>3 DEF Idle
  <1>6. WorkInv
    <2>1. (\A q \in Processes : CommandTells(q)) /\ SoleCommitter
      BY <1>5 DEF CommandTells, SoleCommitter, At, PrepareSteps, CheckpointSteps
    <2>2. ReceiptsTell /\ IntentsHold
      BY <1>2 DEF ReceiptsTell, IntentsHold, IsInjective
    <2>3. QED
      BY <2>1, <2>2 DEF WorkInv
  <1>7. GrantInv
    <2>1. \A q \in Processes : JobTells(q)
      BY <1>5 DEF JobTells, PilotSteps
    <2>2. LedgerTells /\ FirstIsUsed /\ LiveTells /\ ClosedTells /\ AcceptedTells /\ DoubtHolds
      BY <1>3 DEF LedgerTells, FirstIsUsed, Used, LiveTells, ClosedTells, AcceptedTells,
         Integrating, DoubtHolds
    <2>3. RunTells
      BY <1>2 DEF RunTells
    <2>4. QED
      BY <2>1, <2>2, <2>3 DEF GrantInv
  <1>8. QED
    BY <1>2, <1>3, <1>4, <1>6, <1>7 DEF PilotInv

LEMMA StutterGood ==
  ASSUME PilotInv, UNCHANGED vars
  PROVE  GoodStep
  <1>1. /\ UNCHANGED <<state, job, clones, commits, reported, ledger, lifecycle, tip, uncertain>>
    BY DEF vars, workVars, pilotVars
  <1>2. CycleInv' /\ Still(state, state') /\ SameFiles(state, state')
    BY <1>1, StateKept DEF PilotInv
  <1>3. state' = state /\ \A q \in Processes : job'[q] = job[q]
    BY <1>1
  <1>4. WorkInv'
    BY <1>1, <1>2, <1>3, Facts, WorkKept
  <1>5. Gains /\ job' \in [Processes -> [step : Steps, subject : Subjects]]
    BY <1>1, <1>2, Facts DEF Gains, WorkGains, SameFiles
  <1>6. uncertain' \subseteq Grants
    BY <1>1 DEF PilotInv, TypeOK
  <1>7. QED
    BY <1>1, <1>2, <1>3, <1>4, <1>5, <1>6, UntouchedGood

\* Every step keeps the invariant and is one that module PilotGrants allows.
LEMMA PilotInvStep ==
  ASSUME PilotInv, [Next]_vars
  PROVE  GoodStep
  <1>1. CASE Mutation(StartRole) \/ Mutation(Finish) \/ Mutation(Submit)
    BY <1>1, RoleGood
  <1>2. ASSUME NEW p \in Processes, NEW a \in Grants,
               IssueBegin(p, a) \/ AdmitBegin(p, a) \/ IntegrateBegin(p, a)
        PROVE  GoodStep
    BY <1>2, QuietActions
  <1>3. ASSUME NEW p \in Processes,
               (Work(p) \/ StartWork(p) \/ Crash(p)) /\ UNCHANGED pilotVars
        PROVE  GoodStep
    BY <1>3, WorkGood
  <1>4. ASSUME NEW p \in Processes,
               \/ IssueFails(p) \/ AdmitFails(p) \/ IntegrateIntentFails(p)
               \/ MoveRefFails(p) \/ IntegrateCompleteFails(p) \/ ReconcileSwallowed(p)
        PROVE  GoodStep
    <2>1. job[p].subject \in Grants
      BY <1>4, Facts DEF JobTells, IssueFails, AdmitFails, IntegrateIntentFails,
         MoveRefFails, IntegrateCompleteFails, ReconcileSwallowed, At, PilotSteps
    <2>2. QED
      BY <1>4, <2>1, QuietActions
  <1>5. ASSUME NEW p \in Processes, Proceed(p)
        PROVE  GoodStep
    BY <1>3, <1>4, <1>5, IssueGood, AdmitGood, IntentGood, MoveGood, CompleteGood, ReconcileGood
    DEF Proceed
  <1>6. CASE UNCHANGED vars
    BY <1>6, StutterGood
  <1>7. QED
    BY <1>1, <1>2, <1>3, <1>5, <1>6 DEF Next

\* Every reachable state of the pilot satisfies the invariant.
THEOREM PilotInvariant == Spec => []PilotInv
  <1>1. PilotInv /\ [Next]_vars => PilotInv'
    BY PilotInvStep DEF GoodStep
  <1>2. QED
    BY <1>1, PilotInvInit, PTL DEF Spec

\* Every variable of the pilot keeps its type; in particular no grant is in the ledger twice,
\* although a grant that is issued later is only looked up by its own identifier.
THEOREM PilotTypes == Spec => []TypeOK
  <1>1. PilotInv => TypeOK
    BY DEF PilotInv
  <1>2. QED
    BY <1>1, PilotInvariant, PTL

\* reconcile of integrateRealCandidate: an integration in doubt whose cycle is not closed keeps
\* its controller held, whatever checkpoint, role, late admission or other integration
\* goes on beside it.
THEOREM DoubtsHold == Spec => []DoubtHolds
  <1>1. PilotInv => DoubtHolds
    BY DEF PilotInv, GrantInv
  <1>2. QED
    BY <1>1, PilotInvariant, PTL

\* admitRealPilotRequest and integrateRealCandidate: whatever processes do side by side, where
\* they are killed and what is doubted, the grants of the ledger go through no step that the
\* promise does not have: used once, one at a time, and the target moved under an
\* integrating one only.
THEOREM PilotImplementsGrants == Spec => ImplementsGrants
  <1>1. Init => Promise!GrantInit
    BY DEF Init, Promise!GrantInit
  <1>2. PilotInv /\ [Next]_vars => [Promise!GrantNext]_(Promise!grantVars)
    BY PilotInvStep DEF GoodStep, PromiseStep, Promise!grantVars
  <1>3. QED
    BY <1>1, <1>2, PilotInvariant, PTL DEF Spec, ImplementsGrants, Promise!GrantSpec

\* admitRealPilotRequest: however many grants are issued for a request, and however the
\* processes race, one of them is used at most, and one grant is live at a time.
THEOREM PilotUsesGrantsOnce == Spec => []Promise!GrantsUsedOnce
  <1>1. PilotInv => Promise!GrantsUsedOnce
    <2> SUFFICES ASSUME PilotInv PROVE Promise!GrantsUsedOnce
      OBVIOUS
    <2>1. \A a, b \in Grants : Used(a) /\ Used(b) /\ RequestOf[a] = RequestOf[b] => a = b
      BY FoundIsOne DEF PilotInv, GrantInv, LedgerTells, FirstIsUsed
    <2>2. Promise!OneUsePerRequest
      BY <2>1 DEF Promise!OneUsePerRequest, Promise!Unused, Used
    <2>3. Promise!OneLiveGrant
      BY <2>1 DEF Promise!OneLiveGrant, Promise!Live, PilotInv, GrantInv, LiveTells, Used
    <2>4. QED
      BY <2>2, <2>3 DEF Promise!GrantsUsedOnce
  <1>2. QED
    BY <1>1, PilotInvariant, PTL

\* finalizeTerminalCycle and the final mutation: a grant's lifecycle and its cycle tell the
\* same story in every state of the pilot.
THEOREM GrantAndCycle == Spec => []GrantTellsCycle
  <1>1. PilotInv => GrantTellsCycle
    BY DEF PilotInv, GrantInv, LiveTells, ClosedTells, GrantTellsCycle
  <1>2. QED
    BY <1>1, PilotInvariant, PTL

\* requireStillIntegrating: the ref is not moved and no grant is consumed under a hold.
THEOREM HoldStops == Spec => HoldStopsIntegration
  <1>1. PilotInv /\ [Next]_vars =>
            [(tip' # tip \/ \E a \in Grants : lifecycle[a] # "CONSUMED" /\ lifecycle'[a] = "CONSUMED")
                => ~state.hold]_vars
    BY PilotInvStep DEF GoodStep, HoldStep
  <1>2. QED
    BY <1>1, PilotInvariant, PTL DEF Spec, HoldStopsIntegration

\* validateMachineStateV2 accepts every state of a pilot: what an admission that runs on
\* under a hold, a doubted integration or a crash leaves is no obstacle to later mutations.
THEOREM PilotStateValid == Spec => []ValidState
  <1>1. PilotInv => ValidState
    <2> SUFFICES ASSUME PilotInv PROVE ValidState
      OBVIOUS
    <2>1. \A c \in Cycles :
            state.active = c <=> state.cycles[c] # None /\ state.cycles[c].status \notin Terminal
      BY DEF PilotInv, CycleInv, ActiveTells
    <2>2. /\ state.pending # None => /\ state.pending \in state.tasks
                                     /\ \A res \in state.results : res.task # state.pending
          /\ \A res \in state.results : res.task \in state.tasks
          /\ \A r1, r2 \in state.results : r1.task = r2.task => r1 = r2
      BY DEF PilotInv, CycleInv, PendingTells, ResultsTell
    <2>3. state.workspaces \subseteq state.tasks
      BY DEF PilotInv, WorkInv, ReceiptsTell
    <2>4. \A c \in Cycles : \A i, j \in DOMAIN state.reviews[c] :
            i # j => state.reviews[c][i].iteration # state.reviews[c][j].iteration
      BY DEF PilotInv, CycleInv, ReviewsTell
    <2>5. QED
      BY <2>1, <2>2, <2>3, <2>4 DEF ValidState
  <1>2. QED
    BY <1>1, PilotInvariant, PTL

\* requireApprovalEvidence and the compare-and-swap: the candidate that the target branch
\* holds is the one that the architect accepted, of the cycle's last iteration, reviewed and
\* passed, in time, and each candidate of its cycle was committed and has its receipt.
THEOREM TargetOnMerit ==
  Spec => [](tip # None =>
      LET c == RequestOf[tip]
      IN  /\ state.cycles[c] # None /\ state.cycles[c].decision = "ACCEPT" /\ MayAccept(c)
          /\ LatestReview(c).reviewed = state.cycles[c].candidate
          /\ LatestReview(c).iteration = state.cycles[c].iteration
          /\ state.spent[c] <= CycleLimit
          /\ \A task \in state.tasks :
               task.cycle = c /\ task.purpose = "BUILDER_IMPLEMENTATION" =>
                   task \in Checkpointed(state) \cap commits)
  <1> DEFINE Merit(c) ==
          /\ state.cycles[c] # None /\ state.cycles[c].decision = "ACCEPT" /\ MayAccept(c)
          /\ LatestReview(c).reviewed = state.cycles[c].candidate
          /\ LatestReview(c).iteration = state.cycles[c].iteration
          /\ state.spent[c] <= CycleLimit
          /\ \A task \in state.tasks :
               task.cycle = c /\ task.purpose = "BUILDER_IMPLEMENTATION" =>
                   task \in Checkpointed(state) \cap commits
  <1>1. PilotInv => (tip # None => Merit(RequestOf[tip]))
    <2> SUFFICES ASSUME PilotInv, tip # None PROVE Merit(RequestOf[tip])
      OBVIOUS
    <2>1. PICK c \in Cycles : c = RequestOf[tip] /\ Accepted(c)
      BY Facts DEF PilotInv, TypeOK, GrantInv, AcceptedTells
    <2>2. Checkpointed(state) \subseteq commits
      BY DEF PilotInv, WorkInv, ReceiptsTell
    <2>3. Merit(c)
      BY <2>1, <2>2 DEF PilotInv, CycleInv, AcceptTells, Accepted, Builder
    <2>4. QED
      BY <2>1, <2>3
  <1>2. QED
    BY <1>1, PilotInvariant, PTL

\* checkpointTask beside the pilot: however the checkpoints race, crash and are retried, a
\* candidate has one receipt, of a commit in a workspace that was cloned and registered, and
\* an intent whose candidate has none keeps the controller held.
THEOREM PilotReceipts ==
  Spec => [](/\ IsInjective(state.checkpoints)
             /\ Checkpointed(state) \subseteq commits \cap clones \cap state.workspaces
             /\ \A i \in DOMAIN state.intents :
                  state.intents[i].task \notin Checkpointed(state) => state.hold)
  <1>1. PilotInv => /\ IsInjective(state.checkpoints)
                    /\ Checkpointed(state) \subseteq commits \cap clones \cap state.workspaces
                    /\ \A i \in DOMAIN state.intents :
                         state.intents[i].task \notin Checkpointed(state) => state.hold
    BY DEF PilotInv, WorkInv, ReceiptsTell, IntentsHold
  <1>2. QED
    BY <1>1, PilotInvariant, PTL

\* finalizeTerminalCycle: no step of the pilot changes a closed cycle or its final summary,
\* not the late final mutation of an integration either.
THEOREM PilotClosedStays ==
  Spec => [][\A c \in Cycles : state.finals[c] # None =>
               state'.finals[c] = state.finals[c] /\ state'.cycles[c] = state.cycles[c]]_vars
  <1>1. PilotInv /\ [Next]_vars =>
          [\A c \in Cycles : state.finals[c] # None =>
             state'.finals[c] = state.finals[c] /\ state'.cycles[c] = state.cycles[c]]_vars
    BY PilotInvStep DEF GoodStep, ClosedStep
  <1>2. QED
    BY <1>1, PilotInvariant, PTL DEF Spec

=============================================================================
