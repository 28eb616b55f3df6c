------------------------ MODULE OfflineAutopilot_proofs ------------------------
(***************************************************************************)
(* The offline autopilot, for any number of cycles and iterations: its four files  *)
(* never contradict each other, whichever write failed, and the run commits and      *)
(* takes no candidate whose execution was not confined.                           *)
(***************************************************************************)
EXTENDS OfflineAutopilot, RoleCycle_proofs

-----------------------------------------------------------------------------
(* The invariant                                                             *)

Types ==
    /\ job \in [Processes -> [step : WorkSteps, subject : WorkSubjects]]
    /\ clones \subseteq Task /\ commits \subseteq Task /\ reported \subseteq Task
    /\ run \in Run
    /\ journal \in Journal \cup {None}
    /\ summary \in (SUBSET Task) \cup {None}
    /\ phase \in Phases

\* How far a task is: its result is on file, or it is pending and its role's clock has
\* stopped, was stopped in time, or was started.
Served(task) == \E res \in state.results : res.task = task

Settled(task) == state.pending = task => state.timing.status \in {"COMPLETED", "INTERRUPTED"}

Finished(task) == state.pending = task => state.timing.status = "COMPLETED"

Started(task) == state.pending = task => state.timing.status # "NONE"

\* The state of an offline run: every task is pending or served, and a cycle awaits its
\* integration only once it was accepted.
StateTells ==
    /\ CycleInv /\ ~General
    /\ \A task \in state.tasks : task = state.pending \/ Served(task)
    /\ \A c \in Cycles : state.cycles[c] # None /\ state.cycles[c].status = "REVIEW" =>
         state.cycles[c].decision = "ACCEPT"

\* What a record of the journal says of the state, and of the candidate.
RecordTells(e) ==
    /\ e.task \in state.tasks
    /\ Builder(e.task) /\ e.status \in {"RESULT_CAPTURED", "EXECUTION_FINISHED", "SUBMITTED"} =>
         e.confined
    /\ e.status = "SUBMITTED" =>
         \E res \in state.results : res.task = e.task /\ res.verdict = e.verdict
    /\ e.status = "EXECUTION_FINISHED" => Finished(e.task)
    /\ e.status = "ABORTED" => Settled(e.task)

RecordsTell == \A e \in Range(Executions) : RecordTells(e)

Opening == {"fresh", "opening", "enqueueing"}

\* Steps of an execution that has its record in the journal.
Recording == RoleSteps \ {"bound"}

Serving == {"loop", "preparing"} \cup RoleSteps

Replying == {"answered", "captured", "finished", "submitting", "submitted"}

\* What the run knows of the role it executes, in all of its steps,
TaskTells ==
    /\ run.at \in RoleSteps \cup {"preparing"} =>
         /\ run.task \in state.tasks
         /\ run.timed => Finished(run.task)
    /\ run.at \in Recording => Executions # <<>> /\ Current.task = run.task
    /\ run.at \in Recording \ {"begun"} => Started(run.task)

\* and in some of them.
StepTells ==
    /\ run.at \in {"confined", "committing", "validating"} => Current.confined
    /\ run.at \in Replying => run.answer \in Result /\ (Builder(run.task) => Current.confined)
    /\ run.at \in Replying \ {"answered"} => Current.verdict = run.answer.verdict
    /\ In("finished") => run.timed
    /\ In("submitted") =>
         \E res \in state.results : res.task = run.task /\ res.verdict = run.answer.verdict
    /\ In("aborting") => Settled(run.task)

RoleTells == TaskTells /\ StepTells

\* The run's process is at work on the run's task only.
WorkTells ==
    ~At(Runner, "idle") =>
        /\ Subject(Runner) = run.task
        /\ \/ In("preparing") /\ job[Runner].step \in PrepareSteps
           \/ In("committing") /\ job[Runner].step \in CheckpointSteps

Ready == journal # None /\ journal.status = "READY_FOR_INTEGRATION"

Listed == {e.task : e \in {x \in Range(Executions) : x.status = "SUBMITTED"}}

\* When the journal and the summary are there, and what they say, by the step of the run.
FilesTell ==
    /\ run.at \in {"fresh", "opening"} => journal = None
    /\ In("enqueueing") => Executions = <<>>
    /\ run.at \in {"enqueueing", "summarized", "ready", "failing"} \cup Serving => journal # None
    /\ In("summarized") => AwaitsIntegration /\ summary = Listed
    /\ In("ready") => Ready
    /\ In("projecting") /\ Executions # <<>> => journal.status = "FAILED"
    /\ Ready =>
         /\ run.at \in {"ready", "failing", "returned", "thrown", "dead"}
         /\ AwaitsIntegration /\ summary = Listed
         /\ \A e \in Range(Executions) : e.status = "SUBMITTED"
    /\ phase = "READY_FOR_INTEGRATION" => Ready
    /\ phase = "FAILED" => In("thrown") /\ (Executions # <<>> => journal.status = "FAILED")

RunInv == Types /\ StateTells /\ RecordsTell /\ RoleTells /\ WorkTells /\ FilesTell

\* The whole of it, with what the processes' commands rely on.
OfflineInv == RunInv /\ WorkInv

-----------------------------------------------------------------------------
(* What a step does to the state                                              *)

\* Tasks and results stay, a task that is not pending does not become so again, and the
\* clock of a role goes forward.
StateGoesOn ==
    /\ state.tasks \subseteq state'.tasks /\ state.results \subseteq state'.results
    /\ \A task \in state.tasks :
         state'.pending = task => UNCHANGED <<state.pending, state.timing>> \/ Waits

LEMMA RoleStateKeeps ==
  ASSUME StateTells, CycleInv', RoleStep
  PROVE  StateTells' /\ StateGoesOn
  <1>1. ~General'
    BY DEF StateTells, General, RoleStep, Elsewhere
  <1>2. /\ state.results \subseteq state'.results /\ state.tasks \subseteq state'.tasks
        /\ \A task \in state'.tasks : task \in state.tasks \/ task = state'.pending
        /\ \/ state.pending = None \/ Waits
           \/ \E res \in state'.results : res.task = state.pending
    BY DEF StateTells, RoleStep, Serves, Replied
  <1>3. \A task \in state.tasks : task # None
    BY TypeFacts, NoTaskAssumption DEF StateTells, CycleInv
  <1>4. \A task \in state.tasks : Waits \/ Served(task)'
    BY <1>2, <1>3 DEF StateTells, Served
  <1>5. \A task \in state'.tasks : task = state'.pending \/ Served(task)'
    BY <1>2, <1>4 DEF StateTells, Served, Waits
  <1>6. \A task \in state.tasks : state'.pending = task => Waits
    BY <1>3, <1>4 DEF CycleInv, PendingTells, Served
  <1>7. \A c \in Cycles : state'.cycles[c] # None /\ state'.cycles[c].status = "REVIEW" =>
          state'.cycles[c].decision = "ACCEPT"
    BY DEF StateTells, RoleStep
  <1>8. QED
    BY <1>1, <1>2, <1>5, <1>6, <1>7 DEF StateTells, StateGoesOn

\* Steps that move no cycle.
LEMMA StillStateKeeps ==
  ASSUME StateTells, CycleInv', Still(state, state')
  PROVE  StateTells' /\ StateGoesOn
  BY DEF StateTells, StateGoesOn, Still, Served, General

LEMMA SameStateKeeps ==
  ASSUME StateTells, UNCHANGED state
  PROVE  StateTells' /\ StateGoesOn
  BY StateKept, StillStateKeeps DEF StateTells

\* What was known of a task is known after the step.
LEMMA TaskKnown ==
  ASSUME StateGoesOn, NEW task \in state.tasks
  PROVE  /\ task \in state'.tasks
         /\ Started(task) => Started(task)'
         /\ Settled(task) => Settled(task)'
         /\ Finished(task) => Finished(task)'
  BY DEF StateGoesOn, Waits, Started, Settled, Finished

LEMMA RecordKnown ==
  ASSUME StateGoesOn, NEW e, RecordTells(e)
  PROVE  RecordTells(e)'
  BY TaskKnown DEF RecordTells, StateGoesOn

-----------------------------------------------------------------------------
(* The journal                                                               *)

\* The last element of a sequence is replaced.
LEMMA ReplacedFacts ==
  ASSUME NEW S, NEW seq \in Seq(S), seq # <<>>, NEW e \in S
  PROVE  LET new == Front(seq) \o <<e>>
         IN  /\ new \in Seq(S) /\ new # <<>> /\ Last(new) = e /\ e \in Range(new)
             /\ Last(seq) \in S /\ Last(seq) \in Range(seq)
             /\ \A x \in Range(new) : x = e \/ x \in Range(seq)
             /\ \A x \in Range(seq) : x = Last(seq) \/ x \in Range(new)
  <1> DEFINE n == Len(seq)
             new == Front(seq) \o <<e>>
  <1>1. n \in Nat \ {0} /\ DOMAIN seq = 1 .. n /\ \A i \in 1 .. n : seq[i] \in S
    OBVIOUS
  <1> DEFINE front == Front(seq)
  <1>2. /\ front \in Seq(S) /\ Len(front) = n - 1
        /\ \A i \in 1 .. (n - 1) : front[i] = seq[i]
    BY <1>1, SubSeqProperties DEF Front
  <1> HIDE DEF front
  <1> DEFINE one == <<e>>
  <1>3. one \in Seq(S) /\ Len(one) = 1 /\ one[1] = e
    OBVIOUS
  <1>4. new = front \o one
    BY DEF front
  <1> HIDE DEF new, one
  <1>5. /\ new \in Seq(S) /\ Len(new) = Len(front) + Len(one)
        /\ \A i \in 1 .. Len(front) + Len(one) :
             new[i] = IF i <= Len(front) THEN front[i] ELSE one[i - Len(front)]
    BY <1>2, <1>3, <1>4, ConcatProperties
  <1>6. new \in Seq(S) /\ Len(new) = n /\ DOMAIN new = 1 .. n
    BY <1>1, <1>2, <1>3, <1>5
  <1>7. new[n] = e /\ \A i \in 1 .. n : i # n => new[i] = seq[i]
    <2>1. Len(front) + Len(one) = n /\ ~(n <= Len(front)) /\ n - Len(front) = 1
      BY <1>1, <1>2, <1>3
    <2>2. new[n] = one[1]
      BY <1>1, <1>5, <2>1
    <2>3. ASSUME NEW i \in 1 .. n, i # n PROVE new[i] = seq[i]
      <3>1. i \in 1 .. (n - 1) /\ i <= n - 1
        <4> HIDE DEF n
        <4>1. n \in Nat
          BY <1>1
        <4>2. QED
          BY <2>3, <4>1
      <3>2. Len(front) = n - 1
        BY <1>2
      <3>3. QED
        BY <1>2, <1>5, <2>1, <3>1, <3>2
    <2>4. QED
      BY <1>3, <2>2, <2>3
  <1>8. Last(new) = e /\ Last(seq) = seq[n]
    BY <1>6, <1>7 DEF Last
  <1>9. \A x \in Range(new) : x = e \/ x \in Range(seq)
    BY <1>1, <1>6, <1>7 DEF Range
  <1>10. \A x \in Range(seq) : x = Last(seq) \/ x \in Range(new)
    BY <1>1, <1>6, <1>7, <1>8 DEF Range
  <1>11. e \in Range(new) /\ Last(seq) \in Range(seq)
    <2>1. n \in DOMAIN new /\ n \in DOMAIN seq
      BY <1>1, <1>6
    <2>2. new[n] \in Range(new) /\ seq[n] \in Range(seq)
      BY <2>1 DEF Range
    <2>3. QED
      BY <1>7, <1>8, <2>2
  <1>12. new # <<>> /\ Last(seq) \in S
    BY <1>1, <1>6, <1>8
  <1>13. QED
    BY <1>6, <1>8, <1>9, <1>10, <1>11, <1>12 DEF new

LEMMA AppendedFacts ==
  ASSUME NEW S, NEW seq \in Seq(S), NEW e \in S
  PROVE  LET new == Append(seq, e)
         IN  /\ new \in Seq(S) /\ new # <<>> /\ Last(new) = e
             /\ \A x \in Range(new) : x = e \/ x \in Range(seq)
             /\ \A x \in Range(seq) : x \in Range(new)
  <1> DEFINE n == Len(seq)
             new == Append(seq, e)
  <1>1. n \in Nat /\ DOMAIN seq = 1 .. n
    OBVIOUS
  <1>2. new \in Seq(S) /\ Len(new) = n + 1 /\ DOMAIN new = 1 .. (n + 1)
    OBVIOUS
  <1>3. new[n + 1] = e /\ \A i \in 1 .. n : new[i] = seq[i]
    OBVIOUS
  <1> HIDE DEF new
  <1>4. new # <<>> /\ Last(new) = e
    BY <1>1, <1>2, <1>3 DEF Last
  <1>5. \A x \in Range(new) : x = e \/ x \in Range(seq)
    BY <1>1, <1>2, <1>3 DEF Range
  <1>6. \A x \in Range(seq) : x \in Range(new)
    BY <1>1, <1>2, <1>3 DEF Range
  <1>7. QED
    BY <1>2, <1>4, <1>5, <1>6 DEF new

LEMMA JournalFacts ==
  ASSUME journal \in Journal \cup {None}, Executions # <<>>
  PROVE  /\ journal # None /\ journal \in Journal /\ Executions = journal.executions
         /\ Executions \in Seq(Record) /\ Current \in Record /\ Current \in Range(Executions)
  <1>1. journal # None
    BY DEF Executions
  <1>2. journal.executions \in Seq(Record) /\ journal.executions # <<>>
    BY <1>1 DEF Executions, Journal
  <1>3. PICK r \in Record : TRUE
    BY <1>2
  <1>4. Last(journal.executions) \in Record /\ Last(journal.executions) \in Range(journal.executions)
    BY <1>2, <1>3, ReplacedFacts
  <1>5. QED
    BY <1>1, <1>2, <1>4 DEF Executions, Current

LEMMA JournalShape ==
  ASSUME NEW entry \in Journal, NEW executions \in Seq(Record)
  PROVE  LET new == [entry EXCEPT !.executions = executions]
         IN  new \in Journal /\ new.executions = executions /\ new.status = entry.status
  BY DEF Journal

\* The run's current record is replaced by what it has become.
LEMMA WithCurrentFacts ==
  ASSUME journal \in Journal \cup {None}, Executions # <<>>,
         NEW record \in Record, journal' = WithCurrent(record)
  PROVE  /\ journal' \in Journal /\ journal' # None /\ journal'.status = journal.status
         /\ Executions' # <<>> /\ Current' = record
         /\ record \in Range(Executions')
         /\ \A e \in Range(Executions') : e = record \/ e \in Range(Executions)
         /\ \A e \in Range(Executions) : e = Current \/ e \in Range(Executions')
  <1> DEFINE new == Front(Executions) \o <<record>>
  <1>1. /\ journal \in Journal /\ Executions = journal.executions
        /\ Executions \in Seq(Record)
    BY JournalFacts
  <1>2. /\ new \in Seq(Record) /\ new # <<>> /\ Last(new) = record /\ record \in Range(new)
        /\ \A e \in Range(new) : e = record \/ e \in Range(Executions)
        /\ \A e \in Range(Executions) : e = Last(Executions) \/ e \in Range(new)
    BY <1>1, ReplacedFacts
  <1>3. journal' = [journal EXCEPT !.executions = new]
    BY <1>1 DEF WithCurrent
  <1> HIDE DEF new
  <1>4. journal' \in Journal /\ journal'.executions = new /\ journal'.status = journal.status
    BY <1>1, <1>2, <1>3, JournalShape
  <1>5. journal' # None
    BY <1>4, NoJournalAssumption
  <1>6. Executions' = new /\ Current' = Last(new) /\ Current = Last(Executions)
    BY <1>1, <1>4, <1>5 DEF Executions, Current
  <1>7. QED
    BY <1>2, <1>4, <1>5, <1>6

\* A record is added for the run's role.
LEMMA WithNewFacts ==
  ASSUME journal \in Journal, NEW record \in Record,
         journal' = [journal EXCEPT !.executions = Append(@, record)]
  PROVE  /\ journal' \in Journal /\ journal' # None /\ journal'.status = journal.status
         /\ Executions' # <<>> /\ Current' = record
         /\ \A e \in Range(Executions') : e = record \/ e \in Range(Executions)
         /\ \A e \in Range(Executions) : e \in Range(Executions')
  <1> DEFINE new == Append(Executions, record)
  <1>1. journal # None /\ Executions = journal.executions /\ Executions \in Seq(Record)
    BY NoJournalAssumption DEF Executions, Journal
  <1>2. /\ new \in Seq(Record) /\ new # <<>> /\ Last(new) = record
        /\ \A e \in Range(new) : e = record \/ e \in Range(Executions)
        /\ \A e \in Range(Executions) : e \in Range(new)
    BY <1>1, AppendedFacts
  <1>3. journal' = [journal EXCEPT !.executions = new]
    BY <1>1
  <1> HIDE DEF new
  <1>4. journal' \in Journal /\ journal'.executions = new /\ journal'.status = journal.status
    <2>1. new \in Seq(Record)
      BY <1>2
    <2> DEFINE next == [journal EXCEPT !.executions = new]
    <2>2. next \in Journal /\ next.executions = new /\ next.status = journal.status
      BY <2>1, JournalShape
    <2> HIDE DEF next
    <2>3. journal' = next
      BY <1>3 DEF next
    <2>4. QED
      BY <2>2, <2>3
  <1>5. journal' # None
    BY <1>4, NoJournalAssumption
  <1>6. Executions' = new /\ Current' = Last(new)
    BY <1>4, <1>5 DEF Executions, Current
  <1>7. QED
    BY <1>2, <1>4, <1>5, <1>6

-----------------------------------------------------------------------------
(* The steps, by what they do to the run and its files                          *)

LEMMA MoveFacts ==
  ASSUME run \in Run, NEW step \in CoreSteps \cup RoleSteps, Move(step)
  PROVE  /\ run' \in Run /\ run'.at = step
         /\ step \notin {"failing", "projecting", "thrown", "dead", "loop"} =>
              /\ run'.task = run.task /\ run'.answer = run.answer /\ run'.timed = run.timed
  BY DEF Move, Run

LEMMA InvFacts ==
  ASSUME RunInv
  PROVE  /\ run \in Run /\ run.at \in CoreSteps \cup RoleSteps /\ run.task \in Task \cup {None}
         /\ run.answer \in Result \cup {None} /\ run.timed \in BOOLEAN
         /\ journal \in Journal \cup {None} /\ phase \in Phases /\ StateTells /\ state \in State
         /\ state.tasks \subseteq Task
  <1>1. state.tasks \subseteq Task /\ state \in State
    BY TypeFacts DEF RunInv, StateTells, CycleInv
  <1>2. QED
    BY <1>1 DEF RunInv, Types, Run

\* Types of what a step of the run's process leaves.
WorkTypes ==
    /\ job \in [Processes -> [step : WorkSteps, subject : WorkSubjects]]
    /\ clones \subseteq Task /\ commits \subseteq Task /\ reported \subseteq Task

LEMMA RecordsKept ==
  ASSUME RecordsTell, StateGoesOn, Range(Executions') \subseteq Range(Executions)
  PROVE  RecordsTell'
  BY RecordKnown DEF RecordsTell

\* The run's own record becomes this one.
Records(record) ==
    /\ run.at \in Recording /\ journal' = WithCurrent(record)
    /\ record \in Record /\ record.task = run.task /\ RecordTells(record)'

LEMMA RecordsKeep ==
  ASSUME RunInv, StateGoesOn, NEW record, Records(record)
  PROVE  /\ journal' \in Journal /\ journal'.status = journal.status
         /\ Executions' # <<>> /\ Current' = record
         /\ RecordsTell'
  <1>1. /\ Executions # <<>> /\ Current.task = run.task
        /\ journal \in Journal \cup {None} /\ record \in Record
    BY DEF RunInv, RoleTells, TaskTells, Types, Records
  <1>2. /\ journal' \in Journal /\ journal' # None /\ journal'.status = journal.status
        /\ Executions' # <<>> /\ Current' = record /\ record \in Range(Executions')
        /\ \A e \in Range(Executions') : e = record \/ e \in Range(Executions)
        /\ \A e \in Range(Executions) : e = Current \/ e \in Range(Executions')
    BY <1>1, WithCurrentFacts DEF Records
  <1>3. RecordsTell'
    BY <1>2, RecordKnown DEF RunInv, RecordsTell, Records
  <1>4. QED
    BY <1>2, <1>3

\* While the run serves, neither the journal nor the projection is final.
LEMMA ServingFacts ==
  ASSUME RunInv, run.at \in Serving
  PROVE  /\ journal # None /\ journal \in Journal /\ ~Ready
         /\ phase \in Phases \ {"READY_FOR_INTEGRATION", "FAILED"}
  BY DEF RunInv, FilesTell, Types, Serving, RoleSteps, In

\* A step within the loop.
Within == run.at \in Serving /\ run' \in Run /\ run'.at \in Serving \cup {"failing"}

LEMMA FilesKept ==
  ASSUME RunInv, Within, journal' \in Journal, journal'.status = journal.status,
         phase' \in Phases \ {"READY_FOR_INTEGRATION", "FAILED"}
  PROVE  FilesTell'
  <1>1. /\ journal # None /\ ~Ready
    BY ServingFacts DEF Within
  <1>2. ~Ready' /\ journal' # None
    BY <1>1, NoJournalAssumption DEF Ready
  <1>3. run'.at \notin Opening \cup {"summarized", "ready", "projecting"}
    BY DEF Within, Serving, RoleSteps, Opening
  <1>4. QED
    BY <1>2, <1>3 DEF FilesTell, In, Opening

\* A step of a role, whatever part of it.
LEMMA ServingKeeps ==
  ASSUME RunInv, Within, StateTells', StateGoesOn, RoleTells', WorkTells', WorkTypes',
         UNCHANGED journal \/ \E record : Records(record),
         UNCHANGED summary, phase' \in Phases \ {"READY_FOR_INTEGRATION", "FAILED"}
  PROVE  RunInv'
  <1>1. journal # None /\ journal \in Journal
    BY ServingFacts DEF Within
  <1>2. journal' \in Journal /\ journal'.status = journal.status /\ RecordsTell'
    <2>1. CASE UNCHANGED journal
      <3>1. Executions' = Executions
        BY <2>1 DEF Executions
      <3>2. RecordsTell'
        BY <3>1, RecordsKept DEF RunInv
      <3>3. QED
        BY <1>1, <2>1, <3>2
    <2>2. CASE \E record : Records(record)
      BY <2>2, RecordsKeep
    <2>3. QED
      BY <2>1, <2>2
  <1>3. Types'
    BY <1>2 DEF RunInv, Types, WorkTypes, Within
  <1>4. FilesTell'
    BY <1>2, FilesKept
  <1>5. QED
    BY <1>2, <1>3, <1>4 DEF RunInv

\* Outside the roles nothing is known of a role.
LEMMA NoRole ==
  ASSUME run'.at \notin RoleSteps \cup {"preparing"}
  PROVE  RoleTells'
  BY DEF RoleTells, TaskTells, StepTells, Recording, RoleSteps, Replying, In

\* Steps of a role of which no more is known than of all.
LEMMA PlainStep ==
  ASSUME run'.at \in {"starting", "executing", "catching"}
  PROVE  StepTells'
  BY DEF StepTells, Replying, In

LEMMA RoleKnown ==
  ASSUME RunInv, run.at \in RoleSteps \cup {"preparing"}, StateGoesOn,
         NEW task, task = run.task
  PROVE  /\ task \in state.tasks /\ task \in state'.tasks
         /\ run.timed => Finished(task) /\ Finished(task)'
         /\ Started(task) => Started(task)'
         /\ Settled(task) => Settled(task)'
  <1>1. task \in state.tasks /\ (run.timed => Finished(task))
    BY DEF RunInv, RoleTells, TaskTells
  <1>2. QED
    BY <1>1, TaskKnown

LEMMA RecordingFacts ==
  ASSUME RunInv, run.at \in Recording
  PROVE  /\ Executions # <<>> /\ Current.task = run.task /\ Current \in Record
         /\ journal # None /\ journal \in Journal
         /\ run.task \in state.tasks /\ run.task \in Task
         /\ run.at # "begun" => Started(run.task)
  <1>1. Executions # <<>> /\ journal \in Journal \cup {None}
    BY DEF RunInv, RoleTells, TaskTells, Types
  <1>2. journal # None /\ journal \in Journal /\ Current \in Record
    BY <1>1, JournalFacts
  <1>3. run.task \in state.tasks
    BY DEF RunInv, RoleTells, TaskTells, Recording
  <1>4. run.task \in Task
    BY <1>3, InvFacts
  <1>5. QED
    BY <1>1, <1>2, <1>3, <1>4 DEF RunInv, RoleTells, TaskTells

LEMMA RunnerIdle ==
  ASSUME RunInv, run.at \notin {"preparing", "committing"}, UNCHANGED workVars
  PROVE  At(Runner, "idle") /\ At(Runner, "idle")' /\ WorkTypes' /\ WorkTells'
  <1>1. At(Runner, "idle")
    BY DEF RunInv, WorkTells, In
  <1>2. At(Runner, "idle")' /\ WorkTypes'
    BY <1>1 DEF At, workVars, WorkTypes, RunInv, Types
  <1>3. QED
    BY <1>1, <1>2 DEF WorkTells

\* A step of an execution, but for those of the checkpoint.
LEMMA RecordingKeeps ==
  ASSUME RunInv, run.at \in Recording \ {"committing"}, run' \in Run,
         StateTells', StateGoesOn, UNCHANGED <<workVars, summary>>,
         UNCHANGED journal \/ \E record : Records(record),
         phase' \in Phases \ {"READY_FOR_INTEGRATION", "FAILED"},
         \/ run'.at \in {"loop", "failing"}
         \/ /\ run'.at \in Recording \ {"begun"} /\ run'.task = run.task
            /\ run'.timed => run.timed \/ Finished(run.task)'
            /\ run.at = "begun" => Started(run.task)'
            /\ StepTells'
  PROVE  RunInv'
  <1>1. Within
    BY DEF Within, Serving, Recording, RoleSteps
  <1>2. WorkTypes' /\ WorkTells'
    <2>1. run.at \notin {"preparing", "committing"} /\ UNCHANGED workVars
      BY DEF Recording, RoleSteps
    <2>2. QED
      BY <2>1, RunnerIdle
  <1>3. RoleTells'
    <2>1. CASE run'.at \in {"loop", "failing"}
      BY <2>1, NoRole DEF RoleSteps
    <2>2. CASE /\ run'.at \in Recording \ {"begun"} /\ run'.task = run.task
               /\ run'.timed => run.timed \/ Finished(run.task)'
               /\ run.at = "begun" => Started(run.task)'
               /\ StepTells'
      <3>1. /\ Executions # <<>> /\ Current.task = run.task
            /\ run.at # "begun" => Started(run.task)
        BY RecordingFacts
      <3>2. Executions' # <<>> /\ Current'.task = run.task
        <4>1. CASE UNCHANGED journal
          BY <3>1, <4>1 DEF Executions, Current
        <4>2. CASE \E record : Records(record)
          BY <4>2, RecordsKeep DEF Records
        <4>3. QED
          BY <4>1, <4>2
      <3>3. PICK task : task = run.task
        OBVIOUS
      <3>4. /\ task \in state'.tasks /\ (run.timed => Finished(task)')
            /\ Started(task) => Started(task)'
        BY <3>3, RoleKnown DEF Recording
      <3>5. Started(task)' /\ (run'.timed => Finished(task)')
        BY <2>2, <3>1, <3>3, <3>4 DEF Started, Finished
      <3>6. TaskTells'
        BY <2>2, <3>2, <3>3, <3>4, <3>5 DEF TaskTells, Started, Finished
      <3>7. QED
        BY <2>2, <3>6 DEF RoleTells
    <2>3. QED
      BY <2>1, <2>2
  <1>4. QED
    BY <1>1, <1>2, <1>3, ServingKeeps

LEMMA RecordingSteps == Recording \subseteq RoleSteps /\ RoleSteps \cap Ended = {}
  BY DEF Recording, RoleSteps, Ended

\* The run goes on, or to its catch block, with its record and the state as they are.
LEMMA MoveKeeps ==
  ASSUME RunInv, run.at \in Recording \ {"committing"},
         NEW next \in {"loop", "failing"} \cup (Recording \ {"begun"}), Move(next),
         StateTells', StateGoesOn, UNCHANGED <<workVars, summary>>,
         UNCHANGED journal \/ \E record : Records(record),
         phase' \in Phases \ {"READY_FOR_INTEGRATION", "FAILED"},
         next \in Recording => StepTells' /\ (run.at = "begun" => Started(run.task)')
  PROVE  RunInv'
  <1>1. next \in CoreSteps \cup RoleSteps
    BY DEF CoreSteps, Recording
  <1>2. /\ run' \in Run /\ run'.at = next
        /\ next \in Recording => run'.task = run.task /\ run'.timed = run.timed
    BY <1>1, MoveFacts, InvFacts DEF Recording, RoleSteps
  <1>3. QED
    BY <1>2, RecordingKeeps

\* A step that replaces the record and leaves the state alone.
LEMMA RecordKeeps ==
  ASSUME RunInv, run.at \in Recording \ {"begun", "committing"},
         NEW record \in Record, record.task = run.task, RecordTells(record),
         NEW next \in {"loop", "failing"} \cup (Recording \ {"begun"}),
         NEW onError \in {"catching", "failing"},
         WriteJournal(WithCurrent(record), next, onError),
         UNCHANGED <<state, workVars, summary, phase>>,
         Move(next) /\ Current' = record /\ next \in Recording => StepTells'
  PROVE  RunInv'
  <1>1. StateTells' /\ StateGoesOn
    BY InvFacts, SameStateKeeps
  <1>2. phase' \in Phases \ {"READY_FOR_INTEGRATION", "FAILED"}
    BY ServingFacts DEF Serving, Recording
  <1>3. RecordTells(record)'
    BY <1>1, RecordKnown
  <1>4. journal' = WithCurrent(record) => Records(record)
    BY <1>3 DEF Records
  <1>5. \/ Move(next) /\ Records(record)
        \/ Move(onError) /\ (UNCHANGED journal \/ Records(record))
    BY <1>4 DEF WriteJournal, Write
  <1>6. CASE Move(next) /\ Records(record)
    <2>1. next \in Recording => StepTells'
      BY <1>1, <1>6, RecordsKeep
    <2>2. QED
      BY <1>1, <1>2, <1>6, <2>1, MoveKeeps
  <1>7. CASE Move(onError) /\ (UNCHANGED journal \/ Records(record))
    <2>1. onError \in {"loop", "failing"} \cup (Recording \ {"begun"})
      BY DEF Recording, RoleSteps
    <2>2. run'.at = onError
      BY <1>7, <2>1, MoveFacts, InvFacts DEF CoreSteps, Recording
    <2>3. onError \in Recording => StepTells'
      BY <2>2, PlainStep DEF Recording, RoleSteps
    <2>4. QED
      BY <1>1, <1>2, <1>7, <2>1, <2>3, MoveKeeps
  <1>8. QED
    BY <1>5, <1>6, <1>7

\* The record as it is, with another status.
LEMMA StatusFacts ==
  ASSUME RunInv, run.at \in Recording, NEW status \in RecordStatuses
  PROVE  LET record == [Current EXCEPT !.status = status]
         IN  /\ record \in Record /\ record.task = run.task /\ record.status = status
             /\ record.confined = Current.confined /\ record.verdict = Current.verdict
  <1>1. Current \in Record /\ Current.task = run.task
    BY RecordingFacts
  <1>2. QED
    BY <1>1 DEF Record

-----------------------------------------------------------------------------
(* The actions of a role                                                      *)

\* Advance and Transition write one record.
LEMMA AdvanceFacts ==
  ASSUME RunInv, run.at \in Recording, NEW status \in RecordStatuses, NEW next, NEW onError,
         Advance(status, next, onError)
  PROVE  \E record \in Record :
           /\ record.task = run.task /\ record.status = status
           /\ record.confined = Current.confined /\ record.verdict = Current.verdict
           /\ WriteJournal(WithCurrent(record), next, onError)
  <1> DEFINE record == [Current EXCEPT !.status = status]
  <1>1. /\ record \in Record /\ record.task = run.task /\ record.status = status
        /\ record.confined = Current.confined /\ record.verdict = Current.verdict
    BY StatusFacts
  <1>2. WriteJournal(WithCurrent(record), next, onError)
    BY DEF Advance, Transition
  <1>3. QED
    BY <1>1, <1>2

LEMMA StartExecutingKeeps ==
  ASSUME RunInv, StartExecuting
  PROVE  RunInv'
  <1>1. /\ In("starting") /\ Advance("EXECUTING", "executing", "failing")
        /\ UNCHANGED <<state, workVars, summary, phase>>
    BY DEF StartExecuting
  <1>2. run.at \in Recording \ {"begun", "committing"} /\ "executing" \in Recording \ {"begun"}
    BY <1>1 DEF In, Recording, RoleSteps
  <1>3. PICK record \in Record :
          /\ record.task = run.task /\ record.status = "EXECUTING"
          /\ record.confined = Current.confined
          /\ WriteJournal(WithCurrent(record), "executing", "failing")
    BY <1>1, <1>2, AdvanceFacts DEF RecordStatuses
  <1>4. RecordTells(record)
    BY <1>2, <1>3, RecordingFacts DEF RecordTells
  <1>5. Move("executing") => StepTells'
    BY PlainStep, MoveFacts, InvFacts DEF RoleSteps
  <1>6. QED
    BY <1>1, <1>2, <1>3, <1>4, <1>5, RecordKeeps

LEMMA ExecuteConfinedKeeps ==
  ASSUME RunInv, ExecuteConfined
  PROVE  RunInv'
  <1>1. /\ In("confined") /\ Advance("EXECUTING", "committing", "catching")
        /\ UNCHANGED <<state, workVars, summary, phase>>
    BY DEF ExecuteConfined
  <1>2. run.at \in Recording \ {"begun", "committing"} /\ "committing" \in Recording \ {"begun"}
    BY <1>1 DEF In, Recording, RoleSteps
  <1>3. PICK record \in Record :
          /\ record.task = run.task /\ record.status = "EXECUTING"
          /\ record.confined = Current.confined
          /\ WriteJournal(WithCurrent(record), "committing", "catching")
    BY <1>1, <1>2, AdvanceFacts DEF RecordStatuses
  <1>4. RecordTells(record)
    BY <1>2, <1>3, RecordingFacts DEF RecordTells
  <1>5. Current.confined
    BY <1>1 DEF RunInv, RoleTells, StepTells, In
  <1>6. Move("committing") /\ Current' = record => StepTells'
    <2>1. SUFFICES ASSUME Move("committing"), Current' = record PROVE StepTells'
      OBVIOUS
    <2>2. run'.at = "committing"
      BY <2>1, MoveFacts, InvFacts DEF RoleSteps
    <2>3. QED
      BY <1>3, <1>5, <2>1, <2>2 DEF StepTells, In, Replying
  <1>7. QED
    BY <1>1, <1>2, <1>3, <1>4, <1>6, RecordKeeps

LEMMA VerifyConfinementKeeps ==
  ASSUME RunInv, VerifyConfinement
  PROVE  RunInv'
  <1> DEFINE record == Confinement
  <1>1. /\ In("executing") /\ UNCHANGED <<state, workVars, summary, phase>>
        /\ \/ /\ journal' = WithCurrent(Confinement)
              /\ \E v \in BOOLEAN : run' = [run EXCEPT !.at = "confined", !.valid = v]
           \/ journal' \in {journal, WithCurrent(Confinement)} /\ Move("catching")
    BY InvFacts DEF VerifyConfinement, Run
  <1>2. run.at \in Recording \ {"begun", "committing"}
    BY <1>1 DEF In, Recording, RoleSteps
  <1>3. record \in Record /\ record.task = run.task /\ record.confined
        /\ record.status = "CONFINEMENT_VERIFIED"
    <2>1. Current \in Record /\ Current.task = run.task
      BY <1>2, RecordingFacts
    <2>2. QED
      BY <2>1 DEF Confinement, Record, RecordStatuses
  <1>4. PICK new : new = record
    OBVIOUS
  <1>5. RecordTells(new)
    BY <1>2, <1>3, <1>4, RecordingFacts DEF RecordTells
  <1>6. /\ StateTells' /\ StateGoesOn
        /\ phase' \in Phases \ {"READY_FOR_INTEGRATION", "FAILED"}
    BY <1>1, <1>2, InvFacts, SameStateKeeps, ServingFacts DEF Serving, Recording
  <1>7. RecordTells(new)'
    BY <1>5, <1>6, RecordKnown
  <1>8. journal' = WithCurrent(Confinement) => Records(new)
    BY <1>2, <1>3, <1>4, <1>7 DEF Records
  <1>9. CASE journal' \in {journal, WithCurrent(Confinement)} /\ Move("catching")
    <2>1. run'.at = "catching" /\ "catching" \in Recording \ {"begun"}
      BY <1>9, MoveFacts, InvFacts DEF RoleSteps, Recording
    <2>2. StepTells'
      BY <2>1, PlainStep
    <2>3. UNCHANGED journal \/ Records(new)
      BY <1>8, <1>9
    <2>4. QED
      BY <1>1, <1>2, <1>6, <1>9, <2>1, <2>2, <2>3, MoveKeeps
  <1>10. CASE /\ journal' = WithCurrent(Confinement)
              /\ \E v \in BOOLEAN : run' = [run EXCEPT !.at = "confined", !.valid = v]
    <2>1. /\ run' \in Run /\ run'.at = "confined" /\ run'.task = run.task
          /\ run'.timed = run.timed
      BY <1>10, InvFacts DEF Run, RoleSteps
    <2>2. Records(new) /\ Current'.confined
      BY <1>3, <1>4, <1>6, <1>8, <1>10, RecordsKeep
    <2>3. StepTells'
      BY <2>1, <2>2 DEF StepTells, In, Replying
    <2>4. run'.at \in Recording \ {"begun"}
      BY <2>1 DEF Recording, RoleSteps
    <2>5. QED
      BY <1>1, <1>2, <1>6, <2>1, <2>2, <2>3, <2>4, RecordingKeeps
  <1>11. QED
    BY <1>1, <1>9, <1>10

LEMMA BoundFacts ==
  ASSUME RunInv, run.at \in Recording, NEW task, task = run.task
  PROVE  /\ task \in Task /\ task \in state.tasks /\ task \in {run.task}
         /\ run.at # "begun" => Started(task)
         /\ run.timed => Finished(task)
  BY RecordingFacts, InvFacts DEF RunInv, RoleTells, TaskTells, Recording

LEMMA StartBoundRoleKeeps ==
  ASSUME RunInv, StartBoundRole
  PROVE  RunInv'
  <1> DEFINE next == IF run.task.purpose = "BUILDER_IMPLEMENTATION" THEN "executing" ELSE "starting"
  <1>1. /\ In("begun") /\ UNCHANGED <<workVars, fileVars>>
        /\ \/ state.pending = run.task /\ WriteState(StartRole, next, "failing")
           \/ /\ state.pending = run.task /\ state.timing.status = "EXECUTING"
              /\ UNCHANGED state /\ Move(next)
           \/ UNCHANGED state /\ Move("failing")
    BY DEF StartBoundRole
  <1>2. run.at \in Recording \ {"committing"} /\ next \in {"starting", "executing"}
    BY <1>1 DEF In, Recording, RoleSteps
  <1>3. /\ next \in Recording \ {"begun"} /\ next \in RoleSteps /\ "failing" \in CoreSteps
        /\ "failing" \notin Recording
    BY <1>2 DEF Recording, RoleSteps, CoreSteps
  <1> HIDE DEF next
  <1>4. phase' \in Phases \ {"READY_FOR_INTEGRATION", "FAILED"} /\ UNCHANGED <<journal, summary>>
    BY <1>1, <1>2, ServingFacts DEF Serving, Recording, fileVars
  <1>5. /\ (StartRole \/ UNCHANGED state)
        /\ \/ Move("failing")
           \/ Move(next) /\ state.pending = run.task
                /\ (StartRole \/ (UNCHANGED state /\ state.timing.status = "EXECUTING"))
    BY <1>1 DEF WriteState, Write
  <1>6. StateTells' /\ StateGoesOn
    BY <1>5, InvFacts, TimingKeeps, RoleStateKeeps, SameStateKeeps DEF StateTells
  <1>7. CASE Move("failing")
    BY <1>1, <1>2, <1>3, <1>4, <1>6, <1>7, MoveKeeps
  <1>8. CASE /\ Move(next) /\ state.pending = run.task
             /\ StartRole \/ (UNCHANGED state /\ state.timing.status = "EXECUTING")
    <2>1. run'.at = next /\ run'.task = run.task
      BY <1>2, <1>3, <1>8, MoveFacts, InvFacts
    <2>2. StepTells'
      BY <1>2, <2>1, PlainStep
    <2>3. state'.timing.status = "EXECUTING"
      <3>1. CASE StartRole
        <4>1. DOMAIN state = Fields /\ state.timing \in Timing
          BY InvFacts, StateFields DEF State
        <4>2. state' = [state EXCEPT !.timing.status = "EXECUTING"]
          BY <3>1 DEF StartRole
        <4>3. QED
          BY <4>1, <4>2 DEF Fields, Timing
      <3>2. QED
        BY <1>8, <3>1
    <2>4. Started(run.task)'
      BY <2>3 DEF Started
    <2>5. QED
      BY <1>1, <1>2, <1>3, <1>4, <1>6, <1>8, <2>2, <2>4, MoveKeeps
  <1>9. QED
    BY <1>5, <1>7, <1>8

\* What the transport answers is a result.
LEMMA AnswerFacts ==
  ASSUME run \in Run, NEW task \in Task
  PROVE  Answer(task) \in Result /\ Answer(task).evidence \in {"PASS", "FAIL"}
  <1>1. task.iteration \in Commits /\ task.purpose \in Purposes
    BY IterationAssumption DEF Task, Commits
  <1>2. {"PLANNED", "BUILT", "PASS", "REVISE", "ACCEPT"} \subseteq AllVerdicts
    BY DEF AllVerdicts, Verdicts, Purposes
  <1>3. Answer(task).verdict \in {"PLANNED", "BUILT", "PASS", "REVISE", "ACCEPT"}
    BY <1>1 DEF Answer, Purposes
  <1>4. Answer(task).evidence \in {"PASS", "FAIL"} /\ Answer(task).subject = task.iteration
    BY DEF Answer
  <1>5. Answer(task) = [verdict |-> Answer(task).verdict, evidence |-> Answer(task).evidence,
                        subject |-> Answer(task).subject]
    BY DEF Answer
  <1>6. QED
    BY <1>1, <1>2, <1>3, <1>4, <1>5 DEF Result

LEMMA AnswersKeeps ==
  ASSUME RunInv, run.at \in Recording \ {"begun", "committing"}, Answers,
         Builder(run.task) => Current.confined,
         UNCHANGED <<state, workVars, journal, summary>>,
         phase' \in Phases \ {"READY_FOR_INTEGRATION", "FAILED"}
  PROVE  RunInv'
  <1>1. run.task \in Task
    BY RecordingFacts
  <1>2. Answer(run.task) \in Result /\ run \in Run
    BY <1>1, InvFacts, AnswerFacts
  <1>3. /\ run' \in Run /\ run'.at = "answered" /\ run'.task = run.task
        /\ run'.timed = run.timed /\ run'.answer \in Result
    BY <1>2 DEF Answers, Run, RoleSteps
  <1>4. StepTells' /\ run'.at \in Recording \ {"begun"}
    <2>1. Current' = Current /\ (Builder(run'.task) => Current'.confined)
      BY <1>3 DEF Current
    <2>2. QED
      BY <1>3, <2>1 DEF StepTells, In, Replying, Recording, RoleSteps
  <1>5. StateTells' /\ StateGoesOn
    BY InvFacts, SameStateKeeps
  <1>6. QED
    BY <1>3, <1>4, <1>5, RecordingKeeps

LEMMA CatchingKeeps ==
  ASSUME RunInv, run.at \in Recording \ {"begun", "committing"}, Move("catching"),
         StateTells', StateGoesOn, UNCHANGED <<workVars, journal, summary>>,
         phase' \in Phases \ {"READY_FOR_INTEGRATION", "FAILED"}
  PROVE  RunInv'
  <1>1. "catching" \in Recording \ {"begun"} /\ "catching" \in RoleSteps
    BY DEF Recording, RoleSteps
  <1>2. run'.at = "catching"
    BY <1>1, MoveFacts, InvFacts
  <1>3. StepTells'
    BY <1>2, PlainStep
  <1>4. QED
    BY <1>1, <1>3, MoveKeeps

LEMMA AnsweringKeeps ==
  ASSUME RunInv, Execute \/ Validate
  PROVE  RunInv'
  <1>1. StateTells' /\ StateGoesOn /\ UNCHANGED <<state, workVars, journal, summary>>
    BY InvFacts, SameStateKeeps DEF Execute, Validate, fileVars
  <1>2. run.at \in Recording \ {"begun", "committing"}
    BY DEF Execute, Validate, In, Recording, RoleSteps
  <1>3. phase \in Phases \ {"READY_FOR_INTEGRATION", "FAILED"}
    BY <1>2, ServingFacts DEF Serving, Recording
  <1>4. phase' \in Phases \ {"READY_FOR_INTEGRATION", "FAILED"}
    BY <1>3 DEF Execute, Validate, fileVars, Phases
  <1>5. Answers \/ Move("catching")
    BY DEF Execute, Validate
  <1>6. Builder(run.task) => Current.confined
    BY DEF Execute, Validate, Builder, RunInv, RoleTells, StepTells, In
  <1>7. QED
    BY <1>1, <1>2, <1>4, <1>5, <1>6, AnswersKeeps, CatchingKeeps

\* A result that is accepted is on file, whatever it says.
LEMMA SubmittedResult ==
  ASSUME state \in State, NEW task \in Task, NEW r \in Result, SubmitResult(task, r)
  PROVE  \E res \in state'.results : res.task = task /\ res.verdict = r.verdict
  <1> DEFINE filed == Recorded(task, r)
             c == task.cycle
             Filed(s) == DOMAIN s = Fields /\ s.results = filed.results
  <1>1. /\ DOMAIN filed = Fields
        /\ \E res \in filed.results : res.task = task /\ res.verdict = r.verdict
    <2> DEFINE res == [task |-> task, verdict |-> r.verdict, active |-> state.timing.active]
    <2>1. filed \in State /\ filed.results = state.results \cup {res}
      BY RecordedEffect
    <2>2. DOMAIN filed = Fields
      BY <2>1, StateFields
    <2>3. res \in filed.results /\ res.task = task /\ res.verdict = r.verdict
      BY <2>1
    <2>4. QED
      BY <2>2, <2>3
  <1> HIDE DEF filed
  <1>2. Filed(filed)
    BY <1>1
  <1>3. \A s, cycle, purpose : Filed(s) => Filed(Issue(s, c, cycle, purpose))
    BY DEF Issue, Fields
  <1>4. \A s, cycle, status, stage, reason, hold :
          Filed(s) => Filed(FinalizeTerminalCycle(s, c, cycle, status, stage, reason, hold))
    BY DEF FinalizeTerminalCycle, Fields
  <1>5. \A plans : Filed([filed EXCEPT !.plans[c] = plans])
    BY <1>2 DEF Fields
  <1>6. \A iterations : Filed([filed EXCEPT !.iterations = iterations])
    BY <1>2 DEF Fields
  <1>7. \A iterations, reviews :
          Filed([filed EXCEPT !.iterations = iterations, !.reviews[c] = reviews])
    BY <1>2 DEF Fields
  <1>8. \A s, hold : Filed(s) => Filed([s EXCEPT !.hold = hold])
    BY DEF Fields
  <1>9. \A cycle : Filed([filed EXCEPT !.cycles[c] = cycle])
    BY <1>2 DEF Fields
  <1> HIDE DEF Filed
  <1>10. ASSUME SubmitBlocked(task, r) PROVE Filed(state')
    BY <1>2, <1>4, <1>10 DEF SubmitBlocked, filed
  <1>11. ASSUME SubmitPlan(task, r) \/ SubmitRevision(task, r) PROVE Filed(state')
    BY <1>3, <1>5, <1>11 DEF SubmitPlan, SubmitRevision, filed
  <1>12. ASSUME SubmitBuild(task, r) PROVE Filed(state')
    BY <1>3, <1>6, <1>12 DEF SubmitBuild, filed
  <1>13. ASSUME SubmitReview(task, r) PROVE Filed(state')
    <2> DEFINE review == [iteration |-> task.iteration, reviewed |-> r.subject,
                          verdict |-> r.verdict, evidence |-> r.evidence]
               Of(record) == (filed.iterations \ {record}) \cup {[record EXCEPT !.verdict = r.verdict]}
               Reviewed(record) ==
                 [filed EXCEPT !.iterations = Of(record), !.reviews[c] = Append(@, review)]
               Held(record) == [Reviewed(record) EXCEPT !.hold = @ \/ r.verdict # "PASS"]
    <2>1. PICK record : \E cycle, purpose :
            \/ state' = Issue(Reviewed(record), c, cycle, purpose)
            \/ state' = Issue(Held(record), c, cycle, purpose)
      BY <1>13 DEF SubmitReview, filed
    <2>2. Filed(Reviewed(record))
      BY <1>7
    <2>3. Filed(Held(record))
      BY <1>8, <2>2
    <2> HIDE DEF Reviewed, Held
    <2>4. QED
      BY <1>3, <2>1, <2>2, <2>3
  <1>14. ASSUME SubmitDecision(task, r) PROVE Filed(state')
    BY <1>2, <1>4, <1>9, <1>14 DEF SubmitDecision, filed
  <1>15. Filed(state')
    BY <1>10, <1>11, <1>12, <1>13, <1>14 DEF SubmitResult
  <1>16. QED
    BY <1>1, <1>15 DEF Filed

\* The clock of the pending task's role is stopped.
LEMMA TimedFacts ==
  ASSUME state \in State, NEW status, NEW ms, state' = Timed(status, ms)
  PROVE  state'.timing.status = status /\ state'.pending = state.pending
  <1>1. DOMAIN state = Fields
    BY StateFields
  <1>2. QED
    BY <1>1 DEF Timed, Fields

LEMMA CaptureResultKeeps ==
  ASSUME RunInv, CaptureResult
  PROVE  RunInv'
  <1> DEFINE record == [Current EXCEPT !.status = "RESULT_CAPTURED", !.verdict = run.answer.verdict]
  <1>1. /\ In("answered") /\ UNCHANGED <<state, workVars, summary, phase>>
        /\ WriteJournal(WithCurrent(record), "captured", "catching")
    BY DEF CaptureResult, Transition
  <1>2. run.at \in Recording \ {"begun", "committing"} /\ "captured" \in Recording \ {"begun"}
    BY <1>1 DEF In, Recording, RoleSteps
  <1>3. run.answer \in Result /\ (Builder(run.task) => Current.confined)
    BY <1>1 DEF RunInv, RoleTells, StepTells, In, Replying
  <1>4. Current \in Record /\ Current.task = run.task
    BY <1>2, RecordingFacts
  <1>5. /\ record \in Record /\ record.task = run.task /\ record.status = "RESULT_CAPTURED"
        /\ record.confined = Current.confined /\ record.verdict = run.answer.verdict
    BY <1>3, <1>4 DEF Record, RecordStatuses, Result
  <1>6. PICK new : new = record
    OBVIOUS
  <1> HIDE DEF record
  <1>7. RecordTells(new)
    BY <1>2, <1>3, <1>5, <1>6, RecordingFacts DEF RecordTells
  <1>8. Move("captured") /\ Current' = new => StepTells'
    <2>1. SUFFICES ASSUME Move("captured"), Current' = new PROVE StepTells'
      OBVIOUS
    <2>2. run'.at = "captured" /\ run'.answer = run.answer /\ run'.task = run.task
      BY <2>1, MoveFacts, InvFacts DEF RoleSteps
    <2>3. QED
      BY <1>3, <1>5, <1>6, <2>1, <2>2 DEF StepTells, In, Replying
  <1>9. QED
    BY <1>1, <1>2, <1>5, <1>6, <1>7, <1>8, RecordKeeps

LEMMA FinishBoundRoleKeeps ==
  ASSUME RunInv, FinishBoundRole
  PROVE  RunInv'
  <1>1. /\ In("captured") /\ UNCHANGED <<workVars, fileVars>>
        /\ \/ /\ state.pending = run.task /\ \E ms \in Durations : FinishRole(ms)
              /\ run' = [run EXCEPT !.at = "finished", !.timed = TRUE] \/ Move("catching")
           \/ UNCHANGED state /\ Move("catching")
    BY DEF FinishBoundRole
  <1>2. run.at \in Recording \ {"begun", "committing"}
    BY <1>1 DEF In, Recording, RoleSteps
  <1>3. /\ UNCHANGED <<workVars, journal, summary>>
        /\ phase' \in Phases \ {"READY_FOR_INTEGRATION", "FAILED"}
    BY <1>1, <1>2, ServingFacts DEF fileVars, Serving, Recording
  <1>4. (\E ms \in Durations : FinishRole(ms)) \/ UNCHANGED state
    BY <1>1
  <1>5. StateTells' /\ StateGoesOn
    BY <1>4, InvFacts, TimingKeeps, RoleStateKeeps, SameStateKeeps DEF StateTells
  <1>6. CASE Move("catching")
    BY <1>2, <1>3, <1>5, <1>6, CatchingKeeps
  <1>7. CASE /\ \E ms \in Durations : FinishRole(ms)
             /\ run' = [run EXCEPT !.at = "finished", !.timed = TRUE]
    <2>1. /\ run' \in Run /\ run'.at = "finished" /\ run'.task = run.task
          /\ run'.timed /\ run'.answer = run.answer
      BY <1>7, InvFacts DEF Run, RoleSteps
    <2>2. state'.timing.status = "COMPLETED"
      BY <1>7, TimedFacts, InvFacts DEF FinishRole
    <2>3. Finished(run.task)'
      BY <2>2 DEF Finished
    <2>4. /\ run.answer \in Result /\ Current.verdict = run.answer.verdict
          /\ Builder(run.task) => Current.confined
      BY <1>1 DEF RunInv, RoleTells, StepTells, In, Replying
    <2>5. Current' = Current
      BY <1>3 DEF Current
    <2>6. StepTells'
      BY <2>1, <2>4, <2>5 DEF StepTells, In, Replying
    <2>7. run'.at \in Recording \ {"begun"} /\ run.at # "begun"
      BY <1>2, <2>1 DEF Recording, RoleSteps
    <2>8. QED
      BY <1>2, <1>3, <1>5, <2>1, <2>3, <2>6, <2>7, RecordingKeeps
  <1>8. QED
    BY <1>1, <1>6, <1>7

LEMMA RecordFinishedKeeps ==
  ASSUME RunInv, RecordFinished
  PROVE  RunInv'
  <1>1. /\ In("finished") /\ Advance("EXECUTION_FINISHED", "submitting", "catching")
        /\ UNCHANGED <<state, workVars, summary, phase>>
    BY DEF RecordFinished
  <1>2. run.at \in Recording \ {"begun", "committing"} /\ "submitting" \in Recording \ {"begun"}
    BY <1>1 DEF In, Recording, RoleSteps
  <1>3. PICK record \in Record :
          /\ record.task = run.task /\ record.status = "EXECUTION_FINISHED"
          /\ record.confined = Current.confined /\ record.verdict = Current.verdict
          /\ WriteJournal(WithCurrent(record), "submitting", "catching")
    BY <1>1, <1>2, AdvanceFacts DEF RecordStatuses
  <1>4. /\ run.timed /\ run.answer \in Result /\ Current.verdict = run.answer.verdict
        /\ Builder(run.task) => Current.confined
    BY <1>1 DEF RunInv, RoleTells, StepTells, In, Replying
  <1>5. RecordTells(record)
    BY <1>2, <1>3, <1>4, BoundFacts DEF RecordTells
  <1>6. Move("submitting") /\ Current' = record => StepTells'
    <2>1. SUFFICES ASSUME Move("submitting"), Current' = record PROVE StepTells'
      OBVIOUS
    <2>2. run'.at = "submitting" /\ run'.answer = run.answer /\ run'.task = run.task
      BY <2>1, MoveFacts, InvFacts DEF RoleSteps
    <2>3. QED
      BY <1>3, <1>4, <2>1, <2>2 DEF StepTells, In, Replying
  <1>7. QED
    BY <1>1, <1>2, <1>3, <1>5, <1>6, RecordKeeps

LEMMA SubmitBoundKeeps ==
  ASSUME RunInv, SubmitBound
  PROVE  RunInv'
  <1>1. /\ In("submitting") /\ UNCHANGED <<workVars, fileVars>>
        /\ \/ SubmitResult(run.task, run.answer) /\ (Move("submitted") \/ Move("catching"))
           \/ UNCHANGED state /\ Move("catching")
           \/ /\ \E res \in state.results : res.task = run.task /\ res.verdict = run.answer.verdict
              /\ UNCHANGED state /\ Move("submitted")
    BY DEF SubmitBound, WriteState, Write
  <1>2. run.at \in Recording \ {"begun", "committing"}
    BY <1>1 DEF In, Recording, RoleSteps
  <1>3. /\ UNCHANGED <<workVars, journal, summary>>
        /\ phase' \in Phases \ {"READY_FOR_INTEGRATION", "FAILED"}
    BY <1>1, <1>2, ServingFacts DEF fileVars, Serving, Recording
  <1>4. /\ run.answer \in Result /\ Current.verdict = run.answer.verdict
        /\ run.task \in Task /\ (Builder(run.task) => Current.confined)
    BY <1>1, <1>2, RecordingFacts DEF RunInv, RoleTells, StepTells, In, Replying
  <1>5. PICK task \in Task, answer \in Result : task = run.task /\ answer = run.answer
    BY <1>4
  <1>6. SubmitResult(task, answer) \/ UNCHANGED state
    BY <1>1, <1>5
  <1>7. StateTells' /\ StateGoesOn
    BY <1>6, InvFacts, SubmitKeeps, RoleStateKeeps, SameStateKeeps DEF StateTells
  <1>8. CASE Move("catching")
    BY <1>2, <1>3, <1>7, <1>8, CatchingKeeps
  <1>9. CASE /\ Move("submitted")
             /\ \/ SubmitResult(task, answer)
                \/ /\ \E res \in state.results : res.task = task /\ res.verdict = answer.verdict
                   /\ UNCHANGED state
    <2>1. /\ "submitted" \in Recording \ {"begun"} /\ "submitted" \in RoleSteps
          /\ run.at # "begun"
      BY <1>2 DEF Recording, RoleSteps
    <2>2. run'.at = "submitted" /\ run'.answer = answer /\ run'.task = task
      BY <1>5, <1>9, <2>1, MoveFacts, InvFacts
    <2>3. \E res \in state'.results : res.task = task /\ res.verdict = answer.verdict
      BY <1>9, SubmittedResult, InvFacts
    <2>4. Current' = Current
      BY <1>3 DEF Current
    <2>5. StepTells'
      BY <1>4, <1>5, <2>2, <2>3, <2>4 DEF StepTells, In, Replying
    <2>6. QED
      BY <1>2, <1>3, <1>7, <1>9, <2>1, <2>5, MoveKeeps
  <1>10. QED
    BY <1>1, <1>5, <1>8, <1>9

LEMMA RecordSubmittedKeeps ==
  ASSUME RunInv, RecordSubmitted
  PROVE  RunInv'
  <1>1. /\ In("submitted") /\ Advance("SUBMITTED", "loop", "catching")
        /\ UNCHANGED <<state, workVars, summary, phase>>
    BY DEF RecordSubmitted
  <1>2. run.at \in Recording \ {"begun", "committing"} /\ "loop" \notin Recording
    BY <1>1 DEF In, Recording, RoleSteps
  <1>3. PICK record \in Record :
          /\ record.task = run.task /\ record.status = "SUBMITTED"
          /\ record.confined = Current.confined /\ record.verdict = Current.verdict
          /\ WriteJournal(WithCurrent(record), "loop", "catching")
    BY <1>1, <1>2, AdvanceFacts DEF RecordStatuses
  <1>4. /\ Current.verdict = run.answer.verdict /\ (Builder(run.task) => Current.confined)
        /\ \E res \in state.results : res.task = run.task /\ res.verdict = run.answer.verdict
    BY <1>1 DEF RunInv, RoleTells, StepTells, In, Replying
  <1>5. RecordTells(record)
    BY <1>2, <1>3, <1>4, RecordingFacts DEF RecordTells
  <1>6. QED
    BY <1>1, <1>2, <1>3, <1>5, RecordKeeps

LEMMA CatchInterruptKeeps ==
  ASSUME RunInv, CatchInterrupt
  PROVE  RunInv'
  <1>1. /\ In("catching") /\ UNCHANGED <<workVars, fileVars>>
        /\ \/ /\ \E ms \in Durations : InterruptRole(ms)
              /\ Move("aborting") \/ Move("failing")
           \/ UNCHANGED state /\ Move("failing")
           \/ /\ run.timed \/ state.pending # run.task \/ state.timing.status # "EXECUTING"
              /\ UNCHANGED state /\ Move("aborting")
    BY DEF CatchInterrupt, WriteState, Write
  <1>2. run.at \in Recording \ {"begun", "committing"}
    BY <1>1 DEF In, Recording, RoleSteps
  <1>3. /\ UNCHANGED <<workVars, journal, summary>>
        /\ phase' \in Phases \ {"READY_FOR_INTEGRATION", "FAILED"}
    BY <1>1, <1>2, ServingFacts DEF fileVars, Serving, Recording
  <1>4. StateTells' /\ StateGoesOn
    BY <1>1, InvFacts, TimingKeeps, RoleStateKeeps, SameStateKeeps DEF StateTells
  <1>5. /\ {"aborting", "failing"} \subseteq {"failing"} \cup (Recording \ {"begun"})
        /\ "aborting" \in RoleSteps /\ "failing" \notin Recording
    BY DEF Recording, RoleSteps
  <1>6. CASE Move("failing")
    BY <1>2, <1>3, <1>4, <1>5, <1>6, MoveKeeps
  <1>7. CASE /\ Move("aborting")
             /\ \/ \E ms \in Durations : InterruptRole(ms)
                \/ /\ run.timed \/ state.pending # run.task \/ state.timing.status # "EXECUTING"
                   /\ UNCHANGED state
    <2>1. PICK task : task = run.task
      OBVIOUS
    <2>2. run'.at = "aborting" /\ run'.task = task
      BY <1>5, <1>7, <2>1, MoveFacts, InvFacts
    <2>3. Settled(task)'
      <3>1. CASE \E ms \in Durations : InterruptRole(ms)
        <4>1. state'.timing.status = "INTERRUPTED"
          BY <3>1, TimedFacts, InvFacts DEF InterruptRole
        <4>2. QED
          BY <4>1 DEF Settled
      <3>2. CASE /\ run.timed \/ state.pending # run.task \/ state.timing.status # "EXECUTING"
                 /\ UNCHANGED state
        <4>1. Started(task) /\ (run.timed => Finished(task))
          BY <1>2, <2>1, BoundFacts
        <4>2. state.timing.status \in {"NONE", "EXECUTING", "COMPLETED", "INTERRUPTED"}
          BY InvFacts DEF State, Timing
        <4>3. Settled(task)
          BY <2>1, <3>2, <4>1, <4>2 DEF Settled, Started, Finished
        <4>4. QED
          BY <3>2, <4>3 DEF Settled
      <3>3. QED
        BY <1>7, <3>1, <3>2
    <2>4. StepTells'
      BY <2>2, <2>3 DEF StepTells, In, Replying, Settled
    <2>5. QED
      BY <1>2, <1>3, <1>4, <1>5, <1>7, <2>4, MoveKeeps
  <1>8. QED
    BY <1>1, <1>6, <1>7

LEMMA CatchAbortKeeps ==
  ASSUME RunInv, CatchAbort
  PROVE  RunInv'
  <1>1. /\ In("aborting") /\ UNCHANGED <<state, workVars, summary, phase>>
        /\ \/ UNCHANGED journal /\ Move("failing")
           \/ Advance("ABORTED", "failing", "failing")
    BY DEF CatchAbort
  <1>2. run.at \in Recording \ {"begun", "committing"} /\ "failing" \notin Recording
    BY <1>1 DEF In, Recording, RoleSteps
  <1>3. CASE UNCHANGED journal /\ Move("failing")
    <2>1. StateTells' /\ StateGoesOn
      BY <1>1, InvFacts, SameStateKeeps
    <2>2. phase' \in Phases \ {"READY_FOR_INTEGRATION", "FAILED"}
      BY <1>1, <1>2, ServingFacts DEF Serving, Recording
    <2>3. QED
      BY <1>1, <1>2, <1>3, <2>1, <2>2, MoveKeeps
  <1>4. CASE Advance("ABORTED", "failing", "failing")
    <2>1. PICK record \in Record :
            /\ record.task = run.task /\ record.status = "ABORTED"
            /\ record.confined = Current.confined
            /\ WriteJournal(WithCurrent(record), "failing", "failing")
      BY <1>2, <1>4, AdvanceFacts DEF RecordStatuses
    <2>2. Settled(run.task)
      BY <1>1 DEF RunInv, RoleTells, StepTells, In
    <2>3. RecordTells(record)
      BY <1>2, <2>1, <2>2, RecordingFacts DEF RecordTells
    <2>4. QED
      BY <1>1, <1>2, <2>1, <2>3, RecordKeeps
  <1>5. QED
    BY <1>1, <1>3, <1>4

LEMMA BeginExecutionKeeps ==
  ASSUME RunInv, BeginExecution
  PROVE  RunInv'
  <1> DEFINE record == [task |-> run.task, status |-> "PREPARING", confined |-> FALSE,
                        verdict |-> "NONE"]
             new == [journal EXCEPT !.executions = Append(@, record)]
  <1>1. /\ In("bound") /\ UNCHANGED <<state, workVars, summary, phase>>
        /\ \/ Move("failing") /\ (UNCHANGED journal \/ journal' = new)
           \/ Move("begun") /\ journal' = new
    BY DEF BeginExecution, WriteJournal, Write, Throws, fileVars
  <1>2. /\ run.at \in Serving /\ run.at \in RoleSteps
        /\ run.at \notin {"preparing", "committing"}
    BY <1>1 DEF In, Serving, RoleSteps
  <1>3. /\ journal # None /\ journal \in Journal
        /\ phase \in Phases \ {"READY_FOR_INTEGRATION", "FAILED"}
    BY <1>2, ServingFacts
  <1>4. StateTells' /\ StateGoesOn
    BY <1>1, InvFacts, SameStateKeeps
  <1>5. PICK task : task = run.task
    OBVIOUS
  <1>6. /\ task \in state.tasks /\ task \in Task /\ task \in state'.tasks
        /\ run.timed => Finished(task)'
    BY <1>2, <1>4, <1>5, RoleKnown, InvFacts
  <1>7. PICK entry : entry = record
    OBVIOUS
  <1>8. /\ entry \in Record /\ entry.task = task /\ entry.status = "PREPARING"
        /\ entry.task = run.task
    BY <1>5, <1>6, <1>7 DEF Record, RecordStatuses
  <1>9. RecordTells(entry)'
    BY <1>6, <1>8 DEF RecordTells
  <1>10. WorkTypes' /\ WorkTells'
    BY <1>1, <1>2, RunnerIdle
  <1>11. ASSUME journal' = new
         PROVE  /\ journal' \in Journal /\ journal'.status = journal.status
                /\ Executions' # <<>> /\ Current' = entry /\ RecordsTell'
    <2>1. /\ journal' \in Journal /\ journal'.status = journal.status
          /\ Executions' # <<>> /\ Current' = entry
          /\ \A e \in Range(Executions') : e = entry \/ e \in Range(Executions)
          /\ \A e \in Range(Executions) : e \in Range(Executions')
      BY <1>3, <1>7, <1>8, <1>11, WithNewFacts
    <2>2. RecordsTell'
      BY <1>4, <1>9, <2>1, RecordKnown DEF RecordsTell, RunInv
    <2>3. QED
      BY <2>1, <2>2
  <1>12. ASSUME UNCHANGED journal
         PROVE  journal' \in Journal /\ journal'.status = journal.status /\ RecordsTell'
    <2>1. Executions' = Executions
      BY <1>12 DEF Executions
    <2>2. RecordsTell'
      BY <1>4, <2>1, RecordsKept DEF RunInv
    <2>3. QED
      BY <1>3, <1>12, <2>2
  <1>13. journal' \in Journal /\ journal'.status = journal.status /\ RecordsTell'
    BY <1>1, <1>11, <1>12
  <1>14. /\ run' \in Run /\ run'.at \in {"failing", "begun"}
         /\ run'.at = "begun" =>
              journal' = new /\ run'.task = run.task /\ run'.timed = run.timed
    <2>1. "failing" \in CoreSteps /\ "begun" \in RoleSteps
      BY DEF CoreSteps, RoleSteps
    <2>2. QED
      BY <1>1, <2>1, MoveFacts, InvFacts
  <1>15. Within
    BY <1>2, <1>14 DEF Within, Serving, RoleSteps
  <1>16. FilesTell'
    BY <1>1, <1>3, <1>13, <1>15, FilesKept
  <1>17. RoleTells'
    <2>1. CASE run'.at = "failing"
      BY <2>1, NoRole DEF RoleSteps
    <2>2. CASE run'.at = "begun"
      <3>1. Executions' # <<>> /\ Current'.task = run'.task
        BY <1>8, <1>11, <1>14, <2>2
      <3>2. TaskTells'
        BY <1>5, <1>6, <1>14, <2>2, <3>1 DEF TaskTells, Finished, Recording
      <3>3. StepTells'
        BY <2>2 DEF StepTells, In, Replying
      <3>4. QED
        BY <3>2, <3>3 DEF RoleTells
    <2>3. QED
      BY <1>14, <2>1, <2>2
  <1>18. Types'
    BY <1>1, <1>10, <1>13, <1>14 DEF RunInv, Types, WorkTypes
  <1>19. QED
    BY <1>4, <1>10, <1>13, <1>16, <1>17, <1>18 DEF RunInv

-----------------------------------------------------------------------------
(* The actions of the loop                                                    *)

LEMMA ServeKeeps ==
  ASSUME RunInv, Serve
  PROVE  RunInv'
  <1>1. /\ In("loop") /\ UNCHANGED <<state, workVars, journal, summary>>
        /\ \/ UNCHANGED phase /\ Move("failing")
           \/ /\ state.pending # None
              /\ phase' \in {phase, PhaseFor(state.pending)} /\ Move("failing")
           \/ /\ state.pending # None
              /\ phase' = PhaseFor(state.pending)
              /\ run' = [run EXCEPT !.task = state.pending, !.answer = None, !.timed = FALSE,
                                    !.at = IF state.pending.purpose = "BUILDER_IMPLEMENTATION"
                                           THEN "preparing" ELSE "bound"]
    BY DEF Serve, Throws, fileVars
  <1>2. /\ run.at \in Serving /\ run.at \notin {"preparing", "committing"}
    BY <1>1 DEF In, Serving
  <1>3. phase \in Phases \ {"READY_FOR_INTEGRATION", "FAILED"}
    BY <1>2, ServingFacts
  <1>4. state.pending # None => /\ state.pending \in Task /\ state.pending \in state.tasks
                                /\ PhaseFor(state.pending) \in Phases \ {"READY_FOR_INTEGRATION", "FAILED"}
    <2>1. SUFFICES ASSUME state.pending # None
                   PROVE  /\ state.pending \in Task /\ state.pending \in state.tasks
                          /\ PhaseFor(state.pending) \in Phases \ {"READY_FOR_INTEGRATION", "FAILED"}
      OBVIOUS
    <2>2. state.pending \in Task /\ state.pending \in state.tasks
      BY <2>1, PendingFacts, InvFacts DEF StateTells
    <2>3. state.pending.purpose \in Purposes
      BY <2>2 DEF Task
    <2>4. QED
      BY <2>2, <2>3 DEF PhaseFor, Phases, Purposes
  <1>5. phase' \in Phases \ {"READY_FOR_INTEGRATION", "FAILED"}
    BY <1>1, <1>3, <1>4
  <1>6. StateTells' /\ StateGoesOn
    BY <1>1, InvFacts, SameStateKeeps
  <1>7. WorkTypes' /\ WorkTells'
    BY <1>1, <1>2, RunnerIdle
  <1>8. \/ run' \in Run /\ run'.at = "failing"
        \/ /\ run' \in Run /\ run'.at \in {"preparing", "bound"} /\ ~run'.timed
           /\ run'.task \in state'.tasks
    <2>1. CASE Move("failing")
      BY <2>1, MoveFacts, InvFacts DEF CoreSteps
    <2>2. CASE /\ state.pending # None
               /\ run' = [run EXCEPT !.task = state.pending, !.answer = None, !.timed = FALSE,
                                    !.at = IF state.pending.purpose = "BUILDER_IMPLEMENTATION"
                                           THEN "preparing" ELSE "bound"]
      BY <1>1, <1>4, <2>2, InvFacts DEF Run, CoreSteps, RoleSteps
    <2>3. QED
      BY <1>1, <2>1, <2>2
  <1>9. RoleTells'
    <2>1. CASE run'.at = "failing"
      BY <2>1, NoRole DEF RoleSteps
    <2>2. CASE run'.at \in {"preparing", "bound"} /\ ~run'.timed /\ run'.task \in state'.tasks
      BY <2>2 DEF RoleTells, TaskTells, StepTells, Recording, RoleSteps, Replying, In
    <2>3. QED
      BY <1>8, <2>1, <2>2
  <1>10. Within
    BY <1>2, <1>8 DEF Within, Serving, RoleSteps
  <1>11. QED
    BY <1>1, <1>5, <1>6, <1>7, <1>9, <1>10, ServingKeeps

LEMMA OfflineBase ==
  ASSUME OfflineInv
  PROVE  WorkBase /\ ~General
  <1>1. JobShape
    BY JobShaped DEF OfflineInv, RunInv, Types
  <1>2. QED
    BY <1>1 DEF WorkBase, OfflineInv, RunInv, StateTells, Types

\* What a step of these commands leaves, whoever runs it.
LEMMA WorkStateKeeps ==
  ASSUME OfflineInv, NEW p \in Processes, Work(p) \/ StartWork(p) \/ Crash(p)
  PROVE  /\ WorkTypes' /\ StateTells' /\ StateGoesOn /\ Worked(p)
         /\ AwaitsIntegration' = AwaitsIntegration
  <1>1. Worked(p)
    BY OfflineBase, WorkKeeps
  <1>2. StateTells' /\ StateGoesOn /\ AwaitsIntegration' = AwaitsIntegration
    BY <1>1, StillStateKeeps DEF OfflineInv, RunInv, Worked, Still, AwaitsIntegration
  <1>3. job' \in [Processes -> [step : WorkSteps, subject : WorkSubjects]]
    BY <1>1, JobTyped DEF Worked, OfflineInv, RunInv, Types
  <1>4. QED
    BY <1>1, <1>2, <1>3 DEF WorkTypes, Worked, WorkGains

\* The run's own commands are those of module LocalCheckpoint.
LEMMA OwnWork ==
  ASSUME RunInv, Prepare \/ Checkpoint, ~UNCHANGED <<state, workVars>>
  PROVE  Work(Runner) \/ StartWork(Runner)
  <1>1. run.at \in RoleSteps \cup {"preparing"}
    BY DEF Prepare, Checkpoint, In, RoleSteps
  <1>2. run.task \in state.tasks
    BY <1>1 DEF RunInv, RoleTells, TaskTells
  <1>3. QED
    BY <1>2 DEF Prepare, Checkpoint, Work, StartWork

\* Where they leave the run's process.
LEMMA OwnMoves ==
  ASSUME OfflineInv, Prepare \/ Checkpoint
  PROVE  WorkTells'
  <1> DEFINE steps == IF In("preparing") THEN PrepareSteps ELSE CheckpointSteps
             Stays == \E step \in steps : JobMoved(Runner, step, run.task) /\ UNCHANGED run
  <1>1. Runner \in Processes /\ ~General /\ WorkBase
    BY OfflineBase, RunnerAssumption
  <1>2. /\ run.at \in {"preparing", "committing"}
        /\ ~At(Runner, "idle") => Subject(Runner) = run.task
    BY DEF Prepare, Checkpoint, In, OfflineInv, RunInv, WorkTells
  <1>3. \/ End(Runner)
        \/ At(Runner, "idle") /\ UNCHANGED workVars
        \/ \E step \in steps : /\ UNCHANGED run
                              /\ \/ Begin(Runner, step, run.task)
                                 \/ ~At(Runner, "idle") /\ Goto(Runner, step)
    <2>1. CASE Prepare
      <3>1. In("preparing") /\ {"cloning", "cloned"} \subseteq steps
        BY <2>1 DEF Prepare, PrepareSteps
      <3> HIDE DEF steps
      <3>2. CASE PrepareBegin(Runner, run.task) /\ UNCHANGED run
        BY <3>1, <3>2 DEF PrepareBegin
      <3>3. CASE Clone(Runner) /\ UNCHANGED run
        BY <3>1, <3>3 DEF Clone, At
      <3>4. CASE RegisterWorkspace(Runner) \/ CloneFails(Runner) \/ RegisterFails(Runner)
        BY <3>4 DEF RegisterWorkspace, CloneFails, RegisterFails
      <3>5. QED
        BY <2>1, <3>2, <3>3, <3>4 DEF Prepare
    <2>2. CASE Checkpoint
      <3>1. ~In("preparing") /\ {"checked", "intended", "committed", "failing"} \subseteq steps
        BY <2>2 DEF Checkpoint, CheckpointSteps, In
      <3> HIDE DEF steps
      <3>2. CASE CheckpointBegin(Runner, run.task) /\ UNCHANGED run
        BY <3>1, <3>2 DEF CheckpointBegin
      <3>3. CASE (CheckpointIntent(Runner) \/ CheckpointCommit(Runner)) /\ UNCHANGED run
        BY <1>1, <3>1, <3>3 DEF CheckpointIntent, CheckpointCommit, At
      <3>4. CASE /\ CheckpointCommitFails(Runner) \/ CheckpointCompleteFails(Runner)
                 /\ UNCHANGED run
        BY <1>1, <3>1, <3>4 DEF CheckpointCommitFails, CheckpointCompleteFails, At
      <3>5. CASE \/ CheckpointComplete(Runner) \/ CheckpointIntentFails(Runner)
                 \/ CheckpointUncertain(Runner) \/ CheckpointUncertainSwallowed(Runner)
        BY <3>5 DEF CheckpointComplete, CheckpointIntentFails, CheckpointUncertain,
           CheckpointUncertainSwallowed
      <3>6. QED
        BY <2>2, <3>2, <3>3, <3>4, <3>5 DEF Checkpoint
    <2>3. QED
      BY <2>1, <2>2
  <1>4. At(Runner, "idle")' \/ Stays
    <2>1. CASE End(Runner)
      BY <1>1, <2>1, JobMoves DEF JobMoved, At
    <2>2. CASE At(Runner, "idle") /\ UNCHANGED workVars
      BY <2>2 DEF At, workVars
    <2>3. ASSUME NEW step \in steps, UNCHANGED run,
                 \/ Begin(Runner, step, run.task)
                 \/ ~At(Runner, "idle") /\ Goto(Runner, step)
          PROVE  Stays
      <3> HIDE DEF steps
      <3>1. JobMoved(Runner, step, run.task)
        BY <1>1, <1>2, <2>3, JobMoves
      <3>2. QED
        BY <2>3, <3>1
    <2>4. QED
      BY <1>3, <2>1, <2>2, <2>3
  <1>5. CASE Stays
    <2>1. PICK step \in steps : JobMoved(Runner, step, run.task) /\ UNCHANGED run
      BY <1>5
    <2>2. job'[Runner].step = step /\ job'[Runner].subject = run.task
      BY <2>1 DEF JobMoved
    <2>3. QED
      BY <1>2, <2>1, <2>2 DEF WorkTells, At, Subject, In
  <1>6. QED
    BY <1>4, <1>5 DEF WorkTells

\* What they do, then, to everything but the run itself.
LEMMA OwnWorkKeeps ==
  ASSUME OfflineInv, Prepare \/ Checkpoint
  PROVE  WorkTypes' /\ StateTells' /\ StateGoesOn /\ WorkTells' /\ WorkInv'
  <1>1. CASE UNCHANGED <<state, workVars>>
    <2>1. StateTells' /\ StateGoesOn
      BY <1>1, SameStateKeeps DEF OfflineInv, RunInv
    <2>2. WorkTypes'
      BY <1>1 DEF WorkTypes, workVars, OfflineInv, RunInv, Types
    <2>3. WorkInv'
      BY <1>1, OfflineBase, WorkKept DEF workVars, SameFiles
    <2>4. QED
      BY <2>1, <2>2, <2>3, OwnMoves
  <1>2. CASE ~UNCHANGED <<state, workVars>>
    <2>1. Work(Runner) \/ StartWork(Runner)
      BY <1>2, OwnWork DEF OfflineInv
    <2>2. QED
      BY <2>1, OwnMoves, WorkStateKeeps, RunnerAssumption DEF Worked
  <1>3. QED
    BY <1>1, <1>2

\* The roles of the run's task while its record is not there yet.
LEMMA PreparingRole ==
  ASSUME RunInv, In("preparing"), StateGoesOn, run'.at \in {"preparing", "bound"},
         run'.task = run.task, run'.timed = run.timed
  PROVE  RoleTells'
  <1>1. PICK task : task = run.task
    OBVIOUS
  <1>2. task \in state'.tasks /\ (run.timed => Finished(task)')
    BY <1>1, RoleKnown DEF In
  <1>3. TaskTells'
    BY <1>1, <1>2 DEF TaskTells, Finished, Recording, RoleSteps
  <1>4. StepTells'
    BY DEF StepTells, In, Replying
  <1>5. QED
    BY <1>3, <1>4 DEF RoleTells

LEMMA PrepareKeeps ==
  ASSUME OfflineInv, Prepare
  PROVE  RunInv'
  <1>1. RunInv /\ In("preparing") /\ UNCHANGED fileVars
    BY DEF Prepare, OfflineInv
  <1>2. run.at \in Serving
    BY <1>1 DEF In, Serving
  <1>3. /\ UNCHANGED <<journal, summary>>
        /\ phase' \in Phases \ {"READY_FOR_INTEGRATION", "FAILED"}
    BY <1>1, <1>2, ServingFacts DEF fileVars
  <1>4. WorkTypes' /\ StateTells' /\ StateGoesOn /\ WorkTells'
    BY OwnWorkKeeps
  <1>5. Move("failing") \/ Move("bound") \/ UNCHANGED run
    BY DEF Prepare
  <1>6. "failing" \in CoreSteps /\ "bound" \in RoleSteps
    BY DEF CoreSteps, RoleSteps
  <1>7. /\ run' \in Run /\ run'.at \in {"failing", "preparing", "bound"}
        /\ run'.at # "failing" => run'.task = run.task /\ run'.timed = run.timed
    BY <1>1, <1>5, <1>6, MoveFacts, InvFacts DEF In
  <1>8. RoleTells'
    <2>1. CASE run'.at = "failing"
      BY <2>1, NoRole DEF RoleSteps
    <2>2. CASE run'.at # "failing"
      BY <1>1, <1>4, <1>7, <2>2, PreparingRole
    <2>3. QED
      BY <2>1, <2>2
  <1>9. Within
    BY <1>2, <1>7 DEF Within, Serving, RoleSteps
  <1>10. QED
    BY <1>1, <1>3, <1>4, <1>8, <1>9, ServingKeeps

\* The role while its candidate is committed, and right after it.
LEMMA CommittingRole ==
  ASSUME RunInv, In("committing"), StateGoesOn, UNCHANGED journal,
         run'.at \in {"committing", "validating", "catching"},
         run'.task = run.task, run'.timed = run.timed
  PROVE  RoleTells'
  <1>1. PICK task : task = run.task
    OBVIOUS
  <1>2. run.at \in Recording /\ run.at # "begun" /\ run'.at \in Recording \ {"begun"}
    BY DEF In, Recording, RoleSteps
  <1>3. /\ task \in state'.tasks /\ (run.timed => Finished(task)')
        /\ Started(task)'
    BY <1>1, <1>2, RoleKnown, BoundFacts DEF Recording
  <1>4. Executions # <<>> /\ Current.task = run.task
    BY <1>2, RecordingFacts
  <1>5. Executions' # <<>> /\ Current' = Current
    BY <1>4 DEF Executions, Current
  <1>6. TaskTells'
    BY <1>1, <1>3, <1>4, <1>5 DEF TaskTells, Finished, Started
  <1>7. Current.confined
    BY DEF RunInv, RoleTells, StepTells, In
  <1>8. StepTells'
    BY <1>5, <1>7 DEF StepTells, In, Replying
  <1>9. QED
    BY <1>6, <1>8 DEF RoleTells

LEMMA CheckpointKeeps ==
  ASSUME OfflineInv, Checkpoint
  PROVE  RunInv'
  <1>1. RunInv /\ In("committing") /\ UNCHANGED fileVars
    BY DEF Checkpoint, OfflineInv
  <1>2. run.at \in Serving
    BY <1>1 DEF In, Serving, RoleSteps
  <1>3. /\ UNCHANGED <<journal, summary>>
        /\ phase' \in Phases \ {"READY_FOR_INTEGRATION", "FAILED"}
    BY <1>1, <1>2, ServingFacts DEF fileVars
  <1>4. WorkTypes' /\ StateTells' /\ StateGoesOn /\ WorkTells'
    BY OwnWorkKeeps
  <1>5. Move("validating") \/ Move("catching") \/ UNCHANGED run
    BY DEF Checkpoint
  <1>6. "validating" \in RoleSteps /\ "catching" \in RoleSteps
    BY DEF RoleSteps
  <1>7. /\ run' \in Run /\ run'.at \in {"committing", "validating", "catching"}
        /\ run'.task = run.task /\ run'.timed = run.timed
    BY <1>1, <1>5, <1>6, MoveFacts, InvFacts DEF In
  <1>8. RoleTells'
    BY <1>1, <1>3, <1>4, <1>7, CommittingRole
  <1>9. Within
    BY <1>2, <1>7 DEF Within, Serving, RoleSteps
  <1>10. QED
    BY <1>1, <1>3, <1>4, <1>8, <1>9, ServingKeeps

-----------------------------------------------------------------------------
(* The first and the last steps of the run                                    *)

\* A step outside the roles: what it leaves in the files is to be shown.
LEMMA CoreKeeps ==
  ASSUME RunInv, run.at \notin {"preparing", "committing"}, UNCHANGED workVars,
         StateTells', StateGoesOn, NEW next \in CoreSteps \ {"preparing"}, Move(next),
         journal' \in Journal \cup {None}, Executions' = Executions,
         summary' \in (SUBSET Task) \cup {None}, phase' \in Phases, FilesTell'
  PROVE  RunInv'
  <1>1. run' \in Run /\ run'.at = next
    BY MoveFacts, InvFacts
  <1>2. next \notin RoleSteps \cup {"preparing"}
    BY DEF CoreSteps, RoleSteps
  <1>3. RoleTells'
    BY <1>1, <1>2, NoRole
  <1>4. WorkTypes' /\ WorkTells'
    BY RunnerIdle
  <1>5. RecordsTell'
    BY RecordsKept DEF RunInv
  <1>6. Types'
    BY <1>1, <1>4 DEF Types, WorkTypes
  <1>7. QED
    BY <1>3, <1>4, <1>5, <1>6 DEF RunInv

LEMMA EmptyJournal ==
  LET new == [status |-> "ACTIVE", executions |-> <<>>]
  IN  new \in Journal /\ new # None
  <1> DEFINE new == [status |-> "ACTIVE", executions |-> <<>>]
  <1>1. <<>> \in Seq(Record)
    OBVIOUS
  <1>2. new \in Journal
    BY <1>1 DEF Journal
  <1>3. QED
    BY <1>2, NoJournalAssumption

LEMMA OpeningKeeps ==
  ASSUME RunInv, Create \/ InitializeExecutionJournal \/ Enqueue
  PROVE  RunInv'
  <1>1. /\ run.at \in Opening /\ UNCHANGED <<workVars, summary>>
        /\ run.at \notin {"preparing", "committing"}
    BY DEF Create, InitializeExecutionJournal, Enqueue, Opening, In, fileVars
  <1>2. /\ Executions = <<>> /\ ~Ready
        /\ phase \in Phases \ {"READY_FOR_INTEGRATION", "FAILED"}
        /\ In("enqueueing") => journal # None
    BY <1>1 DEF RunInv, Types, FilesTell, Opening, In, Executions, Ready
  <1>3. StateTells' /\ StateGoesOn
    <2>1. UNCHANGED state \/ \E c \in Cycles : EnqueueRequest(c, None)
      BY DEF Create, InitializeExecutionJournal, Enqueue, WriteState, Write
    <2>2. QED
      BY <2>1, InvFacts, EnqueueKeeps, RoleStateKeeps, SameStateKeeps DEF StateTells
  <1>4. \E next \in {"opening", "enqueueing", "loop", "projecting"} :
          /\ Move(next) /\ (next = "opening" => In("fresh"))
          /\ next = "enqueueing" => journal' # None
          /\ next = "loop" => In("enqueueing") /\ UNCHANGED journal
    <2>1. [status |-> "ACTIVE", executions |-> <<>>] # None
      BY EmptyJournal
    <2>2. QED
      BY <2>1 DEF Create, InitializeExecutionJournal, Enqueue, Project, WriteJournal, WriteState,
         Write, fileVars
  <1>5. /\ journal' \in Journal \cup {None} /\ Executions' = <<>>
        /\ journal' = None \/ journal'.status = "ACTIVE" \/ UNCHANGED journal
        /\ In("fresh") => UNCHANGED journal
    <2>1. CASE UNCHANGED journal
      BY <1>2, <2>1, InvFacts DEF Executions
    <2>2. CASE In("opening") /\ journal' = [status |-> "ACTIVE", executions |-> <<>>]
      BY <2>2, EmptyJournal DEF Executions, In
    <2>3. QED
      BY <2>1, <2>2 DEF Create, InitializeExecutionJournal, Enqueue, WriteJournal, Write, fileVars
  <1>6. phase' \in Phases \ {"READY_FOR_INTEGRATION", "FAILED"}
    BY <1>2 DEF Create, InitializeExecutionJournal, Enqueue, Project, Write, fileVars, Phases
  <1>7. ~Ready'
    BY <1>2, <1>5 DEF Ready
  <1>8. PICK next \in {"opening", "enqueueing", "loop", "projecting"} :
          /\ Move(next) /\ (next = "opening" => In("fresh"))
          /\ next = "enqueueing" => journal' # None
          /\ next = "loop" => In("enqueueing") /\ UNCHANGED journal
    BY <1>4
  <1>9. next \in CoreSteps \ {"preparing"} /\ run'.at = next
    BY <1>8, MoveFacts, InvFacts DEF CoreSteps
  <1>10. In("fresh") => journal' = None
    BY <1>5 DEF RunInv, FilesTell, In
  <1>11. FilesTell'
    BY <1>2, <1>5, <1>6, <1>7, <1>8, <1>9, <1>10 DEF FilesTell, In, Serving, RoleSteps
  <1>12. QED
    BY <1>1, <1>2, <1>3, <1>5, <1>6, <1>8, <1>9, <1>11, CoreKeeps, InvFacts DEF RunInv, Types

LEMMA ListedFacts ==
  ASSUME RunInv
  PROVE  Listed \in SUBSET Task
  BY InvFacts DEF Listed, RunInv, RecordsTell, RecordTells

LEMMA SummarizeKeeps ==
  ASSUME RunInv, Summarize
  PROVE  RunInv'
  <1>1. /\ In("loop") /\ AwaitsIntegration /\ UNCHANGED <<state, workVars, journal, phase>>
        /\ \/ summary' = Listed /\ Move("summarized")
           \/ (summary' = Listed \/ UNCHANGED summary) /\ Move("failing")
    BY DEF Summarize, Write, Listed
  <1>2. /\ run.at \in Serving /\ run.at \notin {"preparing", "committing"}
    BY <1>1 DEF In, Serving
  <1>3. /\ journal # None /\ journal \in Journal /\ ~Ready
        /\ phase \in Phases \ {"READY_FOR_INTEGRATION", "FAILED"}
    BY <1>2, ServingFacts
  <1>4. StateTells' /\ StateGoesOn
    BY <1>1, InvFacts, SameStateKeeps
  <1>5. Executions' = Executions /\ Listed' = Listed /\ Ready' = Ready
        /\ AwaitsIntegration' = AwaitsIntegration
    BY <1>1 DEF Executions, Listed, Ready, AwaitsIntegration
  <1>6. summary' \in (SUBSET Task) \cup {None}
    BY <1>1, ListedFacts DEF RunInv, Types
  <1>7. ASSUME NEW next \in {"summarized", "failing"}, Move(next),
               next = "summarized" => summary' = Listed
        PROVE  RunInv'
    <2>1. next \in CoreSteps \ {"preparing"} /\ run'.at = next
      BY <1>7, MoveFacts, InvFacts DEF CoreSteps
    <2>2. FilesTell'
      BY <1>1, <1>3, <1>5, <1>7, <2>1 DEF FilesTell, In, Serving, RoleSteps
    <2>3. QED
      BY <1>1, <1>2, <1>3, <1>4, <1>5, <1>6, <1>7, <2>1, <2>2, CoreKeeps
  <1>8. QED
    BY <1>1, <1>7

LEMMA MarkedJournal ==
  ASSUME journal \in Journal, NEW status \in {"ACTIVE", "READY_FOR_INTEGRATION", "FAILED"},
         journal' = [journal EXCEPT !.status = status]
  PROVE  /\ journal' \in Journal /\ journal' # None /\ journal'.status = status
         /\ Executions' = Executions
  <1>1. /\ journal' \in Journal /\ journal'.status = status
        /\ journal'.executions = journal.executions
    BY DEF Journal
  <1>2. QED
    BY <1>1, NoJournalAssumption DEF Executions

LEMMA MarkReadyKeeps ==
  ASSUME RunInv, MarkExecutionJournalReady
  PROVE  RunInv'
  <1> DEFINE new == [journal EXCEPT !.status = "READY_FOR_INTEGRATION"]
  <1>1. /\ In("summarized") /\ UNCHANGED <<state, workVars, summary, phase>>
        /\ \/ /\ journal' = new /\ \A e \in Range(Executions) : e.status = "SUBMITTED"
              /\ Move("ready") \/ Move("failing")
           \/ UNCHANGED journal /\ Move("failing")
    BY DEF MarkExecutionJournalReady, WriteJournal, Write, Throws, fileVars
  <1>2. run.at \notin {"preparing", "committing"}
    BY <1>1 DEF In
  <1>3. /\ journal # None /\ journal \in Journal /\ AwaitsIntegration /\ summary = Listed
        /\ ~Ready /\ phase \in Phases \ {"READY_FOR_INTEGRATION", "FAILED"}
    BY <1>1 DEF RunInv, FilesTell, Types, In
  <1>4. StateTells' /\ StateGoesOn /\ AwaitsIntegration'
    BY <1>1, <1>3, InvFacts, SameStateKeeps DEF AwaitsIntegration
  <1>5. CASE UNCHANGED journal /\ Move("failing")
    <2>1. "failing" \in CoreSteps \ {"preparing"} /\ run'.at = "failing"
      BY <1>5, MoveFacts, InvFacts DEF CoreSteps
    <2>2. Executions' = Executions /\ ~Ready'
      BY <1>3, <1>5 DEF Executions, Ready
    <2>3. FilesTell'
      BY <1>1, <1>3, <1>5, <2>1, <2>2 DEF FilesTell, In
    <2>4. QED
      BY <1>1, <1>2, <1>3, <1>4, <1>5, <2>1, <2>2, <2>3, CoreKeeps DEF RunInv, Types
  <1>6. CASE /\ journal' = new /\ \A e \in Range(Executions) : e.status = "SUBMITTED"
             /\ Move("ready") \/ Move("failing")
    <2>1. PICK next \in {"ready", "failing"} : Move(next)
      BY <1>6
    <2>2. next \in CoreSteps \ {"preparing"} /\ run'.at = next
      BY <2>1, MoveFacts, InvFacts DEF CoreSteps
    <2>3. /\ journal' \in Journal /\ journal' # None
          /\ journal'.status = "READY_FOR_INTEGRATION" /\ Executions' = Executions
      BY <1>3, <1>6, MarkedJournal
    <2>4. Listed' = Listed /\ \A e \in Range(Executions') : e.status = "SUBMITTED"
      BY <1>6, <2>3 DEF Listed
    <2>5. FilesTell'
      BY <1>1, <1>3, <1>4, <2>1, <2>2, <2>3, <2>4 DEF FilesTell, In, Serving, RoleSteps, Ready
    <2>6. QED
      BY <1>1, <1>2, <1>3, <1>4, <2>1, <2>2, <2>3, <2>5, CoreKeeps DEF RunInv, Types
  <1>7. QED
    BY <1>1, <1>5, <1>6

LEMMA ReturnKeeps ==
  ASSUME RunInv, Return
  PROVE  RunInv'
  <1>1. /\ In("ready") /\ UNCHANGED <<state, workVars, journal, summary>>
        /\ phase' \in {phase, "READY_FOR_INTEGRATION"} /\ (Move("returned") \/ Move("failing"))
    BY DEF Return, Project, Write
  <1>2. run.at \notin {"preparing", "committing"}
    BY <1>1 DEF In
  <1>3. /\ Ready /\ journal # None /\ journal \in Journal /\ AwaitsIntegration
        /\ summary = Listed /\ \A e \in Range(Executions) : e.status = "SUBMITTED"
        /\ phase \in Phases \ {"FAILED"}
    BY <1>1 DEF RunInv, FilesTell, Types, In, Ready
  <1>4. StateTells' /\ StateGoesOn /\ AwaitsIntegration'
    BY <1>1, <1>3, InvFacts, SameStateKeeps DEF AwaitsIntegration
  <1>5. PICK next \in {"returned", "failing"} : Move(next)
    BY <1>1
  <1>6. next \in CoreSteps \ {"preparing"} /\ run'.at = next
    BY <1>5, MoveFacts, InvFacts DEF CoreSteps
  <1>7. Executions' = Executions /\ Listed' = Listed /\ Ready'
    BY <1>1, <1>3 DEF Executions, Listed, Ready
  <1>8. phase' \in Phases \ {"FAILED"}
    BY <1>1, <1>3 DEF Phases
  <1>9. FilesTell'
    BY <1>1, <1>3, <1>4, <1>6, <1>7, <1>8 DEF FilesTell, In, Serving, RoleSteps
  <1>10. QED
    BY <1>1, <1>2, <1>3, <1>4, <1>5, <1>6, <1>7, <1>8, <1>9, CoreKeeps DEF RunInv, Types

LEMMA MarkFailedKeeps ==
  ASSUME RunInv, MarkExecutionJournalFailed
  PROVE  RunInv'
  <1> DEFINE new == [journal EXCEPT !.status = "FAILED"]
  <1>1. /\ In("failing") /\ UNCHANGED <<state, workVars, summary, phase>>
        /\ \/ UNCHANGED journal /\ Move("thrown")
           \/ /\ journal.status # "READY_FOR_INTEGRATION" /\ journal' = new
              /\ Move("projecting") \/ Move("thrown")
    BY DEF MarkExecutionJournalFailed, WriteJournal, Write, Throws, fileVars
  <1>2. run.at \notin {"preparing", "committing"}
    BY <1>1 DEF In
  <1>3. /\ journal # None /\ journal \in Journal /\ phase \in Phases \ {"FAILED"}
        /\ Ready => /\ AwaitsIntegration /\ summary = Listed
                    /\ \A e \in Range(Executions) : e.status = "SUBMITTED"
        /\ phase = "READY_FOR_INTEGRATION" => Ready
    BY <1>1 DEF RunInv, FilesTell, Types, In
  <1>4. StateTells' /\ StateGoesOn /\ AwaitsIntegration' = AwaitsIntegration
    BY <1>1, InvFacts, SameStateKeeps DEF AwaitsIntegration
  <1>5. CASE UNCHANGED journal /\ Move("thrown")
    <2>1. "thrown" \in CoreSteps \ {"preparing"} /\ run'.at = "thrown"
      BY <1>5, MoveFacts, InvFacts DEF CoreSteps
    <2>2. Executions' = Executions /\ Listed' = Listed /\ Ready' = Ready
      BY <1>5 DEF Executions, Listed, Ready
    <2>3. FilesTell'
      BY <1>1, <1>3, <1>4, <1>5, <2>1, <2>2 DEF FilesTell, In, Serving, RoleSteps
    <2>4. QED
      BY <1>1, <1>2, <1>3, <1>4, <1>5, <2>1, <2>2, <2>3, CoreKeeps DEF RunInv, Types
  <1>6. CASE /\ journal.status # "READY_FOR_INTEGRATION" /\ journal' = new
             /\ Move("projecting") \/ Move("thrown")
    <2>1. PICK next \in {"projecting", "thrown"} : Move(next)
      BY <1>6
    <2>2. next \in CoreSteps \ {"preparing"} /\ run'.at = next
      BY <2>1, MoveFacts, InvFacts DEF CoreSteps
    <2>3. /\ journal' \in Journal /\ journal' # None /\ journal'.status = "FAILED"
          /\ Executions' = Executions
      BY <1>3, <1>6, MarkedJournal
    <2>4. ~Ready' /\ phase' # "READY_FOR_INTEGRATION" /\ phase' # "FAILED"
      BY <1>1, <1>3, <1>6, <2>3 DEF Ready
    <2>5. FilesTell'
      BY <1>1, <2>1, <2>2, <2>3, <2>4 DEF FilesTell, In, Serving, RoleSteps
    <2>6. QED
      BY <1>1, <1>2, <1>3, <1>4, <2>1, <2>2, <2>3, <2>5, CoreKeeps DEF RunInv, Types
  <1>7. QED
    BY <1>1, <1>5, <1>6

LEMMA ProjectFailedKeeps ==
  ASSUME RunInv, ProjectFailed
  PROVE  RunInv'
  <1>1. /\ In("projecting") /\ UNCHANGED <<state, workVars, journal, summary>>
        /\ phase' \in {phase, "FAILED"} /\ Move("thrown")
    BY DEF ProjectFailed, Project, Write
  <1>2. run.at \notin {"preparing", "committing"}
    BY <1>1 DEF In
  <1>3. /\ ~Ready /\ phase \in Phases \ {"READY_FOR_INTEGRATION"}
        /\ Executions # <<>> => journal.status = "FAILED"
    BY <1>1 DEF RunInv, FilesTell, Types, In
  <1>4. StateTells' /\ StateGoesOn
    BY <1>1, InvFacts, SameStateKeeps
  <1>5. "thrown" \in CoreSteps \ {"preparing"} /\ run'.at = "thrown"
    BY <1>1, MoveFacts, InvFacts DEF CoreSteps
  <1>6. Executions' = Executions /\ ~Ready'
    BY <1>1, <1>3 DEF Executions, Ready
  <1>7. phase' \in Phases \ {"READY_FOR_INTEGRATION"}
    BY <1>1, <1>3 DEF Phases
  <1>8. FilesTell'
    BY <1>1, <1>3, <1>5, <1>6, <1>7 DEF FilesTell, In, Serving, RoleSteps
  <1>9. QED
    BY <1>1, <1>2, <1>4, <1>5, <1>6, <1>7, <1>8, CoreKeeps DEF RunInv, Types

-----------------------------------------------------------------------------
(* What is not a step of the run                                              *)

LEMMA KillKeeps ==
  ASSUME OfflineInv, Kill
  PROVE  RunInv'
  <1>1. /\ RunInv /\ run.at \notin Ended /\ Move("dead") /\ End(Runner)
        /\ UNCHANGED <<state, clones, commits, reported, journal, summary, phase>>
    BY DEF Kill, End, fileVars, OfflineInv
  <1>2. "dead" \in CoreSteps /\ "dead" \notin RoleSteps \cup {"preparing"}
    BY DEF CoreSteps, RoleSteps
  <1>3. run' \in Run /\ run'.at = "dead"
    BY <1>1, <1>2, MoveFacts, InvFacts
  <1>4. StateTells' /\ StateGoesOn /\ AwaitsIntegration' = AwaitsIntegration
    BY <1>1, InvFacts, SameStateKeeps DEF AwaitsIntegration
  <1>5. Executions' = Executions /\ Listed' = Listed /\ Ready' = Ready
    BY <1>1 DEF Executions, Listed, Ready
  <1>6. RecordsTell'
    BY <1>1, <1>4, <1>5, RecordsKept DEF RunInv
  <1>7. JobMoved(Runner, "idle", None)
    BY <1>1, OfflineBase, JobMoves, RunnerAssumption
  <1>8. RoleTells' /\ WorkTells'
    BY <1>2, <1>3, <1>7, NoRole DEF WorkTells, JobMoved, At
  <1>9. Types'
    BY <1>1, <1>3, <1>7, IdleWork, JobTyped, RunnerAssumption DEF RunInv, Types
  <1>10. phase # "FAILED"
    BY <1>1 DEF RunInv, FilesTell, In, Ended
  <1>11. FilesTell'
    BY <1>1, <1>3, <1>4, <1>5, <1>10 DEF RunInv, FilesTell, In, Serving, RoleSteps
  <1>12. QED
    BY <1>4, <1>6, <1>8, <1>9, <1>11 DEF RunInv

\* What the run knows is not disturbed by steps that leave its process and its files alone, and
\* the state ready for integration where it is.
LEMMA OthersKeep ==
  ASSUME RunInv, StateTells', StateGoesOn, WorkTypes', UNCHANGED <<journal, summary, phase>>,
         job'[Runner] = job[Runner], run' \in Run, run'.at = run.at, run'.task = run.task,
         run'.answer = run.answer, run'.timed = run.timed,
         AwaitsIntegration => AwaitsIntegration'
  PROVE  RunInv'
  <1>1. Executions' = Executions /\ Current' = Current /\ Ready' = Ready /\ Listed' = Listed
    BY DEF Executions, Current, Ready, Listed
  <1>2. RecordsTell'
    BY <1>1, RecordsKept DEF RunInv
  <1>3. Types'
    BY DEF RunInv, Types, WorkTypes
  <1>4. PICK task : task = run.task
    OBVIOUS
  <1>5. ASSUME run.at \in RoleSteps \cup {"preparing"}
        PROVE  /\ task \in state'.tasks /\ (run.timed => Finished(task)')
               /\ Started(task) => Started(task)'
               /\ Settled(task) => Settled(task)'
    BY <1>4, <1>5, RoleKnown
  <1>6. TaskTells'
    BY <1>1, <1>4, <1>5 DEF RunInv, RoleTells, TaskTells, Started, Finished, Recording
  <1>7. state.results \subseteq state'.results
    BY DEF StateGoesOn
  <1>8. In("aborting") => Settled(task)'
    <2>1. In("aborting") => Settled(task) /\ run.at \in RoleSteps
      BY <1>4 DEF RunInv, RoleTells, StepTells, In, RoleSteps
    <2>2. QED
      BY <1>5, <2>1
  <1>9. StepTells'
    BY <1>1, <1>4, <1>7, <1>8 DEF RunInv, RoleTells, StepTells, In, Replying, Settled
  <1>10. WorkTells'
    BY DEF RunInv, WorkTells, At, Subject, In
  <1>11. FilesTell'
    BY <1>1 DEF RunInv, FilesTell, In
  <1>12. QED
    BY <1>2, <1>3, <1>6, <1>9, <1>10, <1>11 DEF RunInv, RoleTells

\* A result that an operator submits.
LEMMA OperatorSubmits ==
  ASSUME RunInv, NEW task \in state.tasks, NEW r \in Inputs(task)
  PROVE  r \in Result
  <1>1. task \in Task /\ task.purpose \in Purposes /\ task.iteration \in Commits
    BY InvFacts, IterationAssumption DEF Task, Commits
  <1>2. Answer(task).evidence \in {"PASS", "FAIL"}
    BY <1>1, AnswerFacts, InvFacts
  <1>3. Verdicts(task.purpose) \subseteq AllVerdicts
    BY <1>1 DEF AllVerdicts
  <1>4. QED
    BY <1>1, <1>2, <1>3 DEF Inputs, Result

\* What an operator does to the state alone needs a pending task, or that no cycle is active:
\* an accepted cycle has no such task, and is active.
LEMMA OperatorState ==
  ASSUME RunInv, Operator
  PROVE  StateTells' /\ StateGoesOn /\ RoleStep /\ ~AwaitsIntegration
  <1>1. CASE \E c \in Cycles : EnqueueRequest(c, None)
    <2>1. state.active = None
      BY <1>1 DEF EnqueueRequest
    <2>2. ~AwaitsIntegration
      BY <2>1, NoneAssumption DEF AwaitsIntegration
    <2>3. CycleInv' /\ RoleStep
      BY <1>1, InvFacts, EnqueueKeeps DEF StateTells
    <2>4. QED
      BY <2>2, <2>3, InvFacts, RoleStateKeeps
  <1>2. ASSUME state.pending # None PROVE ~AwaitsIntegration
    BY <1>2, InvFacts DEF StateTells, CycleInv, PendingTells, AwaitsIntegration
  <1>3. CASE StartRole \/ \E ms \in Durations : FinishRole(ms)
    <2>1. state.pending # None
      BY <1>3 DEF StartRole, FinishRole
    <2>2. CycleInv' /\ RoleStep
      BY <1>3, InvFacts, TimingKeeps DEF StateTells
    <2>3. QED
      BY <1>2, <2>1, <2>2, InvFacts, RoleStateKeeps
  <1>4. ASSUME NEW task \in state.tasks, NEW r \in Inputs(task), SubmitResult(task, r)
        PROVE  StateTells' /\ StateGoesOn /\ RoleStep /\ ~AwaitsIntegration
    <2>1. r \in Result
      BY OperatorSubmits
    <2>2. Acceptable(task, r)
      BY <1>4 DEF SubmitResult, SubmitBlocked, SubmitPlan, SubmitRevision, SubmitBuild,
         SubmitReview, SubmitDecision
    <2>3. state.pending # None
      BY <2>2 DEF Acceptable
    <2>4. CycleInv' /\ RoleStep
      BY <1>4, <2>1, InvFacts, SubmitKeeps DEF StateTells
    <2>5. QED
      BY <1>2, <2>3, <2>4, InvFacts, RoleStateKeeps
  <1>5. QED
    BY <1>1, <1>3, <1>4 DEF Operator

LEMMA OperatorKeeps ==
  ASSUME RunInv, Operator
  PROVE  RunInv'
  <1>1. UNCHANGED <<workVars, run, journal, summary, phase>>
    BY DEF Operator, fileVars
  <1>2. StateTells' /\ StateGoesOn /\ ~AwaitsIntegration
    BY OperatorState
  <1>3. WorkTypes' /\ run' \in Run /\ job' = job
    BY <1>1 DEF RunInv, Types, WorkTypes, workVars
  <1>4. QED
    BY <1>1, <1>2, <1>3, OthersKeep

LEMMA OperatorWorkKeeps ==
  ASSUME OfflineInv, NEW p \in Processes \ {Runner}, OperatorWork(p)
  PROVE  RunInv'
  <1>1. /\ Work(p) \/ StartWork(p) \/ Crash(p)
        /\ UNCHANGED <<journal, summary, phase>> /\ RunInv
        /\ UNCHANGED run \/ \E v \in BOOLEAN : run' = [run EXCEPT !.valid = v]
    BY DEF OperatorWork, OfflineInv, fileVars
  <1>2. /\ WorkTypes' /\ StateTells' /\ StateGoesOn /\ Worked(p)
        /\ AwaitsIntegration' = AwaitsIntegration
    BY <1>1, WorkStateKeeps
  <1>3. job'[Runner] = job[Runner]
    BY <1>2, RunnerAssumption DEF Worked, JobMoved
  <1>4. /\ run' \in Run /\ run'.at = run.at /\ run'.task = run.task
        /\ run'.answer = run.answer /\ run'.timed = run.timed
    BY <1>1, InvFacts DEF Run
  <1>5. QED
    BY <1>1, <1>2, <1>3, <1>4, OthersKeep

LEMMA StutterKeeps ==
  ASSUME RunInv, UNCHANGED vars
  PROVE  RunInv'
  <1>1. UNCHANGED <<state, workVars, run, journal, summary, phase>>
    BY DEF vars, fileVars
  <1>2. StateTells' /\ StateGoesOn /\ AwaitsIntegration' = AwaitsIntegration
    BY <1>1, InvFacts, SameStateKeeps DEF AwaitsIntegration
  <1>3. WorkTypes' /\ run' \in Run /\ job' = job
    BY <1>1 DEF RunInv, Types, WorkTypes, workVars
  <1>4. QED
    BY <1>1, <1>2, <1>3, OthersKeep

LEMMA NextKeeps ==
  ASSUME OfflineInv, [Next]_vars
  PROVE  RunInv'
  <1>1. RunInv
    BY DEF OfflineInv
  <1>2. CASE RunCore
    BY <1>1, <1>2, OpeningKeeps, ServeKeeps, PrepareKeeps, SummarizeKeeps, MarkReadyKeeps,
       ReturnKeeps, MarkFailedKeeps, ProjectFailedKeeps DEF RunCore
  <1>3. CASE ExecuteBoundRole
    BY <1>1, <1>3, BeginExecutionKeeps, StartBoundRoleKeeps, StartExecutingKeeps, AnsweringKeeps,
       VerifyConfinementKeeps, ExecuteConfinedKeeps, CheckpointKeeps, CaptureResultKeeps,
       FinishBoundRoleKeeps, RecordFinishedKeeps, SubmitBoundKeeps, RecordSubmittedKeeps,
       CatchInterruptKeeps, CatchAbortKeeps DEF ExecuteBoundRole
  <1>4. ASSUME NEW p \in Processes \ {Runner}, OperatorWork(p) PROVE RunInv'
    BY <1>4, OperatorWorkKeeps
  <1>5. QED
    BY <1>1, <1>2, <1>3, <1>4, KillKeeps, OperatorKeeps, StutterKeeps DEF Next, RunStep

-----------------------------------------------------------------------------
(* The commands of all processes side by side                                  *)

\* What the run, and an operator, do to the state between the commands' steps.
LEMMA RoleWrites ==
  ASSUME OfflineInv,
         \/ RunStep /\ ~Prepare /\ ~Checkpoint
         \/ Operator \/ UNCHANGED vars
  PROVE  UNCHANGED workVars /\ (RoleStep \/ UNCHANGED state)
  <1>1. CycleInv /\ RunInv
    BY DEF OfflineInv, RunInv, StateTells
  <1>2. CASE \/ Create \/ InitializeExecutionJournal \/ Serve \/ Summarize
             \/ MarkExecutionJournalReady \/ Return \/ MarkExecutionJournalFailed \/ ProjectFailed
    BY <1>2 DEF Create, InitializeExecutionJournal, Serve, Summarize, MarkExecutionJournalReady,
       Return, MarkExecutionJournalFailed, ProjectFailed, Throws
  <1>3. CASE \/ BeginExecution \/ StartExecuting \/ Execute \/ VerifyConfinement \/ ExecuteConfined
             \/ Validate \/ CaptureResult \/ RecordFinished \/ RecordSubmitted \/ CatchAbort
    BY <1>3 DEF BeginExecution, StartExecuting, Execute, VerifyConfinement, ExecuteConfined,
       Validate, CaptureResult, RecordFinished, RecordSubmitted, CatchAbort, Throws
  <1>4. CASE Enqueue
    <2>1. UNCHANGED workVars /\ (UNCHANGED state \/ \E c \in Cycles : EnqueueRequest(c, None))
      BY <1>4 DEF Enqueue, WriteState, Write
    <2>2. QED
      BY <1>1, <2>1, EnqueueKeeps
  <1>5. CASE StartBoundRole \/ FinishBoundRole \/ CatchInterrupt
    <2>1. /\ UNCHANGED workVars
          /\ UNCHANGED state \/ StartRole \/ \E ms \in Durations : FinishRole(ms) \/ InterruptRole(ms)
      BY <1>5 DEF StartBoundRole, FinishBoundRole, CatchInterrupt, WriteState, Write
    <2>2. QED
      BY <1>1, <2>1, TimingKeeps
  <1>6. CASE SubmitBound
    <2>1. UNCHANGED workVars /\ (UNCHANGED state \/ SubmitResult(run.task, run.answer))
      BY <1>6 DEF SubmitBound, WriteState, Write
    <2>2. run.answer \in Result
      BY <1>1, <1>6 DEF SubmitBound, RunInv, RoleTells, StepTells, In, Replying
    <2>3. QED
      BY <1>1, <2>1, <2>2, SubmitKeeps
  <1>7. CASE Operator
    BY <1>1, <1>7, OperatorState DEF Operator
  <1>8. CASE UNCHANGED vars
    BY <1>8 DEF vars
  <1>9. QED
    BY <1>2, <1>3, <1>4, <1>5, <1>6, <1>7, <1>8 DEF RunStep, RunCore, ExecuteBoundRole

LEMMA CommandsKeep ==
  ASSUME OfflineInv, [Next]_vars
  PROVE  WorkInv'
  <1>1. WorkBase
    BY OfflineBase
  <1>2. CASE Prepare \/ Checkpoint
    BY <1>2, OwnWorkKeeps
  <1>3. ASSUME NEW p \in Processes \ {Runner}, OperatorWork(p) PROVE WorkInv'
    BY <1>1, <1>3, WorkKeeps DEF OperatorWork, Worked
  <1>4. CASE Kill
    <2>1. /\ UNCHANGED <<state, clones, commits>>
          /\ job' = [job EXCEPT ![Runner] = Idle]
      BY <1>4 DEF Kill
    <2>2. ASSUME NEW q \in Processes
          PROVE  job'[q] = job[q] \/ job'[q].step \notin PrepareSteps \cup CheckpointSteps
      <3>1. DOMAIN job = Processes
        BY DEF OfflineInv, RunInv, Types
      <3>2. QED
        BY <2>1, <3>1 DEF Idle, PrepareSteps, CheckpointSteps
    <2>3. SameFiles(state, state')
      BY <2>1 DEF SameFiles
    <2>4. QED
      BY <1>1, <2>1, <2>2, <2>3, WorkKept
  <1>5. CASE \/ RunStep /\ ~Prepare /\ ~Checkpoint
             \/ Operator \/ UNCHANGED vars
    <2>1. UNCHANGED workVars /\ (RoleStep \/ UNCHANGED state)
      BY <1>5, RoleWrites
    <2>2. /\ state.tasks \subseteq state'.tasks /\ SameFiles(state, state')
          /\ state'.intents = state.intents /\ (state.hold => state'.hold)
      BY <2>1 DEF RoleStep, Elsewhere, SameFiles
    <2>3. QED
      BY <1>1, <2>1, <2>2, WorkKept DEF workVars
  <1>6. QED
    BY <1>2, <1>3, <1>4, <1>5 DEF Next

LEMMA InitKeeps ==
  ASSUME Init
  PROVE  OfflineInv
  <1>1. /\ state = InitialState("OFFLINE_FIXTURE") /\ NoWork /\ journal = None /\ summary = None
        /\ phase = "NONE"
        /\ run = [at |-> "fresh", task |-> None, answer |-> None, timed |-> FALSE, valid |-> FALSE]
    BY DEF Init
  <1>2. /\ CycleInv /\ state.mode = "OFFLINE_FIXTURE" /\ state.tasks = {}
        /\ state.workspaces = {} /\ state.intents = <<>> /\ state.checkpoints = <<>>
        /\ Checkpointed(state) = {} /\ \A c \in Cycles : state.cycles[c] = None
    BY <1>1, InitialFacts, ModeIsOffline
  <1>3. StateTells
    BY <1>2 DEF StateTells, General
  <1>4. run \in Run /\ run.at = "fresh"
    BY <1>1 DEF Run, CoreSteps
  <1>5. Types
    <2>1. job \in [Processes -> [step : WorkSteps, subject : WorkSubjects]]
      BY <1>1, IdleWork DEF NoWork, Idle
    <2>2. clones = {} /\ commits = {} /\ reported = {}
      BY <1>1 DEF NoWork
    <2>3. journal = None /\ summary = None /\ phase \in Phases
      BY <1>1 DEF Phases
    <2>4. clones \subseteq Task /\ commits \subseteq Task /\ reported \subseteq Task
      BY <2>2
    <2>5. journal \in Journal \cup {None}
      BY <2>3
    <2>6. summary \in (SUBSET Task) \cup {None}
      BY <2>3
    <2>7. QED
      BY <1>4, <2>1, <2>3, <2>4, <2>5, <2>6 DEF Types
  <1>6. Executions = <<>> /\ Range(Executions) = {}
    BY <1>1 DEF Executions, Range
  <1>7. RecordsTell
    BY <1>6 DEF RecordsTell
  <1>8. RoleTells
    BY <1>4 DEF RoleTells, TaskTells, StepTells, Recording, RoleSteps, Replying, In
  <1>9. WorkTells
    BY <1>1, RunnerAssumption DEF WorkTells, At, NoWork, Idle
  <1>10. FilesTell
    BY <1>1, <1>4, <1>6 DEF FilesTell, Ready, In, Serving, RoleSteps
  <1>11. WorkInv
    <2>1. \A q \in Processes : job[q].step = "idle" /\ CommandTells(q)
      BY <1>1 DEF NoWork, Idle, CommandTells, PrepareSteps, CheckpointSteps
    <2>2. SoleCommitter
      BY <2>1 DEF SoleCommitter, At
    <2>3. ReceiptsTell /\ IntentsHold
      BY <1>2 DEF ReceiptsTell, IntentsHold, IsInjective
    <2>4. QED
      BY <2>1, <2>2, <2>3 DEF WorkInv
  <1>12. QED
    BY <1>3, <1>5, <1>7, <1>8, <1>9, <1>10, <1>11 DEF RunInv, OfflineInv

-----------------------------------------------------------------------------
(* The theorems                                                               *)

\* The invariant: what the journal, the summary and the projection say of each other and of
\* the state, what the run knows of the role it executes, and what the commands of all
\* processes rely on, hold after every step of the run, of an operator's commands, checkpoints
\* among them, and after a kill.
THEOREM OfflineInvariant == Spec => []OfflineInv
  <1>1. Init => OfflineInv
    BY InitKeeps
  <1>2. OfflineInv /\ [Next]_vars => OfflineInv'
    BY NextKeeps, CommandsKeep DEF OfflineInv
  <1>3. QED
    BY <1>1, <1>2, PTL DEF Spec

\* Every variable of an offline run has its type: executeBoundRole writes only records
\* that the journal's validator accepts.
THEOREM OfflineTypes == Spec => []TypeOK
  <1>1. OfflineInv => TypeOK
    BY InvFacts DEF OfflineInv, RunInv, Types, TypeOK, WorkSteps, WorkSubjects
  <1>2. QED
    BY <1>1, OfflineInvariant, PTL

\* The journal and the state tell the same story across their separate writes.
THEOREM JournalTold == Spec => []JournalTellsState
  <1>1. OfflineInv => JournalTellsState
    <2> SUFFICES ASSUME OfflineInv, NEW e \in Range(Executions)
                 PROVE  /\ e.status = "SUBMITTED" =>
                             \E res \in state.results : res.task = e.task /\ res.verdict = e.verdict
                        /\ e.status = "EXECUTION_FINISHED" =>
                             \/ state.pending = e.task /\ state.timing.status = "COMPLETED"
                             \/ \E res \in state.results : res.task = e.task
      BY DEF JournalTellsState
    <2>1. RecordTells(e)
      BY DEF OfflineInv, RunInv, RecordsTell
    <2>2. e.task = state.pending \/ Served(e.task)
      BY <2>1 DEF OfflineInv, RunInv, StateTells, RecordTells
    <2>3. QED
      BY <2>1, <2>2 DEF RecordTells, Finished, Served
  <1>2. QED
    BY <1>1, OfflineInvariant, PTL

\* An execution that is recorded as aborted leaves no role's clock running: the catch
\* block of executeBoundRole stops it before it writes the record.
THEOREM AbortedClosed == Spec => []AbortedRoleIsClosed
  <1>1. OfflineInv => AbortedRoleIsClosed
    BY DEF OfflineInv, RunInv, RecordsTell, RecordTells, Settled, AbortedRoleIsClosed
  <1>2. QED
    BY <1>1, OfflineInvariant, PTL

\* The journal, the summary and the projection agree whichever write failed, and a journal
\* that is ready stands for an accepted cycle.
THEOREM FilesAgreed == Spec => []FilesAgree
  <1>1. OfflineInv => FilesAgree
    <2> SUFFICES ASSUME OfflineInv PROVE FilesAgree
      OBVIOUS
    <2>1. FilesTell /\ StateTells
      BY DEF OfflineInv, RunInv
    <2>2. CASE Ready
      <3>1. /\ AwaitsIntegration /\ summary = Listed
            /\ \A e \in Range(Executions) : e.status = "SUBMITTED"
        BY <2>1, <2>2 DEF FilesTell
      <3>2. Listed = {e.task : e \in Range(Executions)}
        BY <3>1 DEF Listed
      <3>3. ASSUME NEW c \in Cycles, state.active = c
            PROVE  state.cycles[c].decision = "ACCEPT" /\ MayAccept(c)
        <4>1. state.cycles[c].status = "REVIEW" /\ state.cycles[c] # None
          BY <2>1, <3>1, <3>3 DEF AwaitsIntegration, StateTells, CycleInv, ActiveTells
        <4>2. state.cycles[c].decision = "ACCEPT"
          BY <2>1, <4>1 DEF StateTells
        <4>3. QED
          BY <2>1, <4>1, <4>2 DEF StateTells, CycleInv, AcceptTells
      <3>4. phase = "FAILED" /\ Executions # <<>> => journal.status = "FAILED"
        BY <2>1, <2>2 DEF FilesTell, Ready
      <3>5. QED
        BY <2>2, <3>1, <3>2, <3>3, <3>4 DEF FilesAgree, Ready
    <2>3. CASE ~Ready
      BY <2>1, <2>3 DEF FilesAgree, FilesTell, Ready
    <2>4. QED
      BY <2>2, <2>3
  <1>2. QED
    BY <1>1, OfflineInvariant, PTL

\* The run commits no candidate of its own, and takes no builder's result, without the
\* executor's confinement evidence in the journal, whichever step failed, and whatever an
\* operator's checkpoint committed meanwhile.
THEOREM OwnCandidates == Spec => []OwnCandidatesConfined
  <1>1. OfflineInv => OwnCandidatesConfined
    <2> SUFFICES ASSUME OfflineInv PROVE OwnCandidatesConfined
      OBVIOUS
    <2>1. RunInv /\ RecordsTell /\ WorkTells
      BY DEF OfflineInv, RunInv
    <2>2. ASSUME job[Runner].step \in CheckpointSteps
          PROVE  \E e \in Range(Executions) : e.task = Subject(Runner) /\ e.confined
      <3>1. In("committing") /\ Subject(Runner) = run.task
        BY <2>1, <2>2 DEF WorkTells, At, CheckpointSteps, PrepareSteps
      <3>2. run.at \in Recording /\ Current.confined
        BY <2>1, <3>1 DEF RunInv, RoleTells, StepTells, In, Recording, RoleSteps
      <3>3. Executions # <<>> /\ Current.task = run.task /\ journal \in Journal \cup {None}
        BY <2>1, <3>2, RecordingFacts, InvFacts
      <3>4. Current \in Range(Executions)
        BY <3>3, JournalFacts
      <3>5. QED
        BY <3>1, <3>2, <3>3, <3>4
    <2>3. QED
      BY <2>1, <2>2 DEF OwnCandidatesConfined, RecordsTell, RecordTells, Builder
  <1>2. QED
    BY <1>1, OfflineInvariant, PTL

-----------------------------------------------------------------------------
(* What the validator accepts                                                *)

\* validateMachineStateV2 accepts every state of an offline run, whichever of its writes failed
\* and whatever an operator did meanwhile: no mutation, of its catch blocks least of all, is
\* refused for what an earlier one wrote.
THEOREM OfflineStateValid == Spec => []ValidState
  <1>1. OfflineInv => ValidState
    <2> SUFFICES ASSUME OfflineInv PROVE ValidState
      OBVIOUS
    <2>1. CycleInv /\ WorkInv
      BY DEF OfflineInv, RunInv, StateTells
    <2>2. \A c \in Cycles :
            state.active = c <=> state.cycles[c] # None /\ state.cycles[c].status \notin Terminal
      BY <2>1 DEF CycleInv, ActiveTells
    <2>3. /\ state.pending # None => /\ state.pending \in state.tasks
                                     /\ \A res \in state.results : res.task # state.pending
          /\ \A res \in state.results : res.task \in state.tasks
          /\ \A r1, r2 \in state.results : r1.task = r2.task => r1 = r2
      BY <2>1 DEF CycleInv, PendingTells, ResultsTell
    <2>4. \A c \in Cycles : \A i, j \in DOMAIN state.reviews[c] :
            i # j => state.reviews[c][i].iteration # state.reviews[c][j].iteration
      BY <2>1 DEF CycleInv, ReviewsTell
    <2>5. state.workspaces \subseteq state.tasks
      BY <2>1 DEF WorkInv, ReceiptsTell
    <2>6. QED
      BY <2>2, <2>3, <2>4, <2>5 DEF ValidState
  <1>2. QED
    BY <1>1, OfflineInvariant, PTL

=============================================================================
