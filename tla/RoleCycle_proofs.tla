---------------------------- MODULE RoleCycle_proofs ----------------------------
(***************************************************************************)
(* What every operation of module RoleCycle keeps: the types, the relations that  *)
(* the validator demands, and what makes an accepted candidate one that was       *)
(* built, checkpointed, reviewed and passed.  Module Controller_proofs adds the      *)
(* processes.                                                                 *)
(***************************************************************************)
EXTENDS LocalCheckpoint, SequenceTheorems, TLAPS

-----------------------------------------------------------------------------
(* The invariant of the state                                                *)

Builder(task) == task.purpose = "BUILDER_IMPLEMENTATION"

\* How far a cycle has come when this task is pending.
Rank(task) == 3 * task.iteration +
    CASE task.purpose = "ARCHITECT_PLAN" -> 0
      [] task.purpose = "BUILDER_IMPLEMENTATION" -> 1
      [] task.purpose = "ANALYST_REVIEW" -> 2
      [] OTHER -> 3

\* Iteration i of the cycle was reviewed and sent back.
Revised(s, c, i) ==
    \E record \in s.iterations : /\ record.cycle = c /\ record.index = i
                                 /\ record.candidate = i /\ record.verdict = "REVISE"

LatestOf(s, c) == s.reviews[c][Len(s.reviews[c])]

\* What the cycle of the pending task says of it.
StageTells(s, task) ==
    LET cycle == s.cycles[task.cycle]
    IN  /\ task.iteration = cycle.iteration /\ task.planRevision = cycle.planRevision
        /\ IF task.purpose \in {"ARCHITECT_PLAN", "BUILDER_IMPLEMENTATION"}
           THEN cycle.candidate = cycle.iteration - 1
           ELSE cycle.candidate = cycle.iteration
        /\ task.purpose = "ARCHITECT_PLAN" => cycle.iteration = 1
        /\ IF task.purpose = "ARCHITECT_REVISION"
           THEN /\ cycle.iteration < MaxIterations /\ Revised(s, task.cycle, cycle.iteration)
                /\ cycle.planRevision <= cycle.iteration + 1
           ELSE cycle.planRevision <= cycle.iteration
        /\ task.purpose = "ARCHITECT_FINAL_DECISION" =>
             /\ s.reviews[task.cycle] # <<>>
             /\ LatestOf(s, task.cycle).iteration = cycle.iteration
             /\ LatestOf(s, task.cycle).reviewed = cycle.iteration

\* A pending task is one of the active cycle, is not decided and has no result.
PendingTells ==
    state.pending # None =>
        /\ state.pending \in state.tasks
        /\ state.active = state.pending.cycle
        /\ state.cycles[state.active] # None
        /\ state.cycles[state.active].status = "AWAITING_HUMAN_ROLE"
        /\ state.cycles[state.active].decision = "NONE"
        /\ \A res \in state.results : res.task # state.pending
        /\ StageTells(state, state.pending)

ActiveTells ==
    \A c \in Cycles :
        state.active = c <=> state.cycles[c] # None /\ state.cycles[c].status \notin Terminal

FinalsTell ==
    \A c \in Cycles :
        IF state.cycles[c] # None /\ state.cycles[c].status \in Terminal
        THEN state.finals[c] # None /\ state.finals[c].terminal = state.cycles[c].status
        ELSE state.finals[c] = None

\* Tasks come in the order of their ranks: the pending one is the last of its cycle.
TasksTell ==
    \A task \in state.tasks :
        /\ state.cycles[task.cycle] # None
        /\ state.pending # None /\ task.cycle = state.pending.cycle =>
               task = state.pending \/ Rank(task) < Rank(state.pending)

Open(s) == {task \in s.tasks : Builder(task)} \ Checkpointed(s)

\* A hold under which no builder's task can come up: no cycle is active, or the one that is
\* (a pilot's, admitted late) has its plan's task, which no role may start.
Stalled ==
    /\ state.hold
    /\ \/ state.active = None
       \/ /\ state.pending # None /\ state.pending.purpose = "ARCHITECT_PLAN"
          /\ state.timing.status = "NONE"

\* At most one candidate was never receipted: the pending task's, or that of a cycle which
\* was closed without it, and then the controller is stalled.
OpenTells ==
    /\ \A t1, t2 \in Open(state) : t1 = t2
    /\ \A task \in Open(state) : task = state.pending \/ Stalled

ResultsTell ==
    /\ \A res \in state.results :
         res.task \in state.tasks /\ (res.verdict # "BLOCKED" => res.active <= RoleLimit)
    /\ \A r1, r2 \in state.results : r1.task = r2.task => r1 = r2

\* Iterations build on each other.
ChainTells ==
    /\ \A record \in state.iterations : record.candidate = record.index
    /\ \A c \in Cycles : state.cycles[c] # None =>
         /\ state.cycles[c].base = state.cycles[c].iteration - 1
         /\ state.cycles[c].candidate \in {state.cycles[c].iteration - 1, state.cycles[c].iteration}
    /\ \A task \in state.tasks :
         Builder(task) /\ task.iteration > 1 => Revised(state, task.cycle, task.iteration - 1)

\* Reviews are of different iterations, of which the pending task is past.
ReviewsTell ==
    \A c \in Cycles :
        /\ state.cycles[c] = None => state.reviews[c] = <<>>
        /\ \A i, j \in DOMAIN state.reviews[c] :
             i # j => state.reviews[c][i].iteration # state.reviews[c][j].iteration
        /\ state.pending # None /\ state.pending.cycle = c =>
             \A i \in DOMAIN state.reviews[c] :
                 3 * state.reviews[c][i].iteration + 2 < Rank(state.pending)

\* What was accepted was passed, in time, and is on file.
AcceptTells ==
    \A c \in Cycles :
        state.cycles[c] # None /\ state.cycles[c].decision = "ACCEPT" =>
            /\ MayAccept(c)
            /\ LatestReview(c).reviewed = state.cycles[c].candidate
            /\ LatestReview(c).iteration = state.cycles[c].iteration
            /\ state.spent[c] <= CycleLimit
            /\ \A task \in state.tasks :
                 task.cycle = c /\ Builder(task) => task \in Checkpointed(state)

CycleInv == /\ state \in State /\ PendingTells /\ ActiveTells /\ FinalsTell /\ TasksTell
            /\ OpenTells /\ ResultsTell /\ ChainTells /\ ReviewsTell /\ AcceptTells

-----------------------------------------------------------------------------
(* What the operations do to the record                                      *)

\* The parts that no operation of the role cycle touches.
Elsewhere(s, t) ==
    /\ t.mode = s.mode /\ t.workspaces = s.workspaces /\ t.intents = s.intents
    /\ t.checkpoints = s.checkpoints /\ t.integrations = s.integrations /\ t.outcomes = s.outcomes

Fields == {"mode", "active", "hold", "cycles", "plans", "tasks", "pending", "timing", "spent",
           "results", "iterations", "reviews", "finals", "workspaces", "intents", "checkpoints",
           "integrations", "outcomes"}

LEMMA StateFields == \A s \in State : DOMAIN s = Fields
  BY DEF State, Fields

\* The task that is issued, and its cycle then.
NextTask(c, cycle, purpose) ==
    [cycle |-> c, purpose |-> purpose,
     iteration |-> cycle.iteration, planRevision |-> cycle.planRevision]

AtPurpose(cycle, purpose) == [cycle EXCEPT !.stage = purpose, !.status = "AWAITING_HUMAN_ROLE"]

LEMMA NextTaskFacts ==
  \A c \in Cycles, cycle \in Cycle, purpose \in Purposes :
    LET task == NextTask(c, cycle, purpose)
        new  == AtPurpose(cycle, purpose)
    IN  /\ task \in Task /\ task # None
        /\ task.cycle = c /\ task.purpose = purpose
        /\ task.iteration = cycle.iteration /\ task.planRevision = cycle.planRevision
        /\ new \in Cycle /\ new # None /\ new.status = "AWAITING_HUMAN_ROLE"
        /\ new.iteration = cycle.iteration /\ new.planRevision = cycle.planRevision
        /\ new.target = cycle.target /\ new.base = cycle.base /\ new.candidate = cycle.candidate
        /\ new.review = cycle.review /\ new.decision = cycle.decision
  <1> SUFFICES ASSUME NEW c \in Cycles, NEW cycle \in Cycle, NEW purpose \in Purposes
               PROVE  LET task == NextTask(c, cycle, purpose)
                          new  == AtPurpose(cycle, purpose)
                      IN  /\ task \in Task /\ task # None
                          /\ task.cycle = c /\ task.purpose = purpose
                          /\ task.iteration = cycle.iteration
                          /\ task.planRevision = cycle.planRevision
                          /\ new \in Cycle /\ new # None /\ new.status = "AWAITING_HUMAN_ROLE"
                          /\ new.iteration = cycle.iteration
                          /\ new.planRevision = cycle.planRevision
                          /\ new.target = cycle.target /\ new.base = cycle.base
                          /\ new.candidate = cycle.candidate
                          /\ new.review = cycle.review /\ new.decision = cycle.decision
    OBVIOUS
  <1>1. NextTask(c, cycle, purpose) \in Task
    BY DEF NextTask, Task, Cycle
  <1>2. AtPurpose(cycle, purpose) \in Cycle
    BY DEF AtPurpose, Cycle, Stages, Statuses, Purposes
  <1>3. QED
    BY <1>1, <1>2, NoTaskAssumption, NoCycleAssumption DEF NextTask, AtPurpose, Cycle

LEMMA IssueEffect ==
  ASSUME NEW s \in State, NEW c \in Cycles, NEW cycle \in Cycle, NEW purpose \in Purposes
  PROVE  LET t    == Issue(s, c, cycle, purpose)
             task == NextTask(c, cycle, purpose)
             new  == AtPurpose(cycle, purpose)
         IN  /\ task \in Task /\ new \in Cycle
             /\ t \in State /\ Elsewhere(s, t)
             /\ t.cycles = [s.cycles EXCEPT ![c] = new]
             /\ t.tasks = s.tasks \cup {task} /\ t.pending = task /\ t.timing = NoTiming
             /\ t.active = s.active /\ t.hold = s.hold /\ t.plans = s.plans /\ t.spent = s.spent
             /\ t.results = s.results /\ t.iterations = s.iterations /\ t.reviews = s.reviews
             /\ t.finals = s.finals
  <1> DEFINE t == Issue(s, c, cycle, purpose)
             task == NextTask(c, cycle, purpose)
             new == AtPurpose(cycle, purpose)
             s1 == [s EXCEPT !.cycles[c] = new]
             s2 == [s1 EXCEPT !.tasks = @ \cup {task}]
             s3 == [s2 EXCEPT !.pending = task]
  <1>1. task \in Task
    BY NextTaskFacts
  <1>2. new \in Cycle
    BY NextTaskFacts
  <1>3. t = [s3 EXCEPT !.timing = NoTiming]
    BY DEF Issue, NextTask, AtPurpose
  <1> HIDE DEF new, task, t
  <1>4. s1 \in State /\ s1 = [s EXCEPT !.cycles = [s.cycles EXCEPT ![c] = new]]
    BY <1>2 DEF State
  <1>5. /\ Elsewhere(s, s1) /\ s1.cycles = [s.cycles EXCEPT ![c] = new]
        /\ s1.tasks = s.tasks /\ s1.active = s.active /\ s1.hold = s.hold /\ s1.plans = s.plans
        /\ s1.spent = s.spent /\ s1.results = s.results /\ s1.iterations = s.iterations
        /\ s1.reviews = s.reviews /\ s1.finals = s.finals
    BY DEF State, Elsewhere
  <1> HIDE DEF s1
  <1>6. /\ s2 \in State /\ Elsewhere(s1, s2) /\ s2.tasks = s1.tasks \cup {task}
        /\ s2.cycles = s1.cycles /\ s2.active = s1.active /\ s2.hold = s1.hold
        /\ s2.plans = s1.plans /\ s2.spent = s1.spent /\ s2.results = s1.results
        /\ s2.iterations = s1.iterations /\ s2.reviews = s1.reviews /\ s2.finals = s1.finals
    BY <1>1, <1>4, ZenonT(60) DEF State, Elsewhere
  <1> HIDE DEF s2
  <1>7. /\ s3 \in State /\ Elsewhere(s2, s3) /\ s3.pending = task /\ s3.tasks = s2.tasks
        /\ s3.cycles = s2.cycles /\ s3.active = s2.active /\ s3.hold = s2.hold
        /\ s3.plans = s2.plans /\ s3.spent = s2.spent /\ s3.results = s2.results
        /\ s3.iterations = s2.iterations /\ s3.reviews = s2.reviews /\ s3.finals = s2.finals
    BY <1>1, <1>6 DEF State, Elsewhere
  <1> HIDE DEF s3
  <1>8. NoTiming \in Timing
    BY DEF NoTiming, Timing
  <1>9. /\ t \in State /\ Elsewhere(s3, t) /\ t.pending = s3.pending /\ t.tasks = s3.tasks
        /\ t.timing = NoTiming
        /\ t.cycles = s3.cycles /\ t.active = s3.active /\ t.hold = s3.hold
        /\ t.plans = s3.plans /\ t.spent = s3.spent /\ t.results = s3.results
        /\ t.iterations = s3.iterations /\ t.reviews = s3.reviews /\ t.finals = s3.finals
    BY <1>3, <1>7, <1>8 DEF State, Elsewhere
  <1>10. Elsewhere(s, t)
    BY <1>5, <1>6, <1>7, <1>9 DEF Elsewhere
  <1>11. QED
    BY <1>1, <1>2, <1>5, <1>6, <1>7, <1>9, <1>10 DEF t, new, task

\* A result is recorded: no task is pending.
LEMMA RecordedEffect ==
  ASSUME state \in State, NEW task \in Task, NEW r \in Result
  PROVE  LET t == Recorded(task, r)
         IN  /\ t \in State /\ Elsewhere(state, t) /\ t.pending = None
             /\ t.results = state.results \cup {[task |-> task, verdict |-> r.verdict,
                                                 active |-> state.timing.active]}
             /\ t.cycles = state.cycles /\ t.active = state.active /\ t.hold = state.hold
             /\ t.plans = state.plans /\ t.spent = state.spent /\ t.tasks = state.tasks
             /\ t.iterations = state.iterations /\ t.reviews = state.reviews
             /\ t.finals = state.finals
  <1>1. NoTiming \in Timing
    BY DEF NoTiming, Timing
  <1> DEFINE res == [task |-> task, verdict |-> r.verdict, active |-> state.timing.active]
  <1>2. res \in [task : Task, verdict : AllVerdicts, active : Nat]
    BY DEF State, Result, Timing
  <1>3. Recorded(task, r) = [state EXCEPT !.results = @ \cup {res}, !.pending = None,
                                          !.timing = NoTiming]
    BY DEF Recorded
  <1> DEFINE s1 == [state EXCEPT !.results = @ \cup {res}]
             s2 == [s1 EXCEPT !.pending = None]
             t == Recorded(task, r)
  <1> HIDE DEF res
  <1>4. /\ s1 \in State /\ Elsewhere(state, s1) /\ s1.results = state.results \cup {res}
        /\ s1.cycles = state.cycles /\ s1.active = state.active /\ s1.hold = state.hold
        /\ s1.plans = state.plans /\ s1.spent = state.spent /\ s1.tasks = state.tasks
        /\ s1.iterations = state.iterations /\ s1.reviews = state.reviews
        /\ s1.finals = state.finals
    BY <1>2 DEF State, Elsewhere
  <1>5. t = [s2 EXCEPT !.timing = NoTiming]
    BY <1>3
  <1> HIDE DEF s1, t
  <1>6. /\ s2 \in State /\ Elsewhere(s1, s2) /\ s2.results = s1.results /\ s2.pending = None
        /\ s2.cycles = s1.cycles /\ s2.active = s1.active /\ s2.hold = s1.hold
        /\ s2.plans = s1.plans /\ s2.spent = s1.spent /\ s2.tasks = s1.tasks
        /\ s2.iterations = s1.iterations /\ s2.reviews = s1.reviews /\ s2.finals = s1.finals
    BY <1>4 DEF State, Elsewhere
  <1> HIDE DEF s2
  <1>7. /\ t \in State /\ Elsewhere(s2, t) /\ t.results = s2.results /\ t.pending = None
        /\ t.cycles = s2.cycles /\ t.active = s2.active /\ t.hold = s2.hold
        /\ t.plans = s2.plans /\ t.spent = s2.spent /\ t.tasks = s2.tasks
        /\ t.iterations = s2.iterations /\ t.reviews = s2.reviews /\ t.finals = s2.finals
    BY <1>1, <1>5, <1>6, ZenonT(60) DEF State, Elsewhere
  <1>8. Elsewhere(state, t)
    BY <1>4, <1>6, <1>7 DEF Elsewhere
  <1>9. QED
    BY <1>4, <1>6, <1>7, <1>8 DEF t, res

LEMMA NoTimingType == NoTiming \in Timing
  BY DEF NoTiming, Timing

\* The active cycle and its task are dropped.
LEMMA DropEffect ==
  ASSUME NEW s \in State
  PROVE  LET t == [s EXCEPT !.active = None, !.pending = None, !.timing = NoTiming]
         IN  /\ t \in State /\ Elsewhere(s, t)
             /\ t.active = None /\ t.pending = None
             /\ t.cycles = s.cycles /\ t.finals = s.finals /\ t.plans = s.plans
             /\ t.spent = s.spent /\ t.tasks = s.tasks /\ t.results = s.results
             /\ t.iterations = s.iterations /\ t.reviews = s.reviews
  <1> DEFINE t == [s EXCEPT !.active = None, !.pending = None, !.timing = NoTiming]
  <1>1. t \in State
    BY NoTimingType DEF State
  <1>2. QED
    BY <1>1 DEF State, Elsewhere

ClosedAs(cycle, status, stage) == [cycle EXCEPT !.status = status, !.stage = stage]

LEMMA ClosedFacts ==
  ASSUME NEW cycle \in Cycle, NEW status \in Terminal, NEW stage \in Stages
  PROVE  LET new == ClosedAs(cycle, status, stage)
         IN  /\ new \in Cycle /\ new # None /\ new.status = status
             /\ new.iteration = cycle.iteration /\ new.target = cycle.target
             /\ new.base = cycle.base /\ new.candidate = cycle.candidate
             /\ new.decision = cycle.decision
  <1>1. ClosedAs(cycle, status, stage) \in Cycle
    BY DEF ClosedAs, Cycle, Statuses
  <1>2. QED
    BY <1>1, NoCycleAssumption DEF ClosedAs, Cycle

\* What a hold may be, and a raised one: named, for Booleans among values.
Holds == BOOLEAN
Raised(hold) == hold = TRUE

LEMMA FinalizeEffect ==
  ASSUME NEW s \in State, NEW c \in Cycles, s.finals[c] = None, NEW cycle \in Cycle,
         NEW status \in Terminal, NEW stage \in Stages, NEW hold \in Holds,
         NEW reason \in AllVerdicts \cup {"INTEGRATED", "FAIL_CLOSED"}
  PROVE  LET t   == FinalizeTerminalCycle(s, c, cycle, status, stage, reason, hold)
             new == ClosedAs(cycle, status, stage)
         IN  /\ new \in Cycle
             /\ t \in State /\ Elsewhere(s, t)
             /\ t.cycles = [s.cycles EXCEPT ![c] = new]
             /\ t.active = None /\ t.pending = None /\ t.hold = hold
             /\ t.finals = [s.finals EXCEPT ![c] = [terminal |-> status, reason |-> reason]]
             /\ [terminal |-> status, reason |-> reason] # None
             /\ t.plans = s.plans /\ t.spent = s.spent /\ t.tasks = s.tasks
             /\ t.results = s.results /\ t.iterations = s.iterations /\ t.reviews = s.reviews
  <1> DEFINE t == FinalizeTerminalCycle(s, c, cycle, status, stage, reason, hold)
             new == ClosedAs(cycle, status, stage)
             final == [terminal |-> status, reason |-> reason]
             s1 == [s EXCEPT !.cycles[c] = new]
             s2 == [s1 EXCEPT !.active = None, !.pending = None, !.timing = NoTiming]
  <1>1. final \in Final /\ final # None
    <2>1. final \in Final
      BY DEF Final
    <2>2. QED
      BY <2>1, NoCycleAssumption
  <1>2. new \in Cycle
    BY ClosedFacts
  <1>3. t = [s2 EXCEPT !.hold = hold, !.finals[c] = final]
    BY DEF FinalizeTerminalCycle, ClosedAs
  <1> HIDE DEF t, new, final
  <1>4. s1 \in State
    BY <1>2, ZenonT(60) DEF State
  <1>5. /\ Elsewhere(s, s1) /\ s1.cycles = [s.cycles EXCEPT ![c] = new]
        /\ s1.finals = s.finals
        /\ s1.plans = s.plans /\ s1.spent = s.spent /\ s1.tasks = s.tasks
        /\ s1.results = s.results /\ s1.iterations = s.iterations /\ s1.reviews = s.reviews
    BY DEF State, Elsewhere
  <1> HIDE DEF s1
  <1>6. /\ s2 \in State /\ Elsewhere(s1, s2) /\ s2.cycles = s1.cycles
        /\ s2.active = None /\ s2.pending = None /\ s2.finals = s1.finals
        /\ s2.plans = s1.plans /\ s2.spent = s1.spent /\ s2.tasks = s1.tasks
        /\ s2.results = s1.results /\ s2.iterations = s1.iterations /\ s2.reviews = s1.reviews
    BY <1>4, DropEffect
  <1> HIDE DEF s2
  <1>7. /\ t \in State /\ Elsewhere(s2, t) /\ t.cycles = s2.cycles
        /\ t.active = None /\ t.pending = None /\ t.hold = hold
        /\ t.finals = [s2.finals EXCEPT ![c] = final]
        /\ t.plans = s2.plans /\ t.spent = s2.spent /\ t.tasks = s2.tasks
        /\ t.results = s2.results /\ t.iterations = s2.iterations /\ t.reviews = s2.reviews
    <2>1. t \in State
      BY <1>1, <1>3, <1>6, ZenonT(60) DEF State, Holds
    <2>2. DOMAIN s2 = Fields
      BY <1>6, StateFields
    <2>3. /\ t.hold = hold /\ t.finals = [s2.finals EXCEPT ![c] = final] /\ t.cycles = s2.cycles
      BY <1>3, <2>2 DEF Fields
    <2>4. t.active = s2.active /\ t.pending = s2.pending
      BY <1>3, <2>2 DEF Fields
    <2>5. Elsewhere(s2, t)
      BY <1>3, <2>2 DEF Fields, Elsewhere
    <2>6. /\ t.plans = s2.plans /\ t.spent = s2.spent /\ t.tasks = s2.tasks
          /\ t.results = s2.results /\ t.iterations = s2.iterations /\ t.reviews = s2.reviews
      BY <1>3, <2>2 DEF Fields
    <2>7. QED
      BY <1>6, <2>1, <2>3, <2>4, <2>5, <2>6
  <1>8. Elsewhere(s, t)
    BY <1>5, <1>6, <1>7 DEF Elsewhere
  <1>9. QED
    BY <1>1, <1>2, <1>5, <1>6, <1>7, <1>8 DEF t, new, final

-----------------------------------------------------------------------------
(* What keeps the invariant                                                   *)

LEMMA RankFacts ==
  \A task \in Task :
    /\ Rank(task) \in Nat
    /\ task.purpose = "ARCHITECT_PLAN" => Rank(task) = 3 * task.iteration
    /\ Builder(task) => Rank(task) = 3 * task.iteration + 1
    /\ task.purpose = "ANALYST_REVIEW" => Rank(task) = 3 * task.iteration + 2
    /\ task.purpose \in {"ARCHITECT_REVISION", "ARCHITECT_FINAL_DECISION"} =>
           Rank(task) = 3 * task.iteration + 3
  BY DEF Rank, Builder, Task, Purposes

LEMMA TypeFacts ==
  ASSUME state \in State
  PROVE  /\ state.cycles \in [Cycles -> Cycle \cup {None}]
         /\ state.finals \in [Cycles -> Final \cup {None}]
         /\ state.tasks \subseteq Task /\ state.pending \in Task \cup {None}
         /\ state.active \in Cycles \cup {None}
         /\ state.reviews \in [Cycles -> Seq(Review)] /\ state.spent \in [Cycles -> Nat]
         /\ state.iterations \subseteq Iteration
  BY DEF State

\* What is known of the cycle whose task is pending.
LEMMA PendingFacts ==
  ASSUME CycleInv, state.pending # None
  PROVE  LET task == state.pending
         IN  /\ task \in Task /\ task \in state.tasks /\ task.cycle \in Cycles
             /\ state.active = task.cycle
             /\ state.cycles[task.cycle] \in Cycle /\ state.cycles[task.cycle] # None
             /\ state.cycles[task.cycle].status = "AWAITING_HUMAN_ROLE"
             /\ state.cycles[task.cycle].decision = "NONE"
             /\ state.finals[task.cycle] = None
             /\ StageTells(state, task)
  <1>1. state.pending \in Task
    BY TypeFacts DEF CycleInv
  <1>2. state.pending.cycle \in Cycles
    BY <1>1 DEF Task
  <1>3. state.active = state.pending.cycle /\ state.cycles[state.active] # None
    BY DEF CycleInv, PendingTells
  <1>4. state.cycles[state.active] \in Cycle
    BY <1>2, <1>3, TypeFacts DEF CycleInv
  <1>5. state.finals[state.active] = None
    BY <1>2, <1>3 DEF CycleInv, PendingTells, FinalsTell, Terminal
  <1>6. QED
    BY <1>1, <1>2, <1>3, <1>4, <1>5 DEF CycleInv, PendingTells

\* A step that moves no cycle: it may raise the hold, lower it when the controller was not
\* stalled or no candidate is open, and add receipts.
Quiet ==
    /\ state' \in State
    /\ state'.cycles = state.cycles /\ state'.tasks = state.tasks
    /\ state'.pending = state.pending /\ state'.active = state.active
    /\ state'.results = state.results /\ state'.iterations = state.iterations
    /\ state'.reviews = state.reviews /\ state'.finals = state.finals
    /\ \A c \in Cycles : state.pending = None \/ c # state.pending.cycle =>
           state'.spent[c] = state.spent[c]
    /\ Checkpointed(state) \subseteq Checkpointed(state)'
    /\ Stalled => Stalled' \/ Open(state)' = {}

LEMMA QuietKeeps ==
  ASSUME CycleInv, Quiet
  PROVE  CycleInv'
  <1>1. state' \in State
    BY DEF Quiet
  <1>2. PendingTells'
    BY DEF CycleInv, Quiet, PendingTells, StageTells, Revised, LatestOf
  <1>3. ActiveTells' /\ FinalsTell'
    BY DEF CycleInv, Quiet, ActiveTells, FinalsTell
  <1>4. TasksTell' /\ ResultsTell'
    BY DEF CycleInv, Quiet, TasksTell, ResultsTell
  <1>5. OpenTells'
    BY DEF CycleInv, Quiet, OpenTells, Open
  <1>6. ChainTells' /\ ReviewsTell'
    BY DEF CycleInv, Quiet, ChainTells, ReviewsTell, Revised
  <1>7. AcceptTells'
    <2> SUFFICES ASSUME NEW c \in Cycles, state'.cycles[c] # None,
                        state'.cycles[c].decision = "ACCEPT"
                 PROVE  /\ MayAccept(c)'
                        /\ LatestReview(c)'.reviewed = state'.cycles[c].candidate
                        /\ LatestReview(c)'.iteration = state'.cycles[c].iteration
                        /\ state'.spent[c] <= CycleLimit
                        /\ \A task \in state'.tasks :
                             task.cycle = c /\ Builder(task) => task \in Checkpointed(state)'
      BY DEF AcceptTells
    <2>1. state.cycles[c] # None /\ state.cycles[c].decision = "ACCEPT"
      BY DEF Quiet
    <2>2. state.pending = None \/ c # state.pending.cycle
      BY <2>1, PendingFacts
    <2>3. state'.spent[c] = state.spent[c]
      BY <2>2 DEF Quiet
    <2>4. QED
      BY <2>1, <2>3 DEF CycleInv, AcceptTells, Quiet, MayAccept, LatestReview
  <1>8. QED
    BY <1>1, <1>2, <1>3, <1>4, <1>5, <1>6, <1>7 DEF CycleInv

\* The result of the pending task is recorded and the next task of its cycle issued.
Advances(task, res, cycle, new) ==
    /\ state' \in State /\ Elsewhere(state, state')
    /\ state'.cycles = [state.cycles EXCEPT ![task.cycle] = cycle]
    /\ state'.tasks = state.tasks \cup {new} /\ state'.pending = new /\ new.cycle = task.cycle
    /\ state'.active = state.active /\ state'.spent = state.spent
    /\ state'.finals = state.finals
    /\ state'.results = state.results \cup {res}
    /\ \A c \in Cycles : c # task.cycle => state'.reviews[c] = state.reviews[c]

\* The recorded result is one of the task, and was in time.
InTime(task, res) ==
    res.task = task /\ (res.verdict # "BLOCKED" => res.active <= RoleLimit)

\* Iterations have their own candidates, and these tasks build on reviewed ones.
Chained(s, tasks) ==
    /\ \A record \in s.iterations : record.candidate = record.index
    /\ \A t \in tasks : Builder(t) /\ t.iteration > 1 => Revised(s, t.cycle, t.iteration - 1)

\* The cycle's reviews are of different iterations, all before this rank.
ReviewedBefore(s, c, rank) ==
    /\ \A i, j \in DOMAIN s.reviews[c] :
         i # j => s.reviews[c][i].iteration # s.reviews[c][j].iteration
    /\ \A i \in DOMAIN s.reviews[c] : 3 * s.reviews[c][i].iteration + 2 < rank

LEMMA AdvanceKeeps ==
  ASSUME CycleInv, NEW task \in Task, task = state.pending, NEW res, InTime(task, res),
         NEW cycle \in Cycle, NEW new \in Task, Advances(task, res, cycle, new),
         cycle.status = "AWAITING_HUMAN_ROLE", cycle.decision = "NONE",
         cycle.base = cycle.iteration - 1,
         Rank(task) < Rank(new), StageTells(state', new),
         Builder(task) => task \in Checkpointed(state), state.timing.status # "NONE",
         Chained(state', state'.tasks), ReviewedBefore(state', task.cycle, Rank(new))
  PROVE  CycleInv'
  <1> DEFINE c == task.cycle
  <1>1. /\ c \in Cycles /\ state.active = c /\ state.cycles[c] \in Cycle /\ task # None
        /\ state.finals[c] = None /\ state.cycles[c] # None
        /\ state.cycles[c].status = "AWAITING_HUMAN_ROLE"
    BY NoTaskAssumption, PendingFacts
  <1>2. cycle # None /\ new # None
    BY NoTaskAssumption, NoCycleAssumption
  <1>3. /\ state'.cycles[c] = cycle
        /\ \A d \in Cycles \ {c} : state'.cycles[d] = state.cycles[d]
    BY <1>1, TypeFacts DEF Advances, CycleInv
  <1>4. new.cycle = c /\ state'.pending = new /\ state'.active = c
    BY <1>1 DEF Advances
  <1>5. Rank(task) \in Nat /\ Rank(new) \in Nat /\ task # new
    BY RankFacts
  <1>6. \A t \in state.tasks : t.cycle = c => Rank(t) < Rank(new) /\ t # new
    <2> SUFFICES ASSUME NEW t \in state.tasks, t.cycle = c PROVE Rank(t) < Rank(new) /\ t # new
      OBVIOUS
    <2>1. t = task \/ Rank(t) < Rank(task)
      BY <1>1 DEF CycleInv, TasksTell
    <2>2. Rank(t) \in Nat
      BY TypeFacts, RankFacts DEF CycleInv
    <2>3. Rank(t) < Rank(new)
      BY <1>5, <2>1, <2>2
    <2>4. QED
      BY <2>2, <2>3
  <1>7. new \notin state.tasks
    BY <1>4, <1>6
  <1>8. PendingTells'
    <2>1. \A r \in state'.results : r.task # new
      BY <1>5, <1>7 DEF Advances, CycleInv, ResultsTell, InTime
    <2>2. QED
      BY <1>1, <1>2, <1>3, <1>4, <2>1 DEF PendingTells, Advances
  <1>9. ActiveTells' /\ FinalsTell'
    BY <1>1, <1>2, <1>3, <1>4 DEF CycleInv, ActiveTells, FinalsTell, Advances, Terminal
  <1>10. TasksTell'
    <2> SUFFICES ASSUME NEW t \in state'.tasks
                 PROVE  /\ state'.cycles[t.cycle] # None
                        /\ t.cycle = c => t = new \/ Rank(t) < Rank(new)
      BY <1>4 DEF TasksTell
    <2>1. CASE t = new
      BY <1>2, <1>3, <1>4, <2>1
    <2>2. CASE t \in state.tasks
      <3>1. t.cycle \in Cycles
        BY <2>2, TypeFacts DEF CycleInv, Task
      <3>2. state.cycles[t.cycle] # None
        BY <2>2 DEF CycleInv, TasksTell
      <3>3. QED
        BY <1>2, <1>3, <1>6, <2>2, <3>1, <3>2
    <2>3. QED
      BY <2>1, <2>2 DEF Advances
  <1>11. Checkpointed(state)' = Checkpointed(state)
    BY DEF Advances, Elsewhere, Checkpointed
  <1>12. OpenTells'
    <2>1. Open(state) = {}
      <3> SUFFICES ASSUME NEW t \in Open(state) PROVE FALSE
        OBVIOUS
      <3>1. t = task
        BY <1>1, NoneAssumption DEF CycleInv, OpenTells, Stalled
      <3>2. QED
        BY <3>1 DEF Open
    <2>2. Open(state)' \subseteq {new}
      BY <1>11, <2>1 DEF Open, Advances
    <2>3. QED
      BY <1>4, <2>2 DEF OpenTells
  <1>13. ResultsTell'
    <2>1. task \in state.tasks /\ \A r \in state.results : r.task # task
      BY <1>1 DEF CycleInv, PendingTells
    <2>2. QED
      BY <2>1 DEF CycleInv, ResultsTell, Advances, InTime
  <1>14. ChainTells'
    <2>1. cycle.candidate \in {cycle.iteration - 1, cycle.iteration}
      BY <1>3, <1>4 DEF StageTells
    <2>2. QED
      BY <1>3, <2>1 DEF CycleInv, ChainTells, Chained
  <1>15. ReviewsTell'
    <2> SUFFICES ASSUME NEW d \in Cycles
                 PROVE  /\ state'.cycles[d] = None => state'.reviews[d] = <<>>
                        /\ \A i, j \in DOMAIN state'.reviews[d] :
                             i # j => state'.reviews[d][i].iteration # state'.reviews[d][j].iteration
                        /\ d = c => \A i \in DOMAIN state'.reviews[d] :
                                      3 * state'.reviews[d][i].iteration + 2 < Rank(new)
      BY <1>4 DEF ReviewsTell
    <2>1. CASE d = c
      BY <1>2, <1>3, <2>1 DEF ReviewedBefore
    <2>2. CASE d # c
      BY <1>3, <2>2 DEF CycleInv, ReviewsTell, Advances
    <2>3. QED
      BY <2>1, <2>2
  <1>16. AcceptTells'
    <2> SUFFICES ASSUME NEW d \in Cycles, state'.cycles[d] # None,
                        state'.cycles[d].decision = "ACCEPT"
                 PROVE  /\ MayAccept(d)'
                        /\ LatestReview(d)'.reviewed = state'.cycles[d].candidate
                        /\ LatestReview(d)'.iteration = state'.cycles[d].iteration
                        /\ state'.spent[d] <= CycleLimit
                        /\ \A t \in state'.tasks :
                             t.cycle = d /\ Builder(t) => t \in Checkpointed(state)'
      BY DEF AcceptTells
    <2>1. d # c
      BY <1>3
    <2>2. state'.cycles[d] = state.cycles[d] /\ state'.reviews[d] = state.reviews[d]
      BY <1>3, <2>1 DEF Advances
    <2>3. \A t \in state'.tasks : t.cycle = d => t \in state.tasks
      BY <1>4, <2>1 DEF Advances
    <2>4. QED
      BY <1>11, <2>2, <2>3 DEF CycleInv, AcceptTells, Advances, MayAccept, LatestReview
  <1>17. QED
    BY <1>8, <1>9, <1>10, <1>12, <1>13, <1>14, <1>15, <1>16 DEF CycleInv, Advances

\* The active cycle is closed, with or without a result of its pending task.
Closes(c, cycle) ==
    /\ state' \in State /\ state'.checkpoints = state.checkpoints
    /\ state'.cycles = [state.cycles EXCEPT ![c] = cycle]
    /\ state'.active = None /\ state'.pending = None
    /\ state'.tasks = state.tasks /\ state'.iterations = state.iterations
    /\ state'.reviews = state.reviews
    /\ \A d \in Cycles \ {c} : state'.spent[d] = state.spent[d] /\ state'.finals[d] = state.finals[d]
    /\ state'.finals[c] # None /\ state'.finals[c].terminal = cycle.status
    /\ \/ state'.results = state.results
       \/ \E res : /\ state.pending # None /\ InTime(state.pending, res)
                   /\ state'.results = state.results \cup {res}

\* What is demanded of a cycle that is accepted.
Merited(s, c, cycle) ==
    /\ s.reviews[c] # <<>>
    /\ LatestOf(s, c).verdict = "PASS" /\ LatestOf(s, c).evidence = "PASS"
    /\ LatestOf(s, c).reviewed = cycle.candidate
    /\ LatestOf(s, c).iteration = cycle.iteration
    /\ s.spent[c] <= CycleLimit
    /\ \A task \in s.tasks : task.cycle = c /\ Builder(task) => task \in Checkpointed(s)

LEMMA ResultsKept ==
  ASSUME CycleInv, state'.tasks = state.tasks,
         \/ state'.results = state.results
         \/ \E res : /\ state.pending # None /\ InTime(state.pending, res)
                     /\ state'.results = state.results \cup {res}
  PROVE  ResultsTell'
  <1>1. CASE state'.results = state.results
    BY <1>1 DEF CycleInv, ResultsTell
  <1>2. ASSUME NEW res, state.pending # None, InTime(state.pending, res),
               state'.results = state.results \cup {res}
        PROVE  ResultsTell'
    <2>1. state.pending \in state.tasks /\ \A r \in state.results : r.task # state.pending
      BY <1>2 DEF CycleInv, PendingTells
    <2>2. QED
      BY <1>2, <2>1 DEF CycleInv, ResultsTell, InTime
  <1>3. QED
    BY <1>1, <1>2

LEMMA CloseKeeps ==
  ASSUME CycleInv, NEW c \in Cycles, state.active = c, NEW cycle \in Cycle, Closes(c, cycle),
         cycle.status \in Terminal,
         cycle.base = state.cycles[c].base, cycle.iteration = state.cycles[c].iteration,
         cycle.candidate = state.cycles[c].candidate,
         cycle.decision = "ACCEPT" => Merited(state', c, cycle),
         state'.hold \/ Open(state) = {}
  PROVE  CycleInv'
  <1>1. state.cycles[c] # None
    BY DEF CycleInv, ActiveTells
  <1>2. cycle # None /\ c # None
    BY NoCycleAssumption, NoneAssumption
  <1>3. /\ state'.cycles[c] = cycle
        /\ \A d \in Cycles \ {c} : state'.cycles[d] = state.cycles[d]
    BY TypeFacts DEF Closes, CycleInv
  <1>4. PendingTells'
    BY DEF Closes, PendingTells
  <1>5. ActiveTells' /\ FinalsTell'
    BY <1>1, <1>2, <1>3, NoneAssumption DEF CycleInv, ActiveTells, FinalsTell, Closes
  <1>6. TasksTell'
    <2>1. ASSUME NEW t \in state.tasks PROVE state'.cycles[t.cycle] # None
      <3>1. t.cycle \in Cycles /\ state.cycles[t.cycle] # None
        BY TypeFacts DEF CycleInv, TasksTell, Task
      <3>2. QED
        BY <1>2, <1>3, <3>1
    <2>2. QED
      BY <2>1 DEF TasksTell, Closes
  <1>7. Checkpointed(state)' = Checkpointed(state)
    BY DEF Closes, Checkpointed
  <1>8. OpenTells'
    BY <1>7 DEF CycleInv, OpenTells, Stalled, Open, Closes
  <1>9. ResultsTell'
    BY ResultsKept DEF Closes
  <1>10. ChainTells'
    BY <1>1, <1>3 DEF CycleInv, ChainTells, Revised, Closes
  <1>11. ReviewsTell'
    BY <1>1, <1>2, <1>3 DEF CycleInv, ReviewsTell, Closes
  <1>12. AcceptTells'
    <2> SUFFICES ASSUME NEW d \in Cycles, state'.cycles[d] # None,
                        state'.cycles[d].decision = "ACCEPT"
                 PROVE  /\ MayAccept(d)'
                        /\ LatestReview(d)'.reviewed = state'.cycles[d].candidate
                        /\ LatestReview(d)'.iteration = state'.cycles[d].iteration
                        /\ state'.spent[d] <= CycleLimit
                        /\ \A t \in state'.tasks :
                             t.cycle = d /\ Builder(t) => t \in Checkpointed(state)'
      BY DEF AcceptTells
    <2>1. CASE d = c
      BY <1>3, <2>1 DEF Merited, MayAccept, LatestReview, LatestOf, Checkpointed
    <2>2. CASE d # c
      BY <1>3, <1>7, <2>2 DEF CycleInv, AcceptTells, Closes, MayAccept, LatestReview
    <2>3. QED
      BY <2>1, <2>2
  <1>13. QED
    BY <1>4, <1>5, <1>6, <1>8, <1>9, <1>10, <1>11, <1>12 DEF CycleInv, Closes

\* The architect accepts, and the cycle waits for its integration.
Accepts(res, cycle) ==
    /\ state' \in State /\ Elsewhere(state, state')
    /\ state'.cycles = [state.cycles EXCEPT ![state.active] = cycle]
    /\ state'.active = state.active /\ state'.pending = None /\ state'.hold = state.hold
    /\ state'.tasks = state.tasks /\ state'.iterations = state.iterations
    /\ state'.reviews = state.reviews /\ state'.spent = state.spent
    /\ state'.finals = state.finals
    /\ state'.results = state.results \cup {res}

LEMMA AcceptKeeps ==
  ASSUME CycleInv, state.pending # None, NEW res, InTime(state.pending, res),
         NEW cycle \in Cycle, Accepts(res, cycle), cycle.status = "REVIEW",
         ~Builder(state.pending), state.timing.status # "NONE",
         cycle.base = state.cycles[state.active].base,
         cycle.iteration = state.cycles[state.active].iteration,
         cycle.candidate = state.cycles[state.active].candidate,
         Merited(state', state.active, cycle)
  PROVE  CycleInv'
  <1> DEFINE c == state.active
  <1>1. c \in Cycles /\ state.cycles[c] # None /\ state.finals[c] = None
    BY PendingFacts
  <1>2. cycle # None /\ c # None
    BY <1>1, NoCycleAssumption, NoneAssumption
  <1>3. /\ state'.cycles[c] = cycle
        /\ \A d \in Cycles \ {c} : state'.cycles[d] = state.cycles[d]
    BY <1>1, TypeFacts DEF Accepts, CycleInv
  <1>4. PendingTells'
    BY DEF Accepts, PendingTells
  <1>5. ActiveTells' /\ FinalsTell'
    BY <1>1, <1>2, <1>3 DEF CycleInv, ActiveTells, FinalsTell, Accepts, Terminal
  <1>6. TasksTell'
    <2>1. ASSUME NEW t \in state.tasks PROVE state'.cycles[t.cycle] # None
      <3>1. t.cycle \in Cycles /\ state.cycles[t.cycle] # None
        BY TypeFacts DEF CycleInv, TasksTell, Task
      <3>2. QED
        BY <1>2, <1>3, <3>1
    <2>2. QED
      BY <2>1 DEF TasksTell, Accepts
  <1>7. Checkpointed(state)' = Checkpointed(state)
    BY DEF Accepts, Elsewhere, Checkpointed
  <1>8. OpenTells'
    <2>1. \A t \in Open(state) : t = state.pending
      BY <1>2 DEF CycleInv, OpenTells, Stalled
    <2>2. Open(state) = {}
      BY <2>1 DEF Open
    <2>3. QED
      BY <1>7, <2>2 DEF OpenTells, Open, Accepts
  <1>9. ResultsTell'
    BY ResultsKept DEF Accepts
  <1>10. ChainTells'
    BY <1>1, <1>3 DEF CycleInv, ChainTells, Revised, Accepts
  <1>11. ReviewsTell'
    BY <1>1, <1>2, <1>3 DEF CycleInv, ReviewsTell, Accepts
  <1>12. AcceptTells'
    <2> SUFFICES ASSUME NEW d \in Cycles, state'.cycles[d] # None,
                        state'.cycles[d].decision = "ACCEPT"
                 PROVE  /\ MayAccept(d)'
                        /\ LatestReview(d)'.reviewed = state'.cycles[d].candidate
                        /\ LatestReview(d)'.iteration = state'.cycles[d].iteration
                        /\ state'.spent[d] <= CycleLimit
                        /\ \A t \in state'.tasks :
                             t.cycle = d /\ Builder(t) => t \in Checkpointed(state)'
      BY DEF AcceptTells
    <2>1. CASE d = c
      BY <1>3, <2>1 DEF Merited, MayAccept, LatestReview, LatestOf, Checkpointed
    <2>2. CASE d # c
      BY <1>3, <1>7, <2>2 DEF CycleInv, AcceptTells, Accepts, MayAccept, LatestReview
    <2>3. QED
      BY <2>1, <2>2
  <1>13. QED
    BY <1>4, <1>5, <1>6, <1>8, <1>9, <1>10, <1>11, <1>12 DEF CycleInv, Accepts

-----------------------------------------------------------------------------
(* The operations                                                            *)

\* A candidate is that of a builder's task, if it is not the cycle's first commit.
Built(s, c, i) ==
    \E task \in s.tasks : Builder(task) /\ task.cycle = c /\ task.iteration = i

\* Outside the general controller the result of the task that was pending is on file.
Replied == General \/ \E res \in state'.results : res.task = state.pending

\* The pending task stays the pending one, and its role's clock goes on.
Waits ==
    /\ state'.pending = state.pending
    /\ \/ state.timing.status = "NONE" /\ state'.timing.status = "EXECUTING"
       \/ /\ state.timing.status = "EXECUTING"
          /\ state'.timing.status \in {"COMPLETED", "INTERRUPTED"}

\* A task that is issued is the pending one, and it is pending until its result is on file.
Serves ==
    /\ state.results \subseteq state'.results
    /\ \A task \in state'.tasks : task \in state.tasks \/ task = state'.pending
    /\ state.pending = None \/ Waits \/ Replied

\* What no operation of the role cycle does: it lowers no hold, touches no closed or
\* accepted cycle, closes none as integrated or without raising the hold, enters no
\* candidate that no builder was asked for, leaves a general cycle open only with a
\* task to serve, admits no cycle while another is active, drops no task unanswered, and
\* lets no cycle await its integration that was not accepted.
RoleStep ==
    /\ Elsewhere(state, state')
    /\ state.tasks \subseteq state'.tasks
    /\ state.hold => state'.hold
    /\ \A c \in Cycles : state.cycles[c] # None =>
         /\ state'.cycles[c] # None /\ state'.cycles[c].target = state.cycles[c].target
         /\ state.cycles[c].decision = "ACCEPT" => state'.cycles[c] = state.cycles[c]
    /\ \A c \in Cycles : state.finals[c] # None =>
         state'.finals[c] = state.finals[c] /\ state'.cycles[c] = state.cycles[c]
    /\ \A c \in Cycles : state.finals[c] = None /\ state'.finals[c] # None =>
         state'.finals[c].reason # "INTEGRATED" /\ state'.hold
    /\ \A c \in Cycles : state'.cycles[c] # None =>
         \/ state.cycles[c] # None /\ state'.cycles[c].candidate = state.cycles[c].candidate
         \/ state'.cycles[c].candidate = 0
         \/ Built(state, c, state'.cycles[c].candidate)
    /\ General => state'.active = None \/ state'.pending # None
    /\ \A c \in Cycles : state.cycles[c] = None /\ state'.cycles[c] # None => state.active = None
    /\ Serves
    /\ \A c \in Cycles : state'.cycles[c] # None /\ state'.cycles[c].status = "REVIEW" =>
         state.cycles[c] = state'.cycles[c] \/ state'.cycles[c].decision = "ACCEPT"

\* A cycle that was not run yet is admitted, also under a hold.
LEMMA AdmissionKeeps ==
  ASSUME CycleInv, NEW c \in Cycles, NEW from \in Cycles \cup {None},
         state.active = None, state.cycles[c] = None,
         state' = Issue([state EXCEPT !.active = c], c, NewCycle(from), "ARCHITECT_PLAN")
  PROVE  /\ CycleInv' /\ RoleStep
         /\ state'.active = c /\ state'.cycles[c] # None /\ state'.finals = state.finals
         /\ \A d \in Cycles \ {c} : state'.cycles[d] = state.cycles[d]
  <1> DEFINE begun == [state EXCEPT !.active = c]
             cycle == NewCycle(from)
             task == NextTask(c, cycle, "ARCHITECT_PLAN")
             new == AtPurpose(cycle, "ARCHITECT_PLAN")
  <1>1. /\ state \in State /\ state.active = None /\ state.cycles[c] = None
        /\ state' = Issue(begun, c, cycle, "ARCHITECT_PLAN")
    BY DEF CycleInv
  <1>2. cycle \in Cycle /\ cycle.iteration = 1 /\ cycle.planRevision = 1 /\ cycle.candidate = 0
        /\ cycle.base = 0 /\ cycle.decision = "NONE"
    BY IterationAssumption DEF NewCycle, Cycle, Statuses, Stages, Purposes, Commits
  <1>3. begun \in State
    BY <1>1 DEF State
  <1>4. /\ DOMAIN state = Fields
        /\ begun.active = c /\ Elsewhere(state, begun) /\ begun.cycles = state.cycles
        /\ begun.tasks = state.tasks /\ begun.hold = state.hold /\ begun.spent = state.spent
        /\ begun.results = state.results /\ begun.iterations = state.iterations
        /\ begun.reviews = state.reviews /\ begun.finals = state.finals
    BY <1>1, StateFields DEF Fields, Elsewhere
  <1> HIDE DEF begun, cycle
  <1>5. /\ task \in Task /\ new \in Cycle
        /\ state' \in State /\ Elsewhere(begun, state')
        /\ state'.cycles = [begun.cycles EXCEPT ![c] = new]
        /\ state'.tasks = begun.tasks \cup {task} /\ state'.pending = task
        /\ state'.timing = NoTiming
        /\ state'.active = begun.active /\ state'.hold = begun.hold
        /\ state'.spent = begun.spent
        /\ state'.results = begun.results /\ state'.iterations = begun.iterations
        /\ state'.reviews = begun.reviews /\ state'.finals = begun.finals
    <2>1. "ARCHITECT_PLAN" \in Purposes
      BY DEF Purposes
    <2>2. QED
      BY <1>1, <1>2, <1>3, <2>1, IssueEffect
  <1>6. /\ new.iteration = 1 /\ new.planRevision = 1 /\ new.candidate = 0 /\ new.base = 0
        /\ new.decision = "NONE" /\ new.status = "AWAITING_HUMAN_ROLE" /\ new # None
    BY <1>2, NextTaskFacts DEF Purposes
  <1>7. /\ task.cycle = c /\ task.purpose = "ARCHITECT_PLAN" /\ task.iteration = 1
        /\ task.planRevision = 1 /\ task # None
    BY <1>2, NextTaskFacts DEF Purposes
  <1> HIDE DEF task, new
  <1>8. /\ state'.cycles[c] = new /\ \A d \in Cycles \ {c} : state'.cycles[d] = state.cycles[d]
    <2>1. DOMAIN state.cycles = Cycles
      BY <1>1, TypeFacts
    <2>2. state'.cycles = [state.cycles EXCEPT ![c] = new]
      BY <1>4, <1>5
    <2>3. QED
      BY <2>1, <2>2
  <1>9. Elsewhere(state, state') /\ Checkpointed(state)' = Checkpointed(state)
    BY <1>4, <1>5 DEF Elsewhere, Checkpointed
  <1>10. \A t \in state.tasks : t.cycle # c
    BY <1>1 DEF CycleInv, TasksTell
  <1>11. state.finals[c] = None /\ state.reviews[c] = <<>>
    BY <1>1 DEF CycleInv, FinalsTell, ReviewsTell
  <1>12. \A d \in Cycles : state.cycles[d] # None => state.cycles[d].status \in Terminal
    BY <1>1, NoneAssumption DEF CycleInv, ActiveTells
  <1>13. PendingTells'
    <2>1. StageTells(state', task)
      BY <1>6, <1>7, <1>8 DEF StageTells
    <2>2. \A res \in state'.results : res.task # task
      BY <1>4, <1>5, <1>7, <1>10 DEF CycleInv, ResultsTell
    <2>3. QED
      BY <1>4, <1>5, <1>6, <1>7, <1>8, <2>1, <2>2 DEF PendingTells
  <1>14. ActiveTells' /\ FinalsTell'
    BY <1>4, <1>5, <1>6, <1>8, <1>11, <1>12 DEF CycleInv, FinalsTell, ActiveTells, Terminal
  <1>15. TasksTell'
    <2>1. ASSUME NEW t \in state.tasks
          PROVE  state'.cycles[t.cycle] # None /\ t.cycle # task.cycle
      <3>1. t.cycle \in Cycles /\ state.cycles[t.cycle] # None
        BY <1>1, TypeFacts DEF CycleInv, TasksTell, Task
      <3>2. QED
        BY <1>7, <1>8, <1>10, <3>1
    <2>2. QED
      BY <1>4, <1>5, <1>6, <1>7, <1>8, <2>1 DEF TasksTell
  <1>16. OpenTells'
    <2>1. state.pending = None
      BY <1>1, PendingFacts, NoneAssumption
    <2>2. Open(state) # {} => state.hold
      BY <1>1, <2>1, TypeFacts, NoTaskAssumption DEF CycleInv, OpenTells, Open, Stalled
    <2>3. Open(state)' = Open(state)
      BY <1>4, <1>5, <1>7, <1>9 DEF Open, Builder
    <2>4. state.hold => Stalled'
      <3>1. NoTiming.status = "NONE"
        BY DEF NoTiming
      <3>2. /\ state'.pending # None /\ state'.pending.purpose = "ARCHITECT_PLAN"
            /\ state'.timing.status = "NONE"
        BY <1>5, <1>7, <3>1
      <3>3. state'.hold = state.hold
        BY <1>4, <1>5
      <3>4. QED
        BY <3>2, <3>3 DEF Stalled
    <2>5. QED
      BY <2>2, <2>3, <2>4 DEF CycleInv, OpenTells
  <1>17. ResultsTell'
    BY <1>4, <1>5 DEF CycleInv, ResultsTell
  <1>18. ChainTells'
    BY <1>4, <1>5, <1>6, <1>7, <1>8 DEF CycleInv, ChainTells, Revised, Builder
  <1>19. ReviewsTell'
    BY <1>4, <1>5, <1>6, <1>7, <1>8, <1>11 DEF CycleInv, ReviewsTell
  <1>20. AcceptTells'
    <2> SUFFICES ASSUME NEW d \in Cycles, state'.cycles[d] # None,
                        state'.cycles[d].decision = "ACCEPT"
                 PROVE  /\ MayAccept(d)'
                        /\ LatestReview(d)'.reviewed = state'.cycles[d].candidate
                        /\ LatestReview(d)'.iteration = state'.cycles[d].iteration
                        /\ state'.spent[d] <= CycleLimit
                        /\ \A t \in state'.tasks :
                             t.cycle = d /\ Builder(t) => t \in Checkpointed(state)'
      BY DEF AcceptTells
    <2>1. d # c /\ state'.cycles[d] = state.cycles[d]
      BY <1>6, <1>8
    <2>2. \A t \in state'.tasks : t.cycle = d => t \in state.tasks
      BY <1>4, <1>5, <1>7, <2>1
    <2>3. QED
      BY <1>4, <1>5, <1>9, <2>1, <2>2 DEF CycleInv, AcceptTells, MayAccept, LatestReview
  <1>21. state.pending = None
    BY <1>1, PendingFacts, NoneAssumption
  <1>22. Serves
    BY <1>4, <1>5, <1>21 DEF Serves
  <1>23. RoleStep
    BY <1>1, <1>4, <1>5, <1>6, <1>7, <1>8, <1>9, <1>11, <1>22 DEF RoleStep
  <1>24. QED
    BY <1>4, <1>5, <1>6, <1>8, <1>13, <1>14, <1>15, <1>16, <1>17, <1>18, <1>19, <1>20, <1>23
    DEF CycleInv

LEMMA EnqueueKeeps ==
  ASSUME CycleInv, NEW c \in Cycles, NEW from \in Cycles \cup {None}, EnqueueRequest(c, from)
  PROVE  CycleInv' /\ RoleStep
  BY AdmissionKeeps DEF EnqueueRequest

LEMMA TimingKeeps ==
  ASSUME CycleInv, StartRole \/ \E ms \in Durations : FinishRole(ms) \/ InterruptRole(ms)
  PROVE  CycleInv' /\ RoleStep
  <1>1. state \in State /\ DOMAIN state = Fields
    BY StateFields DEF CycleInv
  <1> DEFINE Spends == \A c \in Cycles : state.pending = None \/ c # state.pending.cycle =>
                           state'.spent[c] = state.spent[c]
             Same == /\ state' \in State /\ Elsewhere(state, state')
                     /\ state'.cycles = state.cycles /\ state'.tasks = state.tasks
                     /\ state'.pending = state.pending /\ state'.active = state.active
                     /\ state'.results = state.results /\ state'.iterations = state.iterations
                     /\ state'.reviews = state.reviews /\ state'.finals = state.finals
                     /\ (state.hold => state'.hold) /\ Waits /\ ~Stalled
  <1>2. ASSUME StartRole PROVE Same /\ Spends
    <2> DEFINE timing == [state.timing EXCEPT !.status = "EXECUTING"]
    <2>1. state' = [state EXCEPT !.timing = timing]
      BY <1>2 DEF StartRole
    <2>2. timing \in Timing
      BY <1>1 DEF State, Timing
    <2> HIDE DEF timing
    <2>3. state' \in State
      BY <1>1, <2>1, <2>2 DEF State
    <2>4. /\ state.timing.status = "NONE" /\ timing.status = "EXECUTING"
      BY <1>1, <1>2 DEF StartRole, timing, State, Timing
    <2>5. ~Stalled
      BY <1>2, PendingFacts, NoneAssumption DEF StartRole, HoldAllows, Stalled
    <2>6. Same /\ state'.spent = state.spent
      BY <1>1, <2>1, <2>3, <2>4, <2>5 DEF Fields, Elsewhere, Waits
    <2>7. QED
      BY <2>6
  <1>3. ASSUME NEW status \in {"COMPLETED", "INTERRUPTED"}, NEW ms \in Durations,
               state.pending # None, state.timing.status = "EXECUTING",
               state' = Timed(status, ms)
        PROVE  Same /\ Spends
    <2> DEFINE c == state.pending.cycle
               total == state.spent[c] + ms
               hold == state.hold \/ ms > RoleLimit \/ total > CycleLimit
               timing == [status |-> status, active |-> ms]
    <2>1. c \in Cycles
      BY <1>3, PendingFacts
    <2>2. ms \in Nat /\ state.spent[c] \in Nat /\ total \in Nat
      BY <2>1, TimeAssumption, TypeFacts DEF CycleInv
    <2>3. timing \in Timing
      BY <2>2 DEF Timing
    <2>4. state' = [state EXCEPT !.timing = timing, !.spent[c] = total, !.hold = hold]
      BY <1>3 DEF Timed
    <2>5. hold \in BOOLEAN /\ (state.hold => hold)
      OBVIOUS
    <2> HIDE DEF c, total, hold, timing
    <2>6. state' \in State
      BY <1>1, <2>1, <2>2, <2>3, <2>4, <2>5, ZenonT(60) DEF State
    <2>7. /\ state'.spent = [state.spent EXCEPT ![c] = total] /\ state'.hold = hold
          /\ state'.timing = timing
      BY <1>1, <2>4 DEF Fields
    <2>8. /\ state'.cycles = state.cycles /\ state'.tasks = state.tasks
          /\ state'.pending = state.pending /\ state'.active = state.active
          /\ state'.results = state.results /\ state'.iterations = state.iterations
          /\ state'.reviews = state.reviews /\ state'.finals = state.finals
          /\ Elsewhere(state, state')
      BY <1>1, <2>4 DEF Fields, Elsewhere
    <2>9. Spends
      BY <1>3, <2>7 DEF c
    <2>10. Waits
      BY <1>3, <2>7, <2>8 DEF Waits, timing
    <2>11. ~Stalled
      BY <1>3, <2>1, PendingFacts, NoneAssumption DEF Stalled
    <2>12. QED
      BY <2>5, <2>6, <2>7, <2>8, <2>9, <2>10, <2>11
  <1>4. Same /\ Spends
    BY <1>2, <1>3 DEF FinishRole, InterruptRole
  <1>5. Checkpointed(state)' = Checkpointed(state)
    BY <1>4 DEF Elsewhere, Checkpointed
  <1>6. CycleInv'
    BY <1>4, <1>5, QuietKeeps DEF Quiet
  <1>7. state'.pending # None
    BY <1>4 DEF StartRole, FinishRole, InterruptRole
  <1>8. RoleStep
    BY <1>4, <1>7 DEF RoleStep, Serves
  <1>9. QED
    BY <1>6, <1>8

\* The candidate is left as it was, or is that of the builder's task.
Enters(task, candidate) ==
    \/ candidate = state.cycles[task.cycle].candidate
    \/ Builder(task) /\ candidate = task.iteration

\* A result moves the cycle on, or closes it.
LEMMA AdvanceRole ==
  ASSUME CycleInv, NEW task, task = state.pending, task # None, NEW res, NEW cycle, NEW new,
         Advances(task, res, cycle, new), state.hold => state'.hold,
         res.task = task, cycle # None, cycle.status # "REVIEW",
         cycle.target = state.cycles[task.cycle].target,
         Enters(task, cycle.candidate), new # None
  PROVE  RoleStep
  <1>1. /\ task \in state.tasks /\ task.cycle \in Cycles /\ state.cycles[task.cycle].decision = "NONE"
        /\ state.finals[task.cycle] = None
    BY PendingFacts
  <1>2. /\ state'.cycles[task.cycle] = cycle
        /\ \A d \in Cycles \ {task.cycle} : state'.cycles[d] = state.cycles[d]
    BY <1>1, TypeFacts DEF Advances, CycleInv
  <1>3. \/ cycle.candidate = state.cycles[task.cycle].candidate
        \/ Built(state, task.cycle, cycle.candidate)
    BY <1>1 DEF Enters, Built
  <1>4. Serves
    BY <1>1 DEF Serves, Replied, Advances
  <1>5. QED
    BY <1>1, <1>2, <1>3, <1>4, PendingFacts DEF RoleStep, Advances

LEMMA CloseRole ==
  ASSUME CycleInv, NEW c \in Cycles, state.active = c, NEW cycle, Closes(c, cycle), state'.hold,
         Elsewhere(state, state'),
         state.cycles[c].decision # "ACCEPT", state'.finals[c].reason # "INTEGRATED",
         Replied, cycle # None, cycle.status # "REVIEW", cycle.target = state.cycles[c].target,
         cycle.candidate = state.cycles[c].candidate
  PROVE  RoleStep
  <1>1. state.finals[c] = None /\ state.cycles[c] # None
    BY DEF CycleInv, ActiveTells, FinalsTell
  <1>2. /\ state'.cycles[c] = cycle
        /\ \A d \in Cycles \ {c} : state'.cycles[d] = state.cycles[d]
    BY TypeFacts DEF Closes, CycleInv
  <1>3. Serves
    BY DEF Serves, Closes
  <1>4. QED
    BY <1>1, <1>2, <1>3 DEF RoleStep, Closes

\* The record of an accepted result.
ResultOf(task, r) == [task |-> task, verdict |-> r.verdict, active |-> state.timing.active]

\* The state with the result recorded, before the next task is issued.
Midway(task, r, s) ==
    /\ s \in State /\ Elsewhere(state, s)
    /\ s.cycles = state.cycles /\ s.tasks = state.tasks /\ s.active = state.active
    /\ s.spent = state.spent /\ s.finals = state.finals
    /\ s.results = state.results \cup {ResultOf(task, r)}
    /\ \A d \in Cycles : d # task.cycle => s.reviews[d] = state.reviews[d]
    /\ state.hold => s.hold

\* What StageTells will say once the task of this purpose is issued.
Staged(s, c, cycle, purpose) ==
    /\ IF purpose \in {"ARCHITECT_PLAN", "BUILDER_IMPLEMENTATION"}
       THEN cycle.candidate = cycle.iteration - 1
       ELSE cycle.candidate = cycle.iteration
    /\ purpose = "ARCHITECT_PLAN" => cycle.iteration = 1
    /\ IF purpose = "ARCHITECT_REVISION"
       THEN /\ cycle.iteration < MaxIterations /\ Revised(s, c, cycle.iteration)
            /\ cycle.planRevision <= cycle.iteration + 1
       ELSE cycle.planRevision <= cycle.iteration
    /\ purpose = "ARCHITECT_FINAL_DECISION" =>
         /\ s.reviews[c] # <<>>
         /\ LatestOf(s, c).iteration = cycle.iteration
         /\ LatestOf(s, c).reviewed = cycle.iteration

\* A result that was acceptable is one of the pending task, in time.
LEMMA AcceptableFacts ==
  ASSUME CycleInv, NEW task, NEW r \in Result, Acceptable(task, r)
  PROVE  /\ state.pending # None /\ task = state.pending /\ task \in Task
         /\ InTime(task, ResultOf(task, r))
         /\ r.verdict # "BLOCKED" => state.spent[task.cycle] <= CycleLimit
         /\ state.hold => Disposition(task, r)
         /\ state.timing.status # "NONE"
  BY PendingFacts DEF Acceptable, InTime, ResultOf, TimingAllows

LEMMA IssueKeeps ==
  ASSUME CycleInv, NEW task, NEW r \in Result, Acceptable(task, r),
         NEW s, Midway(task, r, s), NEW cycle \in Cycle, NEW purpose \in Purposes,
         state' = Issue(s, task.cycle, cycle, purpose),
         cycle.decision = "NONE", cycle.base = cycle.iteration - 1,
         cycle.target = state.cycles[task.cycle].target,
         Enters(task, cycle.candidate),
         Rank(task) < Rank(NextTask(task.cycle, cycle, purpose)),
         Staged(s, task.cycle, cycle, purpose),
         Builder(task) => task \in Checkpointed(state),
         Chained(s, state.tasks),
         purpose = "BUILDER_IMPLEMENTATION" /\ cycle.iteration > 1 =>
             Revised(s, task.cycle, cycle.iteration - 1),
         ReviewedBefore(s, task.cycle, Rank(NextTask(task.cycle, cycle, purpose)))
  PROVE  CycleInv' /\ RoleStep
  <1> DEFINE c == task.cycle
             new == NextTask(c, cycle, purpose)
             next == AtPurpose(cycle, purpose)
             res == ResultOf(task, r)
  <1>1. /\ task = state.pending /\ task # None /\ task \in Task /\ c \in Cycles
        /\ InTime(task, res) /\ state.timing.status # "NONE"
    BY AcceptableFacts, PendingFacts
  <1>2. /\ new \in Task /\ next \in Cycle
        /\ state' \in State /\ Elsewhere(s, state')
        /\ state'.cycles = [s.cycles EXCEPT ![c] = next]
        /\ state'.tasks = s.tasks \cup {new} /\ state'.pending = new
        /\ state'.active = s.active /\ state'.hold = s.hold /\ state'.spent = s.spent
        /\ state'.results = s.results /\ state'.iterations = s.iterations
        /\ state'.reviews = s.reviews /\ state'.finals = s.finals
    BY <1>1, IssueEffect DEF Midway
  <1>3. /\ new.cycle = c /\ new.purpose = purpose
        /\ new.iteration = cycle.iteration /\ new.planRevision = cycle.planRevision
    BY <1>1, NextTaskFacts
  <1>4. /\ next.status = "AWAITING_HUMAN_ROLE" /\ next # None
        /\ next.iteration = cycle.iteration /\ next.planRevision = cycle.planRevision
        /\ next.target = cycle.target /\ next.base = cycle.base
        /\ next.candidate = cycle.candidate /\ next.decision = cycle.decision
    BY <1>1, NextTaskFacts
  <1>5. Rank(task) < Rank(new) /\ ReviewedBefore(s, c, Rank(new))
    OBVIOUS
  <1> HIDE DEF new, next, res
  <1>6. Elsewhere(state, state')
    BY <1>2 DEF Elsewhere, Midway
  <1>7. Advances(task, res, next, new)
    BY <1>2, <1>3, <1>6 DEF Advances, Midway, res
  <1>8. state'.cycles[c] = next
    BY <1>1, <1>2, TypeFacts DEF Midway, CycleInv
  <1>9. StageTells(state', new)
    BY <1>2, <1>3, <1>4, <1>8 DEF StageTells, Staged, Revised, LatestOf
  <1>10. Chained(state', state'.tasks)
    BY <1>2, <1>3 DEF Midway, Revised, Builder, Chained
  <1>11. ReviewedBefore(state', task.cycle, Rank(new))
    BY <1>2, <1>5 DEF ReviewedBefore
  <1>12. next.base = next.iteration - 1 /\ next.decision = "NONE"
    BY <1>4
  <1>13. CycleInv'
    BY <1>1, <1>2, <1>4, <1>5, <1>7, <1>9, <1>10, <1>11, <1>12, AdvanceKeeps
  <1>14. state.hold => state'.hold
    BY <1>2 DEF Midway
  <1>15. RoleStep
    BY <1>1, <1>2, <1>4, <1>7, <1>14, NoTaskAssumption, AdvanceRole DEF InTime
  <1>16. QED
    BY <1>13, <1>15

LEMMA RecordedMidway ==
  ASSUME CycleInv, NEW task, NEW r \in Result, Acceptable(task, r)
  PROVE  LET s == Recorded(task, r)
         IN  /\ Midway(task, r, s) /\ DOMAIN s = Fields /\ s.pending = None
             /\ s.plans = state.plans /\ s.iterations = state.iterations
             /\ s.reviews = state.reviews /\ s.hold = state.hold
  <1> DEFINE s == Recorded(task, r)
  <1>1. task \in Task /\ state \in State
    BY AcceptableFacts DEF CycleInv
  <1>2. /\ s \in State /\ Elsewhere(state, s) /\ s.pending = None
        /\ s.results = state.results \cup {ResultOf(task, r)}
        /\ s.cycles = state.cycles /\ s.active = state.active /\ s.hold = state.hold
        /\ s.plans = state.plans /\ s.spent = state.spent /\ s.tasks = state.tasks
        /\ s.iterations = state.iterations /\ s.reviews = state.reviews
        /\ s.finals = state.finals
    BY <1>1, RecordedEffect DEF ResultOf
  <1> HIDE DEF s
  <1>3. Midway(task, r, s)
    BY <1>2 DEF Midway
  <1>4. DOMAIN s = Fields
    BY <1>2, StateFields
  <1>5. QED
    BY <1>2, <1>3, <1>4 DEF s

LEMMA PlannedMidway ==
  ASSUME CycleInv, NEW task, NEW r \in Result, Acceptable(task, r), NEW i \in 1 .. MaxIterations
  PROVE  LET s == [Recorded(task, r) EXCEPT !.plans[task.cycle] = @ \cup {i}]
         IN  /\ Midway(task, r, s)
             /\ s.iterations = state.iterations /\ s.reviews = state.reviews
  <1> DEFINE t == Recorded(task, r)
             s == [t EXCEPT !.plans[task.cycle] = @ \cup {i}]
  <1>1. /\ Midway(task, r, t) /\ DOMAIN t = Fields
        /\ t.iterations = state.iterations /\ t.reviews = state.reviews /\ t.hold = state.hold
    BY RecordedMidway
  <1>2. t \in State
    BY <1>1 DEF Midway
  <1> HIDE DEF t
  <1>3. s \in State
    BY <1>2 DEF State
  <1>4. /\ Elsewhere(t, s) /\ s.cycles = t.cycles /\ s.tasks = t.tasks /\ s.active = t.active
        /\ s.spent = t.spent /\ s.finals = t.finals /\ s.results = t.results
        /\ s.reviews = t.reviews /\ s.iterations = t.iterations /\ s.hold = t.hold
    BY <1>1 DEF Fields, Elsewhere
  <1> HIDE DEF s
  <1>5. Midway(task, r, s)
    BY <1>1, <1>3, <1>4 DEF Midway, Elsewhere
  <1>6. QED
    BY <1>1, <1>4, <1>5 DEF s, t

LEMMA BuiltMidway ==
  ASSUME CycleInv, NEW task, NEW r \in Result, Acceptable(task, r), NEW record \in Iteration
  PROVE  LET s == [Recorded(task, r) EXCEPT !.iterations = @ \cup {record}]
         IN  /\ Midway(task, r, s)
             /\ s.iterations = state.iterations \cup {record} /\ s.reviews = state.reviews
  <1> DEFINE t == Recorded(task, r)
             s == [t EXCEPT !.iterations = @ \cup {record}]
  <1>1. /\ Midway(task, r, t) /\ DOMAIN t = Fields
        /\ t.iterations = state.iterations /\ t.reviews = state.reviews /\ t.hold = state.hold
    BY RecordedMidway
  <1>2. t \in State
    BY <1>1 DEF Midway
  <1> HIDE DEF t
  <1>3. s \in State
    BY <1>2 DEF State
  <1>4. /\ Elsewhere(t, s) /\ s.cycles = t.cycles /\ s.tasks = t.tasks /\ s.active = t.active
        /\ s.spent = t.spent /\ s.finals = t.finals /\ s.results = t.results
        /\ s.reviews = t.reviews /\ s.iterations = t.iterations \cup {record} /\ s.hold = t.hold
    BY <1>1 DEF Fields, Elsewhere
  <1> HIDE DEF s
  <1>5. Midway(task, r, s)
    BY <1>1, <1>3, <1>4 DEF Midway, Elsewhere
  <1>6. QED
    BY <1>1, <1>4, <1>5 DEF s, t

\* A state with the result, these iterations and one more review of its cycle.
WithReview(s, task, r, records, review) ==
    /\ records \in SUBSET Iteration /\ review \in Review
    /\ s = [Recorded(task, r) EXCEPT !.iterations = records,
                                     !.reviews[task.cycle] = Append(@, review)]

LEMMA ReviewedMidway ==
  ASSUME CycleInv, NEW task, NEW r \in Result, Acceptable(task, r),
         NEW s, NEW records, NEW review, WithReview(s, task, r, records, review)
  PROVE  /\ Midway(task, r, s) /\ s.iterations = records /\ s.hold = state.hold
         /\ s.reviews[task.cycle] = Append(state.reviews[task.cycle], review)
  <1> DEFINE t == Recorded(task, r)
             longer == Append(t.reviews[task.cycle], review)
  <1>1. /\ Midway(task, r, t) /\ DOMAIN t = Fields
        /\ t.iterations = state.iterations /\ t.reviews = state.reviews /\ t.hold = state.hold
    BY RecordedMidway
  <1>2. t \in State /\ task.cycle \in Cycles
    BY <1>1, AcceptableFacts, PendingFacts DEF Midway
  <1>3. s = [t EXCEPT !.iterations = records, !.reviews[task.cycle] = longer]
    BY DEF WithReview
  <1>4. records \in SUBSET Iteration /\ review \in Review
    BY DEF WithReview
  <1> HIDE DEF t
  <1>5. t.reviews \in [Cycles -> Seq(Review)]
    BY <1>2 DEF State
  <1>6. longer \in Seq(Review)
    BY <1>2, <1>4, <1>5
  <1> HIDE DEF longer
  <1>7. s \in State
    BY <1>2, <1>3, <1>4, <1>6 DEF State
  <1>8. /\ Elsewhere(t, s) /\ s.cycles = t.cycles /\ s.tasks = t.tasks /\ s.active = t.active
        /\ s.spent = t.spent /\ s.finals = t.finals /\ s.results = t.results
        /\ s.reviews = [t.reviews EXCEPT ![task.cycle] = longer]
        /\ s.iterations = records /\ s.hold = t.hold /\ DOMAIN s = Fields
    BY <1>1, <1>3 DEF Fields, Elsewhere
  <1>9. /\ s.reviews[task.cycle] = longer
        /\ \A d \in Cycles : d # task.cycle => s.reviews[d] = t.reviews[d]
    BY <1>2, <1>5, <1>8
  <1>10. Midway(task, r, s)
    BY <1>1, <1>7, <1>8, <1>9 DEF Midway, Elsewhere
  <1>11. QED
    BY <1>1, <1>8, <1>9, <1>10 DEF t, longer

LEMMA HeldMidway ==
  ASSUME NEW task, NEW r, NEW s, Midway(task, r, s), NEW hold \in BOOLEAN, state.hold => hold,
         NEW h, h = [s EXCEPT !.hold = hold]
  PROVE  Midway(task, r, h) /\ h.iterations = s.iterations /\ h.reviews = s.reviews
  <1>1. s \in State /\ DOMAIN s = Fields
    BY StateFields DEF Midway
  <1>2. h \in State
    BY <1>1 DEF State
  <1>3. /\ Elsewhere(s, h) /\ h.cycles = s.cycles /\ h.tasks = s.tasks /\ h.active = s.active
        /\ h.spent = s.spent /\ h.finals = s.finals /\ h.results = s.results
        /\ h.reviews = s.reviews /\ h.iterations = s.iterations /\ h.hold = hold
    BY <1>1 DEF Fields, Elsewhere
  <1>4. Midway(task, r, h)
    BY <1>2, <1>3 DEF Midway, Elsewhere
  <1>5. QED
    BY <1>3, <1>4

\* What IssueKeeps needs of the state before the result.
LEMMA CurrentFacts ==
  ASSUME CycleInv, state.pending # None
  PROVE  LET task == state.pending
             cycle == state.cycles[task.cycle]
         IN  /\ Chained(state, state.tasks)
             /\ cycle.base = cycle.iteration - 1
             /\ cycle.iteration \in 1 .. MaxIterations /\ cycle.planRevision \in 1 .. MaxIterations
             /\ task.iteration = cycle.iteration /\ task.planRevision = cycle.planRevision
             /\ \A rank \in Nat :
                  Rank(task) < rank => ReviewedBefore(state, task.cycle, rank)
  <1> DEFINE task == state.pending
             cycle == state.cycles[task.cycle]
  <1>1. /\ task \in Task /\ task.cycle \in Cycles /\ cycle \in Cycle /\ cycle # None
        /\ StageTells(state, task)
    BY PendingFacts
  <1>2. Chained(state, state.tasks) /\ cycle.base = cycle.iteration - 1
    BY <1>1 DEF CycleInv, ChainTells, Chained
  <1>3. cycle.iteration \in 1 .. MaxIterations /\ cycle.planRevision \in 1 .. MaxIterations
    BY <1>1 DEF Cycle
  <1>4. task.iteration = cycle.iteration /\ task.planRevision = cycle.planRevision
    BY <1>1 DEF StageTells
  <1>5. ASSUME NEW rank \in Nat, Rank(task) < rank
        PROVE  ReviewedBefore(state, task.cycle, rank)
    <2>1. \A i \in DOMAIN state.reviews[task.cycle] :
            state.reviews[task.cycle][i].iteration \in Nat
      <3>1. state.reviews[task.cycle] \in Seq(Review)
        BY <1>1, TypeFacts DEF CycleInv
      <3>2. \A i \in DOMAIN state.reviews[task.cycle] : state.reviews[task.cycle][i] \in Review
        BY <3>1
      <3>3. QED
        BY <3>2 DEF Review
    <2>2. Rank(task) \in Nat
      BY <1>1, RankFacts
    <2>3. \A i \in DOMAIN state.reviews[task.cycle] :
            3 * state.reviews[task.cycle][i].iteration + 2 < Rank(task)
      BY <1>1 DEF CycleInv, ReviewsTell
    <2>4. \A i, j \in DOMAIN state.reviews[task.cycle] :
            i # j => state.reviews[task.cycle][i].iteration # state.reviews[task.cycle][j].iteration
      BY <1>1 DEF CycleInv, ReviewsTell
    <2>5. \A i \in DOMAIN state.reviews[task.cycle] :
            3 * state.reviews[task.cycle][i].iteration + 2 < rank
      BY <1>5, <2>1, <2>2, <2>3
    <2>6. QED
      BY <2>4, <2>5 DEF ReviewedBefore
  <1>6. QED
    BY <1>2, <1>3, <1>4, <1>5

LEMMA PlanKeeps ==
  ASSUME CycleInv, NEW task, NEW r \in Result, SubmitPlan(task, r)
  PROVE  CycleInv' /\ RoleStep
  <1> DEFINE c == task.cycle
             cycle == state.cycles[c]
             s == [Recorded(task, r) EXCEPT !.plans[c] = @ \cup {task.planRevision}]
             new == NextTask(c, cycle, "BUILDER_IMPLEMENTATION")
  <1>1. /\ Acceptable(task, r) /\ task.purpose = "ARCHITECT_PLAN"
        /\ state' = Issue(s, c, cycle, "BUILDER_IMPLEMENTATION")
    BY DEF SubmitPlan
  <1>2. task \in Task /\ task = state.pending /\ state.pending # None
    BY <1>1, AcceptableFacts
  <1>3. c \in Cycles /\ cycle \in Cycle /\ cycle.decision = "NONE" /\ StageTells(state, task)
    BY <1>2, PendingFacts
  <1>4. /\ Chained(state, state.tasks) /\ cycle.base = cycle.iteration - 1
        /\ cycle.iteration \in Nat /\ task.iteration = cycle.iteration
        /\ task.planRevision \in 1 .. MaxIterations
        /\ \A rank \in Nat : Rank(task) < rank => ReviewedBefore(state, c, rank)
    BY <1>2, CurrentFacts
  <1>5. Midway(task, r, s) /\ s.iterations = state.iterations /\ s.reviews = state.reviews
    BY <1>1, <1>4, PlannedMidway
  <1> HIDE DEF s
  <1>6. "BUILDER_IMPLEMENTATION" \in Purposes
    BY DEF Purposes
  <1>7. new \in Task /\ new.purpose = "BUILDER_IMPLEMENTATION" /\ new.iteration = cycle.iteration
    BY <1>3, <1>6, NextTaskFacts
  <1>8. Rank(task) = 3 * task.iteration /\ Rank(new) = 3 * new.iteration + 1
    BY <1>1, <1>2, <1>7, RankFacts DEF Builder
  <1> HIDE DEF new
  <1>9. Rank(task) < Rank(new) /\ Rank(new) \in Nat
    BY <1>4, <1>7, <1>8
  <1>10. Staged(s, c, cycle, "BUILDER_IMPLEMENTATION") /\ cycle.iteration = 1
    BY <1>1, <1>3 DEF StageTells, Staged
  <1>11. Chained(s, state.tasks)
    BY <1>4, <1>5 DEF Chained, Revised
  <1>12. ReviewedBefore(s, c, Rank(new))
    BY <1>4, <1>5, <1>9 DEF ReviewedBefore
  <1>13. ~Builder(task)
    BY <1>1 DEF Builder
  <1>14. Enters(task, cycle.candidate)
    BY DEF Enters
  <1> HIDE DEF cycle
  <1>15. QED
    BY <1>1, <1>3, <1>4, <1>5, <1>6, <1>9, <1>10, <1>11, <1>12, <1>13, <1>14, IssueKeeps
    DEF new, cycle

LEMMA NextIterationFacts ==
  ASSUME NEW cycle \in Cycle, cycle.iteration < MaxIterations
  PROVE  LET next == NextIteration(cycle)
         IN  /\ next \in Cycle /\ next.iteration = cycle.iteration + 1
             /\ next.base = cycle.candidate /\ next.candidate = cycle.candidate
             /\ next.planRevision = cycle.planRevision /\ next.target = cycle.target
             /\ next.decision = cycle.decision
  <1>1. cycle.iteration + 1 \in 1 .. MaxIterations
    BY IterationAssumption DEF Cycle
  <1>2. cycle.candidate \in Commits
    BY DEF Cycle
  <1>3. NextIteration(cycle) =
          [cycle EXCEPT !.iteration = cycle.iteration + 1, !.base = cycle.candidate]
    BY DEF NextIteration, Cycle
  <1>4. QED
    BY <1>1, <1>2, <1>3 DEF Cycle

LEMMA RevisionKeeps ==
  ASSUME CycleInv, NEW task, NEW r \in Result, SubmitRevision(task, r)
  PROVE  CycleInv' /\ RoleStep
  <1> DEFINE c == task.cycle
             cycle == state.cycles[c]
             next == NextIteration(cycle)
             s == [Recorded(task, r) EXCEPT !.plans[c] = @ \cup {task.planRevision}]
             new == NextTask(c, next, "BUILDER_IMPLEMENTATION")
  <1>1. /\ Acceptable(task, r) /\ task.purpose = "ARCHITECT_REVISION"
        /\ cycle.iteration < MaxIterations
        /\ state' = Issue(s, c, next, "BUILDER_IMPLEMENTATION")
    BY DEF SubmitRevision
  <1>2. task \in Task /\ task = state.pending /\ state.pending # None
    BY <1>1, AcceptableFacts
  <1>3. c \in Cycles /\ cycle \in Cycle /\ cycle.decision = "NONE" /\ StageTells(state, task)
    BY <1>2, PendingFacts
  <1>4. /\ Chained(state, state.tasks)
        /\ cycle.iteration \in Nat /\ task.iteration = cycle.iteration
        /\ task.planRevision \in 1 .. MaxIterations /\ cycle.planRevision \in Nat
        /\ \A rank \in Nat : Rank(task) < rank => ReviewedBefore(state, c, rank)
    BY <1>2, CurrentFacts
  <1>5. Midway(task, r, s) /\ s.iterations = state.iterations /\ s.reviews = state.reviews
    BY <1>1, <1>4, PlannedMidway
  <1> HIDE DEF s
  <1>6. "BUILDER_IMPLEMENTATION" \in Purposes
    BY DEF Purposes
  <1>7. /\ next \in Cycle /\ next.iteration = cycle.iteration + 1
        /\ next.base = cycle.candidate /\ next.candidate = cycle.candidate
        /\ next.planRevision = cycle.planRevision /\ next.target = cycle.target
        /\ next.decision = "NONE"
    BY <1>1, <1>3, NextIterationFacts
  <1>8. /\ cycle.candidate = cycle.iteration /\ Revised(state, c, cycle.iteration)
        /\ cycle.planRevision <= cycle.iteration + 1
    BY <1>1, <1>3 DEF StageTells
  <1> HIDE DEF next, cycle
  <1>9. new \in Task /\ new.purpose = "BUILDER_IMPLEMENTATION" /\ new.iteration = next.iteration
    BY <1>3, <1>6, <1>7, NextTaskFacts
  <1>10. Rank(task) = 3 * task.iteration + 3 /\ Rank(new) = 3 * new.iteration + 1
    BY <1>1, <1>2, <1>9, RankFacts DEF Builder
  <1> HIDE DEF new
  <1>11. Rank(task) < Rank(new) /\ Rank(new) \in Nat
    BY <1>4, <1>7, <1>9, <1>10
  <1>12. Staged(s, c, next, "BUILDER_IMPLEMENTATION")
    BY <1>4, <1>7, <1>8 DEF Staged
  <1>13. Chained(s, state.tasks)
    BY <1>4, <1>5 DEF Chained, Revised
  <1>14. ReviewedBefore(s, c, Rank(new))
    BY <1>4, <1>5, <1>11 DEF ReviewedBefore
  <1>15. ~Builder(task)
    BY <1>1 DEF Builder
  <1>16. next.base = next.iteration - 1 /\ Revised(s, c, next.iteration - 1)
    BY <1>4, <1>5, <1>7, <1>8 DEF Revised
  <1>17. next.target = state.cycles[c].target
    BY <1>7 DEF cycle
  <1>18. Enters(task, next.candidate)
    BY <1>7 DEF Enters, cycle
  <1>19. QED
    BY <1>1, <1>5, <1>6, <1>7, <1>11, <1>12, <1>13, <1>14, <1>15, <1>16, <1>17, <1>18, IssueKeeps
    DEF new

LEMMA BuildKeeps ==
  ASSUME CycleInv, NEW task, NEW r \in Result, SubmitBuild(task, r)
  PROVE  CycleInv' /\ RoleStep
  <1> DEFINE c == task.cycle
             cycle == state.cycles[c]
             next == [cycle EXCEPT !.candidate = task.iteration]
             record == [cycle |-> c, index |-> next.iteration,
                        planRevision |-> next.planRevision,
                        candidate |-> task.iteration, verdict |-> "NONE"]
             s == [Recorded(task, r) EXCEPT !.iterations = @ \cup {record}]
             new == NextTask(c, next, "ANALYST_REVIEW")
  <1>1. /\ Acceptable(task, r) /\ Builder(task) /\ task \in Checkpointed(state)
        /\ state' = Issue(s, c, next, "ANALYST_REVIEW")
    BY DEF SubmitBuild, Builder
  <1>2. task \in Task /\ task = state.pending /\ state.pending # None
    BY <1>1, AcceptableFacts
  <1>3. c \in Cycles /\ cycle \in Cycle /\ cycle.decision = "NONE" /\ StageTells(state, task)
    BY <1>2, PendingFacts
  <1>4. /\ Chained(state, state.tasks) /\ cycle.base = cycle.iteration - 1
        /\ cycle.iteration \in 1 .. MaxIterations /\ task.iteration = cycle.iteration
        /\ cycle.planRevision \in 1 .. MaxIterations
        /\ \A rank \in Nat : Rank(task) < rank => ReviewedBefore(state, c, rank)
    BY <1>2, CurrentFacts
  <1>5. /\ next \in Cycle /\ next.iteration = cycle.iteration /\ next.base = cycle.base
        /\ next.candidate = task.iteration /\ next.planRevision = cycle.planRevision
        /\ next.target = cycle.target /\ next.decision = "NONE"
    BY <1>3, <1>4, IterationAssumption DEF Cycle, Commits
  <1> HIDE DEF next
  <1>6. record \in Iteration /\ record.candidate = record.index
    BY <1>3, <1>4, <1>5 DEF Iteration, Commits
  <1> HIDE DEF record
  <1>7. /\ Midway(task, r, s) /\ s.reviews = state.reviews
        /\ s.iterations = state.iterations \cup {record}
    BY <1>1, <1>6, BuiltMidway
  <1> HIDE DEF s
  <1>8. cycle.planRevision <= cycle.iteration
    BY <1>1, <1>3 DEF StageTells, Builder
  <1>9. "ANALYST_REVIEW" \in Purposes
    BY DEF Purposes
  <1> HIDE DEF cycle
  <1>10. new \in Task /\ new.purpose = "ANALYST_REVIEW" /\ new.iteration = next.iteration
    BY <1>3, <1>5, <1>9, NextTaskFacts
  <1>11. Rank(task) = 3 * task.iteration + 1 /\ Rank(new) = 3 * new.iteration + 2
    BY <1>1, <1>2, <1>10, RankFacts
  <1> HIDE DEF new
  <1>12. Rank(task) < Rank(new) /\ Rank(new) \in Nat
    BY <1>4, <1>5, <1>10, <1>11
  <1>13. Staged(s, c, next, "ANALYST_REVIEW")
    BY <1>4, <1>5, <1>8 DEF Staged
  <1>14. Chained(s, state.tasks)
    BY <1>4, <1>6, <1>7 DEF Chained, Revised
  <1>15. ReviewedBefore(s, c, Rank(new))
    BY <1>4, <1>7, <1>12 DEF ReviewedBefore
  <1>16. next.base = next.iteration - 1 /\ next.target = state.cycles[c].target
    BY <1>4, <1>5 DEF cycle
  <1>17. Enters(task, next.candidate)
    BY <1>1, <1>5 DEF Enters
  <1>18. QED
    BY <1>1, <1>5, <1>7, <1>9, <1>12, <1>13, <1>14, <1>15, <1>16, <1>17, IssueKeeps DEF new

\* The record with the review's verdict entered takes its place; nothing that later tasks
\* rest on is lost.
LEMMA VerdictKept ==
  ASSUME CycleInv, state.pending # None, state.pending.purpose = "ANALYST_REVIEW",
         NEW record \in state.iterations, record.cycle = state.pending.cycle,
         record.index = state.pending.iteration, NEW verdict \in AllVerdicts,
         NEW s, s.iterations = (state.iterations \ {record})
                                 \cup {[record EXCEPT !.verdict = verdict]}
  PROVE  /\ s.iterations \in SUBSET Iteration
         /\ Chained(s, state.tasks)
         /\ verdict = "REVISE" => Revised(s, record.cycle, record.index)
  <1> DEFINE entered == [record EXCEPT !.verdict = verdict]
             task == state.pending
  <1>1. record \in Iteration /\ state.iterations \subseteq Iteration
    BY TypeFacts DEF CycleInv
  <1>2. record.candidate = record.index
    BY DEF CycleInv, ChainTells
  <1>3. /\ entered \in Iteration /\ entered.cycle = record.cycle /\ entered.index = record.index
        /\ entered.candidate = record.index /\ entered.verdict = verdict
    BY <1>1, <1>2 DEF Iteration
  <1>4. s.iterations = (state.iterations \ {record}) \cup {entered}
    OBVIOUS
  <1> HIDE DEF entered
  <1>5. \A rec \in s.iterations : rec.candidate = rec.index
    BY <1>3, <1>4 DEF CycleInv, ChainTells
  <1>6. ASSUME NEW t \in state.tasks, Builder(t), t.iteration > 1
        PROVE  Revised(s, t.cycle, t.iteration - 1)
    <2>1. t \in Task /\ task \in Task /\ t.iteration \in Nat /\ task.iteration \in Nat
      BY PendingFacts, TypeFacts DEF CycleInv, Task
    <2>2. PICK rec \in state.iterations :
            /\ rec.cycle = t.cycle /\ rec.index = t.iteration - 1
            /\ rec.candidate = t.iteration - 1 /\ rec.verdict = "REVISE"
      BY <1>6 DEF CycleInv, ChainTells, Revised
    <2>3. Rank(t) = 3 * t.iteration + 1 /\ Rank(task) = 3 * task.iteration + 2
      BY <1>6, <2>1, RankFacts
    <2>4. t.cycle = task.cycle => t = task \/ Rank(t) < Rank(task)
      BY DEF CycleInv, TasksTell
    <2>5. t # task
      BY <1>6 DEF Builder
    <2>6. t.cycle = task.cycle => 3 * t.iteration < 3 * task.iteration + 1
      BY <2>1, <2>3, <2>4, <2>5
    <2>7. rec # record
      BY <2>1, <2>2, <2>6
    <2>8. QED
      BY <1>4, <2>2, <2>7 DEF Revised
  <1>7. s.iterations \in SUBSET Iteration
    BY <1>1, <1>3, <1>4
  <1>8. verdict = "REVISE" => Revised(s, record.cycle, record.index)
    BY <1>3, <1>4 DEF Revised
  <1>9. QED
    BY <1>5, <1>6, <1>7, <1>8 DEF Chained

\* The reviews with one more, of the pending task's iteration.
LEMMA ReviewAdded ==
  ASSUME CycleInv, state.pending # None, state.pending.purpose = "ANALYST_REVIEW",
         NEW review \in Review, review.iteration = state.pending.iteration, NEW s,
         s.reviews[state.pending.cycle] = Append(state.reviews[state.pending.cycle], review)
  PROVE  /\ s.reviews[state.pending.cycle] # <<>>
         /\ LatestOf(s, state.pending.cycle) = review
         /\ \A rank \in Nat : Rank(state.pending) < rank =>
               ReviewedBefore(s, state.pending.cycle, rank)
  <1> DEFINE task == state.pending
             c == task.cycle
             old == state.reviews[c]
             new == s.reviews[c]
  <1>1. task \in Task /\ c \in Cycles /\ old \in Seq(Review)
    BY PendingFacts, TypeFacts DEF CycleInv
  <1>2. task.iteration \in Nat /\ Rank(task) = 3 * task.iteration + 2
    BY <1>1, RankFacts DEF Task
  <1>3. new = Append(old, review)
    OBVIOUS
  <1>4. \A i, j \in DOMAIN old : i # j => old[i].iteration # old[j].iteration
    BY <1>1 DEF CycleInv, ReviewsTell
  <1>5. \A i \in DOMAIN old : 3 * old[i].iteration + 2 < Rank(task)
    BY <1>1 DEF CycleInv, ReviewsTell
  <1>6. LatestOf(s, c) = new[Len(new)]
    BY DEF LatestOf
  <1> HIDE DEF new, old
  <1>7. /\ Len(old) \in Nat /\ Len(new) = Len(old) + 1 /\ new[Len(new)] = review
        /\ DOMAIN new = 1 .. Len(old) + 1
        /\ \A i \in 1 .. Len(old) : new[i] = old[i] /\ old[i] \in Review
    BY <1>1, <1>3
  <1>8. \A i \in 1 .. Len(old) : 3 * old[i].iteration + 2 < Rank(task)
    BY <1>1, <1>5
  <1>9. \A i, j \in 1 .. Len(old) : i # j => old[i].iteration # old[j].iteration
    BY <1>1, <1>4
  <1>10. new # <<>> /\ LatestOf(s, c) = review
    BY <1>1, <1>7, <1>3, <1>6
  <1>11. \A i \in 1 .. Len(old) : old[i].iteration \in Nat /\ old[i].iteration < task.iteration
    <2>1. \A i \in 1 .. Len(old) : old[i].iteration \in Nat
      BY <1>7 DEF Review
    <2>2. QED
      BY <1>2, <1>8, <2>1, SMTT(30)
  <1>12. \A i, j \in 1 .. Len(old) + 1 : i # j => new[i].iteration # new[j].iteration
    <2> SUFFICES ASSUME NEW i \in 1 .. Len(old) + 1, NEW j \in 1 .. Len(old) + 1, i # j
                 PROVE  new[i].iteration # new[j].iteration
      OBVIOUS
    <2>1. new[Len(old) + 1].iteration = task.iteration
      BY <1>7
    <2>2. CASE i \in 1 .. Len(old) /\ j \in 1 .. Len(old)
      BY <1>7, <1>9, <2>2
    <2>3. CASE i = Len(old) + 1
      <3>1. j \in 1 .. Len(old)
        BY <1>7, <2>3
      <3>2. new[j].iteration \in Nat /\ new[j].iteration < task.iteration
        BY <1>7, <1>11, <3>1
      <3>3. QED
        BY <1>2, <2>1, <2>3, <3>2
    <2>4. CASE j = Len(old) + 1
      <3>1. i \in 1 .. Len(old)
        BY <1>7, <2>4
      <3>2. new[i].iteration \in Nat /\ new[i].iteration < task.iteration
        BY <1>7, <1>11, <3>1
      <3>3. QED
        BY <1>2, <2>1, <2>4, <3>2
    <2>5. QED
      BY <1>7, <2>2, <2>3, <2>4
  <1>13. ASSUME NEW rank \in Nat, Rank(task) < rank, NEW i \in 1 .. Len(old) + 1
        PROVE  3 * new[i].iteration + 2 < rank
    <2>1. CASE i \in 1 .. Len(old)
      BY <1>2, <1>7, <1>11, <1>13, <2>1
    <2>2. CASE i = Len(old) + 1
      <3>1. new[i].iteration = task.iteration
        BY <1>7, <2>2
      <3>2. QED
        BY <1>2, <1>13, <3>1
    <2>3. QED
      BY <1>7, <2>1, <2>2
  <1>14. \A rank \in Nat : Rank(task) < rank => ReviewedBefore(s, c, rank)
    BY <1>7, <1>12, <1>13 DEF ReviewedBefore, new
  <1>15. QED
    BY <1>10, <1>14 DEF new, old

\* The review's own fields of the cycle do not matter to what follows.
ReviewedAs(cycle, i) == [cycle EXCEPT !.review = i]

Replanned(cycle) == [cycle EXCEPT !.planRevision = @ + 1]

LEMMA ReviewedFacts ==
  ASSUME NEW cycle \in Cycle, NEW i \in Commits
  PROVE  LET next == ReviewedAs(cycle, i)
         IN  /\ next \in Cycle /\ next.iteration = cycle.iteration /\ next.base = cycle.base
             /\ next.candidate = cycle.candidate /\ next.planRevision = cycle.planRevision
             /\ next.target = cycle.target /\ next.decision = cycle.decision
  BY DEF ReviewedAs, Cycle

LEMMA ReplannedFacts ==
  ASSUME NEW cycle \in Cycle, cycle.planRevision < MaxIterations
  PROVE  LET next == Replanned(cycle)
         IN  /\ next \in Cycle /\ next.iteration = cycle.iteration /\ next.base = cycle.base
             /\ next.candidate = cycle.candidate /\ next.planRevision = cycle.planRevision + 1
             /\ next.target = cycle.target /\ next.decision = cycle.decision
  <1>1. cycle.planRevision + 1 \in 1 .. MaxIterations
    BY IterationAssumption DEF Cycle
  <1>2. Replanned(cycle) = [cycle EXCEPT !.planRevision = cycle.planRevision + 1]
    BY DEF Replanned, Cycle
  <1>3. QED
    BY <1>1, <1>2 DEF Cycle

LEMMA ReviewKeeps ==
  ASSUME CycleInv, NEW task, NEW r \in Result, SubmitReview(task, r)
  PROVE  CycleInv' /\ RoleStep
  <1> DEFINE c == task.cycle
             cycle == [state.cycles[c] EXCEPT !.review = task.iteration]
             replanned == [cycle EXCEPT !.planRevision = @ + 1]
             review == [iteration |-> task.iteration, reviewed |-> r.subject,
                        verdict |-> r.verdict, evidence |-> r.evidence]
             Records(record) ==
               (Recorded(task, r).iterations \ {record}) \cup {[record EXCEPT !.verdict = r.verdict]}
             S(record) == [Recorded(task, r) EXCEPT !.iterations = Records(record),
                                                    !.reviews[c] = Append(@, review)]
  <1>1. Acceptable(task, r) /\ task.purpose = "ANALYST_REVIEW"
    BY DEF SubmitReview
  <1>2. PICK record \in ReviewedIteration(task, r) :
          \/ /\ MayIterate(cycle, r) /\ General
             /\ state' = Issue(S(record), c, NextIteration(cycle), "BUILDER_IMPLEMENTATION")
          \/ /\ MayIterate(cycle, r) /\ ~General
             /\ state' = Issue(S(record), c, replanned, "ARCHITECT_REVISION")
          \/ /\ ~MayIterate(cycle, r)
             /\ state' = Issue([S(record) EXCEPT !.hold = @ \/ r.verdict # "PASS"], c, cycle,
                               "ARCHITECT_FINAL_DECISION")
    BY DEF SubmitReview
  <1> DEFINE s == S(record)
             held == [s EXCEPT !.hold = @ \/ r.verdict # "PASS"]
  <1>3. task \in Task /\ task = state.pending /\ state.pending # None
    BY <1>1, AcceptableFacts
  <1>4. /\ c \in Cycles /\ state.cycles[c] \in Cycle /\ state.cycles[c].decision = "NONE"
        /\ StageTells(state, task)
    BY <1>3, PendingFacts
  <1>5. /\ state.cycles[c].base = state.cycles[c].iteration - 1
        /\ state.cycles[c].iteration \in 1 .. MaxIterations
        /\ state.cycles[c].planRevision \in 1 .. MaxIterations
        /\ task.iteration = state.cycles[c].iteration
    BY <1>3, CurrentFacts
  <1>6. task.iteration \in Commits
    BY <1>5, IterationAssumption DEF Commits
  <1>7. /\ cycle \in Cycle /\ cycle.iteration = task.iteration /\ cycle.base = task.iteration - 1
        /\ cycle.candidate = task.iteration /\ cycle.planRevision <= task.iteration
        /\ cycle.planRevision \in Nat /\ cycle.target = state.cycles[c].target
        /\ cycle.decision = "NONE" /\ task.iteration \in 1 .. MaxIterations
        /\ state.cycles[c].candidate = task.iteration
    <2>1. state.cycles[c].candidate = task.iteration /\ state.cycles[c].planRevision <= task.iteration
      BY <1>1, <1>4 DEF StageTells
    <2>2. QED
      BY <1>4, <1>5, <1>6, <2>1, ReviewedFacts DEF ReviewedAs
  <1>8. /\ record \in state.iterations /\ record.cycle = c /\ record.index = task.iteration
        /\ r.subject = task.iteration
    BY <1>5 DEF ReviewedIteration, CycleInv, ChainTells
  <1>9. review \in Review /\ review.iteration = task.iteration /\ review.reviewed = task.iteration
    BY <1>7, <1>8 DEF Review, Result
  <1>10. r.verdict \in AllVerdicts
    BY DEF Result
  <1> HIDE DEF review, cycle
  <1>11. Recorded(task, r).iterations = state.iterations
    BY <1>1, RecordedMidway
  <1>12. Records(record) \in SUBSET Iteration
    <2>1. state.iterations \subseteq Iteration
      BY TypeFacts DEF CycleInv
    <2>2. [record EXCEPT !.verdict = r.verdict] \in Iteration
      BY <1>8, <1>10, <2>1 DEF Iteration
    <2>3. QED
      BY <1>11, <2>1, <2>2
  <1>13. \A t : t.iterations = Records(record) =>
              /\ Chained(t, state.tasks)
              /\ r.verdict = "REVISE" => Revised(t, c, task.iteration)
    <2> SUFFICES ASSUME NEW t, t.iterations = Records(record)
                 PROVE  /\ Chained(t, state.tasks)
                        /\ r.verdict = "REVISE" => Revised(t, c, task.iteration)
      OBVIOUS
    <2>1. /\ Chained(t, state.tasks)
          /\ r.verdict = "REVISE" => Revised(t, record.cycle, record.index)
      BY <1>1, <1>3, <1>8, <1>10, <1>11, VerdictKept
    <2>2. QED
      BY <1>8, <2>1
  <1> HIDE DEF Records
  <1>14. /\ Midway(task, r, s) /\ s.iterations = Records(record) /\ s.hold = state.hold
         /\ s.reviews[c] = Append(state.reviews[c], review)
         /\ Midway(task, r, held) /\ held.iterations = s.iterations /\ held.reviews = s.reviews
    <2>1. WithReview(s, task, r, Records(record), review)
      BY <1>9, <1>12 DEF WithReview
    <2> DEFINE hold == s.hold \/ r.verdict # "PASS"
    <2> HIDE DEF s
    <2>2. /\ Midway(task, r, s) /\ s.iterations = Records(record) /\ s.hold = state.hold
          /\ s.reviews[task.cycle] = Append(state.reviews[task.cycle], review)
      BY <1>1, <2>1, ReviewedMidway
    <2>3. s.reviews[c] = Append(state.reviews[c], review)
      BY <2>2
    <2>4. hold \in BOOLEAN /\ (state.hold => hold)
      BY <2>2
    <2>5. held = [s EXCEPT !.hold = hold]
      OBVIOUS
    <2> HIDE DEF hold, held
    <2>6. Midway(task, r, held) /\ held.iterations = s.iterations /\ held.reviews = s.reviews
      BY <2>2, <2>4, <2>5, HeldMidway
    <2>7. QED
      BY <2>2, <2>3, <2>6
  <1> HIDE DEF s, held
  <1>15. /\ s.reviews[c] # <<>> /\ LatestOf(s, c) = review
         /\ \A rank \in Nat : Rank(task) < rank => ReviewedBefore(s, c, rank)
    BY <1>1, <1>3, <1>9, <1>14, ReviewAdded
  <1>16. /\ held.reviews[c] # <<>> /\ LatestOf(held, c) = review
         /\ \A rank \in Nat : Rank(task) < rank => ReviewedBefore(held, c, rank)
    BY <1>14, <1>15 DEF ReviewedBefore, LatestOf
  <1>17. ~Builder(task) /\ Rank(task) = 3 * task.iteration + 2
    BY <1>1, <1>3, RankFacts DEF Builder
  <1>18. /\ Chained(s, state.tasks) /\ Chained(held, state.tasks)
         /\ r.verdict = "REVISE" => Revised(s, c, task.iteration)
    BY <1>13, <1>14
  <1> DEFINE nextIteration == NextIteration(cycle)
  <1>19. CASE MayIterate(cycle, r) /\ state' = Issue(s, c, nextIteration, "BUILDER_IMPLEMENTATION")
    <2> DEFINE new == NextTask(c, nextIteration, "BUILDER_IMPLEMENTATION")
    <2>1. /\ nextIteration \in Cycle /\ nextIteration.iteration = task.iteration + 1
          /\ nextIteration.base = task.iteration /\ nextIteration.candidate = task.iteration
          /\ nextIteration.planRevision = cycle.planRevision
          /\ nextIteration.target = cycle.target /\ nextIteration.decision = "NONE"
          /\ r.verdict = "REVISE"
      BY <1>7, <1>19, NextIterationFacts DEF MayIterate
    <2> HIDE DEF nextIteration
    <2>2. "BUILDER_IMPLEMENTATION" \in Purposes
      BY DEF Purposes
    <2>3. /\ new \in Task /\ new.purpose = "BUILDER_IMPLEMENTATION"
          /\ new.iteration = nextIteration.iteration
      BY <1>4, <2>1, <2>2, NextTaskFacts
    <2>4. Rank(new) = 3 * new.iteration + 1
      BY <2>3, RankFacts DEF Builder
    <2> HIDE DEF new
    <2>5. Rank(task) < Rank(new) /\ Rank(new) \in Nat
      BY <1>7, <1>17, <2>1, <2>3, <2>4
    <2>6. Staged(s, c, nextIteration, "BUILDER_IMPLEMENTATION")
      BY <1>7, <2>1 DEF Staged
    <2>7. nextIteration.base = nextIteration.iteration - 1
      BY <1>7, <2>1
    <2>8. Revised(s, c, nextIteration.iteration - 1)
      BY <1>7, <1>18, <2>1
    <2>9. nextIteration.target = state.cycles[c].target
      BY <1>7, <2>1
    <2>10. Enters(task, nextIteration.candidate)
      BY <1>7, <2>1 DEF Enters
    <2>11. QED
      BY <1>1, <1>14, <1>15, <1>17, <1>18, <1>19, <2>1, <2>2, <2>5, <2>6, <2>7, <2>8, <2>9,
         <2>10, IssueKeeps DEF new
  <1>20. CASE MayIterate(cycle, r) /\ state' = Issue(s, c, replanned, "ARCHITECT_REVISION")
    <2> DEFINE new == NextTask(c, replanned, "ARCHITECT_REVISION")
    <2>1. r.verdict = "REVISE" /\ task.iteration < MaxIterations
          /\ cycle.planRevision < MaxIterations
      BY <1>7, <1>20, IterationAssumption DEF MayIterate
    <2>2. /\ replanned \in Cycle /\ replanned.iteration = task.iteration
          /\ replanned.base = task.iteration - 1 /\ replanned.candidate = task.iteration
          /\ replanned.planRevision = cycle.planRevision + 1
          /\ replanned.target = cycle.target /\ replanned.decision = "NONE"
      BY <1>7, <2>1, ReplannedFacts DEF Replanned
    <2> HIDE DEF replanned
    <2>3. "ARCHITECT_REVISION" \in Purposes
      BY DEF Purposes
    <2>4. /\ new \in Task /\ new.purpose = "ARCHITECT_REVISION"
          /\ new.iteration = replanned.iteration
      BY <1>4, <2>2, <2>3, NextTaskFacts
    <2>5. Rank(new) = 3 * new.iteration + 3
      BY <2>4, RankFacts
    <2> HIDE DEF new
    <2>6. Rank(task) < Rank(new) /\ Rank(new) \in Nat
      BY <1>7, <1>17, <2>2, <2>4, <2>5
    <2>7. Staged(s, c, replanned, "ARCHITECT_REVISION")
      BY <1>7, <1>18, <2>1, <2>2 DEF Staged
    <2>8. replanned.base = replanned.iteration - 1 /\ replanned.target = state.cycles[c].target
      BY <1>7, <2>2
    <2>9. Enters(task, replanned.candidate)
      BY <1>7, <2>2 DEF Enters
    <2>10. QED
      BY <1>1, <1>14, <1>15, <1>17, <1>18, <1>20, <2>2, <2>3, <2>6, <2>7, <2>8, <2>9, IssueKeeps
      DEF new
  <1>21. CASE state' = Issue(held, c, cycle, "ARCHITECT_FINAL_DECISION")
    <2> DEFINE new == NextTask(c, cycle, "ARCHITECT_FINAL_DECISION")
    <2>1. "ARCHITECT_FINAL_DECISION" \in Purposes
      BY DEF Purposes
    <2>2. /\ new \in Task /\ new.purpose = "ARCHITECT_FINAL_DECISION"
          /\ new.iteration = cycle.iteration
      BY <1>4, <1>7, <2>1, NextTaskFacts
    <2>3. Rank(new) = 3 * new.iteration + 3
      BY <2>2, RankFacts
    <2> HIDE DEF new
    <2>4. Rank(task) < Rank(new) /\ Rank(new) \in Nat
      BY <1>7, <1>17, <2>2, <2>3
    <2>5. Staged(held, c, cycle, "ARCHITECT_FINAL_DECISION")
      BY <1>7, <1>9, <1>16 DEF Staged
    <2>6. cycle.base = cycle.iteration - 1
      BY <1>7
    <2>7. Enters(task, cycle.candidate)
      BY <1>7 DEF Enters
    <2>8. QED
      BY <1>1, <1>7, <1>14, <1>16, <1>17, <1>18, <1>21, <2>1, <2>4, <2>5, <2>6, <2>7, IssueKeeps
      DEF new
  <1>22. QED
    BY <1>2, <1>19, <1>20, <1>21 DEF s, held

\* The state in which the cycle of the pending task is closed.
Closing(s) ==
    /\ s \in State /\ Elsewhere(state, s)
    /\ s.cycles = state.cycles /\ s.tasks = state.tasks /\ s.finals = state.finals
    /\ s.iterations = state.iterations /\ s.reviews = state.reviews
    /\ \A d \in Cycles : d # state.pending.cycle => s.spent[d] = state.spent[d]
    /\ \/ General /\ s.results = state.results
       \/ \E res : InTime(state.pending, res) /\ s.results = state.results \cup {res}

\* The cycle is closed, and none is active.
ClosedBy(c, cycle, status, stage) ==
    /\ state'.active = None /\ state'.finals[c] # None
    /\ state'.cycles[c] = ClosedAs(cycle, status, stage)

LEMMA FinalizeKeeps ==
  ASSUME CycleInv, NEW task, state.pending # None, task = state.pending, NEW s, Closing(s),
         NEW cycle \in Cycle, NEW status \in Terminal, NEW stage \in Stages,
         NEW reason \in AllVerdicts \cup {"FAIL_CLOSED"}, NEW held \in Holds, Raised(held),
         state' = FinalizeTerminalCycle(s, task.cycle, cycle, status, stage, reason, held),
         cycle.base = state.cycles[task.cycle].base,
         cycle.iteration = state.cycles[task.cycle].iteration,
         cycle.candidate = state.cycles[task.cycle].candidate,
         cycle.target = state.cycles[task.cycle].target,
         cycle.decision = "ACCEPT" => Merited(s, task.cycle, cycle)
  PROVE  CycleInv' /\ RoleStep /\ ClosedBy(task.cycle, cycle, status, stage)
  <1> DEFINE c == task.cycle
             new == ClosedAs(cycle, status, stage)
             final == [terminal |-> status, reason |-> reason]
  <1>1. /\ c \in Cycles /\ state.active = c /\ state.finals[c] = None
        /\ state.cycles[c].decision = "NONE"
    BY PendingFacts
  <1>2. reason \in AllVerdicts \cup {"INTEGRATED", "FAIL_CLOSED"}
    OBVIOUS
  <1>3. /\ s \in State /\ s.finals = state.finals /\ s.finals[c] = None
        /\ state.finals \in [Cycles -> Final \cup {None}]
    BY <1>1, TypeFacts DEF Closing, CycleInv
  <1>4. \A d \in Cycles \ {c} : s.spent[d] = state.spent[d]
    BY DEF Closing
  <1>5. /\ new \in Cycle
        /\ state' \in State /\ Elsewhere(s, state')
        /\ state'.cycles = [s.cycles EXCEPT ![c] = new]
        /\ state'.active = None /\ state'.pending = None /\ state'.hold = held
        /\ state'.finals = [s.finals EXCEPT ![c] = final] /\ final # None
        /\ state'.spent = s.spent /\ state'.tasks = s.tasks
        /\ state'.results = s.results /\ state'.iterations = s.iterations
        /\ state'.reviews = s.reviews
    BY <1>1, <1>2, <1>3, FinalizeEffect
  <1>6. /\ new # None /\ new.status = status /\ new.iteration = cycle.iteration
        /\ new.target = cycle.target /\ new.base = cycle.base
        /\ new.candidate = cycle.candidate /\ new.decision = cycle.decision
    BY ClosedFacts
  <1>7. final.terminal = status /\ final.reason = reason /\ reason # "INTEGRATED"
    BY DEF AllVerdicts, Verdicts, Purposes
  <1> HIDE DEF new, final
  <1>8. /\ state'.finals[c] = final
        /\ \A d \in Cycles \ {c} : state'.finals[d] = state.finals[d]
    BY <1>1, <1>5, <1>3
  <1>9. Elsewhere(state, state')
    BY <1>5 DEF Elsewhere, Closing
  <1>10. \/ state'.results = state.results
        \/ \E res : /\ state.pending # None /\ InTime(state.pending, res)
                    /\ state'.results = state.results \cup {res}
    BY <1>5 DEF Closing
  <1>11. \A d \in Cycles \ {c} : state'.spent[d] = state.spent[d]
    BY <1>5, <1>4
  <1>12. Closes(c, new)
    BY <1>5, <1>6, <1>7, <1>8, <1>9, <1>10, <1>11 DEF Closes, Closing, Elsewhere
  <1>13. new.decision = "ACCEPT" => Merited(state', c, new)
    BY <1>5, <1>6 DEF Merited, LatestOf, Checkpointed, Elsewhere
  <1>14. state'.hold
    BY <1>5 DEF Raised
  <1>15. CycleInv'
    <2>1. /\ new.status \in Terminal /\ new.base = state.cycles[c].base
          /\ new.iteration = state.cycles[c].iteration
          /\ new.candidate = state.cycles[c].candidate
      BY <1>6
    <2>2. QED
      BY <1>1, <1>5, <1>12, <1>13, <1>14, <2>1, CloseKeeps
  <1>16. state'.hold /\ state.cycles[c].decision # "ACCEPT"
         /\ state'.finals[c].reason # "INTEGRATED" /\ new.target = state.cycles[c].target
         /\ new.candidate = state.cycles[c].candidate /\ new.status # "REVIEW"
         /\ Replied
    <2>1. Replied
      BY <1>5 DEF Closing, InTime, Replied
    <2>2. QED
      BY <1>1, <1>6, <1>7, <1>8, <1>14, <2>1 DEF Terminal
  <1>17. RoleStep
    BY <1>1, <1>6, <1>9, <1>12, <1>16, CloseRole
  <1>18. ClosedBy(c, cycle, status, stage)
    <2>1. state'.cycles[c] = new
      BY <1>1, <1>3, <1>5, TypeFacts DEF Closing, CycleInv
    <2>2. QED
      BY <1>5, <1>8, <2>1 DEF ClosedBy, new
  <1>19. QED
    BY <1>15, <1>17, <1>18

LEMMA RecordedClosing ==
  ASSUME CycleInv, NEW task, NEW r \in Result, Acceptable(task, r)
  PROVE  Closing(Recorded(task, r))
  <1> DEFINE s == Recorded(task, r)
  <1>1. /\ Midway(task, r, s) /\ s.iterations = state.iterations /\ s.reviews = state.reviews
    BY RecordedMidway
  <1>2. InTime(state.pending, ResultOf(task, r))
    BY AcceptableFacts
  <1> HIDE DEF s
  <1>3. Closing(s)
    BY <1>1, <1>2 DEF Closing, Midway
  <1>4. QED
    BY <1>3 DEF s

LEMMA BlockedKeeps ==
  ASSUME CycleInv, NEW task, NEW r \in Result, SubmitBlocked(task, r)
  PROVE  CycleInv' /\ RoleStep
  <1> DEFINE s == Recorded(task, r)
             cycle == state.cycles[task.cycle]
             held == TRUE
  <1>1. /\ Acceptable(task, r)
        /\ state' = FinalizeTerminalCycle(s, task.cycle, cycle, "HALTED", "BLOCKED", "BLOCKED", held)
        /\ held \in Holds /\ Raised(held)
    BY DEF SubmitBlocked, Holds, Raised
  <1> HIDE DEF held
  <1>2. task = state.pending /\ state.pending # None
    BY <1>1, AcceptableFacts
  <1>3. cycle \in Cycle /\ cycle.decision # "ACCEPT"
    BY <1>2, PendingFacts
  <1>4. Closing(s)
    BY <1>1, RecordedClosing
  <1> HIDE DEF s
  <1>5. "BLOCKED" \in AllVerdicts \cup {"FAIL_CLOSED"}
    BY DEF AllVerdicts, Verdicts, Purposes
  <1>6. "HALTED" \in Terminal /\ "BLOCKED" \in Stages
    BY DEF Terminal, Stages
  <1>7. QED
    BY <1>1, <1>2, <1>3, <1>4, <1>5, <1>6, FinalizeKeeps

LEMMA TerminateKeeps ==
  ASSUME CycleInv, NEW ms \in Durations, TerminateCycle(ms)
  PROVE  CycleInv' /\ RoleStep /\ state'.active = None
  <1> DEFINE c == state.pending.cycle
             total == state.spent[c] + ms
             timed == [state EXCEPT !.spent[c] = total]
             s == IF state.timing.status = "EXECUTING" THEN timed ELSE state
             cycle == state.cycles[c]
             held == TRUE
  <1>1. /\ state.pending # None /\ General
        /\ state' = FinalizeTerminalCycle(s, c, cycle, "HALTED", "FAILED", "FAIL_CLOSED", held)
        /\ held \in Holds /\ Raised(held)
    BY DEF TerminateCycle, Holds, Raised
  <1> HIDE DEF held
  <1>2. /\ state \in State /\ DOMAIN state = Fields
        /\ cycle \in Cycle /\ cycle.decision # "ACCEPT" /\ c \in Cycles
    BY <1>1, PendingFacts, StateFields DEF CycleInv
  <1>3. total \in Nat
    BY <1>2, TimeAssumption, TypeFacts
  <1> HIDE DEF total
  <1>4. timed \in State
    BY <1>2, <1>3 DEF State
  <1>5. /\ Elsewhere(state, timed) /\ timed.spent = [state.spent EXCEPT ![c] = total]
        /\ timed.cycles = state.cycles /\ timed.tasks = state.tasks
        /\ timed.finals = state.finals /\ timed.iterations = state.iterations
        /\ timed.reviews = state.reviews /\ timed.results = state.results
    BY <1>2 DEF Fields, Elsewhere
  <1> HIDE DEF timed
  <1>6. Closing(timed)
    BY <1>1, <1>4, <1>5 DEF Closing
  <1>7. Closing(state)
    BY <1>1, <1>2 DEF Closing, Elsewhere
  <1>8. Closing(s)
    BY <1>6, <1>7
  <1> HIDE DEF s
  <1>9. "FAIL_CLOSED" \in AllVerdicts \cup {"FAIL_CLOSED"}
    OBVIOUS
  <1>10. "HALTED" \in Terminal /\ "FAILED" \in Stages
    BY DEF Terminal, Stages
  <1>11. QED
    BY <1>1, <1>2, <1>8, <1>9, <1>10, FinalizeKeeps DEF ClosedBy

\* The architect's decision is entered.
Decided(cycle, decision) == [cycle EXCEPT !.decision = decision]

Awaiting(cycle) == [cycle EXCEPT !.status = "REVIEW", !.stage = "AWAITING_INTEGRATION"]

LEMMA DecidedFacts ==
  ASSUME NEW cycle \in Cycle, NEW decision \in {"NONE", "ACCEPT", "REVISE", "REJECT", "HUMAN_REVIEW"}
  PROVE  LET next    == Decided(cycle, decision)
             waiting == Awaiting(next)
         IN  /\ next \in Cycle /\ next.iteration = cycle.iteration /\ next.base = cycle.base
             /\ next.candidate = cycle.candidate /\ next.target = cycle.target
             /\ next.decision = decision
             /\ waiting \in Cycle /\ waiting.iteration = cycle.iteration
             /\ waiting.base = cycle.base /\ waiting.candidate = cycle.candidate
             /\ waiting.target = cycle.target /\ waiting.decision = decision
             /\ waiting.status = "REVIEW" /\ waiting # None
  <1>1. Decided(cycle, decision) \in Cycle
    BY DEF Decided, Cycle
  <1>2. Awaiting(Decided(cycle, decision)) \in Cycle
    BY <1>1 DEF Awaiting, Cycle, Statuses, Stages
  <1>3. QED
    BY <1>1, <1>2, NoCycleAssumption DEF Decided, Awaiting, Cycle

\* What the architect may accept is on file and was passed.
LEMMA MeritFacts ==
  ASSUME CycleInv, state.pending # None,
         state.pending.purpose = "ARCHITECT_FINAL_DECISION",
         NEW s, s.reviews = state.reviews,
         s.spent = state.spent, s.tasks = state.tasks, Elsewhere(state, s),
         MayAccept(state.pending.cycle), state.spent[state.pending.cycle] <= CycleLimit,
         NEW cycle, cycle.candidate = state.cycles[state.pending.cycle].candidate,
         cycle.iteration = state.cycles[state.pending.cycle].iteration
  PROVE  Merited(s, state.pending.cycle, cycle)
  <1> DEFINE c == state.pending.cycle
  <1>1. /\ state.active = c /\ c \in Cycles /\ StageTells(state, state.pending)
    BY PendingFacts
  <1>2. /\ LatestOf(state, c).iteration = cycle.iteration
        /\ LatestOf(state, c).reviewed = cycle.candidate
    BY <1>1 DEF StageTells
  <1>3. \A task \in state.tasks : Builder(task) => task \in Checkpointed(state)
    <2> SUFFICES ASSUME NEW task \in state.tasks, Builder(task), task \notin Checkpointed(state)
                 PROVE  FALSE
      OBVIOUS
    <2>1. task \in Open(state)
      BY DEF Open
    <2>2. task = state.pending \/ state.active = None
      BY <2>1 DEF CycleInv, OpenTells, Stalled
    <2>3. task # state.pending
      BY DEF Builder
    <2>4. QED
      BY <1>1, <2>2, <2>3, NoneAssumption
  <1>4. LatestOf(s, c) = LatestOf(state, c) /\ LatestReview(c) = LatestOf(state, c)
    BY DEF LatestOf, LatestReview
  <1>5. Checkpointed(s) = Checkpointed(state)
    BY DEF Checkpointed, Elsewhere
  <1>6. QED
    BY <1>2, <1>3, <1>4, <1>5 DEF Merited, MayAccept

\* What the decision makes of the cycle of a general run.
Disposed(c, verdict) ==
    LET new == state'.cycles[c]
    IN  /\ state'.finals[c] # None /\ new # None /\ new.decision = verdict
        /\ new.candidate = state.cycles[c].candidate
        /\ verdict = "ACCEPT" => new.status = "ACCEPTED" /\ new.stage = "READY_FOR_INTEGRATION"
        /\ verdict = "REJECT" => new.status = "REJECTED"

LEMMA DisposedFacts ==
  ASSUME NEW c \in Cycles, NEW cycle \in Cycle, NEW status \in Terminal, NEW stage \in Stages,
         ClosedBy(c, cycle, status, stage), cycle.candidate = state.cycles[c].candidate,
         cycle.decision = "ACCEPT" => status = "ACCEPTED" /\ stage = "READY_FOR_INTEGRATION",
         cycle.decision = "REJECT" => status = "REJECTED"
  PROVE  Disposed(c, cycle.decision)
  <1>1. ClosedAs(cycle, status, stage).stage = stage
    BY DEF ClosedAs, Cycle
  <1>2. QED
    BY <1>1, ClosedFacts DEF ClosedBy, Disposed

LEMMA DecisionKeeps ==
  ASSUME CycleInv, NEW task, NEW r \in Result, SubmitDecision(task, r)
  PROVE  CycleInv' /\ RoleStep /\ (General => Disposed(task.cycle, r.verdict))
  <1> DEFINE c == task.cycle
             cycle == [state.cycles[c] EXCEPT !.decision = r.verdict]
             waiting == [cycle EXCEPT !.status = "REVIEW", !.stage = "AWAITING_INTEGRATION"]
             s == Recorded(task, r)
             held == TRUE
  <1>1. /\ Acceptable(task, r) /\ task.purpose = "ARCHITECT_FINAL_DECISION"
        /\ r.verdict # "BLOCKED" /\ (r.verdict = "ACCEPT" => MayAccept(c))
    BY DEF SubmitDecision
  <1>2. \/ /\ r.verdict # "ACCEPT"
           /\ \E status \in {"REJECTED", "ESCALATED", "HALTED"} :
                /\ r.verdict = "REJECT" => status = "REJECTED"
                /\ state' = FinalizeTerminalCycle(s, c, cycle, status, "DISPOSITION", r.verdict, held)
        \/ /\ r.verdict = "ACCEPT"
           /\ state' = FinalizeTerminalCycle(s, c, cycle, "ACCEPTED", "READY_FOR_INTEGRATION",
                                             "ACCEPT", held)
        \/ /\ r.verdict = "ACCEPT" /\ ~General
           /\ state' = [s EXCEPT !.cycles[c] = waiting]
    BY DEF SubmitDecision
  <1>3. held \in Holds /\ Raised(held)
    BY DEF Holds, Raised
  <1> HIDE DEF held
  <1>4. task \in Task /\ task = state.pending /\ state.pending # None /\ InTime(task, ResultOf(task, r))
        /\ (r.verdict # "BLOCKED" => state.spent[c] <= CycleLimit) /\ state.timing.status # "NONE"
    BY <1>1, AcceptableFacts
  <1>5. /\ c \in Cycles /\ state.active = c /\ state.cycles[c] \in Cycle /\ state.finals[c] = None
        /\ state.cycles[c] # None /\ state.cycles[c].decision = "NONE"
    BY <1>4, PendingFacts
  <1>6. r.verdict \in {"ACCEPT", "REVISE", "REJECT", "HUMAN_REVIEW"} /\ r.verdict \in AllVerdicts
    <2>1. r.verdict \in Verdicts("ARCHITECT_FINAL_DECISION") /\ r.verdict \in AllVerdicts
      BY <1>1 DEF Acceptable, Result
    <2>2. QED
      BY <1>1, <2>1 DEF Verdicts
  <1>7. /\ cycle \in Cycle /\ cycle.iteration = state.cycles[c].iteration
        /\ cycle.base = state.cycles[c].base /\ cycle.candidate = state.cycles[c].candidate
        /\ cycle.target = state.cycles[c].target /\ cycle.decision = r.verdict
        /\ waiting \in Cycle /\ waiting.iteration = state.cycles[c].iteration
        /\ waiting.base = state.cycles[c].base /\ waiting.candidate = state.cycles[c].candidate
        /\ waiting.target = state.cycles[c].target /\ waiting.decision = r.verdict
        /\ waiting.status = "REVIEW" /\ waiting # None
    <2>1. cycle = Decided(state.cycles[c], r.verdict)
      BY DEF Decided
    <2>2. waiting = Awaiting(cycle)
      BY DEF Awaiting
    <2> HIDE DEF cycle, waiting
    <2>3. r.verdict \in {"NONE", "ACCEPT", "REVISE", "REJECT", "HUMAN_REVIEW"}
      BY <1>6
    <2>4. QED
      BY <1>5, <2>1, <2>2, <2>3, DecidedFacts
  <1> HIDE DEF cycle, waiting
  <1>8. /\ Midway(task, r, s) /\ DOMAIN s = Fields /\ s.pending = None
        /\ s.iterations = state.iterations /\ s.reviews = state.reviews /\ s.hold = state.hold
        /\ Closing(s)
    BY <1>1, RecordedMidway, RecordedClosing
  <1> HIDE DEF s
  <1>9. s.spent = state.spent /\ s.tasks = state.tasks /\ Elsewhere(state, s)
    BY <1>8 DEF Midway
  <1>10. ASSUME NEW any, any.candidate = state.cycles[c].candidate,
                any.iteration = state.cycles[c].iteration, r.verdict = "ACCEPT"
         PROVE  Merited(s, c, any)
    BY <1>1, <1>4, <1>8, <1>9, <1>10, MeritFacts
  <1>11. CASE /\ r.verdict # "ACCEPT"
              /\ \E status \in {"REJECTED", "ESCALATED", "HALTED"} :
                   /\ r.verdict = "REJECT" => status = "REJECTED"
                   /\ state' = FinalizeTerminalCycle(s, c, cycle, status, "DISPOSITION", r.verdict, held)
    <2>1. PICK status \in {"REJECTED", "ESCALATED", "HALTED"} :
            /\ r.verdict = "REJECT" => status = "REJECTED"
            /\ state' = FinalizeTerminalCycle(s, c, cycle, status, "DISPOSITION", r.verdict, held)
      BY <1>11
    <2>2. status \in Terminal /\ "DISPOSITION" \in Stages
      BY DEF Terminal, Stages
    <2>3. cycle.decision # "ACCEPT" /\ r.verdict \in AllVerdicts \cup {"FAIL_CLOSED"}
      BY <1>6, <1>7, <1>11
    <2>4. CycleInv' /\ RoleStep /\ ClosedBy(c, cycle, status, "DISPOSITION")
      BY <1>3, <1>4, <1>7, <1>8, <2>1, <2>2, <2>3, FinalizeKeeps
    <2>5. QED
      BY <1>5, <1>7, <1>11, <2>1, <2>2, <2>4, DisposedFacts
  <1>12. CASE /\ r.verdict = "ACCEPT"
              /\ state' = FinalizeTerminalCycle(s, c, cycle, "ACCEPTED", "READY_FOR_INTEGRATION",
                                                "ACCEPT", held)
    <2>1. "ACCEPTED" \in Terminal /\ "READY_FOR_INTEGRATION" \in Stages
      BY DEF Terminal, Stages
    <2>2. "ACCEPT" \in AllVerdicts \cup {"FAIL_CLOSED"}
      BY <1>6, <1>12
    <2>3. Merited(s, c, cycle)
      BY <1>7, <1>10, <1>12
    <2>4. CycleInv' /\ RoleStep /\ ClosedBy(c, cycle, "ACCEPTED", "READY_FOR_INTEGRATION")
      BY <1>3, <1>4, <1>7, <1>8, <1>12, <2>1, <2>2, <2>3, FinalizeKeeps
    <2>5. QED
      BY <1>5, <1>7, <1>12, <2>1, <2>4, DisposedFacts
  <1>13. CASE r.verdict = "ACCEPT" /\ ~General /\ state' = [s EXCEPT !.cycles[c] = waiting]
    <2>1. s \in State
      BY <1>8 DEF Midway
    <2>2. state' \in State
      BY <1>7, <1>13, <2>1 DEF State
    <2>3. /\ Elsewhere(s, state') /\ state'.cycles = [s.cycles EXCEPT ![c] = waiting]
          /\ state'.active = s.active /\ state'.pending = s.pending /\ state'.hold = s.hold
          /\ state'.tasks = s.tasks /\ state'.iterations = s.iterations
          /\ state'.reviews = s.reviews /\ state'.spent = s.spent
          /\ state'.finals = s.finals /\ state'.results = s.results
      BY <1>8, <1>13 DEF Fields, Elsewhere
    <2>4. Elsewhere(state, state')
      BY <1>9, <2>3 DEF Elsewhere
    <2>5. Accepts(ResultOf(task, r), waiting)
      BY <1>5, <1>8, <2>2, <2>3, <2>4 DEF Accepts, Midway
    <2>6. Merited(s, c, waiting)
      BY <1>7, <1>10, <1>13
    <2>7. Merited(state', c, waiting)
      BY <2>3, <2>6 DEF Merited, LatestOf, Checkpointed, Elsewhere
    <2>8. ~Builder(task)
      BY <1>1 DEF Builder
    <2>9. CycleInv'
      BY <1>4, <1>5, <1>7, <2>5, <2>7, <2>8, AcceptKeeps
    <2>10. /\ state'.cycles[c] = waiting
           /\ \A d \in Cycles \ {c} : state'.cycles[d] = state.cycles[d]
      BY <1>5, <2>5, TypeFacts DEF Accepts, CycleInv
    <2>11. Serves
      <3>1. ResultOf(task, r).task = task
        BY DEF ResultOf
      <3>2. QED
        BY <1>4, <2>5, <3>1 DEF Serves, Replied, Accepts
    <2>12. RoleStep
      BY <1>5, <1>7, <1>13, <2>4, <2>5, <2>10, <2>11 DEF RoleStep, Accepts
    <2>13. QED
      BY <1>13, <2>9, <2>12
  <1>14. QED
    BY <1>2, <1>11, <1>12, <1>13 DEF s

\* A result that is accepted, whatever it says.
LEMMA SubmitKeeps ==
  ASSUME CycleInv, NEW task, NEW r \in Result, SubmitResult(task, r)
  PROVE  CycleInv' /\ RoleStep
  BY BlockedKeeps, PlanKeeps, RevisionKeeps, BuildKeeps, ReviewKeeps, DecisionKeeps
  DEF SubmitResult

-----------------------------------------------------------------------------
(* What commands other than the cycle's own write into the state file         *)

\* The parts of the role cycle are left alone.
Still(s, t) ==
    /\ t \in State /\ t.mode = s.mode
    /\ t.cycles = s.cycles /\ t.tasks = s.tasks /\ t.pending = s.pending /\ t.active = s.active
    /\ t.results = s.results /\ t.iterations = s.iterations /\ t.reviews = s.reviews
    /\ t.finals = s.finals /\ t.spent = s.spent /\ t.timing = s.timing

\* The sequence with the status of its record i changed; it may have no such record.
Marked(seq, i, status) == [seq EXCEPT ![i].status = status]

WithStatus(e, status) == [e EXCEPT !.status = status]

LEMMA MarkedFacts ==
  ASSUME NEW S, NEW seq \in Seq(S), NEW i, NEW status,
         \A e \in S : WithStatus(e, status) \in S
  PROVE  LET new == Marked(seq, i, status)
         IN  /\ new \in Seq(S) /\ DOMAIN new = DOMAIN seq
             /\ \A j \in DOMAIN seq :
                  new[j] = seq[j] \/ new[j] = WithStatus(seq[j], status)
  <1> DEFINE new == Marked(seq, i, status)
             marked == WithStatus(seq[i], status)
  <1>1. new = [j \in DOMAIN seq |-> IF j = i THEN marked ELSE seq[j]]
    BY DEF Marked, WithStatus
  <1>2. DOMAIN seq = 1 .. Len(seq) /\ Len(seq) \in Nat /\ \A j \in DOMAIN seq : seq[j] \in S
    OBVIOUS
  <1> HIDE DEF new
  <1>3. DOMAIN new = 1 .. Len(seq) /\ DOMAIN new = DOMAIN seq
    BY <1>1, <1>2
  <1>4. \A j \in DOMAIN seq :
          new[j] = seq[j] \/ new[j] = WithStatus(seq[j], status)
    BY <1>1
  <1>5. \A j \in 1 .. Len(seq) : new[j] \in S
    BY <1>2, <1>4
  <1>6. new = [j \in 1 .. Len(seq) |-> new[j]]
    BY <1>1, <1>2
  <1>7. new \in Seq(S)
    BY <1>2, <1>5, <1>6, IsASeq
  <1>8. QED
    BY <1>3, <1>4, <1>7 DEF new

Intent == [task : Task, status : {"PREPARED", "COMPLETED", "RECONCILIATION_REQUIRED"}]

Integration == [cycle : Cycles, status : {"PREPARED", "APPLIED", "RECONCILIATION_REQUIRED"}]

Outcome == [cycle : Cycles, status : {"INTEGRATED", "INTEGRATION_RECONCILIATION_REQUIRED"}]

LEMMA LedgerTypes ==
  ASSUME NEW s \in State
  PROVE  /\ s.intents \in Seq(Intent) /\ s.integrations \in Seq(Integration)
         /\ s.outcomes \in Seq(Outcome) /\ s.checkpoints \in Seq(Task)
         /\ s.workspaces \subseteq Task
  BY DEF State, Intent, Integration, Outcome

LEMMA StillKeeps ==
  ASSUME CycleInv, Still(state, state'), Checkpointed(state) \subseteq Checkpointed(state)',
         state.hold => state'.hold \/ Open(state)' = {}
  PROVE  CycleInv'
  <1>1. Quiet
    BY DEF Quiet, Still, Stalled
  <1>2. QED
    BY <1>1, QuietKeeps

LEMMA MarkedIntents ==
  ASSUME NEW s \in State, NEW i, NEW status \in {"COMPLETED", "RECONCILIATION_REQUIRED"}
  PROVE  LET new == Marked(s.intents, i, status)
         IN  /\ new \in Seq(Intent) /\ DOMAIN new = DOMAIN s.intents
             /\ \A j \in DOMAIN s.intents : new[j].task = s.intents[j].task
  <1> DEFINE new == Marked(s.intents, i, status)
  <1>1. \A e \in Intent :
          WithStatus(e, status) \in Intent /\ WithStatus(e, status).task = e.task
    BY DEF Intent, WithStatus
  <1>2. s.intents \in Seq(Intent)
    BY LedgerTypes
  <1>3. /\ new \in Seq(Intent) /\ DOMAIN new = DOMAIN s.intents
        /\ \A j \in DOMAIN s.intents :
             new[j] = s.intents[j] \/ new[j] = WithStatus(s.intents[j], status)
    BY <1>1, <1>2, MarkedFacts
  <1>4. \A j \in DOMAIN s.intents : s.intents[j] \in Intent
    BY <1>2
  <1>5. QED
    BY <1>1, <1>3, <1>4

\* The files and the ledgers of intents that the invariant relates.
SameFiles(s, t) ==
    t.workspaces = s.workspaces /\ t.checkpoints = s.checkpoints

LEMMA RegisterEffect ==
  ASSUME state \in State, NEW x \in Task, state' = [state EXCEPT !.workspaces = @ \cup {x}]
  PROVE  /\ Still(state, state') /\ state'.workspaces = state.workspaces \cup {x}
         /\ state'.checkpoints = state.checkpoints /\ state'.intents = state.intents
         /\ state'.hold = state.hold
  <1>1. DOMAIN state = Fields
    BY StateFields
  <1>2. state' \in State
    BY DEF State
  <1>3. QED
    BY <1>1, <1>2 DEF Still, Fields

\* The intent is appended and the hold raised.
Intended(task) ==
    [state EXCEPT !.intents = Append(@, [task |-> task, status |-> "PREPARED"]), !.hold = TRUE]

LEMMA IntendedEffect ==
  ASSUME state \in State, NEW task \in Task, state' = Intended(task)
  PROVE  /\ Still(state, state') /\ SameFiles(state, state') /\ state'.hold
         /\ \A i \in DOMAIN state'.intents :
              \/ state'.intents[i].task = task
              \/ i \in DOMAIN state.intents /\ state'.intents[i] = state.intents[i]
  <1> DEFINE intent == [task |-> task, status |-> "PREPARED"]
             intents == Append(state.intents, intent)
  <1>1. DOMAIN state = Fields /\ state.intents \in Seq(Intent)
    BY StateFields, LedgerTypes
  <1>2. intent \in Intent /\ intent.task = task
    BY DEF Intent
  <1> HIDE DEF intent
  <1>3. intents \in Seq(Intent)
    BY <1>1, <1>2
  <1>4. \A i \in DOMAIN intents :
          \/ intents[i].task = task
          \/ i \in DOMAIN state.intents /\ intents[i] = state.intents[i]
    BY <1>1, <1>2
  <1>5. state' = [state EXCEPT !.intents = intents, !.hold = TRUE]
    BY DEF Intended, intent
  <1> HIDE DEF intents
  <1>6. state' \in State
    BY <1>3, <1>5, ZenonT(60) DEF State, Intent
  <1>7. /\ state'.intents = intents /\ state'.hold /\ SameFiles(state, state')
    BY <1>1, <1>5 DEF Fields, SameFiles
  <1>8. Still(state, state')
    BY <1>1, <1>5, <1>6 DEF Fields, Still
  <1>9. QED
    BY <1>4, <1>7, <1>8

\* The receipt is appended, and where there is an intent it is settled and the hold lowered.
LEMMA ReceiptEffect ==
  ASSUME state \in State, NEW task \in Task, NEW i,
         \/ state' = [state EXCEPT !.checkpoints = Append(@, task)]
         \/ state' = [state EXCEPT !.checkpoints = Append(@, task),
                                   !.intents = Marked(@, i, "COMPLETED"), !.hold = FALSE]
  PROVE  /\ Still(state, state') /\ state'.workspaces = state.workspaces
         /\ state'.checkpoints = Append(state.checkpoints, task)
         /\ DOMAIN state'.intents = DOMAIN state.intents
         /\ \A j \in DOMAIN state.intents : state'.intents[j].task = state.intents[j].task
  <1> DEFINE receipts == Append(state.checkpoints, task)
             marked == Marked(state.intents, i, "COMPLETED")
  <1>1. DOMAIN state = Fields /\ receipts \in Seq(Task)
    BY StateFields, LedgerTypes
  <1>2. /\ marked \in Seq(Intent) /\ DOMAIN marked = DOMAIN state.intents
        /\ \A j \in DOMAIN state.intents : marked[j].task = state.intents[j].task
    BY MarkedIntents
  <1>3. \/ state' = [state EXCEPT !.checkpoints = receipts]
        \/ state' = [state EXCEPT !.checkpoints = receipts, !.intents = marked, !.hold = FALSE]
    OBVIOUS
  <1> HIDE DEF receipts, marked
  <1>4. CASE state' = [state EXCEPT !.checkpoints = receipts]
    <2>1. state' \in State
      BY <1>1, <1>4 DEF State
    <2>2. Still(state, state')
      BY <1>1, <1>4, <2>1 DEF Fields, Still
    <2>3. /\ state'.workspaces = state.workspaces /\ state'.checkpoints = receipts
          /\ state'.intents = state.intents
      BY <1>1, <1>4 DEF Fields
    <2>4. QED
      BY <2>2, <2>3 DEF receipts
  <1>5. CASE state' = [state EXCEPT !.checkpoints = receipts, !.intents = marked, !.hold = FALSE]
    <2>1. state' \in State
      BY <1>1, <1>2, <1>5 DEF State, Intent
    <2>2. Still(state, state')
      BY <1>1, <1>5, <2>1 DEF Fields, Still
    <2>3. /\ state'.workspaces = state.workspaces /\ state'.checkpoints = receipts
          /\ state'.intents = marked
      BY <1>1, <1>5 DEF Fields
    <2>4. QED
      BY <1>2, <2>2, <2>3 DEF receipts
  <1>6. QED
    BY <1>3, <1>4, <1>5

LEMMA UncertainEffect ==
  ASSUME state \in State, NEW i,
         state' = [state EXCEPT !.hold = TRUE, !.intents[i].status = "RECONCILIATION_REQUIRED"]
  PROVE  /\ Still(state, state') /\ SameFiles(state, state') /\ state'.hold
         /\ DOMAIN state'.intents = DOMAIN state.intents
         /\ \A j \in DOMAIN state.intents : state'.intents[j].task = state.intents[j].task
  <1> DEFINE marked == Marked(state.intents, i, "RECONCILIATION_REQUIRED")
  <1>1. DOMAIN state = Fields
    BY StateFields
  <1>2. /\ marked \in Seq(Intent) /\ DOMAIN marked = DOMAIN state.intents
        /\ \A j \in DOMAIN state.intents : marked[j].task = state.intents[j].task
    BY MarkedIntents
  <1>3. state' = [state EXCEPT !.hold = TRUE, !.intents = marked]
    BY DEF Marked
  <1> HIDE DEF marked
  <1>4. state' \in State
    BY <1>2, <1>3 DEF State, Intent
  <1>5. Still(state, state')
    BY <1>1, <1>3, <1>4 DEF Fields, Still
  <1>6. state'.intents = marked /\ state'.hold /\ SameFiles(state, state')
    BY <1>1, <1>3 DEF Fields, SameFiles
  <1>7. QED
    BY <1>2, <1>5, <1>6

\* A new controller's state.
LEMMA InitialFacts ==
  ASSUME NEW mode \in Modes, state = InitialState(mode)
  PROVE  /\ CycleInv /\ state \in State /\ Checkpointed(state) = {}
         /\ state.mode = mode /\ state.active = None /\ state.pending = None
         /\ state.tasks = {} /\ state.results = {}
         /\ state.workspaces = {} /\ state.intents = <<>> /\ state.checkpoints = <<>>
         /\ \A c \in Cycles : state.cycles[c] = None /\ state.finals[c] = None
  <1>1. /\ DOMAIN state = Fields /\ state \in State
    <2>1. NoTiming \in Timing
      BY NoTimingType
    <2>2. DOMAIN state = Fields
      BY DEF InitialState, Fields
    <2>3. /\ [c \in Cycles |-> None] \in [Cycles -> Cycle \cup {None}]
          /\ [c \in Cycles |-> None] \in [Cycles -> Final \cup {None}]
          /\ [c \in Cycles |-> {}] \in [Cycles -> SUBSET (1 .. MaxIterations)]
          /\ [c \in Cycles |-> 0] \in [Cycles -> Nat]
          /\ [c \in Cycles |-> <<>>] \in [Cycles -> Seq(Review)]
      OBVIOUS
    <2>4. /\ state.cycles \in [Cycles -> Cycle \cup {None}]
          /\ state.finals \in [Cycles -> Final \cup {None}]
          /\ state.plans \in [Cycles -> SUBSET (1 .. MaxIterations)]
          /\ state.spent \in [Cycles -> Nat]
          /\ state.reviews \in [Cycles -> Seq(Review)]
      BY <2>3 DEF InitialState
    <2>5. /\ state.intents \in Seq(Intent) /\ state.checkpoints \in Seq(Task)
          /\ state.integrations \in Seq(Integration) /\ state.outcomes \in Seq(Outcome)
      BY DEF InitialState
    <2>6. /\ state.mode \in Modes /\ state.active = None /\ state.hold \in BOOLEAN
          /\ state.tasks = {} /\ state.pending = None /\ state.timing \in Timing
          /\ state.results = {} /\ state.iterations = {} /\ state.workspaces = {}
      BY <2>1 DEF InitialState
    <2>7. state = [f \in Fields |-> state[f]]
      BY DEF InitialState, Fields
    <2>8. state \in State
      BY <2>4, <2>5, <2>6, <2>7 DEF State, Fields, Intent, Integration, Outcome
    <2>9. QED
      BY <2>2, <2>8
  <1>2. /\ state.active = None /\ state.hold = FALSE /\ state.pending = None
        /\ state.tasks = {} /\ state.results = {} /\ state.iterations = {}
        /\ state.workspaces = {} /\ state.intents = <<>> /\ state.checkpoints = <<>>
        /\ \A c \in Cycles : /\ state.cycles[c] = None /\ state.finals[c] = None
                             /\ state.reviews[c] = <<>>
    BY DEF InitialState
  <1>3. Checkpointed(state) = {} /\ Open(state) = {}
    BY <1>2 DEF Checkpointed, Range, Open
  <1>4. CycleInv
    <2>1. PendingTells /\ FinalsTell /\ TasksTell /\ OpenTells /\ ResultsTell
      BY <1>2, <1>3 DEF PendingTells, FinalsTell, TasksTell, OpenTells, ResultsTell
    <2>2. ActiveTells
      BY <1>2, NoneAssumption DEF ActiveTells
    <2>3. ChainTells /\ ReviewsTell /\ AcceptTells
      BY <1>2 DEF ChainTells, ReviewsTell, AcceptTells
    <2>4. QED
      BY <1>1, <2>1, <2>2, <2>3 DEF CycleInv
  <1>5. QED
    BY <1>1, <1>2, <1>3, <1>4 DEF InitialState

-----------------------------------------------------------------------------
(* Integrations                                                              *)

\* The architect accepted the cycle's candidate.
Accepted(c) == state.cycles[c] # None /\ state.cycles[c].decision = "ACCEPT"

LEMMA MarkedIntegrations ==
  ASSUME NEW s \in State, NEW i, NEW status \in {"APPLIED", "RECONCILIATION_REQUIRED"}
  PROVE  Marked(s.integrations, i, status) \in Seq(Integration)
  <1>1. \A e \in Integration : WithStatus(e, status) \in Integration
    BY DEF Integration, WithStatus
  <1>2. s.integrations \in Seq(Integration)
    BY LedgerTypes
  <1>3. QED
    BY <1>1, <1>2, MarkedFacts

\* The integration is entered with this status, and its outcome appended.
Entered(c, i, status, outcome) ==
    [state EXCEPT !.integrations[i].status = status,
                  !.outcomes = Append(@, [cycle |-> c, status |-> outcome])]

LEMMA EnteredEffect ==
  ASSUME state \in State, NEW c \in Cycles, NEW i,
         NEW status \in {"APPLIED", "RECONCILIATION_REQUIRED"},
         NEW outcome \in {"INTEGRATED", "INTEGRATION_RECONCILIATION_REQUIRED"}
  PROVE  LET t == Entered(c, i, status, outcome)
         IN  /\ Still(state, t) /\ SameFiles(state, t) /\ DOMAIN t = Fields
             /\ t.intents = state.intents /\ t.hold = state.hold
  <1> DEFINE t == Entered(c, i, status, outcome)
             entry == [cycle |-> c, status |-> outcome]
             outcomes == Append(state.outcomes, entry)
             marked == Marked(state.integrations, i, status)
  <1>1. DOMAIN state = Fields /\ state.outcomes \in Seq(Outcome)
    BY StateFields, LedgerTypes
  <1>2. entry \in Outcome
    BY DEF Outcome
  <1>3. marked \in Seq(Integration)
    BY MarkedIntegrations
  <1>4. t = [state EXCEPT !.integrations = marked, !.outcomes = outcomes]
    BY DEF Entered, Marked
  <1> HIDE DEF entry, marked, t
  <1>5. outcomes \in Seq(Outcome)
    BY <1>1, <1>2
  <1> HIDE DEF outcomes
  <1>6. t \in State
    BY <1>3, <1>4, <1>5 DEF State, Integration, Outcome
  <1>7. Still(state, t)
    BY <1>1, <1>4, <1>6 DEF Fields, Still
  <1>8. /\ SameFiles(state, t) /\ DOMAIN t = Fields
        /\ t.intents = state.intents /\ t.hold = state.hold
    BY <1>1, <1>4 DEF Fields, SameFiles
  <1>9. QED
    BY <1>7, <1>8 DEF t

\* An accepted cycle that is not closed is the active one, and nothing is pending.
LEMMA WaitingFacts ==
  ASSUME CycleInv, NEW c \in Cycles, Accepted(c), state.finals[c] = None
  PROVE  state.active = c /\ state.pending = None /\ Open(state) = {}
  <1>1. state.active = c
    BY DEF CycleInv, FinalsTell, ActiveTells, Accepted
  <1>2. state.pending = None
    <2> SUFFICES ASSUME state.pending # None PROVE FALSE
      OBVIOUS
    <2>1. c = state.pending.cycle /\ state.cycles[c].decision = "NONE"
      BY <1>1, PendingFacts
    <2>2. QED
      BY <2>1 DEF Accepted
  <1>3. \A task \in Open(state) : FALSE
    <2> SUFFICES ASSUME NEW task \in Open(state) PROVE FALSE
      OBVIOUS
    <2>1. task = None \/ state.active = None
      BY <1>2 DEF CycleInv, OpenTells, Stalled
    <2>2. task \in Task
      BY TypeFacts DEF Open, CycleInv
    <2>3. QED
      BY <1>1, <2>1, <2>2, NoneAssumption, NoTaskAssumption
  <1>4. QED
    BY <1>1, <1>2, <1>3

\* The step that enters the integration as applied and closes its cycle as accepted.
ClosesIntegrated(c, i) ==
    state' = FinalizeTerminalCycle(Entered(c, i, "APPLIED", "INTEGRATED"), c, state.cycles[c],
                                   "ACCEPTED", "COMPLETE", "INTEGRATED", FALSE)

\* An integration whose cycle is still open closes it, and lowers the hold: no candidate is
\* without its receipt then.
LEMMA IntegrationCloses ==
  ASSUME CycleInv, NEW c \in Cycles, Accepted(c), state.finals[c] = None, NEW i, ClosesIntegrated(c, i)
  PROVE  /\ CycleInv' /\ SameFiles(state, state') /\ state'.intents = state.intents
         /\ Open(state)' = {} /\ state'.tasks = state.tasks /\ state'.active = None
         /\ state'.finals[c] # None /\ state'.finals[c].reason = "INTEGRATED"
         /\ Accepted(c)' /\ state'.cycles[c].target = state.cycles[c].target
         /\ \A d \in Cycles \ {c} : /\ state'.cycles[d] = state.cycles[d]
                                    /\ state'.finals[d] = state.finals[d]
  <1> DEFINE s == Entered(c, i, "APPLIED", "INTEGRATED")
             cycle == state.cycles[c]
             status == "ACCEPTED"
             stage == "COMPLETE"
             reason == "INTEGRATED"
             lowered == FALSE
             new == ClosedAs(cycle, status, stage)
             final == [terminal |-> status, reason |-> reason]
  <1>1. state' = FinalizeTerminalCycle(s, c, cycle, status, stage, reason, lowered)
    BY DEF ClosesIntegrated
  <1>2. /\ lowered \in Holds /\ status \in Terminal /\ stage \in Stages
        /\ reason \in AllVerdicts \cup {"INTEGRATED", "FAIL_CLOSED"}
    BY DEF Holds, Terminal, Stages
  <1> HIDE DEF status, stage, reason, lowered
  <1>3. state \in State /\ cycle \in Cycle
    BY TypeFacts DEF CycleInv, Accepted
  <1>4. /\ Still(state, s) /\ SameFiles(state, s) /\ s.intents = state.intents
    BY <1>3, EnteredEffect
  <1> HIDE DEF s, cycle
  <1>5. state.active = c /\ Open(state) = {}
    BY WaitingFacts
  <1>6. status \in Terminal /\ status = "ACCEPTED" /\ reason = "INTEGRATED"
    BY <1>2 DEF status, reason
  <1>7. s \in State /\ s.finals[c] = None
    BY <1>4 DEF Still
  <1>8. /\ new \in Cycle
        /\ state' \in State /\ Elsewhere(s, state')
        /\ state'.cycles = [s.cycles EXCEPT ![c] = new]
        /\ state'.active = None /\ state'.pending = None
        /\ state'.finals = [s.finals EXCEPT ![c] = final] /\ final # None
        /\ state'.spent = s.spent /\ state'.tasks = s.tasks
        /\ state'.results = s.results /\ state'.iterations = s.iterations
        /\ state'.reviews = s.reviews
    <2> DEFINE t == FinalizeTerminalCycle(s, c, cycle, status, stage, reason, lowered)
    <2>1. /\ new \in Cycle
          /\ t \in State /\ Elsewhere(s, t)
          /\ t.cycles = [s.cycles EXCEPT ![c] = new]
          /\ t.active = None /\ t.pending = None
          /\ t.finals = [s.finals EXCEPT ![c] = final] /\ final # None
          /\ t.spent = s.spent /\ t.tasks = s.tasks
          /\ t.results = s.results /\ t.iterations = s.iterations
          /\ t.reviews = s.reviews
      BY <1>2, <1>3, <1>7, FinalizeEffect
    <2> HIDE DEF t, new, final
    <2>2. state' = t
      BY <1>1 DEF t
    <2>3. QED
      BY <2>1, <2>2
  <1>9. /\ new # None /\ new.status = "ACCEPTED" /\ new.iteration = cycle.iteration
        /\ new.target = cycle.target /\ new.base = cycle.base
        /\ new.candidate = cycle.candidate /\ new.decision = cycle.decision
    BY <1>2, <1>3, <1>6, ClosedFacts
  <1>10. final.terminal = "ACCEPTED" /\ final.reason = "INTEGRATED"
    BY <1>6
  <1> HIDE DEF new, final
  <1>11. /\ s.cycles = state.cycles /\ s.finals = state.finals /\ s.spent = state.spent
         /\ s.tasks = state.tasks /\ s.results = state.results
         /\ s.iterations = state.iterations /\ s.reviews = state.reviews
    BY <1>4 DEF Still
  <1>12. /\ state'.cycles[c] = new /\ state'.finals[c] = final
         /\ \A d \in Cycles \ {c} : /\ state'.cycles[d] = state.cycles[d]
                                    /\ state'.finals[d] = state.finals[d]
    <2>1. state.finals \in [Cycles -> Final \cup {None}]
          /\ state.cycles \in [Cycles -> Cycle \cup {None}]
      BY <1>3, TypeFacts
    <2>2. QED
      BY <1>8, <1>11, <2>1
  <1>13. SameFiles(state, state') /\ state'.intents = state.intents
         /\ Checkpointed(state)' = Checkpointed(state)
    BY <1>4, <1>8 DEF SameFiles, Elsewhere, Checkpointed
  <1>14. Merited(state, c, cycle)
    BY DEF Accepted, CycleInv, AcceptTells, Merited, MayAccept, LatestReview, LatestOf, cycle
  <1>15. Merited(state', c, new)
    BY <1>8, <1>9, <1>11, <1>13, <1>14 DEF Merited, LatestOf
  <1>16. Open(state)' = {}
    BY <1>5, <1>8, <1>11, <1>13 DEF Open
  <1>17. state'.checkpoints = state.checkpoints
    BY <1>13 DEF SameFiles
  <1>18. Closes(c, new)
    BY <1>8, <1>9, <1>10, <1>11, <1>12, <1>17 DEF Closes
  <1>19. /\ new.status \in Terminal /\ new.base = state.cycles[c].base
         /\ new.iteration = state.cycles[c].iteration
         /\ new.candidate = state.cycles[c].candidate
    BY <1>6, <1>9 DEF cycle
  <1>20. CycleInv'
    BY <1>5, <1>8, <1>15, <1>18, <1>19, CloseKeeps
  <1>21. Accepted(c)' /\ state'.cycles[c].target = state.cycles[c].target
    BY <1>9, <1>12 DEF Accepted, cycle
  <1>22. QED
    BY <1>8, <1>10, <1>11, <1>12, <1>13, <1>16, <1>20, <1>21

-----------------------------------------------------------------------------
(* The commands of module LocalCheckpoint, whatever else the processes do     *)

\* What a process that prepares or checkpoints has made sure of, and what of that still holds.
CommandTells(q) ==
    LET step == job[q].step
        x    == job[q].subject
    IN  /\ step \in PrepareSteps => x \in state.tasks
        /\ step = "cloned" => x \in clones
        /\ step \in CheckpointSteps => x \in state.tasks /\ Builder(x) /\ x \in state.workspaces
        /\ step = "committed" => x \in commits /\ x \notin Checkpointed(state)

\* A commit is made once: the process that made it is the only one to report it.
SoleCommitter ==
    \A p, q \in Processes :
        At(p, "committed") /\ At(q, "committed") /\ Subject(p) = Subject(q) => p = q

\* Receipts and workspaces are of issued tasks, and of what was committed.
ReceiptsTell ==
    /\ state.workspaces \subseteq state.tasks
    /\ Checkpointed(state) \subseteq commits \cap state.workspaces
    /\ IsInjective(state.checkpoints)
    /\ \A i \in DOMAIN state.intents :
         state.intents[i].task \in state.tasks /\ Builder(state.intents[i].task)

\* A checkpoint intent whose candidate has no receipt keeps the controller held.
IntentsHold ==
    \A i \in DOMAIN state.intents :
        state.intents[i].task \notin Checkpointed(state) => state.hold

WorkInv == (\A q \in Processes : CommandTells(q)) /\ SoleCommitter /\ ReceiptsTell /\ IntentsHold

JobShape == job = [q \in Processes |-> [step |-> job[q].step, subject |-> job[q].subject]]

\* What the commands rely on, in every composition that they are part of.
WorkBase ==
    /\ CycleInv /\ WorkInv /\ JobShape
    /\ clones \subseteq Task /\ commits \subseteq Task /\ reported \subseteq Task

LEMMA WorkFacts ==
  ASSUME WorkBase
  PROVE  /\ CycleInv /\ state \in State /\ state.tasks \subseteq Task
         /\ clones \subseteq Task /\ commits \subseteq Task /\ reported \subseteq Task
         /\ \A p \in Processes : CommandTells(p)
  BY TypeFacts DEF WorkBase, CycleInv, WorkInv

LEMMA JobShaped ==
  ASSUME NEW S, NEW X, job \in [Processes -> [step : S, subject : X]]
  PROVE  JobShape
  BY DEF JobShape

\* The process is at this step now, for this task; the others where they were.
JobMoved(p, step, subject) ==
    /\ job' = [job EXCEPT ![p] = [step |-> step, subject |-> subject]]
    /\ job'[p].step = step /\ job'[p].subject = subject
    /\ \A q \in Processes \ {p} : job'[q] = job[q]

LEMMA JobTyped ==
  ASSUME NEW S, NEW X, job \in [Processes -> [step : S, subject : X]], NEW p \in Processes,
         NEW step \in S, NEW subject \in X, JobMoved(p, step, subject)
  PROVE  job' \in [Processes -> [step : S, subject : X]]
  BY DEF JobMoved

LEMMA JobMoves ==
  ASSUME WorkBase, NEW p \in Processes
  PROVE  /\ \A step : Goto(p, step) => JobMoved(p, step, Subject(p))
         /\ \A step, subject : Begin(p, step, subject) => JobMoved(p, step, subject)
         /\ End(p) => JobMoved(p, "idle", None)
  <1> DEFINE record(q) == [step |-> job[q].step, subject |-> job[q].subject]
  <1>1. job = [q \in Processes |-> record(q)] /\ DOMAIN job = Processes
    BY DEF WorkBase, JobShape
  <1>2. ASSUME NEW step, Goto(p, step) PROVE JobMoved(p, step, Subject(p))
    <2> DEFINE new == [step |-> step, subject |-> Subject(p)]
    <2>1. job[p] = record(p)
      BY <1>1
    <2>2. [job[p] EXCEPT !.step = step] = new
      BY <2>1 DEF Subject
    <2>3. job' = [job EXCEPT ![p] = new]
      BY <1>2, <2>2 DEF Goto
    <2>4. new.step = step /\ new.subject = Subject(p)
      OBVIOUS
    <2> HIDE DEF new, record
    <2>5. job'[p] = new /\ \A q \in Processes \ {p} : job'[q] = job[q]
      BY <1>1, <2>3
    <2>6. QED
      BY <2>3, <2>4, <2>5 DEF JobMoved, new
  <1>3. ASSUME NEW step, NEW subject, Begin(p, step, subject) PROVE JobMoved(p, step, subject)
    <2> DEFINE new == [step |-> step, subject |-> subject]
    <2>1. job' = [job EXCEPT ![p] = new]
      BY <1>3 DEF Begin
    <2>2. new.step = step /\ new.subject = subject
      OBVIOUS
    <2> HIDE DEF new, record
    <2>3. job'[p] = new /\ \A q \in Processes \ {p} : job'[q] = job[q]
      BY <1>1, <2>1
    <2>4. QED
      BY <2>1, <2>2, <2>3 DEF JobMoved, new
  <1>4. End(p) => Begin(p, "idle", None)
    BY DEF End, Begin, Idle
  <1>5. QED
    BY <1>2, <1>3, <1>4

\* Nothing is known of a process that is at none of a command's steps.
LEMMA NoCommand ==
  ASSUME NEW p \in Processes, NEW step, NEW subject, JobMoved(p, step, subject),
         step \notin PrepareSteps \cup CheckpointSteps
  PROVE  CommandTells(p)'
  BY DEF JobMoved, CommandTells, PrepareSteps, CheckpointSteps

WorkSubjects == Task \cup {None}

\* The file system only gains, and stays within its types.
WorkGains ==
    /\ clones \subseteq clones' /\ commits \subseteq commits'
    /\ clones' \subseteq Task /\ commits' \subseteq Task /\ reported' \subseteq Task

WorkSteps == {"idle"} \cup PrepareSteps \cup CheckpointSteps

\* What a step of these commands does: it moves no cycle, and lowers the hold only where a
\* candidate had no receipt.
Worked(p) ==
    /\ CycleInv' /\ WorkInv' /\ WorkGains /\ Still(state, state')
    /\ state.workspaces \subseteq state'.workspaces
    /\ state'.workspaces \subseteq state.workspaces \cup clones
    /\ Checkpointed(state) \subseteq Checkpointed(state)'
    /\ state.hold => state'.hold \/ Open(state) # {}
    /\ \E step \in WorkSteps, subject \in WorkSubjects : JobMoved(p, step, subject)

\* What a step of process p has to show.
LEMMA WorkStepKeeps ==
  ASSUME WorkBase, NEW p \in Processes, NEW step \in WorkSteps, NEW subject \in WorkSubjects,
         JobMoved(p, step, subject),
         CommandTells(p)', CycleInv', Still(state, state'), WorkGains,
         state.workspaces \subseteq state'.workspaces,
         state'.workspaces \subseteq state.workspaces \cup clones,
         Checkpointed(state) \subseteq Checkpointed(state)',
         step = "committed" => subject \notin commits \/ (At(p, step) /\ Subject(p) = subject),
         \A q \in Processes \ {p} :
             At(q, "committed") => Subject(q) \notin Checkpointed(state)',
         ReceiptsTell', IntentsHold', state.hold => state'.hold \/ Open(state) # {}
  PROVE  Worked(p)
  <1>1. \A q \in Processes \ {p} : job'[q] = job[q]
    BY DEF JobMoved
  <1>2. \A q \in Processes : CommandTells(q)'
    <2> SUFFICES ASSUME NEW q \in Processes PROVE CommandTells(q)'
      OBVIOUS
    <2>1. CASE q = p
      BY <2>1
    <2>2. CASE q # p
      <3>1. CommandTells(q) /\ job'[q] = job[q]
        BY <1>1, <2>2 DEF WorkBase, WorkInv
      <3>2. state'.tasks = state.tasks
        BY DEF Still
      <3>3. job[q].step = "committed" => job[q].subject \notin Checkpointed(state)'
        BY <2>2 DEF At, Subject
      <3>4. QED
        BY <3>1, <3>2, <3>3 DEF CommandTells, WorkGains
    <2>3. QED
      BY <2>1, <2>2
  <1>3. SoleCommitter'
    <2> SUFFICES ASSUME NEW q1 \in Processes, NEW q2 \in Processes, q1 # q2,
                        job'[q1].step = "committed", job'[q2].step = "committed",
                        job'[q1].subject = job'[q2].subject
                 PROVE  FALSE
      BY DEF SoleCommitter, At, Subject
    <2>1. ASSUME NEW q \in Processes \ {p}, job'[q].step = "committed", step = "committed",
                 job'[q].subject = subject
          PROVE  FALSE
      <3>1. At(q, "committed") /\ Subject(q) = subject
        BY <1>1, <2>1 DEF At, Subject
      <3>2. subject \in commits
        BY <3>1 DEF WorkBase, WorkInv, CommandTells, At, Subject
      <3>3. At(p, "committed") /\ Subject(p) = subject
        BY <2>1, <3>2
      <3>4. QED
        BY <3>1, <3>3 DEF WorkBase, WorkInv, SoleCommitter
    <2>2. CASE q1 = p
      BY <2>1, <2>2 DEF JobMoved
    <2>3. CASE q2 = p
      BY <2>1, <2>3 DEF JobMoved
    <2>4. CASE q1 # p /\ q2 # p
      BY <1>1, <2>4 DEF WorkBase, WorkInv, SoleCommitter, At, Subject
    <2>5. QED
      BY <2>2, <2>3, <2>4
  <1>4. QED
    BY <1>2, <1>3 DEF Worked, WorkInv

LEMMA StateKept ==
  ASSUME CycleInv, UNCHANGED state
  PROVE  /\ CycleInv' /\ Still(state, state') /\ SameFiles(state, state')
         /\ Open(state)' = Open(state) /\ Checkpointed(state)' = Checkpointed(state)
  <1>1. Still(state, state') /\ SameFiles(state, state')
    BY DEF CycleInv, Still, SameFiles
  <1>2. Open(state)' = Open(state) /\ Checkpointed(state)' = Checkpointed(state)
    BY DEF Open, Checkpointed
  <1>3. CycleInv'
    BY <1>1, <1>2, StillKeeps
  <1>4. QED
    BY <1>1, <1>2, <1>3

\* A step that leaves the state alone.
LEMMA QuietWorkKeeps ==
  ASSUME WorkBase, NEW p \in Processes, NEW step \in WorkSteps, NEW subject \in WorkSubjects,
         JobMoved(p, step, subject), UNCHANGED state, CommandTells(p)', WorkGains,
         step = "committed" => subject \notin commits \/ (At(p, step) /\ Subject(p) = subject)
  PROVE  Worked(p)
  <1>1. /\ CycleInv' /\ Still(state, state') /\ SameFiles(state, state')
        /\ Checkpointed(state)' = Checkpointed(state)
    BY StateKept DEF WorkBase
  <1>2. ReceiptsTell' /\ IntentsHold'
    BY <1>1 DEF WorkBase, WorkInv, ReceiptsTell, IntentsHold, WorkGains, SameFiles
  <1>3. \A q \in Processes \ {p} :
          At(q, "committed") => Subject(q) \notin Checkpointed(state)'
    BY <1>1 DEF WorkBase, WorkInv, CommandTells, At, Subject
  <1>4. QED
    BY <1>1, <1>2, <1>3, WorkStepKeeps DEF SameFiles

\* A process takes up a command.
LEMMA StartWorkKeeps ==
  ASSUME WorkBase, NEW p \in Processes, StartWork(p)
  PROVE  Worked(p)
  <1>1. PICK task \in state.tasks : PrepareBegin(p, task) \/ CheckpointBegin(p, task)
    BY DEF StartWork
  <1>2. task \in Task /\ task \in WorkSubjects
    BY WorkFacts DEF WorkSubjects
  <1>3. "cloning" \in WorkSteps /\ "checked" \in WorkSteps
    BY DEF WorkSteps, PrepareSteps, CheckpointSteps
  <1>4. UNCHANGED state /\ WorkGains
    BY <1>1, WorkFacts DEF PrepareBegin, CheckpointBegin, WorkGains
  <1>5. CASE PrepareBegin(p, task)
    <2>1. JobMoved(p, "cloning", task)
      BY <1>2, <1>3, <1>5, JobMoves DEF PrepareBegin
    <2>2. CommandTells(p)'
      BY <1>4, <2>1 DEF JobMoved, CommandTells, PrepareSteps, CheckpointSteps
    <2>3. QED
      BY <1>2, <1>3, <1>4, <2>1, <2>2, QuietWorkKeeps
  <1>6. CASE CheckpointBegin(p, task)
    <2>1. JobMoved(p, "checked", task)
      BY <1>2, <1>3, <1>6, JobMoves DEF CheckpointBegin
    <2>2. task \in state.workspaces /\ Builder(task)
      BY <1>6 DEF CheckpointBegin, Builder
    <2>3. CommandTells(p)'
      BY <1>4, <2>1, <2>2 DEF JobMoved, CommandTells, PrepareSteps, CheckpointSteps
    <2>4. QED
      BY <1>2, <1>3, <1>4, <2>1, <2>3, QuietWorkKeeps
  <1>7. QED
    BY <1>1, <1>5, <1>6

LEMMA IdleWork ==
  /\ "idle" \in WorkSteps /\ None \in WorkSubjects /\ "idle" # "committed"
  /\ "idle" \notin PrepareSteps \cup CheckpointSteps
  BY DEF WorkSteps, WorkSubjects, PrepareSteps, CheckpointSteps

\* The steps of a preparation.
LEMMA PrepareWorkKeeps ==
  ASSUME WorkBase, NEW p \in Processes,
         Clone(p) \/ CloneFails(p) \/ RegisterWorkspace(p) \/ RegisterFails(p)
  PROVE  Worked(p)
  <1>1. /\ CycleInv /\ CommandTells(p) /\ state \in State /\ state.tasks \subseteq Task
        /\ clones \subseteq Task /\ commits \subseteq Task /\ reported \subseteq Task
    BY WorkFacts
  <1>2. At(p, "cloning") \/ At(p, "cloned") => Subject(p) \in state.tasks
    BY <1>1 DEF CommandTells, At, Subject, PrepareSteps
  <1>3. CASE Clone(p)
    <2>1. "cloned" \in WorkSteps
      BY DEF WorkSteps, PrepareSteps
    <2>2. JobMoved(p, "cloned", Subject(p))
      BY <1>3, <2>1, JobMoves DEF Clone
    <2>3. WorkGains /\ UNCHANGED state
      BY <1>1, <1>2, <1>3 DEF Clone, WorkGains
    <2>4. CommandTells(p)'
      BY <1>2, <1>3, <2>2, <2>3 DEF Clone, JobMoved, CommandTells, PrepareSteps, CheckpointSteps
    <2>5. Subject(p) \in WorkSubjects
      BY <1>1, <1>2, <1>3 DEF Clone, WorkSubjects
    <2>6. QED
      BY <2>1, <2>2, <2>3, <2>4, <2>5, QuietWorkKeeps
  <1>4. CASE CloneFails(p) \/ RegisterFails(p)
    <2>1. JobMoved(p, "idle", None)
      BY <1>4, JobMoves DEF CloneFails, RegisterFails
    <2>2. WorkGains /\ UNCHANGED state
      BY <1>1, <1>2, <1>4 DEF CloneFails, RegisterFails, WorkGains
    <2>3. QED
      BY <2>1, <2>2, IdleWork, NoCommand, QuietWorkKeeps
  <1>5. CASE RegisterWorkspace(p)
    <2>1. JobMoved(p, "idle", None)
      BY <1>5, JobMoves DEF RegisterWorkspace
    <2>2. Subject(p) \in Task /\ Subject(p) \in clones /\ Subject(p) \in state.tasks
      BY <1>1, <1>5 DEF RegisterWorkspace, CommandTells, At, Subject
    <2>3. state' = [state EXCEPT !.workspaces = @ \cup {Subject(p)}]
      BY <1>5 DEF RegisterWorkspace
    <2>4. /\ Still(state, state') /\ state'.workspaces = state.workspaces \cup {Subject(p)}
          /\ state'.checkpoints = state.checkpoints /\ state'.intents = state.intents
          /\ state'.hold = state.hold
      BY <1>1, <2>2, <2>3, RegisterEffect
    <2>5. Checkpointed(state)' = Checkpointed(state)
      BY <2>4 DEF Checkpointed
    <2>6. CycleInv'
      BY <1>1, <2>4, <2>5, StillKeeps
    <2>7. WorkGains
      BY <1>1, <1>5 DEF RegisterWorkspace, WorkGains
    <2>8. ReceiptsTell'
      BY <1>5, <2>2, <2>4, <2>5 DEF RegisterWorkspace, WorkBase, WorkInv, ReceiptsTell, Still
    <2>9. IntentsHold'
      BY <2>4, <2>5 DEF WorkBase, WorkInv, IntentsHold
    <2>10. \A q \in Processes \ {p} :
             At(q, "committed") => Subject(q) \notin Checkpointed(state)'
      BY <2>5 DEF WorkBase, WorkInv, CommandTells, At, Subject
    <2>11. /\ state.workspaces \subseteq state'.workspaces
           /\ state'.workspaces \subseteq state.workspaces \cup clones /\ CommandTells(p)'
      BY <2>1, <2>2, <2>4, NoCommand, IdleWork
    <2>12. QED
      BY <2>1, <2>4, <2>5, <2>6, <2>7, <2>8, <2>9, <2>10, <2>11, IdleWork, WorkStepKeeps
  <1>6. QED
    BY <1>3, <1>4, <1>5

\* A step that writes to the state file and leaves the hold up.
LEMMA HoldingWorkKeeps ==
  ASSUME WorkBase, NEW p \in Processes, NEW step \in WorkSteps, NEW subject \in WorkSubjects,
         JobMoved(p, step, subject), step # "committed", CommandTells(p)', WorkGains,
         Still(state, state'), SameFiles(state, state'), state'.hold,
         \A i \in DOMAIN state'.intents :
             state'.intents[i].task \in state.tasks /\ Builder(state'.intents[i].task)
  PROVE  Worked(p)
  <1>1. /\ Checkpointed(state)' = Checkpointed(state) /\ state'.tasks = state.tasks
        /\ state'.checkpoints = state.checkpoints /\ state'.workspaces = state.workspaces
    BY DEF Still, SameFiles, Checkpointed
  <1>2. CycleInv'
    BY <1>1, StillKeeps DEF WorkBase
  <1>3. ReceiptsTell'
    BY <1>1 DEF WorkBase, WorkInv, ReceiptsTell, WorkGains
  <1>4. IntentsHold'
    BY DEF IntentsHold
  <1>5. \A q \in Processes \ {p} :
          At(q, "committed") => Subject(q) \notin Checkpointed(state)'
    BY <1>1 DEF WorkBase, WorkInv, CommandTells, At, Subject
  <1>6. QED
    BY <1>1, <1>2, <1>3, <1>4, <1>5, WorkStepKeeps

LEMMA CandidateEffect ==
  ASSUME state \in State, NEW task \in Task, state' = Completed(task)
  PROVE  /\ Still(state, state') /\ state'.workspaces = state.workspaces
         /\ state'.checkpoints = Append(state.checkpoints, task)
         /\ DOMAIN state'.intents = DOMAIN state.intents
         /\ \A i \in DOMAIN state.intents : state'.intents[i].task = state.intents[i].task
  <1> DEFINE first == FirstIntent(state, task)
  <1>1. \/ state' = [state EXCEPT !.checkpoints = Append(@, task)]
        \/ state' = [state EXCEPT !.checkpoints = Append(@, task),
                                  !.intents = Marked(@, first, "COMPLETED"), !.hold = FALSE]
    BY DEF Completed, Marked
  <1> HIDE DEF first
  <1>2. QED
    BY <1>1, ReceiptEffect

\* The receipt of a candidate that a process has just committed.
LEMMA CandidateKeeps ==
  ASSUME WorkBase, NEW p \in Processes, At(p, "committed"), state' = Completed(Subject(p)),
         NEW step \in WorkSteps, NEW subject \in WorkSubjects, JobMoved(p, step, subject),
         step # "committed", CommandTells(p)', WorkGains
  PROVE  Worked(p)
  <1> DEFINE x == Subject(p)
  <1>1. /\ x \in state.tasks /\ Builder(x) /\ x \in state.workspaces /\ x \in commits
        /\ x \notin Checkpointed(state)
    BY WorkFacts DEF CommandTells, At, Subject, CheckpointSteps
  <1>2. x \in Task /\ state \in State /\ CycleInv
    BY <1>1, WorkFacts
  <1>3. /\ Still(state, state') /\ state'.workspaces = state.workspaces
        /\ state'.checkpoints = Append(state.checkpoints, x)
        /\ DOMAIN state'.intents = DOMAIN state.intents
        /\ \A i \in DOMAIN state.intents : state'.intents[i].task = state.intents[i].task
    BY <1>2, CandidateEffect
  <1>4. state.checkpoints \in Seq(Task)
    BY <1>2, LedgerTypes
  <1>5. Checkpointed(state)' = Checkpointed(state) \cup {x} /\ IsInjective(state'.checkpoints)
    <2>1. IsInjective(state.checkpoints)
      BY DEF WorkBase, WorkInv, ReceiptsTell
    <2>2. QED
      BY <1>1, <1>2, <1>3, <1>4, <2>1 DEF Checkpointed, Range, IsInjective
  <1>6. Open(state) \subseteq {x} /\ x \in Open(state)
    BY <1>1, <1>2 DEF Open, CycleInv, OpenTells
  <1>7. Open(state)' = {}
    BY <1>3, <1>5, <1>6 DEF Open, Still
  <1>8. CycleInv'
    BY <1>2, <1>3, <1>5, <1>7, StillKeeps
  <1>9. ReceiptsTell'
    BY <1>1, <1>3, <1>5 DEF WorkBase, WorkInv, ReceiptsTell, WorkGains, Still
  <1>10. IntentsHold'
    BY <1>7, <1>9 DEF ReceiptsTell, Open, IntentsHold
  <1>11. ASSUME NEW q \in Processes \ {p}, At(q, "committed")
         PROVE  Subject(q) \notin Checkpointed(state)'
    <2>1. Subject(q) \notin Checkpointed(state)
      BY <1>11 DEF WorkBase, WorkInv, CommandTells, At, Subject
    <2>2. Subject(q) # x
      BY <1>11 DEF WorkBase, WorkInv, SoleCommitter
    <2>3. QED
      BY <1>5, <2>1, <2>2
  <1>12. /\ state'.workspaces = state.workspaces /\ Open(state) # {}
         /\ Checkpointed(state) \subseteq Checkpointed(state)'
    BY <1>3, <1>5, <1>6
  <1> HIDE DEF x
  <1>13. QED
    BY <1>3, <1>8, <1>9, <1>10, <1>11, <1>12, WorkStepKeeps

LEMMA IntentWorkKeeps ==
  ASSUME WorkBase, NEW p \in Processes, At(p, "checked"), state' = Intended(Subject(p)),
         NEW step \in WorkSteps, NEW subject \in WorkSubjects, JobMoved(p, step, subject),
         step # "committed", CommandTells(p)', WorkGains
  PROVE  Worked(p)
  <1>1. Subject(p) \in state.tasks /\ Builder(Subject(p))
    BY WorkFacts DEF CommandTells, At, Subject, CheckpointSteps
  <1>2. Subject(p) \in Task
    BY <1>1, WorkFacts
  <1>3. /\ Still(state, state') /\ SameFiles(state, state') /\ state'.hold
        /\ \A i \in DOMAIN state'.intents :
             \/ state'.intents[i].task = Subject(p)
             \/ i \in DOMAIN state.intents /\ state'.intents[i] = state.intents[i]
    BY <1>2, WorkFacts, IntendedEffect
  <1>4. \A i \in DOMAIN state'.intents :
          state'.intents[i].task \in state.tasks /\ Builder(state'.intents[i].task)
    BY <1>1, <1>3 DEF WorkBase, WorkInv, ReceiptsTell
  <1>5. QED
    BY <1>3, <1>4, HoldingWorkKeeps

\* The steps of a checkpoint.
LEMMA CheckpointWorkKeeps ==
  ASSUME WorkBase, NEW p \in Processes,
         \/ CheckpointIntent(p) \/ CheckpointIntentFails(p)
         \/ CheckpointCommit(p) \/ CheckpointCommitFails(p)
         \/ CheckpointComplete(p) \/ CheckpointCompleteFails(p)
         \/ CheckpointUncertain(p) \/ CheckpointUncertainSwallowed(p)
  PROVE  Worked(p)
  <1> DEFINE x == Subject(p)
  <1>1. /\ CycleInv /\ state \in State /\ state.tasks \subseteq Task
        /\ clones \subseteq Task /\ commits \subseteq Task /\ reported \subseteq Task
    BY WorkFacts
  <1>2. /\ "intended" \in WorkSteps /\ "committed" \in WorkSteps /\ "failing" \in WorkSteps
        /\ "checked" \in CheckpointSteps /\ "intended" \in CheckpointSteps
        /\ "committed" \in CheckpointSteps /\ "failing" \in CheckpointSteps
    BY DEF WorkSteps, CheckpointSteps
  <1>3. job[p].step \in CheckpointSteps
    BY <1>2 DEF At, CheckpointIntent, CheckpointIntentFails, CheckpointCommit,
       CheckpointCommitFails, CheckpointComplete, CheckpointCompleteFails, CheckpointUncertain,
       CheckpointUncertainSwallowed
  <1>4. x \in state.tasks /\ Builder(x) /\ x \in state.workspaces
    BY <1>3, WorkFacts DEF CommandTells, Subject
  <1>5. x \in Task /\ x \in WorkSubjects
    BY <1>1, <1>4 DEF WorkSubjects
  <1>6. WorkGains
    BY <1>1, <1>5 DEF WorkGains, CheckpointIntent, CheckpointIntentFails, CheckpointCommit,
       CheckpointCommitFails, CheckpointComplete, CheckpointCompleteFails, CheckpointUncertain,
       CheckpointUncertainSwallowed
  <1>7. ASSUME NEW step \in CheckpointSteps, step # "committed", JobMoved(p, step, x),
               state'.tasks = state.tasks, state'.workspaces = state.workspaces
        PROVE  CommandTells(p)'
    BY <1>4, <1>7 DEF JobMoved, CommandTells, PrepareSteps, CheckpointSteps
  <1>8. JobMoved(p, "idle", None) => CommandTells(p)'
    BY NoCommand, IdleWork
  <1> HIDE DEF x
  <1>9. CASE CheckpointIntent(p)
    <2>1. JobMoved(p, "intended", x) /\ At(p, "checked") /\ state' = Intended(x)
      BY <1>2, <1>9, JobMoves DEF CheckpointIntent, Intended, x
    <2>2. Still(state, state') /\ SameFiles(state, state')
      BY <1>1, <1>5, <2>1, IntendedEffect
    <2>3. CommandTells(p)'
      BY <1>2, <1>7, <2>1, <2>2 DEF Still, SameFiles
    <2>4. QED
      BY <1>2, <1>5, <1>6, <2>1, <2>3, IntentWorkKeeps DEF x
  <1>10. CASE CheckpointIntentFails(p)
    <2>1. JobMoved(p, "idle", None) /\ At(p, "checked") /\ (state' = Intended(x) \/ UNCHANGED state)
      BY <1>10, JobMoves DEF CheckpointIntentFails, Intended, x
    <2>2. CASE UNCHANGED state
      BY <1>6, <1>8, <2>1, <2>2, IdleWork, QuietWorkKeeps
    <2>3. CASE state' = Intended(x)
      BY <1>6, <1>8, <2>1, <2>3, IdleWork, IntentWorkKeeps DEF x
    <2>4. QED
      BY <2>1, <2>2, <2>3
  <1>11. CASE CheckpointCommit(p)
    <2>1. JobMoved(p, "committed", x) /\ x \notin commits /\ x \in commits' /\ UNCHANGED state
      BY <1>2, <1>11, JobMoves DEF CheckpointCommit, x
    <2>2. x \notin Checkpointed(state)
      BY <2>1 DEF WorkBase, WorkInv, ReceiptsTell
    <2>3. CommandTells(p)'
      BY <1>4, <2>1, <2>2 DEF JobMoved, CommandTells, PrepareSteps, CheckpointSteps, Checkpointed
    <2>4. QED
      BY <1>2, <1>5, <1>6, <2>1, <2>3, QuietWorkKeeps
  <1>12. CASE CheckpointCommitFails(p)
    <2>1. (JobMoved(p, "idle", None) \/ JobMoved(p, "failing", x)) /\ UNCHANGED state
      BY <1>2, <1>12, JobMoves DEF CheckpointCommitFails, x
    <2>2. CommandTells(p)'
      BY <1>2, <1>7, <1>8, <2>1
    <2>3. QED
      BY <1>2, <1>5, <1>6, <2>1, <2>2, IdleWork, QuietWorkKeeps
  <1>13. CASE CheckpointComplete(p)
    <2>1. JobMoved(p, "idle", None) /\ At(p, "committed") /\ state' = Completed(Subject(p))
      BY <1>13, JobMoves DEF CheckpointComplete
    <2>2. QED
      BY <1>6, <1>8, <2>1, IdleWork, CandidateKeeps
  <1>14. CASE CheckpointCompleteFails(p)
    <2>1. (JobMoved(p, "idle", None) \/ JobMoved(p, "failing", x)) /\ At(p, "committed")
          /\ (state' = Completed(x) \/ UNCHANGED state)
      BY <1>2, <1>14, JobMoves DEF CheckpointCompleteFails, x
    <2>2. state'.tasks = state.tasks /\ state'.workspaces = state.workspaces
      BY <1>1, <1>5, <2>1, CandidateEffect DEF Still
    <2>3. CommandTells(p)'
      BY <1>2, <1>7, <1>8, <2>1, <2>2
    <2>4. CASE UNCHANGED state
      BY <1>2, <1>5, <1>6, <2>1, <2>3, <2>4, IdleWork, QuietWorkKeeps
    <2>5. CASE state' = Completed(x)
      BY <1>2, <1>5, <1>6, <2>1, <2>3, <2>5, IdleWork, CandidateKeeps DEF x
    <2>6. QED
      BY <2>1, <2>4, <2>5
  <1>15. CASE CheckpointUncertain(p)
    <2>1. JobMoved(p, "idle", None)
      BY <1>15, JobMoves DEF CheckpointUncertain
    <2>2. PICK i : state' = [state EXCEPT !.hold = TRUE,
                                          !.intents[i].status = "RECONCILIATION_REQUIRED"]
      BY <1>15 DEF CheckpointUncertain
    <2>3. /\ Still(state, state') /\ SameFiles(state, state') /\ state'.hold
          /\ DOMAIN state'.intents = DOMAIN state.intents
          /\ \A j \in DOMAIN state.intents : state'.intents[j].task = state.intents[j].task
      BY <1>1, <2>2, UncertainEffect
    <2>4. \A j \in DOMAIN state'.intents :
            state'.intents[j].task \in state.tasks /\ Builder(state'.intents[j].task)
      BY <2>3 DEF WorkBase, WorkInv, ReceiptsTell
    <2>5. QED
      BY <1>6, <1>8, <2>1, <2>3, <2>4, IdleWork, HoldingWorkKeeps
  <1>16. CASE CheckpointUncertainSwallowed(p)
    <2>1. JobMoved(p, "idle", None) /\ UNCHANGED state
      BY <1>16, JobMoves DEF CheckpointUncertainSwallowed
    <2>2. QED
      BY <1>6, <1>8, <2>1, IdleWork, QuietWorkKeeps
  <1>17. QED
    BY <1>9, <1>10, <1>11, <1>12, <1>13, <1>14, <1>15, <1>16

LEMMA WorkKeeps ==
  ASSUME WorkBase, NEW p \in Processes, Work(p) \/ StartWork(p) \/ Crash(p)
  PROVE  Worked(p)
  <1>1. ASSUME Crash(p) PROVE Worked(p)
    <2>1. JobMoved(p, "idle", None) /\ UNCHANGED state /\ WorkGains
      BY <1>1, WorkFacts, JobMoves DEF Crash, WorkGains
    <2>2. QED
      BY <2>1, IdleWork, NoCommand, QuietWorkKeeps
  <1>2. QED
    BY <1>1, StartWorkKeeps, PrepareWorkKeeps, CheckpointWorkKeeps DEF Work

\* A step that is none of these commands' touches none of their files, and moves no process
\* into a preparation or a checkpoint.
LEMMA WorkKept ==
  ASSUME WorkBase, UNCHANGED <<clones, commits>>,
         \A q \in Processes :
             job'[q] = job[q] \/ job'[q].step \notin PrepareSteps \cup CheckpointSteps,
         state.tasks \subseteq state'.tasks, SameFiles(state, state'),
         state'.intents = state.intents, state.hold => state'.hold \/ Open(state)' = {}
  PROVE  WorkInv'
  <1>1. /\ Checkpointed(state)' = Checkpointed(state) /\ state'.checkpoints = state.checkpoints
        /\ state'.workspaces = state.workspaces
    BY DEF SameFiles, Checkpointed
  <1>2. ASSUME NEW q \in Processes PROVE CommandTells(q)'
    <2>1. CASE job'[q] = job[q]
      BY <1>1, <2>1, WorkFacts DEF CommandTells
    <2>2. CASE job'[q].step \notin PrepareSteps \cup CheckpointSteps
      BY <2>2 DEF CommandTells, PrepareSteps, CheckpointSteps
    <2>3. QED
      BY <2>1, <2>2
  <1>3. SoleCommitter'
    <2>1. \A q \in Processes : job'[q].step = "committed" => job'[q] = job[q]
      BY DEF CheckpointSteps
    <2>2. QED
      BY <2>1 DEF WorkBase, WorkInv, SoleCommitter, At, Subject
  <1>4. ReceiptsTell'
    BY <1>1 DEF WorkBase, WorkInv, ReceiptsTell
  <1>5. IntentsHold'
    BY <1>1, <1>4 DEF WorkBase, WorkInv, IntentsHold, ReceiptsTell, Open
  <1>6. QED
    BY <1>2, <1>3, <1>4, <1>5 DEF WorkInv
=============================================================================
