------------------------- MODULE OperatorSession_proofs -------------------------
(***************************************************************************)
(* The promises of module OperatorSession, with those of the dialogue and of the   *)
(* review bundles in it, hold for any number of processes, requests, grants and     *)
(* confirmations; those about the state file as long as the callers of             *)
(* admitNextCycle pass the lock path of the state.                                *)
(***************************************************************************)
EXTENDS OperatorSession, TLAPS

-----------------------------------------------------------------------------
(* What a terminal may say to be believed: module Confirmation, for any         *)
(* confirmation and any way of cutting the input into chunks.                   *)

\* onLine: of everything that can have been heard since the prompt, only the expected line
\* with its line end confirms.
THEOREM OnlyTheLineConfirms ==
  ASSUME NEW text \in Seq(Pieces)
  PROVE  Confirms(text) => text = Append(Expected, "nl")
  <1> SUFFICES ASSUME Confirms(text) PROVE text = Append(Expected, "nl")
    OBVIOUS
  <1>1. Len(text) \in DOMAIN text /\ text[Len(text)] = "nl"
    BY DEF Confirms, OneWholeLine, Positions
  <1>2. Expected = SubSeq(text, 1, Len(text) - 1)
    BY DEF Confirms
  <1>3. text = Append(SubSeq(text, 1, Len(text) - 1), "nl")
    BY <1>1
  <1>4. QED
    BY <1>2, <1>3

\* The confirmation itself is accepted: it is one whole line for both readers.
THEOREM TheLineConfirms == Confirms(Append(Expected, "nl"))
  <1> DEFINE text == Append(Expected, "nl")
             last == Len(Expected) + 1
  <1>1. /\ Expected \in Seq(ExpectedPieces) /\ text \in Seq(Pieces)
        /\ Len(text) = last /\ last \in Nat /\ last > 0 /\ text[last] = "nl"
        /\ \A i \in 1 .. Len(Expected) : text[i] = Expected[i] /\ text[i] \notin {"nl", "sep"}
    BY ExpectedAssumption DEF Pieces, ExpectedPieces
  <1>2. Positions(text, {"nl"}) = {last} /\ Positions(text, {"nl", "sep"}) = {last}
    BY <1>1 DEF Positions
  <1>3. Min({last}) = last
    BY <1>1 DEF Min
  <1>4. SubSeq(text, 1, last - 1) = Expected
    BY <1>1
  <1>5. QED
    BY <1>1, <1>2, <1>3, <1>4 DEF Confirms, OneWholeLine, ReaderLine

\* A step of the dialogue keeps the type of what was heard.
LEMMA HearTypes ==
  ASSUME dialogue \in [Processes -> Dialogue], NEW p \in Processes, NEW chunk \in Chunks,
         Hear(p, chunk)
  PROVE  dialogue' \in [Processes -> Dialogue]
  <1>1. dialogue[p].heard \o chunk \in Seq(Pieces)
    BY ChunksAssumption DEF Dialogue
  <1>2. PICK at \in States, heard \in Seq(Pieces) : DialogueIs(p, at, heard)
    <2>1. <<>> \in Seq(Pieces)
      OBVIOUS
    <2>2. QED
      BY <1>1, <2>1 DEF Hear, Abort, States, Open
  <1>3. [at |-> at, heard |-> heard] \in Dialogue
    BY DEF Dialogue
  <1>4. QED
    BY <1>2, <1>3 DEF DialogueIs

\* A dialogue that succeeds has just heard the confirmation, whole and alone.
LEMMA HearConfirmation ==
  ASSUME dialogue \in [Processes -> Dialogue], NEW p \in Processes, NEW chunk \in Chunks,
         Hear(p, chunk), dialogue'[p].at = "EXACT_MATCH"
  PROVE  dialogue'[p].heard = Append(Expected, "nl")
  <1> DEFINE text == dialogue[p].heard \o chunk
  <1>1. text \in Seq(Pieces)
    BY ChunksAssumption DEF Dialogue
  <1>2. Confirms(text) /\ dialogue'[p].heard = text
    BY <1>1 DEF Hear, DialogueIs, Abort, Dialogue
  <1>3. QED
    BY <1>1, <1>2, OnlyTheLineConfirms

-----------------------------------------------------------------------------
(* Review writers without a lock: module ReviewBundle.  What each of them is     *)
(* about to write is whole, whatever the file holds by then.                    *)

\* The file and every draft are whole.
ReviewInv ==
    /\ ReviewTypeOK
    /\ Whole(reviews)
    /\ \A p \in Processes : \A d \in draft[p] : Whole(d)

\* commitReviewBundle returns a review state.
LEMMA CommittedTypes ==
  ASSUME NEW state \in Reviews, NEW b \in Bundles
  PROVE  Committed(state, b) \in Reviews
  <1>1. b \in Bundle
    BY BundlesAssumption
  <1>2. IterationOf(b) \in [id : STRING, index : Nat, content : STRING]
    BY <1>1 DEF IterationOf, Bundle
  <1>3. EventOf(b) \in [event : STRING, payload : STRING]
    BY <1>1 DEF EventOf, Bundle
  <1>4. Append(state.iterations, IterationOf(b))
            \in Seq([id : STRING, index : Nat, content : STRING])
    BY <1>2 DEF Reviews
  <1> DEFINE new == Committed(state, b)
  <1>5. new = [version |-> new.version, iterations |-> new.iterations, outbox |-> new.outbox]
    BY DEF Committed
  <1>6. new.version \in Nat
    BY DEF Committed, Reviews
  <1>7. new.iterations \in Seq([id : STRING, index : Nat, content : STRING])
    BY <1>4 DEF Committed, Reviews
  <1>8. new.outbox \in SUBSET [event : STRING, payload : STRING]
    BY <1>3 DEF Committed, Reviews
  <1>9. QED
    BY <1>5, <1>6, <1>7, <1>8 DEF Reviews

\* An accepted bundle makes a whole state of a whole state.
LEMMA CommittedWhole ==
  ASSUME NEW state \in Reviews, Whole(state), NEW b \in Bundles, Accepts(state, b)
  PROVE  Whole(Committed(state, b))
  <1> DEFINE new == Committed(state, b)
             old == state.iterations
  <1>1. new.outbox = state.outbox \cup {EventOf(b)}
    BY DEF Committed
  <1>2. \A d, e \in new.outbox : d.event = e.event => d = e
    <2>1. \A e \in state.outbox : e.event = b.event => e.payload = b.payload
      BY DEF Accepts, EventAgrees
    <2>2. \A e \in state.outbox : e = [event |-> e.event, payload |-> e.payload]
      BY DEF Reviews
    <2>3. \A e \in state.outbox : e.event = EventOf(b).event => e = EventOf(b)
      BY <2>1, <2>2 DEF EventOf
    <2>4. QED
      BY <1>1, <2>3 DEF Whole
  <1>3. CASE Known(state, b)
    <2>1. new.iterations = old
      BY <1>3 DEF Committed
    <2>2. QED
      BY <1>1, <1>2, <2>1 DEF Whole
  <1>4. CASE ~Known(state, b)
    <2>1. b.index = Len(old) + 1 /\ b.index <= MaxIterations
      BY <1>4 DEF Accepts, Continues
    <2>2. old \in Seq([id : STRING, index : Nat, content : STRING])
      BY DEF Reviews
    <2>3. IterationOf(b) \in [id : STRING, index : Nat, content : STRING]
      BY BundlesAssumption DEF IterationOf, Bundle
    <2>4. new.iterations = Append(old, IterationOf(b))
      BY <1>4 DEF Committed
    <2>5. /\ Len(new.iterations) = Len(old) + 1
          /\ \A i \in 1 .. Len(old) : new.iterations[i] = old[i]
          /\ new.iterations[Len(old) + 1] = IterationOf(b)
      BY <2>2, <2>3, <2>4
    <2>6. DOMAIN new.iterations = 1 .. Len(old) + 1 /\ DOMAIN old = 1 .. Len(old) /\ Len(old) \in Nat
      BY <2>2, <2>3, <2>4
    <2>7. \A i \in 1 .. Len(old) : old[i].id # b.id
      BY <1>4, <2>6 DEF Known
    <2>8. IterationOf(b).id = b.id /\ IterationOf(b).index = b.index
      BY DEF IterationOf
    <2>9. ASSUME NEW i \in DOMAIN new.iterations
          PROVE  /\ new.iterations[i].index = i
                 /\ \A j \in DOMAIN new.iterations :
                        new.iterations[j].id = new.iterations[i].id => i = j
                 /\ \E c \in Bundles : /\ IterationOf(c) = new.iterations[i]
                                       /\ EventOf(c) \in new.outbox
      <3>1. CASE i \in 1 .. Len(old)
        <4>1. /\ old[i].index = i
              /\ \A j \in 1 .. Len(old) : old[j].id = old[i].id => i = j
              /\ \E c \in Bundles : IterationOf(c) = old[i] /\ EventOf(c) \in state.outbox
          BY <2>6, <3>1 DEF Whole
        <4>2. new.iterations[i] = old[i]
          BY <2>5, <3>1
        <4>3. ASSUME NEW j \in DOMAIN new.iterations,
                     new.iterations[j].id = new.iterations[i].id
              PROVE  i = j
          <5>1. j \in 1 .. Len(old) \/ j = Len(old) + 1
            BY <2>6
          <5>2. CASE j = Len(old) + 1
            BY <2>5, <2>7, <2>8, <3>1, <4>2, <4>3, <5>2
          <5>3. CASE j \in 1 .. Len(old)
            BY <2>5, <4>1, <4>2, <4>3, <5>3
          <5>4. QED
            BY <5>1, <5>2, <5>3
        <4>4. \E c \in Bundles : IterationOf(c) = new.iterations[i] /\ EventOf(c) \in new.outbox
          BY <1>1, <4>1, <4>2
        <4>5. QED
          BY <4>1, <4>2, <4>3, <4>4
      <3>2. CASE i = Len(old) + 1
        BY <1>1, <2>1, <2>5, <2>6, <2>7, <2>8, <3>2
      <3>3. QED
        BY <2>6, <3>1, <3>2
    <2>10. Len(new.iterations) <= MaxIterations
      BY <2>1, <2>5
    <2>11. QED
      BY <1>2, <2>9, <2>10 DEF Whole
  <1>5. QED
    BY <1>3, <1>4

LEMMA ReviewInvInit == ReviewInit => ReviewInv
  <1>1. <<>> \in Seq([id : STRING, index : Nat, content : STRING]) /\ Len(<<>>) = 0 /\ DOMAIN <<>> = {}
    OBVIOUS
  <1>2. NoReviews \in Reviews /\ Whole(NoReviews)
    BY <1>1, IterationsAssumption DEF NoReviews, Reviews, Whole
  <1>3. QED
    BY <1>2 DEF ReviewInit, ReviewInv, ReviewTypeOK

\* persistReviewBundle keeps the file and the drafts whole, at each of its steps.
LEMMA ReviewInvStep ==
  ASSUME ReviewInv, NEW p \in Processes,
         (\E b \in Bundles : ReadReviews(p, b)) \/ ReplaceReviews(p) \/ DropDraft(p)
  PROVE  ReviewInv'
  <1>1. CASE \E b \in Bundles : ReadReviews(p, b)
    <2>1. PICK b \in Bundles : ReadReviews(p, b)
      BY <1>1
    <2>2. Committed(reviews, b) \in Reviews /\ Whole(Committed(reviews, b))
      BY <2>1, CommittedTypes, CommittedWhole DEF ReadReviews, ReviewInv, ReviewTypeOK
    <2>3. QED
      BY <2>1, <2>2 DEF ReadReviews, ReviewInv, ReviewTypeOK
  <1>2. CASE ReplaceReviews(p)
    BY <1>2 DEF ReplaceReviews, ReviewInv, ReviewTypeOK
  <1>3. CASE DropDraft(p)
    BY <1>3 DEF DropDraft, ReviewInv, ReviewTypeOK
  <1>4. QED
    BY <1>1, <1>2, <1>3

-----------------------------------------------------------------------------
(* The inductive invariant                                                   *)

Readable == {"v1", "v2", "v3"}

\* Steps of a command that has the state's lock.
Inside == {"read", "preserving", "preserved", "replaced", "done", "failed"}

Exclusive == \A p \in Processes : job[p].step \in Inside => lock["state"] = p

\* What a command under the lock has read is still there, if it was a state at all: only
\* the creator of a torn file works without the lock.
FreshCopy ==
    \A p \in Processes :
        job[p].step \in {"read", "preserving", "preserved"} /\ job[p].copy.kind \in Readable
            => job[p].copy = file

MigrationPrepared ==
    \A p \in Processes :
        /\ job[p].step \in {"preserving", "preserved"} =>
               job[p].command = "migrate" /\ job[p].copy.kind = "v1"
        /\ job[p].step = "preserved" => job[p].copy.core \in evidence.whole

OneCreator ==
    /\ \A p \in Processes : job[p].step = "writing" => file = Torn
    /\ \A p, q \in Processes : job[p].step = "writing" /\ job[q].step = "writing" => p = q

\* A file is absent as a whole, and a version-1 state was migrated from nothing, on the
\* disk neither.
FilesTell ==
    /\ file.kind = "absent" => file = Absent
    /\ disk.kind = "absent" => disk = Absent
    /\ file.kind = "v1" => file.source = {} /\ disk.source = {}
    /\ disk.kind = "v1" => disk.source = {}
    /\ ValidCore(disk.core)

\* Requests are the subjects of admissions; only init and authorize-pilot create a file.
Subjects ==
    \A p \in Processes :
        /\ job[p].command \in {"enqueue", "admit"} => job[p].subject \in Requests
        /\ job[p].step \in {"creating", "writing"} => job[p].command \in {"init", "authorize"}

\* authorize-pilot comes to its file operations through its dialogue only.
Authorizing ==
    \A p \in Processes :
        /\ dialogue[p].at # "NONE" => job[p].command = "authorize" /\ job[p].subject \in Grants
        /\ job[p].command = "authorize" /\ job[p].step # "idle" => dialogue[p].at = "EXACT_MATCH"
        /\ dialogue[p].at = "EXACT_MATCH" =>
               HeardTheConfirmation(p) /\ job[p].subject \in confirmed

Progress ==
    \A p \in Processes : job[p].command = "authorize" =>
        /\ job[p].step \in {"written", "replaced", "done"} => job[p].subject \in file.grants
        /\ job[p].step = "done" => job[p].subject \in disk.grants

GrantsHeld ==
    /\ file.grants \subseteq confirmed /\ disk.grants \subseteq confirmed
    /\ issued \subseteq file.grants /\ issued \subseteq disk.grants

EvidenceHeld ==
    /\ file.source \subseteq evidence.whole \cup evidence.lost
    /\ disk.source \subseteq evidence.whole \cup evidence.lost

FileInv == /\ FileTypeOK /\ Exclusive /\ FreshCopy /\ MigrationPrepared /\ OneCreator
           /\ FilesTell /\ Subjects /\ EvidenceHeld

TalkInv == /\ dialogue \in [Processes -> Dialogue] /\ confirmed \subseteq Grants
           /\ Authorizing /\ Progress /\ GrantsHeld

CountInv == started \in 0 .. MaxCommands /\ powerLosses \in 0 .. MaxPowerLosses

SessionInv == FileInv /\ TalkInv /\ CountInv /\ ReviewInv

-----------------------------------------------------------------------------
(* What the helpers do to the job of a process                                *)

Moved(p, to) ==
    /\ job' \in [Processes -> Job]
    /\ job'[p].step = to
    /\ job'[p].command = job[p].command
    /\ job'[p].subject = job[p].subject
    /\ job'[p].copy = job[p].copy
    /\ \A q \in Processes \ {p} : job'[q] = job[q]

Ended(p) ==
    /\ job' \in [Processes -> Job]
    /\ job'[p] = Idle
    /\ \A q \in Processes \ {p} : job'[q] = job[q]

LEMMA AbsentTypes == Absent \in File /\ Torn \in File /\ NewCore \in Core /\ ValidCore(NewCore)
  BY NoneAssumption DEF Absent, Torn, Content, NewCore, Core, File, ValidCore

LEMMA IdleTypes == Idle \in Job /\ Idle.step = "idle" /\ Idle.command = "none"
  BY AbsentTypes DEF Idle, Job, Steps, Commands

LEMMA GotoMoves ==
  ASSUME job \in [Processes -> Job], NEW p \in Processes, NEW to \in Steps, Goto(p, to)
  PROVE  Moved(p, to)
  <1>1. job[p] \in Job
    OBVIOUS
  <1>2. [job[p] EXCEPT !.step = to] \in Job
    BY <1>1 DEF Job
  <1>3. QED
    BY <1>1, <1>2 DEF Goto, Moved, Job

LEMMA EndEnds ==
  ASSUME job \in [Processes -> Job], NEW p \in Processes, End(p)
  PROVE  Ended(p)
  BY IdleTypes DEF End, Ended

-----------------------------------------------------------------------------
(* Steps on the file                                                         *)

\* A step under the lock that writes no state keeps what relates the file to the
\* processes.
LEMMA QuietMove ==
  ASSUME FileInv, NEW p \in Processes, NEW to \in {"failed", "preserving", "preserved"},
         job[p].step \in Inside, Moved(p, to), UNCHANGED <<file, disk, lock>>,
         evidence' \in [whole : SUBSET Core, torn : SUBSET Core, lost : SUBSET Core],
         to # "failed" => /\ job[p].step \in {"read", "preserving"}
                          /\ job[p].command = "migrate" /\ job[p].copy.kind = "v1",
         to = "preserved" => job[p].copy.core \in evidence'.whole,
         evidence.whole \subseteq evidence'.whole,
         file.source \cup disk.source \subseteq evidence'.whole \cup evidence'.lost
  PROVE  FileInv'
  <1>1. FileTypeOK'
    BY DEF FileInv, FileTypeOK, Moved
  <1>2. Exclusive'
    BY DEF FileInv, Exclusive, Moved, Inside
  <1>3. FreshCopy'
    BY DEF FileInv, FreshCopy, Moved
  <1>4. MigrationPrepared'
    BY DEF FileInv, MigrationPrepared, Moved
  <1>5. OneCreator'
    BY DEF FileInv, OneCreator, Moved
  <1>6. FilesTell' /\ EvidenceHeld'
    BY DEF FileInv, FilesTell, EvidenceHeld
  <1>7. Subjects'
    BY DEF FileInv, Subjects, Moved
  <1>8. QED
    BY <1>1, <1>2, <1>3, <1>4, <1>5, <1>6, <1>7 DEF FileInv

\* A process that ends leaves the others as they are, and takes no lock but its own away.
LEMMA QuietEnd ==
  ASSUME FileInv, NEW p \in Processes, Ended(p), UNCHANGED <<file, evidence>>,
         disk' = disk \/ disk' = file,
         lock' \in [LockPaths -> Processes \cup {Free, Stale}],
         lock["state"] # p => lock'["state"] = lock["state"]
  PROVE  FileInv'
  <1>1. FileTypeOK'
    BY DEF FileInv, FileTypeOK, Ended
  <1>2. Exclusive'
    BY IdleTypes DEF FileInv, Exclusive, Ended, Inside
  <1>3. FreshCopy'
    BY IdleTypes DEF FileInv, FreshCopy, Ended
  <1>4. MigrationPrepared'
    BY IdleTypes DEF FileInv, MigrationPrepared, Ended
  <1>5. OneCreator'
    BY IdleTypes DEF FileInv, OneCreator, Ended
  <1>6. FilesTell'
    BY DEF FileInv, FilesTell, FileTypeOK
  <1>7. EvidenceHeld'
    BY DEF FileInv, EvidenceHeld
  <1>8. Subjects'
    BY IdleTypes DEF FileInv, Subjects, Ended
  <1>9. QED
    BY <1>1, <1>2, <1>3, <1>4, <1>5, <1>6, <1>7, <1>8 DEF FileInv

\* A command under the lock replaces the state that it has read by a valid one.
LEMMA ReplaceKeeps ==
  ASSUME FileInv, NEW p \in Processes, NEW content \in File,
         job[p].step \in {"read", "preserved"}, Replace(p, content),
         job[p].copy.kind \in Readable, content.kind \in Readable, ValidCore(content.core),
         content.kind = "v1" => file.kind = "v1" /\ content.source = {},
         content.source \subseteq evidence.whole \cup evidence.lost
  PROVE  FileInv' /\ Moved(p, "replaced")
  <1>1. Moved(p, "replaced") /\ file' = content /\ UNCHANGED <<disk, lock, evidence>>
    BY GotoMoves DEF Replace, FileInv, FileTypeOK, Steps
  <1>2. job[p].copy = file /\ file.kind \in Readable
    BY DEF FileInv, FreshCopy
  <1>3. \A q \in Processes \ {p} : job[q].step \notin Inside
    BY DEF FileInv, Exclusive, Inside
  <1>4. \A q \in Processes : job[q].step # "writing"
    BY <1>2 DEF FileInv, OneCreator, Torn, Content, Readable
  <1>5. FileTypeOK'
    BY <1>1 DEF FileInv, FileTypeOK, Moved
  <1>6. Exclusive'
    BY <1>1 DEF FileInv, Exclusive, Moved, Inside
  <1>7. FreshCopy' /\ MigrationPrepared'
    BY <1>1, <1>3 DEF FreshCopy, MigrationPrepared, Moved, Inside
  <1>8. OneCreator'
    BY <1>1, <1>4 DEF OneCreator, Moved
  <1>9. FilesTell'
    BY <1>1 DEF FileInv, FilesTell, Readable
  <1>10. EvidenceHeld'
    BY <1>1 DEF FileInv, EvidenceHeld
  <1>11. Subjects'
    BY <1>1 DEF FileInv, Subjects, Moved
  <1>12. QED
    BY <1>1, <1>5, <1>6, <1>7, <1>8, <1>9, <1>10, <1>11 DEF FileInv

\* initializeStateV2 makes the file where there is none, and is alone in writing it.
LEMMA CreateKeeps ==
  ASSUME FileInv, NEW p \in Processes, Create(p)
  PROVE  FileInv' /\ Moved(p, "writing") /\ file = Absent /\ file' = Torn
  <1>1. /\ Moved(p, "writing") /\ file = Absent /\ file' = Torn /\ job[p].step = "creating"
        /\ UNCHANGED <<disk, lock, evidence>>
    BY GotoMoves DEF Create, At, FileInv, FileTypeOK, Steps, FilesTell
  <1>2. Absent.kind = "absent" /\ Torn.kind = "torn" /\ Torn.core = NewCore /\ Torn.source = {}
    BY DEF Absent, Torn, Content
  <1>3. \A q \in Processes : job[q].step # "writing"
    BY <1>1, <1>2 DEF FileInv, OneCreator
  <1>4. FileTypeOK'
    BY <1>1, <1>2, AbsentTypes DEF FileInv, FileTypeOK, Moved
  <1>5. Exclusive'
    BY <1>1 DEF FileInv, Exclusive, Moved, Inside
  <1>6. FreshCopy'
    BY <1>1, <1>2 DEF FileInv, FreshCopy, Moved, Readable
  <1>7. MigrationPrepared'
    BY <1>1 DEF FileInv, MigrationPrepared, Moved
  <1>8. OneCreator'
    BY <1>1, <1>3 DEF OneCreator, Moved
  <1>9. FilesTell' /\ EvidenceHeld'
    BY <1>1, <1>2 DEF FileInv, FilesTell, EvidenceHeld
  <1>10. Subjects'
    BY <1>1 DEF FileInv, Subjects, Moved
  <1>11. QED
    BY <1>1, <1>4, <1>5, <1>6, <1>7, <1>8, <1>9, <1>10 DEF FileInv

\* What the creator writes is a new state; only authorize-pilot puts a grant into it.
LEMMA WriteKeeps ==
  ASSUME FileInv, NEW p \in Processes, Write(p),
         job[p].command # "init" => job[p].subject \in Grants
  PROVE  /\ FileInv' /\ Moved(p, "written") /\ file = Torn /\ file'.core = NewCore
         /\ file'.grants = IF job[p].command = "init" THEN {} ELSE {job[p].subject}
         /\ UNCHANGED <<disk, lock, evidence>> /\ job[p].step = "writing"
  <1>1. /\ Moved(p, "written") /\ file = Torn /\ job[p].step = "writing"
        /\ UNCHANGED <<disk, lock, evidence>>
    BY GotoMoves DEF Write, At, FileInv, FileTypeOK, Steps, OneCreator
  <1>2. /\ file' \in File /\ file'.core = NewCore /\ file'.source = {}
        /\ file'.kind \in {"v2", "v3"}
        /\ file'.grants = IF job[p].command = "init" THEN {} ELSE {job[p].subject}
    BY AbsentTypes DEF Write, Content, File
  <1>3. Torn.kind = "torn"
    BY DEF Torn, Content
  <1>4. \A q \in Processes \ {p} : job[q].step # "writing"
    BY <1>1 DEF FileInv, OneCreator
  <1>5. FileTypeOK'
    BY <1>1, <1>2, AbsentTypes DEF FileInv, FileTypeOK, Moved
  <1>6. Exclusive'
    BY <1>1 DEF FileInv, Exclusive, Moved, Inside
  <1>7. FreshCopy'
    BY <1>1, <1>3 DEF FileInv, FreshCopy, Moved, Readable
  <1>8. MigrationPrepared'
    BY <1>1 DEF FileInv, MigrationPrepared, Moved
  <1>9. OneCreator'
    BY <1>1, <1>4 DEF OneCreator, Moved
  <1>10. FilesTell' /\ EvidenceHeld'
    BY <1>1, <1>2 DEF FileInv, FilesTell, EvidenceHeld
  <1>11. Subjects'
    BY <1>1 DEF FileInv, Subjects, Moved
  <1>12. QED
    BY <1>1, <1>2, <1>5, <1>6, <1>7, <1>8, <1>9, <1>10, <1>11 DEF FileInv

\* A command that gets the lock is the only one inside, and reads what is there.
LEMMA LockAndReadKeeps ==
  ASSUME AdmissionLock = "state", FileInv, NEW p \in Processes, LockAndRead(p)
  PROVE  /\ FileInv' /\ UNCHANGED <<file, disk>> /\ job[p].step = "started"
         /\ job' \in [Processes -> Job] /\ job'[p].step = "read"
         /\ job'[p].command = job[p].command /\ job'[p].subject = job[p].subject
         /\ \A q \in Processes \ {p} : job'[q] = job[q]
  <1>1. LockOf(job[p].command) = "state"
    BY DEF LockOf
  <1>2. /\ lock["state"] = Free /\ lock' = [lock EXCEPT !["state"] = p] /\ job[p].step = "started"
        /\ UNCHANGED <<file, disk, evidence>>
    BY <1>1 DEF LockAndRead, At
  <1>3. [job[p] EXCEPT !.step = "read", !.copy = file] \in Job
    BY DEF FileInv, FileTypeOK, Job, Steps
  <1>4. job' = [job EXCEPT ![p] = [job[p] EXCEPT !.step = "read", !.copy = file]]
    BY DEF LockAndRead
  <1>5. /\ job' \in [Processes -> Job] /\ job'[p].step = "read" /\ job'[p].copy = file
        /\ job'[p].command = job[p].command /\ job'[p].subject = job[p].subject
        /\ \A q \in Processes \ {p} : job'[q] = job[q]
    BY <1>3, <1>4 DEF FileInv, FileTypeOK, Job
  <1>6. \A q \in Processes : job[q].step \notin Inside
    BY <1>2, HolderAssumption DEF FileInv, Exclusive
  <1>7. lock'["state"] = p /\ lock' \in [LockPaths -> Processes \cup {Free, Stale}]
    BY <1>2 DEF FileInv, FileTypeOK, LockPaths
  <1>8. FileTypeOK'
    BY <1>2, <1>5, <1>7 DEF FileInv, FileTypeOK
  <1>9. Exclusive'
    BY <1>5, <1>6, <1>7 DEF Exclusive
  <1>10. FreshCopy' /\ MigrationPrepared'
    BY <1>2, <1>5, <1>6 DEF FreshCopy, MigrationPrepared, Inside
  <1>11. OneCreator'
    BY <1>2, <1>5 DEF FileInv, OneCreator
  <1>12. FilesTell' /\ EvidenceHeld'
    BY <1>2 DEF FileInv, FilesTell, EvidenceHeld
  <1>13. Subjects'
    BY <1>5 DEF FileInv, Subjects
  <1>14. QED
    BY <1>2, <1>5, <1>8, <1>9, <1>10, <1>11, <1>12, <1>13 DEF FileInv

\* The sync makes the visible file the one on the disk.
LEMMA SyncReplacedKeeps ==
  ASSUME FileInv, NEW p \in Processes, SyncReplaced(p)
  PROVE  FileInv' /\ Moved(p, "done") /\ job[p].step = "replaced" /\ file' = file /\ disk' = file
  <1>1. /\ Moved(p, "done") /\ job[p].step = "replaced" /\ file' = file /\ disk' = file
        /\ UNCHANGED <<lock, evidence>>
    BY GotoMoves DEF SyncReplaced, At, FileInv, FileTypeOK, Steps
  <1>2. FileTypeOK'
    BY <1>1 DEF FileInv, FileTypeOK, Moved
  <1>3. Exclusive' /\ FreshCopy' /\ MigrationPrepared' /\ OneCreator' /\ Subjects'
    BY <1>1 DEF FileInv, Exclusive, Inside, FreshCopy, MigrationPrepared, OneCreator, Subjects, Moved
  <1>4. FilesTell' /\ EvidenceHeld'
    BY <1>1 DEF FileInv, FilesTell, EvidenceHeld, FileTypeOK
  <1>5. QED
    BY <1>1, <1>2, <1>3, <1>4 DEF FileInv

-----------------------------------------------------------------------------
(* The four commands that replace a state                                     *)

\* What a replacement does, as far as the dialogue and the file's history care.
Replaced(p) ==
    /\ FileInv' /\ Moved(p, "replaced") /\ UNCHANGED disk
    /\ job[p].step \in {"read", "preserved"}
    /\ Follows(file', file)
    /\ file.grants \subseteq file'.grants
    /\ file'.grants \subseteq file.grants \cup
           (IF job[p].command = "authorize" THEN {job[p].subject} ELSE {})
    /\ job[p].command = "authorize" => job[p].subject \in file'.grants

\* A request is claimed: still a valid state, one version later.
LEMMA ClaimedValid ==
  ASSUME NEW core \in Core, ValidCore(core), NEW r \in Requests
  PROVE  /\ Claimed(core, r) \in Core /\ ValidCore(Claimed(core, r))
         /\ Claimed(core, r).version = core.version + 1
         /\ Claimed(core, r).cycles = core.cycles \cup {r}
  <1> DEFINE new == Claimed(core, r)
             one == [core EXCEPT !.version = @ + 1]
             two == [one EXCEPT !.active = r]
             three == [two EXCEPT !.queue = @ \ {r}]
  <1>1. /\ one \in Core /\ one.version = core.version + 1
        /\ one.queue = core.queue /\ one.cycles = core.cycles
    BY DEF Core
  <1>2. /\ two \in Core /\ two.version = one.version /\ two.active = r
        /\ two.queue = one.queue /\ two.cycles = one.cycles
    BY <1>1 DEF Core
  <1>3. /\ three \in Core /\ three.version = two.version /\ three.active = r
        /\ three.queue = two.queue \ {r} /\ three.cycles = two.cycles
    BY <1>2 DEF Core
  <1>4. new = [three EXCEPT !.cycles = @ \cup {r}]
    BY <1>1, <1>2, <1>3 DEF Claimed
  <1> HIDE DEF one, two, three
  <1>5. /\ new \in Core /\ new.version = three.version /\ new.active = r
        /\ new.queue = three.queue /\ new.cycles = three.cycles \cup {r}
    BY <1>3, <1>4 DEF Core
  <1>6. QED
    BY <1>1, <1>2, <1>3, <1>5 DEF ValidCore

\* dequeue: no scheduled request passes a human's.
LEMMA HumanFirst ==
  ASSUME NEW queue, NEW due, NEW r \in Selected(queue, due)
  PROVE  r \in queue /\ (r \in Human \/ queue \cap Human = {})
  BY DEF Selected, Before

LEMMA AdmitReplaces ==
  ASSUME FileInv, NEW p \in Processes, NEW due \in SUBSET (Requests \ Human), Admit(p, due)
  PROVE  Replaced(p)
  <1> DEFINE copy == job[p].copy
             r == job[p].subject
             content == [copy EXCEPT !.core = Claimed(copy.core, r)]
  <1>1. /\ job[p].step = "read" /\ job[p].command = "admit" /\ copy.kind = "v1"
        /\ r \in Selected(copy.core.queue, due) /\ Replace(p, content)
    BY DEF Admit, Reading, At
  <1>2. copy = file /\ file \in File /\ ValidCore(file.core) /\ file.core \in Core
    BY <1>1 DEF FileInv, FreshCopy, Readable, FileTypeOK, File
  <1>3. r \in copy.core.queue /\ (r \in Human \/ copy.core.queue \cap Human = {})
    BY <1>1, HumanFirst
  <1>4. r \in Requests
    BY <1>2, <1>3 DEF Core
  <1>5. /\ Claimed(copy.core, r) \in Core /\ ValidCore(Claimed(copy.core, r))
        /\ Claimed(copy.core, r).version = copy.core.version + 1
    BY <1>2, <1>4, ClaimedValid
  <1>6. /\ content \in File /\ content.core = Claimed(copy.core, r) /\ content.kind = copy.kind
        /\ content.grants = copy.grants /\ content.source = copy.source
    BY <1>2, <1>5 DEF File
  <1>7. FileInv' /\ Moved(p, "replaced")
    BY <1>1, <1>2, <1>5, <1>6, ReplaceKeeps DEF FileInv, FilesTell, EvidenceHeld, Readable
  <1>8. file' = content /\ UNCHANGED disk
    BY <1>1 DEF Replace
  <1>9. Follows(file', file)
    BY <1>1, <1>2, <1>3, <1>5, <1>6, <1>8 DEF Follows
  <1>10. QED
    BY <1>1, <1>2, <1>6, <1>7, <1>8, <1>9 DEF Replaced

LEMMA EnqueueReplaces ==
  ASSUME FileInv, NEW p \in Processes, Enqueue(p)
  PROVE  Replaced(p)
  <1> DEFINE copy == job[p].copy
             r == job[p].subject
             content == [copy EXCEPT !.core = Claimed(copy.core, r)]
  <1>1. /\ job[p].step = "read" /\ job[p].command = "enqueue" /\ copy.kind = "v2"
        /\ r \notin copy.core.cycles /\ copy.source = {} /\ Replace(p, content)
    BY DEF Enqueue, Reading, At
  <1>2. copy = file /\ file \in File /\ ValidCore(file.core) /\ file.core \in Core
    BY <1>1 DEF FileInv, FreshCopy, Readable, FileTypeOK, File
  <1>3. r \in Requests
    BY <1>1 DEF FileInv, Subjects
  <1>4. /\ Claimed(copy.core, r) \in Core /\ ValidCore(Claimed(copy.core, r))
        /\ Claimed(copy.core, r).version = copy.core.version + 1
        /\ Claimed(copy.core, r).cycles = copy.core.cycles \cup {r}
    BY <1>2, <1>3, ClaimedValid
  <1>5. /\ content \in File /\ content.core = Claimed(copy.core, r) /\ content.kind = copy.kind
        /\ content.grants = copy.grants /\ content.source = copy.source
    BY <1>2, <1>4 DEF File
  <1>6. FileInv' /\ Moved(p, "replaced")
    BY <1>1, <1>2, <1>4, <1>5, ReplaceKeeps DEF Readable
  <1>7. file' = content /\ UNCHANGED disk
    BY <1>1 DEF Replace
  <1>8. Follows(file', file)
    BY <1>1, <1>2, <1>4, <1>5, <1>7 DEF Follows
  <1>9. QED
    BY <1>1, <1>2, <1>5, <1>6, <1>7, <1>8 DEF Replaced

LEMMA AuthorizeReplaces ==
  ASSUME FileInv, NEW p \in Processes, Authorize(p), job[p].subject \in Grants
  PROVE  Replaced(p)
  <1> DEFINE copy == job[p].copy
             g == job[p].subject
             core == [copy.core EXCEPT !.version = @ + 1]
             content == [copy EXCEPT !.core = core, !.grants = @ \cup {g}]
  <1>1. /\ job[p].step = "read" /\ job[p].command = "authorize" /\ copy.kind = "v3"
        /\ g \notin copy.grants
    BY DEF Authorize, Reading, At
  <1>2. copy = file /\ file \in File /\ ValidCore(file.core) /\ file.core \in Core
    BY <1>1 DEF FileInv, FreshCopy, Readable, FileTypeOK, File
  <1>3. core \in Core /\ ValidCore(core) /\ core.version = copy.core.version + 1
    BY <1>2 DEF Core, ValidCore
  <1>4. /\ content \in File /\ content.core = core /\ content.kind = copy.kind
        /\ content.grants = copy.grants \cup {g} /\ content.source = copy.source
    BY <1>2, <1>3 DEF File
  <1>5. Replace(p, content)
    BY DEF Authorize
  <1>6. FileInv' /\ Moved(p, "replaced")
    BY <1>1, <1>2, <1>3, <1>4, <1>5, ReplaceKeeps DEF FileInv, EvidenceHeld, Readable
  <1>7. file' = content /\ UNCHANGED disk
    BY <1>5 DEF Replace
  <1>8. Follows(file', file)
    BY <1>1, <1>2, <1>3, <1>4, <1>7 DEF Follows
  <1>9. QED
    BY <1>1, <1>2, <1>4, <1>6, <1>7, <1>8 DEF Replaced

LEMMA MigrateReplaces ==
  ASSUME FileInv, NEW p \in Processes, Migrate(p)
  PROVE  Replaced(p)
  <1> DEFINE copy == job[p].copy
             core == [copy.core EXCEPT !.version = @ + 1]
             content == [copy EXCEPT !.kind = "v2", !.core = core, !.source = {copy.core}]
  <1>1. /\ job[p].step = "preserved" /\ job[p].command = "migrate" /\ copy.kind = "v1"
        /\ copy.core \in evidence.whole
    BY DEF Migrate, At, FileInv, MigrationPrepared
  <1>2. copy = file /\ file \in File /\ ValidCore(file.core) /\ file.core \in Core
    BY <1>1 DEF FileInv, FreshCopy, Readable, FileTypeOK, File
  <1>3. core \in Core /\ ValidCore(core) /\ core.version = copy.core.version + 1
    BY <1>2 DEF Core, ValidCore
  <1>4. /\ content \in File /\ content.core = core /\ content.kind = "v2"
        /\ content.grants = copy.grants /\ content.source = {copy.core}
    BY <1>2, <1>3 DEF File
  <1>5. Replace(p, content)
    BY DEF Migrate
  <1>6. FileInv' /\ Moved(p, "replaced")
    BY <1>1, <1>2, <1>3, <1>4, <1>5, ReplaceKeeps DEF Readable
  <1>7. file' = content /\ UNCHANGED disk
    BY <1>5 DEF Replace
  <1>8. Follows(file', file)
    BY <1>1, <1>2, <1>3, <1>4, <1>7 DEF Follows
  <1>9. QED
    BY <1>1, <1>2, <1>4, <1>6, <1>7, <1>8 DEF Replaced

-----------------------------------------------------------------------------
(* The dialogues and the grants                                               *)

\* A step inside a command's file operations, seen from the dialogue: the process goes
\* on, the file loses no grant and gains none that is not confirmed.
LEMMA TalkMoves ==
  ASSUME TalkInv, job \in [Processes -> Job], NEW p \in Processes,
         job' \in [Processes -> Job], job[p].step # "idle", job'[p].step # "idle",
         job'[p].command = job[p].command, job'[p].subject = job[p].subject,
         \A q \in Processes \ {p} : job'[q] = job[q],
         UNCHANGED <<dialogue, confirmed, issued>>,
         file'.grants \subseteq confirmed, file.grants \subseteq file'.grants,
         disk' = disk \/ disk' = file,
         job[p].command = "authorize" =>
             /\ job'[p].step \in {"written", "replaced", "done"} => job[p].subject \in file'.grants
             /\ job'[p].step = "done" => job[p].subject \in disk'.grants
  PROVE  TalkInv'
  <1>1. Authorizing'
    BY DEF TalkInv, Authorizing, HeardTheConfirmation
  <1>2. Progress'
    BY DEF TalkInv, Progress
  <1>3. GrantsHeld'
    BY DEF TalkInv, GrantsHeld
  <1>4. QED
    BY <1>1, <1>2, <1>3 DEF TalkInv

\* A process ends: what it reports as issued is in the file and on the disk.
LEMMA TalkEnds ==
  ASSUME TalkInv, NEW p \in Processes, Ended(p), Leave(p), UNCHANGED <<file, confirmed>>,
         disk' = disk \/ disk' = file,
         issued' \subseteq issued \cup (file.grants \cap disk'.grants)
  PROVE  TalkInv'
  <1>1. /\ dialogue' \in [Processes -> Dialogue] /\ dialogue'[p].at = "NONE"
        /\ \A q \in Processes \ {p} : dialogue'[q] = dialogue[q]
    BY DEF TalkInv, Leave, NoDialogue, Dialogue, States
  <1>2. Authorizing'
    BY <1>1, IdleTypes DEF TalkInv, Authorizing, Ended, HeardTheConfirmation
  <1>3. Progress'
    BY IdleTypes DEF TalkInv, Progress, Ended
  <1>4. GrantsHeld'
    BY DEF TalkInv, GrantsHeld
  <1>5. QED
    BY <1>1, <1>2, <1>3, <1>4 DEF TalkInv

-----------------------------------------------------------------------------
(* A step of a command                                                        *)

\* Every step inside a command's file operations is a move or its end; the file keeps its
\* history and its grants.
FileMoved(p) ==
    /\ job' \in [Processes -> Job] /\ job[p].step # "idle" /\ job'[p].step # "idle"
    /\ job'[p].command = job[p].command /\ job'[p].subject = job[p].subject
    /\ \A q \in Processes \ {p} : job'[q] = job[q]
    /\ file.grants \subseteq file'.grants
    /\ file'.grants \subseteq file.grants \cup
           (IF job[p].command = "authorize" THEN {job[p].subject} ELSE {})
    /\ disk' = disk \/ disk' = file
    /\ job[p].command = "authorize" =>
           /\ job'[p].step \in {"written", "replaced", "done"} => job[p].subject \in file'.grants
           /\ job'[p].step = "done" => job[p].subject \in disk'.grants

FileEnded(p) ==
    Ended(p) /\ job[p].step # "idle" /\ file' = file /\ (disk' = disk \/ disk' = file)

\* The program's own knowledge of its subject, from the dialogue.
LEMMA SubjectConfirmed ==
  ASSUME TalkInv, NEW p \in Processes, job[p].command = "authorize", job[p].step # "idle"
  PROVE  job[p].subject \in confirmed /\ job[p].subject \in Grants
  BY DEF TalkInv, Authorizing

LEMMA QuietSteps ==
  ASSUME FileInv, NEW p \in Processes,
         SyncReplacedFails(p) \/ GiveUp(p) \/ CreateEvidence(p) \/ WriteEvidence(p)
             \/ EvidenceExists(p)
  PROVE  FileInv' /\ FileMoved(p) /\ file' = file
  <1> USE DEF At
  <1>1. CASE SyncReplacedFails(p) \/ GiveUp(p)
    <2>1. /\ Moved(p, "failed") /\ UNCHANGED <<file, disk, lock, evidence>>
          /\ job[p].step \in Inside /\ job[p].step # "idle"
      BY <1>1, GotoMoves DEF SyncReplacedFails, GiveUp, FileInv, FileTypeOK, Steps, Inside
    <2>2. evidence \in [whole : SUBSET Core, torn : SUBSET Core, lost : SUBSET Core]
      BY DEF FileInv, FileTypeOK
    <2>3. FileInv'
      BY <2>1, <2>2, QuietMove DEF FileInv, EvidenceHeld
    <2>4. QED
      BY <2>1, <2>3 DEF Moved, FileMoved
  <1>2. CASE CreateEvidence(p)
    <2> DEFINE core == job[p].copy.core
    <2>1. /\ Moved(p, "preserving") /\ UNCHANGED <<file, disk, lock>> /\ job[p].step = "read"
          /\ job[p].command = "migrate" /\ job[p].copy.kind = "v1"
          /\ evidence' = [evidence EXCEPT !.torn = @ \cup {core}, !.lost = @ \ {core}]
      BY <1>2, GotoMoves DEF CreateEvidence, Migrating, Reading, FileInv, FileTypeOK, Steps
    <2>2. job[p].copy = file /\ core \in Core /\ file.kind = "v1"
      BY <2>1 DEF FileInv, FreshCopy, Readable, FileTypeOK, File
    <2>3. file.source = {} /\ disk.source = {}
      BY <2>2 DEF FileInv, FilesTell
    <2>4. /\ evidence' \in [whole : SUBSET Core, torn : SUBSET Core, lost : SUBSET Core]
          /\ evidence'.whole = evidence.whole
      BY <2>1, <2>2 DEF FileInv, FileTypeOK
    <2>5. FileInv'
      BY <2>1, <2>3, <2>4, QuietMove DEF Inside
    <2>6. QED
      BY <2>1, <2>5 DEF Moved, FileMoved
  <1>3. CASE WriteEvidence(p)
    <2> DEFINE core == job[p].copy.core
    <2>1. /\ Moved(p, "preserved") /\ UNCHANGED <<file, disk, lock>> /\ job[p].step = "preserving"
          /\ evidence' = [evidence EXCEPT !.torn = @ \ {core}, !.whole = @ \cup {core}]
      BY <1>3, GotoMoves DEF WriteEvidence, FileInv, FileTypeOK, Steps
    <2>2. job[p].command = "migrate" /\ job[p].copy.kind = "v1"
      BY <2>1 DEF FileInv, MigrationPrepared
    <2>3. core \in Core
      BY DEF FileInv, FileTypeOK, Job, File
    <2>4. /\ evidence' \in [whole : SUBSET Core, torn : SUBSET Core, lost : SUBSET Core]
          /\ evidence'.whole = evidence.whole \cup {core} /\ evidence'.lost = evidence.lost
      BY <2>1, <2>3 DEF FileInv, FileTypeOK
    <2>5. file.source \cup disk.source \subseteq evidence'.whole \cup evidence'.lost
      BY <2>4 DEF FileInv, EvidenceHeld
    <2>6. FileInv'
      BY <2>1, <2>2, <2>4, <2>5, QuietMove DEF Inside
    <2>7. QED
      BY <2>1, <2>6 DEF Moved, FileMoved
  <1>4. CASE EvidenceExists(p)
    <2>1. /\ Moved(p, "preserved") /\ UNCHANGED <<file, disk, lock, evidence>>
          /\ job[p].step = "read" /\ job[p].copy.core \in evidence.whole
          /\ job[p].command = "migrate" /\ job[p].copy.kind = "v1"
      BY <1>4, GotoMoves DEF EvidenceExists, Migrating, Reading, FileInv, FileTypeOK, Steps
    <2>2. evidence \in [whole : SUBSET Core, torn : SUBSET Core, lost : SUBSET Core]
      BY DEF FileInv, FileTypeOK
    <2>3. FileInv'
      BY <2>1, <2>2, QuietMove DEF Inside, FileInv, EvidenceHeld
    <2>4. QED
      BY <2>1, <2>3 DEF Moved, FileMoved
  <1>5. QED
    BY <1>1, <1>2, <1>3, <1>4

LEMMA EndingSteps ==
  ASSUME FileInv, NEW p \in Processes,
         SyncCreated(p) \/ CreateFails(p) \/ LockedOut(p) \/ Release(p) \/ Kill(p)
  PROVE  FileInv' /\ FileEnded(p)
  <1> USE DEF At
  <1>1. /\ Ended(p) /\ job[p].step # "idle" /\ UNCHANGED <<file, evidence>>
        /\ disk' = disk \/ disk' = file
    BY EndEnds DEF SyncCreated, CreateFails, LockedOut, Release, Kill, FileInv, FileTypeOK
  <1>2. /\ lock' \in [LockPaths -> Processes \cup {Free, Stale}]
        /\ lock["state"] # p => lock'["state"] = lock["state"]
    <2>1. CASE UNCHANGED lock
      BY <2>1 DEF FileInv, FileTypeOK
    <2>2. CASE \E to \in {Free, Stale} : Unlock(p, to)
      BY <2>2 DEF FileInv, FileTypeOK, Unlock, LockPaths
    <2>3. QED
      BY <2>1, <2>2 DEF SyncCreated, CreateFails, LockedOut, Release, Kill
  <1>3. QED
    BY <1>1, <1>2, QuietEnd DEF FileEnded

\* The next step of a command's own code, seen from the file and from the dialogue.
LEMMA FileSteps ==
  ASSUME AdmissionLock = "state", FileInv, TalkInv, NEW p \in Processes, FileStep(p)
  PROVE  /\ FileInv' /\ HistoryStep
         /\ FileMoved(p) \/ FileEnded(p)
  <1> USE DEF At
  <1>1. CASE Create(p)
    <2>1. /\ FileInv' /\ Moved(p, "writing") /\ file = Absent /\ file' = Torn /\ disk' = disk
          /\ job[p].step = "creating"
      BY <1>1, CreateKeeps DEF Create
    <2>2. Absent.grants = {} /\ Torn.grants = {}
      BY DEF Absent, Torn, Content
    <2>3. QED
      BY <2>1, <2>2 DEF HistoryStep, FileMoved, Moved
  <1>2. CASE Write(p)
    <2>1. job[p].step = "writing" /\ job[p].command \in {"init", "authorize"}
      BY <1>2 DEF Write, FileInv, Subjects
    <2>2. job[p].command # "init" => job[p].subject \in Grants
      BY <2>1, SubjectConfirmed
    <2>3. /\ FileInv' /\ Moved(p, "written") /\ file = Torn /\ file'.core = NewCore
          /\ file'.grants = IF job[p].command = "init" THEN {} ELSE {job[p].subject}
          /\ disk' = disk
      BY <1>2, <2>2, WriteKeeps
    <2>4. Torn.grants = {}
      BY DEF Torn, Content
    <2>5. /\ file.grants \subseteq file'.grants
          /\ file'.grants \subseteq file.grants \cup
                 (IF job[p].command = "authorize" THEN {job[p].subject} ELSE {})
          /\ job[p].command = "authorize" => job[p].subject \in file'.grants
      BY <2>1, <2>3, <2>4
    <2>6. QED
      BY <2>1, <2>3, <2>5 DEF HistoryStep, FileMoved, Moved
  <1>3. CASE LockAndRead(p)
    BY <1>3, LockAndReadKeeps DEF HistoryStep, FileMoved
  <1>4. CASE (\E due \in SUBSET (Requests \ Human) : Admit(p, due)) \/ Enqueue(p)
                 \/ Authorize(p) \/ Migrate(p)
    <2>1. Authorize(p) => job[p].command = "authorize" /\ job[p].step # "idle"
      BY DEF Authorize, Reading
    <2>2. Replaced(p)
      BY <1>4, <2>1, SubjectConfirmed, AdmitReplaces, EnqueueReplaces, AuthorizeReplaces,
         MigrateReplaces
    <2>3. QED
      BY <2>2 DEF Replaced, HistoryStep, FileMoved, Moved
  <1>5. CASE SyncReplaced(p)
    <2>1. FileInv' /\ Moved(p, "done") /\ job[p].step = "replaced" /\ file' = file /\ disk' = file
      BY <1>5, SyncReplacedKeeps
    <2>2. job[p].command = "authorize" => job[p].subject \in file.grants
      BY <2>1 DEF TalkInv, Progress
    <2>3. QED
      BY <2>1, <2>2 DEF HistoryStep, FileMoved, Moved
  <1>6. CASE SyncReplacedFails(p) \/ GiveUp(p) \/ CreateEvidence(p) \/ WriteEvidence(p)
                 \/ EvidenceExists(p)
    BY <1>6, QuietSteps DEF HistoryStep
  <1>7. CASE SyncCreated(p) \/ CreateFails(p) \/ LockedOut(p) \/ Release(p)
    BY <1>7, EndingSteps DEF HistoryStep, FileEnded
  <1>8. QED
    BY <1>1, <1>2, <1>3, <1>4, <1>5, <1>6, <1>7 DEF FileStep

\* The review file is another file.
LEMMA ReviewsStay == ASSUME ReviewInv, UNCHANGED reviewVars PROVE ReviewInv'
  BY DEF ReviewInv, ReviewTypeOK, Whole, reviewVars

LEMMA WorkKeeps ==
  ASSUME AdmissionLock = "state", SessionInv, NEW p \in Processes, Work(p)
  PROVE  SessionInv' /\ HistoryStep
  <1>1. /\ FileInv' /\ HistoryStep
        /\ FileMoved(p) \/ FileEnded(p)
    BY FileSteps DEF Work, SessionInv
  <1>2. TalkInv'
    <2>1. CASE FileMoved(p)
      <3>1. job'[p] # Idle
        BY <2>1, IdleTypes DEF FileMoved
      <3>2. UNCHANGED <<dialogue, confirmed, issued>>
        BY <3>1 DEF Work
      <3>3. file'.grants \subseteq confirmed
        BY <2>1, SubjectConfirmed DEF FileMoved, SessionInv, TalkInv, GrantsHeld
      <3>4. QED
        BY <2>1, <3>2, <3>3, TalkMoves DEF FileMoved, SessionInv, FileInv, FileTypeOK
    <2>2. CASE FileEnded(p)
      <3>1. job'[p] = Idle /\ Leave(p) /\ UNCHANGED confirmed
        BY <2>2 DEF FileEnded, Ended, Work
      <3>2. issued' \subseteq issued \cup (file.grants \cap disk'.grants)
        BY <2>2 DEF Work, At, FileEnded, SessionInv, TalkInv, Progress
      <3>3. QED
        BY <2>2, <3>1, <3>2, TalkEnds DEF FileEnded, SessionInv
    <2>3. QED
      BY <1>1, <2>1, <2>2
  <1>3. CountInv' /\ ReviewInv'
    BY ReviewsStay DEF Work, SessionInv, CountInv
  <1>4. QED
    BY <1>1, <1>2, <1>3 DEF SessionInv

-----------------------------------------------------------------------------
(* The other steps of a session                                                *)

\* A process that was idle in its file operations starts or resumes them.
Began(p) ==
    /\ job' \in [Processes -> Job] /\ job[p].step = "idle"
    /\ job'[p].step \in {"idle", "creating", "started"}
    /\ job'[p].command \in {"enqueue", "admit"} => job'[p].subject \in Requests
    /\ job'[p].step = "creating" => job'[p].command \in {"init", "authorize"}
    /\ \A q \in Processes \ {p} : job'[q] = job[q]
    /\ UNCHANGED <<file, disk, lock, evidence>>

LEMMA BeginKeeps ==
  ASSUME FileInv, NEW p \in Processes, Began(p)
  PROVE  FileInv'
  <1>1. FileTypeOK'
    BY DEF FileInv, FileTypeOK, Began
  <1>2. Exclusive'
    BY DEF FileInv, Exclusive, Began, Inside
  <1>3. FreshCopy' /\ MigrationPrepared'
    BY DEF FileInv, FreshCopy, MigrationPrepared, Began
  <1>4. OneCreator' /\ Subjects'
    BY DEF FileInv, OneCreator, Subjects, Began
  <1>5. FilesTell' /\ EvidenceHeld'
    BY DEF FileInv, FilesTell, EvidenceHeld, Began
  <1>6. QED
    BY <1>1, <1>2, <1>3, <1>4, <1>5 DEF FileInv

\* A command starts with a job of its own.
LEMMA StartBegins ==
  ASSUME FileInv, NEW p \in Processes, At(p, "idle"),
         NEW command \in Commands, NEW step \in {"idle", "creating", "started"},
         NEW subject \in Requests \cup Grants \cup {None}, Start(p, command, step, subject),
         command \in {"enqueue", "admit"} => subject \in Requests,
         step = "creating" => command \in {"init", "authorize"},
         UNCHANGED <<file, disk, lock, evidence>>
  PROVE  /\ Began(p) /\ FileInv'
         /\ job'[p].command = command /\ job'[p].step = step /\ job'[p].subject = subject
  <1> DEFINE new == [Idle EXCEPT !.command = command, !.step = step,
                                 !.subject = subject, !.claim = file.core.version]
  <1>1. file.core.version \in Nat
    BY DEF FileInv, FileTypeOK, File, Core
  <1>2. /\ new \in Job /\ new.command = command /\ new.step = step /\ new.subject = subject
    BY <1>1, IdleTypes DEF Job, Steps
  <1>3. job' = [job EXCEPT ![p] = new]
    BY DEF Start
  <1>4. job' \in [Processes -> Job] /\ job'[p] = new /\ \A q \in Processes \ {p} : job'[q] = job[q]
    BY <1>2, <1>3 DEF FileInv, FileTypeOK
  <1>5. Began(p)
    BY <1>2, <1>4 DEF Began, At
  <1>6. QED
    BY <1>2, <1>4, <1>5, BeginKeeps

\* The dialogue of one process moves on, or a process starts a command.
TalkedTo(p, at) ==
    /\ dialogue' \in [Processes -> Dialogue] /\ dialogue'[p].at = at
    /\ \A q \in Processes \ {p} : dialogue'[q] = dialogue[q]

LEMMA DialogueMoves ==
  ASSUME dialogue \in [Processes -> Dialogue], NEW p \in Processes, NEW at \in States,
         NEW heard \in Seq(Pieces), DialogueIs(p, at, heard)
  PROVE  TalkedTo(p, at) /\ dialogue'[p].heard = heard
  <1>1. [at |-> at, heard |-> heard] \in Dialogue
    BY DEF Dialogue
  <1>2. QED
    BY <1>1 DEF DialogueIs, TalkedTo

LEMMA StartedTalk ==
  ASSUME TalkInv, NEW p \in Processes, Began(p), NEW at \in States \ {"EXACT_MATCH"},
         TalkedTo(p, at), UNCHANGED <<confirmed, issued>>,
         at # "NONE" => job'[p].command = "authorize" /\ job'[p].subject \in Grants,
         job'[p].command = "authorize" => job'[p].step = "idle"
  PROVE  TalkInv'
  <1>1. Authorizing'
    BY DEF TalkInv, Authorizing, Began, TalkedTo, HeardTheConfirmation
  <1>2. Progress'
    BY DEF TalkInv, Progress, Began
  <1>3. GrantsHeld'
    BY DEF TalkInv, GrantsHeld, Began
  <1>4. QED
    BY <1>1, <1>2, <1>3 DEF TalkInv, TalkedTo

\* Nothing of the file operations moves.
LEMMA FileStays ==
  ASSUME FileInv, UNCHANGED fileVars
  PROVE  FileInv'
  BY DEF fileVars, FileInv, FileTypeOK, Exclusive, FreshCopy, MigrationPrepared, OneCreator,
     FilesTell, Subjects, EvidenceHeld

LEMMA StartKeeps ==
  ASSUME SessionInv, NEW p \in Processes, StartCommand(p)
  PROVE  SessionInv' /\ file' = file
  <1>0. /\ FileInv /\ TalkInv /\ dialogue \in [Processes -> Dialogue]
        /\ dialogue[p].at \in States /\ <<>> \in Seq(Pieces)
    BY DEF SessionInv, TalkInv, Dialogue
  <1>1. Ready(p)
    BY DEF StartCommand, RunInit, RunUnderLock, RunAuthorize, RunReview
  <1>2. CountInv' /\ UNCHANGED <<confirmed, issued>>
    BY <1>1, BoundsAssumption DEF Ready, SessionInv, CountInv
  <1>3. ASSUME NEW command \in Commands \ {"authorize"}, NEW step \in {"creating", "started"},
               NEW subject \in Requests \cup {None}, Start(p, command, step, subject),
               command \in {"enqueue", "admit"} => subject \in Requests,
               step = "creating" => command = "init",
               UNCHANGED <<dialogue, file, disk, lock, evidence, reviewVars>>
        PROVE  SessionInv'
    <2>1. Began(p) /\ FileInv' /\ job'[p].command = command
      BY <1>0, <1>1, <1>3, StartBegins DEF Ready
    <2>2. TalkedTo(p, "NONE") /\ "NONE" \in States
      BY <1>0, <1>1, <1>3 DEF TalkedTo, Ready, States
    <2>3. TalkInv'
      BY <1>0, <1>2, <1>3, <2>1, <2>2, StartedTalk
    <2>4. QED
      BY <1>2, <1>3, <2>1, <2>3, ReviewsStay DEF SessionInv
  <1>4. CASE RunInit(p)
    BY <1>3, <1>4 DEF RunInit, Commands
  <1>5. CASE \/ RunUnderLock(p, "migrate", None)
             \/ \E r \in Requests : RunUnderLock(p, "enqueue", r) \/ RunUnderLock(p, "admit", r)
    BY <1>3, <1>5 DEF RunUnderLock, Commands
  <1>6. CASE \E g \in Grants : RunAuthorize(p, g)
    <2>1. PICK g \in Grants : RunAuthorize(p, g)
      BY <1>6
    <2>2. Began(p) /\ FileInv' /\ job'[p].command = "authorize" /\ job'[p].subject = g
          /\ job'[p].step = "idle"
      BY <1>0, <1>1, <2>1, StartBegins DEF Ready, RunAuthorize, Commands
    <2>3. PICK at \in {"DISPLAYING", "ABORTED"} : DialogueIs(p, at, <<>>)
      BY <2>1 DEF RunAuthorize, Display, Refuse, Abort
    <2>4. TalkedTo(p, at) /\ at \in States \ {"EXACT_MATCH"}
      BY <1>0, <2>3, DialogueMoves DEF States, Open
    <2>5. TalkInv'
      BY <1>0, <1>2, <2>2, <2>4, StartedTalk
    <2>6. QED
      BY <1>2, <2>1, <2>2, <2>5, ReviewsStay DEF SessionInv, RunAuthorize
  <1>7. CASE \E b \in Bundles : RunReview(p, b)
    <2>1. PICK b \in Bundles : RunReview(p, b)
      BY <1>7
    <2>2. ReviewInv'
      BY <2>1, ReviewInvStep DEF RunReview, SessionInv
    <2>3. FileInv'
      BY <1>0, <2>1, FileStays DEF RunReview
    <2>4. TalkInv'
      BY <1>0, <1>2, <2>1 DEF RunReview, fileVars, TalkInv, Authorizing, Progress, GrantsHeld,
         HeardTheConfirmation
    <2>5. QED
      BY <1>2, <2>1, <2>2, <2>3, <2>4 DEF SessionInv, RunReview, fileVars
  <1>8. QED
    BY <1>4, <1>5, <1>6, <1>7 DEF StartCommand, RunInit, RunUnderLock, RunAuthorize

LEMMA TalkKeeps ==
  ASSUME SessionInv, NEW p \in Processes, Talk(p)
  PROVE  SessionInv' /\ file' = file
  <1>1. PICK at \in {"WAITING_FOR_ONE_LINE", "ABORTED"} : DialogueIs(p, at, <<>>)
    BY DEF Talk, Displayed, DisplayFails, InputStops, HearEarly, Abort
  <1>2. dialogue[p].at \in Open
    BY DEF Talk, Displayed, DisplayFails, InputStops, HearEarly, Open
  <1>3. TalkedTo(p, at) /\ at \in States
    <2>1. <<>> \in Seq(Pieces) /\ dialogue \in [Processes -> Dialogue] /\ at \in States
      BY DEF States, Open, SessionInv, TalkInv
    <2>2. QED
      BY <1>1, <2>1, DialogueMoves
  <1>4. job[p].command = "authorize" /\ job[p].subject \in Grants /\ job[p].step = "idle"
    BY <1>2 DEF SessionInv, TalkInv, Authorizing, Open
  <1>5. UNCHANGED <<fileVars, reviewVars, sessionVars>>
    BY DEF Talk
  <1>6. FileInv' /\ ReviewInv' /\ CountInv'
    BY <1>5, FileStays, ReviewsStay DEF SessionInv, CountInv, sessionVars
  <1>7. Authorizing'
    BY <1>3, <1>4, <1>5 DEF SessionInv, TalkInv, Authorizing, TalkedTo, fileVars, sessionVars,
       HeardTheConfirmation
  <1>8. Progress' /\ GrantsHeld'
    BY <1>5 DEF SessionInv, TalkInv, Progress, GrantsHeld, fileVars, sessionVars
  <1>9. QED
    BY <1>3, <1>5, <1>6, <1>7, <1>8 DEF SessionInv, TalkInv, TalkedTo, fileVars, sessionVars

\* The human answers; a success has been earned.
LEMMA AnswerKeeps ==
  ASSUME SessionInv, NEW p \in Processes, Answer(p)
  PROVE  SessionInv' /\ file' = file
  <1>1. PICK chunk \in Chunks : Hear(p, chunk)
    BY DEF Answer
  <1>2. dialogue \in [Processes -> Dialogue] /\ dialogue[p].at = "WAITING_FOR_ONE_LINE"
    BY <1>1 DEF Hear, SessionInv, TalkInv
  <1>3. /\ dialogue' \in [Processes -> Dialogue]
        /\ \A q \in Processes \ {p} : dialogue'[q] = dialogue[q]
    BY <1>1, <1>2, HearTypes DEF Hear, DialogueIs, Abort
  <1>4. dialogue'[p].at = "EXACT_MATCH" => HeardTheConfirmation(p)'
    BY <1>1, <1>2, HearConfirmation DEF HeardTheConfirmation
  <1>5. job[p].command = "authorize" /\ job[p].subject \in Grants /\ job[p].step = "idle"
    BY <1>2 DEF SessionInv, TalkInv, Authorizing
  <1>6. UNCHANGED <<fileVars, reviewVars, issued, started, powerLosses>>
    BY DEF Answer
  <1>7. confirmed' = IF dialogue'[p].at = "EXACT_MATCH" THEN confirmed \cup {job[p].subject}
                                                        ELSE confirmed
    BY DEF Answer
  <1>8. FileInv' /\ ReviewInv' /\ CountInv'
    BY <1>6, FileStays, ReviewsStay DEF SessionInv, CountInv
  <1>9. confirmed \subseteq confirmed' /\ confirmed' \subseteq Grants
    BY <1>5, <1>7 DEF SessionInv, TalkInv
  <1>10. Authorizing'
    BY <1>3, <1>4, <1>5, <1>6, <1>7, <1>9 DEF SessionInv, TalkInv, Authorizing, fileVars,
       HeardTheConfirmation
  <1>11. Progress' /\ GrantsHeld'
    BY <1>6, <1>9 DEF SessionInv, TalkInv, Progress, GrantsHeld, fileVars
  <1>12. QED
    BY <1>3, <1>6, <1>8, <1>9, <1>10, <1>11 DEF SessionInv, TalkInv, fileVars

\* authorize-pilot goes from its dialogue to the file.
LEMMA CommitKeeps ==
  ASSUME SessionInv, NEW p \in Processes, Commit(p)
  PROVE  SessionInv' /\ file' = file
  <1>1. /\ dialogue[p].at = "EXACT_MATCH" /\ job[p].step = "idle"
        /\ UNCHANGED <<dialogue, file, disk, lock, evidence, reviewVars, sessionVars>>
    BY DEF Commit, At
  <1>2. job[p].command = "authorize"
    BY <1>1 DEF SessionInv, TalkInv, Authorizing
  <1>3. PICK step \in {"creating", "started"} : Goto(p, step)
    BY DEF Commit
  <1>4. Moved(p, step)
    BY <1>3, GotoMoves DEF SessionInv, FileInv, FileTypeOK, Steps
  <1>5. Began(p)
    BY <1>1, <1>2, <1>4 DEF Began, Moved
  <1>6. FileInv' /\ ReviewInv' /\ CountInv'
    BY <1>1, <1>5, BeginKeeps, ReviewsStay DEF SessionInv, CountInv, sessionVars
  <1>7. Authorizing'
    BY <1>1, <1>4 DEF SessionInv, TalkInv, Authorizing, Moved, sessionVars, HeardTheConfirmation
  <1>8. Progress' /\ GrantsHeld'
    BY <1>1, <1>4 DEF SessionInv, TalkInv, Progress, GrantsHeld, Moved, sessionVars
  <1>9. QED
    BY <1>1, <1>6, <1>7, <1>8 DEF SessionInv, TalkInv, sessionVars

\* authorize-pilot gives up, or any command is killed.
LEMMA LeaveKeeps ==
  ASSUME SessionInv, NEW p \in Processes, Abandon(p) \/ KillProcess(p)
  PROVE  SessionInv' /\ file' = file
  <1>1. Leave(p) /\ UNCHANGED <<reviewVars, sessionVars>>
    BY DEF Abandon, KillProcess
  <1>2. FileInv' /\ Ended(p) /\ file' = file /\ (disk' = disk \/ disk' = file)
    <2>1. CASE Kill(p)
      BY <2>1, EndingSteps DEF FileEnded, SessionInv
    <2>2. CASE End(p) /\ UNCHANGED <<file, disk, lock, evidence>>
      <3>1. Ended(p) /\ lock' \in [LockPaths -> Processes \cup {Free, Stale}]
        BY <2>2, EndEnds DEF SessionInv, FileInv, FileTypeOK
      <3>2. QED
        BY <2>2, <3>1, QuietEnd DEF SessionInv
    <2>3. QED
      BY <2>1, <2>2 DEF Abandon, KillProcess
  <1>3. TalkInv'
    BY <1>1, <1>2, TalkEnds DEF SessionInv, sessionVars
  <1>4. ReviewInv' /\ CountInv'
    BY <1>1, ReviewsStay DEF SessionInv, CountInv, sessionVars
  <1>5. QED
    BY <1>2, <1>3, <1>4 DEF SessionInv

LEMMA ReviewKeeps ==
  ASSUME SessionInv, NEW p \in Processes, Review(p)
  PROVE  SessionInv' /\ file' = file
  <1>1. UNCHANGED <<dialogue, fileVars, sessionVars>>
    BY DEF Review
  <1>2. FileInv' /\ ReviewInv' /\ CountInv'
    BY <1>1, FileStays, ReviewInvStep DEF Review, SessionInv, CountInv, sessionVars
  <1>3. Authorizing' /\ Progress' /\ GrantsHeld'
    BY <1>1 DEF SessionInv, TalkInv, Authorizing, Progress, GrantsHeld, fileVars, sessionVars,
       HeardTheConfirmation
  <1>4. QED
    BY <1>1, <1>2, <1>3 DEF SessionInv, TalkInv, fileVars, sessionVars

\* After a power loss nobody is at work, and the file is one that was on the disk, the
\* last one, or a torn one where nothing had been promised yet.
LEMMA PowerLossKeeps ==
  ASSUME SessionInv, LosePower
  PROVE  SessionInv' /\ HistoryStep
  <1>1. /\ powerLosses' = powerLosses + 1 /\ powerLosses < MaxPowerLosses
        /\ dialogue' = [p \in Processes |-> NoDialogue] /\ draft' = [p \in Processes |-> {}]
        /\ UNCHANGED <<reviews, confirmed, issued, started>>
        /\ file' \in {file, disk} \/ (disk = Absent /\ file' = Torn)
        /\ disk' = file' /\ job' = [p \in Processes |-> Idle]
        /\ lock' = [l \in LockPaths |-> IF lock[l] \in Processes THEN Stale ELSE lock[l]]
    BY DEF LosePower, PowerLoss
  <1>2. PICK gone \in SUBSET (evidence.whole \cup evidence.torn) :
            evidence' = [whole |-> evidence.whole \ gone, torn |-> evidence.torn \ gone,
                         lost |-> evidence.lost \cup gone]
    BY DEF LosePower, PowerLoss
  <1>3. FileTypeOK /\ FilesTell /\ EvidenceHeld /\ GrantsHeld
    BY DEF SessionInv, FileInv, TalkInv
  <1>4. /\ Torn.kind = "torn" /\ Torn.core = NewCore /\ Torn.source = {} /\ Torn.grants = {}
        /\ Absent.grants = {} /\ Absent.source = {}
    BY DEF Torn, Absent, Content
  <1>5. /\ evidence' \in [whole : SUBSET Core, torn : SUBSET Core, lost : SUBSET Core]
        /\ evidence.whole \cup evidence.lost \subseteq evidence'.whole \cup evidence'.lost
    BY <1>2, <1>3 DEF FileTypeOK
  <1>6. file' \in File /\ ValidCore(file'.core)
    BY <1>1, <1>3, <1>4, AbsentTypes DEF FileTypeOK, FilesTell
  <1>7. \A p \in Processes : job'[p] = Idle
    BY <1>1
  <1>8. FileTypeOK'
    BY <1>1, <1>3, <1>5, <1>6, IdleTypes DEF FileTypeOK
  <1>9. Exclusive' /\ FreshCopy' /\ MigrationPrepared' /\ OneCreator' /\ Subjects'
    BY <1>7, IdleTypes DEF Exclusive, Inside, FreshCopy, MigrationPrepared, OneCreator, Subjects
  <1>10. FilesTell'
    BY <1>1, <1>3, <1>4, <1>6 DEF FilesTell
  <1>11. EvidenceHeld'
    BY <1>1, <1>3, <1>4, <1>5 DEF EvidenceHeld
  <1>12. dialogue' \in [Processes -> Dialogue] /\ \A p \in Processes : dialogue'[p].at = "NONE"
    BY <1>1 DEF NoDialogue, Dialogue, States
  <1>13. Authorizing' /\ Progress'
    BY <1>7, <1>12, IdleTypes DEF Authorizing, Progress
  <1>14. GrantsHeld'
    BY <1>1, <1>3, <1>4 DEF GrantsHeld
  <1>15. CountInv' /\ ReviewInv'
    BY <1>1, BoundsAssumption DEF SessionInv, CountInv, ReviewInv, ReviewTypeOK, Whole
  <1>16. HistoryStep
    BY <1>1 DEF HistoryStep, SessionInv, CountInv
  <1>17. QED
    BY <1>1, <1>8, <1>9, <1>10, <1>11, <1>12, <1>13, <1>14, <1>15, <1>16
    DEF SessionInv, FileInv, TalkInv

LEMMA CleanUpKeeps ==
  ASSUME SessionInv, CleanUp
  PROVE  SessionInv' /\ file' = file
  <1>1. PICK l \in LockPaths : OperatorRemovesStaleLock(l)
    BY DEF CleanUp
  <1>2. /\ lock[l] = Stale /\ lock' = [lock EXCEPT ![l] = Free]
        /\ UNCHANGED <<file, disk, evidence, job, dialogue, reviewVars, sessionVars>>
    BY <1>1 DEF CleanUp, OperatorRemovesStaleLock
  <1>3. FileTypeOK'
    BY <1>2 DEF SessionInv, FileInv, FileTypeOK
  <1>4. Exclusive'
    BY <1>2, HolderAssumption DEF SessionInv, FileInv, FileTypeOK, LockPaths, Exclusive
  <1>5. FreshCopy' /\ MigrationPrepared' /\ OneCreator' /\ Subjects' /\ FilesTell' /\ EvidenceHeld'
    BY <1>2 DEF SessionInv, FileInv, FreshCopy, MigrationPrepared, OneCreator, Subjects,
       FilesTell, EvidenceHeld
  <1>6. Authorizing' /\ Progress' /\ GrantsHeld'
    BY <1>2 DEF SessionInv, TalkInv, Authorizing, Progress, GrantsHeld, sessionVars,
       HeardTheConfirmation
  <1>7. CountInv' /\ ReviewInv'
    BY <1>2, ReviewsStay DEF SessionInv, CountInv, sessionVars
  <1>8. QED
    BY <1>2, <1>3, <1>4, <1>5, <1>6, <1>7 DEF SessionInv, FileInv, TalkInv, sessionVars

LEMMA SessionInvInit == Init => SessionInv
  <1> SUFFICES ASSUME Init PROVE SessionInv
    OBVIOUS
  <1>1. /\ file \in {Absent} \cup {Legacy(Requests, hold) : hold \in BOOLEAN}
        /\ disk = file /\ lock = [l \in LockPaths |-> Free]
        /\ evidence = [whole |-> {}, torn |-> {}, lost |-> {}]
        /\ job = [p \in Processes |-> Idle]
        /\ dialogue = [p \in Processes |-> NoDialogue]
        /\ confirmed = {} /\ issued = {} /\ started = 0 /\ powerLosses = 0
    BY DEF Init, FileInit
  <1>2. /\ file \in File /\ ValidCore(file.core) /\ file.grants = {} /\ file.source = {}
        /\ file.kind = "absent" => file = Absent
    <2>1. CASE file = Absent
      BY <2>1, AbsentTypes DEF Absent, Content
    <2>2. CASE \E hold \in BOOLEAN : file = Legacy(Requests, hold)
      <3>1. PICK hold \in BOOLEAN : file = Legacy(Requests, hold)
        BY <2>2
      <3> DEFINE core == [NewCore EXCEPT !.queue = Requests, !.hold = hold]
      <3>2. core \in Core /\ ValidCore(core)
        BY NoneAssumption DEF NewCore, Core, ValidCore
      <3>3. file = Content("v1", core, {})
        BY <3>1 DEF Legacy
      <3>4. QED
        BY <3>2, <3>3 DEF Content, File
    <2>3. QED
      BY <1>1, <2>1, <2>2
  <1>3. \A p \in Processes : job[p] = Idle /\ dialogue[p].at = "NONE"
    BY <1>1 DEF NoDialogue
  <1>4. FileTypeOK
    BY <1>1, <1>2, IdleTypes DEF FileTypeOK
  <1>5. Exclusive /\ FreshCopy /\ MigrationPrepared /\ OneCreator /\ Subjects
    BY <1>3, IdleTypes DEF Exclusive, Inside, FreshCopy, MigrationPrepared, OneCreator, Subjects
  <1>6. FilesTell /\ EvidenceHeld /\ GrantsHeld
    BY <1>1, <1>2 DEF FilesTell, EvidenceHeld, GrantsHeld
  <1>7. Authorizing /\ Progress
    BY <1>3, IdleTypes DEF Authorizing, Progress
  <1>8. dialogue \in [Processes -> Dialogue] /\ confirmed \subseteq Grants
    BY <1>1 DEF NoDialogue, Dialogue, States
  <1>9. CountInv /\ ReviewInv
    BY <1>1, ReviewInvInit, BoundsAssumption DEF Init, CountInv
  <1>10. QED
    BY <1>4, <1>5, <1>6, <1>7, <1>8, <1>9 DEF SessionInv, FileInv, TalkInv

\* Every step keeps the invariant and the history of the file.
LEMMA SessionInvStep ==
  ASSUME AdmissionLock = "state", SessionInv, [Next]_vars
  PROVE  SessionInv' /\ HistoryStep
  <1>1. ASSUME NEW p \in Processes,
               \/ StartCommand(p) \/ Talk(p) \/ Answer(p) \/ Commit(p) \/ Abandon(p)
               \/ Review(p) \/ KillProcess(p)
        PROVE  SessionInv' /\ file' = file
    BY <1>1, StartKeeps, TalkKeeps, AnswerKeeps, CommitKeeps, LeaveKeeps, ReviewKeeps
  <1>2. ASSUME NEW p \in Processes, Work(p)
        PROVE  SessionInv' /\ HistoryStep
    BY <1>2, WorkKeeps
  <1>3. CASE LosePower
    BY <1>3, PowerLossKeeps
  <1>4. CASE CleanUp
    BY <1>4, CleanUpKeeps DEF HistoryStep
  <1>5. CASE UNCHANGED vars
    <2>1. UNCHANGED <<dialogue, fileVars, reviewVars, sessionVars>>
      BY <1>5 DEF vars
    <2>2. FileInv' /\ ReviewInv' /\ CountInv'
      BY <2>1, FileStays, ReviewsStay DEF SessionInv, CountInv, sessionVars
    <2>3. Authorizing' /\ Progress' /\ GrantsHeld'
      BY <2>1 DEF SessionInv, TalkInv, Authorizing, Progress, GrantsHeld, fileVars, sessionVars,
         HeardTheConfirmation
    <2>4. QED
      BY <2>1, <2>2, <2>3 DEF SessionInv, TalkInv, fileVars, sessionVars, HistoryStep
  <1>6. QED
    BY <1>1, <1>2, <1>3, <1>4, <1>5 DEF Next, HistoryStep

-----------------------------------------------------------------------------
(* The theorems                                                              *)

\* The invariant holds in every state of every session.
LEMMA Invariance ==
  ASSUME AdmissionLock = "state"
  PROVE  Spec => []SessionInv
  <1>1. SessionInv /\ [Next]_vars => SessionInv'
    BY SessionInvStep
  <1>2. QED
    BY <1>1, SessionInvInit, PTL DEF Spec

\* Whatever the commands do and wherever they are cut off, every variable keeps its type:
\* the state file, torn or not, is always one that the model of its contents covers, and no
\* request of it is both queued and claimed (validateMachineState).
THEOREM SessionTypes ==
  ASSUME AdmissionLock = "state"
  PROVE  Spec => []TypeOK
  <1>1. SessionInv => TypeOK
    BY DEF SessionInv, FileInv, TalkInv, CountInv, ReviewInv, TypeOK, GrantsHeld
  <1>2. QED
    BY <1>1, Invariance, PTL

\* commitPilotAuthorization: for any number of processes and any way of cutting the input,
\* no grant comes on file that no human has confirmed with the whole line, and no grant that
\* was reported as issued leaves the file, through crashes and power losses as well.
THEOREM GrantsConfirmed ==
  ASSUME AdmissionLock = "state"
  PROVE  Spec => []GrantsAreConfirmed
  <1>1. SessionInv => GrantsAreConfirmed
    BY DEF SessionInv, TalkInv, Authorizing, GrantsHeld, GrantsAreConfirmed
  <1>2. QED
    BY <1>1, Invariance, PTL

\* The lock and the exclusive creation make the file's history a single line: nobody
\* replaces a state that he has not read, or creates a file where one is.
THEOREM History ==
  ASSUME AdmissionLock = "state"
  PROVE  Spec => OneLineage
  <1>1. SessionInv /\ [Next]_vars => [HistoryStep]_vars
    BY SessionInvStep
  <1>2. QED
    BY <1>1, Invariance, PTL DEF Spec, OneLineage

\* migrateStateV1ToV2: the copy that a migrated state names was complete before the state
\* could name it.
THEOREM EvidenceOnFile ==
  ASSUME AdmissionLock = "state"
  PROVE  Spec => []EvidenceKept
  <1>1. SessionInv => EvidenceKept
    BY DEF SessionInv, FileInv, EvidenceHeld, EvidenceKept
  <1>2. QED
    BY <1>1, Invariance, PTL

\* persistReviewBundle: any number of writers without a lock may lose each other's bundles,
\* but never leave half of one.
THEOREM WholeBundles == Spec => []BundlesWhole
  <1>1. Init => ReviewInv
    BY ReviewInvInit DEF Init
  <1>2. ReviewInv /\ [Next]_vars => ReviewInv'
    <2> SUFFICES ASSUME ReviewInv, [Next]_vars PROVE ReviewInv'
      OBVIOUS
    <2>1. CASE \E p \in Processes : (\E b \in Bundles : RunReview(p, b)) \/ Review(p)
      BY <2>1, ReviewInvStep DEF RunReview, Review
    <2>2. CASE LosePower
      BY <2>2 DEF LosePower, ReviewInv, ReviewTypeOK, Whole
    <2>3. CASE UNCHANGED reviewVars
      BY <2>3, ReviewsStay
    <2>4. \/ \E p \in Processes : (\E b \in Bundles : RunReview(p, b)) \/ Review(p)
          \/ LosePower
          \/ UNCHANGED reviewVars
      BY DEF Next, vars, StartCommand, RunInit, RunUnderLock, RunAuthorize, Talk, Answer, Commit,
         Abandon, Work, KillProcess, CleanUp
    <2>5. QED
      BY <2>1, <2>2, <2>3, <2>4
  <1>3. ReviewInv => BundlesWhole
    BY DEF ReviewInv, BundlesWhole
  <1>4. QED
    BY <1>1, <1>2, <1>3, PTL DEF Spec
=============================================================================
