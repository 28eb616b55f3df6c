------------------------------ MODULE ReviewBundle ------------------------------
(***************************************************************************)
(* persistReviewBundle of src/src/local-store.mjs: an iteration, its summary     *)
(* and the event that reports it enter a review file as one replacement of the    *)
(* file.  No lock is taken: every writer replaces what it has read, whatever       *)
(* happened in between.                                                        *)
(***************************************************************************)
EXTENDS CommandProcesses, Naturals, Sequences

CONSTANTS Bundles,      \* the bundles that reviewers may persist, see Bundle
          MaxIterations \* 3

VARIABLES reviews,      \* the review file
          draft         \* of each process: the state it is about to write, if any

reviewVars == <<reviews, draft>>

\* iteration and summary are one record here: a bundle always carries both.
Bundle == [id : STRING, index : Nat, content : STRING, event : STRING, payload : STRING]

ASSUME BundlesAssumption == Bundles \subseteq Bundle
ASSUME IterationsAssumption == MaxIterations \in Nat

Reviews == [version : Nat,
            iterations : Seq([id : STRING, index : Nat, content : STRING]),
            outbox : SUBSET [event : STRING, payload : STRING]]

NoReviews == [version |-> 0, iterations |-> <<>>, outbox |-> {}]

IterationOf(b) == [id |-> b.id, index |-> b.index, content |-> b.content]

EventOf(b) == [event |-> b.event, payload |-> b.payload]

Known(state, b) == \E i \in DOMAIN state.iterations : state.iterations[i].id = b.id

\* appendEvent: an event that is there already stays as it is, notification status
\* and all; with another payload it is CONFLICTING_EVENT_PAYLOAD.
EventAgrees(state, b) ==
    \A e \in state.outbox : e.event = b.event => e.payload = b.payload

\* Mutant: an index is only held against the limit.
NextInLine(state, b) == b.index <= MaxIterations

\* A new iteration continues the sequence from 1, up to the limit.
Continues(state, b) == b.index = Len(state.iterations) + 1 /\ b.index <= MaxIterations

\* A known iteration must be the very same.
Accepts(state, b) ==
    /\ EventAgrees(state, b)
    /\ IF Known(state, b)
       THEN \E i \in DOMAIN state.iterations : state.iterations[i] = IterationOf(b)
       ELSE Continues(state, b)

\* commitReviewBundle: a replay changes nothing, or adds an event; what changes has the
\* next version.
Committed(state, b) ==
    LET iterations == IF Known(state, b) THEN state.iterations
                      ELSE Append(state.iterations, IterationOf(b))
        outbox     == state.outbox \cup {EventOf(b)}
        changed    == iterations # state.iterations \/ outbox # state.outbox
    IN  [version |-> IF changed THEN state.version + 1 ELSE state.version,
         iterations |-> iterations, outbox |-> outbox]

ReviewInit == reviews = NoReviews /\ draft = [p \in Processes |-> {}]

\* The state is read and the candidate computed.  A conflict throws, and a replay that
\* changes nothing writes nothing: no action here.
ReadReviews(p, b) ==
    /\ draft[p] = {}
    /\ Accepts(reviews, b)
    /\ Committed(reviews, b) # reviews
    /\ draft' = [draft EXCEPT ![p] = {Committed(reviews, b)}]
    /\ UNCHANGED reviews

ReplaceReviews(p) ==
    /\ draft[p] # {}
    /\ reviews' \in draft[p]
    /\ draft' = [draft EXCEPT ![p] = {}]

\* The replacement fails, or the process is killed.
DropDraft(p) ==
    /\ draft[p] # {}
    /\ draft' = [draft EXCEPT ![p] = {}]
    /\ UNCHANGED reviews

ReviewTypeOK ==
    /\ reviews \in Reviews
    /\ draft \in [Processes -> SUBSET Reviews]

\* A review state is made of whole bundles: its iterations are 1, 2, 3 without a gap or a
\* repetition, each with an event of its own bundle, and no event has two payloads.
Whole(state) ==
    /\ Len(state.iterations) <= MaxIterations
    /\ \A i \in DOMAIN state.iterations :
         LET it == state.iterations[i]
         IN  /\ it.index = i
             /\ \A j \in DOMAIN state.iterations : state.iterations[j].id = it.id => i = j
             /\ \E b \in Bundles : IterationOf(b) = it /\ EventOf(b) \in state.outbox
    /\ \A d, e \in state.outbox : d.event = e.event => d = e

\* Whatever writers run at once, the review file is made of whole bundles
\* (local-store.mjs: iterations, summaries and events are one transaction).
BundlesWhole == Whole(reviews)
=============================================================================
