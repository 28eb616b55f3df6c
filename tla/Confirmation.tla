----------------------------- MODULE Confirmation -----------------------------
(***************************************************************************)
(* src/src/interactive-confirmation.mjs: the dialogue in which a human confirms *)
(* an authorization by typing one line at a terminal.  What reaches the program  *)
(* is a stream of chunks, split anywhere; it may end, fail, or be interrupted by  *)
(* a signal at any time, also while the proposal is still being displayed.        *)
(*                                                                            *)
(* Text is a sequence of pieces: what the confirmation is made of, "nl" for a     *)
(* line end, and "sep" for a character (U+2028) that ends a line for the          *)
(* program's line reader and is plain text to the check of the raw input.         *)
(***************************************************************************)
EXTENDS CommandProcesses, Naturals, Sequences, FiniteSetsExt

CONSTANTS Expected,     \* the confirmation, without its line end
          Chunks,       \* what one data event may carry
          MaxHeard      \* bound on the pieces heard without a line end

ExpectedPieces == {Expected[i] : i \in DOMAIN Expected}

ASSUME ExpectedAssumption ==
    Expected \in Seq(ExpectedPieces) /\ ExpectedPieces \cap {"nl", "sep"} = {}

Pieces == ExpectedPieces \cup {"nl", "sep"}

ASSUME ChunksAssumption == Chunks \subseteq Seq(Pieces)

VARIABLE dialogue       \* of each process: its state, and the raw input since the prompt

\* VALIDATING and PROPOSAL_READY pass without an event in between.
Open == {"DISPLAYING", "WAITING_FOR_ONE_LINE"}
States == Open \cup {"NONE", "EXACT_MATCH", "ABORTED"}

Dialogue == [at : States, heard : Seq(Pieces)]

NoDialogue == [at |-> "NONE", heard |-> <<>>]

DialogueIs(p, at, heard) == dialogue' = [dialogue EXCEPT ![p] = [at |-> at, heard |-> heard]]

\* abort: whatever was heard is dropped, and nobody listens any more.
Abort(p) == DialogueIs(p, "ABORTED", <<>>)

-----------------------------------------------------------------------------

\* The checks of the terminal and of the texts pass, the listeners are attached, and
\* the proposal is written out.
Display(p) == DialogueIs(p, "DISPLAYING", <<>>)

\* INTERACTIVE_TTY_CONFIRMATION_REQUIRED, or nothing to display or to expect.
Refuse(p) == Abort(p)

\* The output has taken the whole text: from now on, and not before, input counts.
Displayed(p) ==
    /\ dialogue[p].at = "DISPLAYING"
    /\ DialogueIs(p, "WAITING_FOR_ONE_LINE", <<>>)

DisplayFails(p) ==
    /\ dialogue[p].at = "DISPLAYING"
    /\ Abort(p)

\* The input ends, closes or fails, or one of the three signals arrives.
InputStops(p) ==
    /\ dialogue[p].at \in Open
    /\ Abort(p)

\* Data before the prompt is complete is not an answer to it.
HearEarly(p) ==
    /\ dialogue[p].at = "DISPLAYING"
    /\ Abort(p)

-----------------------------------------------------------------------------
(* The line reader and the check of the raw input                           *)

Positions(text, pieces) == {i \in DOMAIN text : text[i] \in pieces}

\* appendTerminatedLines: the lines of the raw input, and what is left, matter only as
\* to whether there is exactly one line and nothing after it.
OneWholeLine(text) == Positions(text, {"nl"}) = {Len(text)}

\* The first line that node:readline reports.
ReaderLine(text) == SubSeq(text, 1, Min(Positions(text, {"nl", "sep"})) - 1)

\* Mutant: the line is compared and the raw input around it is not.
ConfirmsByLine(text) == ReaderLine(text) = Expected

\* onLine: one raw line, nothing behind it, the same as the reader's, and as expected.
Confirms(text) ==
    /\ OneWholeLine(text)
    /\ ReaderLine(text) = SubSeq(text, 1, Len(text) - 1)
    /\ ReaderLine(text) = Expected

\* A chunk without a line end is kept.  The first line end decides, and a line that is
\* not the confirmation is not asked for again.
Hear(p, chunk) ==
    LET text == dialogue[p].heard \o chunk
    IN  /\ dialogue[p].at = "WAITING_FOR_ONE_LINE"
        /\ \/ /\ Positions(text, {"nl", "sep"}) = {}
              /\ Len(text) <= MaxHeard
              /\ DialogueIs(p, "WAITING_FOR_ONE_LINE", text)
           \/ /\ Positions(text, {"nl", "sep"}) # {}
              /\ IF Confirms(text) THEN DialogueIs(p, "EXACT_MATCH", text) ELSE Abort(p)

\* What a dialogue that succeeded has heard since its prompt.
HeardTheConfirmation(p) == dialogue[p].heard = Append(Expected, "nl")
=============================================================================
