--------------------------- MODULE MCOperatorSession ---------------------------
(* Processes, requests and grants for TLC.  The confirmation is two pieces; chunks   *)
(* carry it whole, in parts, twice, or with something else around it.            *)
EXTENDS OperatorSession, TLC

CONSTANTS h, s, t

MCSubmitted == <<s, h, t>>

MCExpected == <<"CONFIRM", "digest">>

MCChunks == {<<"CONFIRM">>, <<"digest", "nl">>, <<"nl">>, <<"CONFIRM", "digest">>,
             <<"CONFIRM", "digest", "nl">>, <<"CONFIRM", "digest", "nl", "CONFIRM">>,
             <<"CONFIRM", "digest", "sep">>, <<"CONFIRM", "digest", "nl", "nl">>}

B(id, index, content, event, payload) ==
    [id |-> id, index |-> index, content |-> content, event |-> event, payload |-> payload]

\* A first and a second iteration, each also in a version that conflicts with it, and a
\* replay that brings another event.
MCBundles == {B("i1", 1, "x", "e1", "p"), B("i1", 1, "y", "e1", "p"), B("i1", 1, "x", "e3", "q"),
              B("i2", 2, "x", "e2", "p"), B("j2", 2, "x", "e2", "q")}

Symmetry == Permutations(Processes)
=============================================================================
