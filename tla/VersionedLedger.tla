--------------------------- MODULE VersionedLedger ---------------------------
(***************************************************************************)
(* What the controller's protected state file promises to the commands that *)
(* mutate it (src/src/local-store.mjs, mutateStateV2), with no lock file, no  *)
(* temporary file and no fsync in sight: one append-only sequence of         *)
(* mutations, each carrying the next stateVersion, of which a prefix is       *)
(* durable.  A power loss may take back mutations past the durable prefix,    *)
(* and nothing else ever takes back or rewrites a mutation.                   *)
(***************************************************************************)
EXTENDS Naturals, Sequences

CONSTANT Writers     \* the command invocations that mutate the state

VARIABLES ledger,    \* the mutations visible in the state file, oldest first
          durable    \* how many of them no power loss can take back

ledgerVars == <<ledger, durable>>

\* A mutation: the stateVersion it produced and the command that made it.
Entry == [version : Nat, writer : Writers]

Init == ledger = <<>> /\ durable = 0

\* One command's mutation becomes visible, as the next version.
Commit(w) ==
    /\ ledger' = Append(ledger, [version |-> Len(ledger) + 1, writer |-> w])
    /\ UNCHANGED durable

\* Everything visible becomes durable.
Harden == durable' = Len(ledger) /\ UNCHANGED ledger

\* A power loss keeps some prefix that holds at least the durable one, and what
\* it keeps is then on the disk.
Forget(n) ==
    /\ n \in durable .. Len(ledger)
    /\ ledger' = SubSeq(ledger, 1, n)
    /\ durable' = n

Next == \/ \E w \in Writers : Commit(w)
        \/ Harden
        \/ \E n \in 0 .. Len(ledger) : Forget(n)

Spec == Init /\ [][Next]_ledgerVars
=============================================================================
