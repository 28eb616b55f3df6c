--------------------------- MODULE StateStore_proofs ---------------------------
(***************************************************************************)
(* Theorems about the state store, for any number of commands, any bound on  *)
(* stateVersion and any pattern of crashes, errors and power losses.         *)
(***************************************************************************)
EXTENDS StateStore, TLAPS

(* Sequences *)

\* A state with one mutation more is a state, and its beginning is the old one.
LEMMA AppendEntry ==
    ASSUME NEW log \in Seq(Entry), NEW e \in Entry
    PROVE  /\ Append(log, e) \in Seq(Entry)
           /\ Len(Append(log, e)) = Len(log) + 1
           /\ Append(log, e) # <<>>
           /\ Append(log, e)[Len(log) + 1] = e
           /\ \A i \in 1 .. Len(log) : Append(log, e)[i] = log[i]
           /\ SubSeq(Append(log, e), 1, Len(Append(log, e)) - 1) = log
  OBVIOUS

\* What a power loss leaves of a state.
LEMMA Truncated ==
    ASSUME NEW log \in Seq(Entry), NEW n \in 0 .. Len(log)
    PROVE  /\ SubSeq(log, 1, n) \in Seq(Entry)
           /\ Len(SubSeq(log, 1, n)) = n
           /\ \A i \in 1 .. n : SubSeq(log, 1, n)[i] = log[i]
  OBVIOUS

\* Every state is its own longest prefix.
LEMMA WholePrefix ==
    ASSUME NEW log \in Seq(Entry)
    PROVE  SubSeq(log, 1, Len(log)) = log
  OBVIOUS

\* A non-empty state is the state before its last mutation, and that mutation.
LEMMA LastEntry ==
    ASSUME NEW log \in Seq(Entry), log # <<>>,
           NEW front \in Seq(Entry), front = SubSeq(log, 1, Len(log) - 1)
    PROVE  /\ Len(log) \in Nat \ {0}
           /\ Len(log) \in DOMAIN log
           /\ Len(front) = Len(log) - 1
           /\ log[Len(log)] \in Entry
           /\ log = Append(front, log[Len(log)])
           /\ \A i \in 1 .. Len(front) : front[i] = log[i]
  <1>1. Len(log) \in Nat \ {0}
    OBVIOUS
  <1>2. Len(front) = Len(log) - 1 /\ \A i \in 1 .. Len(front) : front[i] = log[i]
    <2>1. Len(log) - 1 \in 0 .. Len(log)
      BY <1>1
    <2>2. QED
      BY <2>1, Truncated
  <1>3. Len(log) \in DOMAIN log /\ log[Len(log)] \in Entry
    BY <1>1
  <1>4. log = Append(front, log[Len(log)])
    BY <1>1, <1>2, <1>3
  <1>5. QED
    BY <1>1, <1>2, <1>3, <1>4

\* stateVersion of a state is a number.
LEMMA VersionIsNat ==
    ASSUME NEW log \in Seq(Entry)
    PROVE  Version(log) \in Nat
  <1>1. CASE log = <<>>
    BY <1>1 DEF Version
  <1>2. CASE log # <<>>
    <2>1. Len(log) \in 1 .. Len(log) /\ log[Len(log)] \in Entry
      BY <1>2
    <2>2. QED
      BY <2>1, <1>2 DEF Version, Entry
  <1>3. QED
    BY <1>1, <1>2

-----------------------------------------------------------------------------
(* The inductive invariant *)

LEMMA InitInductive == Init => IInv
  BY LockAssumption DEF Init, IInv, TypeOK, OwnsTheLock, NothingOverwritten, Progress,
     VersionsCount, DurablePrefix, ConfirmedSurvives, Steps, Holding

\* stateVersion counts the mutations of the visible state.
LEMMA VersionIsLength ==
    ASSUME TypeOK, VersionsCount
    PROVE  Version(file) = Len(file)
  <1>1. CASE file = <<>>
    BY <1>1 DEF Version
  <1>2. CASE file # <<>>
    <2>1. Len(file) \in DOMAIN file
      BY <1>2 DEF TypeOK
    <2>2. QED
      BY <2>1, <1>2 DEF Version, VersionsCount
  <1>3. QED
    BY <1>1, <1>2

\* The command that holds the lock is alone in mutateStateV2.
LEMMA Alone ==
    ASSUME TypeOK, OwnsTheLock, NEW w \in Writers, pc[w] # "idle"
    PROVE  lock = w /\ \A v \in Writers : v # w => pc[v] = "idle"
  BY DEF TypeOK, OwnsTheLock, Holding

\* What the disk holds is there in the visible state, at the same version.
LEMMA DiskIsVisible ==
    ASSUME TypeOK, DurablePrefix
    PROVE  \A i \in DOMAIN disk : i \in DOMAIN file /\ file[i] = disk[i]
  <1>1. Len(disk) \in 0 .. Len(file)
    BY DEF TypeOK, DurablePrefix
  <1>2. QED
    BY <1>1, Truncated DEF TypeOK, DurablePrefix

\* A step that touches neither the state nor the reports keeps what is said of them.
LEMMA LogsUnchanged ==
    ASSUME VersionsCount, DurablePrefix, ConfirmedSurvives, UNCHANGED <<file, disk, confirmed>>
    PROVE  VersionsCount' /\ DurablePrefix' /\ ConfirmedSurvives'
  BY DEF VersionsCount, DurablePrefix, ConfirmedSurvives

LEMMA StepInductive == IInv /\ [Next]_vars => IInv'
  <1> SUFFICES ASSUME IInv, [Next]_vars
               PROVE  IInv'
    OBVIOUS
  <1> USE DEF IInv, TypeOK, OwnsTheLock, NothingOverwritten, Progress, Steps, Holding
  <1>1. ASSUME NEW w \in Writers, AcquireLock(w)
       PROVE  IInv'
    <2>1. TypeOK' /\ OwnsTheLock' /\ NothingOverwritten' /\ Progress'
      BY <1>1, LockAssumption DEF AcquireLock
    <2>2. VersionsCount' /\ DurablePrefix' /\ ConfirmedSurvives'
      BY <1>1, LogsUnchanged DEF AcquireLock
    <2>3. QED
      BY <2>1, <2>2
  <1>2. ASSUME NEW w \in Writers, WriteLockRecord(w)
       PROVE  IInv'
    <2>1. TypeOK' /\ OwnsTheLock' /\ NothingOverwritten' /\ Progress'
      BY <1>2, LockAssumption DEF WriteLockRecord
    <2>2. VersionsCount' /\ DurablePrefix' /\ ConfirmedSurvives'
      BY <1>2, LogsUnchanged DEF WriteLockRecord
    <2>3. QED
      BY <2>1, <2>2
  <1>3. ASSUME NEW w \in Writers, LockRecordFails(w)
       PROVE  IInv'
    <2>1. TypeOK' /\ OwnsTheLock' /\ NothingOverwritten' /\ Progress'
      BY <1>3, LockAssumption DEF LockRecordFails
    <2>2. VersionsCount' /\ DurablePrefix' /\ ConfirmedSurvives'
      BY <1>3, LogsUnchanged DEF LockRecordFails
    <2>3. QED
      BY <2>1, <2>2
  <1>4. ASSUME NEW w \in Writers, ReadState(w)
       PROVE  IInv'
    <2>1. TypeOK' /\ OwnsTheLock' /\ NothingOverwritten' /\ Progress'
      BY <1>4, LockAssumption DEF ReadState
    <2>2. VersionsCount' /\ DurablePrefix' /\ ConfirmedSurvives'
      BY <1>4, LogsUnchanged DEF ReadState
    <2>3. QED
      BY <2>1, <2>2
  <1>5. ASSUME NEW w \in Writers, NEW k \in 0 .. 2, Mutate(w, k)
       PROVE  IInv'
    <2> DEFINE next == [version |-> Version(file) + k, writer |-> w]
    <2>1. candidate[w] = file /\ lock = w
      BY <1>5 DEF Mutate
    <2>2. next \in Entry
      <3>1. Version(file) + k \in Nat
        BY VersionIsNat
      <3>2. QED
        BY <3>1 DEF Entry
    <2>3. candidate' = [candidate EXCEPT ![w] = Append(file, next)]
      BY <1>5, <2>1 DEF Mutate
    <2>4. \A v \in Writers : v # w => pc[v] = "idle"
      BY <1>5, Alone DEF Mutate
    <2> HIDE DEF next
    <2>5. TypeOK' /\ OwnsTheLock'
      BY <1>5, <2>2, <2>3, AppendEntry DEF Mutate
    <2>6. NothingOverwritten'
      BY <1>5, <2>2, <2>3, <2>4, AppendEntry DEF Mutate
    <2>7. Progress'
      BY <1>5, <2>4 DEF Mutate
    <2>8. VersionsCount' /\ DurablePrefix' /\ ConfirmedSurvives'
      BY <1>5, LogsUnchanged DEF Mutate
    <2>9. QED
      BY <2>5, <2>6, <2>7, <2>8
  <1>6. ASSUME NEW w \in Writers, Stage(w)
       PROVE  IInv'
    <2>1. TypeOK' /\ OwnsTheLock' /\ NothingOverwritten' /\ Progress'
      BY <1>6, Alone DEF Stage, AdvancesOnce
    <2>2. VersionsCount' /\ DurablePrefix' /\ ConfirmedSurvives'
      BY <1>6, LogsUnchanged DEF Stage
    <2>3. QED
      BY <2>1, <2>2
  <1>7. ASSUME NEW w \in Writers, GiveUp(w)
       PROVE  IInv'
    <2>1. TypeOK' /\ OwnsTheLock' /\ NothingOverwritten' /\ Progress'
      BY <1>7, LockAssumption DEF GiveUp
    <2>2. VersionsCount' /\ DurablePrefix' /\ ConfirmedSurvives'
      BY <1>7, LogsUnchanged DEF GiveUp
    <2>3. QED
      BY <2>1, <2>2
  <1>8. ASSUME NEW w \in Writers, Rename(w)
       PROVE  IInv'
    <2>1. /\ pc[w] = "staged" /\ file' = candidate[w]
          /\ UNCHANGED <<lock, candidate, disk, confirmed>>
          /\ pc' = [pc EXCEPT ![w] = "renamed"]
      BY <1>8 DEF Rename
    <2>2. \A v \in Writers : v # w => pc[v] = "idle"
      BY <2>1, Alone
    <2>3. /\ candidate[w] \in Seq(Entry) /\ candidate[w] # <<>>
          /\ file = SubSeq(candidate[w], 1, Len(candidate[w]) - 1)
      BY <2>1
    <2>4. /\ Len(file') = Len(file) + 1 /\ file' \in Seq(Entry) /\ file' # <<>>
          /\ \A i \in 1 .. Len(file) : file'[i] = file[i]
      <3>1. /\ Len(file) = Len(candidate[w]) - 1
            /\ \A i \in 1 .. Len(file) : file[i] = candidate[w][i]
        BY <2>3, LastEntry
      <3>2. QED
        BY <2>1, <2>3, <3>1
    <2>5. file'[Len(file) + 1].version = Len(file) + 1
      BY <2>1, <2>3, <2>4, VersionIsLength DEF AdvancesOnce
    <2>6. TypeOK' /\ OwnsTheLock' /\ NothingOverwritten' /\ Progress'
      BY <2>1, <2>2, <2>4
    <2>7. VersionsCount'
      <3>1. DOMAIN file' = 1 .. Len(file) + 1 /\ DOMAIN file = 1 .. Len(file)
        BY <2>4
      <3>2. ASSUME NEW i \in DOMAIN file'
            PROVE  file'[i].version = i
        <4>1. CASE i = Len(file) + 1
          BY <4>1, <2>5
        <4>2. CASE i \in 1 .. Len(file)
          BY <4>2, <2>4, <3>1 DEF VersionsCount
        <4>3. QED
          BY <3>1, <4>1, <4>2
      <3>3. QED
        BY <3>2 DEF VersionsCount
    <2>8. DurablePrefix'
      <3>1. Len(disk) \in 0 .. Len(file) /\ Len(disk) \in 0 .. Len(file')
        BY <2>4 DEF DurablePrefix
      <3>2. SubSeq(file', 1, Len(disk)) = SubSeq(file, 1, Len(disk))
        BY <3>1, <2>4
      <3>3. QED
        BY <2>1, <3>1, <3>2 DEF DurablePrefix
    <2>9. ConfirmedSurvives'
      BY <2>1 DEF ConfirmedSurvives
    <2>10. QED
      BY <2>6, <2>7, <2>8, <2>9
  <1>9. ASSUME NEW w \in Writers, SyncDirectory(w)
       PROVE  IInv'
    <2>1. \A v \in Writers : v # w => pc[v] = "idle"
      BY <1>9, Alone DEF SyncDirectory
    <2>2. TypeOK' /\ OwnsTheLock' /\ NothingOverwritten' /\ Progress' /\ VersionsCount'
      BY <1>9, <2>1 DEF SyncDirectory, VersionsCount
    <2>3. DurablePrefix'
      BY <1>9, WholePrefix DEF SyncDirectory, DurablePrefix
    <2>4. ConfirmedSurvives'
      BY <1>9, DiskIsVisible DEF SyncDirectory, ConfirmedSurvives
    <2>5. QED
      BY <2>2, <2>3, <2>4
  <1>10. ASSUME NEW w \in Writers, SyncFails(w)
       PROVE  IInv'
    <2>1. TypeOK' /\ OwnsTheLock' /\ NothingOverwritten' /\ Progress'
      BY <1>10, LockAssumption DEF SyncFails
    <2>2. VersionsCount' /\ DurablePrefix' /\ ConfirmedSurvives'
      BY <1>10, LogsUnchanged DEF SyncFails
    <2>3. QED
      BY <2>1, <2>2
  <1>11. ASSUME NEW w \in Writers, Release(w)
       PROVE  IInv'
    <2>1. TypeOK' /\ OwnsTheLock' /\ NothingOverwritten' /\ Progress'
      <3>1. pc[w] = "done" => candidate[w][Len(candidate[w])] \in Entry
        BY <1>11
      <3>2. QED
        BY <1>11, <3>1, LockAssumption DEF Release, Leave
    <2>2. VersionsCount' /\ DurablePrefix'
      BY <1>11 DEF Release, VersionsCount, DurablePrefix
    <2>3. ConfirmedSurvives'
      <3>1. CASE pc[w] = "done"
        <4>1. disk = file /\ candidate[w] = file /\ Len(file) \in DOMAIN file
          BY <3>1
        <4>2. file[Len(file)].version = Len(file)
          BY <4>1 DEF VersionsCount
        <4>3. QED
          BY <1>11, <3>1, <4>1, <4>2 DEF Release, ConfirmedSurvives
      <3>2. CASE pc[w] # "done"
        BY <1>11, <3>2 DEF Release, ConfirmedSurvives
      <3>3. QED
        BY <3>1, <3>2
    <2>4. QED
      BY <2>1, <2>2, <2>3
  <1>12. ASSUME NEW w \in Writers, ReleaseFails(w)
       PROVE  IInv'
    <2>1. TypeOK' /\ OwnsTheLock' /\ NothingOverwritten' /\ Progress'
      BY <1>12, LockAssumption DEF ReleaseFails, Leave
    <2>2. VersionsCount' /\ DurablePrefix' /\ ConfirmedSurvives'
      BY <1>12, LogsUnchanged DEF ReleaseFails
    <2>3. QED
      BY <2>1, <2>2
  <1>13. ASSUME NEW w \in Writers, Crash(w)
       PROVE  IInv'
    <2>1. TypeOK' /\ OwnsTheLock' /\ NothingOverwritten' /\ Progress'
      BY <1>13, LockAssumption DEF Crash, Leave
    <2>2. VersionsCount' /\ DurablePrefix' /\ ConfirmedSurvives'
      BY <1>13, LogsUnchanged DEF Crash
    <2>3. QED
      BY <2>1, <2>2
  <1>14. ASSUME NEW n \in 0 .. Len(file), PowerLoss(n)
       PROVE  IInv'
    <2>1. n \in Len(disk) .. Len(file) /\ n \in 0 .. Len(file)
      BY <1>14 DEF PowerLoss, DurablePrefix
    <2>2. /\ file' \in Seq(Entry) /\ Len(file') = n /\ disk' = file'
          /\ \A i \in 1 .. n : file'[i] = file[i]
      BY <1>14, <2>1, Truncated DEF PowerLoss
    <2>3. TypeOK' /\ OwnsTheLock' /\ NothingOverwritten' /\ Progress'
      BY <1>14, <2>2 DEF PowerLoss
    <2>4. VersionsCount'
      BY <2>1, <2>2 DEF VersionsCount
    <2>5. DurablePrefix'
      BY <2>2, WholePrefix DEF DurablePrefix
    <2>6. ConfirmedSurvives'
      BY <1>14, <2>1, <2>2, DiskIsVisible DEF PowerLoss, ConfirmedSurvives
    <2>7. QED
      BY <2>3, <2>4, <2>5, <2>6
  <1>15. CASE OperatorRemovesStaleLock
    BY <1>15, LockAssumption, LogsUnchanged DEF OperatorRemovesStaleLock, AdvancesOnce
  <1>16. CASE UNCHANGED vars
    BY <1>16, LogsUnchanged DEF vars, AdvancesOnce
  <1>17. QED
    BY <1>1, <1>2, <1>3, <1>4, <1>5, <1>6, <1>7, <1>8, <1>9, <1>10, <1>11, <1>12, <1>13, <1>14, <1>15, <1>16 DEF Next, Run

-----------------------------------------------------------------------------
(* The theorems *)

\* The strengthened invariant holds in every reachable state of the store.
THEOREM StoreInductive == Spec => []IInv
  <1>1. Init => IInv
    BY InitInductive
  <1>2. IInv /\ [Next]_vars => IInv'
    BY StepInductive
  <1>3. QED
    BY <1>1, <1>2, PTL DEF Spec

\* Every variable of the store keeps its type: local-store.mjs, mutateStateV2.
THEOREM StoreTypeCorrect == Spec => []TypeOK
  <1>1. IInv => TypeOK
    BY DEF IInv
  <1>2. QED
    BY <1>1, StoreInductive, PTL

\* Two commands are never inside mutateStateV2 together (acquireLock, release).
THEOREM MutualExclusion == Spec => []OwnsTheLock
  <1>1. IInv => OwnsTheLock
    BY DEF IInv
  <1>2. QED
    BY <1>1, StoreInductive, PTL

\* No rename of replaceStateAtomic overwrites a mutation its command has not read.
THEOREM NoLostUpdate == Spec => []NothingOverwritten
  <1>1. IInv => NothingOverwritten
    BY DEF IInv
  <1>2. QED
    BY <1>1, StoreInductive, PTL

\* A change mutateStateV2 returned as made is never lost, not by a power loss either.
THEOREM Durability == Spec => []ConfirmedSurvives
  <1>1. IInv => ConfirmedSurvives
    BY DEF IInv
  <1>2. QED
    BY <1>1, StoreInductive, PTL

\* Every step of the store is a step of the ledger, or none.
LEMMA StepRefines == IInv /\ IInv' /\ [Next]_vars => [Ledger!Next]_(Ledger!ledgerVars)
  <1> SUFFICES ASSUME IInv, IInv', [Next]_vars
               PROVE  [Ledger!Next]_(Ledger!ledgerVars)
    OBVIOUS
  <1> USE DEF Ledger!Next, Ledger!ledgerVars
  <1>1. CASE UNCHANGED <<file, disk>>
    BY <1>1
  <1>2. ASSUME NEW w \in Writers, Rename(w)
        PROVE  Ledger!Commit(w)
    <2>1. /\ candidate[w] \in Seq(Entry) /\ candidate[w] # <<>> /\ file \in Seq(Entry)
          /\ file = SubSeq(candidate[w], 1, Len(candidate[w]) - 1)
      BY <1>2 DEF Rename, IInv, TypeOK, NothingOverwritten
    <2>2. candidate[w][Len(candidate[w])].version = Len(file) + 1
      BY <1>2, <2>1, VersionIsLength DEF Rename, IInv, Progress, AdvancesOnce
    <2>3. /\ candidate[w] = Append(file, candidate[w][Len(candidate[w])])
          /\ candidate[w][Len(candidate[w])] \in Entry
      BY <2>1, LastEntry
    <2>4. candidate[w][Len(candidate[w])] = [version |-> Len(file) + 1, writer |-> w]
      BY <1>2, <2>2, <2>3 DEF Rename, IInv, Progress, Entry
    <2>5. QED
      BY <1>2, <2>3, <2>4 DEF Rename, Ledger!Commit
  <1>3. ASSUME NEW w \in Writers, SyncDirectory(w)
        PROVE  Ledger!Harden
    BY <1>3 DEF SyncDirectory, Ledger!Harden
  <1>4. ASSUME NEW n \in 0 .. Len(file), PowerLoss(n)
        PROVE  Ledger!Forget(n)
    BY <1>4, Truncated DEF PowerLoss, Ledger!Forget, IInv, TypeOK
  <1>5. CASE UNCHANGED vars
    BY <1>5 DEF vars
  <1>6. ASSUME NEW w \in Writers, AcquireLock(w) \/ Run(w) \/ Crash(w),
               ~Rename(w), ~SyncDirectory(w)
        PROVE  UNCHANGED <<file, disk>>
    BY <1>6 DEF AcquireLock, Run, Crash, WriteLockRecord, LockRecordFails, ReadState,
       Mutate, Stage, GiveUp, SyncFails, Release, ReleaseFails, Leave
  <1>7. CASE OperatorRemovesStaleLock
    BY <1>7 DEF OperatorRemovesStaleLock
  <1>8. QED
    BY <1>1, <1>2, <1>3, <1>4, <1>5, <1>6, <1>7 DEF Next

\* The store with its lock file, temporary files and fsyncs implements the
\* append-only versioned ledger with a durable prefix.
THEOREM StoreImplementsLedger == Spec => ImplementsLedger
  <1>1. Init => Ledger!Init
    BY DEF Init, Ledger!Init
  <1>2. IInv /\ IInv' /\ [Next]_vars => [Ledger!Next]_(Ledger!ledgerVars)
    BY StepRefines
  <1>3. QED
    BY <1>1, <1>2, StoreInductive, PTL DEF Spec, ImplementsLedger, Ledger!Spec
=============================================================================
