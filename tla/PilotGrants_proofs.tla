-------------------------- MODULE PilotGrants_proofs --------------------------
(***************************************************************************)
(* The promises of module PilotGrants hold for any set of grants and requests.   *)
(***************************************************************************)
EXTENDS PilotGrants, TLAPS

GrantInv == GrantTypeOK /\ OneUsePerRequest /\ OneLiveGrant /\ ConsumedOnTarget /\ MovedUnderGrant

\* At first no grant is issued and the target is where it was.
LEMMA GrantInvInit == GrantInit => GrantInv
  BY NoGrantAssumption DEF GrantInit, GrantInv, GrantTypeOK, OneUsePerRequest, OneLiveGrant,
     ConsumedOnTarget, MovedUnderGrant, Status, Unused, Live

\* Every step of a grant keeps the five promises together.
LEMMA GrantInvStep == GrantInv /\ [GrantNext]_grantVars => GrantInv'
  <1> SUFFICES ASSUME GrantInv, [GrantNext]_grantVars PROVE GrantInv'
    OBVIOUS
  <1> USE DEF GrantInv
  <1>1. CASE UNCHANGED grantVars
    BY <1>1 DEF grantVars, GrantTypeOK, OneUsePerRequest, OneLiveGrant, ConsumedOnTarget,
       MovedUnderGrant
  <1>2. CASE GrantNext
    <2> PICK a \in Grants : GrantStep(a)
      BY <1>2 DEF GrantNext
    <2> DEFINE Kept(to) == /\ status' \in [Grants -> Status]
                           /\ status'[a] = to
                           /\ \A b \in Grants : b # a => status'[b] = status[b]
    <2>1. CASE Issue(a)
      <3>1. Kept("ISSUED") /\ moved' = moved /\ status[a] = "NONE"
        BY <2>1 DEF Issue, Become, GrantTypeOK, Status
      <3>2. QED
        BY <3>1, NoGrantAssumption DEF GrantTypeOK, OneUsePerRequest, OneLiveGrant, ConsumedOnTarget,
           MovedUnderGrant, Unused, Live, Status
    <2>2. CASE Claim(a)
      <3>1. Kept("CLAIMED") /\ moved' = moved /\ status[a] = "ISSUED"
        BY <2>2 DEF Claim, Become, GrantTypeOK, Status
      <3>2. /\ \A b \in Grants : status[b] \notin Live
            /\ \A b \in Grants : RequestOf[b] = RequestOf[a] => status[b] \in Unused
        BY <2>2 DEF Claim
      <3>3. OneUsePerRequest'
        BY <3>1, <3>2 DEF OneUsePerRequest
      <3>4. OneLiveGrant'
        BY <3>1, <3>2 DEF OneLiveGrant
      <3>5. QED
        BY <3>1, <3>3, <3>4, NoGrantAssumption DEF GrantTypeOK, ConsumedOnTarget, MovedUnderGrant, Status
    <2>3. CASE Close(a)
      <3>1. Kept("CLOSED") /\ moved' = moved /\ status[a] = "CLAIMED"
        BY <2>3 DEF Close, Become, GrantTypeOK, Status
      <3>2. QED
        BY <3>1, NoGrantAssumption DEF GrantTypeOK, OneUsePerRequest, OneLiveGrant, ConsumedOnTarget,
           MovedUnderGrant, Unused, Live, Status
    <2>4. CASE Intend(a)
      <3>1. Kept("INTEGRATING") /\ moved' = moved /\ status[a] = "CLAIMED"
        BY <2>4 DEF Intend, Become, GrantTypeOK, Status
      <3>2. QED
        BY <3>1, NoGrantAssumption DEF GrantTypeOK, OneUsePerRequest, OneLiveGrant, ConsumedOnTarget,
           MovedUnderGrant, Unused, Live, Status
    <2>5. CASE Move(a)
      BY <2>5, NoGrantAssumption DEF Move, GrantTypeOK, OneUsePerRequest, OneLiveGrant,
         ConsumedOnTarget, MovedUnderGrant
    <2>6. CASE Consume(a)
      <3>1. Kept("CONSUMED") /\ moved' = moved /\ status[a] = "INTEGRATING" /\ moved = a
        BY <2>6 DEF Consume, Become, GrantTypeOK, Status
      <3>2. QED
        BY <3>1, NoGrantAssumption DEF GrantTypeOK, OneUsePerRequest, OneLiveGrant, ConsumedOnTarget,
           MovedUnderGrant, Unused, Live, Status
    <2>7. CASE Doubt(a)
      <3>1. /\ Kept("RECONCILIATION_REQUIRED") /\ moved' = moved
            /\ status[a] \in {"INTEGRATING", "CONSUMED"}
        BY <2>7 DEF Doubt, Become, GrantTypeOK, Status
      <3>2. QED
        BY <3>1, NoGrantAssumption DEF GrantTypeOK, OneUsePerRequest, OneLiveGrant, ConsumedOnTarget,
           MovedUnderGrant, Unused, Live, Status
    <2>8. QED
      BY <2>1, <2>2, <2>3, <2>4, <2>5, <2>6, <2>7 DEF GrantStep
  <1>3. QED
    BY <1>1, <1>2

LEMMA GrantInvariant == GrantSpec => []GrantInv
  BY GrantInvInit, GrantInvStep, PTL DEF GrantSpec

\* admitRealPilotRequest: however many grants are issued for a request, it is run under
\* one at most, and cycles of a real pilot never run side by side.
THEOREM GrantUse == GrantSpec => []GrantsUsedOnce
  BY GrantInvariant, PTL DEF GrantInv, GrantsUsedOnce

\* integrateRealCandidate: at most one integration is ever reported as done, its candidate
\* is the one that the target branch holds, and the target is never moved outside an
\* integration that its grant records.
THEOREM TargetMoves == GrantSpec => []TargetUnderGrant
  BY GrantInvariant, PTL DEF GrantInv, TargetUnderGrant
=============================================================================
