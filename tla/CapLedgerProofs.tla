-------------------------- MODULE CapLedgerProofs --------------------------
(***************************************************************************)
(* The promise of CapLedger, for every set of authorizations and every cap. *)
(***************************************************************************)
EXTENDS CapLedger, TLAPS

LedgerInv == LedgerTypeOK /\ WithinCap

\* A reservation within the cap keeps what was credited or reserved within it.
LEMMA ReserveKeepsCap ==
    ASSUME AssetCap \in Nat, LedgerInv, NEW a \in Auths, NEW usd \in Nat,
           ReserveWithinCap(a, usd)
    PROVE  LedgerInv'
BY DEF LedgerInv, LedgerTypeOK, WithinCap, ReserveWithinCap

\* Settling credits what was within the cap already.
LEMMA SettleKeepsCap ==
    ASSUME LedgerInv, NEW a \in Auths, NEW usd \in reserved[a], Settle(a, usd)
    PROVE  LedgerInv'
<1>1. usd \in Nat /\ credited[a] + usd <= AssetCap
  BY DEF LedgerInv, LedgerTypeOK, WithinCap
<1>2. /\ credited' \in [Auths -> Nat] /\ reserved' \in [Auths -> SUBSET Nat]
      /\ credited'[a] = credited[a] + usd /\ reserved'[a] = {}
      /\ \A b \in Auths \ {a} : credited'[b] = credited[b] /\ reserved'[b] = reserved[b]
  BY <1>1 DEF LedgerInv, LedgerTypeOK, Settle
<1> QED
  BY <1>1, <1>2 DEF LedgerInv, LedgerTypeOK, WithinCap

\* Releasing only takes a reservation away.
LEMMA ReleaseKeepsCap ==
    ASSUME LedgerInv, NEW a \in Auths, Release(a)
    PROVE  LedgerInv'
BY DEF LedgerInv, LedgerTypeOK, WithinCap, Release

\* Credited and reserved value stay within the cap for ever, whatever the cap
\* and however many authorizations there are (sweepAsset.ts 24-28).
THEOREM LedgerWithinCap ==
    ASSUME AssetCap \in Nat
    PROVE  LedgerSpec => []WithinCap
<1>1. LedgerInit => LedgerInv
  BY DEF LedgerInit, LedgerInv, LedgerTypeOK, WithinCap
<1>2. LedgerInv /\ [LedgerNext]_ledgerVars => LedgerInv'
  <2> SUFFICES ASSUME LedgerInv, [LedgerNext]_ledgerVars PROVE LedgerInv'
    OBVIOUS
  <2>1. ASSUME NEW a \in Auths, NEW usd \in 0 .. AssetCap, ReserveWithinCap(a, usd)
        PROVE  LedgerInv'
    <3>1. usd \in Nat
      OBVIOUS
    <3> QED
      BY <2>1, <3>1, ReserveKeepsCap
  <2>2. ASSUME NEW a \in Auths, NEW usd \in reserved[a], Settle(a, usd)
        PROVE  LedgerInv'
    BY <2>2, SettleKeepsCap
  <2>3. ASSUME NEW a \in Auths, Release(a)
        PROVE  LedgerInv'
    BY <2>3, ReleaseKeepsCap
  <2>4. CASE UNCHANGED ledgerVars
    BY <2>4 DEF ledgerVars, LedgerInv, LedgerTypeOK, WithinCap
  <2> QED
    BY <2>1, <2>2, <2>3, <2>4 DEF LedgerNext
<1>3. LedgerInv => WithinCap
  BY DEF LedgerInv
<1> QED
  BY <1>1, <1>2, <1>3, PTL DEF LedgerSpec
=============================================================================
