----------------------------- MODULE CapLedger -----------------------------
(***************************************************************************)
(* What the sweep promises about the per-asset cap, without saying how:    *)
(* every authorization has a credited total and at most one reservation.   *)
(* A reservation is made within what is left of the cap, and is then       *)
(* either settled, adding it to the total once, or released.               *)
(***************************************************************************)
EXTENDS Naturals

CONSTANTS Auths, AssetCap

VARIABLES
    credited,   \* USD micros credited to each authorization
    reserved    \* the outstanding reservation: {} or {usd}

ledgerVars == <<credited, reserved>>

LedgerInit ==
    /\ credited = [a \in Auths |-> 0]
    /\ reserved = [a \in Auths |-> {}]

ReserveWithinCap(a, usd) ==
    /\ reserved[a] = {}
    /\ credited[a] + usd <= AssetCap
    /\ reserved' = [reserved EXCEPT ![a] = {usd}]
    /\ UNCHANGED credited

Settle(a, usd) ==
    /\ usd \in reserved[a]
    /\ credited' = [credited EXCEPT ![a] = @ + usd]
    /\ reserved' = [reserved EXCEPT ![a] = {}]

Release(a) ==
    /\ reserved[a] # {}
    /\ reserved' = [reserved EXCEPT ![a] = {}]
    /\ UNCHANGED credited

LedgerNext ==
    \E a \in Auths :
        \/ \E usd \in 0 .. AssetCap : ReserveWithinCap(a, usd)
        \/ \E usd \in reserved[a] : Settle(a, usd)
        \/ Release(a)

LedgerSpec == LedgerInit /\ [][LedgerNext]_ledgerVars

LedgerTypeOK ==
    /\ credited \in [Auths -> Nat]
    /\ reserved \in [Auths -> SUBSET Nat]

\* What is credited and what is reserved stay within the cap together, so
\* settling can never take an authorization over it.
WithinCap ==
    \A a \in Auths :
        /\ credited[a] <= AssetCap
        /\ \A usd \in reserved[a] : credited[a] + usd <= AssetCap
=============================================================================
