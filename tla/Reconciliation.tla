--------------------------- MODULE Reconciliation ---------------------------
(***************************************************************************)
(* The reconciliation checks (packages/accounting/src/reconciliation.ts)   *)
(* run over the books of a vault whose unit ledger is UnitLedger: the      *)
(* operator's records of each deposit, redemption and fee accrual, the     *)
(* mirror of the clients' units, and the asset buckets.  A snapshot is     *)
(* what the service would pass to reconcile(); a check returns the set of  *)
(* its breaks, each named by its type and the place it is about.           *)
(***************************************************************************)
EXTENDS UnitLedger, Sequences

CONSTANTS
    Mints,          \* mints the vault may hold
    Holdings,       \* the asset buckets of a vault: a set of functions on mints
    MaxDeposits,    \* bound on the deposits recorded
    MaxRedemptions  \* bound on the redemptions recorded

\* The balances of one mint, on the ledger.
AssetBucketBalances == [managed : Nat, excess : Nat, unattributed : Nat]

ASSUME BookAssumption ==
    /\ {MaxDeposits, MaxRedemptions} \subseteq Nat
    /\ \A h \in Holdings : DOMAIN h \subseteq Mints /\ h \in [DOMAIN h -> AssetBucketBalances]

VARIABLES
    deposits,    \* what was recorded of each deposit at credit
    redemptions, \* what was recorded of each settled redemption
    accrual      \* the last management fee's record

vars == <<ledgerVars, deposits, redemptions, accrual>>

Break(type, context) == [type |-> type, context |-> context]

\* A break at each of the places where a condition holds.
BreaksAt(type, places) == {Break(type, p) : p \in places}

BreakIf(condition, type, context) ==
    BreaksAt(type, IF condition THEN {context} ELSE {})

\* Map.get(key) ?? 0
AmountAt(map, key) == IF key \in DOMAIN map THEN map[key] ELSE 0

\* Mutant: a missing key is a difference even from 0.
DifferingOrMissing(left, right) ==
    {k \in DOMAIN left \cup DOMAIN right :
       \/ k \notin DOMAIN left \cap DOMAIN right
       \/ left[k] # right[k]}

\* The keys of either map where the two maps differ.
Differing(left, right) ==
    {k \in DOMAIN left \cup DOMAIN right : AmountAt(left, k) # AmountAt(right, k)}

-----------------------------------------------------------------------------
(* The checks, in the order of reconcile().                                *)

checkUnitConservation(s) ==
    BreakIf(SumFunction(s.clientUnits) # s.totalUnits,
            "UNIT_CONSERVATION_MISMATCH", "total")

checkNavComposition(s) ==
    BreakIf(s.cash + s.positionsValue - s.liabilities - s.accruedFees # s.nav,
            "NAV_COMPOSITION_MISMATCH", "nav")

checkClientUnitBalances(s) ==
    BreaksAt("CLIENT_UNIT_BALANCE_MISMATCH", Differing(s.clientUnits, s.onchainUnits))

checkPositionBalances(s) ==
    BreaksAt("POSITION_BALANCE_MISMATCH", Differing(s.ledgerPositions, s.onchainPositions))

checkCashBalance(s) ==
    BreakIf(s.ledgerCash # s.onchainCash, "CASH_BALANCE_MISMATCH", "vault_cash")

\* Only the mints on chain are walked.
checkUnexplainedAssetBalances(s) ==
    LET Accounted(m) == IF m \notin DOMAIN s.buckets THEN 0
                        ELSE s.buckets[m].managed + s.buckets[m].excess
                               + s.buckets[m].unattributed
    IN  BreaksAt("UNEXPLAINED_ASSET_BALANCE",
                 {m \in DOMAIN s.custody : Accounted(m) # s.custody[m]})

checkExcessSegregation(s) ==
    BreaksAt("EXCESS_LEAKED_INTO_MANAGED",
             {i \in DOMAIN s.excessRecords : s.excessRecords[i].units # 0})

checkUnattributedNotCredited(s) ==
    BreaksAt("UNATTRIBUTED_FUNDS_MISUSED",
             {place \in (DOMAIN s.unattributedRecords) \X {"credited", "traded"} :
                s.unattributedRecords[place[1]][place[2]] # 0})

checkManagementFeeAccrual(s) ==
    BreakIf(accrueDailyManagementFee(s.accrual.navBefore) # s.accrual.fee,
            "FEE_ACCRUAL_MISMATCH", "fee")

checkDepositUnitsIssued(s) ==
    BreaksAt("DEPOSIT_UNITS_MISMATCH",
             {i \in DOMAIN s.deposits :
                unitsIssuedOnSubscribe(s.deposits[i].amount, s.deposits[i].price)
                  # s.deposits[i].units})

checkRedemptionPayout(s) ==
    BreaksAt("REDEMPTION_PAYOUT_MISMATCH",
             {i \in DOMAIN s.redemptions :
                payoutOnRedeem(s.redemptions[i].units, s.redemptions[i].price)
                  # s.redemptions[i].payout})

checkDustInvariant(s) ==
    BreakIf(payoutOnRedeem(s.totalUnits, s.unitPrice) > s.nav,
            "DUST_INVARIANT_VIOLATION", "pool_value")

\* Not part of reconcile(): a caller's own check right after a publication.
checkUnitPriceFreshness(s) ==
    BreakIf(recomputeUnitPrice(s.nav, s.totalUnits) # s.unitPrice,
            "NAV_COMPOSITION_MISMATCH", "unit_price")

\* Mutant: does not look for what only the ledger has.
attributionOneWay(s) ==
    LET Keys(records) == {records[i] : i \in DOMAIN records}
    IN  BreaksAt("ORPHAN_ONCHAIN_TX", Keys(s.onchainTxs) \ Keys(s.ledgerTxs))

\* A key twice in the ledger, or on one side only; twice on chain is no break.
checkTransactionAttribution(s) ==
    LET Keys(records) == {records[i] : i \in DOMAIN records}
        Twice(records) == {k \in Keys(records) :
              Cardinality({i \in DOMAIN records : records[i] = k}) > 1}
    IN  BreaksAt("DUPLICATE_TX_ATTRIBUTION", Twice(s.ledgerTxs))
          \cup BreaksAt("ORPHAN_ONCHAIN_TX", Keys(s.onchainTxs) \ Keys(s.ledgerTxs))
          \cup BreaksAt("ORPHAN_LEDGER_TX", Keys(s.ledgerTxs) \ Keys(s.onchainTxs))

Checks(s) ==
    [unitConservation       |-> checkUnitConservation(s),
     navComposition         |-> checkNavComposition(s),
     clientUnitBalances     |-> checkClientUnitBalances(s),
     positionBalances       |-> checkPositionBalances(s),
     cashBalance            |-> checkCashBalance(s),
     unexplainedAssets      |-> checkUnexplainedAssetBalances(s),
     excessRecords          |-> checkExcessSegregation(s),
     unattributedRecords    |-> checkUnattributedNotCredited(s),
     managementFeeAccrual   |-> checkManagementFeeAccrual(s),
     deposits               |-> checkDepositUnitsIssued(s),
     redemptions            |-> checkRedemptionPayout(s),
     dustInvariant          |-> checkDustInvariant(s),
     transactionAttribution |-> checkTransactionAttribution(s)]

\* Every section of the input is optional: those in omitted run no check.
reconcile(s, omitted) ==
    LET checks == Checks(s)
    IN  UNION {checks[k] : k \in DOMAIN checks \ omitted}

-----------------------------------------------------------------------------
(* The books: each ledger call is recorded in the step that makes it.      *)

BookInit ==
    /\ Init
    /\ deposits = <<>>
    /\ redemptions = <<>>
    /\ accrual = [navBefore |-> 0, fee |-> 0]

BookDeposit(c, deposit) ==
    /\ Len(deposits) < MaxDeposits
    /\ Subscribe(c, deposit)
    /\ deposits' = Append(deposits, [client |-> c, amount |-> deposit,
                       price |-> unitPrice, units |-> totalUnits' - totalUnits])
    /\ UNCHANGED <<redemptions, accrual>>

BookRedemption(c, units) ==
    /\ Len(redemptions) < MaxRedemptions
    /\ Redeem(c, units)
    /\ redemptions' = Append(redemptions, [units |-> units, price |-> unitPrice,
                                           payout |-> nav - nav'])
    /\ UNCHANGED <<deposits, accrual>>

BookAccrual ==
    /\ AccrueManagementFee
    /\ accrual' = [navBefore |-> nav, fee |-> accruedFees' - accruedFees]
    /\ UNCHANGED <<deposits, redemptions>>

\* What leaves no record among those the checks read.
Unbooked ==
    /\ \/ \E value \in NavValues : PublishNav(value)
       \/ \E j \in Jobs, c \in Clients : Crystallize(j, c)
       \/ \E j \in Jobs : BurnFee(j) \/ DropFee(j)
    /\ UNCHANGED <<deposits, redemptions, accrual>>

BookNext ==
    \/ \E c \in Clients :
         \/ \E deposit \in Deposits : BookDeposit(c, deposit)
         \/ \E units \in 1 .. totalUnits : BookRedemption(c, units)
    \/ BookAccrual
    \/ Unbooked

BookSpec == BookInit /\ [][BookNext]_vars

-----------------------------------------------------------------------------
(* Snapshots, and snapshots altered in one place.                          *)

\* The snapshot of books whose asset buckets are h, all of it held in cash
\* and in tokens; the mirror on chain lists the clients that hold units.
Snapshot(h) ==
    LET units == [c \in DOMAIN clients |-> clients[c].units]
        managed == [m \in DOMAIN h |-> h[m].managed]
        txs == [i \in DOMAIN deposits |-> i]
    IN  [clientUnits |-> units,
         onchainUnits |-> [c \in {d \in DOMAIN units : units[d] > 0} |-> units[c]],
         totalUnits |-> totalUnits, unitPrice |-> unitPrice, nav |-> nav,
         cash |-> nav + accruedFees, positionsValue |-> 0, liabilities |-> 0,
         accruedFees |-> accruedFees,
         ledgerCash |-> nav + accruedFees, onchainCash |-> nav + accruedFees,
         ledgerPositions |-> managed, onchainPositions |-> managed,
         buckets |-> h,
         custody |-> [m \in DOMAIN h |->
                        h[m].managed + h[m].excess + h[m].unattributed],
         excessRecords |-> <<[units |-> 0]>>,
         unattributedRecords |-> <<[credited |-> 0, traded |-> 0]>>,
         accrual |-> accrual, deposits |-> deposits, redemptions |-> redemptions,
         onchainTxs |-> txs, ledgerTxs |-> txs]

\* A snapshot altered in one place, the sections that must report it and
\* those that may, because they read the altered place too.
Forged(must, may, s) == [must |-> must, may |-> may, snapshot |-> s]

Forgeries(s) ==
    {Forged({"unitConservation"}, {"dustInvariant"}, [s EXCEPT !.totalUnits = @ + 1]),
     Forged({"navComposition"}, {"dustInvariant"}, [s EXCEPT !.nav = @ + 1]),
     Forged({"navComposition"}, {}, [s EXCEPT !.liabilities = 1]),
     Forged({"cashBalance"}, {}, [s EXCEPT !.ledgerCash = @ + 1]),
     Forged({"excessRecords"}, {}, [s EXCEPT !.excessRecords[1].units = 1]),
     Forged({"unattributedRecords"}, {}, [s EXCEPT !.unattributedRecords[1].traded = 1]),
     Forged({"managementFeeAccrual"}, {}, [s EXCEPT !.accrual.fee = @ + 1]),
     Forged({"transactionAttribution"}, {}, [s EXCEPT !.ledgerTxs = Append(@, 0)]),
     Forged({"transactionAttribution"}, {}, [s EXCEPT !.onchainTxs = Append(@, 0)])}
    \cup {Forged({"clientUnitBalances", "unitConservation"}, {},
                 [s EXCEPT !.clientUnits[c] = @ + 1]) : c \in DOMAIN s.clientUnits}
    \cup {Forged({"positionBalances"}, {}, [s EXCEPT !.onchainPositions[m] = @ + 1])
            : m \in DOMAIN s.onchainPositions}
    \cup {Forged({"unexplainedAssets"}, {}, [s EXCEPT !.custody[m] = @ + 1])
            : m \in DOMAIN s.custody}
    \cup {Forged({"deposits"}, {}, [s EXCEPT !.deposits[i].units = @ + 1])
            : i \in DOMAIN s.deposits}
    \cup {Forged({"redemptions"}, {}, [s EXCEPT !.redemptions[i].payout = @ + 1])
            : i \in DOMAIN s.redemptions}
    \cup {Forged({"transactionAttribution"}, {}, [s EXCEPT !.ledgerTxs = Append(@, i)])
            : i \in DOMAIN s.ledgerTxs}

-----------------------------------------------------------------------------
(* Properties.                                                             *)

\* Types of the records.
BookTypeOK ==
    /\ TypeOK
    /\ deposits \in Seq([client : Clients, amount : Deposits, price : Nat,
                         units : Nat])
    /\ redemptions \in Seq([units : Nat, price : Nat, payout : Nat])
    /\ accrual \in [navBefore : Nat, fee : Nat]

\* Books kept by the ledger's own calls never break, however prices, fees and
\* redemptions followed the recorded events ("correctly-derived values can
\* never produce this", reconciliation.ts:366-367).
NoFalseAlarm == \A h \in Holdings : reconcile(Snapshot(h), {}) = {}

\* Altering one place of the books is reported by every section that must,
\* and by none but those that read the altered place (reconciliation.test.ts,
\* "surfaces exactly that break and nothing else").  A snapshot does not hold
\* the fee jobs, so those taken while no job is under way are all there are.
ForgeriesPinpointed ==
    (\A j \in Jobs : pending[j] = NoFee) =>
    \A h \in Holdings : \A f \in Forgeries(Snapshot(h)) :
      LET checks == Checks(f.snapshot)
          reporting == {k \in DOMAIN checks : checks[k] # {}}
      IN  f.must \subseteq reporting /\ reporting \subseteq f.must \cup f.may

\* A fee in hand is for a gain since the client came in: it was computed at a
\* price above one the client subscribed at ("each is only taxed relative to
\* their own entry point", docs/accounting.md:109-110).
TaxedFromEntry ==
    \A j \in Jobs : pending[j] # NoFee /\ pending[j].burned > 0 =>
      \E i \in DOMAIN deposits : /\ deposits[i].client = pending[j].client
                                 /\ deposits[i].price < pending[j].hwm
=============================================================================
