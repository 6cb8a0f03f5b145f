----------------------------- MODULE UnitLedger -----------------------------
(***************************************************************************)
(* The unit ledger of one vault (packages/accounting/src/ledger.ts) and    *)
(* the fee formulas (fees.ts), driven as docs/accounting.md and the tests  *)
(* drive them: clients subscribe and redeem at the published unit price,   *)
(* the NAV engine publishes a price whenever NAV moves, and fee jobs read  *)
(* a client's entry first and burn units later.  A call that throws        *)
(* changes nothing, so it is no step.  Every amount is a natural number in *)
(* the 1e9 scale, here Scale.                                              *)
(***************************************************************************)
EXTENDS Integers, FiniteSets, Functions

CONSTANTS
    Clients,         \* client ids
    Jobs,            \* fee jobs, each with one crystallization in hand
    NoFee,           \* a job with nothing in hand
    Scale,           \* UNIT_PRICE_SCALE
    BpsDenominator,  \* BPS_DENOMINATOR
    DaysPerYear,     \* DAYS_PER_YEAR
    ManagementBps,   \* annualFeeBps
    PerformanceBps,  \* performanceFeeBps
    U128Max,         \* U128_MAX
    Deposits,        \* the deposits a client may make
    NavValues,       \* the NAVs the market may bring about
    MaxNav,          \* bound on NAV
    MaxFees          \* bound on the fees accrued

ASSUME LedgerAssumption ==
    /\ IsFiniteSet(Clients)
    /\ {Scale, BpsDenominator, DaysPerYear} \subseteq Nat \ {0}
    /\ {ManagementBps, PerformanceBps, U128Max, MaxNav, MaxFees} \subseteq Nat
    /\ Deposits \cup NavValues \subseteq Nat
    /\ Scale <= U128Max

VARIABLES
    clients,     \* #clients: the clients seen so far and their entries
    totalUnits,  \* #totalUnitsScaled
    nav,         \* net asset value, after accrued fees
    unitPrice,   \* the published unit price
    accruedFees, \* management fees credited to the operator's receivable
    pending,     \* each job's crystallization, computed and not yet applied
    basis        \* history: what a client's units may be worth at most

ledgerVars == <<clients, totalUnits, nav, unitPrice, accruedFees, pending,
                basis>>

INITIAL_UNIT_PRICE == Scale

\* assertFitsU128
FitsU128(value) == value <= U128Max

-----------------------------------------------------------------------------
(* The formulas: each multiplies first and floors once.                    *)

\* Mutant: rounds up.
unitsIssuedCeil(deposit, price) == (deposit * Scale + price - 1) \div price

unitsIssuedOnSubscribe(deposit, price) == (deposit * Scale) \div price

payoutOnRedeem(units, price) == (units * price) \div Scale

\* Mutant: rounds up.
recomputeCeil(value, units) == (value * Scale + units - 1) \div units

recomputeUnitPrice(value, units) == (value * Scale) \div units

accrueDailyManagementFee(value) ==
    (value * ManagementBps) \div (BpsDenominator * DaysPerYear)

feeValue(units, price, hwm) ==
    (units * (price - hwm) * PerformanceBps) \div (Scale * BpsDenominator)

crystallizePerformanceFee(units, price, hwm) ==
    IF price <= hwm
    THEN [burned |-> 0, hwm |-> hwm]
    ELSE [burned |-> unitsIssuedOnSubscribe(feeValue(units, price, hwm), price),
          hwm |-> price]

-----------------------------------------------------------------------------
(* A client the map does not hold has no units and the initial mark.       *)

clientUnits(c) == IF c \in DOMAIN clients THEN clients[c].units ELSE 0

clientHwm(c) ==
    IF c \in DOMAIN clients THEN clients[c].hwm ELSE INITIAL_UNIT_PRICE

SetEntry(c, units, hwm) ==
    clients' = [d \in DOMAIN clients \cup {c} |->
                  IF d = c THEN [units |-> units, hwm |-> hwm] ELSE clients[d]]

\* Mutant: the total keeps what was burned.
burnClientUnits(c, units, hwm) ==
    /\ SetEntry(c, clientUnits(c) - units, hwm)
    /\ UNCHANGED totalUnits

burnUnits(c, units, hwm) ==
    /\ SetEntry(c, clientUnits(c) - units, hwm)
    /\ totalUnits' = totalUnits - units

Init ==
    /\ clients = [c \in {} |-> [units |-> 0, hwm |-> INITIAL_UNIT_PRICE]]
    /\ totalUnits = 0
    /\ nav = 0
    /\ unitPrice = INITIAL_UNIT_PRICE
    /\ accruedFees = 0
    /\ pending = [j \in Jobs |-> NoFee]
    /\ basis = [c \in Clients |-> 0]

-----------------------------------------------------------------------------
(* Actions.                                                                *)

Subscribe(c, deposit) ==
    LET issued == unitsIssuedOnSubscribe(deposit, unitPrice)
    IN  /\ nav + deposit <= MaxNav
        /\ unitPrice > 0
        /\ FitsU128(issued)
        /\ SetEntry(c, clientUnits(c) + issued, clientHwm(c))
        /\ totalUnits' = totalUnits + issued
        /\ nav' = nav + deposit
        /\ basis' = [basis EXCEPT ![c] = @ + deposit * Scale]
        /\ UNCHANGED <<unitPrice, accruedFees, pending>>

\* Mutant: more than the client holds.
RedeemUnheld(c, units) ==
    LET payout == payoutOnRedeem(units, unitPrice)
    IN  /\ FitsU128(payout)
        /\ burnUnits(c, units, clientHwm(c))
        /\ nav' = nav - payout
        /\ basis' = [basis EXCEPT ![c] = @ - payout * Scale]
        /\ UNCHANGED <<unitPrice, accruedFees, pending>>

Redeem(c, units) ==
    LET payout == payoutOnRedeem(units, unitPrice)
    IN  /\ units <= clientUnits(c)
        /\ FitsU128(payout)
        /\ burnUnits(c, units, clientHwm(c))
        /\ nav' = nav - payout
        /\ basis' = [basis EXCEPT ![c] = @ - payout * Scale]
        /\ UNCHANGED <<unitPrice, accruedFees, pending>>

\* NAV is never published without the price that goes with it.
PublishPrice(value) ==
    /\ totalUnits > 0
    /\ FitsU128(recomputeUnitPrice(value, totalUnits))
    /\ nav' = value
    /\ unitPrice' = recomputeUnitPrice(value, totalUnits)
    /\ basis' = [c \in Clients |-> clientUnits(c) * unitPrice']

\* The positions' value moved.
PublishNav(value) ==
    /\ PublishPrice(value)
    /\ UNCHANGED <<clients, totalUnits, accruedFees, pending>>

\* The day's fee leaves NAV before the day's price is computed.
AccrueManagementFee ==
    LET fee == accrueDailyManagementFee(nav)
    IN  /\ FitsU128(fee)
        /\ fee <= nav
        /\ accruedFees + fee <= MaxFees
        /\ PublishPrice(nav - fee)
        /\ accruedFees' = accruedFees + fee
        /\ UNCHANGED <<clients, totalUnits, pending>>

\* A fee job reads the client's entry and computes what to burn.
Crystallize(j, c) ==
    /\ pending[j] = NoFee
    /\ FitsU128(feeValue(clientUnits(c), unitPrice, clientHwm(c)))
    /\ LET fee == crystallizePerformanceFee(clientUnits(c), unitPrice, clientHwm(c))
       IN  /\ fee.burned <= clientUnits(c)
           /\ pending' = [pending EXCEPT ![j] =
                            [client |-> c, burned |-> fee.burned, hwm |-> fee.hwm]]
    /\ UNCHANGED <<clients, totalUnits, nav, unitPrice, accruedFees, basis>>

\* Mutant: the mark is not compared.
BurnStaleFee(j) ==
    /\ pending[j] # NoFee
    /\ pending[j].burned <= clientUnits(pending[j].client)
    /\ burnUnits(pending[j].client, pending[j].burned, pending[j].hwm)
    /\ pending' = [pending EXCEPT ![j] = NoFee]
    /\ UNCHANGED <<nav, unitPrice, accruedFees, basis>>

\* burnUnitsForPerformanceFee, with what the job computed earlier.
BurnFee(j) ==
    /\ pending[j] # NoFee
    /\ LET fee == pending[j]
       IN  /\ fee.burned <= clientUnits(fee.client)
           /\ fee.hwm >= clientHwm(fee.client)
           /\ burnUnits(fee.client, fee.burned, fee.hwm)
    /\ pending' = [pending EXCEPT ![j] = NoFee]
    /\ UNCHANGED <<nav, unitPrice, accruedFees, basis>>

\* The call throws, or the job dies first: nothing was burned.
DropFee(j) ==
    /\ pending[j] # NoFee
    /\ pending' = [pending EXCEPT ![j] = NoFee]
    /\ UNCHANGED <<clients, totalUnits, nav, unitPrice, accruedFees, basis>>

Next ==
    \/ \E c \in Clients :
         \/ \E deposit \in Deposits : Subscribe(c, deposit)
         \/ \E units \in 0 .. totalUnits : Redeem(c, units)
         \/ \E j \in Jobs : Crystallize(j, c)
    \/ \E value \in NavValues : PublishNav(value)
    \/ AccrueManagementFee
    \/ \E j \in Jobs : BurnFee(j) \/ DropFee(j)

Spec == Init /\ [][Next]_ledgerVars

-----------------------------------------------------------------------------
(* Properties.                                                             *)

ClientEntry == [units : Nat, hwm : Nat]

\* Types: the amounts never go negative, whatever the order of the calls.
TypeOK ==
    /\ DOMAIN clients \subseteq Clients
    /\ \A c \in DOMAIN clients : clients[c] \in ClientEntry
    /\ {totalUnits, nav, unitPrice, accruedFees} \subseteq Nat
    /\ \A j \in Jobs : pending[j] = NoFee
         \/ pending[j] \in [client : Clients, burned : Nat, hwm : Nat]
    /\ basis \in [Clients -> Int]

\* Whatever the interleaving of subscriptions, redemptions and fee burns
\* computed from older readings, the clients' units sum to the total.
UnitConservation ==
    totalUnits = SumFunction([c \in Clients |-> clientUnits(c)])

\* No sequence of floored issues, payouts, fee burns and prices promises the
\* clients together more than the pool is worth (accounting.md, "Rounding
\* direction").
Solvent == totalUnits * unitPrice <= nav * Scale

\* Between two publications, no sequence of subscriptions and redemptions
\* earns a client anything: units in hand are worth at most the units at the
\* publication plus what was paid in less what was paid out.
NoValueFromRounding ==
    \A c \in Clients : clientUnits(c) * unitPrice <= basis[c]

\* A high-water mark never falls, not even when a job applies a fee computed
\* before another job raised the mark.
HwmNeverDecreases ==
    [][\A c \in Clients : clientHwm(c)' >= clientHwm(c)]_ledgerVars
=============================================================================
