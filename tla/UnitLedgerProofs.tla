-------------------------- MODULE UnitLedgerProofs --------------------------
(***************************************************************************)
(* The books conserve units, never promise more than the pool is worth,    *)
(* earn nobody anything by rounding, and never lower a high-water mark;    *)
(* reconcile() is silent on them and pinpoints each alteration: for every  *)
(* number of clients and jobs, every scale, rate, deposit and NAV.         *)
(***************************************************************************)
EXTENDS Reconciliation, ArithmeticProofs, SequenceTheorems

-----------------------------------------------------------------------------
(* Arithmetic: every formula of the ledger is a floored division.          *)

\* A floored division never exceeds the exact one.
LEMMA FloorDivision ==
    ASSUME NEW a \in Nat, NEW d \in Nat \ {0}
    PROVE  a \div d \in Nat /\ (a \div d) * d <= a
BY SMT

\* The product of natural numbers is one.
LEMMA ProductNat ==
    ASSUME NEW a \in Nat, NEW b \in Nat
    PROVE  a * b \in Nat
BY SMT

\* The units issued for a deposit are worth at most the deposit.
LEMMA IssuedWorth ==
    ASSUME NEW deposit \in Nat, NEW price \in Nat \ {0}
    PROVE  /\ unitsIssuedOnSubscribe(deposit, price) \in Nat
           /\ unitsIssuedOnSubscribe(deposit, price) * price <= deposit * Scale
<1>1. deposit * Scale \in Nat
  BY LedgerAssumption, ProductNat
<1> QED
  BY <1>1, FloorDivision DEF unitsIssuedOnSubscribe

\* A payout is at most what the burned units are worth.
LEMMA PayoutWorth ==
    ASSUME NEW units \in Nat, NEW price \in Nat
    PROVE  /\ payoutOnRedeem(units, price) \in Nat
           /\ payoutOnRedeem(units, price) * Scale <= units * price
<1>1. units * price \in Nat /\ Scale \in Nat \ {0}
  BY LedgerAssumption, ProductNat
<1> QED
  BY <1>1, FloorDivision DEF payoutOnRedeem

\* All units at the recomputed price are worth at most the NAV.
LEMMA PriceWorth ==
    ASSUME NEW value \in Nat, NEW units \in Nat \ {0}
    PROVE  /\ recomputeUnitPrice(value, units) \in Nat
           /\ units * recomputeUnitPrice(value, units) <= value * Scale
<1>1. value * Scale \in Nat
  BY LedgerAssumption, ProductNat
<1>2. /\ recomputeUnitPrice(value, units) \in Nat
      /\ recomputeUnitPrice(value, units) * units <= value * Scale
  BY <1>1, FloorDivision DEF recomputeUnitPrice
<1> QED
  BY <1>2, SMT

\* What a crystallization burns and the mark it sets are natural numbers.
LEMMA CrystallizedType ==
    ASSUME NEW units \in Nat, NEW price \in Nat, NEW hwm \in Nat
    PROVE  /\ crystallizePerformanceFee(units, price, hwm).burned \in Nat
           /\ crystallizePerformanceFee(units, price, hwm).hwm \in Nat
<1>1. CASE price <= hwm
  BY <1>1 DEF crystallizePerformanceFee
<1>2. CASE ~ (price <= hwm)
  <2>1. price - hwm \in Nat /\ price \in Nat \ {0}
    BY <1>2, SMT
  <2>2. units * (price - hwm) \in Nat
    BY <2>1, ProductNat
  <2>3. units * (price - hwm) * PerformanceBps \in Nat
    BY <2>2, ProductNat, LedgerAssumption
  <2>4. Scale * BpsDenominator \in Nat \ {0}
    BY LedgerAssumption, SMT
  <2>5. feeValue(units, price, hwm) \in Nat
    BY <2>3, <2>4, FloorDivision DEF feeValue
  <2> QED
    BY <1>2, <2>1, <2>5, IssuedWorth DEF crystallizePerformanceFee
<1> QED
  BY <1>1, <1>2

-----------------------------------------------------------------------------
(* The inductive invariant.  Without the sum of all clients' units the     *)
(* total and the NAV are only integers; every client's units are natural.  *)

\* Types strong enough for the arithmetic of every action.
LedgerTypes ==
    /\ clients \in [DOMAIN clients -> ClientEntry]
    /\ DOMAIN clients \subseteq Clients
    /\ totalUnits \in Int
    /\ nav \in Int
    /\ unitPrice \in Nat
    /\ accruedFees \in Int
    /\ DOMAIN pending = Jobs
    /\ \A j \in Jobs : pending[j] = NoFee
         \/ pending[j] \in [client : Clients, burned : Nat, hwm : Nat]
    /\ basis \in [Clients -> Int]

\* What every step keeps.
LedgerInv == LedgerTypes /\ Solvent /\ NoValueFromRounding

\* Units and mark of any client are natural numbers.
LEMMA ClientTypes ==
    ASSUME LedgerTypes, NEW c \in Clients
    PROVE  clientUnits(c) \in Nat /\ clientHwm(c) \in Nat
<1>1. INITIAL_UNIT_PRICE \in Nat
  BY LedgerAssumption DEF INITIAL_UNIT_PRICE
<1> QED
  BY <1>1 DEF LedgerTypes, ClientEntry, clientUnits, clientHwm

\* Setting one entry changes that client's units and mark and no other's.
LEMMA EntrySet ==
    ASSUME LedgerTypes, NEW c \in Clients, NEW units \in Nat, NEW hwm \in Nat,
           SetEntry(c, units, hwm)
    PROVE  /\ clients' \in [DOMAIN clients' -> ClientEntry]
           /\ (DOMAIN clients)' \subseteq Clients
           /\ clientUnits(c)' = units /\ clientHwm(c)' = hwm
           /\ \A d \in Clients \ {c} : /\ clientUnits(d)' = clientUnits(d)
                                       /\ clientHwm(d)' = clientHwm(d)
<1>1. clients' = [d \in DOMAIN clients \cup {c} |->
                    IF d = c THEN [units |-> units, hwm |-> hwm] ELSE clients[d]]
  BY DEF SetEntry
<1>2. DOMAIN clients' = DOMAIN clients \cup {c}
  BY <1>1
<1>3. [units |-> units, hwm |-> hwm] \in ClientEntry
  BY DEF ClientEntry
<1>4. clients' \in [DOMAIN clients' -> ClientEntry] /\ DOMAIN clients' \subseteq Clients
  BY <1>1, <1>2, <1>3 DEF LedgerTypes
<1>5. clientUnits(c)' = units /\ clientHwm(c)' = hwm
  BY <1>1, <1>2 DEF clientUnits, clientHwm
<1>6. \A d \in Clients \ {c} : clientUnits(d)' = clientUnits(d) /\ clientHwm(d)' = clientHwm(d)
  BY <1>1, <1>2 DEF clientUnits, clientHwm
<1> QED
  BY <1>4, <1>5, <1>6

\* Worth distributes over adding and burning units.
LEMMA WorthDistributes ==
    ASSUME NEW a \in Int, NEW b \in Int, NEW p \in Int
    PROVE  (a + b) * p = a * p + b * p /\ (a - b) * p = a * p - b * p
BY SMT

\* Initially nothing is held.
LEMMA LedgerInvInit == Init => LedgerInv
<1> SUFFICES ASSUME Init PROVE LedgerInv
  OBVIOUS
<1> USE DEF Init
<1>1. INITIAL_UNIT_PRICE \in Nat
  BY LedgerAssumption DEF INITIAL_UNIT_PRICE
<1>2. LedgerTypes
  BY <1>1 DEF LedgerTypes
<1>3. Solvent
  BY <1>1, LedgerAssumption, SMT DEF Solvent
<1>4. NoValueFromRounding
  <2> SUFFICES ASSUME NEW c \in Clients
               PROVE  clientUnits(c) * unitPrice <= basis[c]
    BY DEF NoValueFromRounding
  <2>1. clientUnits(c) = 0 /\ basis[c] = 0
    BY DEF clientUnits
  <2> QED
    BY <1>1, <2>1, SMT
<1> QED
  BY <1>2, <1>3, <1>4 DEF LedgerInv

\* A subscription is paid in full for what its units are worth.
LEMMA SubscribeKeeps ==
    ASSUME LedgerInv, NEW c \in Clients, NEW deposit \in Deposits,
           Subscribe(c, deposit)
    PROVE  LedgerInv'
<1> DEFINE issued == unitsIssuedOnSubscribe(deposit, unitPrice)
<1>1. LedgerTypes /\ Solvent /\ NoValueFromRounding
  BY DEF LedgerInv
<1>2. deposit \in Nat /\ Scale \in Nat \ {0}
  BY LedgerAssumption
<1>3. unitPrice \in Nat \ {0}
  BY <1>1 DEF LedgerTypes, Subscribe
<1>4. issued \in Nat /\ issued * unitPrice <= deposit * Scale
  BY <1>2, <1>3, IssuedWorth
<1>5. /\ SetEntry(c, clientUnits(c) + issued, clientHwm(c))
      /\ totalUnits' = totalUnits + issued
      /\ nav' = nav + deposit
      /\ basis' = [basis EXCEPT ![c] = @ + deposit * Scale]
      /\ UNCHANGED <<unitPrice, accruedFees, pending>>
  BY DEF Subscribe
<1> HIDE DEF issued
<1>6. clientUnits(c) \in Nat /\ clientHwm(c) \in Nat /\ clientUnits(c) + issued \in Nat
  BY <1>1, <1>4, ClientTypes
<1>7. /\ clients' \in [DOMAIN clients' -> ClientEntry]
      /\ (DOMAIN clients)' \subseteq Clients
      /\ clientUnits(c)' = clientUnits(c) + issued
      /\ \A d \in Clients \ {c} : clientUnits(d)' = clientUnits(d)
  BY <1>1, <1>5, <1>6, EntrySet
<1>8. deposit * Scale \in Nat
  BY <1>2, ProductNat
<1>9. LedgerTypes'
  BY <1>1, <1>2, <1>4, <1>5, <1>7, <1>8 DEF LedgerTypes
<1>10. Solvent'
  <2>1. (totalUnits + issued) * unitPrice = totalUnits * unitPrice + issued * unitPrice
    BY <1>1, <1>3, <1>4, WorthDistributes DEF LedgerTypes
  <2>2. (nav + deposit) * Scale = nav * Scale + deposit * Scale
    BY <1>1, <1>2, WorthDistributes DEF LedgerTypes
  <2>3. totalUnits * unitPrice <= nav * Scale
    BY <1>1 DEF Solvent
  <2> QED
    BY <1>1, <1>2, <1>3, <1>4, <1>5, <2>1, <2>2, <2>3, SMT DEF Solvent, LedgerTypes
<1>11. NoValueFromRounding'
  <2> SUFFICES ASSUME NEW d \in Clients
               PROVE  clientUnits(d)' * unitPrice' <= basis'[d]
    BY DEF NoValueFromRounding
  <2>1. clientUnits(d) * unitPrice <= basis[d] /\ basis[d] \in Int
    BY <1>1 DEF NoValueFromRounding, LedgerTypes
  <2>2. CASE d = c
    <3>1. basis'[d] = basis[d] + deposit * Scale
      BY <1>1, <1>5, <2>2 DEF LedgerTypes
    <3>2. (clientUnits(c) + issued) * unitPrice
            = clientUnits(c) * unitPrice + issued * unitPrice
      BY <1>3, <1>4, <1>6, WorthDistributes
    <3> QED
      BY <1>3, <1>4, <1>5, <1>6, <1>7, <1>8, <2>1, <2>2, <3>1, <3>2, SMT
  <2>3. CASE d # c
    BY <1>1, <1>5, <1>7, <2>1, <2>3 DEF LedgerTypes
  <2> QED
    BY <2>2, <2>3
<1> QED
  BY <1>9, <1>10, <1>11 DEF LedgerInv

\* A redemption takes out at most what the burned units are worth.
LEMMA RedeemKeeps ==
    ASSUME LedgerInv, NEW c \in Clients, NEW units \in Nat, Redeem(c, units)
    PROVE  LedgerInv'
<1> DEFINE payout == payoutOnRedeem(units, unitPrice)
<1>1. LedgerTypes /\ Solvent /\ NoValueFromRounding
  BY DEF LedgerInv
<1>2. Scale \in Nat \ {0} /\ unitPrice \in Nat
  BY <1>1, LedgerAssumption DEF LedgerTypes
<1>3. payout \in Nat /\ payout * Scale <= units * unitPrice
  BY <1>2, PayoutWorth
<1>4. /\ units <= clientUnits(c)
      /\ SetEntry(c, clientUnits(c) - units, clientHwm(c))
      /\ totalUnits' = totalUnits - units
      /\ nav' = nav - payout
      /\ basis' = [basis EXCEPT ![c] = @ - payout * Scale]
      /\ UNCHANGED <<unitPrice, accruedFees, pending>>
  BY DEF Redeem, burnUnits
<1> HIDE DEF payout
<1>5. clientUnits(c) \in Nat /\ clientHwm(c) \in Nat /\ clientUnits(c) - units \in Nat
  BY <1>1, <1>4, ClientTypes, SMT
<1>6. /\ clients' \in [DOMAIN clients' -> ClientEntry]
      /\ (DOMAIN clients)' \subseteq Clients
      /\ clientUnits(c)' = clientUnits(c) - units
      /\ \A d \in Clients \ {c} : clientUnits(d)' = clientUnits(d)
  BY <1>1, <1>4, <1>5, EntrySet
<1>7. payout * Scale \in Nat
  BY <1>2, <1>3, ProductNat
<1>8. LedgerTypes'
  BY <1>1, <1>3, <1>4, <1>6, <1>7 DEF LedgerTypes
<1>9. Solvent'
  <2>1. (totalUnits - units) * unitPrice = totalUnits * unitPrice - units * unitPrice
    BY <1>1, <1>2, WorthDistributes DEF LedgerTypes
  <2>2. (nav - payout) * Scale = nav * Scale - payout * Scale
    BY <1>1, <1>2, <1>3, WorthDistributes DEF LedgerTypes
  <2>3. totalUnits * unitPrice <= nav * Scale
    BY <1>1 DEF Solvent
  <2> QED
    BY <1>1, <1>2, <1>3, <1>4, <2>1, <2>2, <2>3, SMT DEF Solvent, LedgerTypes
<1>10. NoValueFromRounding'
  <2> SUFFICES ASSUME NEW d \in Clients
               PROVE  clientUnits(d)' * unitPrice' <= basis'[d]
    BY DEF NoValueFromRounding
  <2>1. clientUnits(d) * unitPrice <= basis[d] /\ basis[d] \in Int
    BY <1>1 DEF NoValueFromRounding, LedgerTypes
  <2>2. CASE d = c
    <3>1. basis'[d] = basis[d] - payout * Scale
      BY <1>1, <1>4, <2>2 DEF LedgerTypes
    <3>2. (clientUnits(c) - units) * unitPrice
            = clientUnits(c) * unitPrice - units * unitPrice
      BY <1>2, <1>5, WorthDistributes
    <3> QED
      BY <1>2, <1>3, <1>4, <1>5, <1>6, <1>7, <2>1, <2>2, <3>1, <3>2, SMT
  <2>3. CASE d # c
    BY <1>1, <1>4, <1>6, <2>1, <2>3 DEF LedgerTypes
  <2> QED
    BY <2>2, <2>3
<1> QED
  BY <1>8, <1>9, <1>10 DEF LedgerInv

\* A publication sets the price at most to what the pool is worth per unit.
LEMMA PublishKeeps ==
    ASSUME LedgerInv, NEW value \in Nat, PublishPrice(value),
           UNCHANGED <<clients, totalUnits, pending>>, accruedFees' \in Int
    PROVE  LedgerInv'
<1>1. LedgerTypes
  BY DEF LedgerInv
<1>2. totalUnits \in Nat \ {0}
  BY <1>1, SMT DEF PublishPrice, LedgerTypes
<1>3. /\ nav' = value
      /\ unitPrice' = recomputeUnitPrice(value, totalUnits)
      /\ basis' = [c \in Clients |-> clientUnits(c) * unitPrice']
  BY DEF PublishPrice
<1>4. unitPrice' \in Nat /\ totalUnits * unitPrice' <= value * Scale
  BY <1>2, <1>3, PriceWorth
<1>5. \A c \in Clients : /\ clientUnits(c) \in Nat
                         /\ clientUnits(c)' = clientUnits(c)
                         /\ basis'[c] = clientUnits(c) * unitPrice'
  BY <1>1, <1>3, ClientTypes DEF clientUnits
<1>6. basis' \in [Clients -> Int]
  BY <1>3, <1>4, <1>5, ProductNat
<1>7. LedgerTypes'
  BY <1>1, <1>3, <1>4, <1>6 DEF LedgerTypes
<1>8. Solvent'
  BY <1>3, <1>4 DEF Solvent
<1>9. NoValueFromRounding'
  <2> SUFFICES ASSUME NEW d \in Clients
               PROVE  clientUnits(d)' * unitPrice' <= basis'[d]
    BY DEF NoValueFromRounding
  <2>1. clientUnits(d) * unitPrice' \in Nat
    BY <1>4, <1>5, ProductNat
  <2> QED
    BY <1>5, <2>1, SMT
<1> QED
  BY <1>7, <1>8, <1>9 DEF LedgerInv

\* A fee burns units and leaves the pool's worth alone.
LEMMA BurnFeeKeeps ==
    ASSUME LedgerInv, NEW j \in Jobs, BurnFee(j)
    PROVE  LedgerInv'
<1>1. LedgerTypes /\ Solvent /\ NoValueFromRounding
  BY DEF LedgerInv
<1>2. PICK c \in Clients, burned \in Nat, hwm \in Nat :
        /\ burned <= clientUnits(c)
        /\ SetEntry(c, clientUnits(c) - burned, hwm)
        /\ totalUnits' = totalUnits - burned
  <2>1. pending[j] \in [client : Clients, burned : Nat, hwm : Nat]
    BY <1>1 DEF LedgerTypes, BurnFee
  <2> QED
    BY <2>1 DEF BurnFee, burnUnits
<1>3. /\ pending' = [pending EXCEPT ![j] = NoFee]
      /\ UNCHANGED <<nav, unitPrice, accruedFees, basis>>
  BY DEF BurnFee
<1>4. clientUnits(c) \in Nat /\ clientUnits(c) - burned \in Nat
  BY <1>1, <1>2, ClientTypes, SMT
<1>5. /\ clients' \in [DOMAIN clients' -> ClientEntry]
      /\ (DOMAIN clients)' \subseteq Clients
      /\ clientUnits(c)' = clientUnits(c) - burned
      /\ \A d \in Clients \ {c} : clientUnits(d)' = clientUnits(d)
  BY <1>1, <1>2, <1>4, EntrySet
<1>6. unitPrice \in Nat /\ burned * unitPrice \in Nat
  BY <1>1, <1>2, ProductNat DEF LedgerTypes
<1>7. LedgerTypes'
  <2>1. \A i \in Jobs : pending'[i] = NoFee
          \/ pending'[i] \in [client : Clients, burned : Nat, hwm : Nat]
    <3> SUFFICES ASSUME NEW i \in Jobs
                 PROVE  pending'[i] = NoFee
                          \/ pending'[i] \in [client : Clients, burned : Nat, hwm : Nat]
      OBVIOUS
    <3>1. pending'[i] = NoFee \/ pending'[i] = pending[i]
      BY <1>1, <1>3 DEF LedgerTypes
    <3> QED
      BY <1>1, <3>1 DEF LedgerTypes
  <2>2. /\ totalUnits' \in Int /\ nav' \in Int /\ unitPrice' \in Nat
        /\ accruedFees' \in Int /\ basis' \in [Clients -> Int]
    BY <1>1, <1>2, <1>3 DEF LedgerTypes
  <2>3. DOMAIN pending' = Jobs
    BY <1>1, <1>3 DEF LedgerTypes
  <2> QED
    BY <1>5, <2>1, <2>2, <2>3 DEF LedgerTypes
<1>8. Solvent'
  <2>1. (totalUnits - burned) * unitPrice = totalUnits * unitPrice - burned * unitPrice
    BY <1>1, <1>2, <1>6, WorthDistributes DEF LedgerTypes
  <2>2. totalUnits * unitPrice <= nav * Scale
    BY <1>1 DEF Solvent
  <2>3. totalUnits * unitPrice \in Int /\ nav * Scale \in Int
    BY <1>1, LedgerAssumption, SMT DEF LedgerTypes
  <2>4. (totalUnits - burned) * unitPrice <= nav * Scale
    BY <1>6, <2>1, <2>2, <2>3, SMT
  <2> QED
    BY <1>2, <1>3, <2>4 DEF Solvent
<1>9. NoValueFromRounding'
  <2> SUFFICES ASSUME NEW d \in Clients
               PROVE  clientUnits(d)' * unitPrice' <= basis'[d]
    BY DEF NoValueFromRounding
  <2>1. clientUnits(d) * unitPrice <= basis[d] /\ basis[d] \in Int
    BY <1>1 DEF NoValueFromRounding, LedgerTypes
  <2>2. CASE d = c
    <3>1. (clientUnits(c) - burned) * unitPrice
            = clientUnits(c) * unitPrice - burned * unitPrice
      BY <1>2, <1>4, <1>6, WorthDistributes
    <3>2. clientUnits(c) * unitPrice \in Nat
      BY <1>4, <1>6, ProductNat
    <3> QED
      BY <1>3, <1>5, <1>6, <2>1, <2>2, <3>1, <3>2, SMT
  <2>3. CASE d # c
    BY <1>3, <1>5, <2>1, <2>3
  <2> QED
    BY <2>2, <2>3
<1> QED
  BY <1>7, <1>8, <1>9 DEF LedgerInv

\* Computing or dropping a fee touches no units and no price.
LEMMA PendingKeeps ==
    ASSUME LedgerInv, NEW j \in Jobs,
           DropFee(j) \/ \E c \in Clients : Crystallize(j, c)
    PROVE  LedgerInv'
<1>1. LedgerTypes /\ Solvent /\ NoValueFromRounding
  BY DEF LedgerInv
<1>2. UNCHANGED <<clients, totalUnits, nav, unitPrice, accruedFees, basis>>
  BY DEF DropFee, Crystallize
<1>3. \A i \in Jobs : pending'[i] = NoFee
        \/ pending'[i] \in [client : Clients, burned : Nat, hwm : Nat]
  <2> SUFFICES ASSUME NEW i \in Jobs
               PROVE  pending'[i] = NoFee
                        \/ pending'[i] \in [client : Clients, burned : Nat, hwm : Nat]
    OBVIOUS
  <2>1. CASE DropFee(j)
    <3>1. pending'[i] = NoFee \/ pending'[i] = pending[i]
      BY <1>1, <2>1 DEF DropFee, LedgerTypes
    <3> QED
      BY <1>1, <3>1 DEF LedgerTypes
  <2>2. ASSUME NEW c \in Clients, Crystallize(j, c)
        PROVE  pending'[i] = NoFee
                 \/ pending'[i] \in [client : Clients, burned : Nat, hwm : Nat]
    <3> DEFINE fee == crystallizePerformanceFee(clientUnits(c), unitPrice, clientHwm(c))
               record == [client |-> c, burned |-> fee.burned, hwm |-> fee.hwm]
    <3>1. fee.burned \in Nat /\ fee.hwm \in Nat
      BY <1>1, ClientTypes, CrystallizedType DEF LedgerTypes
    <3>2. pending' = [pending EXCEPT ![j] = record]
      BY <2>2, Zenon DEF Crystallize
    <3> HIDE DEF fee
    <3>3. record \in [client : Clients, burned : Nat, hwm : Nat]
      BY <3>1
    <3> HIDE DEF record
    <3>4. pending'[i] = record \/ pending'[i] = pending[i]
      BY <1>1, <3>2 DEF LedgerTypes
    <3> QED
      BY <1>1, <3>3, <3>4 DEF LedgerTypes
  <2> QED
    BY <2>1, <2>2
<1>4. \A c \in Clients : clientUnits(c)' = clientUnits(c)
  BY <1>2 DEF clientUnits
<1>5. DOMAIN pending' = Jobs
  BY <1>1 DEF DropFee, Crystallize, LedgerTypes
<1> QED
  BY <1>1, <1>2, <1>3, <1>4, <1>5 DEF LedgerInv, LedgerTypes, Solvent, NoValueFromRounding

\* The day's fee leaves a NAV that is still a natural number.
LEMMA AccrueKeeps ==
    ASSUME LedgerInv, AccrueManagementFee
    PROVE  LedgerInv'
<1> DEFINE fee == accrueDailyManagementFee(nav)
<1>1. nav \in Int /\ accruedFees \in Int
  BY DEF LedgerInv, LedgerTypes
<1>2. fee \in Int
  <2>1. nav * ManagementBps \in Int
    BY <1>1, LedgerAssumption, SMT
  <2>2. BpsDenominator * DaysPerYear \in Nat \ {0}
    BY LedgerAssumption, SMT
  <2> QED
    BY <2>1, <2>2, SMT DEF accrueDailyManagementFee
<1>3. /\ fee <= nav /\ PublishPrice(nav - fee)
      /\ accruedFees' = accruedFees + fee
      /\ UNCHANGED <<clients, totalUnits, pending>>
  BY DEF AccrueManagementFee
<1> HIDE DEF fee
<1>4. nav - fee \in Nat /\ accruedFees' \in Int
  BY <1>1, <1>2, <1>3, SMT
<1> QED
  BY <1>3, <1>4, PublishKeeps

\* Every step of the ledger keeps the invariant.
LEMMA LedgerInvStep == LedgerInv /\ [Next]_ledgerVars => LedgerInv'
<1> SUFFICES ASSUME LedgerInv, [Next]_ledgerVars PROVE LedgerInv'
  OBVIOUS
<1>1. ASSUME NEW c \in Clients, NEW deposit \in Deposits, Subscribe(c, deposit)
      PROVE  LedgerInv'
  BY <1>1, SubscribeKeeps
<1>2. ASSUME NEW c \in Clients, NEW units \in 0 .. totalUnits, Redeem(c, units)
      PROVE  LedgerInv'
  BY <1>2, RedeemKeeps
<1>3. ASSUME NEW j \in Jobs, DropFee(j) \/ \E c \in Clients : Crystallize(j, c)
      PROVE  LedgerInv'
  BY <1>3, PendingKeeps
<1>4. ASSUME NEW value \in NavValues, PublishNav(value)
      PROVE  LedgerInv'
  <2>1. value \in Nat
    BY LedgerAssumption
  <2>2. accruedFees' \in Int
    BY <1>4 DEF PublishNav, LedgerInv, LedgerTypes
  <2> QED
    BY <1>4, <2>1, <2>2, PublishKeeps DEF PublishNav
<1>5. CASE AccrueManagementFee
  BY <1>5, AccrueKeeps
<1>6. ASSUME NEW j \in Jobs, BurnFee(j)
      PROVE  LedgerInv'
  BY <1>6, BurnFeeKeeps
<1>7. CASE UNCHANGED ledgerVars
  <2>1. \A c \in Clients : clientUnits(c)' = clientUnits(c)
    BY <1>7 DEF clientUnits, ledgerVars
  <2> QED
    BY <1>7, <2>1 DEF ledgerVars, LedgerInv, LedgerTypes, Solvent, NoValueFromRounding
<1> QED
  BY <1>1, <1>2, <1>3, <1>4, <1>5, <1>6, <1>7 DEF Next

\* A step of the books is a step of the ledger, or leaves the ledger alone.
LEMMA BookStepIsLedgerStep ==
    LedgerInv /\ [BookNext]_vars => [Next]_ledgerVars
<1> SUFFICES ASSUME LedgerInv, [BookNext]_vars PROVE [Next]_ledgerVars
  OBVIOUS
<1>1. ASSUME NEW c \in Clients, NEW deposit \in Deposits, BookDeposit(c, deposit)
      PROVE  Next
  BY <1>1 DEF BookDeposit, Next
<1>2. ASSUME NEW c \in Clients, NEW units \in 1 .. totalUnits, BookRedemption(c, units)
      PROVE  Next
  <2>1. units \in 0 .. totalUnits
    BY SMT DEF LedgerInv, LedgerTypes
  <2> QED
    BY <1>2, <2>1 DEF BookRedemption, Next
<1>3. CASE BookAccrual
  BY <1>3 DEF BookAccrual, Next
<1>4. CASE Unbooked
  BY <1>4 DEF Unbooked, Next
<1>5. CASE UNCHANGED vars
  BY <1>5 DEF vars
<1> QED
  BY <1>1, <1>2, <1>3, <1>4, <1>5 DEF BookNext

-----------------------------------------------------------------------------
(* The theorems.                                                           *)

\* The ledger keeps its invariant while the books are kept.
LEMMA BookKeepsLedgerInv == BookSpec => []LedgerInv
<1>1. BookInit => LedgerInv
  BY LedgerInvInit DEF BookInit
<1>2. LedgerInv /\ [BookNext]_vars => LedgerInv'
  BY BookStepIsLedgerStep, LedgerInvStep
<1> QED
  BY <1>1, <1>2, PTL DEF BookSpec

\* Keeping books of a ledger is using that ledger.
THEOREM BooksImplementLedger == BookSpec => Spec
<1>1. BookInit => Init
  BY DEF BookInit
<1>2. LedgerInv /\ [BookNext]_vars => [Next]_ledgerVars
  BY BookStepIsLedgerStep
<1> QED
  BY <1>1, <1>2, BookKeepsLedgerInv, PTL DEF BookSpec, Spec

\* However subscriptions, redemptions, fees and prices follow each other, the
\* units outstanding never promise more than the pool is worth.
THEOREM AlwaysSolvent == BookSpec => []Solvent
<1>1. LedgerInv => Solvent
  BY DEF LedgerInv
<1> QED
  BY <1>1, BookKeepsLedgerInv, PTL

\* No sequence of subscriptions and redemptions earns a client anything
\* between two publications.
THEOREM RoundingNeverPays == BookSpec => []NoValueFromRounding
<1>1. LedgerInv => NoValueFromRounding
  BY DEF LedgerInv
<1> QED
  BY <1>1, BookKeepsLedgerInv, PTL

\* A mark never falls, whatever older readings the jobs apply.
THEOREM MarksNeverFall == BookSpec => HwmNeverDecreases
<1>1. ASSUME LedgerInv, [Next]_ledgerVars, NEW c \in Clients
      PROVE  clientHwm(c)' >= clientHwm(c)
  <2>1. LedgerTypes
    BY <1>1 DEF LedgerInv
  <2>2. \A d \in Clients : clientUnits(d) \in Nat /\ clientHwm(d) \in Nat
    BY <2>1, ClientTypes
  <2>3. ASSUME NEW d \in Clients, NEW units \in Nat, SetEntry(d, units, clientHwm(d))
        PROVE  clientHwm(c)' >= clientHwm(c)
    BY <2>1, <2>2, <2>3, EntrySet, SMT
  <2>4. ASSUME NEW d \in Clients, NEW deposit \in Deposits, Subscribe(d, deposit)
        PROVE  clientHwm(c)' >= clientHwm(c)
    <3>1. deposit \in Nat /\ unitPrice \in Nat \ {0}
      BY <2>1, <2>4, LedgerAssumption DEF Subscribe, LedgerTypes
    <3>2. clientUnits(d) + unitsIssuedOnSubscribe(deposit, unitPrice) \in Nat
      BY <2>2, <3>1, IssuedWorth
    <3> QED
      BY <2>3, <2>4, <3>2 DEF Subscribe
  <2>5. ASSUME NEW d \in Clients, NEW units \in 0 .. totalUnits, Redeem(d, units)
        PROVE  clientHwm(c)' >= clientHwm(c)
    <3>1. clientUnits(d) - units \in Nat
      BY <2>1, <2>2, <2>5, SMT DEF Redeem, LedgerTypes
    <3> QED
      BY <2>3, <2>5, <3>1 DEF Redeem, burnUnits
  <2>6. ASSUME NEW j \in Jobs, BurnFee(j)
        PROVE  clientHwm(c)' >= clientHwm(c)
    <3>1. pending[j] \in [client : Clients, burned : Nat, hwm : Nat]
      BY <2>1, <2>6 DEF LedgerTypes, BurnFee
    <3>2. PICK d \in Clients, burned \in Nat, hwm \in Nat :
            /\ burned <= clientUnits(d) /\ hwm >= clientHwm(d)
            /\ SetEntry(d, clientUnits(d) - burned, hwm)
      BY <2>6, <3>1 DEF BurnFee, burnUnits
    <3>3. clientUnits(d) - burned \in Nat
      BY <2>2, <3>2, SMT
    <3>4. /\ clientHwm(d)' = hwm
          /\ \A e \in Clients \ {d} : clientHwm(e)' = clientHwm(e)
      BY <2>1, <3>2, <3>3, EntrySet
    <3> QED
      BY <2>2, <3>2, <3>4, SMT
  <2>7. CASE UNCHANGED clients
    <3>1. clientHwm(c)' = clientHwm(c)
      BY <2>7 DEF clientHwm
    <3> QED
      BY <2>2, <3>1, SMT
  <2> QED
    BY <1>1, <2>4, <2>5, <2>6, <2>7
       DEF Next, ledgerVars, PublishNav, AccrueManagementFee, Crystallize, DropFee
<1>2. LedgerInv /\ [Next]_ledgerVars
        => [\A c \in Clients : clientHwm(c)' >= clientHwm(c)]_ledgerVars
  BY <1>1
<1> QED
  BY <1>2, BookKeepsLedgerInv, BooksImplementLedger, PTL DEF Spec, HwmNeverDecreases

-----------------------------------------------------------------------------
(* Conservation: the total is the sum of the clients' units.               *)

\* Every client's units, as the function that is summed.
Units == [c \in Clients |-> clientUnits(c)]

\* Setting one client's units and changing the total by as much conserves.
LEMMA EntryConserves ==
    ASSUME LedgerTypes, UnitConservation, NEW c \in Clients, NEW units \in Nat,
           NEW hwm \in Nat, SetEntry(c, units, hwm),
           totalUnits' = totalUnits + (units - clientUnits(c))
    PROVE  UnitConservation'
<1>1. /\ clientUnits(c)' = units
      /\ \A d \in Clients \ {c} : clientUnits(d)' = clientUnits(d)
  BY EntrySet
<1>2. \A d \in Clients : clientUnits(d) \in Nat
  BY ClientTypes
<1>3. /\ Units'[c] = units /\ Units[c] = clientUnits(c)
      /\ \A d \in Clients : Units[d] \in Int /\ Units'[d] \in Int
      /\ \A d \in Clients \ {c} : Units'[d] = Units[d]
      /\ DOMAIN Units = Clients /\ DOMAIN Units' = Clients
  BY <1>1, <1>2 DEF Units
<1> HIDE DEF Units
<1>4. SumFunctionOnSet(Units', Clients)
        = SumFunctionOnSet(Units, Clients) + (Units'[c] - Units[c])
  BY <1>3, LedgerAssumption, SumChange
<1>5. totalUnits = SumFunctionOnSet(Units, Clients)
  BY <1>3 DEF UnitConservation, SumFunction, Units
<1>6. totalUnits' = SumFunctionOnSet(Units', Clients)
  BY <1>3, <1>4, <1>5
<1> QED
  BY <1>3, <1>6 DEF UnitConservation, SumFunction, Units

\* Who holds what is part of the total, and the total is a natural number.
LEMMA TotalBounds ==
    ASSUME LedgerTypes, UnitConservation
    PROVE  /\ totalUnits \in Nat
           /\ \A c \in Clients : clientUnits(c) <= totalUnits
<1>1. /\ \A c \in Clients : Units[c] = clientUnits(c) /\ Units[c] \in Nat
      /\ DOMAIN Units = Clients
  BY ClientTypes DEF Units
<1>2. totalUnits = SumFunctionOnSet(Units, Clients)
  BY <1>1 DEF UnitConservation, SumFunction, Units
<1> HIDE DEF Units
<1> QED
  BY <1>1, <1>2, LedgerAssumption, SumNat

\* Nobody holds anything at first.
LEMMA ConservationInit == Init => UnitConservation
<1> SUFFICES ASSUME Init PROVE UnitConservation
  OBVIOUS
<1>1. DOMAIN Units = Clients /\ \A c \in Clients : Units[c] = 0
  BY DEF Init, clientUnits, Units
<1> HIDE DEF Units
<1>2. SumFunctionOnSet(Units, Clients) = SumFunctionOnSet(Units, {})
  BY <1>1, LedgerAssumption, SumZeros
<1>3. SumFunctionOnSet(Units, Clients) = 0
  BY <1>2, SumEmpty
<1> QED
  BY <1>1, <1>3 DEF UnitConservation, SumFunction, Init, Units

\* No step of the ledger creates or loses a unit.
LEMMA ConservationStep ==
    LedgerInv /\ UnitConservation /\ [Next]_ledgerVars => UnitConservation'
<1> SUFFICES ASSUME LedgerInv, UnitConservation, [Next]_ledgerVars
             PROVE  UnitConservation'
  OBVIOUS
<1>1. LedgerTypes /\ \A c \in Clients : clientUnits(c) \in Nat /\ clientHwm(c) \in Nat
  BY ClientTypes DEF LedgerInv
<1>2. totalUnits \in Int
  BY <1>1 DEF LedgerTypes
<1>3. ASSUME NEW c \in Clients, NEW units \in Nat, NEW hwm \in Nat,
             units <= clientUnits(c), burnUnits(c, units, hwm)
      PROVE  UnitConservation'
  <2>1. clientUnits(c) - units \in Nat
        /\ totalUnits' = totalUnits + ((clientUnits(c) - units) - clientUnits(c))
    BY <1>1, <1>2, <1>3, SMT DEF burnUnits
  <2> QED
    BY <1>1, <1>3, <2>1, EntryConserves DEF burnUnits
<1>4. ASSUME NEW c \in Clients, NEW deposit \in Deposits, Subscribe(c, deposit)
      PROVE  UnitConservation'
  <2> DEFINE issued == unitsIssuedOnSubscribe(deposit, unitPrice)
  <2>1. deposit \in Nat /\ unitPrice \in Nat \ {0}
    BY <1>1, <1>4, LedgerAssumption DEF Subscribe, LedgerTypes
  <2>2. issued \in Nat
    BY <2>1, IssuedWorth
  <2>3. /\ SetEntry(c, clientUnits(c) + issued, clientHwm(c))
        /\ totalUnits' = totalUnits + issued
    BY <1>4 DEF Subscribe
  <2> HIDE DEF issued
  <2>4. clientUnits(c) + issued \in Nat
        /\ totalUnits' = totalUnits + ((clientUnits(c) + issued) - clientUnits(c))
    BY <1>1, <1>2, <2>2, <2>3, SMT
  <2> QED
    BY <1>1, <2>3, <2>4, EntryConserves
<1>5. ASSUME NEW c \in Clients, NEW units \in 0 .. totalUnits, Redeem(c, units)
      PROVE  UnitConservation'
  <2>1. units \in Nat
    BY <1>2
  <2> QED
    BY <1>1, <1>3, <1>5, <2>1 DEF Redeem
<1>6. ASSUME NEW j \in Jobs, BurnFee(j)
      PROVE  UnitConservation'
  <2>1. pending[j] \in [client : Clients, burned : Nat, hwm : Nat]
    BY <1>1, <1>6 DEF LedgerTypes, BurnFee
  <2> QED
    BY <1>3, <1>6, <2>1 DEF BurnFee
<1>7. CASE UNCHANGED <<clients, totalUnits>>
  BY <1>7 DEF UnitConservation, clientUnits
<1> QED
  BY <1>4, <1>5, <1>6, <1>7
     DEF Next, ledgerVars, PublishNav, AccrueManagementFee, Crystallize, DropFee

-----------------------------------------------------------------------------
(* The books.  NAV stays a natural number because a redemption takes out   *)
(* no more than the pool is worth, which needs both solvency and           *)
(* conservation; every record repeats the formula of the call it is of.    *)

DepositRecord == [client : Clients, amount : Deposits, price : Nat, units : Nat]
RedemptionRecord == [units : Nat, price : Nat, payout : Nat]

RecordsOK ==
    /\ deposits \in Seq(DepositRecord)
    /\ \A i \in DOMAIN deposits :
         unitsIssuedOnSubscribe(deposits[i].amount, deposits[i].price)
           = deposits[i].units
    /\ redemptions \in Seq(RedemptionRecord)
    /\ \A i \in DOMAIN redemptions :
         payoutOnRedeem(redemptions[i].units, redemptions[i].price)
           = redemptions[i].payout
    /\ accrual \in [navBefore : Nat, fee : Nat]
    /\ accrueDailyManagementFee(accrual.navBefore) = accrual.fee

BookInv ==
    /\ LedgerInv
    /\ UnitConservation
    /\ nav \in Nat /\ accruedFees \in Nat
    /\ RecordsOK

\* A fee on a natural NAV is a natural number, and on nothing it is nothing.
LEMMA FeeType ==
    ASSUME NEW value \in Nat
    PROVE  /\ accrueDailyManagementFee(value) \in Nat
           /\ accrueDailyManagementFee(0) = 0
<1>1. BpsDenominator * DaysPerYear \in Nat \ {0}
  BY LedgerAssumption, SMT
<1>2. value * ManagementBps \in Nat
  BY LedgerAssumption, ProductNat
<1>3. 0 * ManagementBps = 0
  BY LedgerAssumption
<1> DEFINE d == BpsDenominator * DaysPerYear
<1>4. d \in Nat \ {0}
  BY <1>1
<1> HIDE DEF d
<1>5. 0 \div d = 0
  BY <1>4, SMT
<1> QED
  BY <1>1, <1>2, <1>3, <1>5, FloorDivision DEF accrueDailyManagementFee, d

\* A redemption takes no more out of the pool than there is.
LEMMA PayoutWithinNav ==
    ASSUME LedgerInv, UnitConservation, nav \in Nat, NEW c \in Clients,
           NEW units \in Nat, units <= clientUnits(c)
    PROVE  /\ payoutOnRedeem(units, unitPrice) \in Nat
           /\ payoutOnRedeem(units, unitPrice) <= nav
<1> DEFINE payout == payoutOnRedeem(units, unitPrice)
<1>1. LedgerTypes /\ unitPrice \in Nat /\ Scale \in Nat \ {0}
  BY LedgerAssumption DEF LedgerInv, LedgerTypes
<1>2. payout \in Nat /\ payout * Scale <= units * unitPrice
  BY <1>1, PayoutWorth
<1>3. totalUnits \in Nat /\ clientUnits(c) \in Nat /\ units <= totalUnits
  BY <1>1, TotalBounds, ClientTypes
<1>4. units * unitPrice <= totalUnits * unitPrice
  BY <1>1, <1>3, ProductMonotone
<1>5. totalUnits * unitPrice <= nav * Scale
  BY DEF LedgerInv, Solvent
<1> HIDE DEF payout
<1>6. payout * Scale <= nav * Scale
  <2>1. /\ payout * Scale \in Nat /\ units * unitPrice \in Nat
        /\ totalUnits * unitPrice \in Nat /\ nav * Scale \in Nat
    BY <1>1, <1>2, <1>3, ProductNat
  <2> QED
    BY <1>2, <1>4, <1>5, <2>1
<1>7. payout <= nav
  BY <1>1, <1>2, <1>6, ProductReflects
<1> QED
  BY <1>2, <1>7 DEF payout

\* A record appended to a sequence of good records leaves them good.
LEMMA AppendRecord ==
    ASSUME NEW R, NEW s \in Seq(R), NEW r \in R
    PROVE  /\ Append(s, r) \in Seq(R)
           /\ DOMAIN Append(s, r) = DOMAIN s \cup {Len(s) + 1}
           /\ Append(s, r)[Len(s) + 1] = r
           /\ \A i \in DOMAIN s : i # Len(s) + 1 /\ Append(s, r)[i] = s[i]
OBVIOUS

\* A deposit's record is of the units issued for it.
LEMMA BookDepositKeeps ==
    ASSUME BookInv, NEW c \in Clients, NEW deposit \in Deposits,
           BookDeposit(c, deposit)
    PROVE  nav' \in Nat /\ accruedFees' \in Nat /\ RecordsOK'
<1> DEFINE issued == unitsIssuedOnSubscribe(deposit, unitPrice)
           r == [client |-> c, amount |-> deposit, price |-> unitPrice,
                 units |-> totalUnits' - totalUnits]
<1>1. LedgerTypes /\ RecordsOK /\ nav \in Nat /\ accruedFees \in Nat
  BY DEF BookInv, LedgerInv
<1>2. deposit \in Nat /\ unitPrice \in Nat \ {0} /\ totalUnits \in Int
  BY <1>1, LedgerAssumption DEF BookDeposit, Subscribe, LedgerTypes
<1>3. issued \in Nat
  BY <1>2, IssuedWorth
<1>4. /\ totalUnits' = totalUnits + issued /\ nav' = nav + deposit
      /\ accruedFees' = accruedFees
      /\ deposits' = Append(deposits, r)
      /\ UNCHANGED <<redemptions, accrual>>
  BY DEF BookDeposit, Subscribe
<1>5. r.units = issued /\ r.amount = deposit /\ r.price = unitPrice
      /\ r \in DepositRecord
  BY <1>2, <1>3, <1>4 DEF DepositRecord
<1>6. unitsIssuedOnSubscribe(r.amount, r.price) = r.units
  BY <1>5
<1> HIDE DEF r, issued
<1>7. deposits \in Seq(DepositRecord)
  BY <1>1 DEF RecordsOK
<1>8. /\ deposits' \in Seq(DepositRecord)
      /\ \A i \in DOMAIN deposits' : deposits'[i] = r
           \/ (i \in DOMAIN deposits /\ deposits'[i] = deposits[i])
  <2>1. /\ Append(deposits, r) \in Seq(DepositRecord)
        /\ DOMAIN Append(deposits, r) = DOMAIN deposits \cup {Len(deposits) + 1}
        /\ Append(deposits, r)[Len(deposits) + 1] = r
        /\ \A i \in DOMAIN deposits : Append(deposits, r)[i] = deposits[i]
    BY <1>5, <1>7, AppendRecord
  <2> QED
    BY <1>4, <2>1
<1>9. \A i \in DOMAIN deposits' :
        unitsIssuedOnSubscribe(deposits'[i].amount, deposits'[i].price)
          = deposits'[i].units
  BY <1>1, <1>6, <1>8 DEF RecordsOK
<1>10. RecordsOK'
  BY <1>1, <1>4, <1>8, <1>9 DEF RecordsOK, unitsIssuedOnSubscribe, payoutOnRedeem,
       accrueDailyManagementFee
<1> QED
  BY <1>1, <1>2, <1>4, <1>10

\* A redemption's record is of what was paid out for it.
LEMMA BookRedemptionKeeps ==
    ASSUME BookInv, NEW c \in Clients, NEW units \in Nat, BookRedemption(c, units)
    PROVE  nav' \in Nat /\ accruedFees' \in Nat /\ RecordsOK'
<1> DEFINE payout == payoutOnRedeem(units, unitPrice)
           r == [units |-> units, price |-> unitPrice, payout |-> nav - nav']
<1>1. LedgerTypes /\ RecordsOK /\ nav \in Nat /\ accruedFees \in Nat
  BY DEF BookInv, LedgerInv
<1>2. unitPrice \in Nat /\ units <= clientUnits(c)
  BY <1>1 DEF BookRedemption, Redeem, LedgerTypes
<1>3. payout \in Nat /\ payout <= nav
  BY <1>1, <1>2, PayoutWithinNav DEF BookInv
<1>4. /\ nav' = nav - payout /\ accruedFees' = accruedFees
      /\ redemptions' = Append(redemptions, r)
      /\ UNCHANGED <<deposits, accrual>>
  BY DEF BookRedemption, Redeem
<1>5. r.payout = payout /\ r.units = units /\ r.price = unitPrice
      /\ r \in RedemptionRecord
  BY <1>1, <1>2, <1>3, <1>4 DEF RedemptionRecord
<1>6. payoutOnRedeem(r.units, r.price) = r.payout
  BY <1>5
<1> HIDE DEF r, payout
<1>7. redemptions \in Seq(RedemptionRecord)
  BY <1>1 DEF RecordsOK
<1>8. /\ redemptions' \in Seq(RedemptionRecord)
      /\ \A i \in DOMAIN redemptions' : redemptions'[i] = r
           \/ (i \in DOMAIN redemptions /\ redemptions'[i] = redemptions[i])
  <2>1. /\ Append(redemptions, r) \in Seq(RedemptionRecord)
        /\ DOMAIN Append(redemptions, r) = DOMAIN redemptions \cup {Len(redemptions) + 1}
        /\ Append(redemptions, r)[Len(redemptions) + 1] = r
        /\ \A i \in DOMAIN redemptions : Append(redemptions, r)[i] = redemptions[i]
    BY <1>5, <1>7, AppendRecord
  <2> QED
    BY <1>4, <2>1
<1>9. \A i \in DOMAIN redemptions' :
        payoutOnRedeem(redemptions'[i].units, redemptions'[i].price)
          = redemptions'[i].payout
  BY <1>1, <1>6, <1>8 DEF RecordsOK
<1>10. RecordsOK'
  BY <1>1, <1>4, <1>8, <1>9 DEF RecordsOK, unitsIssuedOnSubscribe, payoutOnRedeem,
       accrueDailyManagementFee
<1> QED
  BY <1>1, <1>3, <1>4, <1>10

\* An accrual's record is of the fee that left NAV.
LEMMA BookAccrualKeeps ==
    ASSUME BookInv, BookAccrual
    PROVE  nav' \in Nat /\ accruedFees' \in Nat /\ RecordsOK'
<1> DEFINE fee == accrueDailyManagementFee(nav)
<1>1. LedgerTypes /\ RecordsOK /\ nav \in Nat /\ accruedFees \in Nat
  BY DEF BookInv, LedgerInv
<1>2. fee \in Nat
  BY <1>1, FeeType
<1>3. /\ fee <= nav /\ nav' = nav - fee /\ accruedFees' = accruedFees + fee
      /\ accrual' = [navBefore |-> nav, fee |-> accruedFees' - accruedFees]
      /\ UNCHANGED <<deposits, redemptions>>
  BY DEF BookAccrual, AccrueManagementFee, PublishPrice
<1>4. /\ accrual'.navBefore = nav /\ accrual'.fee = fee
      /\ accrual' \in [navBefore : Nat, fee : Nat]
  <2> HIDE DEF fee
  <2>1. accruedFees' - accruedFees = fee
    BY <1>1, <1>2, <1>3
  <2> QED
    BY <1>1, <1>2, <1>3, <2>1
<1>5. accrueDailyManagementFee(accrual'.navBefore) = accrual'.fee
  BY <1>4
<1> HIDE DEF fee
<1>6. RecordsOK'
  BY <1>1, <1>3, <1>4, <1>5 DEF RecordsOK, unitsIssuedOnSubscribe, payoutOnRedeem,
       accrueDailyManagementFee
<1> QED
  BY <1>1, <1>2, <1>3, <1>6

\* Every step of the books keeps what is said of them.
LEMMA BookInvStep == BookInv /\ [BookNext]_vars => BookInv'
<1> SUFFICES ASSUME BookInv, [BookNext]_vars PROVE BookInv'
  OBVIOUS
<1>1. LedgerInv' /\ UnitConservation'
  BY BookStepIsLedgerStep, LedgerInvStep, ConservationStep DEF BookInv
<1>2. nav' \in Nat /\ accruedFees' \in Nat /\ RecordsOK'
  <2>1. ASSUME NEW c \in Clients, NEW deposit \in Deposits, BookDeposit(c, deposit)
        PROVE  nav' \in Nat /\ accruedFees' \in Nat /\ RecordsOK'
    BY <2>1, BookDepositKeeps
  <2>2. ASSUME NEW c \in Clients, NEW units \in 1 .. totalUnits, BookRedemption(c, units)
        PROVE  nav' \in Nat /\ accruedFees' \in Nat /\ RecordsOK'
    <3>1. units \in Nat
      BY SMT DEF BookInv, LedgerInv, LedgerTypes
    <3> QED
      BY <2>2, <3>1, BookRedemptionKeeps
  <2>3. CASE BookAccrual
    BY <2>3, BookAccrualKeeps
  <2>4. CASE Unbooked
    <3>1. nav' \in Nat /\ accruedFees' \in Nat
      BY <2>4, LedgerAssumption
         DEF Unbooked, PublishNav, PublishPrice, Crystallize, BurnFee, DropFee, BookInv
    <3>2. UNCHANGED <<deposits, redemptions, accrual>>
      BY <2>4 DEF Unbooked
    <3> QED
      BY <3>1, <3>2 DEF BookInv, RecordsOK, unitsIssuedOnSubscribe, payoutOnRedeem,
           accrueDailyManagementFee
  <2>5. CASE UNCHANGED vars
    BY <2>5 DEF vars, ledgerVars, BookInv, RecordsOK, unitsIssuedOnSubscribe,
         payoutOnRedeem, accrueDailyManagementFee
  <2> QED
    BY <2>1, <2>2, <2>3, <2>4, <2>5 DEF BookNext
<1> QED
  BY <1>1, <1>2 DEF BookInv

\* What is said of the books holds for ever.
LEMMA BooksKeepInv == BookSpec => []BookInv
<1>1. BookInit => BookInv
  <2> SUFFICES ASSUME BookInit PROVE BookInv
    OBVIOUS
  <2>1. LedgerInv /\ UnitConservation
    BY LedgerInvInit, ConservationInit DEF BookInit
  <2>2. nav \in Nat /\ accruedFees \in Nat
    BY DEF BookInit, Init
  <2>3. accrueDailyManagementFee(0) = 0
    BY FeeType
  <2>4. RecordsOK
    BY <2>3 DEF BookInit, RecordsOK
  <2> QED
    BY <2>1, <2>2, <2>4 DEF BookInv
<1> QED
  BY <1>1, BookInvStep, PTL DEF BookSpec

\* The amounts of the ledger never go negative, and every record is well
\* formed, for any number of clients, deposits and redemptions.
THEOREM BookTypeCorrect == BookSpec => []BookTypeOK
<1>1. BookInv => BookTypeOK
  <2> SUFFICES ASSUME BookInv PROVE BookTypeOK
    OBVIOUS
  <2>1. LedgerTypes /\ totalUnits \in Nat /\ nav \in Nat /\ accruedFees \in Nat
    BY TotalBounds DEF BookInv, LedgerInv
  <2>2. TypeOK
    BY <2>1 DEF LedgerTypes, TypeOK
  <2> QED
    BY <2>2 DEF BookTypeOK, BookInv, RecordsOK, DepositRecord, RedemptionRecord
<1> QED
  BY <1>1, BooksKeepInv, PTL

\* The total is the sum of the clients' units, however fees computed from
\* older readings are burned among subscriptions and redemptions.
THEOREM UnitsConserved == BookSpec => []UnitConservation
<1>1. BookInv => UnitConservation
  BY DEF BookInv
<1> QED
  BY <1>1, BooksKeepInv, PTL

-----------------------------------------------------------------------------
(* Honest books raise no alarm: each check of a snapshot compares two      *)
(* figures that the invariant makes equal.                                 *)

\* The snapshot's fields that the checks compare.
LEMMA SnapshotFields ==
    ASSUME NEW h
    PROVE  LET s == Snapshot(h)
               units == [c \in DOMAIN clients |-> clients[c].units]
           IN  /\ s.clientUnits = units
               /\ s.onchainUnits
                    = [c \in {d \in DOMAIN units : units[d] > 0} |-> units[c]]
               /\ s.totalUnits = totalUnits /\ s.unitPrice = unitPrice /\ s.nav = nav
               /\ s.cash = nav + accruedFees /\ s.positionsValue = 0
               /\ s.liabilities = 0 /\ s.accruedFees = accruedFees
               /\ s.ledgerCash = s.onchainCash
               /\ s.ledgerPositions = s.onchainPositions
               /\ s.buckets = h
               /\ s.custody = [m \in DOMAIN h |->
                                 h[m].managed + h[m].excess + h[m].unattributed]
               /\ s.excessRecords = <<[units |-> 0]>>
               /\ s.unattributedRecords = <<[credited |-> 0, traded |-> 0]>>
               /\ s.accrual = accrual /\ s.deposits = deposits
               /\ s.redemptions = redemptions
               /\ s.ledgerTxs = [i \in DOMAIN deposits |-> i]
               /\ s.onchainTxs = [i \in DOMAIN deposits |-> i]
BY DEF Snapshot

\* No break where the condition does not hold.
LEMMA NoBreak ==
    ASSUME NEW type, NEW context
    PROVE  BreaksAt(type, {}) = {} /\ BreakIf(FALSE, type, context) = {}
BY DEF BreakIf, BreaksAt

\* The units listed add up to the total; who is not listed holds none.
LEMMA ListedUnitsSum ==
    ASSUME LedgerTypes, UnitConservation
    PROVE  SumFunction([c \in DOMAIN clients |-> clients[c].units]) = totalUnits
<1> DEFINE units == [c \in DOMAIN clients |-> clients[c].units]
<1>1. /\ DOMAIN clients \in SUBSET Clients /\ IsFiniteSet(Clients)
      /\ IsFiniteSet(DOMAIN clients)
  BY LedgerAssumption, FS_Subset DEF LedgerTypes
<1>2. /\ \A c \in DOMAIN clients : units[c] = Units[c]
      /\ \A c \in Clients : Units[c] \in Int
      /\ \A c \in Clients \ DOMAIN clients : Units[c] = 0
      /\ DOMAIN units = DOMAIN clients /\ DOMAIN Units = Clients
  BY <1>1, ClientTypes DEF Units, clientUnits
<1>3. totalUnits = SumFunctionOnSet(Units, Clients)
  BY <1>2 DEF UnitConservation, SumFunction, Units
<1> HIDE DEF Units, units
<1>4. SumFunctionOnSet(units, DOMAIN clients) = SumFunctionOnSet(Units, DOMAIN clients)
  BY <1>1, <1>2, SumAgree
<1>5. SumFunctionOnSet(Units, Clients) = SumFunctionOnSet(Units, DOMAIN clients)
  BY <1>1, <1>2, SumZeros
<1>6. SumFunction(units) = SumFunctionOnSet(units, DOMAIN clients)
  BY <1>2 DEF SumFunction
<1> QED
  BY <1>3, <1>4, <1>5, <1>6 DEF units

\* The checks of money and units find nothing.
LEMMA AmountsAgree ==
    ASSUME BookInv, NEW h
    PROVE  /\ checkUnitConservation(Snapshot(h)) = {}
           /\ checkNavComposition(Snapshot(h)) = {}
           /\ checkClientUnitBalances(Snapshot(h)) = {}
           /\ checkPositionBalances(Snapshot(h)) = {}
           /\ checkCashBalance(Snapshot(h)) = {}
           /\ checkDustInvariant(Snapshot(h)) = {}
<1> DEFINE s == Snapshot(h)
           units == [c \in DOMAIN clients |-> clients[c].units]
<1>1. /\ LedgerTypes /\ UnitConservation /\ Solvent
      /\ nav \in Nat /\ accruedFees \in Nat
  BY DEF BookInv, LedgerInv
<1>2. /\ s.clientUnits = units
      /\ s.onchainUnits = [c \in {d \in DOMAIN units : units[d] > 0} |-> units[c]]
      /\ s.totalUnits = totalUnits /\ s.unitPrice = unitPrice /\ s.nav = nav
      /\ s.cash = nav + accruedFees /\ s.positionsValue = 0
      /\ s.liabilities = 0 /\ s.accruedFees = accruedFees
      /\ s.ledgerCash = s.onchainCash
      /\ s.ledgerPositions = s.onchainPositions
  BY SnapshotFields
<1> HIDE DEF s
<1>3. checkUnitConservation(s) = {}
  BY <1>1, <1>2, ListedUnitsSum, NoBreak DEF checkUnitConservation
<1>4. checkNavComposition(s) = {}
  <2>1. s.cash + s.positionsValue - s.liabilities - s.accruedFees = s.nav
    BY <1>1, <1>2
  <2> QED
    BY <2>1, NoBreak DEF checkNavComposition
<1>5. checkClientUnitBalances(s) = {}
  <2>1. \A c \in DOMAIN units : units[c] \in Nat
    BY <1>1 DEF LedgerTypes, ClientEntry
  <2> HIDE DEF units
  <2>2. Differing(s.clientUnits, s.onchainUnits) = {}
    <3> SUFFICES ASSUME NEW c \in DOMAIN s.clientUnits \cup DOMAIN s.onchainUnits
                 PROVE  AmountAt(s.clientUnits, c) = AmountAt(s.onchainUnits, c)
      BY DEF Differing
    <3>1. c \in DOMAIN units
      BY <1>2
    <3>2. CASE units[c] > 0
      BY <1>2, <3>1, <3>2 DEF AmountAt
    <3>3. CASE units[c] = 0
      BY <1>2, <3>1, <3>3 DEF AmountAt
    <3> QED
      BY <2>1, <3>1, <3>2, <3>3
  <2> QED
    BY <2>2, NoBreak DEF checkClientUnitBalances
<1>6. checkPositionBalances(s) = {}
  BY <1>2, NoBreak DEF checkPositionBalances, Differing
<1>7. checkCashBalance(s) = {}
  BY <1>2, NoBreak DEF checkCashBalance
<1>8. checkDustInvariant(s) = {}
  <2> DEFINE value == payoutOnRedeem(totalUnits, unitPrice)
  <2>1. totalUnits \in Nat /\ unitPrice \in Nat /\ Scale \in Nat \ {0}
    BY <1>1, TotalBounds, LedgerAssumption DEF LedgerTypes
  <2>2. value \in Nat /\ value * Scale <= totalUnits * unitPrice
    BY <2>1, PayoutWorth
  <2>3. totalUnits * unitPrice <= nav * Scale
    BY <1>1 DEF Solvent
  <2> HIDE DEF value
  <2>4. value * Scale \in Nat /\ totalUnits * unitPrice \in Nat /\ nav * Scale \in Nat
    BY <1>1, <2>1, <2>2, ProductNat
  <2>5. value * Scale <= nav * Scale
    BY <2>2, <2>3, <2>4
  <2>6. value <= nav
    BY <1>1, <2>1, <2>2, <2>5, ProductReflects
  <2>7. ~ (payoutOnRedeem(s.totalUnits, s.unitPrice) > s.nav)
    BY <1>1, <1>2, <2>2, <2>6 DEF value
  <2>8. checkDustInvariant(s)
          = BreakIf(payoutOnRedeem(s.totalUnits, s.unitPrice) > s.nav,
                    "DUST_INVARIANT_VIOLATION", "pool_value")
    BY DEF checkDustInvariant
  <2> QED
    BY <2>7, <2>8 DEF BreakIf, BreaksAt
<1> QED
  BY <1>3, <1>4, <1>5, <1>6, <1>7, <1>8 DEF s

\* The checks of records and custody find nothing.
LEMMA RecordsAgree ==
    ASSUME BookInv, NEW h
    PROVE  /\ checkUnexplainedAssetBalances(Snapshot(h)) = {}
           /\ checkExcessSegregation(Snapshot(h)) = {}
           /\ checkUnattributedNotCredited(Snapshot(h)) = {}
           /\ checkManagementFeeAccrual(Snapshot(h)) = {}
           /\ checkDepositUnitsIssued(Snapshot(h)) = {}
           /\ checkRedemptionPayout(Snapshot(h)) = {}
           /\ checkTransactionAttribution(Snapshot(h)) = {}
<1> DEFINE s == Snapshot(h)
<1>1. RecordsOK
  BY DEF BookInv
<1>2. /\ s.buckets = h
      /\ s.custody = [m \in DOMAIN h |->
                        h[m].managed + h[m].excess + h[m].unattributed]
      /\ s.excessRecords = <<[units |-> 0]>>
      /\ s.unattributedRecords = <<[credited |-> 0, traded |-> 0]>>
      /\ s.accrual = accrual /\ s.deposits = deposits
      /\ s.redemptions = redemptions
      /\ s.ledgerTxs = [i \in DOMAIN deposits |-> i]
      /\ s.onchainTxs = [i \in DOMAIN deposits |-> i]
  BY SnapshotFields
<1> HIDE DEF s
<1>3. checkUnexplainedAssetBalances(s) = {}
  BY <1>2, NoBreak DEF checkUnexplainedAssetBalances
<1>4. checkExcessSegregation(s) = {}
  <2>1. \A i \in DOMAIN s.excessRecords : s.excessRecords[i].units = 0
    BY <1>2
  <2> QED
    BY <2>1, NoBreak DEF checkExcessSegregation
<1>5. checkUnattributedNotCredited(s) = {}
  <2>1. \A i \in DOMAIN s.unattributedRecords :
          /\ s.unattributedRecords[i]["credited"] = 0
          /\ s.unattributedRecords[i]["traded"] = 0
    BY <1>2
  <2>2. {place \in (DOMAIN s.unattributedRecords) \X {"credited", "traded"} :
           s.unattributedRecords[place[1]][place[2]] # 0} = {}
    BY <2>1
  <2> QED
    BY <2>2, NoBreak DEF checkUnattributedNotCredited
<1>6. checkManagementFeeAccrual(s) = {}
  BY <1>1, <1>2, NoBreak DEF checkManagementFeeAccrual, RecordsOK
<1>7. checkDepositUnitsIssued(s) = {}
  BY <1>1, <1>2, NoBreak DEF checkDepositUnitsIssued, RecordsOK
<1>8. checkRedemptionPayout(s) = {}
  BY <1>1, <1>2, NoBreak DEF checkRedemptionPayout, RecordsOK
<1>9. checkTransactionAttribution(s) = {}
  <2> DEFINE txs == [i \in DOMAIN deposits |-> i]
             Keys(records) == {records[i] : i \in DOMAIN records}
             Twice(records) == {k \in Keys(records) :
               Cardinality({i \in DOMAIN records : records[i] = k}) > 1}
  <2>1. ASSUME NEW k \in Keys(txs)
        PROVE  ~ (Cardinality({i \in DOMAIN txs : txs[i] = k}) > 1)
    <3>1. {i \in DOMAIN txs : txs[i] = k} = {k}
      OBVIOUS
    <3>2. Cardinality({k}) = 1
      BY FS_Singleton
    <3>3. Cardinality({i \in DOMAIN txs : txs[i] = k}) = 1
      BY <3>1, <3>2
    <3> HIDE DEF txs
    <3> QED
      BY <3>3
  <2>2. Twice(txs) = {}
    BY <2>1
  <2> HIDE DEF txs
  <2>3. s.ledgerTxs = txs /\ s.onchainTxs = txs
    BY <1>2 DEF txs
  <2>4. Keys(txs) \ Keys(txs) = {}
    OBVIOUS
  <2>5. checkTransactionAttribution(s)
          = BreaksAt("DUPLICATE_TX_ATTRIBUTION", Twice(txs))
              \cup BreaksAt("ORPHAN_ONCHAIN_TX", Keys(txs) \ Keys(txs))
              \cup BreaksAt("ORPHAN_LEDGER_TX", Keys(txs) \ Keys(txs))
    BY <2>3 DEF checkTransactionAttribution
  <2> HIDE DEF Twice, Keys
  <2> QED
    BY <2>2, <2>4, <2>5, NoBreak
<1> QED
  BY <1>3, <1>4, <1>5, <1>6, <1>7, <1>8, <1>9 DEF s

\* Books kept by the ledger's own calls never break, whatever the clients,
\* prices and fees, and whichever sections the caller leaves out.
THEOREM BooksNeverAlarm == BookSpec => []NoFalseAlarm
<1>1. BookInv => NoFalseAlarm
  <2> SUFFICES ASSUME BookInv, NEW h \in Holdings
               PROVE  reconcile(Snapshot(h), {}) = {}
    BY DEF NoFalseAlarm
  <2> DEFINE checks == Checks(Snapshot(h))
  <2>1. \A k \in DOMAIN checks : checks[k] = {}
    BY AmountsAgree, RecordsAgree DEF Checks
  <2> HIDE DEF checks
  <2> QED
    BY <2>1 DEF reconcile, checks
<1> QED
  BY <1>1, BooksKeepInv, PTL

-----------------------------------------------------------------------------
(* Altered books: a section that reads nothing altered stays silent, and   *)
(* the one that guards what was altered reports it.                        *)

Fields ==
    {"clientUnits", "onchainUnits", "totalUnits", "unitPrice", "nav", "cash",
     "positionsValue", "liabilities", "accruedFees", "ledgerCash", "onchainCash",
     "ledgerPositions", "onchainPositions", "buckets", "custody", "excessRecords",
     "unattributedRecords", "accrual", "deposits", "redemptions", "onchainTxs",
     "ledgerTxs"}

\* What each section of reconcile() reads.
ReadBy ==
    [unitConservation       |-> {"clientUnits", "totalUnits"},
     navComposition         |-> {"cash", "positionsValue", "liabilities", "accruedFees", "nav"},
     clientUnitBalances     |-> {"clientUnits", "onchainUnits"},
     positionBalances       |-> {"ledgerPositions", "onchainPositions"},
     cashBalance            |-> {"ledgerCash", "onchainCash"},
     unexplainedAssets      |-> {"buckets", "custody"},
     excessRecords          |-> {"excessRecords"},
     unattributedRecords    |-> {"unattributedRecords"},
     managementFeeAccrual   |-> {"accrual"},
     deposits               |-> {"deposits"},
     redemptions            |-> {"redemptions"},
     dustInvariant          |-> {"totalUnits", "unitPrice", "nav"},
     transactionAttribution |-> {"ledgerTxs", "onchainTxs"}]

Sections ==
    {"unitConservation", "navComposition", "clientUnitBalances", "positionBalances",
     "cashBalance", "unexplainedAssets", "excessRecords", "unattributedRecords",
     "managementFeeAccrual", "deposits", "redemptions", "dustInvariant",
     "transactionAttribution"}

Reporting(s) == {k \in DOMAIN Checks(s) : Checks(s)[k] # {}}

Altered(s, field, value) == [s EXCEPT ![field] = value]

Pinpointed(f) ==
    f.must \subseteq Reporting(f.snapshot) /\ Reporting(f.snapshot) \subseteq f.must \cup f.may

\* A section depends on the fields it reads.
LEMMA SectionReads ==
    ASSUME NEW s, NEW t, NEW k \in Sections, \A f \in ReadBy[k] : t[f] = s[f]
    PROVE  Checks(t)[k] = Checks(s)[k]
<1>1. CASE k = "unitConservation"
  BY <1>1 DEF ReadBy, Checks, checkUnitConservation
<1>2. CASE k = "navComposition"
  BY <1>2 DEF ReadBy, Checks, checkNavComposition
<1>3. CASE k = "clientUnitBalances"
  BY <1>3 DEF ReadBy, Checks, checkClientUnitBalances
<1>4. CASE k = "positionBalances"
  BY <1>4 DEF ReadBy, Checks, checkPositionBalances
<1>5. CASE k = "cashBalance"
  BY <1>5 DEF ReadBy, Checks, checkCashBalance
<1>6. CASE k = "unexplainedAssets"
  BY <1>6 DEF ReadBy, Checks, checkUnexplainedAssetBalances
<1>7. CASE k = "excessRecords"
  BY <1>7 DEF ReadBy, Checks, checkExcessSegregation
<1>8. CASE k = "unattributedRecords"
  BY <1>8 DEF ReadBy, Checks, checkUnattributedNotCredited
<1>9. CASE k = "managementFeeAccrual"
  BY <1>9 DEF ReadBy, Checks, checkManagementFeeAccrual
<1>10. CASE k = "deposits"
  BY <1>10 DEF ReadBy, Checks, checkDepositUnitsIssued
<1>11. CASE k = "redemptions"
  BY <1>11 DEF ReadBy, Checks, checkRedemptionPayout
<1>12. CASE k = "dustInvariant"
  BY <1>12 DEF ReadBy, Checks, checkDustInvariant
<1>13. CASE k = "transactionAttribution"
  BY <1>13 DEF ReadBy, Checks, checkTransactionAttribution
<1> QED
  BY <1>1, <1>2, <1>3, <1>4, <1>5, <1>6, <1>7, <1>8, <1>9, <1>10, <1>11, <1>12, <1>13
     DEF Sections

\* The sections, and no others, are what reconcile() runs.
LEMMA SectionsRun ==
    ASSUME NEW s
    PROVE  DOMAIN Checks(s) = Sections
BY DEF Checks, Sections

\* Of true books every section is silent.
LEMMA SectionsSilent ==
    ASSUME BookInv, NEW h, NEW k \in Sections
    PROVE  Checks(Snapshot(h))[k] = {}
BY AmountsAgree, RecordsAgree DEF Checks, Sections

\* One field is altered, and the others are the snapshot's.
LEMMA AlteredFields ==
    ASSUME NEW h, NEW field \in Fields, NEW value
    PROVE  /\ Altered(Snapshot(h), field, value)[field] = value
           /\ \A f \in Fields \ {field} :
                Altered(Snapshot(h), field, value)[f] = Snapshot(h)[f]
<1> DEFINE s == Snapshot(h)
<1>1. DOMAIN s = Fields
  BY DEF Snapshot, Fields
<1>2. Altered(s, field, value) = [f \in DOMAIN s |-> IF f = field THEN value ELSE s[f]]
  BY DEF Altered
<1> HIDE DEF s
<1>3. \A f \in Fields : Altered(s, field, value)[f] = IF f = field THEN value ELSE s[f]
  BY <1>1, <1>2
<1> QED
  BY <1>3 DEF s

\* If those that must report do, and those that read the field may, the
\* alteration is pinpointed.
LEMMA ReportedIsPinpointed ==
    ASSUME BookInv, NEW h, NEW field \in Fields, NEW value, NEW must \in SUBSET Sections,
           NEW may,
           \A k \in Sections : field \in ReadBy[k] => k \in must \cup may,
           \A k \in must : Checks(Altered(Snapshot(h), field, value))[k] # {}
    PROVE  Pinpointed(Forged(must, may, Altered(Snapshot(h), field, value)))
<1> DEFINE t == Altered(Snapshot(h), field, value)
<1>1. DOMAIN Checks(t) = Sections
  BY SectionsRun
<1>2. must \subseteq Reporting(t)
  BY <1>1 DEF Reporting
<1>3. ASSUME NEW k \in Sections, field \notin ReadBy[k]
      PROVE  Checks(t)[k] = {}
  <2>1. ReadBy[k] \subseteq Fields
    BY DEF Sections, Fields, ReadBy
  <2>2. \A f \in ReadBy[k] : t[f] = Snapshot(h)[f]
    <3>1. \A f \in Fields \ {field} : t[f] = Snapshot(h)[f]
      BY AlteredFields
    <3> HIDE DEF t
    <3> QED
      BY <1>3, <2>1, <3>1
  <2> HIDE DEF t
  <2> QED
    BY <2>2, SectionReads, SectionsSilent
<1> HIDE DEF t
<1>4. Reporting(t) \subseteq must \cup may
  BY <1>1, <1>3 DEF Reporting
<1>5. /\ Forged(must, may, t).must = must /\ Forged(must, may, t).may = may
      /\ Forged(must, may, t).snapshot = t
  BY DEF Forged
<1> QED
  BY <1>2, <1>4, <1>5 DEF Pinpointed, t

\* Who reads a field.
LEMMA Readers ==
    /\ \A k \in Sections : "totalUnits" \in ReadBy[k] => k \in {"unitConservation", "dustInvariant"}
    /\ \A k \in Sections : "nav" \in ReadBy[k] => k \in {"navComposition", "dustInvariant"}
    /\ \A k \in Sections : "liabilities" \in ReadBy[k] => k = "navComposition"
    /\ \A k \in Sections : "ledgerCash" \in ReadBy[k] => k = "cashBalance"
    /\ \A k \in Sections : "excessRecords" \in ReadBy[k] => k = "excessRecords"
    /\ \A k \in Sections : "unattributedRecords" \in ReadBy[k] => k = "unattributedRecords"
    /\ \A k \in Sections : "accrual" \in ReadBy[k] => k = "managementFeeAccrual"
    /\ \A k \in Sections : "ledgerTxs" \in ReadBy[k] => k = "transactionAttribution"
    /\ \A k \in Sections : "onchainTxs" \in ReadBy[k] => k = "transactionAttribution"
    /\ \A k \in Sections : "clientUnits" \in ReadBy[k]
                             => k \in {"clientUnitBalances", "unitConservation"}
    /\ \A k \in Sections : "onchainPositions" \in ReadBy[k] => k = "positionBalances"
    /\ \A k \in Sections : "custody" \in ReadBy[k] => k = "unexplainedAssets"
    /\ \A k \in Sections : "deposits" \in ReadBy[k] => k = "deposits"
    /\ \A k \in Sections : "redemptions" \in ReadBy[k] => k = "redemptions"
BY DEF Sections, ReadBy

\* A place is a break.
LEMMA SomeBreak ==
    ASSUME NEW type, NEW places, places # {}
    PROVE  BreaksAt(type, places) # {}
BY DEF BreaksAt

\* Figures of units and money.
LEMMA FiguresPinpointed ==
    ASSUME BookInv, NEW h
    PROVE  LET s == Snapshot(h)
           IN  /\ Pinpointed(Forged({"unitConservation"}, {"dustInvariant"},
                                    Altered(s, "totalUnits", s.totalUnits + 1)))
               /\ Pinpointed(Forged({"navComposition"}, {"dustInvariant"},
                                    Altered(s, "nav", s.nav + 1)))
               /\ Pinpointed(Forged({"navComposition"}, {}, Altered(s, "liabilities", 1)))
               /\ Pinpointed(Forged({"cashBalance"}, {},
                                    Altered(s, "ledgerCash", s.ledgerCash + 1)))
<1> DEFINE s == Snapshot(h)
           units == [c \in DOMAIN clients |-> clients[c].units]
<1>1. /\ s.clientUnits = units /\ s.totalUnits = totalUnits /\ s.nav = nav
      /\ s.cash = nav + accruedFees /\ s.positionsValue = 0
      /\ s.liabilities = 0 /\ s.accruedFees = accruedFees
  BY SnapshotFields
<1>2. s.ledgerCash = nav + accruedFees /\ s.onchainCash = nav + accruedFees
  BY DEF Snapshot
<1>3. totalUnits \in Int /\ nav \in Int /\ accruedFees \in Int /\ SumFunction(units) = totalUnits
  BY ListedUnitsSum DEF BookInv, LedgerInv, LedgerTypes
<1> HIDE DEF s, units
<1>4. ASSUME NEW v, v = s.totalUnits + 1
      PROVE  Pinpointed(Forged({"unitConservation"}, {"dustInvariant"},
                               Altered(s, "totalUnits", v)))
  <2> DEFINE t == Altered(s, "totalUnits", v)
  <2>1. t.totalUnits = v /\ t.clientUnits = units
    BY <1>1, AlteredFields DEF s, Fields
  <2> HIDE DEF t
  <2>2. checkUnitConservation(t) # {}
    BY <1>1, <1>3, <1>4, <2>1 DEF checkUnitConservation, BreakIf, BreaksAt
  <2>3. \A k \in {"unitConservation"} : Checks(t)[k] # {}
    BY <2>2 DEF Checks
  <2> QED
    BY <2>3, Readers, ReportedIsPinpointed DEF t, s, Fields, Sections
<1>5. ASSUME NEW v, v = s.nav + 1
      PROVE  Pinpointed(Forged({"navComposition"}, {"dustInvariant"}, Altered(s, "nav", v)))
  <2> DEFINE t == Altered(s, "nav", v)
  <2>1. /\ t.nav = v /\ t.cash = s.cash /\ t.positionsValue = s.positionsValue
        /\ t.liabilities = s.liabilities /\ t.accruedFees = s.accruedFees
    BY AlteredFields DEF s, Fields
  <2> HIDE DEF t
  <2>2. t.cash + t.positionsValue - t.liabilities - t.accruedFees # t.nav
    BY <1>1, <1>3, <1>5, <2>1
  <2>3. \A k \in {"navComposition"} : Checks(t)[k] # {}
    BY <2>2 DEF Checks, checkNavComposition, BreakIf, BreaksAt
  <2> QED
    BY <2>3, Readers, ReportedIsPinpointed DEF t, s, Fields, Sections
<1>6. Pinpointed(Forged({"navComposition"}, {}, Altered(s, "liabilities", 1)))
  <2> DEFINE t == Altered(s, "liabilities", 1)
  <2>1. /\ t.nav = s.nav /\ t.cash = s.cash /\ t.positionsValue = s.positionsValue
        /\ t.liabilities = 1 /\ t.accruedFees = s.accruedFees
    BY AlteredFields DEF s, Fields
  <2> HIDE DEF t
  <2>2. t.cash + t.positionsValue - t.liabilities - t.accruedFees # t.nav
    BY <1>1, <1>3, <2>1
  <2>3. \A k \in {"navComposition"} : Checks(t)[k] # {}
    BY <2>2 DEF Checks, checkNavComposition, BreakIf, BreaksAt
  <2> QED
    BY <2>3, Readers, ReportedIsPinpointed DEF t, s, Fields, Sections
<1>7. ASSUME NEW v, v = s.ledgerCash + 1
      PROVE  Pinpointed(Forged({"cashBalance"}, {}, Altered(s, "ledgerCash", v)))
  <2> DEFINE t == Altered(s, "ledgerCash", v)
  <2>1. t.ledgerCash = v /\ t.onchainCash = s.onchainCash
    BY AlteredFields DEF s, Fields
  <2> HIDE DEF t
  <2>2. t.ledgerCash # t.onchainCash
    BY <1>2, <1>3, <1>7, <2>1
  <2>3. \A k \in {"cashBalance"} : Checks(t)[k] # {}
    BY <2>2 DEF Checks, checkCashBalance, BreakIf, BreaksAt
  <2> QED
    BY <2>3, Readers, ReportedIsPinpointed DEF t, s, Fields, Sections
<1> QED
  BY <1>4, <1>5, <1>6, <1>7 DEF s

\* Funds that were set aside, and the day's fee.
LEMMA AsidePinpointed ==
    ASSUME BookInv, NEW h
    PROVE  LET s == Snapshot(h)
           IN  /\ Pinpointed(Forged({"excessRecords"}, {},
                    Altered(s, "excessRecords", [s.excessRecords EXCEPT ![1].units = 1])))
               /\ Pinpointed(Forged({"unattributedRecords"}, {},
                    Altered(s, "unattributedRecords",
                            [s.unattributedRecords EXCEPT ![1].traded = 1])))
               /\ Pinpointed(Forged({"managementFeeAccrual"}, {},
                    Altered(s, "accrual", [s.accrual EXCEPT !.fee = @ + 1])))
<1> DEFINE s == Snapshot(h)
<1>1. /\ s.excessRecords = <<[units |-> 0]>>
      /\ s.unattributedRecords = <<[credited |-> 0, traded |-> 0]>>
      /\ s.accrual = accrual
  BY SnapshotFields
<1>2. /\ accrual \in [navBefore : Nat, fee : Nat]
      /\ accrueDailyManagementFee(accrual.navBefore) = accrual.fee
  BY DEF BookInv, RecordsOK
<1> HIDE DEF s
<1>3. ASSUME NEW v, v = [s.excessRecords EXCEPT ![1].units = 1]
      PROVE  Pinpointed(Forged({"excessRecords"}, {}, Altered(s, "excessRecords", v)))
  <2> DEFINE t == Altered(s, "excessRecords", v)
  <2>1. t.excessRecords = v
    BY AlteredFields DEF s, Fields
  <2> HIDE DEF t
  <2>2. 1 \in DOMAIN v /\ v[1].units # 0
    BY <1>1, <1>3
  <2>3. checkExcessSegregation(t) # {}
    BY <2>1, <2>2, SomeBreak DEF checkExcessSegregation
  <2>4. \A k \in {"excessRecords"} : Checks(t)[k] # {}
    BY <2>3 DEF Checks
  <2> QED
    BY <2>4, Readers, ReportedIsPinpointed DEF t, s, Fields, Sections
<1>4. ASSUME NEW v, v = [s.unattributedRecords EXCEPT ![1].traded = 1]
      PROVE  Pinpointed(Forged({"unattributedRecords"}, {}, Altered(s, "unattributedRecords", v)))
  <2> DEFINE t == Altered(s, "unattributedRecords", v)
             place == <<1, "traded">>
  <2>1. t.unattributedRecords = v
    BY AlteredFields DEF s, Fields
  <2> HIDE DEF t
  <2>2. 1 \in DOMAIN v /\ v[1]["traded"] # 0
    BY <1>1, <1>4
  <2>3. place \in (DOMAIN v) \X {"credited", "traded"} /\ v[place[1]][place[2]] # 0
    BY <2>2
  <2> HIDE DEF place
  <2>4. checkUnattributedNotCredited(t) # {}
    BY <2>1, <2>3, SomeBreak DEF checkUnattributedNotCredited
  <2>5. \A k \in {"unattributedRecords"} : Checks(t)[k] # {}
    BY <2>4 DEF Checks
  <2> QED
    BY <2>5, Readers, ReportedIsPinpointed DEF t, s, Fields, Sections
<1>5. ASSUME NEW v, v = [s.accrual EXCEPT !.fee = @ + 1]
      PROVE  Pinpointed(Forged({"managementFeeAccrual"}, {}, Altered(s, "accrual", v)))
  <2> DEFINE t == Altered(s, "accrual", v)
  <2>1. t.accrual = v
    BY AlteredFields DEF s, Fields
  <2> HIDE DEF t
  <2>2. v.navBefore = accrual.navBefore /\ v.fee = accrual.fee + 1 /\ accrual.fee \in Nat
    BY <1>1, <1>2, <1>5
  <2>3. accrueDailyManagementFee(v.navBefore) # v.fee
    BY <1>2, <2>2
  <2>4. \A k \in {"managementFeeAccrual"} : Checks(t)[k] # {}
    BY <2>1, <2>3 DEF Checks, checkManagementFeeAccrual, BreakIf, BreaksAt
  <2> QED
    BY <2>4, Readers, ReportedIsPinpointed DEF t, s, Fields, Sections
<1> QED
  BY <1>3, <1>4, <1>5 DEF s

\* A client's units, on the ledger's side.
LEMMA UnitsPinpointed ==
    ASSUME BookInv, NEW h, NEW c \in DOMAIN Snapshot(h).clientUnits
    PROVE  LET s == Snapshot(h)
           IN  Pinpointed(Forged({"clientUnitBalances", "unitConservation"}, {},
                   Altered(s, "clientUnits", [s.clientUnits EXCEPT ![c] = @ + 1])))
<1> DEFINE s == Snapshot(h)
           units == [d \in DOMAIN clients |-> clients[d].units]
           v == [units EXCEPT ![c] = @ + 1]
           t == Altered(s, "clientUnits", v)
<1>1. /\ s.clientUnits = units /\ s.totalUnits = totalUnits
      /\ s.onchainUnits = [d \in {e \in DOMAIN units : units[e] > 0} |-> units[d]]
  BY SnapshotFields
<1>2. /\ \A d \in DOMAIN clients : units[d] \in Nat
      /\ DOMAIN units = DOMAIN clients /\ c \in DOMAIN clients
      /\ IsFiniteSet(DOMAIN clients) /\ totalUnits \in Int
      /\ SumFunction(units) = totalUnits
  <2>1. LedgerTypes /\ UnitConservation
    BY DEF BookInv, LedgerInv
  <2>2. IsFiniteSet(DOMAIN clients)
    BY <2>1, LedgerAssumption, FS_Subset DEF LedgerTypes
  <2> QED
    BY <1>1, <2>1, <2>2, ListedUnitsSum DEF LedgerTypes, ClientEntry
<1>3. t.clientUnits = v /\ t.totalUnits = s.totalUnits /\ t.onchainUnits = s.onchainUnits
  BY AlteredFields DEF Fields
<1> HIDE DEF units, s, t
<1>4. /\ DOMAIN v = DOMAIN clients /\ v[c] = units[c] + 1
      /\ \A d \in DOMAIN clients \ {c} : v[d] = units[d]
      /\ \A d \in DOMAIN clients : v[d] \in Int
  BY <1>2
<1> HIDE DEF v
<1>5. SumFunction(v) # totalUnits
  <2>1. SumFunctionOnSet(v, DOMAIN clients)
          = SumFunctionOnSet(units, DOMAIN clients) + (v[c] - units[c])
    BY <1>2, <1>4, SumChange
  <2>2. SumFunctionOnSet(units, DOMAIN clients) = totalUnits
    BY <1>2 DEF SumFunction
  <2>3. SumFunction(v) = SumFunctionOnSet(v, DOMAIN clients)
    BY <1>4 DEF SumFunction
  <2> QED
    BY <1>2, <1>4, <2>1, <2>2, <2>3
<1>6. checkUnitConservation(t) # {}
  BY <1>1, <1>3, <1>5 DEF checkUnitConservation, BreakIf, BreaksAt
<1>7. checkClientUnitBalances(t) # {}
  <2>1. AmountAt(v, c) = units[c] + 1
    BY <1>2, <1>4 DEF AmountAt
  <2>2. AmountAt(s.onchainUnits, c) = units[c]
    <3>1. units[c] \in Nat /\ c \in DOMAIN units
      BY <1>2
    <3>2. CASE units[c] > 0
      BY <1>1, <3>1, <3>2 DEF AmountAt
    <3>3. CASE units[c] = 0
      BY <1>1, <3>1, <3>3 DEF AmountAt
    <3> QED
      BY <3>1, <3>2, <3>3
  <2>3. c \in Differing(v, s.onchainUnits)
    BY <1>2, <1>4, <2>1, <2>2 DEF Differing
  <2> QED
    BY <1>3, <2>3, SomeBreak DEF checkClientUnitBalances
<1>8. \A k \in {"clientUnitBalances", "unitConservation"} : Checks(t)[k] # {}
  BY <1>6, <1>7 DEF Checks
<1>9. Pinpointed(Forged({"clientUnitBalances", "unitConservation"}, {}, t))
  BY <1>8, Readers, ReportedIsPinpointed DEF t, s, Fields, Sections
<1> QED
  BY <1>1, <1>9 DEF s, t, v

\* The tokens of a mint, on the chain's side.
LEMMA TokensPinpointed ==
    ASSUME BookInv, NEW h \in Holdings, NEW m \in DOMAIN h
    PROVE  LET s == Snapshot(h)
           IN  /\ Pinpointed(Forged({"positionBalances"}, {},
                    Altered(s, "onchainPositions", [s.onchainPositions EXCEPT ![m] = @ + 1])))
               /\ Pinpointed(Forged({"unexplainedAssets"}, {},
                    Altered(s, "custody", [s.custody EXCEPT ![m] = @ + 1])))
<1> DEFINE s == Snapshot(h)
           managed == [n \in DOMAIN h |-> h[n].managed]
           held == [n \in DOMAIN h |-> h[n].managed + h[n].excess + h[n].unattributed]
<1>1. /\ s.ledgerPositions = managed /\ s.onchainPositions = managed
      /\ s.buckets = h /\ s.custody = held
  BY DEF Snapshot
<1>2. h[m] \in AssetBucketBalances
  BY BookAssumption
<1>3. managed[m] \in Int /\ held[m] \in Int
  BY <1>2 DEF AssetBucketBalances
<1>4. held[m] = h[m].managed + h[m].excess + h[m].unattributed
      /\ DOMAIN managed = DOMAIN h /\ DOMAIN held = DOMAIN h
  OBVIOUS
<1> HIDE DEF s, managed, held
<1>5. ASSUME NEW v, v = [s.onchainPositions EXCEPT ![m] = @ + 1]
      PROVE  Pinpointed(Forged({"positionBalances"}, {}, Altered(s, "onchainPositions", v)))
  <2> DEFINE t == Altered(s, "onchainPositions", v)
  <2>1. t.onchainPositions = v /\ t.ledgerPositions = managed
    BY <1>1, AlteredFields DEF s, Fields
  <2> HIDE DEF t
  <2>2. DOMAIN v = DOMAIN h /\ v[m] # managed[m]
    BY <1>1, <1>3, <1>4, <1>5
  <2>3. m \in Differing(managed, v)
    BY <1>4, <2>2 DEF Differing, AmountAt
  <2>4. checkPositionBalances(t) # {}
    BY <2>1, <2>3, SomeBreak DEF checkPositionBalances
  <2>5. \A k \in {"positionBalances"} : Checks(t)[k] # {}
    BY <2>4 DEF Checks
  <2> QED
    BY <2>5, Readers, ReportedIsPinpointed DEF t, s, Fields, Sections
<1>6. ASSUME NEW v, v = [s.custody EXCEPT ![m] = @ + 1]
      PROVE  Pinpointed(Forged({"unexplainedAssets"}, {}, Altered(s, "custody", v)))
  <2> DEFINE t == Altered(s, "custody", v)
  <2>1. t.custody = v /\ t.buckets = h
    BY <1>1, AlteredFields DEF s, Fields
  <2> HIDE DEF t
  <2>2. m \in DOMAIN v /\ v[m] # h[m].managed + h[m].excess + h[m].unattributed
    BY <1>1, <1>3, <1>4, <1>6
  <2>3. checkUnexplainedAssetBalances(t) # {}
    BY <2>1, <2>2, SomeBreak DEF checkUnexplainedAssetBalances
  <2>4. \A k \in {"unexplainedAssets"} : Checks(t)[k] # {}
    BY <2>3 DEF Checks
  <2> QED
    BY <2>4, Readers, ReportedIsPinpointed DEF t, s, Fields, Sections
<1> QED
  BY <1>5, <1>6 DEF s

\* The record of a deposit or a redemption.
LEMMA RecordsPinpointed ==
    ASSUME BookInv, NEW h
    PROVE  LET s == Snapshot(h)
           IN  /\ \A i \in DOMAIN s.deposits : Pinpointed(Forged({"deposits"}, {},
                    Altered(s, "deposits", [s.deposits EXCEPT ![i].units = @ + 1])))
               /\ \A i \in DOMAIN s.redemptions : Pinpointed(Forged({"redemptions"}, {},
                    Altered(s, "redemptions", [s.redemptions EXCEPT ![i].payout = @ + 1])))
<1> DEFINE s == Snapshot(h)
<1>1. s.deposits = deposits /\ s.redemptions = redemptions
  BY SnapshotFields
<1>2. RecordsOK
  BY DEF BookInv
<1> HIDE DEF s
<1>3. ASSUME NEW i \in DOMAIN s.deposits, NEW v, v = [s.deposits EXCEPT ![i].units = @ + 1]
      PROVE  Pinpointed(Forged({"deposits"}, {}, Altered(s, "deposits", v)))
  <2> DEFINE t == Altered(s, "deposits", v)
  <2>1. t.deposits = v
    BY AlteredFields DEF s, Fields
  <2> HIDE DEF t
  <2>2. /\ i \in DOMAIN deposits /\ deposits[i] \in DepositRecord
        /\ unitsIssuedOnSubscribe(deposits[i].amount, deposits[i].price) = deposits[i].units
    BY <1>1, <1>2, <1>3, ElementOfSeq DEF RecordsOK
  <2>3. i \in DOMAIN v /\ v[i] = [deposits[i] EXCEPT !.units = @ + 1]
    BY <1>1, <1>3, <2>2
  <2>4. /\ v[i].amount = deposits[i].amount /\ v[i].price = deposits[i].price
        /\ v[i].units # deposits[i].units
    BY <2>2, <2>3 DEF DepositRecord
  <2>5. checkDepositUnitsIssued(t) # {}
    <3> DEFINE places == {j \in DOMAIN v : unitsIssuedOnSubscribe(v[j].amount, v[j].price) # v[j].units}
    <3>1. i \in places
      BY <2>2, <2>3, <2>4
    <3>2. checkDepositUnitsIssued(t) = BreaksAt("DEPOSIT_UNITS_MISMATCH", places)
      BY <2>1 DEF checkDepositUnitsIssued
    <3> HIDE DEF places
    <3> QED
      BY <3>1, <3>2, SomeBreak
  <2>6. \A k \in {"deposits"} : Checks(t)[k] # {}
    BY <2>5 DEF Checks
  <2> QED
    BY <2>6, Readers, ReportedIsPinpointed DEF t, s, Fields, Sections
<1>4. ASSUME NEW i \in DOMAIN s.redemptions,
             NEW v, v = [s.redemptions EXCEPT ![i].payout = @ + 1]
      PROVE  Pinpointed(Forged({"redemptions"}, {}, Altered(s, "redemptions", v)))
  <2> DEFINE t == Altered(s, "redemptions", v)
  <2>1. t.redemptions = v
    BY AlteredFields DEF s, Fields
  <2> HIDE DEF t
  <2>2. /\ i \in DOMAIN redemptions /\ redemptions[i] \in RedemptionRecord
        /\ payoutOnRedeem(redemptions[i].units, redemptions[i].price) = redemptions[i].payout
    BY <1>1, <1>2, <1>4, ElementOfSeq DEF RecordsOK
  <2>3. i \in DOMAIN v /\ v[i] = [redemptions[i] EXCEPT !.payout = @ + 1]
    BY <1>1, <1>4, <2>2
  <2>4. /\ v[i].units = redemptions[i].units /\ v[i].price = redemptions[i].price
        /\ v[i].payout # redemptions[i].payout
    BY <2>2, <2>3 DEF RedemptionRecord
  <2>5. checkRedemptionPayout(t) # {}
    <3> DEFINE places == {j \in DOMAIN v : payoutOnRedeem(v[j].units, v[j].price) # v[j].payout}
    <3>1. i \in places
      BY <2>2, <2>3, <2>4
    <3>2. checkRedemptionPayout(t) = BreaksAt("REDEMPTION_PAYOUT_MISMATCH", places)
      BY <2>1 DEF checkRedemptionPayout
    <3> HIDE DEF places
    <3> QED
      BY <3>1, <3>2, SomeBreak
  <2>6. \A k \in {"redemptions"} : Checks(t)[k] # {}
    BY <2>5 DEF Checks
  <2> QED
    BY <2>6, Readers, ReportedIsPinpointed DEF t, s, Fields, Sections
<1> QED
  BY <1>3, <1>4 DEF s

\* Two make more than one.
LEMMA PairCardinality ==
    ASSUME NEW a, NEW b, a # b
    PROVE  Cardinality({a, b}) = 2
<1>1. IsFiniteSet({a}) /\ Cardinality({a}) = 1 /\ {a, b} = {a} \cup {b} /\ b \notin {a}
  BY FS_Singleton
<1> QED
  BY <1>1, FS_AddElement

\* A transaction that is on one side only, or twice in the ledger.
LEMMA TxsPinpointed ==
    ASSUME BookInv, NEW h
    PROVE  LET s == Snapshot(h)
           IN  /\ \A i \in DOMAIN s.ledgerTxs \cup {0} :
                    Pinpointed(Forged({"transactionAttribution"}, {},
                                      Altered(s, "ledgerTxs", Append(s.ledgerTxs, i))))
               /\ Pinpointed(Forged({"transactionAttribution"}, {},
                                    Altered(s, "onchainTxs", Append(s.onchainTxs, 0))))
<1> DEFINE s == Snapshot(h)
           n == Len(deposits)
           txs == [i \in 1 .. n |-> i]
           Keys(records) == {records[i] : i \in DOMAIN records}
           Twice(records) == {k \in Keys(records) :
              Cardinality({i \in DOMAIN records : records[i] = k}) > 1}
<1>1. n \in Nat /\ DOMAIN deposits = 1 .. n
  BY LenProperties DEF BookInv, RecordsOK
<1>2. s.ledgerTxs = txs /\ s.onchainTxs = txs
  BY <1>1, SnapshotFields
<1> HIDE DEF n
<1>3. txs \in Seq(Nat) /\ Len(txs) = n /\ Keys(txs) = 1 .. n
  BY <1>1
<1>4. ASSUME NEW i \in Nat, NEW v, v = Append(txs, i)
      PROVE  /\ DOMAIN v = 1 .. n + 1 /\ v[n + 1] = i
             /\ \A j \in 1 .. n : v[j] = j
             /\ Keys(v) = (1 .. n) \cup {i}
  <2>1. DOMAIN v = 1 .. n + 1 /\ v[n + 1] = i /\ \A j \in 1 .. n : v[j] = txs[j]
    BY <1>1, <1>3, <1>4, AppendProperties
  <2>2. \A j \in 1 .. n : v[j] = j
    BY <2>1
  <2>3. 1 .. n + 1 = (1 .. n) \cup {n + 1}
    BY <1>1
  <2>4. Keys(v) = (1 .. n) \cup {i}
    BY <2>1, <2>2, <2>3
  <2> QED
    BY <2>1, <2>2, <2>4
<1> HIDE DEF txs, s
<1>5. ASSUME NEW t
      PROVE  checkTransactionAttribution(t)
               = BreaksAt("DUPLICATE_TX_ATTRIBUTION", Twice(t.ledgerTxs))
                   \cup BreaksAt("ORPHAN_ONCHAIN_TX", Keys(t.onchainTxs) \ Keys(t.ledgerTxs))
                   \cup BreaksAt("ORPHAN_LEDGER_TX", Keys(t.ledgerTxs) \ Keys(t.onchainTxs))
  BY DEF checkTransactionAttribution
<1>6. ASSUME NEW i \in DOMAIN s.ledgerTxs \cup {0}, NEW v, v = Append(s.ledgerTxs, i)
      PROVE  Pinpointed(Forged({"transactionAttribution"}, {}, Altered(s, "ledgerTxs", v)))
  <2> DEFINE t == Altered(s, "ledgerTxs", v)
  <2>1. t.ledgerTxs = v /\ t.onchainTxs = txs
    BY <1>2, AlteredFields DEF s, Fields
  <2> HIDE DEF t
  <2>2. i \in Nat /\ i \in 1 .. n \cup {0}
    BY <1>1, <1>2, <1>6 DEF txs
  <2>3. /\ DOMAIN v = 1 .. n + 1 /\ v[n + 1] = i /\ \A j \in 1 .. n : v[j] = j
        /\ Keys(v) = (1 .. n) \cup {i}
    <3>1. v = Append(txs, i)
      BY <1>2, <1>6
    <3> HIDE DEF Keys
    <3> QED
      BY <1>4, <2>2, <3>1
  <2>4. checkTransactionAttribution(t) # {}
    <3>1. CASE i = 0
      <4> HIDE DEF Keys, Twice
      <4>1. 0 \in Keys(v) \ Keys(txs)
        BY <1>1, <1>3, <2>3, <3>1
      <4> QED
        BY <1>5, <2>1, <4>1, SomeBreak
    <3>2. CASE i \in 1 .. n
      <4> DEFINE S == {j \in DOMAIN v : v[j] = i}
      <4>1. S = {i, n + 1} /\ i # n + 1
        BY <1>1, <2>3, <3>2
      <4> HIDE DEF S
      <4>2. Cardinality(S) = 2
        BY <4>1, PairCardinality
      <4>3. i \in Twice(v)
        BY <2>3, <4>2 DEF S
      <4> HIDE DEF Keys, Twice
      <4> QED
        BY <1>5, <2>1, <4>3, SomeBreak
    <3> QED
      BY <2>2, <3>1, <3>2
  <2>5. \A k \in {"transactionAttribution"} : Checks(t)[k] # {}
    BY <2>4 DEF Checks
  <2> QED
    BY <2>5, Readers, ReportedIsPinpointed DEF t, s, Fields, Sections
<1>7. ASSUME NEW v, v = Append(s.onchainTxs, 0)
      PROVE  Pinpointed(Forged({"transactionAttribution"}, {}, Altered(s, "onchainTxs", v)))
  <2> DEFINE t == Altered(s, "onchainTxs", v)
  <2>1. t.onchainTxs = v /\ t.ledgerTxs = txs
    BY <1>2, AlteredFields DEF s, Fields
  <2> HIDE DEF t
  <2>2. Keys(v) = (1 .. n) \cup {0}
    <3>1. v = Append(txs, 0)
      BY <1>2, <1>7
    <3> HIDE DEF Keys
    <3> QED
      BY <1>4, <3>1
  <2>3. 0 \in Keys(v) \ Keys(txs)
    <3> HIDE DEF Keys
    <3> QED
      BY <1>1, <1>3, <2>2
  <2>4. checkTransactionAttribution(t) # {}
    <3> HIDE DEF Keys, Twice
    <3> QED
      BY <1>5, <2>1, <2>3, SomeBreak
  <2>5. \A k \in {"transactionAttribution"} : Checks(t)[k] # {}
    BY <2>4 DEF Checks
  <2> QED
    BY <2>5, Readers, ReportedIsPinpointed DEF t, s, Fields, Sections
<1> QED
  BY <1>6, <1>7 DEF s

\* Of any books the ledger's calls can leave, each altered place is reported by
\* the sections that guard it and by none that does not read it
\* (reconciliation.ts 458-545).
THEOREM ForgeriesFound == BookSpec => []ForgeriesPinpointed
<1>1. BookInv => ForgeriesPinpointed
  <2> SUFFICES ASSUME BookInv, NEW h \in Holdings, NEW f \in Forgeries(Snapshot(h))
               PROVE  Pinpointed(f)
    BY DEF ForgeriesPinpointed, Pinpointed, Reporting
  <2> DEFINE s == Snapshot(h)
  <2>1. DOMAIN s.onchainPositions = DOMAIN h /\ DOMAIN s.custody = DOMAIN h
    BY DEF Snapshot
  <2> HIDE DEF s
  <2>2. CASE f \in
          {Forged({"unitConservation"}, {"dustInvariant"}, [s EXCEPT !.totalUnits = @ + 1]),
           Forged({"navComposition"}, {"dustInvariant"}, [s EXCEPT !.nav = @ + 1]),
           Forged({"navComposition"}, {}, [s EXCEPT !.liabilities = 1]),
           Forged({"cashBalance"}, {}, [s EXCEPT !.ledgerCash = @ + 1])}
    BY <2>2, FiguresPinpointed DEF Altered, s
  <2>3. CASE f \in
          {Forged({"excessRecords"}, {}, [s EXCEPT !.excessRecords[1].units = 1]),
           Forged({"unattributedRecords"}, {}, [s EXCEPT !.unattributedRecords[1].traded = 1]),
           Forged({"managementFeeAccrual"}, {}, [s EXCEPT !.accrual.fee = @ + 1])}
    BY <2>3, AsidePinpointed DEF Altered, s
  <2>4. CASE \E c \in DOMAIN s.clientUnits :
          f = Forged({"clientUnitBalances", "unitConservation"}, {},
                     [s EXCEPT !.clientUnits[c] = @ + 1])
    BY <2>4, UnitsPinpointed DEF Altered, s
  <2>5. CASE \E m \in DOMAIN h :
          \/ f = Forged({"positionBalances"}, {}, [s EXCEPT !.onchainPositions[m] = @ + 1])
          \/ f = Forged({"unexplainedAssets"}, {}, [s EXCEPT !.custody[m] = @ + 1])
    BY <2>5, TokensPinpointed DEF Altered, s
  <2>6. CASE \/ \E i \in DOMAIN s.deposits :
                f = Forged({"deposits"}, {}, [s EXCEPT !.deposits[i].units = @ + 1])
             \/ \E i \in DOMAIN s.redemptions :
                f = Forged({"redemptions"}, {}, [s EXCEPT !.redemptions[i].payout = @ + 1])
    BY <2>6, RecordsPinpointed DEF Altered, s
  <2>7. CASE \/ \E i \in DOMAIN s.ledgerTxs \cup {0} :
                f = Forged({"transactionAttribution"}, {}, [s EXCEPT !.ledgerTxs = Append(@, i)])
             \/ f = Forged({"transactionAttribution"}, {}, [s EXCEPT !.onchainTxs = Append(@, 0)])
    BY <2>7, TxsPinpointed DEF Altered, s
  <2> QED
    BY <2>1, <2>2, <2>3, <2>4, <2>5, <2>6, <2>7 DEF Forgeries, s
<1> QED
  BY <1>1, BooksKeepInv, PTL
=============================================================================
