------------------------------ MODULE CapCheck ------------------------------
(***************************************************************************)
(* The integer arithmetic behind one sweep: the two valuation formulas of  *)
(* packages/accounting and the per-asset cap check of the server.          *)
(*                                                                         *)
(* An OraclePrice together with the mint's decimals acts on an amount only *)
(* through one fraction, USD micros per native unit.  With                 *)
(*   d = mintDecimals + priceExponentAbs - 6                               *)
(* the code multiplies by priceScaled and divides by 10^d when d >= 0, and *)
(* multiplies by priceScaled * 10^(-d) otherwise, so a price here is that  *)
(* fraction: [num |-> priceScaled, den |-> 10^d] in the first case and     *)
(* [num |-> priceScaled * 10^(-d), den |-> 1] in the second.               *)
(* bigint is unbounded, and so is Nat.                                     *)
(***************************************************************************)
EXTENDS Naturals

Price == [num : Nat, den : Nat \ {0}]

\* The positive prices, the only ones a valuation is ever divided by.
PositivePrice == {p \in Price : p.num > 0}

\* Floors once, at the single division.
ComputeUsdValueMicros(quantityNative, price) ==
    (quantityNative * price.num) \div price.den

\* Mutant: rounds up.
UsdMicrosToNativeQuantityCeil(usd, price) ==
    (usd * price.den + price.num - 1) \div price.num

\* Floors to a whole native unit; the code throws on a zero price.
UsdMicrosToNativeQuantityFloor(usd, price) ==
    (usd * price.den) \div price.num

ComputeAssetHeadroomUsdMicros(cumulativeCredited, assetCap) ==
    IF cumulativeCredited >= assetCap THEN 0 ELSE assetCap - cumulativeCredited

Lesser(m, n) == IF m < n THEN m ELSE n

\* The least of the three ceilings: the on-chain delegation, the live balance
\* and the headroom at the current price.
ComputeSweepAmountNative(delegated, balance, headroom, price) ==
    IF headroom = 0 \/ price.num = 0
    THEN 0
    ELSE Lesser(Lesser(delegated, balance),
                UsdMicrosToNativeQuantityFloor(headroom, price))

ComputeCreditedUsdMicros(nativeAmount, price) ==
    ComputeUsdValueMicros(nativeAmount, price)
=============================================================================
