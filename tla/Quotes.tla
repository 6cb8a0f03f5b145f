------------------------------- MODULE Quotes -------------------------------
(***************************************************************************)
(* How a price on the wire becomes a scaled integer (solana/pricing.ts).   *)
(* The regular expression of extractUsdField leaves a number in three      *)
(* parts: the digits before the point, the digits after it, and a power    *)
(* of ten, here 0 where the wire has none: both write the same digits.     *)
(***************************************************************************)
EXTENDS Integers, Sequences, SequencesExt

CONSTANT PRICE_EXPONENT

ASSUME ExponentAssumption == PRICE_EXPONENT \in Nat

Wire == [int : Seq(0 .. 9), frac : Seq(0 .. 9), exp : Int]

Zeros(n) == IF n > 0 THEN [i \in 1 .. n |-> 0] ELSE <<>>

NumberOf(digits) == FoldLeft(LAMBDA number, d : 10 * number + d, 0, digits)

\* Mutant: drops the power of ten.
mantissaOnly(wire) == [int |-> wire.int, frac |-> wire.frac]

\* The digits stay, the point moves; zeros fill what it jumps over.
normalizeScientificNotation(wire) ==
    LET digits == wire.int \o wire.frac
        pointPos == Len(wire.int) + wire.exp
    IN  IF pointPos <= 0
        THEN [int |-> <<0>>, frac |-> Zeros(-pointPos) \o digits]
        ELSE [int  |-> SubSeq(digits \o Zeros(pointPos - Len(digits)), 1, pointPos),
              frac |-> SubSeq(digits, pointPos + 1, Len(digits))]

\* Digits beyond the exponent are cut off, missing ones are zeros.
decimalStringToScaled(decimal) ==
    NumberOf(decimal.int
               \o SubSeq(decimal.frac \o Zeros(PRICE_EXPONENT), 1, PRICE_EXPONENT))

priceScaled(wire) == decimalStringToScaled(normalizeScientificNotation(wire))

PowerOfTen[n \in Nat] == IF n = 0 THEN 1 ELSE 10 * PowerOfTen[n - 1]

\* The number the wire denotes, scaled and floored.
ScaledFloor(wire) ==
    LET mantissa == NumberOf(wire.int \o wire.frac)
        power == wire.exp - Len(wire.frac) + PRICE_EXPONENT
    IN  IF power >= 0 THEN mantissa * PowerOfTen[power]
        ELSE mantissa \div PowerOfTen[-power]
=============================================================================
