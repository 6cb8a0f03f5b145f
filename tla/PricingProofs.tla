--------------------------- MODULE PricingProofs ----------------------------
(***************************************************************************)
(* Prices, and what they size, for any assets, wallets, market, timeouts   *)
(* and limits.  The cache and its two consumers never work with a price    *)
(* that was stale when it was asked for and never age a row; a quote is    *)
(* the number on the wire, scaled and floored; a scan answers the best     *)
(* selection; a deposit quote allocates a prefix of the ranking and keeps  *)
(* both reserves of SOL; what a client signs never cuts a sweep at the     *)
(* prices of its scan; and the limiter stays within twice its limit.       *)
(***************************************************************************)
EXTENDS Pricing, ArithmeticProofs, SequenceTheorems

(***************************************************************************)
(* The approval and the sweeps it is meant to allow.                       *)
(***************************************************************************)
\* The ceiling in native units is at least what the cap buys: the value it is
\* divided by was floored, so dividing by it errs upwards.
LEMMA CeilingCoversCap ==
    ASSUME NEW p \in PositivePrice, NEW cap \in Nat, NEW held \in Nat,
           ComputeUsdValueMicros(held, p) # 0
    PROVE  /\ computeApprovalCeiling(cap, held, ComputeUsdValueMicros(held, p)) \in Nat
           /\ UsdMicrosToNativeQuantityFloor(cap, p)
                <= computeApprovalCeiling(cap, held, ComputeUsdValueMicros(held, p))
<1> DEFINE u == (held * p.num) \div p.den
           q == (cap * p.den) \div p.num
           c == (cap * held) \div u
<1>1. p.num \in Nat \ {0} /\ p.den \in Nat \ {0}
  BY DEF PositivePrice, Price
<1>2. held * p.num \in Nat /\ cap * p.den \in Nat /\ cap * held \in Nat
  BY <1>1, SMT
<1>3. u \in Nat \ {0} /\ u * p.den <= held * p.num
  BY <1>1, <1>2, DivNat DEF ComputeUsdValueMicros
<1>4. q \in Nat /\ q * p.num <= cap * p.den
  BY <1>1, <1>2, DivNat
<1> HIDE DEF u, q
<1>5. c \in Nat /\ cap * held < c * u + u
  BY <1>2, <1>3, DivNat
<1> HIDE DEF c
\* q units are worth at most the cap, and held at least u, so q u <= cap held.
<1>6. q * u <= cap * held
  <2> DEFINE d == p.num * p.den
  <2>1. (q * p.num) * (u * p.den) <= (cap * p.den) * (held * p.num)
    <3> DEFINE w == q * p.num
               x == cap * p.den
               y == u * p.den
               z == held * p.num
    <3>1. w \in Nat /\ x \in Nat /\ y \in Nat /\ z \in Nat /\ w <= x /\ y <= z
      BY <1>1, <1>2, <1>3, <1>4, SMT
    <3> HIDE DEF w, x, y, z
    <3>2. w * y <= x * y
      BY <3>1, ProductMonotone
    <3>3. y * x <= z * x
      BY <3>1, ProductMonotone
    <3>4. w * y <= x * z
      BY <3>1, <3>2, <3>3, SMT
    <3> QED
      BY <3>4 DEF w, x, y, z
  <2>2. (q * p.num) * (u * p.den) = (q * u) * d
    BY <1>1, <1>3, <1>4, SMT
  <2>3. (cap * p.den) * (held * p.num) = (cap * held) * d
    BY <1>1, SMT
  <2>4. d \in Nat \ {0} /\ q * u \in Nat
    BY <1>1, <1>3, <1>4, SMT
  <2> HIDE DEF d
  <2> QED
    BY <1>2, <2>1, <2>2, <2>3, <2>4, ProductReflects
<1>7. q <= c
  <2>1. q * u < (c + 1) * u
    BY <1>2, <1>3, <1>4, <1>5, <1>6, SMT
  <2>2. ~ (c + 1 <= q)
    BY <1>3, <1>4, <1>5, <2>1, ProductMonotone, SMT
  <2> QED
    BY <1>4, <1>5, <2>2, SMT
<1> QED
  BY <1>3, <1>5, <1>7 DEF u, q, c, computeApprovalCeiling, ComputeUsdValueMicros,
     UsdMicrosToNativeQuantityFloor

\* A greater headroom buys at least as much.
LEMMA QuantityMonotone ==
    ASSUME NEW p \in PositivePrice, NEW m \in Nat, NEW n \in Nat, m <= n
    PROVE  UsdMicrosToNativeQuantityFloor(m, p) <= UsdMicrosToNativeQuantityFloor(n, p)
<1> DEFINE s == [num |-> p.den, den |-> p.num]
<1>1. s \in Price
  BY DEF PositivePrice, Price
<1>2. ComputeUsdValueMicros(m, s) <= ComputeUsdValueMicros(n, s)
  BY <1>1, ValueMonotone
<1> QED
  BY <1>2 DEF ComputeUsdValueMicros, UsdMicrosToNativeQuantityFloor

\* Approved from what a scan found and valued, an SPL asset can be swept at
\* that price as if the approval were unlimited: whatever balance there is by
\* then and whatever of the cap is left, what a sweep takes is cut by these
\* two alone (authorization.ts:48-58, capCheck.ts:32-58).
THEOREM ApprovalNeverBinds ==
    ASSUME NEW p \in PositivePrice, NEW cap \in Nat, NEW held \in Nat,
           ComputeUsdValueMicros(held, p) # 0,
           NEW balance \in Nat, NEW headroom \in Nat, headroom <= cap
    PROVE  ComputeSweepAmountNative(
             computeApprovalCeiling(cap, held, ComputeUsdValueMicros(held, p)),
             balance, headroom, p)
           = ComputeSweepAmountNative(balance, balance, headroom, p)
<1> DEFINE ceiling == computeApprovalCeiling(cap, held, ComputeUsdValueMicros(held, p))
           bought == UsdMicrosToNativeQuantityFloor(headroom, p)
<1>1. ceiling \in Nat /\ UsdMicrosToNativeQuantityFloor(cap, p) <= ceiling
  BY CeilingCoversCap
<1>2. /\ bought \in Nat
      /\ UsdMicrosToNativeQuantityFloor(cap, p) \in Nat
  BY RoundTripNeverGains
<1>3. bought <= UsdMicrosToNativeQuantityFloor(cap, p)
  BY QuantityMonotone
<1>4. bought <= ceiling
  BY <1>1, <1>2, <1>3, SMT
<1> HIDE DEF ceiling, bought
<1>5. Lesser(Lesser(ceiling, balance), bought) = Lesser(Lesser(balance, balance), bought)
  BY <1>1, <1>2, <1>4, SMT DEF Lesser
<1> QED
  BY <1>5 DEF ceiling, bought, ComputeSweepAmountNative

-----------------------------------------------------------------------------
(***************************************************************************)
(* The digits of a price.  NumberOf folds them from the left, taking the   *)
(* last one off the set of those to come.                                  *)
(***************************************************************************)
\* g is the number written by the digits at the places s, for every s.
Reads(g, digits, S) ==
    g = [s \in SUBSET S |-> IF s = {} THEN 0
                            ELSE 10 * g[s \ {Max(s)}] + digits[Max(s)]]

\* NumberOf chooses such a function.
LEMMA NumberChosen ==
    ASSUME NEW digits
    PROVE  NumberOf(digits)
             = (CHOOSE g : Reads(g, digits, DOMAIN digits))[DOMAIN digits]
BY Zenon DEF NumberOf, FoldLeft, MapThenFoldSet, Reads

\* Two readings of overlapping sets of places agree on what they share.
LEMMA ReadsAgree ==
    ASSUME NEW digits, NEW S \in SUBSET Int, IsFiniteSet(S), NEW T \in SUBSET S,
           NEW g, Reads(g, digits, S), NEW h, Reads(h, digits, T)
    PROVE  \A U \in SUBSET T : g[U] = h[U]
<1> DEFINE B == {U \in SUBSET T : g[U] # h[U]}
<1> SUFFICES ASSUME B # {} PROVE FALSE
  OBVIOUS
<1>1. IsFiniteSet(T) /\ B \in SUBSET SUBSET T
  BY FS_Subset
<1>2. PICK U \in B : \A V \in SUBSET U : V # U => V \notin B
  <2> HIDE DEF B
  <2> QED
    BY <1>1, LeastSubset
<1>3. CASE U = {}
  BY <1>2, <1>3 DEF Reads
<1>4. CASE U # {}
  <2> DEFINE V == U \ {Max(U)}
  <2>1. U \in SUBSET Int /\ IsFiniteSet(U)
    BY <1>1, <1>2, FS_Subset
  <2>2. V \in SUBSET U /\ V # U /\ V \in SUBSET T
    BY <1>2, <1>4, <2>1, LastMember
  <2>3. g[V] = h[V]
    BY <1>2, <2>2
  <2>4. g[U] = 10 * g[V] + digits[Max(U)] /\ h[U] = 10 * h[V] + digits[Max(U)]
    BY <1>2, <1>4 DEF Reads
  <2> QED
    BY <1>2, <2>3, <2>4
<1> QED
  BY <1>3, <1>4

\* There is a reading of every finite set of places.
LEMMA ReadsExist ==
    ASSUME NEW digits, NEW S \in SUBSET Int, IsFiniteSet(S)
    PROVE  \E g : Reads(g, digits, S)
<1> DEFINE B == {T \in SUBSET S : ~ \E g : Reads(g, digits, T)}
<1> SUFFICES ASSUME B # {} PROVE FALSE
  OBVIOUS
<1>1. PICK T \in B : \A U \in SUBSET T : U # T => U \notin B
  <2>1. B \in SUBSET SUBSET S
    OBVIOUS
  <2> HIDE DEF B
  <2> QED
    BY <2>1, LeastSubset
<1>2. IsFiniteSet(T) /\ \A U \in SUBSET T : U \in SUBSET Int /\ IsFiniteSet(U)
  BY FS_Subset
<1> DEFINE Less(U) == U \ {Max(U)}
           sol(U) == CHOOSE g : Reads(g, digits, U)
           G == [U \in SUBSET T |-> IF U = {} THEN 0
                    ELSE 10 * sol(Less(U))[Less(U)] + digits[Max(U)]]
<1>3. ASSUME NEW U \in SUBSET T, U # T
      PROVE  Reads(sol(U), digits, U)
  <2>1. \E g : Reads(g, digits, U)
    BY <1>1, <1>3
  <2> QED
    BY <2>1
<1>4. ASSUME NEW U \in SUBSET T, U # {}
      PROVE  Less(U) \in SUBSET U /\ Less(U) # U
  BY <1>2, <1>4, LastMember
<1> HIDE DEF sol
<1>5. ASSUME NEW U \in SUBSET T, U # {}
      PROVE  G[Less(U)] = sol(Less(U))[Less(U)]
  <2> DEFINE V == Less(U)
  <2>0. V \in SUBSET U /\ V # U
    BY <1>4, <1>5
  <2>1. V \in SUBSET T /\ V # T
    <3> HIDE DEF Less
    <3> QED
      BY <1>5, <2>0
  <2>2. Reads(sol(V), digits, V)
    BY <1>3, <2>1
  <2>3. CASE V = {}
    BY <2>1, <2>2, <2>3 DEF Reads
  <2>4. CASE V # {}
    <3> DEFINE W == Less(V)
    <3>1. W \in SUBSET V /\ W \in SUBSET T /\ W # T
      BY <1>4, <2>1, <2>4
    <3>2. Reads(sol(W), digits, W)
      BY <1>3, <3>1
    <3>3. V \in SUBSET Int /\ IsFiniteSet(V)
      BY <1>2, <2>1
    <3>4. sol(V)[W] = sol(W)[W]
      BY <2>2, <3>1, <3>2, <3>3, ReadsAgree
    <3>5. sol(V)[V] = 10 * sol(V)[W] + digits[Max(V)]
      BY <2>2, <2>4 DEF Reads
    <3>6. G[V] = 10 * sol(W)[W] + digits[Max(V)]
      BY <2>1, <2>4
    <3> QED
      BY <3>4, <3>5, <3>6
  <2> QED
    BY <2>3, <2>4
<1>6. Reads(G, digits, T)
  <2>1. G = [U \in SUBSET T |-> IF U = {} THEN 0
                 ELSE 10 * G[U \ {Max(U)}] + digits[Max(U)]]
    BY <1>5
  <2> QED
    BY <2>1 DEF Reads
<1> QED
  BY <1>1, <1>6

\* The number that digits write is a natural number.
LEMMA NumberOfType ==
    ASSUME NEW digits \in Seq(Nat)
    PROVE  NumberOf(digits) \in Nat
<1> DEFINE D == DOMAIN digits
           g == CHOOSE g : Reads(g, digits, D)
           B == {s \in SUBSET D : g[s] \notin Nat}
<1>1. D = 1 .. Len(digits) /\ Len(digits) \in Nat /\ \A i \in D : digits[i] \in Nat
  OBVIOUS
<1>2. D \in SUBSET Int /\ IsFiniteSet(D)
  BY <1>1, FS_Interval
<1>3. Reads(g, digits, D)
  <2>1. \E h : Reads(h, digits, D)
    BY <1>2, ReadsExist
  <2> QED
    BY <2>1
<1> HIDE DEF g
<1>4. SUFFICES ASSUME B # {} PROVE FALSE
  BY NumberChosen DEF g
<1>5. PICK T \in B : \A U \in SUBSET T : U # T => U \notin B
  <2>1. B \in SUBSET SUBSET D
    OBVIOUS
  <2> HIDE DEF B
  <2> QED
    BY <1>2, <1>4, <2>1, LeastSubset
<1>6. CASE T = {}
  BY <1>3, <1>5, <1>6 DEF Reads
<1>7. CASE T # {}
  <2> DEFINE U == T \ {Max(T)}
  <2>1. Max(T) \in T /\ T \in SUBSET D
    BY <1>2, <1>5, <1>7, LastMember, FS_Subset
  <2>2. U \in SUBSET T /\ U # T
    BY <2>1
  <2>3. g[U] \in Nat
    BY <1>5, <2>1, <2>2
  <2>4. g[T] = 10 * g[U] + digits[Max(T)]
    BY <1>3, <1>7, <2>1 DEF Reads
  <2>5. digits[Max(T)] \in Nat
    BY <1>1, <2>1
  <2> HIDE DEF U, D
  <2>6. g[T] \in Nat
    BY <2>3, <2>4, <2>5
  <2> QED
    BY <1>5, <2>6
<1> QED
  BY <1>6, <1>7

\* A string of digits cut out within its length is one.
LEMMA CutType ==
    ASSUME NEW s \in Seq(Nat), NEW m \in Nat \ {0}, NEW n \in Int, n <= Len(s)
    PROVE  SubSeq(s, m, n) \in Seq(Nat)
<1>1. Len(s) \in Nat
  OBVIOUS
<1>2. \A i \in m .. n : s[i] \in Nat
  BY <1>1, ElementOfSeq
<1> QED
  BY <1>2, SubSeqProperties

\* Padding is made of digits.
LEMMA ZerosType ==
    ASSUME NEW n \in Int
    PROVE  Zeros(n) \in Seq(Nat) /\ (n >= 0 => Len(Zeros(n)) = n)
           /\ Len(Zeros(n)) \in Nat /\ Len(Zeros(n)) >= n
<1>1. CASE n > 0
  <2>1. n \in Nat /\ Zeros(n) = [i \in 1 .. n |-> 0]
    BY <1>1 DEF Zeros
  <2>2. Zeros(n) \in Seq(Nat) /\ Len(Zeros(n)) = n
    BY <2>1
  <2> QED
    BY <2>1, <2>2
<1>2. CASE ~ (n > 0)
  <2>1. Zeros(n) = <<>>
    BY <1>2 DEF Zeros
  <2>2. Zeros(n) \in Seq(Nat) /\ Len(Zeros(n)) = 0
    BY <2>1
  <2> QED
    BY <1>2, <2>2
<1> QED
  BY <1>1, <1>2

\* Moving the point leaves digits before and after it.
LEMMA NormalizedType ==
    ASSUME NEW wire \in Wire
    PROVE  /\ normalizeScientificNotation(wire).int \in Seq(Nat)
           /\ normalizeScientificNotation(wire).frac \in Seq(Nat)
<1> DEFINE digits == wire.int \o wire.frac
           pointPos == Len(wire.int) + wire.exp
           padded == digits \o Zeros(pointPos - Len(digits))
<1>1. wire.int \in Seq(Nat) /\ wire.frac \in Seq(Nat) /\ wire.exp \in Int
  <2>1. wire.int \in Seq(0 .. 9) /\ wire.frac \in Seq(0 .. 9) /\ wire.exp \in Int
    BY DEF Wire
  <2> QED
    BY <2>1, SeqMonotonic
<1>2. digits \in Seq(Nat) /\ Len(digits) \in Nat /\ pointPos \in Int
  <2>1. digits \in Seq(Nat)
    BY <1>1, ConcatProperties
  <2>2. Len(wire.int) \in Nat
    BY <1>1, LenProperties
  <2> HIDE DEF digits
  <2> QED
    BY <1>1, <2>1, <2>2, LenProperties
<1> HIDE DEF digits, pointPos
<1>3. CASE pointPos <= 0
  <2>1. Zeros(-pointPos) \o digits \in Seq(Nat)
    BY <1>2, ZerosType, ConcatProperties
  <2>2. <<0>> \in Seq(Nat)
    OBVIOUS
  <2> QED
    BY <1>3, <2>1, <2>2 DEF normalizeScientificNotation, digits, pointPos
<1>4. CASE ~ (pointPos <= 0)
  <2>1. /\ padded \in Seq(Nat) /\ pointPos <= Len(padded)
    <3> DEFINE z == Zeros(pointPos - Len(digits))
    <3>1. z \in Seq(Nat) /\ Len(z) \in Nat /\ Len(z) >= pointPos - Len(digits)
      BY <1>2, ZerosType
    <3> HIDE DEF z
    <3>2. digits \o z \in Seq(Nat) /\ Len(digits \o z) = Len(digits) + Len(z)
      BY <1>2, <3>1, ConcatProperties
    <3> QED
      BY <1>2, <3>1, <3>2 DEF z
  <2> HIDE DEF padded
  <2>2. SubSeq(padded, 1, pointPos) \in Seq(Nat)
    BY <1>2, <2>1, CutType
  <2>3. SubSeq(digits, pointPos + 1, Len(digits)) \in Seq(Nat)
    BY <1>2, <1>4, CutType
  <2> QED
    BY <1>4, <2>2, <2>3 DEF normalizeScientificNotation, padded, digits, pointPos
<1> QED
  BY <1>3, <1>4

\* A price on the wire becomes a natural number.
LEMMA ScaledType ==
    ASSUME NEW wire \in Wires
    PROVE  Scaled[wire] \in Nat
<1> DEFINE decimal == normalizeScientificNotation(wire)
           padded == decimal.frac \o Zeros(PRICE_EXPONENT)
           cut == SubSeq(padded, 1, PRICE_EXPONENT)
<1>1. decimal.int \in Seq(Nat) /\ decimal.frac \in Seq(Nat)
  BY PricingAssumption, NormalizedType
<1> HIDE DEF decimal
<1>2. PRICE_EXPONENT \in Nat
  BY ExponentAssumption
<1>3. padded \in Seq(Nat) /\ PRICE_EXPONENT <= Len(padded)
  <2> DEFINE z == Zeros(PRICE_EXPONENT)
  <2>1. z \in Seq(Nat) /\ Len(z) \in Nat /\ Len(z) >= PRICE_EXPONENT
    BY <1>2, ZerosType
  <2> HIDE DEF z
  <2>2. decimal.frac \o z \in Seq(Nat)
        /\ Len(decimal.frac \o z) = Len(decimal.frac) + Len(z)
    BY <1>1, <2>1, ConcatProperties
  <2>3. Len(decimal.frac) \in Nat
    BY <1>1
  <2> QED
    BY <1>2, <2>1, <2>2, <2>3 DEF z
<1> HIDE DEF padded
<1>4. cut \in Seq(Nat)
  BY <1>2, <1>3, CutType
<1> HIDE DEF cut
<1>5. decimal.int \o cut \in Seq(Nat)
  BY <1>1, <1>4, ConcatProperties
<1>6. NumberOf(decimal.int \o cut) \in Nat
  BY <1>5, NumberOfType
<1> QED
  BY <1>6 DEF Scaled, priceScaled, decimalStringToScaled, decimal, padded, cut

-----------------------------------------------------------------------------
(***************************************************************************)
(* The cache, the requests under way and the two consumers.                *)
(*                                                                         *)
(* PricesFresh is not inductive: that an answer is fresh for the one who   *)
(* asked needs that he asked before now, that no request is older than its *)
(* timeout, and that whatever is cached was stamped in the past, within a  *)
(* timeout of its market.                                                  *)
(***************************************************************************)
Times == 0 .. MaxTime

Wallets == {r.wallet : r \in Requests} \cup {NoScan.wallet}

Flights == [asset : Assets, asked : Times]

Scans == [step : {"idle", "holdings", "prices"}, since : Times,
          attempt : 0 .. MaxAttempts, wallet : Wallets,
          already : {r.already : r \in Requests} \cup {{}},
          prices : [0 .. MaxAccounts -> Answered \cup {Awaited}]]

Passes == [step : {"sleep", "row", "price", "account", "transfer"},
           rows : Rows \cup {<<>>}, at : Nat, since : Times, time : Times,
           price : Answered]

OnRow == pass.step # "sleep" => pass.at \in DOMAIN pass.rows

Typed ==
    /\ now \in Times
    /\ cache \in [Assets -> Answered]
    /\ flight \in [Askers -> Flights \cup {NoFlight}]
    /\ scan \in Scans
    /\ pass \in Passes /\ OnRow

FlightOK ==
    \A a \in Askers : flight[a] # NoFlight =>
        /\ flight[a].asked <= now /\ now <= flight[a].asked + FetchTimeout
        /\ a = PassAsker => pass.step = "price"

\* A quote stamped by now, and the market's shortly before.
Stamp(p) == p.fetched <= now /\ p.quoted >= p.fetched - FetchTimeout

CacheOK == \A a \in Assets : IsQuote(cache[a]) => Stamp(cache[a])

ClockOK == scan.since <= now /\ pass.time <= now

FreshSince(p, time) ==
    /\ p.fetched >= time - MaxStaleness
    /\ p.quoted >= p.fetched - FetchTimeout

ScanFresh ==
    \A i \in 0 .. MaxAccounts : IsQuote(scan.prices[i]) => FreshSince(scan.prices[i], scan.since)

PassFresh == pass.step = "account" => FreshSince(pass.price, pass.time)

PriceInv == Typed /\ FlightOK /\ CacheOK /\ ClockOK /\ ScanFresh /\ PassFresh

\* The constants and the askers.
LEMMA Bounds ==
    /\ MaxTime \in Nat /\ MaxStaleness \in Nat /\ FetchTimeout \in Nat
    /\ MaxAccounts \in Nat /\ MaxAttempts \in Nat \ {0}
    /\ 0 \in Times /\ Times \subseteq Nat
    /\ SOL \in Assets /\ Allowlist \subseteq Assets
    /\ PassAsker \in Askers
    /\ \A i \in 0 .. MaxAccounts : <<"scan", i>> \in Askers /\ <<"scan", i>> # PassAsker
    /\ \A a \in Askers : a = PassAsker \/ (a[1] = "scan" /\ a[2] \in 0 .. MaxAccounts)
BY PricingAssumption DEF Times, Assets, PassAsker, Askers

\* What is in the cache, and what is waited for, are told apart.
LEMMA QuoteKinds ==
    /\ NoQuote \in Answered /\ ~ IsQuote(NoQuote) /\ ~ IsQuote(Awaited)
    /\ \A p \in Answered \cup {Awaited} : IsQuote(p) => p \in Quote
    /\ Quote \subseteq Answered
BY DEF Answered, IsQuote

\* A quote's moments are numbers.
LEMMA QuoteTimes ==
    ASSUME NEW p \in Quote
    PROVE  p.fetched \in Times /\ p.quoted \in Times /\ p.fetched \in Int /\ p.quoted \in Int
BY PricingAssumption DEF Quote, Times

\* A flight is not the absence of one.
LEMMA FlightKinds ==
    /\ \A f \in Flights \cup {NoFlight} : f # NoFlight => f \in Flights
    /\ \A f \in Flights : f.asset \in Assets /\ f.asked \in Times
    /\ \A f \in Flights : f # NoFlight
BY PricingAssumption DEF Flights, NoFlight, Times

\* Nothing is cached, asked or scanned in the beginning.
LEMMA PriceInit == Init => PriceInv
<1> SUFFICES ASSUME Init PROVE PriceInv
  OBVIOUS
<1> USE Bounds, QuoteKinds, FlightKinds
<1>1. NoScan \in Scans
  BY DEF NoScan, Scans, Wallets
<1>2. NoPass \in Passes /\ NoPass.step = "sleep"
  BY DEF NoPass, Passes
<1>3. Typed
  BY <1>1, <1>2 DEF Init, Typed, OnRow
<1>4. FlightOK /\ CacheOK
  BY DEF Init, FlightOK, CacheOK
<1>5. ClockOK
  BY DEF Init, ClockOK, NoScan, NoPass
<1>6. ScanFresh /\ PassFresh
  BY <1>2 DEF Init, ScanFresh, PassFresh, NoScan
<1> QED
  BY <1>3, <1>4, <1>5, <1>6 DEF PriceInv

\* What PriceInv says, spelt out with its types.
LEMMA Contents ==
    ASSUME PriceInv
    PROVE  /\ now \in Times /\ now \in Int
           /\ cache \in [Assets -> Answered] /\ flight \in [Askers -> Flights \cup {NoFlight}]
           /\ scan \in Scans /\ pass \in Passes
           /\ scan.since \in Int /\ pass.time \in Int
           /\ scan.prices \in [0 .. MaxAccounts -> Answered \cup {Awaited}]
           /\ pass.price \in Answered
<1>1. now \in Times /\ cache \in [Assets -> Answered]
      /\ flight \in [Askers -> Flights \cup {NoFlight}] /\ scan \in Scans /\ pass \in Passes
  BY DEF PriceInv, Typed
<1>2. scan.since \in Times /\ scan.prices \in [0 .. MaxAccounts -> Answered \cup {Awaited}]
  BY <1>1 DEF Scans
<1>3. pass.time \in Times /\ pass.price \in Answered
  BY <1>1 DEF Passes
<1>4. Times \subseteq Int
  BY Bounds
<1> QED
  BY <1>1, <1>2, <1>3, <1>4

\* A cached quote that is fresh now is fresh for whoever asked before.
LEMMA CachedIsFresh ==
    ASSUME PriceInv, NEW a \in Assets, Cached(a), NEW t \in Int, t <= now
    PROVE  cache[a] \in Quote /\ FreshSince(cache[a], t)
<1>1. cache[a] \in Quote /\ Stamp(cache[a]) /\ now - cache[a].fetched <= MaxStaleness
  BY Contents, QuoteKinds DEF PriceInv, CacheOK, Cached, Fresh
<1>2. cache[a].fetched \in Int /\ now \in Int /\ MaxStaleness \in Int
  BY <1>1, Contents, QuoteTimes, Bounds
<1>3. cache[a].fetched >= t - MaxStaleness
  BY <1>1, <1>2
<1> QED
  BY <1>1, <1>3 DEF FreshSince, Stamp

\* A scan moves while neither the clock, the cache, the flights nor the pass do.
LEMMA ScanOnly ==
    ASSUME PriceInv, scan' \in Scans, UNCHANGED <<now, cache, flight, pass>>,
           scan'.since <= now, ScanFresh'
    PROVE  PriceInv'
<1>1. Typed'
  BY DEF PriceInv, Typed, OnRow
<1>2. FlightOK' /\ CacheOK' /\ ClockOK' /\ PassFresh'
  BY DEF PriceInv, FlightOK, CacheOK, Stamp, ClockOK, PassFresh
<1> QED
  BY <1>1, <1>2 DEF PriceInv

\* A scan begins: what is cached for SOL is fresh from now on.
LEMMA StartScanKeeps ==
    ASSUME PriceInv, NEW r \in Requests, StartScan(r.wallet, r.already)
    PROVE  PriceInv'
<1> DEFINE first == IF Cached(SOL) THEN cache[SOL] ELSE Awaited
           fresh == [NoScan EXCEPT !.step = "holdings", !.since = now, !.attempt = 1,
                       !.wallet = r.wallet, !.already = r.already, !.prices[0] = first]
<1>1. now \in Times /\ 0 \in 0 .. MaxAccounts /\ 1 \in 0 .. MaxAttempts
  BY Contents, Bounds
<1>2. /\ first \in Answered \cup {Awaited}
      /\ IsQuote(first) => FreshSince(first, now)
  BY Contents, Bounds, QuoteKinds, CachedIsFresh
<1>3. /\ scan'.step = "holdings" /\ scan'.since = now
      /\ scan'.prices = [i \in 0 .. MaxAccounts |-> IF i = 0 THEN first ELSE NoQuote]
      /\ scan' = [step |-> "holdings", since |-> now, attempt |-> 1, wallet |-> r.wallet,
                  already |-> r.already,
                  prices |-> [i \in 0 .. MaxAccounts |-> IF i = 0 THEN first ELSE NoQuote]]
  BY <1>1 DEF StartScan, NoScan
<1> HIDE DEF first, fresh
<1>4. scan' \in Scans
  BY <1>1, <1>2, <1>3, QuoteKinds DEF Scans, Wallets
<1>5. ScanFresh'
  BY <1>2, <1>3, QuoteKinds DEF ScanFresh
<1>6. UNCHANGED <<now, cache, pass>>
  BY DEF StartScan
<1>7. /\ flight' \in [Askers -> Flights \cup {NoFlight}]
      /\ flight'[PassAsker] = flight[PassAsker]
      /\ \A a \in Askers : flight'[a] = flight[a] \/ flight'[a].asked = now
  BY <1>1, Contents, Bounds DEF StartScan, Flights
<1>8. FlightOK'
  BY <1>1, <1>6, <1>7, Contents, Bounds DEF PriceInv, FlightOK
<1>9. Typed'
  BY <1>4, <1>6, <1>7 DEF PriceInv, Typed, OnRow
<1>10. CacheOK' /\ ClockOK' /\ PassFresh'
  BY <1>1, <1>3, <1>6, Contents DEF PriceInv, CacheOK, Stamp, ClockOK, PassFresh
<1> QED
  BY <1>5, <1>8, <1>9, <1>10 DEF PriceInv

\* A retry, an answer or a failure of the transport changes the scan's step.
LEMMA RpcKeeps ==
    ASSUME PriceInv, Rpc \/ AnswerScan
    PROVE  PriceInv'
<1>1. scan \in Scans /\ scan.attempt \in 0 .. MaxAttempts /\ MaxAttempts \in Nat
  BY Contents, Bounds DEF Scans
<1>2. NoScan \in Scans /\ NoScan.since = 0
      /\ \A i \in 0 .. MaxAccounts : NoScan.prices[i] = NoQuote
  BY Bounds, QuoteKinds DEF NoScan, Scans, Wallets
<1>3. CASE RetryRpc \/ RpcAnswers
  <2>1. /\ scan' \in Scans /\ scan'.since = scan.since /\ scan'.prices = scan.prices
        /\ UNCHANGED <<now, cache, flight, pass>>
    <3>1. \E n \in 0 .. MaxAttempts : scan' = [scan EXCEPT !.attempt = n]
      BY <1>1, <1>3 DEF RetryRpc, RpcAnswers
    <3>2. UNCHANGED <<now, cache, flight, pass>>
      BY <1>3 DEF RetryRpc, RpcAnswers
    <3> QED
      BY <1>1, <3>1, <3>2 DEF Scans
  <2>2. ScanFresh' /\ scan'.since <= now
    BY <2>1 DEF PriceInv, ScanFresh, ClockOK
  <2> QED
    BY <2>1, <2>2, ScanOnly
<1>4. CASE RpcFails \/ AnswerScan
  <2>1. scan' = NoScan /\ UNCHANGED <<now, cache, flight, pass>>
    BY <1>4 DEF RpcFails, AnswerScan
  <2>2. ScanFresh' /\ scan'.since <= now
    BY <1>2, <2>1, QuoteKinds, Contents DEF ScanFresh, Times
  <2> QED
    BY <1>2, <2>1, <2>2, ScanOnly
<1> QED
  BY <1>3, <1>4 DEF Rpc

\* A relevant account is one of the accounts there may be.
LEMMA RelevantType ==
    ASSUME NEW w \in Wallets
    PROVE  Relevant(w) \subseteq 1 .. MaxAccounts
           /\ \A i \in Relevant(w) : w.accounts[i].mint \in Assets
<1>1. w.accounts \in Seq([mint : Nat, amount : Nat]) /\ Len(w.accounts) <= MaxAccounts
  <2>1. CASE w = NoScan.wallet
    <3>1. w.accounts = <<>>
      BY <2>1 DEF NoScan
    <3>2. <<>> \in Seq([mint : Nat, amount : Nat]) /\ Len(<<>>) = 0
      BY EmptySeq
    <3> QED
      BY <3>1, <3>2, Bounds
  <2>2. CASE \E r \in Requests : w = r.wallet
    BY <2>2, PricingAssumption
  <2> QED
    BY <2>1, <2>2 DEF Wallets
<1> QED
  BY <1>1, Bounds DEF Relevant

\* The scan asks for the accounts: what is cached is fresh.
LEMMA PriceAccountsKeeps ==
    ASSUME PriceInv, PriceAccounts
    PROVE  PriceInv'
<1> DEFINE mint(i) == scan.wallet.accounts[i].mint
           relevant == Relevant(scan.wallet)
           misses == {i \in relevant : ~ Cached(mint(i))}
           prices == [i \in 0 .. MaxAccounts |->
                        IF i \in misses THEN Awaited
                        ELSE IF i \in relevant THEN cache[mint(i)] ELSE scan.prices[i]]
<1>1. scan \in Scans /\ now \in Times /\ DOMAIN scan.prices = 0 .. MaxAccounts
  BY Contents
<1>2. relevant \subseteq 1 .. MaxAccounts /\ \A i \in relevant : mint(i) \in Assets
  <2>1. scan.wallet \in Wallets
    BY <1>1 DEF Scans
  <2> QED
    BY <2>1, RelevantType
<1>3. \A i \in 0 .. MaxAccounts :
        /\ prices[i] \in Answered \cup {Awaited}
        /\ IsQuote(prices[i]) => FreshSince(prices[i], scan.since)
  <2> TAKE i \in 0 .. MaxAccounts
  <2>1. CASE i \in misses
    BY <2>1, QuoteKinds
  <2>2. CASE i \in relevant \ misses
    <3>1. mint(i) \in Assets /\ Cached(mint(i)) /\ prices[i] = cache[mint(i)]
      BY <1>2, <2>2
    <3>2. scan.since \in Int /\ scan.since <= now
      BY Contents DEF PriceInv, ClockOK
    <3> HIDE DEF mint, prices
    <3> QED
      BY <3>1, <3>2, CachedIsFresh, QuoteKinds
  <2>3. CASE i \notin relevant
    <3>1. prices[i] = scan.prices[i]
      BY <2>3
    <3>2. IsQuote(scan.prices[i]) => FreshSince(scan.prices[i], scan.since)
      BY DEF PriceInv, ScanFresh
    <3> HIDE DEF prices
    <3> QED
      BY <3>1, <3>2, Contents
  <2> QED
    BY <2>1, <2>2, <2>3
<1>4. /\ scan' = [scan EXCEPT !.step = "prices", !.prices = prices]
      /\ flight' = [a \in Askers |-> IF a[1] = "scan" /\ a[2] \in misses
                       THEN [asset |-> mint(a[2]), asked |-> now] ELSE flight[a]]
      /\ UNCHANGED <<now, cache, pass>>
  BY <1>1 DEF PriceAccounts
<1>5. \A i \in misses : mint(i) \in Assets
  BY <1>2
<1>6. prices \in [0 .. MaxAccounts -> Answered \cup {Awaited}]
  BY <1>3
<1> HIDE DEF mint, relevant, misses, prices
<1>7. scan' \in Scans /\ scan'.prices = prices /\ scan'.since = scan.since
  BY <1>1, <1>4, <1>6 DEF Scans
<1>8. /\ flight' \in [Askers -> Flights \cup {NoFlight}]
      /\ flight'[PassAsker] = flight[PassAsker]
      /\ \A a \in Askers : flight'[a] = flight[a] \/ flight'[a].asked = now
  BY <1>1, <1>4, <1>5, Contents, Bounds DEF Flights, PassAsker
<1>9. FlightOK'
  BY <1>4, <1>8, Contents, Bounds DEF PriceInv, FlightOK
<1>10. Typed'
  BY <1>4, <1>7, <1>8 DEF PriceInv, Typed, OnRow
<1>11. ScanFresh' /\ ClockOK' /\ CacheOK' /\ PassFresh'
  BY <1>3, <1>4, <1>7 DEF PriceInv, ScanFresh, ClockOK, CacheOK, Stamp, PassFresh
<1> QED
  BY <1>9, <1>10, <1>11 DEF PriceInv

\* The next row's turn is a pass that is on a row and at no account.
LEMMA NextRowType ==
    ASSUME NEW p \in Passes, p.at \in DOMAIN p.rows
    PROVE  /\ NextRow(p) \in Passes
           /\ NextRow(p).step \in {"sleep", "row"}
           /\ NextRow(p).step # "sleep" => NextRow(p).at \in DOMAIN NextRow(p).rows
           /\ NextRow(p).time \in {0, p.time}
<1>1. p.rows \in Seq(Assets) /\ p.at \in Nat
  BY PricingAssumption, EmptySeq DEF Passes
<1>2. DOMAIN p.rows = 1 .. Len(p.rows) /\ Len(p.rows) \in Nat
  BY <1>1
<1>3. CASE p.at < Len(p.rows)
  <2>1. NextRow(p) = [p EXCEPT !.step = "row", !.at = @ + 1, !.price = NoQuote]
    BY <1>3 DEF NextRow
  <2>2. NextRow(p) \in Passes
    <3>1. p.at + 1 \in Nat /\ NoQuote \in Answered
      BY <1>1, QuoteKinds
    <3> QED
      BY <2>1, <3>1 DEF Passes
  <2>3. /\ NextRow(p).step = "row" /\ NextRow(p).at = p.at + 1
        /\ NextRow(p).rows = p.rows /\ NextRow(p).time = p.time
    BY <2>1 DEF Passes
  <2>4. p.at + 1 \in DOMAIN p.rows
    BY <1>1, <1>2, <1>3
  <2> QED
    BY <2>2, <2>3, <2>4
<1>4. CASE ~ (p.at < Len(p.rows))
  <2>1. NextRow(p) = NoPass
    BY <1>4 DEF NextRow
  <2>2. NoPass \in Passes
    BY Bounds, QuoteKinds DEF NoPass, Passes
  <2> QED
    BY <2>1, <2>2 DEF NoPass
<1> QED
  BY <1>3, <1>4

\* Past the gate, the pass works with the price it was given.
LEMMA PassGateType ==
    ASSUME NEW p \in Passes, p.at \in DOMAIN p.rows, NEW q \in Answered
    PROVE  /\ PassGate(p, q) \in Passes
           /\ PassGate(p, q).step \in {"sleep", "row", "account"}
           /\ PassGate(p, q).step # "sleep" => PassGate(p, q).at \in DOMAIN PassGate(p, q).rows
           /\ PassGate(p, q).time \in {0, p.time}
           /\ PassGate(p, q).step = "account" =>
                IsQuote(q) /\ PassGate(p, q).price = q /\ PassGate(p, q).time = p.time
<1>1. CASE isPriceFreshEnough(q, p.since)
  <2>1. PassGate(p, q) = [p EXCEPT !.step = "account", !.price = q]
    BY <1>1 DEF PassGate
  <2>2. IsQuote(q)
    BY <1>1 DEF isPriceFreshEnough
  <2> QED
    BY <2>1, <2>2 DEF Passes
<1>2. CASE ~ isPriceFreshEnough(q, p.since)
  <2>1. PassGate(p, q) = NextRow(p)
    BY <1>2 DEF PassGate
  <2> QED
    BY <2>1, NextRowType
<1> QED
  BY <1>1, <1>2

\* The pass moves while neither the clock, the cache nor the scan do, and asks
\* for nothing.
LEMMA PassOnly ==
    ASSUME PriceInv, pass.step # "price", pass' \in Passes, OnRow', PassFresh',
           pass'.time <= now, UNCHANGED <<now, cache, flight, scan>>
    PROVE  PriceInv'
<1>1. Typed'
  BY DEF PriceInv, Typed
<1>2. FlightOK'
  BY DEF PriceInv, FlightOK
<1>3. CacheOK' /\ ClockOK' /\ ScanFresh'
  BY DEF PriceInv, CacheOK, Stamp, ClockOK, ScanFresh
<1> QED
  BY <1>1, <1>2, <1>3 DEF PriceInv

\* Zero and the moments kept are not in the future.
LEMMA NotInFuture ==
    ASSUME PriceInv, NEW t \in {0, pass.time}
    PROVE  t <= now
<1>1. now \in Int /\ 0 <= now
  BY Contents, Bounds DEF Times
<1> QED
  BY <1>1 DEF PriceInv, ClockOK

\* A pass begins with its first row.
LEMMA StartPassKeeps ==
    ASSUME PriceInv, NEW rows \in Rows, StartPass(rows)
    PROVE  PriceInv'
<1>1. rows \in Seq(Assets) /\ rows # <<>> /\ now \in Times
  BY PricingAssumption, Contents DEF StartPass
<1>2. 1 \in DOMAIN rows
  BY <1>1
<1>3. pass' = [step |-> "row", rows |-> rows, at |-> 1, since |-> now, time |-> 0,
               price |-> NoQuote]
  BY DEF StartPass, NoPass
<1>4. pass' \in Passes
  BY <1>1, <1>3, Bounds, QuoteKinds DEF Passes
<1>5. OnRow' /\ PassFresh'
  BY <1>2, <1>3 DEF OnRow, PassFresh
<1>6. pass'.time <= now
  BY <1>3, NotInFuture
<1>7. pass.step # "price" /\ UNCHANGED <<now, cache, flight, scan>>
  BY DEF StartPass
<1> QED
  BY <1>4, <1>5, <1>6, <1>7, PassOnly

\* The row asks for its price, or has it from the cache.
LEMMA PriceRowKeeps ==
    ASSUME PriceInv, PriceRow
    PROVE  PriceInv'
<1> DEFINE asset == pass.rows[pass.at]
           begun == [pass EXCEPT !.time = now]
<1>1. pass \in Passes /\ pass.step = "row" /\ pass.at \in DOMAIN pass.rows /\ now \in Times
  BY Contents DEF PriceRow, PriceInv, Typed, OnRow
<1>2. asset \in Assets
  BY <1>1, PricingAssumption, EmptySeq DEF Passes
<1>3. /\ begun \in Passes /\ begun.step = "row" /\ begun.time = now
      /\ begun.at = pass.at /\ begun.rows = pass.rows
  BY <1>1 DEF Passes
<1>4. UNCHANGED <<now, cache, scan>>
  BY DEF PriceRow
<1>5. CASE Cached(asset) /\ pass' = PassGate(begun, cache[asset]) /\ UNCHANGED flight
  <2>1. now \in Int /\ now <= now
    BY Contents
  <2> HIDE DEF asset, begun
  <2>2. cache[asset] \in Quote /\ FreshSince(cache[asset], now) /\ cache[asset] \in Answered
    BY <1>2, <1>5, <2>1, CachedIsFresh, QuoteKinds
  <2>3. /\ pass' \in Passes /\ pass'.time \in {0, now}
        /\ pass'.step # "sleep" => pass'.at \in DOMAIN pass'.rows
        /\ pass'.step = "account" => pass'.price = cache[asset] /\ pass'.time = now
    BY <1>1, <1>3, <1>5, <2>2, PassGateType
  <2>4. OnRow' /\ PassFresh'
    BY <2>2, <2>3 DEF OnRow, PassFresh
  <2>5. pass'.time <= now
    BY <2>1, <2>3, NotInFuture
  <2> QED
    BY <1>1, <1>4, <1>5, <2>3, <2>4, <2>5, PassOnly
<1>6. CASE /\ pass' = [begun EXCEPT !.step = "price"]
           /\ flight' = [flight EXCEPT ![PassAsker] = [asset |-> asset, asked |-> now]]
  <2>1. pass' \in Passes /\ pass'.step = "price" /\ pass'.time = now
        /\ pass'.at = pass.at /\ pass'.rows = pass.rows
    BY <1>3, <1>6 DEF Passes
  <2>2. /\ flight' \in [Askers -> Flights \cup {NoFlight}]
        /\ \A a \in Askers : flight'[a] = flight[a] \/ flight'[a].asked = now
    <3> HIDE DEF asset
    <3>1. [asset |-> asset, asked |-> now] \in Flights
      BY <1>1, <1>2 DEF Flights
    <3> QED
      BY <1>6, <3>1, Contents, Bounds
  <2>3. FlightOK'
    BY <1>4, <2>1, <2>2, Contents, Bounds DEF PriceInv, FlightOK
  <2>4. Typed'
    BY <1>1, <1>4, <2>1, <2>2 DEF PriceInv, Typed, OnRow
  <2>5. CacheOK' /\ ClockOK' /\ ScanFresh' /\ PassFresh'
    BY <1>4, <2>1, Contents DEF PriceInv, CacheOK, Stamp, ClockOK, ScanFresh, PassFresh
  <2> QED
    BY <2>3, <2>4, <2>5 DEF PriceInv
<1> QED
  BY <1>5, <1>6 DEF PriceRow

\* The row is swept, skipped, or ends the pass.
LEMMA RowKeeps ==
    ASSUME PriceInv, UsePrice \/ EndRow \/ AbortPass
    PROVE  PriceInv'
<1>1. /\ pass \in Passes /\ pass.step \in {"account", "transfer"}
      /\ pass.at \in DOMAIN pass.rows /\ now \in Times /\ now \in Int
      /\ UNCHANGED <<now, cache, flight, scan>>
  BY Contents DEF UsePrice, EndRow, AbortPass, PriceInv, Typed, OnRow
<1>2. CASE pass' = NextRow(pass)
  <2>1. /\ pass' \in Passes /\ pass'.step # "account" /\ pass'.time \in {0, pass.time}
        /\ pass'.step # "sleep" => pass'.at \in DOMAIN pass'.rows
    BY <1>1, <1>2, NextRowType
  <2>2. OnRow' /\ PassFresh' /\ pass'.time <= now
    BY <2>1, NotInFuture DEF OnRow, PassFresh
  <2> QED
    BY <1>1, <2>1, <2>2, PassOnly
<1>3. CASE pass' = [pass EXCEPT !.step = "transfer", !.time = now]
  <2>1. /\ pass' \in Passes /\ pass'.step = "transfer" /\ pass'.time = now
        /\ pass'.at = pass.at /\ pass'.rows = pass.rows
    BY <1>1, <1>3 DEF Passes
  <2>2. OnRow' /\ PassFresh' /\ pass'.time <= now
    BY <1>1, <2>1 DEF OnRow, PassFresh
  <2> QED
    BY <1>1, <2>1, <2>2, PassOnly
<1>4. CASE pass' = NoPass
  <2>1. pass' \in Passes /\ pass'.step = "sleep" /\ pass'.time = 0
    BY <1>4, Bounds, QuoteKinds DEF NoPass, Passes
  <2>2. OnRow' /\ PassFresh' /\ pass'.time <= now
    BY <2>1, NotInFuture DEF OnRow, PassFresh
  <2> QED
    BY <1>1, <2>1, <2>2, PassOnly
<1> QED
  BY <1>2, <1>3, <1>4 DEF UsePrice, EndRow, AbortPass

\* A request ends, with a price or without: whoever asked has what came.
LEMMA DeliverKeeps ==
    ASSUME PriceInv, NEW asker \in Askers, flight[asker] # NoFlight, NEW p \in Answered,
           IsQuote(p) => \A t \in Int : t <= now => FreshSince(p, t),
           Deliver(asker, p), now' = now, flight' = [flight EXCEPT ![asker] = NoFlight],
           cache' \in [Assets -> Answered], CacheOK'
    PROVE  PriceInv'
<1>1. /\ flight' \in [Askers -> Flights \cup {NoFlight}]
      /\ flight'[asker] = NoFlight
      /\ \A a \in Askers : a # asker => flight'[a] = flight[a]
  BY Contents
<1>2. now' \in Times /\ now \in Int
  BY Contents
<1>3. CASE asker = PassAsker
  <2>1. pass.step = "price" /\ pass \in Passes /\ pass.at \in DOMAIN pass.rows
        /\ pass.time <= now /\ pass.time \in Int
    BY <1>3, Contents DEF PriceInv, FlightOK, Typed, OnRow, ClockOK
  <2>2. pass' = PassGate(pass, p) /\ scan' = scan
    BY <1>3 DEF Deliver
  <2>3. /\ pass' \in Passes /\ pass'.time \in {0, pass.time}
        /\ pass'.step # "sleep" => pass'.at \in DOMAIN pass'.rows
        /\ pass'.step = "account" => IsQuote(p) /\ pass'.price = p /\ pass'.time = pass.time
    BY <2>1, <2>2, PassGateType
  <2>4. Typed'
    BY <1>1, <1>2, <2>2, <2>3 DEF PriceInv, Typed, OnRow
  <2>5. FlightOK'
    BY <1>1, <1>3 DEF PriceInv, FlightOK
  <2>6. pass'.time <= now'
    BY <2>3, NotInFuture
  <2>7. ClockOK' /\ ScanFresh' /\ PassFresh'
    BY <2>1, <2>2, <2>3, <2>6 DEF PriceInv, ClockOK, ScanFresh, PassFresh
  <2> QED
    BY <2>4, <2>5, <2>7 DEF PriceInv
<1>4. CASE asker # PassAsker
  <2>1. asker[2] \in 0 .. MaxAccounts /\ pass' = pass
        /\ scan' = IF scan.step = "idle" THEN scan
                   ELSE [scan EXCEPT !.prices[asker[2]] = p]
    BY <1>4, Bounds DEF Deliver
  <2>2. scan \in Scans /\ scan.prices \in [0 .. MaxAccounts -> Answered \cup {Awaited}]
        /\ scan.since \in Int /\ scan.since <= now
    BY Contents DEF PriceInv, ClockOK
  <2>3. /\ scan' \in Scans /\ scan'.since = scan.since
        /\ \A i \in 0 .. MaxAccounts : scan'.prices[i] \in {scan.prices[i], p}
    <3>1. CASE scan.step = "idle"
      BY <2>1, <2>2, <3>1
    <3>2. CASE scan.step # "idle"
      <4> DEFINE prices == [scan.prices EXCEPT ![asker[2]] = p]
      <4>1. scan' = [scan EXCEPT !.prices = prices]
        BY <2>1, <3>2
      <4>2. prices \in [0 .. MaxAccounts -> Answered \cup {Awaited}]
        BY <2>1, <2>2
      <4>3. \A i \in 0 .. MaxAccounts : prices[i] \in {scan.prices[i], p}
        BY <2>1, <2>2
      <4> HIDE DEF prices
      <4> QED
        BY <2>2, <4>1, <4>2, <4>3 DEF Scans
    <3> QED
      BY <3>1, <3>2
  <2>4. ScanFresh'
    BY <2>2, <2>3 DEF PriceInv, ScanFresh
  <2>5. Typed' /\ FlightOK'
    BY <1>1, <1>2, <1>4, <2>1, <2>3 DEF PriceInv, Typed, OnRow, FlightOK
  <2>6. ClockOK' /\ PassFresh'
    BY <2>1, <2>3 DEF PriceInv, ClockOK, PassFresh
  <2> QED
    BY <2>4, <2>5, <2>6 DEF PriceInv
<1> QED
  BY <1>3, <1>4

\* A price that arrives is of now, and of a market no older than its request.
LEMMA StampedIsFresh ==
    ASSUME PriceInv, NEW asker \in Askers, flight[asker] # NoFlight, NEW wire \in Wires
    PROVE  /\ Stamped(wire, flight[asker].asked) \in Quote
           /\ Stamped(wire, flight[asker].asked).fetched = now
           /\ Stamp(Stamped(wire, flight[asker].asked))
           /\ \A t \in Int : t <= now => FreshSince(Stamped(wire, flight[asker].asked), t)
<1> DEFINE asked == flight[asker].asked
           p == Stamped(wire, asked)
<1>1. asked \in Times /\ now \in Times /\ now <= asked + FetchTimeout
  BY Contents, FlightKinds DEF PriceInv, FlightOK
<1>2. Scaled[wire] \in Nat
  BY ScaledType
<1> HIDE DEF asked
<1>3. p.fetched = now /\ p.quoted = asked
      /\ p = [wire |-> wire, scaled |-> Scaled[wire], quoted |-> asked, fetched |-> now]
  BY DEF Stamped
<1>4. p \in Quote
  BY <1>1, <1>2, <1>3 DEF Quote, Times
<1>5. asked >= now - FetchTimeout /\ now <= now /\ now \in Int /\ MaxStaleness \in Nat
  BY <1>1, Bounds
<1> HIDE DEF p
<1>6. Stamp(p)
  BY <1>3, <1>5 DEF Stamp
<1>7. \A t \in Int : t <= now => FreshSince(p, t)
  BY <1>3, <1>5 DEF FreshSince
<1> QED
  BY <1>3, <1>4, <1>6, <1>7 DEF p, asked

\* An answer takes the asset's row.
LEMMA AnswerKeeps ==
    ASSUME PriceInv, NEW asker \in Askers, NEW wire \in Wires, Answer(asker, wire)
    PROVE  PriceInv'
<1> DEFINE p == Stamped(wire, flight[asker].asked)
<1>1. flight[asker] # NoFlight
  BY DEF Answer
<1>2. /\ p \in Quote /\ Stamp(p) /\ p \in Answered
      /\ \A t \in Int : t <= now => FreshSince(p, t)
  BY <1>1, StampedIsFresh, QuoteKinds
<1>3. /\ cache' = [cache EXCEPT ![flight[asker].asset] = p]
      /\ Deliver(asker, p) /\ now' = now
      /\ flight' = [flight EXCEPT ![asker] = NoFlight]
  BY DEF Answer
<1> HIDE DEF p
<1>4. cache' \in [Assets -> Answered]
  BY <1>2, <1>3, Contents
<1>5. CacheOK'
  BY <1>2, <1>3, Contents DEF PriceInv, CacheOK, Stamp
<1> QED
  BY <1>1, <1>2, <1>3, <1>4, <1>5, DeliverKeeps

\* A request without an answer leaves the row alone.
LEMMA FetchFailsKeeps ==
    ASSUME PriceInv, NEW asker \in Askers, FetchFails(asker)
    PROVE  PriceInv'
<1>1. /\ flight[asker] # NoFlight /\ Deliver(asker, NoQuote)
      /\ flight' = [flight EXCEPT ![asker] = NoFlight] /\ UNCHANGED <<now, cache>>
  BY DEF FetchFails
<1>2. cache' \in [Assets -> Answered] /\ CacheOK'
  BY <1>1, Contents DEF PriceInv, CacheOK, Stamp
<1> QED
  BY <1>1, <1>2, DeliverKeeps, QuoteKinds

\* Time passes for what is cached, and no further than a request's timeout.
LEMMA TickKeeps ==
    ASSUME PriceInv, Tick
    PROVE  PriceInv'
<1>1. now \in Times /\ now < MaxTime /\ now' = now + 1 /\ UNCHANGED <<cache, flight, scan, pass>>
  BY Contents DEF Tick
<1>2. now \in Int /\ now' \in Times /\ MaxTime \in Nat /\ now' \in Int
  BY <1>1, Bounds DEF Times
<1>3. \A a \in Askers : flight[a] # NoFlight =>
        flight[a].asked \in Int /\ now < flight[a].asked + FetchTimeout
  <2> SUFFICES ASSUME NEW a \in Askers, flight[a] # NoFlight
               PROVE  flight[a].asked \in Int /\ now < flight[a].asked + FetchTimeout
    OBVIOUS
  <2>1. flight[a] \in Flights
    BY Contents, FlightKinds
  <2>2. flight[a].asked \in Int
    <3>1. flight[a].asked \in Times
      BY <2>1 DEF Flights
    <3> QED
      BY <3>1 DEF Times
  <2> QED
    BY <2>2 DEF Tick
<1>4. FlightOK'
  BY <1>1, <1>2, <1>3, Bounds DEF PriceInv, FlightOK
<1>5. CacheOK'
  <2> SUFFICES ASSUME NEW a \in Assets, IsQuote(cache[a])
               PROVE  Stamp(cache[a])'
    BY <1>1 DEF CacheOK
  <2>1. Stamp(cache[a]) /\ cache[a].fetched \in Int
    BY Contents, QuoteKinds, QuoteTimes DEF PriceInv, CacheOK
  <2> QED
    BY <1>1, <1>2, <2>1 DEF Stamp
<1>6. ClockOK'
  BY <1>1, <1>2, Contents DEF PriceInv, ClockOK
<1>7. Typed' /\ ScanFresh' /\ PassFresh'
  BY <1>1, <1>2 DEF PriceInv, Typed, OnRow, ScanFresh, PassFresh
<1> QED
  BY <1>4, <1>5, <1>6, <1>7 DEF PriceInv

\* One step of whoever moves.
LEMMA PriceStep == PriceInv /\ [Next]_vars => PriceInv'
<1> SUFFICES ASSUME PriceInv, [Next]_vars PROVE PriceInv'
  OBVIOUS
<1>1. CASE \E r \in Requests : StartScan(r.wallet, r.already)
  BY <1>1, StartScanKeeps
<1>2. CASE Rpc \/ AnswerScan
  BY <1>2, RpcKeeps
<1>3. CASE PriceAccounts
  BY <1>3, PriceAccountsKeeps
<1>4. CASE \E rows \in Rows : StartPass(rows)
  BY <1>4, StartPassKeeps
<1>5. CASE PassWorks
  BY <1>5, PriceRowKeeps, RowKeeps DEF PassWorks
<1>6. CASE \E asker \in Askers : FlightEnds(asker)
  BY <1>6, AnswerKeeps, FetchFailsKeeps DEF FlightEnds
<1>7. CASE Tick
  BY <1>7, TickKeeps
<1>8. CASE UNCHANGED vars
  BY <1>8 DEF vars, PriceInv, Typed, OnRow, FlightOK, CacheOK, Stamp, ClockOK, ScanFresh,
     PassFresh
<1> QED
  BY <1>1, <1>2, <1>3, <1>4, <1>5, <1>6, <1>7, <1>8 DEF Next

\* The invariant holds of every behaviour.
LEMMA PriceInvariant == Spec => []PriceInv
<1> QED
  BY PriceInit, PriceStep, PTL DEF Spec

\* Whatever the wallets, the rows and the market, the cache holds quotes, each
\* consumer has a price, none, or waits for one, and no request is from the
\* future (priceCache.ts, scanWallet.ts, index.ts).
THEOREM PricingTypeCorrect == Spec => []PricingTypeOK
<1>1. PriceInv => PricingTypeOK
  <2> SUFFICES ASSUME PriceInv PROVE PricingTypeOK
    OBVIOUS
  <2>1. now \in 0 .. MaxTime /\ cache \in [Assets -> Answered] /\ pass.price \in Answered
        /\ scan.prices \in [0 .. MaxAccounts -> Answered \cup {Awaited}]
    BY Contents DEF Times
  <2>2. scan.step \in {"idle", "holdings", "prices"} /\ scan.attempt \in 0 .. MaxAttempts
    BY Contents DEF Scans
  <2>3. pass.step \in {"sleep", "row", "price", "account", "transfer"}
    BY Contents DEF Passes
  <2>4. \A a \in Askers : flight[a] = NoFlight
          \/ flight[a] \in [asset : Assets, asked : 0 .. now]
    <3> SUFFICES ASSUME NEW a \in Askers, flight[a] # NoFlight
                 PROVE  flight[a] \in [asset : Assets, asked : 0 .. now]
      OBVIOUS
    <3>1. flight[a] \in Flights /\ flight[a].asked <= now /\ now \in Times
      BY Contents, FlightKinds DEF PriceInv, FlightOK
    <3>2. flight[a].asked \in 0 .. now
      BY <3>1, Bounds DEF Flights, Times
    <3> QED
      BY <3>1, <3>2 DEF Flights
  <2> QED
    BY <2>1, <2>2, <2>3, <2>4 DEF PricingTypeOK
<1> QED
  BY <1>1, PriceInvariant, PTL

\* Overlapping requests of any number of assets and accounts never hand on a
\* price that is older than the bound when it is asked for, or older than one
\* request when it is stamped (priceCache.ts:27-59).
THEOREM PricesStayFresh == Spec => []PricesFresh
<1>1. PriceInv => PricesFresh
  <2> SUFFICES ASSUME PriceInv PROVE PricesFresh
    OBVIOUS
  <2>1. DOMAIN scan.prices = 0 .. MaxAccounts
    BY Contents
  <2> QED
    BY <2>1 DEF PricesFresh, PriceInv, ScanFresh, PassFresh, FreshSince
<1> QED
  BY <1>1, PriceInvariant, PTL

\* A slow request that overwrites a fast one's row stamps it later, never
\* earlier (priceCache.ts:46-58).
THEOREM RowsNeverOlder == Spec => RowNeverOlder
<1> DEFINE Older == \A a \in Assets : IsQuote(cache[a]) => cache'[a].fetched >= cache[a].fetched
<1>1. PriceInv /\ [Next]_vars => [Older]_vars
  <2> SUFFICES ASSUME PriceInv, Next PROVE Older
    OBVIOUS
  <2>1. \A a \in Assets : IsQuote(cache[a]) =>
          cache[a].fetched \in Int /\ cache[a].fetched <= now
    BY Contents, QuoteKinds, QuoteTimes DEF PriceInv, CacheOK, Stamp
  <2>2. CASE UNCHANGED cache
    BY <2>1, <2>2
  <2>3. ASSUME NEW asker \in Askers, NEW wire \in Wires, Answer(asker, wire)
        PROVE  Older
    <3> DEFINE p == Stamped(wire, flight[asker].asked)
    <3>1. flight[asker] # NoFlight /\ cache' = [cache EXCEPT ![flight[asker].asset] = p]
      BY <2>3 DEF Answer
    <3>2. p.fetched = now
      BY <3>1, StampedIsFresh
    <3> HIDE DEF p
    <3>3. \A a \in Assets : cache'[a] = cache[a] \/ cache'[a] = p
      BY <3>1, Contents
    <3>4. now \in Int
      BY Contents
    <3> QED
      BY <2>1, <3>2, <3>3, <3>4
  <2>4. UNCHANGED cache \/ \E asker \in Askers, wire \in Wires : Answer(asker, wire)
    BY DEF Next, StartScan, Rpc, RetryRpc, RpcAnswers, RpcFails, AnswerScan, PriceAccounts,
       StartPass, PassWorks, PriceRow, UsePrice, EndRow, AbortPass, FlightEnds, FetchFails,
       Tick
  <2> QED
    BY <2>2, <2>3, <2>4
<1>2. Spec => [][Older]_vars
  BY <1>1, PriceInvariant, PTL DEF Spec
<1> QED
  BY <1>2 DEF RowNeverOlder

\* Of any balance, what may be selected leaves both reserves, and all that does
\* may be selected (reserve.ts, assertSolSelectionWithinOffer).
THEOREM ReserveAlwaysKept == Spec => []ReserveKept
<1>1. PriceInv => ReserveKept
  <2> SUFFICES ASSUME PriceInv, NEW minReserve \in 0 .. scan.wallet.lamports + 1,
                      NEW selected \in 1 .. scan.wallet.lamports
               PROVE  LET lamports == scan.wallet.lamports
                      IN  assertSolSelectionWithinOffer(selected,
                              computeSolReserve(lamports, minReserve))
                          <=> /\ lamports - selected >= minReserve
                              /\ lamports - selected >= lamports \div 10
    BY DEF ReserveKept
  <2>1. scan.wallet.lamports \in Nat
    <3>1. scan.wallet \in Wallets
      BY Contents DEF Scans
    <3>2. NoScan.wallet.lamports = 0
      BY DEF NoScan
    <3> QED
      BY <3>1, <3>2, PricingAssumption DEF Wallets
  <2> DEFINE lamports == scan.wallet.lamports
             tenth == lamports \div 10
  <2>2. lamports \in Nat /\ tenth \in Nat /\ tenth <= lamports
        /\ minReserve \in Nat /\ selected \in Nat \ {0}
    BY <2>1
  <2> HIDE DEF lamports, tenth
  <2>3. selected <= computeSolReserve(lamports, minReserve)
          <=> lamports - selected >= minReserve /\ lamports - selected >= tenth
    BY <2>2 DEF computeSolReserve, Greatest, tenth
  <2> QED
    BY <2>3 DEF assertSolSelectionWithinOffer, lamports, tenth
<1> QED
  BY <1>1, PriceInvariant, PTL

-----------------------------------------------------------------------------
(***************************************************************************)
(* Lists filtered and sorted: what Arranging chooses.                      *)
(***************************************************************************)
\* order is a total order, not reflexive, of the members of S.
Orders(order, S) ==
    /\ \A x \in S : <<x, x>> \notin order
    /\ \A x, y \in S : x # y => <<x, y>> \in order \/ <<y, x>> \in order
    /\ \A x, y, z \in S : <<x, y>> \in order /\ <<y, z>> \in order => <<x, z>> \in order

\* p lists members of S in the order, each once.
InOrder(p, order, n) ==
    \A k, l \in 1 .. n : k < l => <<p[k], p[l]>> \in order

\* Of some members of a finite set, one comes last.
LEMMA LastInOrder ==
    ASSUME NEW S, IsFiniteSet(S), NEW order, Orders(order, S), S # {}
    PROVE  \E x \in S : \A y \in S : y # x => <<y, x>> \in order
<1> DEFINE B == {T \in SUBSET S : T # {} /\ ~ \E x \in T : \A y \in T : y # x => <<y, x>> \in order}
<1> SUFFICES ASSUME B # {} PROVE FALSE
  OBVIOUS
<1>1. PICK T \in B : \A U \in SUBSET T : U # T => U \notin B
  <2>1. B \in SUBSET SUBSET S
    OBVIOUS
  <2> HIDE DEF B
  <2> QED
    BY <2>1, LeastSubset
<1>2. PICK x \in T : TRUE
  BY <1>1
<1> DEFINE U == T \ {x}
<1>3. U \in SUBSET T /\ U # T /\ T \subseteq S
  BY <1>2
<1>4. CASE U = {}
  BY <1>1, <1>2, <1>4
<1>5. CASE U # {}
  <2>1. PICK y \in U : \A z \in U : z # y => <<z, y>> \in order
    BY <1>1, <1>3, <1>5
  <2>2. CASE <<x, y>> \in order
    <3>1. \A z \in T : z # y => <<z, y>> \in order
      BY <2>1, <2>2
    <3> QED
      BY <1>1, <2>1, <3>1
  <2>3. CASE <<y, x>> \in order
    <3>1. ASSUME NEW z \in T, z # x PROVE <<z, x>> \in order
      <4>1. z = y \/ <<z, y>> \in order
        BY <2>1, <3>1
      <4> QED
        BY <1>2, <1>3, <2>1, <2>3, <4>1 DEF Orders
    <3> QED
      BY <1>1, <1>2, <3>1
  <2> QED
    BY <1>2, <1>3, <2>1, <2>2, <2>3 DEF Orders
<1> QED
  BY <1>4, <1>5

\* A finite set can be listed in a total order of its members.
LEMMA CanBeArranged ==
    ASSUME NEW S, IsFiniteSet(S), NEW order, Orders(order, S)
    PROVE  \E p \in [1 .. Cardinality(S) -> S] : InOrder(p, order, Cardinality(S))
<1> DEFINE Listed(T) == \E p \in [1 .. Cardinality(T) -> T] : InOrder(p, order, Cardinality(T))
           B == {T \in SUBSET S : ~ Listed(T)}
<1> SUFFICES ASSUME B # {} PROVE FALSE
  OBVIOUS
<1>1. PICK T \in B : \A U \in SUBSET T : U # T => U \notin B
  <2>1. B \in SUBSET SUBSET S
    OBVIOUS
  <2> HIDE DEF B
  <2> QED
    BY <2>1, LeastSubset
<1>2. T \subseteq S /\ IsFiniteSet(T) /\ ~ Listed(T) /\ Orders(order, T)
  BY FS_Subset DEF Orders
<1>3. CASE T = {}
  <2>1. Cardinality(T) = 0
    BY <1>3, FS_EmptySet
  <2>2. 1 .. 0 = {}
    OBVIOUS
  <2>3. /\ [i \in {} |-> i] \in [1 .. Cardinality(T) -> T]
        /\ InOrder([i \in {} |-> i], order, Cardinality(T))
    BY <2>1, <2>2 DEF InOrder
  <2> QED
    BY <1>2, <2>3
<1>4. CASE T # {}
  <2>1. PICK x \in T : \A y \in T : y # x => <<y, x>> \in order
    BY <1>2, <1>4, LastInOrder
  <2> DEFINE U == T \ {x}
             n == Cardinality(U)
  <2>2. U \in SUBSET T /\ U # T
    BY <2>1
  <2>3. Listed(U)
    BY <1>1, <1>2, <2>2
  <2>4. n \in Nat /\ Cardinality(T) = n + 1
    <3>1. IsFiniteSet(U) /\ Cardinality(U) = Cardinality(T) - 1
      BY <1>2, <2>1, FS_RemoveElement
    <3>2. Cardinality(U) \in Nat /\ Cardinality(T) \in Nat
      BY <1>2, <3>1, FS_CardinalityType
    <3> QED
      BY <3>1, <3>2
  <2>5. PICK p \in [1 .. n -> U] : InOrder(p, order, n)
    BY <2>3
  <2> DEFINE q == [i \in 1 .. n + 1 |-> IF i <= n THEN p[i] ELSE x]
  <2> HIDE DEF n
  <2>6. q \in [1 .. n + 1 -> T]
    BY <2>1, <2>4, <2>5
  <2>7. ASSUME NEW k \in 1 .. n + 1, NEW l \in 1 .. n + 1, k < l
        PROVE  <<q[k], q[l]>> \in order
    <3>1. k \in 1 .. n /\ q[k] = p[k] /\ p[k] \in U
      BY <2>4, <2>5, <2>7
    <3>2. CASE l = n + 1
      <4>1. q[l] = x
        BY <2>4, <3>2
      <4> QED
        BY <2>1, <3>1, <4>1
    <3>3. CASE l # n + 1
      <4>1. l \in 1 .. n /\ q[l] = p[l]
        BY <2>4, <3>3
      <4> QED
        BY <2>5, <2>7, <3>1, <4>1 DEF InOrder
    <3> QED
      BY <3>2, <3>3
  <2> HIDE DEF q
  <2>8. InOrder(q, order, n + 1)
    BY <2>7 DEF InOrder
  <2> QED
    BY <1>2, <2>4, <2>6, <2>8
<1> QED
  BY <1>3, <1>4

\* What Arranged chooses: every member once, in the order.
LEMMA ArrangedProperties ==
    ASSUME NEW S, IsFiniteSet(S), NEW order, Orders(order, S)
    PROVE  /\ Cardinality(S) \in Nat
           /\ Arranged(S, order) \in [1 .. Cardinality(S) -> S]
           /\ \A k, l \in 1 .. Cardinality(S) :
                k < l => <<Arranged(S, order)[k], Arranged(S, order)[l]>> \in order
           /\ \A k, l \in 1 .. Cardinality(S) :
                k # l => Arranged(S, order)[k] # Arranged(S, order)[l]
           /\ \A x \in S : \E k \in 1 .. Cardinality(S) : Arranged(S, order)[k] = x
<1> DEFINE n == Cardinality(S)
           p == Arranged(S, order)
<1>1. n \in Nat
  BY FS_CardinalityType
<1>2. p \in [1 .. n -> S] /\ \A k, l \in 1 .. n : k < l => <<p[k], p[l]>> \in order
  BY CanBeArranged DEF Arranged, InOrder
<1> HIDE DEF p
<1>3. ASSUME NEW k \in 1 .. n, NEW l \in 1 .. n, k # l PROVE p[k] # p[l]
  <2>1. k < l \/ l < k
    BY <1>1, <1>3
  <2>2. p[k] \in S /\ p[l] \in S
    BY <1>2
  <2> QED
    BY <1>2, <2>1, <2>2 DEF Orders
<1>4. p \in Injection(1 .. n, S)
  BY <1>2, <1>3 DEF Injection, IsInjective
<1>5. p \in Surjection(1 .. n, S)
  <2>1. Cardinality(1 .. n) = n
    BY <1>1, FS_Interval
  <2> QED
    BY <1>4, <2>1, FS_Injection
<1> QED
  BY <1>1, <1>2, <1>3, <1>5 DEF p, Surjection

\* Places of a list are ordered by their numbers.
LEMMA PlacesOrdered ==
    ASSUME NEW places \in SUBSET Int
    PROVE  Orders(FirstToLast(places), places)
<1>1. \A i, j \in places : <<i, j>> \in FirstToLast(places) <=> i < j
  BY DEF FirstToLast
<1> QED
  BY <1>1 DEF Orders

\* Where the entries a filter keeps were, and those a ranking puts in order.
KeptFrom(places) == Arranged(places, FirstToLast(places))
RankedFrom(assets) == Arranged(DOMAIN assets, Ranking(assets))

\* What a filter keeps: the entries at the places, each once, in their order.
LEMMA KeptProperties ==
    ASSUME NEW X, NEW list \in Seq(X), NEW places \in SUBSET (DOMAIN list)
    PROVE  /\ Cardinality(places) \in Nat /\ IsFiniteSet(places)
           /\ Kept(list, places) \in Seq(X)
           /\ Len(Kept(list, places)) = Cardinality(places)
           /\ KeptFrom(places) \in [1 .. Cardinality(places) -> places]
           /\ \A k \in 1 .. Cardinality(places) : Kept(list, places)[k] = list[KeptFrom(places)[k]]
           /\ \A k, l \in 1 .. Cardinality(places) :
                k < l => KeptFrom(places)[k] < KeptFrom(places)[l]
           /\ \A i \in places : \E k \in 1 .. Cardinality(places) : KeptFrom(places)[k] = i
<1> DEFINE n == Cardinality(places)
           at == KeptFrom(places)
<1>1. /\ DOMAIN list = 1 .. Len(list) /\ Len(list) \in Nat
      /\ \A i \in DOMAIN list : list[i] \in X
  OBVIOUS
<1>2. IsFiniteSet(places) /\ places \in SUBSET Int
  <2>1. IsFiniteSet(1 .. Len(list)) /\ 1 .. Len(list) \in SUBSET Int
    BY <1>1, FS_Interval
  <2> QED
    BY <1>1, <2>1, FS_Subset
<1>3. /\ n \in Nat /\ at \in [1 .. n -> places]
      /\ \A k, l \in 1 .. n : k < l => <<at[k], at[l]>> \in FirstToLast(places)
      /\ \A i \in places : \E k \in 1 .. n : at[k] = i
  BY <1>2, PlacesOrdered, ArrangedProperties DEF KeptFrom
<1>4. Kept(list, places) = [k \in 1 .. n |-> list[at[k]]]
  BY DEF Kept, KeptFrom
<1> HIDE DEF n, at
<1>5. \A k, l \in 1 .. n : k < l => at[k] < at[l]
  BY <1>3 DEF FirstToLast
<1>6. Kept(list, places) \in Seq(X) /\ Len(Kept(list, places)) = n
  BY <1>1, <1>3, <1>4
<1>7. \A k \in 1 .. n : Kept(list, places)[k] = list[at[k]]
  BY <1>4
<1> QED
  BY <1>2, <1>3, <1>5, <1>6, <1>7 DEF n, at

\* Lists of assets, each with a value and a mint.
Valued(assets) == \A i \in DOMAIN assets : assets[i].usdValue \in Nat /\ assets[i].mint \in Nat

\* The ranking is a total order, whatever the values and the mints.
LEMMA RankingOrders ==
    ASSUME NEW X, NEW assets \in Seq(X), Valued(assets)
    PROVE  Orders(Ranking(assets), DOMAIN assets)
<1> DEFINE value(i) == assets[i].usdValue
           mint(i) == assets[i].mint
           D == DOMAIN assets
<1>1. \A i \in D : i \in Int /\ value(i) \in Int /\ mint(i) \in Int
  BY DEF Valued
<1>2. \A i, j \in D : <<i, j>> \in Ranking(assets) <=>
          \/ Precedes(assets[i], assets[j])
          \/ ~ Precedes(assets[j], assets[i]) /\ i < j
  BY DEF Ranking
<1>3. \A i, j \in D : <<i, j>> \in Ranking(assets) <=>
          \/ value(i) > value(j)
          \/ value(i) = value(j) /\ mint(i) < mint(j)
          \/ value(i) = value(j) /\ mint(i) = mint(j) /\ i < j
  <2> TAKE i \in D, j \in D
  <2>1. /\ Precedes(assets[i], assets[j]) <=>
             value(i) > value(j) \/ (value(i) = value(j) /\ mint(i) < mint(j))
        /\ Precedes(assets[j], assets[i]) <=>
             value(j) > value(i) \/ (value(j) = value(i) /\ mint(j) < mint(i))
    BY DEF Precedes
  <2>2. <<i, j>> \in Ranking(assets) <=>
          \/ Precedes(assets[i], assets[j])
          \/ ~ Precedes(assets[j], assets[i]) /\ i < j
    BY <1>2
  <2>3. value(i) \in Int /\ value(j) \in Int /\ mint(i) \in Int /\ mint(j) \in Int
    BY <1>1
  <2> HIDE DEF value, mint, D
  <2> QED
    BY <2>1, <2>2, <2>3
<1> HIDE DEF value, mint, D
<1>4. \A i \in D : <<i, i>> \notin Ranking(assets)
  BY <1>1, <1>3
<1>5. \A i, j \in D : i # j => <<i, j>> \in Ranking(assets) \/ <<j, i>> \in Ranking(assets)
  BY <1>1, <1>3
<1>6. \A i, j, k \in D : <<i, j>> \in Ranking(assets) /\ <<j, k>> \in Ranking(assets)
          => <<i, k>> \in Ranking(assets)
  BY <1>1, <1>3
<1> QED
  BY <1>4, <1>5, <1>6 DEF Orders, D

\* What the ranking returns: every entry once, and none before one that precedes it.
LEMMA RankProperties ==
    ASSUME NEW X, NEW assets \in Seq(X), Valued(assets)
    PROVE  /\ Len(assets) \in Nat
           /\ rankAssets(assets) \in Seq(X)
           /\ Len(rankAssets(assets)) = Len(assets)
           /\ RankedFrom(assets) \in [1 .. Len(assets) -> 1 .. Len(assets)]
           /\ \A k \in 1 .. Len(assets) : rankAssets(assets)[k] = assets[RankedFrom(assets)[k]]
           /\ \A k, l \in 1 .. Len(assets) : k # l => RankedFrom(assets)[k] # RankedFrom(assets)[l]
           /\ \A i \in 1 .. Len(assets) : \E k \in 1 .. Len(assets) : RankedFrom(assets)[k] = i
           /\ \A k, l \in 1 .. Len(assets) : k < l =>
                ~ Precedes(rankAssets(assets)[l], rankAssets(assets)[k])
<1> DEFINE n == Len(assets)
           at == RankedFrom(assets)
<1>1. n \in Nat /\ DOMAIN assets = 1 .. n /\ \A i \in 1 .. n : assets[i] \in X
  OBVIOUS
<1>2. IsFiniteSet(DOMAIN assets) /\ Cardinality(DOMAIN assets) = n
  <2> HIDE DEF n
  <2>1. IsFiniteSet(1 .. n) /\ Cardinality(1 .. n) = IF 1 > n THEN 0 ELSE n - 1 + 1
    BY <1>1, FS_Interval
  <2> QED
    BY <1>1, <2>1
<1>3. /\ at \in [1 .. n -> 1 .. n]
      /\ \A k, l \in 1 .. n : k < l => <<at[k], at[l]>> \in Ranking(assets)
      /\ \A k, l \in 1 .. n : k # l => at[k] # at[l]
      /\ \A i \in 1 .. n : \E k \in 1 .. n : at[k] = i
  BY <1>1, <1>2, RankingOrders, ArrangedProperties DEF RankedFrom
<1>4. rankAssets(assets) = [k \in 1 .. n |-> assets[at[k]]]
  BY <1>1 DEF rankAssets, RankedFrom
<1> HIDE DEF n, at
<1>5. rankAssets(assets) \in Seq(X) /\ Len(rankAssets(assets)) = n
  BY <1>1, <1>3, <1>4
<1>6. ASSUME NEW k \in 1 .. n, NEW l \in 1 .. n, k < l
      PROVE  ~ Precedes(rankAssets(assets)[l], rankAssets(assets)[k])
  <2>1. <<at[k], at[l]>> \in Ranking(assets) /\ at[k] \in 1 .. n /\ at[l] \in 1 .. n
    BY <1>3, <1>6
  <2>2. \/ Precedes(assets[at[k]], assets[at[l]])
        \/ ~ Precedes(assets[at[l]], assets[at[k]])
    BY <2>1 DEF Ranking
  <2>3. ~ (Precedes(assets[at[k]], assets[at[l]]) /\ Precedes(assets[at[l]], assets[at[k]]))
    BY <1>1, <2>1 DEF Precedes, Valued
  <2> QED
    BY <1>4, <2>2, <2>3
<1>7. \A k \in 1 .. n : rankAssets(assets)[k] = assets[at[k]]
  BY <1>4
<1> QED
  BY <1>1, <1>3, <1>5, <1>6, <1>7 DEF n, at

-----------------------------------------------------------------------------
(***************************************************************************)
(* The selection of a scan.                                                *)
(***************************************************************************)
\* Where the entries of a filtered list were, once it is ranked.
SelectedFrom(list, places) ==
    [k \in 1 .. Cardinality(places) |-> KeptFrom(places)[RankedFrom(Kept(list, places))[k]]]

\* first is made of the first entries of a filtered list, ranked.
RankedFirst(first, held, places, slots) ==
    LET n == Cardinality(places)
        m == Least(slots, n)
        at == SelectedFrom(held, places)
    IN  /\ n \in Nat /\ m \in Nat /\ m <= n
        /\ Len(first) = m
        /\ at \in [1 .. n -> places]
        /\ \A k \in 1 .. m : first[k] = held[at[k]]
        /\ \A k, l \in 1 .. n : k < l => ~ Precedes(held[at[l]], held[at[k]])
        /\ \A i \in places : \E k \in 1 .. n : at[k] = i

\* Ranking the kept assets and cutting the list at the slots yields the best of
\* them, best first.
LEMMA FirstOfRanked ==
    ASSUME NEW X, NEW held \in Seq(X), Valued(held),
           NEW places \in SUBSET (DOMAIN held), NEW slots \in Nat,
           NEW first, first = FirstOf(rankAssets(Kept(held, places)), slots)
    PROVE  first \in Seq(X) /\ RankedFirst(first, held, places, slots)
<1> DEFINE n == Cardinality(places)
           m == Least(slots, n)
           kept == Kept(held, places)
           ranked == rankAssets(kept)
           from == KeptFrom(places)
           then == RankedFrom(kept)
<1>1. /\ n \in Nat /\ IsFiniteSet(places) /\ kept \in Seq(X) /\ Len(kept) = n
      /\ from \in [1 .. n -> places]
      /\ \A k \in 1 .. n : kept[k] = held[from[k]]
      /\ \A i \in places : \E k \in 1 .. n : from[k] = i
  BY KeptProperties
<1> HIDE DEF kept, n, from
<1>2. Valued(kept)
  <2>1. DOMAIN kept = 1 .. n
    BY <1>1
  <2>2. \A k \in 1 .. n : from[k] \in DOMAIN held /\ kept[k] = held[from[k]]
    BY <1>1
  <2> QED
    BY <2>1, <2>2 DEF Valued
<1>3. /\ ranked \in Seq(X) /\ Len(ranked) = n
      /\ \A k, l \in 1 .. n : k < l => ~ Precedes(ranked[l], ranked[k])
      /\ then \in [1 .. n -> 1 .. n]
      /\ \A k \in 1 .. n : ranked[k] = kept[then[k]]
      /\ \A i \in 1 .. n : \E k \in 1 .. n : then[k] = i
  <2>1. /\ ranked \in Seq(X) /\ Len(ranked) = Len(kept)
        /\ \A k, l \in 1 .. Len(kept) : k < l => ~ Precedes(ranked[l], ranked[k])
        /\ then \in [1 .. Len(kept) -> 1 .. Len(kept)]
        /\ \A k \in 1 .. Len(kept) : ranked[k] = kept[then[k]]
        /\ \A i \in 1 .. Len(kept) : \E k \in 1 .. Len(kept) : then[k] = i
    <3>1. kept \in Seq(X)
      BY <1>1
    <3> QED
      BY <3>1, <1>2, RankProperties
  <2> QED
    BY <1>1, <2>1
<1> HIDE DEF then
<1>4. m \in Nat /\ m <= n
  BY <1>1 DEF Least
<1>5. first = SubSeq(ranked, 1, m)
  BY <1>3 DEF FirstOf, Least, kept
<1> HIDE DEF ranked, m
<1>6. first \in Seq(X) /\ Len(first) = m /\ \A k \in 1 .. m : first[k] = ranked[k]
  <2>1. \A i \in 1 .. m : ranked[i] \in X
    BY <1>1, <1>3, <1>4
  <2>2. /\ first \in Seq(X) /\ Len(first) = IF 1 <= m THEN m - 1 + 1 ELSE 0
        /\ \A i \in 1 .. m - 1 + 1 : first[i] = ranked[1 + i - 1]
    BY <1>4, <1>5, <2>1, SubSeqProperties
  <2> QED
    BY <1>4, <2>2
<1> DEFINE at == SelectedFrom(held, places)
<1>7. /\ at \in [1 .. n -> places] /\ \A k \in 1 .. n : at[k] = from[then[k]]
      /\ \A k \in 1 .. n : ranked[k] = held[at[k]]
  <2>1. at = [k \in 1 .. n |-> from[then[k]]]
    BY DEF SelectedFrom, n, from, then, kept
  <2> HIDE DEF at
  <2> QED
    BY <1>1, <1>3, <2>1
<1>8. ASSUME NEW i \in places PROVE \E k \in 1 .. n : at[k] = i
  <2>1. PICK j \in 1 .. n : from[j] = i
    BY <1>1
  <2>2. PICK k \in 1 .. n : then[k] = j
    BY <1>3
  <2>3. at[k] = i
    BY <1>7, <2>1, <2>2
  <2> QED
    BY <2>3
<1> HIDE DEF at
<1>9. \A k \in 1 .. m : first[k] = held[at[k]]
  <2>1. \A k \in 1 .. m : k \in 1 .. n
    BY <1>1, <1>4
  <2> QED
    BY <1>6, <1>7, <2>1
<1>10. \A k, l \in 1 .. n : k < l => ~ Precedes(held[at[l]], held[at[k]])
  BY <1>3, <1>7
<1> QED
  BY <1>1, <1>4, <1>6, <1>7, <1>8, <1>9, <1>10 DEF n, m, at, RankedFirst

HeldAsset == [mint : Nat, amount : Nat, usdValue : Nat]

\* A price a scan may use is a quote of a positive number.
LEMMA UsablePrice ==
    ASSUME NEW p \in Answered \cup {Awaited}, NEW time, isPriceFreshEnough(p, time)
    PROVE  p \in Quote /\ p.scaled \in Nat \ {0} /\ PriceRatio(p) \in PositivePrice
<1>1. p \in Quote /\ p.scaled > 0
  BY QuoteKinds DEF isPriceFreshEnough
<1>2. p.scaled \in Nat /\ UnitsPerMicro \in Nat \ {0}
  BY <1>1, PricingAssumption DEF Quote
<1> QED
  BY <1>1, <1>2 DEF PriceRatio, PositivePrice, Price

\* A value is a number.
LEMMA UsdValueType ==
    ASSUME NEW p, PriceRatio(p) \in PositivePrice, NEW amount \in Nat
    PROVE  usdValue(amount, p) \in Nat
           /\ usdValue(amount, p) = ComputeUsdValueMicros(amount, PriceRatio(p))
<1> DEFINE q == PriceRatio(p)
<1>1. q.num \in Nat /\ q.den \in Nat \ {0}
  BY DEF PositivePrice, Price
<1>2. usdValue(amount, p) = (amount * q.num) \div q.den
  BY DEF usdValue, C!ComputeUsdValueMicros
<1>3. ComputeUsdValueMicros(amount, q) = (amount * q.num) \div q.den
  BY DEF ComputeUsdValueMicros
<1> HIDE DEF q
<1>4. amount * q.num \in Nat
  BY <1>1, SMT
<1>5. (amount * q.num) \div q.den \in Nat
  BY <1>1, <1>4, DivNat
<1> QED
  BY <1>2, <1>3, <1>5 DEF q

\* The wallets of a scan.
LEMMA WalletType ==
    ASSUME PriceInv
    PROVE  /\ scan.wallet \in Wallets /\ scan.wallet.lamports \in Nat
           /\ scan.wallet.accounts \in Seq([mint : Nat, amount : Nat])
           /\ Relevant(scan.wallet) \subseteq 1 .. MaxAccounts
           /\ Relevant(scan.wallet) \subseteq DOMAIN scan.wallet.accounts
           /\ \A i \in DOMAIN scan.wallet.accounts :
                /\ scan.wallet.accounts[i].mint \in Nat
                /\ scan.wallet.accounts[i].amount \in Nat
           /\ IsFiniteSet(scan.already)
<1>1. scan \in Scans
  BY Contents
<1>2. scan.wallet \in Wallets /\ scan.already \in {r.already : r \in Requests} \cup {{}}
  BY <1>1 DEF Scans
<1>3. scan.wallet.lamports \in Nat /\ scan.wallet.accounts \in Seq([mint : Nat, amount : Nat])
  <2>1. CASE scan.wallet = NoScan.wallet
    <3>1. scan.wallet.lamports = 0 /\ scan.wallet.accounts = <<>>
      BY <2>1 DEF NoScan
    <3> QED
      BY <3>1, EmptySeq
  <2>2. CASE \E r \in Requests : scan.wallet = r.wallet
    <3>1. scan.wallet \in [lamports : Nat, accounts : Seq([mint : Nat, amount : Nat])]
      BY <2>2, PricingAssumption
    <3> QED
      BY <3>1
  <2> QED
    BY <1>2, <2>1, <2>2 DEF Wallets
<1>4. IsFiniteSet(scan.already)
  BY <1>2, PricingAssumption, FS_EmptySet
<1>5. Relevant(scan.wallet) \subseteq 1 .. MaxAccounts
  BY <1>2, RelevantType
<1>6. Relevant(scan.wallet) \subseteq DOMAIN scan.wallet.accounts
  BY DEF Relevant
<1>7. \A i \in DOMAIN scan.wallet.accounts : scan.wallet.accounts[i] \in [mint : Nat, amount : Nat]
  BY <1>3, LenProperties, ElementOfSeq
<1> QED
  BY <1>2, <1>3, <1>4, <1>5, <1>6, <1>7

\* What is held was priced, and each entry is one relevant account's.
LEMMA HeldProperties ==
    ASSUME PriceInv
    PROVE  /\ Held(scan) \in Seq(HeldAsset) /\ Valued(Held(scan))
           /\ \A k \in DOMAIN Held(scan) : \E i \in Relevant(scan.wallet) :
                /\ isPriceFreshEnough(scan.prices[i], scan.since)
                /\ scan.prices[i] \in Quote /\ scan.prices[i].scaled \in Nat \ {0}
                /\ PriceRatio(scan.prices[i]) \in PositivePrice
                /\ Held(scan)[k].mint = scan.wallet.accounts[i].mint
                /\ Held(scan)[k].amount = scan.wallet.accounts[i].amount
                /\ Held(scan)[k].usdValue
                     = ComputeUsdValueMicros(Held(scan)[k].amount, PriceRatio(scan.prices[i]))
<1> DEFINE priced == {i \in Relevant(scan.wallet) : isPriceFreshEnough(scan.prices[i], scan.since)}
           at == Arranged(priced, FirstToLast(priced))
           n == Cardinality(priced)
           held(i) == [mint |-> scan.wallet.accounts[i].mint,
                       amount |-> scan.wallet.accounts[i].amount,
                       usdValue |-> usdValue(scan.wallet.accounts[i].amount, scan.prices[i])]
           list == [k \in 1 .. n |-> held(at[k])]
<1>1. Held(scan) = list
  BY DEF Held
<1>2. /\ Relevant(scan.wallet) \subseteq 1 .. MaxAccounts
      /\ Relevant(scan.wallet) \subseteq DOMAIN scan.wallet.accounts
  BY WalletType
<1>3. IsFiniteSet(priced) /\ priced \in SUBSET Int
  <2>1. IsFiniteSet(1 .. MaxAccounts) /\ 1 .. MaxAccounts \in SUBSET Int
    BY Bounds, FS_Interval
  <2> QED
    BY <1>2, <2>1, FS_Subset
<1>4. n \in Nat /\ at \in [1 .. n -> priced]
  BY <1>3, PlacesOrdered, ArrangedProperties
<1>5. ASSUME NEW i \in priced
      PROVE  /\ i \in Relevant(scan.wallet)
             /\ isPriceFreshEnough(scan.prices[i], scan.since)
             /\ scan.prices[i] \in Quote /\ scan.prices[i].scaled \in Nat \ {0}
             /\ PriceRatio(scan.prices[i]) \in PositivePrice
             /\ scan.wallet.accounts[i].mint \in Nat /\ scan.wallet.accounts[i].amount \in Nat
  <2>1. i \in 0 .. MaxAccounts /\ i \in DOMAIN scan.wallet.accounts
    BY <1>2, Bounds
  <2>2. scan.prices[i] \in Answered \cup {Awaited}
    BY <2>1, Contents
  <2>3. scan.wallet.accounts[i].mint \in Nat /\ scan.wallet.accounts[i].amount \in Nat
    BY <2>1, WalletType
  <2> QED
    BY <2>2, <2>3, UsablePrice
<1> HIDE DEF priced, at, n
<1>6. ASSUME NEW i \in priced
      PROVE  /\ held(i) \in HeldAsset
             /\ held(i).mint = scan.wallet.accounts[i].mint
             /\ held(i).amount = scan.wallet.accounts[i].amount
             /\ held(i).usdValue = ComputeUsdValueMicros(held(i).amount, PriceRatio(scan.prices[i]))
  <2>1. /\ usdValue(scan.wallet.accounts[i].amount, scan.prices[i]) \in Nat
        /\ usdValue(scan.wallet.accounts[i].amount, scan.prices[i])
             = ComputeUsdValueMicros(scan.wallet.accounts[i].amount, PriceRatio(scan.prices[i]))
    BY <1>5, UsdValueType
  <2> QED
    BY <1>5, <2>1 DEF HeldAsset
<1> HIDE DEF held
<1>7. list \in Seq(HeldAsset) /\ DOMAIN list = 1 .. n
  BY <1>4, <1>6
<1>8. \A k \in 1 .. n : at[k] \in priced /\ list[k] = held(at[k])
  BY <1>4
<1>9. Valued(list)
  BY <1>6, <1>7, <1>8 DEF Valued, HeldAsset
<1> HIDE DEF list
<1>10. ASSUME NEW k \in DOMAIN list
       PROVE  \E i \in Relevant(scan.wallet) :
                /\ isPriceFreshEnough(scan.prices[i], scan.since)
                /\ scan.prices[i] \in Quote /\ scan.prices[i].scaled \in Nat \ {0}
                /\ PriceRatio(scan.prices[i]) \in PositivePrice
                /\ list[k].mint = scan.wallet.accounts[i].mint
                /\ list[k].amount = scan.wallet.accounts[i].amount
                /\ list[k].usdValue
                     = ComputeUsdValueMicros(list[k].amount, PriceRatio(scan.prices[i]))
  <2>1. at[k] \in priced /\ list[k] = held(at[k])
    BY <1>7, <1>8
  <2>2. /\ at[k] \in Relevant(scan.wallet)
        /\ isPriceFreshEnough(scan.prices[at[k]], scan.since)
        /\ scan.prices[at[k]] \in Quote /\ scan.prices[at[k]].scaled \in Nat \ {0}
        /\ PriceRatio(scan.prices[at[k]]) \in PositivePrice
    BY <1>5, <2>1
  <2>3. /\ list[k].mint = scan.wallet.accounts[at[k]].mint
        /\ list[k].amount = scan.wallet.accounts[at[k]].amount
        /\ list[k].usdValue
             = ComputeUsdValueMicros(list[k].amount, PriceRatio(scan.prices[at[k]]))
    BY <1>6, <2>1
  <2> QED
    BY <2>2, <2>3
<1> QED
  BY <1>1, <1>7, <1>9, <1>10

\* The bounds of a selection.
LEMMA SelectionBounds ==
    /\ DustThreshold \in Nat /\ MaxSplAssets \in Nat
    /\ PriceInv => /\ RemainingSlots(scan.already, MaxSplAssets) \in Nat
                   /\ Cardinality(scan.already) \in Nat
<1>1. DustThreshold \in Nat /\ MaxSplAssets \in Nat
  BY PricingAssumption
<1>2. ASSUME PriceInv PROVE RemainingSlots(scan.already, MaxSplAssets) \in Nat
                            /\ Cardinality(scan.already) \in Nat
  <2>1. Cardinality(scan.already) \in Nat
    BY <1>2, WalletType, FS_CardinalityType
  <2> QED
    BY <1>1, <2>1 DEF RemainingSlots
<1> QED
  BY <1>1, <1>2

EligibleIn(held) == {i \in DOMAIN held : /\ held[i].mint \notin scan.already
                                        /\ held[i].usdValue >= DustThreshold}

\* What is selected, by the places it had among the holdings.
LEMMA SelectionPlaces ==
    ASSUME PriceInv
    PROVE  /\ SelectedSplAssets(scan) \in Seq(HeldAsset)
           /\ RankedFirst(SelectedSplAssets(scan), Held(scan), EligibleIn(Held(scan)),
                          RemainingSlots(scan.already, MaxSplAssets))
<1> DEFINE held == Held(scan)
           slots == RemainingSlots(scan.already, MaxSplAssets)
           eligible == EligibleIn(held)
           selected == SelectedSplAssets(scan)
<1>1. held \in Seq(HeldAsset) /\ Valued(held) /\ slots \in Nat
  BY HeldProperties, SelectionBounds
<1>2. eligible \in SUBSET (DOMAIN held)
  BY DEF EligibleIn
<1>3. selected = FirstOf(rankAssets(Kept(held, eligible)), slots)
  BY DEF SelectedSplAssets, selectSplAssets, Eligible, EligibleIn
<1> HIDE DEF held, slots, eligible, selected
<1>4. selected \in Seq(HeldAsset) /\ RankedFirst(selected, held, eligible, slots)
  BY <1>1, <1>2, <1>3, FirstOfRanked
<1> QED
  BY <1>4 DEF held, slots, eligible, selected

\* A best choice in every state of the invariant.
LEMMA SelectionKept == PriceInv => SelectionIsTop
<1> SUFFICES ASSUME PriceInv PROVE SelectionIsTop
  OBVIOUS
<1> DEFINE held == Held(scan)
           eligible == EligibleIn(held)
           n == Cardinality(eligible)
           slots == RemainingSlots(scan.already, MaxSplAssets)
           m == Least(slots, n)
           selected == SelectedSplAssets(scan)
           taken == {i \in eligible : Contains(selected, held[i])}
           at == SelectedFrom(held, eligible)
<1>1. /\ n \in Nat /\ m \in Nat /\ m <= n
      /\ selected \in Seq(HeldAsset) /\ Len(selected) = m
  BY SelectionPlaces DEF RankedFirst
<1>2. /\ at \in [1 .. n -> eligible]
      /\ \A k \in 1 .. m : selected[k] = held[at[k]]
      /\ \A k, l \in 1 .. n : k < l => ~ Precedes(held[at[l]], held[at[k]])
      /\ \A i \in eligible : \E k \in 1 .. n : at[k] = i
  BY SelectionPlaces DEF RankedFirst
<1>3. slots \in Nat /\ Cardinality(scan.already) \in Nat /\ MaxSplAssets \in Nat
  BY SelectionBounds
<1>4. /\ m = slots \/ m = n
      /\ m <= slots
      /\ slots > 0 => slots = MaxSplAssets - Cardinality(scan.already)
      /\ slots + Cardinality(scan.already) >= MaxSplAssets
  BY <1>1, <1>3 DEF Least, RemainingSlots
<1> DEFINE Best ==
             /\ Range(selected) \subseteq {held[i] : i \in eligible}
             /\ Len(selected) <= Cardinality(eligible)
             /\ \A i \in eligible \ taken, j \in taken : ~ Precedes(held[i], held[j])
             /\ \A k, l \in DOMAIN selected : k < l => ~ Precedes(selected[l], selected[k])
             /\ selected # <<>> => Len(selected) + Cardinality(scan.already) <= MaxSplAssets
             /\ Len(selected) < Cardinality(eligible) =>
                  Len(selected) + Cardinality(scan.already) >= MaxSplAssets
<1>5. Best
  <2> HIDE DEF held, eligible, slots, selected, m, at
  <2>1. DOMAIN selected = 1 .. m /\ \A k \in 1 .. m : k \in 1 .. n
    BY <1>1
  <2>2. Range(selected) \subseteq {held[i] : i \in eligible}
    <3>1. \A k \in 1 .. m : at[k] \in eligible /\ selected[k] = held[at[k]]
      BY <1>2, <2>1
    <3> QED
      BY <2>1, <3>1 DEF Range
  <2>3. Len(selected) <= Cardinality(eligible)
    BY <1>1
  <2>4. ASSUME NEW i \in eligible \ taken, NEW j \in taken
        PROVE  ~ Precedes(held[i], held[j])
    <3>1. PICK k \in 1 .. n : at[k] = i
      BY <1>2
    <3>2. PICK q \in 1 .. m : selected[q] = held[j]
      BY <1>1, <2>4 DEF Contains
    <3>3. k \notin 1 .. m
      <4>1. ASSUME k \in 1 .. m PROVE Contains(selected, held[i])
        BY <1>1, <1>2, <3>1, <4>1 DEF Contains
      <4> QED
        BY <2>4, <4>1
    <3>4. q < k /\ q \in 1 .. n /\ held[at[q]] = held[j]
      BY <1>1, <1>2, <2>1, <3>2, <3>3
    <3> QED
      BY <1>2, <3>1, <3>4
  <2>5. \A k, l \in DOMAIN selected : k < l => ~ Precedes(selected[l], selected[k])
    BY <1>2, <2>1
  <2>6. ASSUME selected # <<>>
        PROVE  Len(selected) + Cardinality(scan.already) <= MaxSplAssets
    <3>1. m > 0
      BY <1>1, <2>6, EmptySeq
    <3> QED
      BY <1>1, <1>3, <1>4, <3>1
  <2>7. Len(selected) < Cardinality(eligible) =>
          Len(selected) + Cardinality(scan.already) >= MaxSplAssets
    BY <1>1, <1>3, <1>4
  <2> QED
    BY <2>2, <2>3, <2>4, <2>5, <2>6, <2>7
<1> QED
  BY <1>5 DEF SelectionIsTop, EligibleIn

\* Whatever a wallet holds, and however its prices arrive, a scan answers a best
\* choice: nothing ineligible, nothing left out that ranks before what was
\* taken, and only the slots end the list (selectAssets.ts:38-61).
THEOREM SelectionsAreBest == Spec => []SelectionIsTop
BY PriceInvariant, SelectionKept, PTL

-----------------------------------------------------------------------------
(***************************************************************************)
(* A quote is exact: the digits of the number on the wire, moved, padded   *)
(* and cut off.                                                            *)
(***************************************************************************)
\* A quotient is known by what it leaves.
LEMMA QuotientIs ==
    ASSUME NEW n \in Nat, NEW d \in Nat \ {0}, NEW q \in Nat,
           q * d <= n, n < (q + 1) * d
    PROVE  n \div d = q
<1> DEFINE r == n \div d
<1>1. r \in Nat /\ r * d <= n /\ n < r * d + d
  BY DivNat
<1> HIDE DEF r
<1>2. q * d \in Nat /\ r * d \in Nat /\ (q + 1) * d = q * d + d /\ (r + 1) * d = r * d + d
  BY <1>1, SMT
<1>3. ~ (q + 1 <= r)
  <2>1. q + 1 \in Nat /\ (q + 1 <= r => (q + 1) * d <= r * d)
    BY <1>1, ProductMonotone
  <2> QED
    BY <1>1, <1>2, <2>1
<1>4. ~ (r + 1 <= q)
  <2>1. r + 1 \in Nat /\ (r + 1 <= q => (r + 1) * d <= q * d)
    BY <1>1, ProductMonotone
  <2> QED
    BY <1>1, <1>2, <2>1
<1> QED
  BY <1>1, <1>3, <1>4 DEF r

\* f is the powers of ten up to n.
Powers(f, n) ==
    /\ f \in [0 .. n -> Nat]
    /\ f[0] = 1
    /\ \A i \in 1 .. n : f[i] = 10 * f[i - 1]

\* There are powers of ten up to every number.
LEMMA PowersExist == \A n \in Nat : \E f : Powers(f, n)
<1> DEFINE B == {n \in Nat : ~ \E f : Powers(f, n)}
<1> SUFFICES ASSUME B # {} PROVE FALSE
  OBVIOUS
<1>1. PICK n \in B : \A m \in Nat : m < n => m \notin B
  <2>1. B \in SUBSET Nat
    OBVIOUS
  <2> HIDE DEF B
  <2> QED
    BY <2>1, LeastNumber
<1>2. CASE n = 0
  <2>1. Powers([i \in 0 .. 0 |-> 1], 0)
    BY DEF Powers
  <2> QED
    BY <1>1, <1>2, <2>1
<1>3. CASE n # 0
  <2>1. n \in Nat /\ n - 1 \in Nat /\ n - 1 < n
    BY <1>1, <1>3
  <2>2. PICK f : Powers(f, n - 1)
    BY <1>1, <2>1
  <2> DEFINE g == [i \in 0 .. n |-> IF i = n THEN 10 * f[n - 1] ELSE f[i]]
  <2>3. f \in [0 .. n - 1 -> Nat] /\ f[0] = 1 /\ \A i \in 1 .. n - 1 : f[i] = 10 * f[i - 1]
    BY <2>2 DEF Powers
  <2>4. f[n - 1] \in Nat
    BY <2>1, <2>3
  <2>5. g \in [0 .. n -> Nat]
    <3>1. \A i \in 0 .. n : i # n => i \in 0 .. n - 1
      BY <2>1
    <3>2. 10 * f[n - 1] \in Nat
      BY <2>4
    <3> QED
      BY <2>3, <3>1, <3>2
  <2>6. g[0] = 1
    BY <1>3, <2>1, <2>3
  <2>7. ASSUME NEW i \in 1 .. n PROVE g[i] = 10 * g[i - 1]
    <3>1. i \in 0 .. n /\ i - 1 \in 0 .. n /\ i - 1 # n
      BY <2>1
    <3>2. g[i - 1] = f[i - 1]
      BY <3>1
    <3>3. CASE i = n
      BY <3>1, <3>2, <3>3
    <3>4. CASE i # n
      <4>1. i \in 1 .. n - 1
        BY <2>1, <3>4
      <4>2. g[i] = f[i]
        BY <3>1, <3>4
      <4> QED
        BY <2>3, <3>2, <4>1, <4>2
    <3> QED
      BY <3>3, <3>4
  <2> HIDE DEF g
  <2>8. Powers(g, n)
    BY <2>5, <2>6, <2>7 DEF Powers
  <2> QED
    BY <1>1, <2>8
<1> QED
  BY <1>2, <1>3

\* They are the same as far as both go.
LEMMA PowersAgree ==
    ASSUME NEW m \in Nat, NEW n \in Nat, m <= n, NEW f, Powers(f, m), NEW g, Powers(g, n)
    PROVE  f[m] = g[m]
<1> DEFINE S == {i \in 0 .. m : f[i] = g[i]}
<1>1. 0 \in S
  BY DEF Powers
<1>2. ASSUME NEW i \in 1 .. m, i - 1 \in S PROVE i \in S
  <2>1. i \in 1 .. n /\ i \in 0 .. m
    OBVIOUS
  <2>2. f[i] = 10 * f[i - 1] /\ g[i] = 10 * g[i - 1]
    BY <2>1 DEF Powers
  <2> QED
    BY <1>2, <2>1, <2>2
<1> HIDE DEF S
<1>3. 0 .. m \subseteq S
  BY <1>1, <1>2, StepByStep
<1>4. m \in S
  BY <1>3
<1> QED
  BY <1>4 DEF S

\* What PowerOfTen is.
LEMMA PowerProperties ==
    /\ PowerOfTen[0] = 1
    /\ \A n \in Nat : PowerOfTen[n] \in Nat \ {0} /\ PowerOfTen[n + 1] = 10 * PowerOfTen[n]
<1> DEFINE to(n) == CHOOSE f : Powers(f, n)
           F == [n \in Nat |-> to(n)[n]]
<1>1. \A n \in Nat : Powers(to(n), n)
  BY PowersExist
<1> HIDE DEF to
<1>2. ASSUME NEW n \in Nat PROVE F[n] = IF n = 0 THEN 1 ELSE 10 * F[n - 1]
  <2>1. CASE n = 0
    BY <1>1, <2>1 DEF Powers
  <2>2. CASE n # 0
    <3>1. n - 1 \in Nat /\ n - 1 <= n /\ n \in 1 .. n
      BY <2>2
    <3>2. to(n)[n] = 10 * to(n)[n - 1]
      BY <1>1, <3>1 DEF Powers
    <3>3. to(n - 1)[n - 1] = to(n)[n - 1]
      BY <1>1, <3>1, PowersAgree
    <3> QED
      BY <2>2, <3>1, <3>2, <3>3
  <2> QED
    BY <2>1, <2>2
<1>3. F = [n \in Nat |-> IF n = 0 THEN 1 ELSE 10 * F[n - 1]]
  BY <1>2
<1> HIDE DEF F
<1>4. PowerOfTen = [n \in Nat |-> IF n = 0 THEN 1 ELSE 10 * PowerOfTen[n - 1]]
  BY <1>3 DEF PowerOfTen
<1>5. PowerOfTen[0] = 1
  BY <1>4
<1>6. ASSUME NEW n \in Nat PROVE PowerOfTen[n + 1] = 10 * PowerOfTen[n]
  <2>1. n + 1 \in Nat /\ n + 1 # 0 /\ n + 1 - 1 = n
    OBVIOUS
  <2>2. PowerOfTen[n + 1] = 10 * PowerOfTen[n + 1 - 1]
    BY <1>4, <2>1
  <2> QED
    BY <2>1, <2>2
<1>7. ASSUME NEW n \in Nat PROVE PowerOfTen[n] \in Nat \ {0}
  <2> DEFINE S == {i \in Nat : PowerOfTen[i] \in Nat \ {0}}
  <2>1. 0 \in S
    BY <1>5
  <2>2. ASSUME NEW i \in 1 .. n, i - 1 \in S PROVE i \in S
    <3>1. i - 1 \in Nat /\ i - 1 + 1 = i /\ i \in Nat
      OBVIOUS
    <3>2. PowerOfTen[i] = 10 * PowerOfTen[i - 1]
      BY <1>6, <3>1
    <3> QED
      BY <2>2, <3>1, <3>2
  <2> HIDE DEF S
  <2>3. 0 .. n \subseteq S
    BY <2>1, <2>2, StepByStep
  <2>4. n \in S
    BY <2>3
  <2> QED
    BY <2>4 DEF S
<1> QED
  BY <1>5, <1>6, <1>7

\* A greater power is greater.
LEMMA PowerMonotone ==
    ASSUME NEW m \in Nat, NEW n \in Nat, m <= n
    PROVE  PowerOfTen[m] <= PowerOfTen[n]
<1> DEFINE S == {i \in Nat : PowerOfTen[m] <= PowerOfTen[m + i]}
<1>1. 0 \in S
  <2>1. m + 0 = m /\ PowerOfTen[m] \in Nat
    BY PowerProperties
  <2> QED
    BY <2>1
<1>2. ASSUME NEW i \in 1 .. n - m, i - 1 \in S PROVE i \in S
  <2>1. i \in Nat /\ m + (i - 1) \in Nat /\ m + i = m + (i - 1) + 1
    OBVIOUS
  <2>2. PowerOfTen[m + i] = 10 * PowerOfTen[m + (i - 1)]
    BY <2>1, PowerProperties
  <2>3. PowerOfTen[m + (i - 1)] \in Nat /\ PowerOfTen[m] \in Nat
    BY <2>1, PowerProperties
  <2>4. PowerOfTen[m] <= PowerOfTen[m + (i - 1)]
    BY <1>2
  <2>5. PowerOfTen[m] <= PowerOfTen[m + i]
    BY <2>2, <2>3, <2>4
  <2> QED
    BY <2>1, <2>5
<1> HIDE DEF S
<1>3. n - m \in Nat /\ 0 .. n - m \subseteq S
  <2>1. n - m \in Nat
    OBVIOUS
  <2> QED
    BY <1>1, <1>2, <2>1, StepByStep
<1>4. n - m \in S
  BY <1>3
<1>5. m + (n - m) = n
  OBVIOUS
<1> QED
  BY <1>4, <1>5 DEF S

\* The number that the first i digits write, for every i.
ReadTo(digits) ==
    [i \in 0 .. Len(digits) |->
       (CHOOSE g : Reads(g, digits, DOMAIN digits))[1 .. i]]

\* Each digit shifts the number before it.
LEMMA NumberSteps ==
    ASSUME NEW digits \in Seq(Nat)
    PROVE  /\ Len(digits) \in Nat
           /\ ReadTo(digits) \in [0 .. Len(digits) -> Nat]
           /\ ReadTo(digits)[0] = 0
           /\ \A i \in 1 .. Len(digits) :
                ReadTo(digits)[i] = 10 * ReadTo(digits)[i - 1] + digits[i]
           /\ NumberOf(digits) = ReadTo(digits)[Len(digits)]
<1> DEFINE L == Len(digits)
           g == CHOOSE g : Reads(g, digits, DOMAIN digits)
           R == [i \in 0 .. L |-> g[1 .. i]]
<1>1. DOMAIN digits = 1 .. L /\ L \in Nat /\ \A i \in 1 .. L : digits[i] \in Nat
  OBVIOUS
<1>2. 1 .. L \in SUBSET Int /\ IsFiniteSet(1 .. L)
  BY <1>1, FS_Interval
<1> HIDE DEF L
<1>3. Reads(g, digits, 1 .. L)
  <2>1. \E h : Reads(h, digits, DOMAIN digits)
    BY <1>1, <1>2, ReadsExist
  <2> QED
    BY <1>1, <2>1
<1>4. NumberOf(digits) = g[1 .. L]
  BY <1>1, NumberChosen
<1>5. ReadTo(digits) = R
  BY DEF ReadTo, L
<1> HIDE DEF g
<1>6. R[0] = 0
  <2>1. g[{}] = 0
    BY <1>3 DEF Reads
  <2>2. 1 .. 0 = {} /\ 0 \in 0 .. L
    BY <1>1
  <2> QED
    BY <2>1, <2>2
<1>7. ASSUME NEW i \in 1 .. L PROVE R[i] = 10 * R[i - 1] + digits[i]
  <2>1. i \in Nat \ {0} /\ i \in 0 .. L /\ i - 1 \in 0 .. L /\ 1 .. i \in SUBSET (1 .. L)
    BY <1>1
  <2>2. Max(1 .. i) = i /\ (1 .. i) \ {i} = 1 .. i - 1 /\ 1 .. i # {}
    BY <2>1, FirstPlaces
  <2>3. g[1 .. i] = 10 * g[(1 .. i) \ {Max(1 .. i)}] + digits[Max(1 .. i)]
    BY <1>3, <2>1, <2>2 DEF Reads
  <2> QED
    BY <2>1, <2>2, <2>3
<1> HIDE DEF R
<1>8. R \in [0 .. L -> Nat]
  <2> DEFINE S == {i \in 0 .. L : R[i] \in Nat}
  <2>1. 0 \in S
    BY <1>1, <1>6
  <2>2. ASSUME NEW i \in 1 .. L, i - 1 \in S PROVE i \in S
    <3>1. R[i - 1] \in Nat /\ digits[i] \in Nat /\ i \in 0 .. L
      BY <1>1, <2>2
    <3> QED
      BY <1>7, <3>1
  <2> HIDE DEF S
  <2>3. 0 .. L \subseteq S
    BY <1>1, <2>1, <2>2, StepByStep
  <2>4. R = [i \in 0 .. L |-> R[i]]
    BY DEF R
  <2> QED
    BY <2>3, <2>4 DEF S
<1>9. R[L] = g[1 .. L]
  BY <1>1 DEF R
<1> QED
  BY <1>1, <1>4, <1>5, <1>6, <1>7, <1>8, <1>9 DEF L

\* What the first digits write is what all of them write, cut off.
LEMMA FirstDigits ==
    ASSUME NEW digits \in Seq(0 .. 9), NEW k \in 0 .. Len(digits)
    PROVE  NumberOf(digits) \div PowerOfTen[Len(digits) - k] = ReadTo(digits)[k]
<1> DEFINE L == Len(digits)
           R == ReadTo(digits)
           Bounded(i) == /\ R[k] * PowerOfTen[i] <= R[k + i]
                         /\ R[k + i] < (R[k] + 1) * PowerOfTen[i]
           S == {i \in 0 .. L - k : Bounded(i)}
<1>1. digits \in Seq(Nat) /\ \A i \in 1 .. L : digits[i] \in 0 .. 9
  <2>1. 0 .. 9 \subseteq Nat
    OBVIOUS
  <2> QED
    BY <2>1, SeqMonotonic
<1>2. /\ L \in Nat /\ R \in [0 .. L -> Nat]
      /\ \A i \in 1 .. L : R[i] = 10 * R[i - 1] + digits[i]
      /\ NumberOf(digits) = R[L]
  BY <1>1, NumberSteps
<1> HIDE DEF L, R
<1>3. k \in 0 .. L /\ R[k] \in Nat /\ L - k \in Nat
  BY <1>2 DEF L
<1>4. 0 \in S
  <2> DEFINE a == R[k]
  <2>1. k + 0 = k /\ PowerOfTen[0] = 1 /\ a \in Nat
    BY <1>3, PowerProperties
  <2>2. R[k + 0] = a
    BY <2>1
  <2> HIDE DEF a
  <2>3. a * 1 <= a /\ a < (a + 1) * 1
    BY <2>1
  <2>4. a * PowerOfTen[0] <= R[k + 0] /\ R[k + 0] < (a + 1) * PowerOfTen[0]
    BY <2>1, <2>2, <2>3
  <2>5. Bounded(0)
    BY <2>4 DEF a
  <2> QED
    BY <1>3, <2>5
<1>5. ASSUME NEW i \in 1 .. L - k, i - 1 \in S PROVE i \in S
  <2> DEFINE p == PowerOfTen[i - 1]
             a == R[k]
             b == R[k + (i - 1)]
             d == digits[k + i]
  <2>1. i - 1 \in Nat /\ i - 1 + 1 = i /\ k + i \in 1 .. L /\ k + (i - 1) \in 0 .. L
        /\ k + i - 1 = k + (i - 1)
    BY <1>2, <1>3
  <2>2. p \in Nat /\ PowerOfTen[i] = 10 * p
    BY <2>1, PowerProperties
  <2>3. R[k + i] = 10 * b + d /\ b \in Nat /\ d \in 0 .. 9 /\ a \in Nat
    BY <1>1, <1>2, <1>3, <2>1
  <2>4. a * p <= b /\ b < (a + 1) * p
    BY <1>5
  <2> HIDE DEF p, a, b, d
  <2>5. a * (10 * p) = 10 * (a * p) /\ (a + 1) * (10 * p) = 10 * ((a + 1) * p)
        /\ a * p \in Nat /\ (a + 1) * p \in Nat
    BY <2>2, <2>3, SMT
  <2>6. a * (10 * p) <= 10 * b + d /\ 10 * b + d < (a + 1) * (10 * p)
    BY <2>3, <2>4, <2>5
  <2>7. Bounded(i)
    BY <2>2, <2>3, <2>6 DEF a
  <2> QED
    BY <2>7
<1> HIDE DEF S
<1>6. 0 .. L - k \subseteq S
  BY <1>3, <1>4, <1>5, StepByStep
<1>7. L - k \in S
  BY <1>3, <1>6
<1>8. Bounded(L - k) /\ k + (L - k) = L
  BY <1>2, <1>3, <1>7 DEF S
<1>9. PowerOfTen[L - k] \in Nat \ {0} /\ R[L] \in Nat
  BY <1>2, <1>3, PowerProperties
<1>10. R[L] \div PowerOfTen[L - k] = R[k]
  BY <1>3, <1>8, <1>9, QuotientIs
<1> QED
  BY <1>2, <1>10 DEF L, R

\* X is the digits D behind shift zeros, filled up with zeros or cut off.
Moved(X, D, shift) ==
    \A j \in 1 .. Len(X) :
      X[j] = IF j - shift \in 1 .. Len(D) THEN D[j - shift] ELSE 0

\* Before the digits there is nothing, and the digits write their number.
LEMMA MovedWithin ==
    ASSUME NEW D \in Seq(0 .. 9), NEW X \in Seq(0 .. 9), NEW shift \in Nat, Moved(X, D, shift),
           NEW n \in 0 .. Len(X), n <= shift + Len(D)
    PROVE  ReadTo(X)[n] = IF n <= shift THEN 0 ELSE ReadTo(D)[n - shift]
<1> DEFINE R == ReadTo(X)
           Q == ReadTo(D)
           S == {i \in 0 .. n : R[i] = IF i <= shift THEN 0 ELSE Q[i - shift]}
<1>1. X \in Seq(Nat) /\ D \in Seq(Nat)
  <2>1. 0 .. 9 \subseteq Nat
    OBVIOUS
  <2> QED
    BY <2>1, SeqMonotonic
<1>2. /\ Len(X) \in Nat /\ R[0] = 0
      /\ \A i \in 1 .. Len(X) : R[i] = 10 * R[i - 1] + X[i]
  BY <1>1, NumberSteps
<1>3. /\ Len(D) \in Nat /\ Q[0] = 0
      /\ \A i \in 1 .. Len(D) : Q[i] = 10 * Q[i - 1] + D[i]
  BY <1>1, NumberSteps
<1> HIDE DEF R, Q
<1>4. 0 \in S
  BY <1>2
<1>5. ASSUME NEW i \in 1 .. n, i - 1 \in S PROVE i \in S
  <2>1. i \in 1 .. Len(X) /\ R[i] = 10 * R[i - 1] + X[i]
    BY <1>2
  <2>2. R[i - 1] = IF i - 1 <= shift THEN 0 ELSE Q[i - 1 - shift]
    BY <1>5
  <2>3. X[i] = IF i - shift \in 1 .. Len(D) THEN D[i - shift] ELSE 0
    BY <2>1 DEF Moved
  <2>4. CASE i <= shift
    <3>1. R[i - 1] = 0 /\ X[i] = 0
      BY <2>2, <2>3, <2>4
    <3> QED
      BY <2>1, <2>4, <3>1
  <2>5. CASE ~ (i <= shift)
    <3>1. i - shift \in 1 .. Len(D) /\ i - 1 - shift = i - shift - 1
      BY <1>3, <2>5
    <3>2. X[i] = D[i - shift]
      BY <2>3, <3>1
    <3>3. R[i - 1] = Q[i - shift - 1]
      <4>1. CASE i - 1 <= shift
        <5>1. i - shift - 1 = 0
          BY <2>5, <4>1
        <5> QED
          BY <1>3, <2>2, <4>1, <5>1
      <4>2. CASE ~ (i - 1 <= shift)
        BY <2>2, <3>1, <4>2
      <4> QED
        BY <4>1, <4>2
    <3>4. Q[i - shift] = 10 * Q[i - shift - 1] + D[i - shift]
      BY <1>3, <3>1
    <3>5. R[i] = Q[i - shift]
      BY <2>1, <3>2, <3>3, <3>4
    <3> QED
      BY <2>5, <3>5
  <2> QED
    BY <2>4, <2>5
<1> HIDE DEF S
<1>6. n \in Nat
  BY <1>2
<1>7. 0 .. n \subseteq S
  BY <1>4, <1>5, <1>6, StepByStep
<1>8. n \in S
  BY <1>6, <1>7
<1> QED
  BY <1>8 DEF S, R, Q

\* Every zero behind them multiplies by ten.
LEMMA MovedBeyond ==
    ASSUME NEW D \in Seq(0 .. 9), NEW X \in Seq(0 .. 9), NEW shift \in Nat, Moved(X, D, shift),
           shift + Len(D) <= Len(X)
    PROVE  NumberOf(X) = NumberOf(D) * PowerOfTen[Len(X) - (shift + Len(D))]
<1> DEFINE R == ReadTo(X)
           L == shift + Len(D)
           n == Len(X) - L
           N == NumberOf(D)
           S == {i \in 0 .. n : R[L + i] = N * PowerOfTen[i]}
<1>1. X \in Seq(Nat) /\ D \in Seq(Nat)
  <2>1. 0 .. 9 \subseteq Nat
    OBVIOUS
  <2> QED
    BY <2>1, SeqMonotonic
<1>2. /\ Len(X) \in Nat /\ R[0] = 0
      /\ \A i \in 1 .. Len(X) : R[i] = 10 * R[i - 1] + X[i]
      /\ NumberOf(X) = R[Len(X)]
  BY <1>1, NumberSteps
<1>3. /\ Len(D) \in Nat /\ N = ReadTo(D)[Len(D)] /\ ReadTo(D)[0] = 0 /\ N \in Nat
  BY <1>1, NumberSteps, NumberOfType
<1>4. L \in Nat /\ n \in Nat /\ L + n = Len(X) /\ L = shift + Len(D)
  BY <1>2, <1>3
<1>5. R[L] = N
  <2>1. L \in 0 .. Len(X) /\ L <= shift + Len(D)
    BY <1>2, <1>4
  <2>2. R[L] = IF L <= shift THEN 0 ELSE ReadTo(D)[L - shift]
    BY <2>1, MovedWithin
  <2>3. L - shift = Len(D) /\ (L <= shift => Len(D) = 0)
    BY <1>3, <1>4
  <2> QED
    BY <1>3, <2>2, <2>3
<1> HIDE DEF L, n, N, R
<1>6. 0 \in S
  <2>1. L + 0 = L /\ 0 \in 0 .. n
    BY <1>4
  <2>2. N * 1 = N
    BY <1>3
  <2>3. PowerOfTen[0] = 1
    BY PowerProperties
  <2> QED
    BY <1>5, <2>1, <2>2, <2>3
<1>7. ASSUME NEW i \in 1 .. n, i - 1 \in S PROVE i \in S
  <2>1. i - 1 \in Nat /\ i - 1 + 1 = i /\ L + i \in 1 .. Len(X) /\ L + i - 1 = L + (i - 1)
        /\ i \in 0 .. n
    BY <1>2, <1>4
  <2>2. X[L + i] = 0
    <3>1. L + i - shift \notin 1 .. Len(D)
      <4>1. L + i - shift = Len(D) + i /\ i \in Nat \ {0}
        BY <1>3, <1>4
      <4> QED
        BY <1>3, <4>1
    <3> QED
      BY <1>4, <2>1, <3>1 DEF Moved
  <2>3. R[L + i] = 10 * R[L + (i - 1)] + 0
    <3>1. R[L + i] = 10 * R[L + i - 1] + X[L + i]
      BY <1>2, <1>4, <2>1
    <3> QED
      BY <2>1, <2>2, <3>1
  <2>4. R[L + (i - 1)] = N * PowerOfTen[i - 1] /\ PowerOfTen[i - 1] \in Nat
        /\ PowerOfTen[i] = 10 * PowerOfTen[i - 1]
    BY <1>7, <2>1, PowerProperties
  <2>5. N * PowerOfTen[i] = 10 * (N * PowerOfTen[i - 1]) /\ N * PowerOfTen[i - 1] \in Nat
    BY <1>3, <2>4, SMT
  <2> QED
    BY <2>1, <2>3, <2>4, <2>5
<1> HIDE DEF S
<1>8. 0 .. n \subseteq S
  BY <1>4, <1>6, <1>7, StepByStep
<1>9. n \in S
  BY <1>4, <1>8
<1> QED
  BY <1>2, <1>4, <1>9 DEF S, n, N, L

\* The number that moved digits write.
LEMMA NumberMoved ==
    ASSUME NEW D \in Seq(0 .. 9), NEW X \in Seq(0 .. 9), NEW shift \in Nat, Moved(X, D, shift),
           NEW power \in Int, power = Len(X) - (shift + Len(D))
    PROVE  NumberOf(X) = IF power >= 0 THEN NumberOf(D) * PowerOfTen[power]
                         ELSE NumberOf(D) \div PowerOfTen[-power]
<1>1. X \in Seq(Nat) /\ D \in Seq(Nat)
  <2>1. 0 .. 9 \subseteq Nat
    OBVIOUS
  <2> QED
    BY <2>1, SeqMonotonic
<1>2. Len(X) \in Nat /\ NumberOf(X) = ReadTo(X)[Len(X)]
  BY <1>1, NumberSteps
<1>3. Len(D) \in Nat /\ NumberOf(D) = ReadTo(D)[Len(D)] /\ ReadTo(D)[0] = 0
  BY <1>1, NumberSteps
<1>4. CASE power >= 0
  <2>1. shift + Len(D) <= Len(X)
    BY <1>2, <1>3, <1>4
  <2> QED
    BY <1>4, <2>1, MovedBeyond
<1>5. CASE power < 0 /\ Len(X) > shift
  <2>1. Len(X) - shift \in 0 .. Len(D) /\ Len(D) - (Len(X) - shift) = -power
        /\ Len(X) \in 0 .. Len(X) /\ Len(X) <= shift + Len(D) /\ ~ (Len(X) <= shift)
    BY <1>2, <1>3, <1>5
  <2>2. NumberOf(D) \div PowerOfTen[-power] = ReadTo(D)[Len(X) - shift]
    BY <2>1, FirstDigits
  <2>3. ReadTo(X)[Len(X)] = ReadTo(D)[Len(X) - shift]
    BY <2>1, MovedWithin
  <2> QED
    BY <1>2, <1>5, <2>2, <2>3
<1>6. CASE power < 0 /\ Len(X) <= shift
  <2>1. Len(X) \in 0 .. Len(X) /\ Len(X) <= shift + Len(D)
    BY <1>2, <1>3, <1>6
  <2>2. ReadTo(X)[Len(X)] = 0
    BY <1>6, <2>1, MovedWithin
  <2> DEFINE N == NumberOf(D)
             p == PowerOfTen[Len(D)]
             q == PowerOfTen[-power]
  <2>3. N \in Nat /\ p \in Nat \ {0} /\ q \in Nat \ {0} /\ p <= q
    <3>1. -power \in Nat /\ Len(D) <= -power
      BY <1>2, <1>3, <1>6
    <3> QED
      BY <1>1, <1>3, <3>1, NumberOfType, PowerProperties, PowerMonotone
  <2>4. N \div p = 0
    <3>1. 0 \in 0 .. Len(D) /\ Len(D) - 0 = Len(D)
      BY <1>3
    <3>2. NumberOf(D) \div PowerOfTen[Len(D) - 0] = ReadTo(D)[0]
      BY <3>1, FirstDigits
    <3> QED
      BY <1>3, <3>1, <3>2
  <2> HIDE DEF N, p, q
  <2>5. N < (N \div p) * p + p
    BY <2>3, DivNat
  <2>6. N < q
    <3>1. 0 * p = 0
      BY <2>3
    <3> QED
      BY <2>3, <2>4, <2>5, <3>1
  <2>7. N \div q = 0
    <3>1. 0 * q <= N /\ N < (0 + 1) * q
      BY <2>3, <2>6
    <3> QED
      BY <2>3, <3>1, QuotientIs
  <2> QED
    BY <1>2, <1>6, <2>2, <2>7 DEF N, q
<1> QED
  BY <1>2, <1>4, <1>5, <1>6

Digits == 0 .. 9

\* Padding is zeros.
LEMMA ZerosAre ==
    ASSUME NEW k \in Int
    PROVE  /\ Zeros(k) \in Seq(Digits) /\ Len(Zeros(k)) \in Nat
           /\ Len(Zeros(k)) = IF k > 0 THEN k ELSE 0
           /\ \A i \in 1 .. Len(Zeros(k)) : Zeros(k)[i] = 0
<1>1. CASE k > 0
  <2>1. k \in Nat /\ Zeros(k) = [i \in 1 .. k |-> 0]
    BY <1>1 DEF Zeros
  <2>2. Zeros(k) \in Seq(Digits) /\ Len(Zeros(k)) = k
    BY <2>1 DEF Digits
  <2> QED
    BY <1>1, <2>1, <2>2
<1>2. CASE ~ (k > 0)
  <2>1. Zeros(k) = <<>>
    BY <1>2 DEF Zeros
  <2>2. Zeros(k) \in Seq(Digits) /\ Len(Zeros(k)) = 0
    BY <2>1
  <2> QED
    BY <1>2, <2>2
<1> QED
  BY <1>1, <1>2

\* Digits padded with zeros are those digits with zeros behind them.
LEMMA PaddedAt ==
    ASSUME NEW s \in Seq(Digits), NEW k \in Int
    PROVE  /\ s \o Zeros(k) \in Seq(Digits)
           /\ Len(s) \in Nat /\ Len(s \o Zeros(k)) \in Nat
           /\ Len(s \o Zeros(k)) = Len(s) + (IF k > 0 THEN k ELSE 0)
           /\ \A i \in 1 .. Len(s \o Zeros(k)) :
                (s \o Zeros(k))[i] = IF i <= Len(s) THEN s[i] ELSE 0
<1> DEFINE z == Zeros(k)
<1>1. /\ z \in Seq(Digits) /\ Len(z) \in Nat /\ Len(z) = IF k > 0 THEN k ELSE 0
      /\ \A i \in 1 .. Len(z) : z[i] = 0
  BY ZerosAre
<1> HIDE DEF z
<1>2. Len(s) \in Nat
  OBVIOUS
<1>3. /\ s \o z \in Seq(Digits) /\ Len(s \o z) = Len(s) + Len(z)
      /\ \A i \in 1 .. Len(s) + Len(z) :
           (s \o z)[i] = IF i <= Len(s) THEN s[i] ELSE z[i - Len(s)]
  BY <1>1, ConcatProperties
<1>4. ASSUME NEW i \in 1 .. Len(s \o z)
      PROVE  (s \o z)[i] = IF i <= Len(s) THEN s[i] ELSE 0
  <2>1. i \in 1 .. Len(s) + Len(z)
    BY <1>3
  <2>2. ~ (i <= Len(s)) => i - Len(s) \in 1 .. Len(z)
    BY <1>1, <1>2, <2>1
  <2> QED
    BY <1>1, <1>3, <2>1, <2>2
<1> QED
  BY <1>1, <1>2, <1>3, <1>4 DEF z

\* Cut off after n of them, padded or not.
LEMMA CutOff ==
    ASSUME NEW s \in Seq(Digits), NEW n \in Nat, NEW k \in Int, k >= n - Len(s)
    PROVE  /\ SubSeq(s \o Zeros(k), 1, n) \in Seq(Digits)
           /\ Len(SubSeq(s \o Zeros(k), 1, n)) = n
           /\ \A i \in 1 .. n :
                SubSeq(s \o Zeros(k), 1, n)[i] = IF i <= Len(s) THEN s[i] ELSE 0
<1> DEFINE t == s \o Zeros(k)
<1>1. /\ t \in Seq(Digits) /\ Len(s) \in Nat /\ Len(t) \in Nat
      /\ Len(t) = Len(s) + (IF k > 0 THEN k ELSE 0)
      /\ \A i \in 1 .. Len(t) : t[i] = IF i <= Len(s) THEN s[i] ELSE 0
  BY PaddedAt
<1> HIDE DEF t
<1>2. n <= Len(t)
  BY <1>1
<1>3. \A i \in 1 .. n : t[i] \in Digits
  BY <1>1, <1>2, ElementOfSeq
<1>4. /\ SubSeq(t, 1, n) \in Seq(Digits) /\ Len(SubSeq(t, 1, n)) = IF 1 <= n THEN n - 1 + 1 ELSE 0
      /\ \A i \in 1 .. n - 1 + 1 : SubSeq(t, 1, n)[i] = t[1 + i - 1]
  BY <1>3, SubSeqProperties
<1>5. Len(SubSeq(t, 1, n)) = n
  BY <1>4
<1>6. ASSUME NEW i \in 1 .. n PROVE SubSeq(t, 1, n)[i] = IF i <= Len(s) THEN s[i] ELSE 0
  <2>1. i \in 1 .. n - 1 + 1 /\ 1 + i - 1 = i /\ i \in 1 .. Len(t)
    BY <1>1, <1>2
  <2> QED
    BY <1>1, <1>4, <2>1
<1> QED
  BY <1>4, <1>5, <1>6 DEF t

\* u is m digits s, then n digits t.
Joined(u, s, m, t, n) ==
    /\ u \in Seq(Digits) /\ m \in Nat /\ n \in Nat /\ Len(u) = m + n
    /\ \A i \in 1 .. m + n : u[i] = IF i <= m THEN s[i] ELSE t[i - m]

\* One string of digits after another.
LEMMA JoinedAt ==
    ASSUME NEW s \in Seq(Digits), NEW t \in Seq(Digits), NEW u, u = s \o t,
           NEW m, m = Len(s), NEW n, n = Len(t)
    PROVE  Joined(u, s, m, t, n)
<1>1. m \in Nat /\ n \in Nat
  OBVIOUS
<1>2. /\ s \o t \in Seq(Digits) /\ Len(s \o t) = Len(s) + Len(t)
      /\ \A i \in 1 .. Len(s) + Len(t) :
           (s \o t)[i] = IF i <= Len(s) THEN s[i] ELSE t[i - Len(s)]
  BY ConcatProperties
<1> QED
  BY <1>1, <1>2 DEF Joined

\* X is n digits long, D behind shift zeros.
Written(X, D, n, shift) == X \in Seq(Digits) /\ Len(X) = n /\ Moved(X, D, shift)

\* The point moved before the digits: zeros, then the digits.
LEMMA PointBefore ==
    ASSUME NEW D \in Seq(Digits), NEW E \in Nat, NEW z \in Nat,
           NEW frac, frac = Zeros(z) \o D,
           NEW cut, cut = SubSeq(frac \o Zeros(E), 1, E),
           NEW X, X = << 0 >> \o cut
    PROVE  Written(X, D, 1 + E, 1 + z)
<1>1. /\ Zeros(z) \in Seq(Digits) /\ Len(Zeros(z)) = z
      /\ \A i \in 1 .. z : Zeros(z)[i] = 0
  <2>1. z \in Int /\ (IF z > 0 THEN z ELSE 0) = z
    OBVIOUS
  <2>2. Len(Zeros(z)) = z
    BY <2>1, ZerosAre
  <2> QED
    BY <2>1, <2>2, ZerosAre
<1>2. /\ frac \in Seq(Digits) /\ Len(D) \in Nat /\ Len(frac) = z + Len(D)
      /\ \A i \in 1 .. z + Len(D) : frac[i] = IF i <= z THEN 0 ELSE D[i - z]
  <2>1. /\ frac \in Seq(Digits) /\ Len(D) \in Nat /\ Len(frac) = z + Len(D)
        /\ \A i \in 1 .. z + Len(D) : frac[i] = IF i <= z THEN Zeros(z)[i] ELSE D[i - z]
    <3>1. z = Len(Zeros(z))
      BY <1>1
    <3>2. Joined(frac, Zeros(z), z, D, Len(D))
      BY <1>1, <3>1, JoinedAt
    <3> QED
      BY <3>2 DEF Joined
  <2>2. \A i \in 1 .. z + Len(D) : i <= z => Zeros(z)[i] = 0
    BY <1>1
  <2> QED
    BY <2>1, <2>2
<1>3. /\ cut \in Seq(Digits) /\ Len(cut) = E
      /\ \A i \in 1 .. E : cut[i] = IF i <= Len(frac) THEN frac[i] ELSE 0
  <2>1. E \in Int /\ E >= E - Len(frac)
    BY <1>2
  <2> QED
    BY <1>2, <2>1, CutOff
<1>4. /\ X \in Seq(Digits) /\ Len(X) = 1 + E
      /\ \A i \in 1 .. 1 + E : X[i] = IF i <= 1 THEN 0 ELSE cut[i - 1]
  <2>1. << 0 >> \in Seq(Digits) /\ Len(<< 0 >>) = 1 /\ << 0 >>[1] = 0
    BY DEF Digits
  <2>2. /\ X \in Seq(Digits) /\ Len(X) = 1 + Len(cut)
        /\ \A i \in 1 .. 1 + Len(cut) : X[i] = IF i <= 1 THEN << 0 >>[i] ELSE cut[i - 1]
    <3>1. 1 = Len(<< 0 >>)
      BY <2>1
    <3>2. Joined(X, << 0 >>, 1, cut, Len(cut))
      BY <1>3, <2>1, <3>1, JoinedAt
    <3> QED
      BY <3>2 DEF Joined
  <2>3. \A i \in 1 .. 1 + E : i <= 1 => i = 1
    OBVIOUS
  <2> QED
    BY <1>3, <2>1, <2>2, <2>3
<1>5. ASSUME NEW j \in 1 .. 1 + E
      PROVE  X[j] = IF j - (1 + z) \in 1 .. Len(D) THEN D[j - (1 + z)] ELSE 0
  <2>1. CASE j = 1
    <3>1. X[j] = 0
      BY <1>4, <2>1
    <3>2. j - (1 + z) \notin 1 .. Len(D)
      BY <1>2, <2>1
    <3> QED
      BY <3>1, <3>2
  <2>2. CASE j # 1
    <3>0. j - 1 \in 1 .. E /\ ~ (j <= 1)
      BY <2>2
    <3>1. X[j] = cut[j - 1]
      BY <1>4, <3>0
    <3>2. X[j] = IF j - 1 <= z + Len(D) THEN frac[j - 1] ELSE 0
      BY <1>2, <1>3, <3>0, <3>1
    <3>3. j - 1 <= z + Len(D) => frac[j - 1] = IF j - 1 <= z THEN 0 ELSE D[j - 1 - z]
      <4>1. j - 1 <= z + Len(D) => j - 1 \in 1 .. z + Len(D)
        BY <1>2, <3>0
      <4> QED
        BY <1>2, <4>1
    <3>4. j - 1 - z = j - (1 + z)
      OBVIOUS
    <3>5. j - (1 + z) \in 1 .. Len(D) <=> j - 1 <= z + Len(D) /\ ~ (j - 1 <= z)
      BY <1>2
    <3> QED
      BY <3>2, <3>3, <3>4, <3>5
  <2> QED
    BY <2>1, <2>2
<1> QED
  BY <1>4, <1>5 DEF Moved, Written

\* The point moved within or behind the digits.
LEMMA PointWithin ==
    ASSUME NEW D \in Seq(Digits), NEW E \in Nat, NEW pp \in Nat,
           NEW int, int = SubSeq(D \o Zeros(pp - Len(D)), 1, pp),
           NEW frac, frac = SubSeq(D, pp + 1, Len(D)),
           NEW cut, cut = SubSeq(frac \o Zeros(E), 1, E),
           NEW X, X = int \o cut
    PROVE  Written(X, D, pp + E, 0)
<1>1. Len(D) \in Nat /\ \A i \in 1 .. Len(D) : D[i] \in Digits
  OBVIOUS
<1>2. /\ int \in Seq(Digits) /\ Len(int) = pp
      /\ \A i \in 1 .. pp : int[i] = IF i <= Len(D) THEN D[i] ELSE 0
  <2>1. pp - Len(D) \in Int /\ pp - Len(D) >= pp - Len(D)
    BY <1>1
  <2> QED
    BY <2>1, CutOff
<1>3. /\ frac \in Seq(Digits) /\ Len(frac) \in Nat
      /\ Len(frac) = IF pp + 1 <= Len(D) THEN Len(D) - pp ELSE 0
      /\ \A i \in 1 .. Len(frac) : frac[i] = D[pp + i]
  <2>1. \A i \in pp + 1 .. Len(D) : D[i] \in Digits
    BY <1>1
  <2>2. /\ frac \in Seq(Digits)
        /\ Len(frac) = IF pp + 1 <= Len(D) THEN Len(D) - (pp + 1) + 1 ELSE 0
        /\ \A i \in 1 .. Len(D) - (pp + 1) + 1 : frac[i] = D[pp + 1 + i - 1]
    <3>1. pp + 1 \in Int /\ Len(D) \in Int
      BY <1>1
    <3> QED
      BY <2>1, <3>1, SubSeqProperties
  <2>3. Len(frac) = IF pp + 1 <= Len(D) THEN Len(D) - pp ELSE 0
    BY <1>1, <2>2
  <2>4. ASSUME NEW i \in 1 .. Len(frac) PROVE frac[i] = D[pp + i]
    <3>1. i \in 1 .. Len(D) - (pp + 1) + 1 /\ pp + 1 + i - 1 = pp + i
      BY <1>1, <2>3
    <3> QED
      BY <2>2, <3>1
  <2>5. Len(frac) \in Nat
    BY <1>1, <2>3
  <2> QED
    BY <2>2, <2>3, <2>4, <2>5
<1>4. /\ cut \in Seq(Digits) /\ Len(cut) = E
      /\ \A i \in 1 .. E : cut[i] = IF i <= Len(frac) THEN frac[i] ELSE 0
  <2>1. E \in Int /\ E >= E - Len(frac)
    BY <1>3
  <2> QED
    BY <1>3, <2>1, CutOff
<1>5. /\ X \in Seq(Digits) /\ Len(X) = pp + E
      /\ \A i \in 1 .. pp + E : X[i] = IF i <= pp THEN int[i] ELSE cut[i - pp]
  <2>1. pp = Len(int) /\ E = Len(cut)
    BY <1>2, <1>4
  <2>2. Joined(X, int, pp, cut, E)
    BY <1>2, <1>4, <2>1, JoinedAt
  <2> QED
    BY <2>2 DEF Joined
<1>6. ASSUME NEW j \in 1 .. pp + E
      PROVE  X[j] = IF j - 0 \in 1 .. Len(D) THEN D[j - 0] ELSE 0
  <2>0. j \in Nat \ {0} /\ j - 0 = j /\ (j \in 1 .. Len(D) <=> j <= Len(D))
    BY <1>1
  <2>1. CASE j <= pp
    <3>0. j \in 1 .. pp
      BY <2>1
    <3>1. X[j] = int[j]
      BY <1>5, <2>1
    <3> QED
      BY <1>2, <2>0, <3>0, <3>1
  <2>2. CASE ~ (j <= pp)
    <3>0. j - pp \in 1 .. E
      BY <2>2
    <3>1. X[j] = cut[j - pp]
      BY <1>5, <2>2
    <3>2. X[j] = IF j - pp <= Len(frac) THEN frac[j - pp] ELSE 0
      BY <1>4, <3>0, <3>1
    <3>3. j - pp <= Len(frac) => frac[j - pp] = D[j]
      <4>1. j - pp <= Len(frac) => j - pp \in 1 .. Len(frac)
        BY <1>3, <3>0
      <4>2. pp + (j - pp) = j
        OBVIOUS
      <4> QED
        BY <1>3, <4>1, <4>2
    <3>4. j - pp <= Len(frac) <=> j <= Len(D)
      BY <1>1, <1>3, <2>2
    <3> QED
      BY <2>0, <3>2, <3>3, <3>4
  <2> QED
    BY <2>1, <2>2
<1> QED
  BY <1>5, <1>6 DEF Moved, Written

\* A price is the number on the wire, scaled and floored.
LEMMA ScaledIsFloor ==
    ASSUME NEW wire \in Wire
    PROVE  priceScaled(wire) = ScaledFloor(wire)
<1> DEFINE digits == wire.int \o wire.frac
           pointPos == Len(wire.int) + wire.exp
           decimal == normalizeScientificNotation(wire)
           written == decimal.int
                        \o SubSeq(decimal.frac \o Zeros(PRICE_EXPONENT), 1, PRICE_EXPONENT)
           scale == wire.exp - Len(wire.frac) + PRICE_EXPONENT
<1>1. wire.int \in Seq(Digits) /\ wire.frac \in Seq(Digits) /\ wire.exp \in Int
  BY DEF Wire, Digits
<1>2. PRICE_EXPONENT \in Nat
  BY ExponentAssumption
<1>3. /\ digits \in Seq(Digits) /\ Len(wire.int) \in Nat /\ Len(wire.frac) \in Nat
      /\ Len(digits) = Len(wire.int) + Len(wire.frac) /\ Len(digits) \in Nat
  <2>1. /\ digits \in Seq(Digits) /\ Len(wire.int) \in Nat /\ Len(wire.frac) \in Nat
        /\ Len(digits) = Len(wire.int) + Len(wire.frac)
    <3>1. Joined(digits, wire.int, Len(wire.int), wire.frac, Len(wire.frac))
      BY <1>1, JoinedAt
    <3> QED
      BY <3>1 DEF Joined
  <2> HIDE DEF digits
  <2>2. Len(digits) \in Nat
    BY <2>1, LenProperties
  <2> QED
    BY <2>1, <2>2
<1>4. PICK D : D = digits
  OBVIOUS
<1>5. PICK pp : pp = pointPos
  OBVIOUS
<1>6. PICK X : X = written
  OBVIOUS
<1>7. PICK power : power = scale
  OBVIOUS
<1>8. D \in Seq(Digits) /\ pp \in Int /\ power \in Int /\ power = pp - Len(D) + PRICE_EXPONENT
      /\ Len(D) \in Nat
  <2> HIDE DEF digits
  <2>1. pp = Len(wire.int) + wire.exp /\ power = wire.exp - Len(wire.frac) + PRICE_EXPONENT
    BY <1>5, <1>7
  <2> HIDE DEF pointPos, scale, decimal, written
  <2>2. pp \in Int /\ power \in Int
    BY <1>1, <1>2, <1>3, <2>1
  <2>3. PICK e \in Int, i \in Nat, f \in Nat :
          e = wire.exp /\ i = Len(wire.int) /\ f = Len(wire.frac)
    BY <1>1, <1>3
  <2>4. power = pp - Len(digits) + PRICE_EXPONENT
    <3>1. pp = i + e /\ power = e - f + PRICE_EXPONENT /\ Len(digits) = i + f
      BY <1>3, <2>1, <2>3
    <3>2. pp - (i + f) = e - f
      BY <3>1
    <3>3. pp - Len(digits) = e - f
      BY <3>1, <3>2
    <3> QED
      BY <3>1, <3>3
  <2> QED
    BY <1>3, <1>4, <2>2, <2>4
<1>9. priceScaled(wire) = NumberOf(X)
  BY <1>6 DEF priceScaled, decimalStringToScaled
<1>10. ScaledFloor(wire) = IF power >= 0 THEN NumberOf(D) * PowerOfTen[power]
                           ELSE NumberOf(D) \div PowerOfTen[-power]
  BY <1>4, <1>7 DEF ScaledFloor
<1>11. \E shift \in Nat : /\ X \in Seq(Digits) /\ Moved(X, D, shift)
                          /\ power = Len(X) - (shift + Len(D))
  <2>1. CASE pp <= 0
    <3>1. decimal = [int |-> << 0 >>, frac |-> Zeros(-pp) \o D]
      BY <1>4, <1>5, <2>1 DEF normalizeScientificNotation
    <3> HIDE DEF decimal, digits, pointPos, scale
    <3>2. decimal.int = << 0 >> /\ decimal.frac = Zeros(-pp) \o D
      BY <3>1
    <3>3. -pp \in Nat
      BY <1>8, <2>1
    <3>4. Written(X, D, 1 + PRICE_EXPONENT, 1 + -pp)
      BY <1>2, <1>6, <1>8, <3>2, <3>3, PointBefore DEF written
    <3>5. PICK shift \in Nat : shift = 1 + -pp
      BY <3>3
    <3>6. power = 1 + PRICE_EXPONENT - (shift + Len(D))
      BY <1>2, <1>8, <3>3, <3>5
    <3> HIDE DEF written
    <3>7. X \in Seq(Digits) /\ Moved(X, D, shift) /\ Len(X) = 1 + PRICE_EXPONENT
      BY <3>4, <3>5 DEF Written
    <3>8. power = Len(X) - (shift + Len(D))
      BY <1>2, <1>8, <3>6, <3>7
    <3> QED
      BY <3>5, <3>7, <3>8
  <2>2. CASE ~ (pp <= 0)
    <3>1. decimal = [int |-> SubSeq(D \o Zeros(pp - Len(D)), 1, pp),
                     frac |-> SubSeq(D, pp + 1, Len(D))]
      BY <1>4, <1>5, <2>2 DEF normalizeScientificNotation
    <3> HIDE DEF decimal, digits, pointPos, scale
    <3>2. decimal.int = SubSeq(D \o Zeros(pp - Len(D)), 1, pp)
          /\ decimal.frac = SubSeq(D, pp + 1, Len(D))
      BY <3>1
    <3>3. pp \in Nat
      BY <1>8, <2>2
    <3>4. Written(X, D, pp + PRICE_EXPONENT, 0)
      BY <1>2, <1>6, <1>8, <3>2, <3>3, PointWithin DEF written
    <3>5. power = pp + PRICE_EXPONENT - (0 + Len(D))
      BY <1>2, <1>8, <3>3
    <3> HIDE DEF written
    <3>6. X \in Seq(Digits) /\ Moved(X, D, 0) /\ Len(X) = pp + PRICE_EXPONENT
      BY <3>4 DEF Written
    <3>7. power = Len(X) - (0 + Len(D)) /\ 0 \in Nat
      BY <1>2, <1>8, <3>3, <3>5, <3>6
    <3> QED
      BY <3>6, <3>7
  <2> QED
    BY <2>1, <2>2
<1>12. NumberOf(X) = IF power >= 0 THEN NumberOf(D) * PowerOfTen[power]
                     ELSE NumberOf(D) \div PowerOfTen[-power]
  BY <1>8, <1>11, NumberMoved DEF Digits
<1> QED
  BY <1>9, <1>10, <1>12

\* Only an answer writes the cache, and it writes what its wire says.
LEMMA ExactStep ==
    ASSUME PriceInv, QuoteExact, [Next]_vars
    PROVE  QuoteExact'
<1>1. CASE UNCHANGED cache
  BY <1>1 DEF QuoteExact
<1>2. ASSUME NEW asker \in Askers, NEW wire \in Wires, Answer(asker, wire)
      PROVE  QuoteExact'
  <2> DEFINE f == flight[asker]
             price == Stamped(wire, f.asked)
  <2>1. cache' = [cache EXCEPT ![f.asset] = price] /\ cache \in [Assets -> Answered]
    BY <1>2, Contents DEF Answer
  <2>2. price.scaled = ScaledFloor(wire) /\ price.wire = wire
    <3>1. wire \in Wire
      BY PricingAssumption
    <3>2. Scaled[wire] = ScaledFloor(wire)
      BY <3>1, ScaledIsFloor DEF Scaled
    <3> QED
      BY <3>2 DEF Stamped
  <2> HIDE DEF price
  <2>3. \A a \in Assets : cache'[a] = cache[a] \/ cache'[a] = price
    BY <2>1
  <2>4. \A a \in Assets : IsQuote(cache'[a]) => cache'[a].scaled = ScaledFloor(cache'[a].wire)
    <3> TAKE a \in Assets
    <3>1. CASE cache'[a] = cache[a]
      BY <3>1 DEF QuoteExact
    <3>2. CASE cache'[a] = price
      BY <2>2, <3>2
    <3> QED
      BY <2>3, <3>1, <3>2
  <2> QED
    BY <2>4 DEF QuoteExact
<1>3. UNCHANGED cache \/ \E asker \in Askers, wire \in Wires : Answer(asker, wire)
  BY DEF Next, vars, StartScan, Rpc, RetryRpc, RpcAnswers, RpcFails, PriceAccounts, AnswerScan,
     StartPass, PassWorks, PriceRow, UsePrice, EndRow, AbortPass, FlightEnds, FetchFails, Tick
<1> QED
  BY <1>1, <1>2, <1>3

\* Through scientific notation, padding and cutting off, a cached price is the
\* number on the wire, scaled and floored, for every market price the regular
\* expression of extractUsdField admits and every exponent (pricing.ts:36-78).
THEOREM QuotesAreExact == Spec => []QuoteExact
<1>1. Init => QuoteExact
  BY DEF Init, QuoteExact, IsQuote
<1>2. PriceInv /\ QuoteExact /\ [Next]_vars => QuoteExact'
  BY ExactStep
<1> QED
  BY <1>1, <1>2, PriceInvariant, PTL DEF Spec

-----------------------------------------------------------------------------
(***************************************************************************)
(* The limiter.  A request after its key's window begins another; hits are *)
(* counted from the beginning of the last.                                 *)
(***************************************************************************)
Entries == [count : Nat, windowStart : Int]
HitTable == [Keys -> Entries]
Requested == [key : Keys, at : Nat]

\* g is the limiter's table after the requests at the places S of s, for every S.
Counts(g, s, D) ==
    g = [S \in SUBSET D |-> IF S = {} THEN NoHits ELSE Hit(g[S \ {Max(S)}], s[Max(S)])]

\* The fold of isRateLimited chooses such a function.
LEMMA HitsChosen ==
    ASSUME NEW s
    PROVE  FoldLeft(Hit, NoHits, s) = (CHOOSE g : Counts(g, s, DOMAIN s))[DOMAIN s]
BY Zenon DEF FoldLeft, MapThenFoldSet, Counts

\* A hit keeps the table's type.
LEMMA HitType ==
    ASSUME NEW h \in HitTable, NEW q \in Requested
    PROVE  Hit(h, q) \in HitTable
<1>1. q.key \in Keys /\ q.at \in Nat /\ h[q.key] \in Entries
  BY DEF HitTable, Requested
<1>2. [count |-> 1, windowStart |-> q.at] \in Entries
  BY <1>1 DEF Entries
<1>3. [h[q.key] EXCEPT !.count = @ + 1] \in Entries
  BY <1>1 DEF Entries
<1> QED
  BY <1>1, <1>2, <1>3 DEF Hit, HitTable

\* The table after the first i of the requests, for every i.
HitsTo(s) ==
    [i \in 0 .. Len(s) |-> (CHOOSE g : Counts(g, s, DOMAIN s))[1 .. i]]

\* h is the table after each of the requests.
Trail(h, s) ==
    /\ h[0] = NoHits
    /\ \A i \in 1 .. Len(s) : h[i] = Hit(h[i - 1], s[i])

\* The fold of the limiter over its requests is the last of the tables it
\* passes through, one request after another.
LEMMA HitSteps ==
    ASSUME NEW s \in Seq(Requested)
    PROVE  /\ Trail(HitsTo(s), s)
           /\ FoldLeft(Hit, NoHits, s) = HitsTo(s)[Len(s)]
<1> DEFINE n == Len(s)
           g == CHOOSE g : Counts(g, s, DOMAIN s)
           h == HitsTo(s)
           step == [i \in 1 .. n |-> [t \in HitTable |-> Hit(t, s[i])]]
<1>1. DOMAIN s = 1 .. n /\ n \in Nat /\ \A i \in 1 .. n : s[i] \in Requested
  OBVIOUS
<1>2. 1 .. n \in SUBSET Int /\ IsFiniteSet(1 .. n)
  BY <1>1, FS_Interval
<1> HIDE DEF n
<1>3. NoHits \in HitTable
  BY DEF NoHits, NoEntry, HitTable, Entries
<1>4. step \in [1 .. n -> [HitTable -> HitTable]]
  BY <1>1, HitType
<1>5. Counts(g, s, DOMAIN s)
  <2>1. PICK f \in [SUBSET (1 .. n) -> HitTable] : FoldsUp(f, step, NoHits, 1 .. n)
    BY <1>2, <1>3, <1>4, FoldExists
  <2>2. ASSUME NEW S \in SUBSET (1 .. n), S # {}
        PROVE  step[Max(S)][f[S \ {Max(S)}]] = Hit(f[S \ {Max(S)}], s[Max(S)])
    <3>1. Max(S) \in S
      <4>1. S \in SUBSET Int /\ IsFiniteSet(S)
        BY <1>2, FS_Subset
      <4> QED
        BY <2>2, <4>1, LastMember
    <3>2. Max(S) \in 1 .. n /\ f[S \ {Max(S)}] \in HitTable
      BY <2>1, <3>1
    <3> QED
      BY <3>2
  <2> HIDE DEF step
  <2>3. Counts(f, s, DOMAIN s)
    <3>1. f = [S \in SUBSET (1 .. n) |-> IF S = {} THEN NoHits
                                         ELSE step[Max(S)][f[S \ {Max(S)}]]]
      BY <2>1 DEF FoldsUp
    <3>2. f = [S \in SUBSET (1 .. n) |-> IF S = {} THEN NoHits
                                         ELSE Hit(f[S \ {Max(S)}], s[Max(S)])]
      BY <2>2, <3>1
    <3> QED
      BY <1>1, <3>2 DEF Counts
  <2> QED
    BY <2>3
<1>6. FoldLeft(Hit, NoHits, s) = g[1 .. n]
  BY <1>1, HitsChosen
<1>7. h = [i \in 0 .. n |-> g[1 .. i]]
  BY DEF HitsTo, n
<1> HIDE DEF g, h
<1>8. h[0] = NoHits
  <2>1. g[{}] = NoHits
    BY <1>5 DEF Counts
  <2>2. 1 .. 0 = {} /\ 0 \in 0 .. n
    BY <1>1
  <2> QED
    BY <1>7, <2>1, <2>2
<1>9. ASSUME NEW i \in 1 .. n PROVE h[i] = Hit(h[i - 1], s[i])
  <2>1. i \in Nat \ {0} /\ i \in 0 .. n /\ i - 1 \in 0 .. n /\ 1 .. i \in SUBSET (1 .. n)
    BY <1>1
  <2>2. Max(1 .. i) = i /\ (1 .. i) \ {i} = 1 .. i - 1 /\ 1 .. i # {}
    BY <2>1, FirstPlaces
  <2>3. g[1 .. i] = Hit(g[(1 .. i) \ {Max(1 .. i)}], s[Max(1 .. i)])
    BY <1>1, <1>5, <2>1, <2>2 DEF Counts
  <2> QED
    BY <1>7, <2>1, <2>2, <2>3
<1>10. h[n] = g[1 .. n]
  BY <1>1, <1>7
<1> QED
  BY <1>6, <1>8, <1>9, <1>10 DEF Trail, n, h

\* There is one trail.
LEMMA TrailsAgree ==
    ASSUME NEW s, Len(s) \in Nat, NEW t, Len(t) \in Nat,
           NEW n \in 0 .. Len(s), n <= Len(t), \A i \in 1 .. n : s[i] = t[i],
           NEW h, Trail(h, s), NEW k, Trail(k, t)
    PROVE  h[n] = k[n]
<1> DEFINE S == {i \in 0 .. n : h[i] = k[i]}
<1>1. 0 \in S
  BY DEF Trail
<1>2. ASSUME NEW i \in 1 .. n, i - 1 \in S PROVE i \in S
  <2>1. i \in 1 .. Len(s) /\ i \in 1 .. Len(t) /\ i \in 0 .. n /\ s[i] = t[i]
    OBVIOUS
  <2>2. h[i] = Hit(h[i - 1], s[i]) /\ k[i] = Hit(k[i - 1], t[i])
    BY <2>1 DEF Trail
  <2> QED
    BY <1>2, <2>1, <2>2
<1> HIDE DEF S
<1>3. n \in Nat
  OBVIOUS
<1>4. 0 .. n \subseteq S
  BY <1>1, <1>2, <1>3, StepByStep
<1>5. n \in S
  BY <1>3, <1>4
<1> QED
  BY <1>5 DEF S

\* What isRateLimited compares with the limit.
LEMMA LimitedBy ==
    ASSUME NEW r \in Seq(Requested), NEW i \in 1 .. Len(r)
    PROVE  isRateLimited(r, i)
             <=> HitsTo(r)[i][r[i].key].count > RATE_LIMIT_MAX_REQUESTS
<1> DEFINE s == SubSeq(r, 1, i)
<1>1. Len(r) \in Nat /\ \A j \in 1 .. i : r[j] \in Requested
  OBVIOUS
<1>2. s \in Seq(Requested) /\ Len(s) = i /\ \A j \in 1 .. i : s[j] = r[j]
  <2>1. /\ s \in Seq(Requested) /\ Len(s) = IF 1 <= i THEN i - 1 + 1 ELSE 0
        /\ \A j \in 1 .. i - 1 + 1 : s[j] = r[1 + j - 1]
    BY <1>1, SubSeqProperties
  <2> QED
    BY <2>1
<1> HIDE DEF s
<1>3. FoldLeft(Hit, NoHits, s) = HitsTo(s)[i]
  BY <1>2, HitSteps
<1>4. HitsTo(s)[i] = HitsTo(r)[i]
  <2>1. i \in 0 .. Len(s) /\ i <= Len(r) /\ Len(s) \in Nat
    BY <1>1, <1>2
  <2>2. Trail(HitsTo(s), s) /\ Trail(HitsTo(r), r)
    BY <1>2, HitSteps
  <2> QED
    BY <1>1, <1>2, <2>1, <2>2, TrailsAgree
<1> QED
  BY <1>3, <1>4 DEF isRateLimited, s

\* The count of each request in its window, and the window's beginning.
Counted(r) == [i \in 1 .. Len(r) |-> HitsTo(r)[i][r[i].key].count]
Begun(r) == [i \in 1 .. Len(r) |-> HitsTo(r)[i][r[i].key].windowStart]

\* j is the last of the first i requests with the key.
LastOf(r, i, key, j) ==
    /\ j \in 1 .. i /\ r[j].key = key
    /\ \A l \in 1 .. i : r[l].key = key => l <= j

\* After i requests, a key's entry is that of its last request.
Current(r, c, w, h, i) ==
    \A k \in Keys :
      \/ h[i][k] = NoEntry /\ \A j \in 1 .. i : r[j].key # k
      \/ \E j \in 1 .. i : /\ LastOf(r, i, k, j)
                           /\ h[i][k] = [count |-> c[j], windowStart |-> w[j]]
                           /\ c[j] \in Nat \ {0} /\ w[j] \in Nat

\* The i-th request begins a window, or counts in that of the one before it.
Begins(r, c, w, i) == c[i] = 1 /\ w[i] = r[i].at

Follows(r, c, w, i) ==
    \/ (\A j \in 1 .. i - 1 : r[j].key # r[i].key) /\ Begins(r, c, w, i)
    \/ \E j \in 1 .. i - 1 :
         /\ LastOf(r, i - 1, r[i].key, j)
         /\ IF r[i].at - w[j] > RATE_LIMIT_WINDOW_MS THEN Begins(r, c, w, i)
            ELSE c[i] = c[j] + 1 /\ w[i] = w[j]

\* One request keeps every window of the table current, and either begins a
\* window of its address or counts one more in the window of the last one.
LEMMA HitFollows ==
    ASSUME NEW r \in Seq(Requested), NEW h, Trail(h, r),
           NEW c, c = [i \in 1 .. Len(r) |-> h[i][r[i].key].count],
           NEW w, w = [i \in 1 .. Len(r) |-> h[i][r[i].key].windowStart],
           NEW i \in 1 .. Len(r), h[i - 1] \in HitTable, Current(r, c, w, h, i - 1)
    PROVE  /\ h[i] \in HitTable /\ Current(r, c, w, h, i) /\ Follows(r, c, w, i)
           /\ c[i] \in Nat \ {0} /\ w[i] \in Nat
<1>1. r[i].key \in Keys /\ r[i].at \in Nat /\ Len(r) \in Nat
  <2>1. r[i] \in Requested /\ Len(r) \in Nat
    OBVIOUS
  <2> QED
    BY <2>1 DEF Requested
<1>2. PICK k \in Keys : k = r[i].key
  BY <1>1
<1>3. PICK e : e = h[i - 1][k]
  OBVIOUS
<1>4. PICK new : new = IF e = NoEntry \/ r[i].at - e.windowStart > RATE_LIMIT_WINDOW_MS
                       THEN [count |-> 1, windowStart |-> r[i].at]
                       ELSE [e EXCEPT !.count = @ + 1]
  OBVIOUS
<1>5. h[i] = [h[i - 1] EXCEPT ![k] = new]
  <2>1. h[i] = Hit(h[i - 1], r[i])
    BY DEF Trail
  <2> QED
    BY <1>2, <1>3, <1>4, <2>1 DEF Hit
<1>6. h[i] \in HitTable
  <2>1. h[i] = Hit(h[i - 1], r[i])
    BY DEF Trail
  <2> QED
    BY <1>1, <2>1, HitType
<1>7. h[i][k] = new /\ \A x \in Keys : x # k => h[i][x] = h[i - 1][x]
  BY <1>5 DEF HitTable
<1>8. c[i] = new.count /\ w[i] = new.windowStart
  BY <1>2, <1>7
<1>9. /\ c[i] \in Nat \ {0} /\ w[i] \in Nat /\ new = [count |-> c[i], windowStart |-> w[i]]
      /\ Follows(r, c, w, i)
  <2>1. CASE e = NoEntry /\ \A j \in 1 .. i - 1 : r[j].key # k
    <3>1. new = [count |-> 1, windowStart |-> r[i].at]
      BY <1>4, <2>1
    <3>2. c[i] = 1 /\ w[i] = r[i].at
      BY <1>8, <3>1
    <3> QED
      BY <1>1, <1>2, <2>1, <3>1, <3>2 DEF Follows, Begins
  <2>2. CASE \E j \in 1 .. i - 1 : /\ LastOf(r, i - 1, k, j)
                                   /\ e = [count |-> c[j], windowStart |-> w[j]]
                                   /\ c[j] \in Nat \ {0} /\ w[j] \in Nat
    <3>1. PICK j \in 1 .. i - 1 : /\ LastOf(r, i - 1, k, j)
                                  /\ e = [count |-> c[j], windowStart |-> w[j]]
                                  /\ c[j] \in Nat \ {0} /\ w[j] \in Nat
      BY <2>2
    <3>2. e # NoEntry /\ e.windowStart = w[j] /\ e.count = c[j]
      BY <3>1 DEF NoEntry
    <3>3. CASE r[i].at - w[j] > RATE_LIMIT_WINDOW_MS
      <4>1. new = [count |-> 1, windowStart |-> r[i].at]
        BY <1>4, <3>2, <3>3
      <4>2. c[i] = 1 /\ w[i] = r[i].at
        BY <1>8, <4>1
      <4>3. Follows(r, c, w, i)
        BY <1>2, <3>1, <3>3, <4>2 DEF Follows, Begins
      <4> QED
        BY <1>1, <4>1, <4>2, <4>3
    <3>4. CASE ~ (r[i].at - w[j] > RATE_LIMIT_WINDOW_MS)
      <4>1. new = [e EXCEPT !.count = @ + 1]
        BY <1>4, <3>2, <3>4
      <4>2. new = [count |-> c[j] + 1, windowStart |-> w[j]]
        BY <3>1, <4>1
      <4>3. c[i] = c[j] + 1 /\ w[i] = w[j]
        BY <1>8, <4>2
      <4>4. Follows(r, c, w, i)
        BY <1>2, <3>1, <3>4, <4>3 DEF Follows, Begins
      <4>5. c[i] \in Nat \ {0} /\ w[i] \in Nat
        <5>1. PICK m \in Nat \ {0} : m = c[j]
          BY <3>1
        <5>2. c[i] = m + 1
          BY <4>3, <5>1
        <5>3. w[i] \in Nat
          BY <3>1, <4>3
        <5> QED
          BY <5>2, <5>3
      <4> QED
        BY <4>2, <4>3, <4>4, <4>5
    <3> QED
      BY <3>3, <3>4
  <2> QED
    BY <1>3, <2>1, <2>2 DEF Current
<1>10. ASSUME NEW x \in Keys
       PROVE  \/ h[i][x] = NoEntry /\ \A j \in 1 .. i : r[j].key # x
              \/ \E j \in 1 .. i : /\ LastOf(r, i, x, j)
                                   /\ h[i][x] = [count |-> c[j], windowStart |-> w[j]]
                                   /\ c[j] \in Nat \ {0} /\ w[j] \in Nat
  <2>0. 1 .. i = (1 .. i - 1) \cup {i}
    BY <1>1
  <2>1. CASE x = k
    <3>1. LastOf(r, i, x, i)
      BY <1>1, <1>2, <2>1 DEF LastOf
    <3>2. i \in 1 .. i
      BY <1>1
    <3> QED
      BY <1>7, <1>9, <2>1, <3>1, <3>2
  <2>2. CASE x # k
    <3>0. h[i][x] = h[i - 1][x] /\ r[i].key # x
      BY <1>2, <1>7, <2>2
    <3>1. CASE h[i - 1][x] = NoEntry /\ \A j \in 1 .. i - 1 : r[j].key # x
      BY <2>0, <3>0, <3>1
    <3>2. CASE \E j \in 1 .. i - 1 : /\ LastOf(r, i - 1, x, j)
                                     /\ h[i - 1][x] = [count |-> c[j], windowStart |-> w[j]]
                                     /\ c[j] \in Nat \ {0} /\ w[j] \in Nat
      <4>1. PICK j \in 1 .. i - 1 : /\ LastOf(r, i - 1, x, j)
                                    /\ h[i - 1][x] = [count |-> c[j], windowStart |-> w[j]]
                                    /\ c[j] \in Nat \ {0} /\ w[j] \in Nat
        BY <3>2
      <4>2. j \in 1 .. i /\ LastOf(r, i, x, j)
        BY <2>0, <3>0, <4>1 DEF LastOf
      <4> QED
        BY <3>0, <4>1, <4>2
    <3> QED
      BY <3>1, <3>2 DEF Current
  <2> QED
    BY <2>1, <2>2
<1> QED
  BY <1>6, <1>9, <1>10 DEF Current

\* Every request begins a window or counts in its key's last one.
LEMMA AllFollow ==
    ASSUME NEW r \in Seq(Requested)
    PROVE  \A i \in 1 .. Len(r) : /\ Follows(r, Counted(r), Begun(r), i)
                                  /\ Counted(r)[i] \in Nat \ {0} /\ Begun(r)[i] \in Nat
<1> DEFINE n == Len(r)
           h == HitsTo(r)
           c == Counted(r)
           w == Begun(r)
           Good(i) == h[i] \in HitTable /\ Current(r, c, w, h, i)
           S == {i \in Nat : Good(i)}
<1>1. n \in Nat
  OBVIOUS
<1>2. Trail(h, r)
  BY HitSteps
<1>3. c = [i \in 1 .. n |-> h[i][r[i].key].count]
      /\ w = [i \in 1 .. n |-> h[i][r[i].key].windowStart]
  BY DEF Counted, Begun
<1> HIDE DEF h, c, w
<1>4. ASSUME NEW i \in 1 .. n, Good(i - 1)
      PROVE  Good(i) /\ Follows(r, c, w, i) /\ c[i] \in Nat \ {0} /\ w[i] \in Nat
  BY <1>2, <1>3, <1>4, HitFollows
<1> HIDE DEF n
<1>5. 0 \in S
  <2>1. h[0] = NoHits
    BY <1>2 DEF Trail
  <2>2. NoHits \in HitTable /\ \A k \in Keys : NoHits[k] = NoEntry
    BY DEF NoHits, NoEntry, HitTable, Entries
  <2>3. 1 .. 0 = {}
    OBVIOUS
  <2>4. Current(r, c, w, h, 0)
    BY <2>1, <2>2, <2>3 DEF Current
  <2> QED
    BY <2>1, <2>2, <2>4
<1> HIDE DEF Good
<1>6. ASSUME NEW i \in 1 .. n, i - 1 \in S PROVE i \in S
  <2>1. i \in Nat /\ Good(i - 1)
    BY <1>1, <1>6
  <2> QED
    BY <1>4, <2>1
<1> HIDE DEF S
<1>7. 0 .. n \subseteq S
  BY <1>1, <1>5, <1>6, StepByStep
<1>8. ASSUME NEW i \in 1 .. n
      PROVE  Follows(r, c, w, i) /\ c[i] \in Nat \ {0} /\ w[i] \in Nat
  <2>1. i - 1 \in 0 .. n
    BY <1>1
  <2>2. Good(i - 1)
    BY <1>7, <2>1 DEF S
  <2> QED
    BY <1>4, <2>2
<1> QED
  BY <1>8 DEF n, c, w

\* The requests arrive in the order of their times, and each begins a window
\* or counts in one.
Windows(r, c, w) ==
    /\ r \in Seq(Requested) /\ Len(r) \in Nat
    /\ \A i \in 1 .. Len(r) : r[i].at \in Nat /\ r[i].key \in Keys
    /\ \A i, j \in 1 .. Len(r) : i < j => r[i].at <= r[j].at
    /\ \A i \in 1 .. Len(r) : Follows(r, c, w, i) /\ c[i] \in Nat \ {0} /\ w[i] \in Nat

\* A request is within its window, and the first is its beginning.
WithinOwn(r, c, w, i) ==
    /\ w[i] <= r[i].at /\ r[i].at <= w[i] + RATE_LIMIT_WINDOW_MS
    /\ c[i] = 1 => r[i].at = w[i]

\* Every request falls within the window it is counted in.
LEMMA RequestsWithin ==
    ASSUME NEW r, NEW c, NEW w, Windows(r, c, w)
    PROVE  \A i \in 1 .. Len(r) : WithinOwn(r, c, w, i)
<1> DEFINE n == Len(r)
           B == {i \in 1 .. n : ~ WithinOwn(r, c, w, i)}
<1>0. n \in Nat /\ RATE_LIMIT_WINDOW_MS \in Nat
  BY RateLimiterAssumption DEF Windows
<1> SUFFICES ASSUME B # {} PROVE FALSE
  OBVIOUS
<1>1. PICK i \in B : \A m \in Nat : m < i => m \notin B
  <2>1. B \in SUBSET Nat
    BY <1>0
  <2> HIDE DEF B
  <2> QED
    BY <2>1, LeastNumber
<1>2. /\ i \in 1 .. n /\ ~ WithinOwn(r, c, w, i)
      /\ Follows(r, c, w, i) /\ c[i] \in Nat \ {0} /\ w[i] \in Nat /\ r[i].at \in Nat
  BY <1>1 DEF Windows
<1>3. CASE Begins(r, c, w, i)
  BY <1>0, <1>2, <1>3 DEF Begins, WithinOwn
<1>4. CASE \E j \in 1 .. i - 1 : /\ ~ (r[i].at - w[j] > RATE_LIMIT_WINDOW_MS)
                                 /\ c[i] = c[j] + 1 /\ w[i] = w[j]
  <2>1. PICK j \in 1 .. i - 1 : /\ ~ (r[i].at - w[j] > RATE_LIMIT_WINDOW_MS)
                                /\ c[i] = c[j] + 1 /\ w[i] = w[j]
    BY <1>4
  <2>2. j \in 1 .. n /\ j < i /\ j \in Nat
    BY <1>0, <1>2
  <2>3. j \notin B
    BY <1>1, <2>2
  <2>4. w[j] <= r[j].at
    BY <2>2, <2>3 DEF WithinOwn
  <2>5. r[j].at <= r[i].at /\ r[j].at \in Nat /\ c[j] \in Nat \ {0} /\ w[j] \in Nat
    BY <1>2, <2>2 DEF Windows
  <2>6. PICK m \in Nat \ {0} : m = c[j]
    BY <2>5
  <2>7. c[i] = m + 1
    BY <2>1, <2>6
  <2>8. w[i] <= r[i].at /\ r[i].at <= w[i] + RATE_LIMIT_WINDOW_MS
    <3>1. PICK v \in Nat : v = w[j]
      BY <2>5
    <3>2. w[i] = v /\ v <= r[j].at /\ ~ (r[i].at - v > RATE_LIMIT_WINDOW_MS)
      BY <2>1, <2>4, <3>1
    <3> QED
      BY <1>0, <1>2, <2>5, <3>2
  <2>9. c[i] # 1
    BY <2>7
  <2> QED
    BY <1>2, <2>8, <2>9 DEF WithinOwn
<1> QED
  BY <1>2, <1>3, <1>4 DEF Follows

\* Of one key's requests, a later one counts on in the window of the earlier,
\* or is in a window that begins when that has passed.
OneOrApart(r, c, w, j, i) ==
    j < i /\ r[j].key = r[i].key =>
      \/ w[i] = w[j] /\ c[j] < c[i]
      \/ w[i] > w[j] + RATE_LIMIT_WINDOW_MS

\* Of two requests of one address, the later one counts on in the same window,
\* or its window begins more than a window length after the earlier one's.
LEMMA WindowsApart ==
    ASSUME NEW r, NEW c, NEW w, Windows(r, c, w)
    PROVE  \A i, j \in 1 .. Len(r) : OneOrApart(r, c, w, j, i)
<1> DEFINE n == Len(r)
           Fine(i) == \A j \in 1 .. n : OneOrApart(r, c, w, j, i)
           B == {i \in 1 .. n : ~ Fine(i)}
<1>0. n \in Nat /\ RATE_LIMIT_WINDOW_MS \in Nat
  BY RateLimiterAssumption DEF Windows
<1> SUFFICES ASSUME B # {} PROVE FALSE
  OBVIOUS
<1>1. PICK i \in B : \A m \in Nat : m < i => m \notin B
  <2>1. B \in SUBSET Nat
    BY <1>0
  <2> HIDE DEF B, Fine
  <2> QED
    BY <2>1, LeastNumber
<1>2. i \in 1 .. n /\ i \in Nat /\ Follows(r, c, w, i)
      /\ c[i] \in Nat \ {0} /\ w[i] \in Nat /\ r[i].at \in Nat
  BY <1>1 DEF Windows
<1>3. PICK j \in 1 .. n : ~ OneOrApart(r, c, w, j, i)
  BY <1>1
<1>4. j < i /\ r[j].key = r[i].key /\ j \in 1 .. i - 1 /\ w[j] \in Nat /\ c[j] \in Nat \ {0}
  <2>1. j < i /\ r[j].key = r[i].key /\ w[j] \in Nat /\ c[j] \in Nat \ {0}
    BY <1>3 DEF OneOrApart, Windows
  <2> QED
    BY <1>2, <2>1
<1>5. PICK p \in 1 .. i - 1 :
        /\ LastOf(r, i - 1, r[i].key, p)
        /\ IF r[i].at - w[p] > RATE_LIMIT_WINDOW_MS THEN Begins(r, c, w, i)
           ELSE c[i] = c[p] + 1 /\ w[i] = w[p]
  BY <1>2, <1>4 DEF Follows
<1>6. /\ p \in 1 .. n /\ p < i /\ p \in Nat /\ r[p].key = r[i].key /\ j <= p
      /\ w[p] \in Nat /\ c[p] \in Nat \ {0}
  <2>1. p \in 1 .. n /\ p < i /\ p \in Nat
    BY <1>0, <1>2
  <2>2. r[p].key = r[i].key /\ j <= p
    BY <1>4, <1>5 DEF LastOf
  <2> QED
    BY <2>1, <2>2 DEF Windows
<1>7. \/ w[p] = w[j] /\ c[j] <= c[p]
      \/ w[p] > w[j] + RATE_LIMIT_WINDOW_MS
  <2>1. CASE j = p
    BY <1>4, <2>1
  <2>2. CASE j # p
    <3>1. j < p
      BY <1>6, <2>2
    <3>2. p \notin B
      BY <1>1, <1>6
    <3>3. OneOrApart(r, c, w, j, p)
      BY <1>3, <1>6, <3>2
    <3>4. \/ w[p] = w[j] /\ c[j] < c[p]
          \/ w[p] > w[j] + RATE_LIMIT_WINDOW_MS
      BY <1>4, <1>6, <3>1, <3>3 DEF OneOrApart
    <3> QED
      BY <1>4, <1>6, <3>4
  <2> QED
    BY <2>1, <2>2
<1>8. PICK a \in Nat, b \in Nat, d \in Nat, x \in Nat, y \in Nat, z \in Nat, t \in Nat :
        /\ a = w[j] /\ b = w[p] /\ d = w[i] /\ x = c[j] /\ y = c[p] /\ z = c[i]
        /\ t = r[i].at
  BY <1>2, <1>4, <1>6
<1>9. /\ (b = a /\ x <= y) \/ b > a + RATE_LIMIT_WINDOW_MS
      /\ IF t - b > RATE_LIMIT_WINDOW_MS THEN z = 1 /\ d = t ELSE z = y + 1 /\ d = b
  BY <1>5, <1>7, <1>8 DEF Begins
<1>10. (d = a /\ x < z) \/ d > a + RATE_LIMIT_WINDOW_MS
  BY <1>0, <1>9
<1> QED
  BY <1>3, <1>8, <1>10 DEF OneOrApart

\* A request that does not begin its window has one before it in the window
\* that counted one less.
LEMMA OneBefore ==
    ASSUME NEW r, NEW c, NEW w, Windows(r, c, w), NEW i \in 1 .. Len(r), c[i] # 1
    PROVE  \E j \in 1 .. i - 1 : r[j].key = r[i].key /\ w[j] = w[i] /\ c[i] = c[j] + 1
<1>1. Follows(r, c, w, i)
  BY DEF Windows
<1> QED
  BY <1>1 DEF Follows, Begins, LastOf

\* So every smaller count is there.
CountsTo(r, c, w, i) ==
    \A m \in 1 .. c[i] - 1 :
      \E j \in 1 .. i - 1 : r[j].key = r[i].key /\ w[j] = w[i] /\ c[j] = m

\* A count of k is reached through the counts 1 to k - 1 of the same window.
LEMMA AllBefore ==
    ASSUME NEW r, NEW c, NEW w, Windows(r, c, w)
    PROVE  \A i \in 1 .. Len(r) : CountsTo(r, c, w, i)
<1> DEFINE n == Len(r)
           B == {i \in 1 .. n : ~ CountsTo(r, c, w, i)}
<1>0. n \in Nat
  BY DEF Windows
<1> SUFFICES ASSUME B # {} PROVE FALSE
  OBVIOUS
<1>1. PICK i \in B : \A m \in Nat : m < i => m \notin B
  <2>1. B \in SUBSET Nat
    BY <1>0
  <2> HIDE DEF B
  <2> QED
    BY <2>1, LeastNumber
<1>2. i \in 1 .. n /\ c[i] \in Nat \ {0} /\ ~ CountsTo(r, c, w, i)
  BY <1>1 DEF Windows
<1>3. PICK m \in 1 .. c[i] - 1 :
        ~ \E j \in 1 .. i - 1 : r[j].key = r[i].key /\ w[j] = w[i] /\ c[j] = m
  BY <1>2 DEF CountsTo
<1>4. c[i] # 1
  BY <1>2, <1>3
<1>5. PICK j \in 1 .. i - 1 : r[j].key = r[i].key /\ w[j] = w[i] /\ c[i] = c[j] + 1
  BY <1>2, <1>4, OneBefore
<1>6. j \in 1 .. n /\ j < i /\ j \in Nat
  BY <1>0, <1>2
<1>7. CountsTo(r, c, w, j) /\ c[j] \in Nat \ {0}
  BY <1>1, <1>6 DEF Windows
<1>8. m # c[j]
  BY <1>3, <1>5
<1>9. PICK x \in Nat \ {0} : x = c[j]
  BY <1>7
<1>10. m \in 1 .. c[j] - 1
  <2>1. m \in 1 .. (x + 1) - 1 /\ m # x
    BY <1>3, <1>5, <1>8, <1>9
  <2>2. m \in 1 .. x - 1
    BY <2>1
  <2> QED
    BY <1>9, <2>2
<1>11. PICK l \in 1 .. j - 1 : r[l].key = r[j].key /\ w[l] = w[j] /\ c[l] = m
  BY <1>7, <1>10 DEF CountsTo
<1>12. l \in 1 .. i - 1
  BY <1>2, <1>6
<1> QED
  BY <1>3, <1>5, <1>11, <1>12

\* Requests of one key in one window are told apart by their counts.
LEMMA FewInWindow ==
    ASSUME NEW r, NEW c, NEW w, Windows(r, c, w), NEW S \in SUBSET (1 .. Len(r)),
           NEW lo \in Nat, NEW hi \in Nat, lo <= hi + 1,
           \A j \in S : c[j] \in lo .. hi,
           \A j, l \in S : r[j].key = r[l].key /\ (j < l => ~ (w[l] > w[j] + RATE_LIMIT_WINDOW_MS))
    PROVE  /\ IsFiniteSet(S) /\ Cardinality(S) \in Nat
           /\ Cardinality(S) <= hi - lo + 1
<1> DEFINE f == [j \in S |-> c[j]]
<1>1. ASSUME NEW j \in S, NEW l \in S, f[j] = f[l] PROVE j = l
  <2>1. ASSUME NEW x \in S, NEW y \in S, x < y PROVE c[x] # c[y]
    <3>1. OneOrApart(r, c, w, x, y) /\ r[x].key = r[y].key
      BY WindowsApart
    <3>2. c[x] < c[y]
      BY <2>1, <3>1 DEF OneOrApart
    <3>3. c[x] \in Nat /\ c[y] \in Nat
      BY DEF Windows
    <3> QED
      BY <3>2, <3>3
  <2>2. j \in Nat /\ l \in Nat /\ c[j] = c[l]
    BY <1>1 DEF Windows
  <2>3. j < l \/ l < j \/ j = l
    BY <2>2
  <2> QED
    BY <2>1, <2>2, <2>3
<1>2. f \in Injection(S, lo .. hi)
  BY <1>1 DEF Injection, IsInjective
<1>3. /\ IsFiniteSet(lo .. hi)
      /\ Cardinality(lo .. hi) = hi - lo + 1
  <2>1. /\ IsFiniteSet(lo .. hi)
        /\ Cardinality(lo .. hi) = IF lo > hi THEN 0 ELSE hi - lo + 1
    BY FS_Interval
  <2> QED
    BY <2>1
<1>4. IsFiniteSet(S) /\ Cardinality(S) <= Cardinality(lo .. hi)
  BY <1>2, <1>3, FS_Injection
<1> QED
  BY <1>3, <1>4, FS_CardinalityType

\* Of what arrives in a stretch of a window's length, what counts in a window
\* begun before it lacks that window's first, and the rest is in one window.
LEMMA StretchAdmits ==
    ASSUME NEW r, NEW c, NEW w, Windows(r, c, w), NEW key, NEW from \in Nat,
           NEW S \in SUBSET (1 .. Len(r)),
           \A j \in S : /\ r[j].key = key /\ c[j] <= RATE_LIMIT_MAX_REQUESTS
                        /\ r[j].at \in from .. from + RATE_LIMIT_WINDOW_MS
    PROVE  Cardinality(S) < 2 * RATE_LIMIT_MAX_REQUESTS
<1> DEFINE early == {j \in S : w[j] < from}
           late == {j \in S : ~ (w[j] < from)}
           M == RATE_LIMIT_MAX_REQUESTS
           W == RATE_LIMIT_WINDOW_MS
<1>1. M \in Nat \ {0} /\ W \in Nat
  BY RateLimiterAssumption
<1>2. \A j \in S : /\ c[j] \in Nat \ {0} /\ w[j] \in Nat /\ r[j].at \in Nat
                   /\ WithinOwn(r, c, w, j)
  BY RequestsWithin DEF Windows
<1> HIDE DEF M, W
<1>3. \A j \in S : c[j] <= M /\ from <= r[j].at /\ r[j].at <= from + W /\ r[j].key = key
  BY DEF M, W
<1>4. \A j \in S : w[j] <= r[j].at /\ r[j].at <= w[j] + W /\ (c[j] = 1 => r[j].at = w[j])
  BY <1>2 DEF WithinOwn, W
<1>5. /\ IsFiniteSet(early) /\ Cardinality(early) \in Nat
      /\ Cardinality(early) <= M - 2 + 1
  <2>1. ASSUME NEW j \in early PROVE c[j] \in 2 .. M
    <3>1. c[j] # 1
      BY <1>2, <1>3, <1>4
    <3> QED
      BY <1>1, <1>2, <1>3, <3>1
  <2>2. ASSUME NEW j \in early, NEW l \in early
        PROVE  r[j].key = r[l].key /\ ~ (w[l] > w[j] + W)
    BY <1>1, <1>2, <1>3, <1>4
  <2>3. early \in SUBSET (1 .. Len(r))
    OBVIOUS
  <2>4. 2 \in Nat /\ M \in Nat /\ 2 <= M + 1
    BY <1>1
  <2> HIDE DEF early
  <2> QED
    BY <2>1, <2>2, <2>3, <2>4, FewInWindow DEF W
<1>6. /\ IsFiniteSet(late) /\ Cardinality(late) \in Nat
      /\ Cardinality(late) <= M - 1 + 1
  <2>1. ASSUME NEW j \in late PROVE c[j] \in 1 .. M
    BY <1>1, <1>2, <1>3
  <2>2. ASSUME NEW j \in late, NEW l \in late
        PROVE  r[j].key = r[l].key /\ ~ (w[l] > w[j] + W)
    BY <1>1, <1>2, <1>3, <1>4
  <2>3. late \in SUBSET (1 .. Len(r))
    OBVIOUS
  <2>4. 1 \in Nat /\ M \in Nat /\ 1 <= M + 1
    BY <1>1
  <2> HIDE DEF late
  <2> QED
    BY <2>1, <2>2, <2>3, <2>4, FewInWindow DEF W
<1>7. S = early \cup late /\ early \cap late = {}
  OBVIOUS
<1> HIDE DEF early, late
<1>8. Cardinality(S) = Cardinality(early) + Cardinality(late) - 0
  <2>1. Cardinality(early \cap late) = 0
    BY <1>7, FS_EmptySet
  <2> QED
    BY <1>5, <1>6, <1>7, <2>1, FS_Union
<1> QED
  BY <1>1, <1>5, <1>6, <1>8 DEF M

\* A refused request comes after as many admitted ones as the limit.
LEMMA RefusedAfterLimit ==
    ASSUME NEW r, NEW c, NEW w, Windows(r, c, w), NEW i \in 1 .. Len(r),
           c[i] > RATE_LIMIT_MAX_REQUESTS,
           NEW S \in SUBSET (1 .. Len(r)),
           \A j \in 1 .. Len(r) :
             /\ j < i /\ r[j].key = r[i].key /\ c[j] <= RATE_LIMIT_MAX_REQUESTS
             /\ r[j].at >= r[i].at - RATE_LIMIT_WINDOW_MS /\ r[j].at <= r[i].at
             => j \in S
    PROVE  Cardinality(S) >= RATE_LIMIT_MAX_REQUESTS
<1> DEFINE M == RATE_LIMIT_MAX_REQUESTS
           Same(m) == {j \in 1 .. i - 1 : r[j].key = r[i].key /\ w[j] = w[i] /\ c[j] = m}
           f == [m \in 1 .. M |-> CHOOSE j \in Same(m) : TRUE]
<1>1. M \in Nat \ {0} /\ RATE_LIMIT_WINDOW_MS \in Nat /\ Len(r) \in Nat
  BY RateLimiterAssumption DEF Windows
<1>2. /\ c[i] \in Nat \ {0} /\ w[i] \in Nat /\ r[i].at \in Nat
      /\ CountsTo(r, c, w, i) /\ WithinOwn(r, c, w, i)
  BY AllBefore, RequestsWithin DEF Windows
<1> HIDE DEF M
<1>3. ASSUME NEW m \in 1 .. M PROVE f[m] \in Same(m)
  <2>1. m \in 1 .. c[i] - 1
    <3>1. c[i] > M
      BY DEF M
    <3> QED
      BY <1>1, <1>2, <3>1
  <2>2. \E j \in Same(m) : TRUE
    BY <1>2, <2>1 DEF CountsTo
  <2> QED
    BY <2>2
<1> HIDE DEF f
<1>4. ASSUME NEW m \in 1 .. M PROVE f[m] \in S /\ c[f[m]] = m
  <2>1. PICK j \in 1 .. i - 1 : j = f[m] /\ r[j].key = r[i].key /\ w[j] = w[i] /\ c[j] = m
    BY <1>3
  <2>2. j \in 1 .. Len(r) /\ j < i
    BY <1>1
  <2>3. r[j].at <= r[i].at /\ r[j].at \in Nat /\ WithinOwn(r, c, w, j) /\ w[j] \in Nat
    BY <2>2, RequestsWithin DEF Windows
  <2>4. r[j].at >= r[i].at - RATE_LIMIT_WINDOW_MS
    <3>1. PICK v \in Nat : v = w[i]
      BY <1>2
    <3>2. v <= r[j].at /\ r[i].at <= v + RATE_LIMIT_WINDOW_MS
      BY <1>2, <2>1, <2>3, <3>1 DEF WithinOwn
    <3> QED
      BY <1>1, <1>2, <2>3, <3>2
  <2>5. c[j] <= RATE_LIMIT_MAX_REQUESTS
    <3>1. m <= M
      BY <1>1
    <3> QED
      BY <2>1, <3>1 DEF M
  <2>6. j \in S
    BY <2>1, <2>2, <2>3, <2>4, <2>5
  <2> QED
    BY <2>1, <2>6
<1>5. f \in Injection(1 .. M, S)
  <2>1. f \in [1 .. M -> S]
    BY <1>4 DEF f
  <2>2. \A m, l \in 1 .. M : f[m] = f[l] => m = l
    BY <1>4
  <2> QED
    BY <2>1, <2>2 DEF Injection, IsInjective
<1>6. IsFiniteSet(S)
  <2>1. IsFiniteSet(1 .. Len(r))
    BY <1>1, FS_Interval
  <2> QED
    BY <2>1, FS_Subset
<1>7. Cardinality(1 .. M) <= Cardinality(S)
  BY <1>5, <1>6, FS_Injection
<1>8. Cardinality(1 .. M) = M
  <2>1. 1 \in Int /\ M \in Int /\ ~ (1 > M) /\ M - 1 + 1 = M
    BY <1>1
  <2>2. Cardinality(1 .. M) = IF 1 > M THEN 0 ELSE M - 1 + 1
    BY <2>1, FS_Interval
  <2> QED
    BY <2>1, <2>2
<1>9. Cardinality(S) \in Nat
  BY <1>6, FS_CardinalityType
<1> QED
  BY <1>1, <1>7, <1>8, <1>9 DEF M

\* Every sequence of requests keeps to the two bounds.
LEMMA AllWithinTwice ==
    ASSUME NEW r \in Arrivals
    PROVE  WithinTwice(r)
<1> DEFINE c == Counted(r)
           w == Begun(r)
           admitted == {i \in DOMAIN r : ~ isRateLimited(r, i)}
           Stretch(key, from) ==
             {i \in admitted : /\ r[i].key = key
                               /\ r[i].at \in from .. from + RATE_LIMIT_WINDOW_MS}
<1>1. /\ r \in Seq(Requested) /\ Len(r) \in Nat /\ DOMAIN r = 1 .. Len(r)
      /\ \A i, j \in DOMAIN r : i < j => r[i].at <= r[j].at
  <2>1. r \in Seq(Requested) /\ \A i, j \in DOMAIN r : i < j => r[i].at <= r[j].at
    BY RateLimiterAssumption DEF Requested
  <2> QED
    BY <2>1
<1>2. \A i \in 1 .. Len(r) : r[i].at \in Nat /\ r[i].key \in Keys
  <2>1. \A i \in 1 .. Len(r) : r[i] \in Requested
    BY <1>1
  <2> QED
    BY <2>1 DEF Requested
<1>3. Windows(r, c, w)
  BY <1>1, <1>2, AllFollow DEF Windows
<1>4. \A i \in 1 .. Len(r) : i \in admitted <=> ~ (c[i] > RATE_LIMIT_MAX_REQUESTS)
  <2>1. \A i \in 1 .. Len(r) : c[i] = HitsTo(r)[i][r[i].key].count
    BY DEF Counted
  <2> QED
    BY <1>1, <2>1, LimitedBy
<1>5. \A i \in 1 .. Len(r) : c[i] \in Nat
  BY <1>3 DEF Windows
<1>6. RATE_LIMIT_MAX_REQUESTS \in Nat /\ RATE_LIMIT_WINDOW_MS \in Nat
  BY RateLimiterAssumption
<1>7. admitted \subseteq 1 .. Len(r)
  BY <1>1
<1> HIDE DEF c, w, admitted
<1>8. ASSUME NEW i \in DOMAIN r
      PROVE  Cardinality(Stretch(r[i].key, r[i].at)) < 2 * RATE_LIMIT_MAX_REQUESTS
  <2> DEFINE S == Stretch(r[i].key, r[i].at)
  <2>1. \A j \in S : /\ r[j].key = r[i].key /\ c[j] <= RATE_LIMIT_MAX_REQUESTS
                     /\ r[j].at \in r[i].at .. r[i].at + RATE_LIMIT_WINDOW_MS
    BY <1>4, <1>5, <1>6, <1>7
  <2>2. S \in SUBSET (1 .. Len(r)) /\ r[i].at \in Nat
    BY <1>1, <1>2, <1>7
  <2> HIDE DEF S
  <2>3. Cardinality(S) < 2 * RATE_LIMIT_MAX_REQUESTS
    BY <1>3, <2>1, <2>2, StretchAdmits
  <2> QED
    BY <2>3 DEF S
<1>9. ASSUME NEW i \in DOMAIN r, i \notin admitted
      PROVE  Cardinality({j \in Stretch(r[i].key, r[i].at - RATE_LIMIT_WINDOW_MS) : j < i})
               >= RATE_LIMIT_MAX_REQUESTS
  <2> DEFINE S == {j \in Stretch(r[i].key, r[i].at - RATE_LIMIT_WINDOW_MS) : j < i}
  <2>1. i \in 1 .. Len(r) /\ c[i] > RATE_LIMIT_MAX_REQUESTS /\ r[i].at \in Nat
    BY <1>1, <1>2, <1>4, <1>9
  <2>2. S \in SUBSET (1 .. Len(r))
    BY <1>7
  <2>3. ASSUME NEW j \in 1 .. Len(r), j < i, r[j].key = r[i].key,
               c[j] <= RATE_LIMIT_MAX_REQUESTS,
               r[j].at >= r[i].at - RATE_LIMIT_WINDOW_MS, r[j].at <= r[i].at
        PROVE  j \in S
    <3>1. j \in admitted
      BY <1>4, <1>5, <1>6, <2>3
    <3>2. r[j].at \in r[i].at - RATE_LIMIT_WINDOW_MS
                      .. r[i].at - RATE_LIMIT_WINDOW_MS + RATE_LIMIT_WINDOW_MS
      BY <1>2, <1>6, <2>1, <2>3
    <3> QED
      BY <2>3, <3>1, <3>2
  <2> HIDE DEF S
  <2>4. Cardinality(S) >= RATE_LIMIT_MAX_REQUESTS
    BY <1>3, <2>1, <2>2, <2>3, RefusedAfterLimit
  <2> QED
    BY <2>4 DEF S
<1> HIDE DEF Stretch
<1> QED
  BY <1>8, <1>9 DEF WithinTwice, admitted, Stretch

\* Whatever arrives at a limited route, in any number and of any clients: no
\* stretch as long as a window admits twice the limit of one client's
\* requests, and nobody is refused before as many of his own were admitted
\* within a window (httpHandler.ts:68-90).
THEOREM LimiterKeepsBounds == Spec => []LimiterWithinTwice
<1>1. LimiterWithinTwice
  BY AllWithinTwice DEF LimiterWithinTwice
<1> QED
  BY <1>1, PTL

-----------------------------------------------------------------------------
(***************************************************************************)
(* A quote's allocation.  allocate folds the ranked holdings from the      *)
(* left, with what remains of the headroom.                                *)
(***************************************************************************)
Allotment == [mint : Nat, usdValue : Nat, allocated : Nat]
Taken == [remaining : Nat, results : Seq(Allotment)]

\* One asset's turn, as in allocate.
Take(acc, asset) ==
    LET allocated == Least(asset.usdValue, acc.remaining)
    IN  [remaining |-> acc.remaining - allocated,
         results |-> Append(acc.results,
             [mint |-> asset.mint, usdValue |-> asset.usdValue,
              allocated |-> allocated])]

Untouched(headroom) == [remaining |-> headroom, results |-> <<>>]

\* g is what was taken by the assets at the places S of s, for every S.
Takes(g, s, headroom, D) ==
    g = [S \in SUBSET D |-> IF S = {} THEN Untouched(headroom)
                            ELSE Take(g[S \ {Max(S)}], s[Max(S)])]

\* allocate chooses such a function.
LEMMA TakesChosen ==
    ASSUME NEW assets, NEW headroom, NEW s, s = rankAssets(assets)
    PROVE  allocate(assets, headroom)
             = (CHOOSE g : Takes(g, s, headroom, DOMAIN s))[DOMAIN s].results
BY Zenon DEF allocate, FoldLeft, MapThenFoldSet, Takes, Take, Untouched

\* A turn allocates what fits and keeps the types.
LEMMA TakeType ==
    ASSUME NEW acc \in Taken, NEW asset, asset.mint \in Nat, asset.usdValue \in Nat,
           NEW a, a = Least(asset.usdValue, acc.remaining)
    PROVE  /\ a \in Nat /\ a <= acc.remaining
           /\ Take(acc, asset) \in Taken
           /\ Take(acc, asset).remaining = acc.remaining - a
           /\ Take(acc, asset).results
                = Append(acc.results, [mint |-> asset.mint, usdValue |-> asset.usdValue,
                                       allocated |-> a])
<1>1. acc.remaining \in Nat /\ acc.results \in Seq(Allotment)
  BY DEF Taken
<1>2. a \in Nat /\ a <= acc.remaining
  BY <1>1 DEF Least
<1> DEFINE e == [mint |-> asset.mint, usdValue |-> asset.usdValue, allocated |-> a]
<1>3. e \in Allotment
  BY <1>2 DEF Allotment
<1>4. Take(acc, asset) = [remaining |-> acc.remaining - a, results |-> Append(acc.results, e)]
  BY DEF Take
<1> HIDE DEF e
<1>5. Append(acc.results, e) \in Seq(Allotment) /\ acc.remaining - a \in Nat
  BY <1>1, <1>2, <1>3, AppendProperties
<1>6. Take(acc, asset) \in Taken
  BY <1>4, <1>5 DEF Taken
<1> QED
  BY <1>2, <1>4, <1>6 DEF e

\* What was taken by the first i of the assets, for every i.
TakenTo(s, headroom) ==
    [i \in 0 .. Len(s) |-> (CHOOSE g : Takes(g, s, headroom, DOMAIN s))[1 .. i]]

\* h is what was taken after each of the assets.
TakenAlong(h, s, headroom) ==
    /\ h[0] = Untouched(headroom)
    /\ \A i \in 1 .. Len(s) : h[i] = Take(h[i - 1], s[i])

\* The fold goes from asset to asset.
LEMMA TakeSteps ==
    ASSUME NEW assets, NEW s \in Seq(HeldAsset), s = rankAssets(assets), NEW headroom \in Nat
    PROVE  /\ TakenAlong(TakenTo(s, headroom), s, headroom)
           /\ allocate(assets, headroom) = TakenTo(s, headroom)[Len(s)].results
<1> DEFINE n == Len(s)
           g == CHOOSE g : Takes(g, s, headroom, DOMAIN s)
           h == TakenTo(s, headroom)
           step == [i \in 1 .. n |-> [t \in Taken |-> Take(t, s[i])]]
<1>1. DOMAIN s = 1 .. n /\ n \in Nat /\ \A i \in 1 .. n : s[i] \in HeldAsset
  OBVIOUS
<1>2. 1 .. n \in SUBSET Int /\ IsFiniteSet(1 .. n)
  BY <1>1, FS_Interval
<1> HIDE DEF n
<1>3. Untouched(headroom) \in Taken
  BY EmptySeq DEF Untouched, Taken
<1>4. step \in [1 .. n -> [Taken -> Taken]]
  <2>1. ASSUME NEW i \in 1 .. n, NEW t \in Taken PROVE Take(t, s[i]) \in Taken
    <3>1. s[i].mint \in Nat /\ s[i].usdValue \in Nat
      BY <1>1 DEF HeldAsset
    <3> QED
      BY <3>1, TakeType
  <2> QED
    BY <2>1
<1>5. Takes(g, s, headroom, DOMAIN s)
  <2>1. PICK f \in [SUBSET (1 .. n) -> Taken] : FoldsUp(f, step, Untouched(headroom), 1 .. n)
    BY <1>2, <1>3, <1>4, FoldExists
  <2>2. ASSUME NEW S \in SUBSET (1 .. n), S # {}
        PROVE  step[Max(S)][f[S \ {Max(S)}]] = Take(f[S \ {Max(S)}], s[Max(S)])
    <3>1. Max(S) \in S
      <4>1. S \in SUBSET Int /\ IsFiniteSet(S)
        BY <1>2, FS_Subset
      <4> QED
        BY <2>2, <4>1, LastMember
    <3>2. Max(S) \in 1 .. n /\ f[S \ {Max(S)}] \in Taken
      BY <2>1, <3>1
    <3> QED
      BY <3>2
  <2> HIDE DEF step
  <2>3. Takes(f, s, headroom, DOMAIN s)
    <3>1. f = [S \in SUBSET (1 .. n) |-> IF S = {} THEN Untouched(headroom)
                                         ELSE step[Max(S)][f[S \ {Max(S)}]]]
      BY <2>1 DEF FoldsUp
    <3>2. f = [S \in SUBSET (1 .. n) |-> IF S = {} THEN Untouched(headroom)
                                         ELSE Take(f[S \ {Max(S)}], s[Max(S)])]
      BY <2>2, <3>1
    <3> QED
      BY <1>1, <3>2 DEF Takes
  <2> QED
    BY <2>3
<1>6. allocate(assets, headroom) = g[1 .. n].results
  <2>1. allocate(assets, headroom) = g[DOMAIN s].results
    BY TakesChosen
  <2> QED
    BY <1>1, <2>1
<1>7. h = [i \in 0 .. n |-> g[1 .. i]]
  BY DEF TakenTo, n
<1> HIDE DEF g, h
<1>8. h[0] = Untouched(headroom)
  <2>1. g[{}] = Untouched(headroom)
    BY <1>5 DEF Takes
  <2>2. 1 .. 0 = {} /\ 0 \in 0 .. n
    BY <1>1
  <2> QED
    BY <1>7, <2>1, <2>2
<1>9. ASSUME NEW i \in 1 .. n PROVE h[i] = Take(h[i - 1], s[i])
  <2>1. i \in Nat \ {0} /\ i \in 0 .. n /\ i - 1 \in 0 .. n /\ 1 .. i \in SUBSET (1 .. n)
    BY <1>1
  <2>2. Max(1 .. i) = i /\ (1 .. i) \ {i} = 1 .. i - 1 /\ 1 .. i # {}
    BY <2>1, FirstPlaces
  <2>3. g[1 .. i] = Take(g[(1 .. i) \ {Max(1 .. i)}], s[Max(1 .. i)])
    BY <1>1, <1>5, <2>1, <2>2 DEF Takes
  <2> QED
    BY <1>7, <2>1, <2>2, <2>3
<1>10. h[n] = g[1 .. n]
  BY <1>1, <1>7
<1> QED
  BY <1>6, <1>8, <1>9, <1>10 DEF TakenAlong, n, h

\* After i assets there are i entries, one for each of them.
Allotted(h, s, i) ==
    /\ h[i] \in Taken
    /\ Len(h[i].results) = i
    /\ \A j \in 1 .. i :
         h[i].results[j] = [mint |-> s[j].mint, usdValue |-> s[j].usdValue,
                            allocated |-> Least(s[j].usdValue, h[j - 1].remaining)]

\* Every asset in its turn.
LEMMA AllAllotted ==
    ASSUME NEW s \in Seq(HeldAsset), NEW headroom \in Nat,
           NEW h, TakenAlong(h, s, headroom)
    PROVE  \A i \in 0 .. Len(s) : Allotted(h, s, i)
<1> DEFINE n == Len(s)
           S == {i \in 0 .. n : Allotted(h, s, i)}
<1>1. n \in Nat /\ \A i \in 1 .. n : s[i].mint \in Nat /\ s[i].usdValue \in Nat
  <2>1. n \in Nat /\ \A i \in 1 .. n : s[i] \in HeldAsset
    OBVIOUS
  <2> QED
    BY <2>1 DEF HeldAsset
<1>2. 0 \in S
  <2>1. h[0] = Untouched(headroom)
    BY DEF TakenAlong
  <2>2. h[0] \in Taken /\ Len(h[0].results) = 0
    BY <2>1, EmptySeq DEF Untouched, Taken
  <2>3. Allotted(h, s, 0)
    BY <2>2 DEF Allotted
  <2> QED
    BY <1>1, <2>3
<1>3. ASSUME NEW i \in 1 .. n, i - 1 \in S PROVE i \in S
  <2>1. i - 1 \in Nat /\ i \in 0 .. n /\ Allotted(h, s, i - 1)
    BY <1>1, <1>3
  <2>2. h[i] = Take(h[i - 1], s[i])
    BY DEF TakenAlong
  <2> DEFINE acc == h[i - 1]
             e == [mint |-> s[i].mint, usdValue |-> s[i].usdValue,
                   allocated |-> Least(s[i].usdValue, acc.remaining)]
  <2>3. acc \in Taken /\ Len(acc.results) = i - 1
    BY <2>1 DEF Allotted
  <2>4. h[i] \in Taken /\ h[i].results = Append(acc.results, e)
    <3>1. s[i].mint \in Nat /\ s[i].usdValue \in Nat
      BY <1>1
    <3> HIDE DEF acc
    <3>2. Take(acc, s[i]) \in Taken /\ Take(acc, s[i]).results = Append(acc.results, e)
      BY <2>3, <3>1, TakeType
    <3> QED
      BY <2>2, <3>2 DEF acc
  <2>5. acc.results \in Seq(Allotment)
    BY <2>3 DEF Taken
  <2> HIDE DEF e
  <2>6. Len(h[i].results) = i /\ h[i].results[i] = e
        /\ \A j \in 1 .. i - 1 : h[i].results[j] = acc.results[j]
    BY <2>1, <2>3, <2>4, <2>5
  <2>7. ASSUME NEW j \in 1 .. i
        PROVE  h[i].results[j] = [mint |-> s[j].mint, usdValue |-> s[j].usdValue,
                                  allocated |-> Least(s[j].usdValue, h[j - 1].remaining)]
    <3>1. CASE j = i
      BY <2>6, <3>1 DEF e, acc
    <3>2. CASE j # i
      <4>1. j \in 1 .. i - 1
        BY <2>1, <3>2
      <4> QED
        BY <2>1, <2>6, <4>1 DEF Allotted, acc
    <3> QED
      BY <3>1, <3>2
  <2>8. Allotted(h, s, i)
    BY <2>4, <2>6, <2>7 DEF Allotted
  <2> QED
    BY <2>1, <2>8
<1> HIDE DEF S
<1>4. 0 .. n \subseteq S
  BY <1>1, <1>2, <1>3, StepByStep
<1> QED
  BY <1>4 DEF S

\* A headroom used up in turns: what is taken of each value, and what remains.
UsedUp(rem, v, a, n, headroom) ==
    /\ rem \in [0 .. n -> Nat] /\ v \in [1 .. n -> Nat] /\ a \in [1 .. n -> Nat]
    /\ rem[0] = headroom
    /\ \A i \in 1 .. n : a[i] = Least(v[i], rem[i - 1]) /\ rem[i] = rem[i - 1] - a[i]

\* Altogether the headroom is taken, or all there is.
LEMMA UsedUpSum ==
    ASSUME NEW n \in Nat, NEW headroom \in Nat, NEW rem, NEW v, NEW a,
           UsedUp(rem, v, a, n, headroom)
    PROVE  SumFunctionOnSet(a, 1 .. n) = Least(headroom, SumFunctionOnSet(v, 1 .. n))
<1> DEFINE V(i) == SumFunctionOnSet(v, 1 .. i)
           A(i) == SumFunctionOnSet(a, 1 .. i)
           S == {i \in 0 .. n : /\ V(i) \in Nat /\ A(i) = Least(headroom, V(i))
                                /\ rem[i] = headroom - A(i)}
<1>1. /\ \A i \in 1 .. n : v[i] \in Nat /\ a[i] \in Nat /\ rem[i] \in Nat /\ rem[i - 1] \in Nat
      /\ \A i \in 1 .. n : a[i] = Least(v[i], rem[i - 1]) /\ rem[i] = rem[i - 1] - a[i]
      /\ rem[0] = headroom
  BY DEF UsedUp
<1>2. 0 \in S
  <2>1. 1 .. 0 = {} /\ 0 \in 0 .. n
    OBVIOUS
  <2>2. V(0) = 0 /\ A(0) = 0
    BY <2>1, SumEmpty
  <2>3. Least(headroom, 0) = 0
    BY DEF Least
  <2> QED
    BY <1>1, <2>1, <2>2, <2>3
<1>3. ASSUME NEW i \in 1 .. n, i - 1 \in S PROVE i \in S
  <2>1. /\ V(i) = v[i] + V(i - 1) /\ A(i) = a[i] + A(i - 1)
    <3>1. (\A j \in 1 .. n : v[j] \in Int) /\ (\A j \in 1 .. n : a[j] \in Int)
      BY <1>1
    <3> QED
      BY <3>1, SumLast
  <2>2. V(i - 1) \in Nat /\ A(i - 1) = Least(headroom, V(i - 1)) /\ rem[i - 1] = headroom - A(i - 1)
    BY <1>3
  <2>3. /\ v[i] \in Nat /\ a[i] \in Nat /\ rem[i] \in Nat /\ rem[i - 1] \in Nat
        /\ a[i] = Least(v[i], rem[i - 1]) /\ rem[i] = rem[i - 1] - a[i] /\ i \in 0 .. n
    BY <1>1
  <2> HIDE DEF V, A
  <2>4. V(i) \in Nat /\ A(i) = Least(headroom, V(i)) /\ rem[i] = headroom - A(i)
    BY <2>1, <2>2, <2>3 DEF Least
  <2> QED
    BY <2>3, <2>4
<1> HIDE DEF S
<1>4. 0 .. n \subseteq S
  BY <1>2, <1>3, StepByStep
<1>5. n \in S
  BY <1>4
<1> QED
  BY <1>5 DEF S

\* Whoever gets anything comes after others that got all.
LEMMA UsedUpInOrder ==
    ASSUME NEW n \in Nat, NEW headroom \in Nat, NEW rem, NEW v, NEW a,
           UsedUp(rem, v, a, n, headroom),
           NEW i \in 1 .. n, NEW j \in 1 .. n, i < j, a[j] > 0
    PROVE  a[i] = v[i]
<1> DEFINE S == {k \in 0 .. n : i <= k => rem[k] <= rem[i]}
<1>1. \A k \in 1 .. n : /\ v[k] \in Nat /\ a[k] \in Nat /\ rem[k] \in Nat /\ rem[k - 1] \in Nat
                        /\ a[k] = Least(v[k], rem[k - 1]) /\ rem[k] = rem[k - 1] - a[k]
  BY DEF UsedUp
<1>2. 0 \in S
  OBVIOUS
<1>3. ASSUME NEW k \in 1 .. n, k - 1 \in S PROVE k \in S
  <2>1. rem[k] \in Nat /\ rem[k - 1] \in Nat /\ a[k] \in Nat /\ rem[k] = rem[k - 1] - a[k]
    BY <1>1
  <2>2. rem[i] \in Nat
    BY <1>1
  <2>3. k = i \/ k < i \/ i <= k - 1
    OBVIOUS
  <2>4. i <= k => rem[k] <= rem[i]
    BY <1>3, <2>1, <2>2, <2>3
  <2> QED
    BY <2>4
<1> HIDE DEF S
<1>4. 0 .. n \subseteq S
  BY <1>2, <1>3, StepByStep
<1>5. rem[j - 1] <= rem[i]
  <2>1. j - 1 \in 0 .. n /\ i <= j - 1
    OBVIOUS
  <2> QED
    BY <1>4, <2>1 DEF S
<1>6. rem[j - 1] \in Nat /\ v[j] \in Nat /\ a[j] = Least(v[j], rem[j - 1])
  BY <1>1
<1>7. rem[j - 1] > 0
  BY <1>6 DEF Least
<1>8. /\ v[i] \in Nat /\ rem[i] \in Nat /\ rem[i - 1] \in Nat
      /\ a[i] = Least(v[i], rem[i - 1]) /\ rem[i] = rem[i - 1] - a[i]
  BY <1>1
<1> QED
  BY <1>5, <1>6, <1>7, <1>8 DEF Least

\* The values of the first n assets of a list, and what n entries allocate.
Values(v, s, n) == v = [i \in 1 .. n |-> s[i].usdValue]
Allocates(a, entries, n) == a = [i \in 1 .. n |-> entries[i].allocated]

\* The entries allocate the headroom down the list s, whose values are v.
AllocatedDown(entries, s, v, a, n, headroom) ==
    /\ entries \in Seq(Allotment) /\ Len(entries) = n
    /\ v \in [1 .. n -> Nat] /\ a \in [1 .. n -> Nat]
    /\ \A i \in 1 .. n : /\ entries[i].mint = s[i].mint
                         /\ entries[i].usdValue = s[i].usdValue
                         /\ entries[i].allocated = a[i]
                         /\ v[i] = s[i].usdValue
    /\ SumFunctionOnSet(a, 1 .. n) = Least(headroom, SumFunctionOnSet(v, 1 .. n))
    /\ \A i, j \in 1 .. n : i < j /\ a[j] > 0 => a[i] = v[i]

\* What allocate returns.
LEMMA AllocationGoesDown ==
    ASSUME NEW held, NEW s \in Seq(HeldAsset), s = rankAssets(held), NEW headroom \in Nat,
           NEW n, n = Len(s), NEW entries, entries = allocate(held, headroom),
           NEW v, Values(v, s, n), NEW a, Allocates(a, entries, n)
    PROVE  AllocatedDown(entries, s, v, a, n, headroom)
<1> DEFINE h == TakenTo(s, headroom)
           rem == [i \in 0 .. n |-> h[i].remaining]
<1>1. n \in Nat /\ \A i \in 1 .. n : s[i].mint \in Nat /\ s[i].usdValue \in Nat
  <2>1. n \in Nat /\ \A i \in 1 .. n : s[i] \in HeldAsset
    OBVIOUS
  <2> QED
    BY <2>1 DEF HeldAsset
<1>2. TakenAlong(h, s, headroom) /\ entries = h[n].results
  BY TakeSteps
<1>3. \A i \in 0 .. n : Allotted(h, s, i)
  BY <1>2, AllAllotted
<1> HIDE DEF h
<1>4. /\ \A i \in 0 .. n : h[i] \in Taken
      /\ entries \in Seq(Allotment) /\ Len(entries) = n
      /\ \A j \in 1 .. n :
           entries[j] = [mint |-> s[j].mint, usdValue |-> s[j].usdValue,
                         allocated |-> Least(s[j].usdValue, h[j - 1].remaining)]
  <2>1. \A i \in 0 .. n : h[i] \in Taken
    BY <1>3 DEF Allotted
  <2>2. n \in 0 .. n
    BY <1>1
  <2>3. Allotted(h, s, n)
    BY <1>3, <2>2
  <2>4. h[n].results \in Seq(Allotment)
    BY <2>1, <2>2 DEF Taken
  <2> QED
    BY <1>2, <2>1, <2>3, <2>4 DEF Allotted
<1>5. \A i \in 0 .. n : rem[i] = h[i].remaining /\ rem[i] \in Nat
  BY <1>4 DEF Taken
<1>6. \A i \in 1 .. n : v[i] = s[i].usdValue /\ v[i] \in Nat /\ a[i] = entries[i].allocated
  BY <1>1 DEF Values, Allocates
<1>7. \A i \in 1 .. n : a[i] = Least(v[i], rem[i - 1]) /\ a[i] \in Nat
  <2> TAKE i \in 1 .. n
  <2>1. i - 1 \in 0 .. n
    BY <1>1
  <2>2. a[i] = Least(v[i], rem[i - 1])
    <3>1. entries[i].allocated = Least(s[i].usdValue, h[i - 1].remaining)
      <4>1. entries[i] = [mint |-> s[i].mint, usdValue |-> s[i].usdValue,
                          allocated |-> Least(s[i].usdValue, h[i - 1].remaining)]
        BY <1>4
      <4> QED
        BY <4>1
    <3>2. rem[i - 1] = h[i - 1].remaining
      BY <1>5, <2>1
    <3> QED
      BY <1>6, <3>1, <3>2
  <2>3. Least(v[i], rem[i - 1]) \in Nat
    BY <1>5, <1>6, <2>1 DEF Least
  <2> QED
    BY <2>2, <2>3
<1>8. \A i \in 1 .. n : rem[i] = rem[i - 1] - a[i]
  <2> TAKE i \in 1 .. n
  <2>1. i - 1 \in 0 .. n /\ i \in 0 .. n
    BY <1>1
  <2>2. h[i] = Take(h[i - 1], s[i]) /\ h[i - 1] \in Taken
    BY <1>2, <1>4, <2>1 DEF TakenAlong
  <2>3. h[i].remaining = h[i - 1].remaining - Least(s[i].usdValue, h[i - 1].remaining)
    <3>1. PICK b : b = Least(s[i].usdValue, h[i - 1].remaining)
      OBVIOUS
    <3>2. s[i].mint \in Nat /\ s[i].usdValue \in Nat
      BY <1>1
    <3>3. Take(h[i - 1], s[i]).remaining = h[i - 1].remaining - b
      BY <2>2, <3>1, <3>2, TakeType
    <3> QED
      BY <2>2, <3>1, <3>3
  <2> QED
    BY <1>5, <1>6, <1>7, <2>1, <2>3
<1>9. rem[0] = headroom
  <2>1. 0 \in 0 .. n /\ h[0] = Untouched(headroom)
    BY <1>1, <1>2 DEF TakenAlong
  <2> QED
    BY <1>5, <2>1 DEF Untouched
<1>10. rem \in [0 .. n -> Nat] /\ v \in [1 .. n -> Nat] /\ a \in [1 .. n -> Nat]
  <2>1. rem \in [0 .. n -> Nat]
    <3>1. rem = [i \in 0 .. n |-> rem[i]]
      OBVIOUS
    <3> QED
      BY <1>5, <3>1
  <2>2. v \in [1 .. n -> Nat]
    BY <1>1 DEF Values
  <2>3. a = [i \in 1 .. n |-> a[i]]
    BY DEF Allocates
  <2> QED
    BY <1>7, <2>1, <2>2, <2>3
<1> HIDE DEF rem
<1>11. UsedUp(rem, v, a, n, headroom)
  BY <1>7, <1>8, <1>9, <1>10 DEF UsedUp
<1>12. SumFunctionOnSet(a, 1 .. n) = Least(headroom, SumFunctionOnSet(v, 1 .. n))
  BY <1>1, <1>11, UsedUpSum
<1>13. \A i, j \in 1 .. n : i < j /\ a[j] > 0 => a[i] = v[i]
  <2> SUFFICES ASSUME NEW i \in 1 .. n, NEW j \in 1 .. n, i < j, a[j] > 0
               PROVE  a[i] = v[i]
    OBVIOUS
  <2> QED
    BY <1>1, <1>11, UsedUpInOrder
<1>14. \A i \in 1 .. n : /\ entries[i].mint = s[i].mint
                         /\ entries[i].usdValue = s[i].usdValue
                         /\ entries[i].allocated = a[i]
  <2> TAKE i \in 1 .. n
  <2>1. entries[i] = [mint |-> s[i].mint, usdValue |-> s[i].usdValue,
                      allocated |-> Least(s[i].usdValue, h[i - 1].remaining)]
    BY <1>4
  <2>2. entries[i].mint = s[i].mint /\ entries[i].usdValue = s[i].usdValue
    BY <2>1
  <2>3. entries[i].allocated = a[i]
    BY <1>6
  <2> QED
    BY <2>2, <2>3
<1> QED
  BY <1>4, <1>6, <1>10, <1>12, <1>13, <1>14 DEF AllocatedDown

\* A ranking has the entries of the list, with their values, in another order.
Reordered(s, held, n, at) ==
    /\ n \in Nat /\ DOMAIN held = 1 .. n
    /\ s \in Seq(HeldAsset) /\ Len(s) = n
    /\ at \in [1 .. n -> 1 .. n]
    /\ \A k, l \in 1 .. n : k # l => at[k] # at[l]
    /\ \A i \in 1 .. n : \E k \in 1 .. n : at[k] = i
    /\ \A k \in 1 .. n : s[k] = held[at[k]]

\* The ranking of what can be compared is strict.
LEMMA RankedStrictly ==
    ASSUME NEW held \in Seq(HeldAsset), Valued(held), NEW s, s = rankAssets(held),
           NEW n, n = Len(held), NEW at, at = RankedFrom(held)
    PROVE  /\ Reordered(s, held, n, at)
           /\ Comparable(held) =>
                \A k, l \in 1 .. n : k < l => Precedes(s[k], s[l])
<1>1. /\ n \in Nat /\ s \in Seq(HeldAsset) /\ Len(s) = n
      /\ at \in [1 .. n -> 1 .. n]
      /\ \A k \in 1 .. n : s[k] = held[at[k]]
      /\ \A k, l \in 1 .. n : k # l => at[k] # at[l]
      /\ \A i \in 1 .. n : \E k \in 1 .. n : at[k] = i
      /\ \A k, l \in 1 .. n : k < l => ~ Precedes(s[l], s[k])
  <2>1. /\ Len(held) \in Nat /\ rankAssets(held) \in Seq(HeldAsset)
        /\ Len(rankAssets(held)) = Len(held)
        /\ at \in [1 .. Len(held) -> 1 .. Len(held)]
        /\ \A k \in 1 .. Len(held) : rankAssets(held)[k] = held[at[k]]
        /\ \A k, l \in 1 .. Len(held) : k # l => at[k] # at[l]
        /\ \A i \in 1 .. Len(held) : \E k \in 1 .. Len(held) : at[k] = i
        /\ \A k, l \in 1 .. Len(held) : k < l =>
             ~ Precedes(rankAssets(held)[l], rankAssets(held)[k])
    BY RankProperties
  <2> QED
    BY <2>1, Zenon
<1>2. DOMAIN held = 1 .. n
  OBVIOUS
<1>3. ASSUME Comparable(held), NEW k \in 1 .. n, NEW l \in 1 .. n, k < l
      PROVE  Precedes(s[k], s[l])
  <2>1. at[k] \in DOMAIN held /\ at[l] \in DOMAIN held /\ at[k] # at[l]
    <3>1. at \in [1 .. n -> 1 .. n] /\ \A x, y \in 1 .. n : x # y => at[x] # at[y]
      BY <1>1
    <3>2. n \in Nat /\ k # l
      BY <1>1, <1>3
    <3> QED
      BY <1>2, <3>1, <3>2
  <2>2. Precedes(held[at[k]], held[at[l]]) \/ Precedes(held[at[l]], held[at[k]])
    BY <1>3, <2>1 DEF Comparable
  <2> QED
    BY <1>1, <1>3, <2>2
<1> QED
  <2>1. Reordered(s, held, n, at)
    BY <1>1, <1>2 DEF Reordered
  <2>2. Comparable(held) => \A k, l \in 1 .. n : k < l => Precedes(s[k], s[l])
    BY <1>3
  <2> QED
    BY <2>1, <2>2

\* Its values add up to the same.
LEMMA ReorderedTotal ==
    ASSUME NEW held \in Seq(HeldAsset), NEW s, NEW n, NEW at, Reordered(s, held, n, at),
           NEW v, Values(v, s, n), NEW w, Values(w, held, n)
    PROVE  /\ SumFunctionOnSet(v, 1 .. n) = SumFunction(w)
           /\ SumFunction(w) \in Nat
<1>1. /\ n \in Nat /\ DOMAIN held = 1 .. n
      /\ at \in [1 .. n -> 1 .. n]
      /\ \A k, l \in 1 .. n : k # l => at[k] # at[l]
      /\ \A i \in 1 .. n : \E k \in 1 .. n : at[k] = i
      /\ \A k \in 1 .. n : s[k] = held[at[k]]
  BY DEF Reordered
<1>2. IsFiniteSet(1 .. n)
  BY <1>1, FS_Interval
<1>3. \A i \in 1 .. n : w[i] = held[i].usdValue /\ w[i] \in Nat
  <2>1. \A i \in 1 .. n : held[i] \in HeldAsset
    BY <1>1
  <2> QED
    BY <1>1, <2>1 DEF HeldAsset, Values
<1>4. \A k \in 1 .. n : v[k] = w[at[k]]
  <2>1. \A k \in 1 .. n : v[k] = s[k].usdValue /\ at[k] \in 1 .. n
    <3>1. at \in [1 .. n -> 1 .. n]
      BY <1>1
    <3> QED
      BY <3>1 DEF Values
  <2>2. \A k \in 1 .. n : s[k] = held[at[k]]
    BY <1>1
  <2> QED
    BY <1>3, <2>1, <2>2
<1>5. 1 .. n = {at[k] : k \in 1 .. n}
  BY <1>1
<1>6. SumFunctionOnSet(v, 1 .. n) = SumFunctionOnSet(w, 1 .. n)
  <2>1. \A i \in 1 .. n : w[i] \in Int
    BY <1>3
  <2> QED
    <3>1. at \in [1 .. n -> 1 .. n] /\ \A x, y \in 1 .. n : x # y => at[x] # at[y]
      BY <1>1
    <3>2. Moves(at, v, w, 1 .. n, 1 .. n)
      BY <1>4, <1>5, <2>1, <3>1 DEF Moves
    <3> QED
      BY <1>2, <3>2, SumRearranged
<1>7. SumFunction(w) = SumFunctionOnSet(w, 1 .. n)
  <2>1. DOMAIN w = 1 .. n
    BY DEF Values
  <2> QED
    BY <2>1 DEF SumFunction
<1>8. SumFunctionOnSet(w, 1 .. n) \in Nat
  BY <1>2, <1>3, SumNat
<1> QED
  BY <1>5, <1>6, <1>7, <1>8

\* The conclusion of AllocationIsPrefix for one headroom.
Prefix(held, entries, allocated, headroom, total) ==
    /\ {<<e.mint, e.usdValue>> : e \in Range(entries)}
         = {<<a.mint, a.usdValue>> : a \in Range(held)}
    /\ SumFunction(allocated) = Least(headroom, total)
    /\ \A i, j \in DOMAIN entries : i < j =>
         /\ Precedes(entries[i], entries[j])
         /\ allocated[j] > 0 => allocated[i] = entries[i].usdValue

\* Whatever is held, and whatever the headroom.
LEMMA AllocatedPrefix ==
    ASSUME NEW held \in Seq(HeldAsset), Valued(held), Comparable(held),
           NEW headroom \in Nat,
           NEW entries, entries = allocate(held, headroom),
           NEW allocated, Allocates(allocated, entries, Len(entries)),
           NEW w, Values(w, held, Len(held))
    PROVE  Prefix(held, entries, allocated, headroom, SumFunction(w))
<1>1. PICK s : s = rankAssets(held)
  OBVIOUS
<1>2. PICK n : n = Len(held)
  OBVIOUS
<1>3. PICK at : at = RankedFrom(held)
  OBVIOUS
<1>4. Reordered(s, held, n, at) /\ \A k, l \in 1 .. n : k < l => Precedes(s[k], s[l])
  BY <1>1, <1>2, <1>3, RankedStrictly
<1>5. /\ n \in Nat /\ DOMAIN held = 1 .. n
      /\ s \in Seq(HeldAsset) /\ Len(s) = n
      /\ at \in [1 .. n -> 1 .. n]
      /\ \A i \in 1 .. n : \E k \in 1 .. n : at[k] = i
      /\ \A k \in 1 .. n : s[k] = held[at[k]]
  BY <1>4 DEF Reordered
<1>6. PICK v : Values(v, s, n)
  BY DEF Values
<1>7. PICK a : Allocates(a, entries, n)
  BY DEF Allocates
<1>8. AllocatedDown(entries, s, v, a, n, headroom)
  BY <1>1, <1>5, <1>6, <1>7, AllocationGoesDown
<1>9. /\ DOMAIN entries = 1 .. n
      /\ v \in [1 .. n -> Nat] /\ a \in [1 .. n -> Nat]
      /\ \A i \in 1 .. n : /\ entries[i].mint = s[i].mint
                           /\ entries[i].usdValue = s[i].usdValue
                           /\ entries[i].allocated = a[i]
                           /\ v[i] = s[i].usdValue
      /\ SumFunctionOnSet(a, 1 .. n) = Least(headroom, SumFunctionOnSet(v, 1 .. n))
      /\ \A i, j \in 1 .. n : i < j /\ a[j] > 0 => a[i] = v[i]
  BY <1>8 DEF AllocatedDown
<1>10. allocated = a
  <2>1. Len(entries) = n
    BY <1>8 DEF AllocatedDown
  <2> QED
    BY <1>7, <2>1 DEF Allocates
<1>11. SumFunction(allocated) = Least(headroom, SumFunction(w))
  <2>1. SumFunctionOnSet(v, 1 .. n) = SumFunction(w)
    BY <1>2, <1>4, <1>6, ReorderedTotal
  <2>2. DOMAIN a = 1 .. n
    BY <1>9
  <2> QED
    BY <1>9, <1>10, <2>1, <2>2 DEF SumFunction
<1>12. ASSUME NEW i \in 1 .. n, NEW j \in 1 .. n, i < j
       PROVE  /\ Precedes(entries[i], entries[j])
              /\ allocated[j] > 0 => allocated[i] = entries[i].usdValue
  <2>1. Precedes(s[i], s[j])
    BY <1>4, <1>12
  <2> QED
    BY <1>9, <1>10, <1>12, <2>1 DEF Precedes
<1>13. {<<e.mint, e.usdValue>> : e \in Range(entries)}
         = {<<b.mint, b.usdValue>> : b \in Range(held)}
  <2>1. ASSUME NEW k \in 1 .. n
        PROVE  <<entries[k].mint, entries[k].usdValue>> = <<held[at[k]].mint, held[at[k]].usdValue>>
    BY <1>5, <1>9
  <2>2. Range(entries) = {entries[k] : k \in 1 .. n} /\ Range(held) = {held[k] : k \in 1 .. n}
    BY <1>5, <1>9 DEF Range
  <2>3. ASSUME NEW e \in Range(entries)
        PROVE  \E b \in Range(held) : <<e.mint, e.usdValue>> = <<b.mint, b.usdValue>>
    <3>1. PICK k \in 1 .. n : e = entries[k]
      BY <2>2
    <3>2. at[k] \in 1 .. n
      BY <1>5
    <3> QED
      BY <2>1, <2>2, <3>1, <3>2
  <2>4. ASSUME NEW b \in Range(held)
        PROVE  \E e \in Range(entries) : <<e.mint, e.usdValue>> = <<b.mint, b.usdValue>>
    <3>1. PICK i \in 1 .. n : b = held[i]
      BY <2>2
    <3>2. PICK k \in 1 .. n : at[k] = i
      BY <1>5
    <3> QED
      BY <2>1, <2>2, <3>1, <3>2
  <2> QED
    BY <2>3, <2>4
<1> QED
  BY <1>9, <1>11, <1>12, <1>13 DEF Prefix

\* A prefix in every state of the invariant.
LEMMA PrefixKept == PriceInv => AllocationIsPrefix
<1> SUFFICES ASSUME PriceInv, Comparable(Held(scan)) PROVE AllocationIsPrefix
  BY DEF AllocationIsPrefix
<1>1. PICK held : held = Held(scan)
  OBVIOUS
<1>2. held \in Seq(HeldAsset) /\ Valued(held) /\ Comparable(held)
  BY <1>1, HeldProperties
<1>3. PICK w : w = [i \in DOMAIN held |-> held[i].usdValue]
  OBVIOUS
<1>4. Values(w, held, Len(held))
  <2>1. DOMAIN held = 1 .. Len(held)
    BY <1>2
  <2> QED
    BY <1>3, <2>1 DEF Values
<1>5. SumFunction(w) \in Nat
  <2>1. PICK s : s = rankAssets(held)
    OBVIOUS
  <2>2. PICK v : Values(v, s, Len(held))
    BY DEF Values
  <2>3. Reordered(s, held, Len(held), RankedFrom(held))
    BY <1>2, <2>1, RankedStrictly
  <2> QED
    BY <1>2, <1>4, <2>2, <2>3, ReorderedTotal
<1> DEFINE Allocated(entries) == [i \in DOMAIN entries |-> entries[i].allocated]
<1>6. ASSUME NEW headroom \in 0 .. SumFunction(w) + 1
      PROVE  Prefix(held, allocate(held, headroom), Allocated(allocate(held, headroom)),
                    headroom, SumFunction(w))
  <2>1. headroom \in Nat
    BY <1>5
  <2>2. PICK entries : entries = allocate(held, headroom)
    OBVIOUS
  <2>3. PICK s : s = rankAssets(held)
    OBVIOUS
  <2>4. DOMAIN entries = 1 .. Len(entries)
    <3>1. s \in Seq(HeldAsset)
      BY <1>2, <2>3, RankProperties
    <3>2. PICK v : Values(v, s, Len(s))
      BY DEF Values
    <3>3. PICK a : Allocates(a, entries, Len(s))
      BY DEF Allocates
    <3>4. entries \in Seq(Allotment)
      BY <2>1, <2>2, <2>3, <3>1, <3>2, <3>3, AllocationGoesDown DEF AllocatedDown
    <3> QED
      BY <3>4
  <2>5. Allocates(Allocated(entries), entries, Len(entries))
    BY <2>4 DEF Allocates
  <2> HIDE DEF Allocated
  <2>6. Prefix(held, entries, Allocated(entries), headroom, SumFunction(w))
    BY <1>2, <1>4, <2>1, <2>2, <2>5, AllocatedPrefix
  <2> QED
    BY <2>2, <2>6
<1> QED
  BY <1>1, <1>3, <1>6, Zenon DEF AllocationIsPrefix, Prefix

\* Whatever is priced, for every headroom, a quote allocates all that fits,
\* down the ranking, and nothing after the first asset that is cut
\* (allocate.ts, comparator.ts).
THEOREM QuotesArePrefixes == Spec => []AllocationIsPrefix
BY PriceInvariant, PrefixKept, PTL

-----------------------------------------------------------------------------
(***************************************************************************)
(* What a client signs.  Executed folds the instructions from the left     *)
(* over the client's accounts.                                             *)
(***************************************************************************)
Instructions == [type : {"wrap", "approve"}, asset : Assets, amount : Nat]
Ledgers == [Assets -> [delegated : Nat, balance : Nat]]

\* One instruction, as in Executed.
Carried(acc, ix) ==
    IF ix.type = "wrap"
    THEN [acc EXCEPT ![ix.asset].balance = @ + ix.amount]
    ELSE [acc EXCEPT ![ix.asset].delegated = ix.amount]

\* g is the ledger after the instructions at the places S of s, for every S.
Carries(g, s, ledger, D) ==
    g = [S \in SUBSET D |-> IF S = {} THEN ledger
                            ELSE Carried(g[S \ {Max(S)}], s[Max(S)])]

\* Executed chooses such a function.
LEMMA CarriesChosen ==
    ASSUME NEW s, NEW ledger
    PROVE  Executed(s, ledger)
             = (CHOOSE g : Carries(g, s, ledger, DOMAIN s))[DOMAIN s]
BY Zenon DEF Executed, FoldLeft, MapThenFoldSet, Carries, Carried

\* An instruction changes the account it names and keeps the types.
LEMMA CarriedType ==
    ASSUME NEW acc \in Ledgers, NEW ix \in Instructions
    PROVE  /\ Carried(acc, ix) \in Ledgers
           /\ \A a \in Assets : a # ix.asset => Carried(acc, ix)[a] = acc[a]
           /\ ix.type = "wrap" =>
                /\ Carried(acc, ix)[ix.asset].balance = acc[ix.asset].balance + ix.amount
                /\ Carried(acc, ix)[ix.asset].delegated = acc[ix.asset].delegated
           /\ ix.type = "approve" =>
                /\ Carried(acc, ix)[ix.asset].balance = acc[ix.asset].balance
                /\ Carried(acc, ix)[ix.asset].delegated = ix.amount
<1>1. ix.type \in {"wrap", "approve"} /\ ix.asset \in Assets /\ ix.amount \in Nat
  BY DEF Instructions
<1>2. acc[ix.asset] \in [delegated : Nat, balance : Nat]
  BY <1>1 DEF Ledgers
<1>3. CASE ix.type = "wrap"
  <2> DEFINE new == [acc[ix.asset] EXCEPT !.balance = @ + ix.amount]
  <2>1. /\ new \in [delegated : Nat, balance : Nat]
        /\ new.balance = acc[ix.asset].balance + ix.amount
        /\ new.delegated = acc[ix.asset].delegated
    BY <1>1, <1>2
  <2>2. Carried(acc, ix) = [acc EXCEPT ![ix.asset] = new]
    BY <1>3 DEF Carried
  <2> HIDE DEF new
  <2> QED
    BY <1>1, <1>3, <2>1, <2>2 DEF Ledgers
<1>4. CASE ix.type = "approve"
  <2> DEFINE new == [acc[ix.asset] EXCEPT !.delegated = ix.amount]
  <2>1. /\ new \in [delegated : Nat, balance : Nat]
        /\ new.balance = acc[ix.asset].balance
        /\ new.delegated = ix.amount
    BY <1>1, <1>2
  <2>2. Carried(acc, ix) = [acc EXCEPT ![ix.asset] = new]
    BY <1>4 DEF Carried
  <2> HIDE DEF new
  <2> QED
    BY <1>1, <1>4, <2>1, <2>2 DEF Ledgers
<1> QED
  BY <1>1, <1>3, <1>4

\* The ledger after the first i of the instructions, for every i.
CarriedTo(s, ledger) ==
    [i \in 0 .. Len(s) |-> (CHOOSE g : Carries(g, s, ledger, DOMAIN s))[1 .. i]]

\* h is the ledger after each of the instructions.
CarriedAlong(h, s, ledger) ==
    /\ h[0] = ledger
    /\ \A i \in 1 .. Len(s) : h[i] = Carried(h[i - 1], s[i])

\* The fold goes from instruction to instruction.
LEMMA CarriedSteps ==
    ASSUME NEW s \in Seq(Instructions), NEW ledger \in Ledgers
    PROVE  /\ CarriedAlong(CarriedTo(s, ledger), s, ledger)
           /\ Executed(s, ledger) = CarriedTo(s, ledger)[Len(s)]
<1> DEFINE n == Len(s)
           g == CHOOSE g : Carries(g, s, ledger, DOMAIN s)
           h == CarriedTo(s, ledger)
           step == [i \in 1 .. n |-> [t \in Ledgers |-> Carried(t, s[i])]]
<1>1. DOMAIN s = 1 .. n /\ n \in Nat /\ \A i \in 1 .. n : s[i] \in Instructions
  OBVIOUS
<1>2. 1 .. n \in SUBSET Int /\ IsFiniteSet(1 .. n)
  BY <1>1, FS_Interval
<1> HIDE DEF n
<1>3. step \in [1 .. n -> [Ledgers -> Ledgers]]
  <2>1. \A i \in 1 .. n : \A t \in Ledgers : Carried(t, s[i]) \in Ledgers
    BY <1>1, CarriedType
  <2> QED
    BY <2>1
<1>4. Carries(g, s, ledger, DOMAIN s)
  <2>1. PICK f \in [SUBSET (1 .. n) -> Ledgers] : FoldsUp(f, step, ledger, 1 .. n)
    BY <1>2, <1>3, FoldExists
  <2>2. ASSUME NEW S \in SUBSET (1 .. n), S # {}
        PROVE  step[Max(S)][f[S \ {Max(S)}]] = Carried(f[S \ {Max(S)}], s[Max(S)])
    <3>1. Max(S) \in S
      <4>1. S \in SUBSET Int /\ IsFiniteSet(S)
        BY <1>2, FS_Subset
      <4> QED
        BY <2>2, <4>1, LastMember
    <3>2. Max(S) \in 1 .. n /\ f[S \ {Max(S)}] \in Ledgers
      BY <2>1, <3>1
    <3> QED
      BY <3>2
  <2> HIDE DEF step
  <2>3. Carries(f, s, ledger, DOMAIN s)
    <3>1. f = [S \in SUBSET (1 .. n) |-> IF S = {} THEN ledger
                                         ELSE step[Max(S)][f[S \ {Max(S)}]]]
      BY <2>1 DEF FoldsUp
    <3>2. f = [S \in SUBSET (1 .. n) |-> IF S = {} THEN ledger
                                         ELSE Carried(f[S \ {Max(S)}], s[Max(S)])]
      BY <2>2, <3>1
    <3> QED
      BY <1>1, <3>2 DEF Carries
  <2> QED
    BY <2>3
<1>5. Executed(s, ledger) = g[1 .. n]
  <2>1. Executed(s, ledger) = g[DOMAIN s]
    BY CarriesChosen
  <2> QED
    BY <1>1, <2>1
<1>6. h = [i \in 0 .. n |-> g[1 .. i]]
  BY DEF CarriedTo, n
<1> HIDE DEF g, h
<1>7. h[0] = ledger
  <2>1. g[{}] = ledger
    BY <1>4 DEF Carries
  <2>2. 1 .. 0 = {} /\ 0 \in 0 .. n
    BY <1>1
  <2> QED
    BY <1>6, <2>1, <2>2
<1>8. ASSUME NEW i \in 1 .. n PROVE h[i] = Carried(h[i - 1], s[i])
  <2>1. i \in Nat \ {0} /\ i \in 0 .. n /\ i - 1 \in 0 .. n /\ 1 .. i \in SUBSET (1 .. n)
    BY <1>1
  <2>2. Max(1 .. i) = i /\ (1 .. i) \ {i} = 1 .. i - 1 /\ 1 .. i # {}
    BY <2>1, FirstPlaces
  <2>3. g[1 .. i] = Carried(g[(1 .. i) \ {Max(1 .. i)}], s[Max(1 .. i)])
    BY <1>1, <1>4, <2>1, <2>2 DEF Carries
  <2> QED
    BY <1>6, <2>1, <2>2, <2>3
<1>9. h[n] = g[1 .. n]
  BY <1>1, <1>6
<1> QED
  BY <1>5, <1>7, <1>8, <1>9 DEF CarriedAlong, n, h

\* Every ledger on the way has the type.
LEMMA CarriedTypes ==
    ASSUME NEW s \in Seq(Instructions), NEW ledger \in Ledgers,
           NEW h, CarriedAlong(h, s, ledger)
    PROVE  \A i \in 0 .. Len(s) : h[i] \in Ledgers
<1> DEFINE n == Len(s)
           S == {i \in 0 .. n : h[i] \in Ledgers}
<1>1. n \in Nat /\ \A i \in 1 .. n : s[i] \in Instructions
  OBVIOUS
<1>2. 0 \in S
  BY <1>1 DEF CarriedAlong
<1>3. ASSUME NEW i \in 1 .. n, i - 1 \in S PROVE i \in S
  <2>1. h[i] = Carried(h[i - 1], s[i]) /\ i \in 0 .. n
    BY <1>1 DEF CarriedAlong
  <2> QED
    BY <1>1, <1>3, <2>1, CarriedType
<1> HIDE DEF S
<1>4. 0 .. n \subseteq S
  BY <1>1, <1>2, <1>3, StepByStep
<1> QED
  BY <1>4 DEF S

\* What no later instruction names stays as it was.
LEMMA NoLongerNamed ==
    ASSUME NEW s \in Seq(Instructions), NEW ledger \in Ledgers,
           NEW h, CarriedAlong(h, s, ledger), NEW a \in Assets,
           NEW m \in 0 .. Len(s), \A j \in 1 .. Len(s) : j > m => s[j].asset # a
    PROVE  h[Len(s)][a] = h[m][a]
<1> DEFINE n == Len(s)
           S == {i \in 0 .. n : i >= m => h[i][a] = h[m][a]}
<1>1. n \in Nat /\ \A i \in 1 .. n : s[i] \in Instructions
  OBVIOUS
<1>2. 0 \in S
  BY <1>1
<1>3. ASSUME NEW i \in 1 .. n, i - 1 \in S PROVE i \in S
  <2>1. h[i] = Carried(h[i - 1], s[i]) /\ i \in 0 .. n /\ i - 1 \in 0 .. n
    BY <1>1 DEF CarriedAlong
  <2>2. CASE i > m
    <3>1. h[i - 1][a] = h[m][a]
      BY <1>1, <1>3, <2>2
    <3>2. s[i].asset # a /\ h[i - 1] \in Ledgers /\ s[i] \in Instructions
      BY <1>1, <2>1, <2>2, CarriedTypes
    <3>3. Carried(h[i - 1], s[i])[a] = h[i - 1][a]
      BY <3>2, CarriedType
    <3> QED
      BY <2>1, <3>1, <3>3
  <2>3. CASE i = m
    BY <2>1, <2>3
  <2>4. CASE i < m
    BY <1>1, <2>1, <2>4
  <2> QED
    BY <1>1, <2>2, <2>3, <2>4
<1> HIDE DEF S
<1>4. 0 .. n \subseteq S
  BY <1>1, <1>2, <1>3, StepByStep
<1>5. n \in S
  BY <1>1, <1>4
<1> QED
  BY <1>1, <1>5 DEF S

\* What no instruction names stays as it was.
LEMMA NotNamed ==
    ASSUME NEW s \in Seq(Instructions), NEW ledger \in Ledgers, NEW a \in Assets,
           \A j \in 1 .. Len(s) : s[j].asset # a
    PROVE  Executed(s, ledger)[a] = ledger[a]
<1>1. PICK h : h = CarriedTo(s, ledger)
  OBVIOUS
<1>2. CarriedAlong(h, s, ledger) /\ Executed(s, ledger) = h[Len(s)]
  BY <1>1, CarriedSteps
<1>3. 0 \in 0 .. Len(s) /\ h[0] = ledger
  BY <1>2 DEF CarriedAlong
<1>4. h[Len(s)][a] = h[0][a]
  BY <1>2, <1>3, NoLongerNamed
<1> QED
  BY <1>2, <1>3, <1>4

\* The last approval of an asset holds.
LEMMA LastApproval ==
    ASSUME NEW s \in Seq(Instructions), NEW ledger \in Ledgers, NEW a \in Assets,
           NEW k \in 1 .. Len(s), s[k].asset = a, s[k].type = "approve",
           \A j \in 1 .. Len(s) : j > k => s[j].asset # a
    PROVE  Executed(s, ledger)[a].delegated = s[k].amount
<1>1. PICK h : h = CarriedTo(s, ledger)
  OBVIOUS
<1>2. CarriedAlong(h, s, ledger) /\ Executed(s, ledger) = h[Len(s)]
  BY <1>1, CarriedSteps
<1>3. Len(s) \in Nat /\ k \in 0 .. Len(s) /\ k - 1 \in 0 .. Len(s) /\ s[k] \in Instructions
  OBVIOUS
<1>4. h[Len(s)][a] = h[k][a]
  BY <1>2, <1>3, NoLongerNamed
<1>5. h[k] = Carried(h[k - 1], s[k]) /\ h[k - 1] \in Ledgers
  BY <1>2, <1>3, CarriedTypes DEF CarriedAlong
<1>6. Carried(h[k - 1], s[k])[a].delegated = s[k].amount
  BY <1>3, <1>5, CarriedType
<1> QED
  BY <1>2, <1>4, <1>5, <1>6

\* The approvals of the SPL assets, one for each in its order.
SplApprovals(splAssets, cap) == [i \in DOMAIN splAssets |-> SplInstruction(splAssets[i], cap)]

\* The assets of a list with a mint on the allowlist and a value.
Approvable == [mint : Allowlist, amount : Nat, usdValue : Nat \ {0}]

\* A ceiling is an amount.
LEMMA CeilingType ==
    ASSUME NEW cap \in Nat, NEW held \in Nat, NEW usd \in Nat \ {0}
    PROVE  /\ computeApprovalCeiling(cap, held, usd) \in Nat
           /\ usd <= cap => held <= computeApprovalCeiling(cap, held, usd)
<1> DEFINE c == (cap * held) \div usd
<1>1. cap * held \in Nat
  BY SMT
<1>2. c \in Nat /\ c * usd <= cap * held /\ cap * held < c * usd + usd
  BY <1>1, DivNat
<1> HIDE DEF c
<1>3. ASSUME usd <= cap PROVE held <= c
  <2>1. usd * held <= cap * held
    BY <1>3, ProductMonotone
  <2>2. held * usd < (c + 1) * usd
    <3>1. held * usd = usd * held /\ (c + 1) * usd = c * usd + usd
      BY <1>2, SMT
    <3>2. held * usd \in Nat /\ usd * held \in Nat /\ c * usd \in Nat
      BY <1>2, SMT
    <3> QED
      BY <1>1, <1>2, <2>1, <3>1, <3>2
  <2>3. ~ (c + 1 <= held)
    <3>1. ASSUME c + 1 <= held PROVE (c + 1) * usd <= held * usd
      BY <1>2, <3>1, ProductMonotone
    <3>2. held * usd \in Nat /\ (c + 1) * usd \in Nat
      BY <1>2, SMT
    <3> QED
      BY <2>2, <3>1, <3>2
  <2> QED
    BY <1>2, <2>3
<1> QED
  BY <1>2, <1>3 DEF c, computeApprovalCeiling

\* The SPL part of the transaction.
LEMMA SplApprovalsType ==
    ASSUME NEW assets \in Seq(Approvable), NEW cap \in Nat
    PROVE  /\ SplApprovals(assets, cap) \in Seq(Instructions)
           /\ Len(SplApprovals(assets, cap)) = Len(assets)
           /\ \A i \in 1 .. Len(assets) :
                /\ SplApprovals(assets, cap)[i].type = "approve"
                /\ SplApprovals(assets, cap)[i].asset = assets[i].mint
                /\ SplApprovals(assets, cap)[i].amount
                     = computeApprovalCeiling(cap, assets[i].amount, assets[i].usdValue)
<1>1. Len(assets) \in Nat /\ DOMAIN assets = 1 .. Len(assets)
      /\ \A i \in 1 .. Len(assets) : assets[i] \in Approvable
  OBVIOUS
<1>2. ASSUME NEW i \in 1 .. Len(assets)
      PROVE  /\ SplInstruction(assets[i], cap) \in Instructions
             /\ SplInstruction(assets[i], cap).type = "approve"
             /\ SplInstruction(assets[i], cap).asset = assets[i].mint
             /\ SplInstruction(assets[i], cap).amount
                  = computeApprovalCeiling(cap, assets[i].amount, assets[i].usdValue)
  <2>1. /\ assets[i].mint \in Assets /\ assets[i].amount \in Nat
        /\ assets[i].usdValue \in Nat \ {0}
    BY <1>1 DEF Approvable, Assets
  <2>2. computeApprovalCeiling(cap, assets[i].amount, assets[i].usdValue) \in Nat
    BY <2>1, CeilingType
  <2> QED
    BY <2>1, <2>2 DEF SplInstruction, Instruction, Instructions
<1>3. /\ SplApprovals(assets, cap) \in Seq(Instructions)
      /\ Len(SplApprovals(assets, cap)) = Len(assets)
      /\ \A i \in 1 .. Len(assets) : SplApprovals(assets, cap)[i] = SplInstruction(assets[i], cap)
  BY <1>1, <1>2 DEF SplApprovals
<1> QED
  BY <1>2, <1>3

\* One after the other.
LEMMA TwoInARow ==
    ASSUME NEW X, NEW w \in X, NEW p \in X
    PROVE  <<w>> \o <<p>> = <<w, p>>
<1>1. <<w>> \in Seq(X) /\ <<p>> \in Seq(X) /\ Len(<<w>>) = 1 /\ Len(<<p>>) = 1
  OBVIOUS
<1>2. <<w>> \o <<p>> \in Seq(X) /\ <<w, p>> \in Seq(X)
  OBVIOUS
<1>3. Len(<<w>> \o <<p>>) = 2 /\ \A i \in 1 .. 2 : (<<w>> \o <<p>>)[i] = <<w, p>>[i]
  BY <1>1, ConcatProperties
<1> QED
  BY <1>2, <1>3, SeqEqual

\* The SOL part: nothing, or an approval after what is wrapped.
SolPart(first, chosen, wrap, amount) ==
    /\ first \in Seq(Instructions)
    /\ \A i \in 1 .. Len(first) : first[i].asset = SOL
    /\ chosen =>
         /\ Len(first) \in {1, 2}
         /\ first[Len(first)] = Instruction("approve", SOL, amount)
         /\ Len(first) = 1 => wrap = 0
         /\ Len(first) = 2 => first[1] = Instruction("wrap", SOL, wrap)

\* What SolInstructions makes.
LEMMA SolPartType ==
    ASSUME NEW wrap \in Nat, NEW amount, NEW chosen \in BOOLEAN, chosen => amount \in Nat
    PROVE  SolPart(IF chosen THEN SolInstructions(wrap, amount) ELSE <<>>, chosen, wrap, amount)
<1> DEFINE w == Instruction("wrap", SOL, wrap)
           p == Instruction("approve", SOL, amount)
<1>1. CASE ~ chosen
  <2>1. <<>> \in Seq(Instructions) /\ Len(<<>>) = 0
    BY EmptySeq
  <2> QED
    BY <1>1, <2>1 DEF SolPart
<1>2. CASE chosen
  <2>1. SOL \in Assets /\ w \in Instructions /\ p \in Instructions /\ w.asset = SOL /\ p.asset = SOL
    BY <1>2 DEF Instruction, Instructions, Assets
  <2> HIDE DEF w, p
  <2>2. CASE wrap > 0
    <3>1. SolInstructions(wrap, amount) = <<w, p>>
      <4>1. SolInstructions(wrap, amount) = <<w>> \o <<p>>
        BY <2>2 DEF SolInstructions, w, p
      <4>2. <<w>> \o <<p>> = <<w, p>>
        BY <2>1, TwoInARow
      <4> QED
        BY <4>1, <4>2
    <3>2. <<w, p>> \in Seq(Instructions) /\ Len(<<w, p>>) = 2 /\ <<w, p>>[1] = w /\ <<w, p>>[2] = p
      BY <2>1
    <3>3. \A i \in 1 .. 2 : <<w, p>>[i].asset = SOL
      BY <2>1, <3>2
    <3> QED
      BY <1>2, <3>1, <3>2, <3>3 DEF SolPart, w, p
  <2>3. CASE wrap = 0
    <3>1. SolInstructions(wrap, amount) = <<p>>
      BY <2>3 DEF SolInstructions, p
    <3>2. <<p>> \in Seq(Instructions) /\ Len(<<p>>) = 1 /\ <<p>>[1] = p
      BY <2>1
    <3>3. \A i \in 1 .. 1 : <<p>>[i].asset = SOL
      BY <2>1, <3>2
    <3> QED
      BY <1>2, <2>3, <3>1, <3>2, <3>3 DEF SolPart, p
  <2> QED
    BY <2>2, <2>3
<1> QED
  BY <1>1, <1>2

\* Both parts, one after the other.
Both(all, first, second) ==
    /\ all \in Seq(Instructions) /\ Len(all) = Len(first) + Len(second)
    /\ Len(first) \in Nat /\ Len(second) \in Nat
    /\ \A i \in 1 .. Len(first) : all[i] = first[i]
    /\ \A i \in 1 .. Len(second) : all[Len(first) + i] = second[i]

\* The transaction is both.
LEMMA BothParts ==
    ASSUME NEW first \in Seq(Instructions), NEW second \in Seq(Instructions)
    PROVE  Both(first \o second, first, second)
<1>1. /\ first \o second \in Seq(Instructions)
      /\ Len(first \o second) = Len(first) + Len(second)
      /\ \A i \in 1 .. Len(first) + Len(second) :
           (first \o second)[i] = IF i <= Len(first) THEN first[i] ELSE second[i - Len(first)]
  BY ConcatProperties
<1>2. Len(first) \in Nat /\ Len(second) \in Nat
  OBVIOUS
<1>3. PICK m : m = Len(first)
  OBVIOUS
<1>4. PICK n : n = Len(second)
  OBVIOUS
<1>5. \A i \in 1 .. m : (first \o second)[i] = first[i]
  BY <1>1, <1>2, <1>3
<1>6. \A i \in 1 .. n : (first \o second)[m + i] = second[i]
  <2> TAKE i \in 1 .. n
  <2>1. m + i \in 1 .. m + n /\ ~ (m + i <= m) /\ (m + i) - m = i
    BY <1>2, <1>3, <1>4
  <2> QED
    BY <1>1, <1>3, <1>4, <2>1
<1> QED
  BY <1>1, <1>2, <1>3, <1>4, <1>5, <1>6 DEF Both

\* What a transaction of both parts does to the client's accounts: of a SPL
\* asset that is approved some approval holds, and the others stay as they were.
Approves(after, before, assets, cap) ==
    /\ \A i \in DOMAIN assets : \E k \in DOMAIN assets :
         /\ assets[k].mint = assets[i].mint
         /\ after[assets[i].mint].delegated
              = computeApprovalCeiling(cap, assets[k].amount, assets[k].usdValue)
    /\ \A a \in Allowlist : (\A i \in DOMAIN assets : assets[i].mint # a) => after[a] = before[a]

\* The last of the approvals of one asset holds.
LEMMA SplApproved ==
    ASSUME NEW assets \in Seq(Approvable), NEW cap \in Nat, NEW before \in Ledgers,
           NEW first, NEW chosen \in BOOLEAN, NEW wrap, NEW amount,
           SolPart(first, chosen, wrap, amount),
           NEW all, Both(all, first, SplApprovals(assets, cap))
    PROVE  Approves(Executed(all, before), before, assets, cap)
<1>1. PICK second : second = SplApprovals(assets, cap)
  OBVIOUS
<1>2. PICK m : m = Len(first)
  OBVIOUS
<1>3. PICK n : n = Len(assets)
  OBVIOUS
<1>4. /\ n \in Nat /\ DOMAIN assets = 1 .. n
      /\ \A i \in 1 .. n : assets[i].mint \in Allowlist
  <2>1. Len(assets) \in Nat /\ DOMAIN assets = 1 .. Len(assets)
        /\ \A i \in 1 .. Len(assets) : assets[i] \in Approvable
    OBVIOUS
  <2> QED
    BY <1>3, <2>1 DEF Approvable
<1>5. /\ Len(second) = n
      /\ \A i \in 1 .. n :
           /\ second[i].type = "approve"
           /\ second[i].asset = assets[i].mint
           /\ second[i].amount = computeApprovalCeiling(cap, assets[i].amount, assets[i].usdValue)
  BY <1>1, <1>3, SplApprovalsType
<1>6. /\ all \in Seq(Instructions) /\ Len(all) = m + n /\ m \in Nat
      /\ \A i \in 1 .. m : all[i] = first[i]
      /\ \A i \in 1 .. n : all[m + i] = second[i]
  BY <1>1, <1>2, <1>5 DEF Both
<1>7. \A i \in 1 .. m : all[i].asset = SOL
  BY <1>2, <1>6 DEF SolPart
<1>8. SOL \notin Allowlist /\ Allowlist \subseteq Assets
  BY PricingAssumption DEF Assets
\* An instruction that names an asset of the allowlist is one of the second part.
<1>9. ASSUME NEW a \in Allowlist, NEW j \in 1 .. Len(all), all[j].asset = a
      PROVE  j > m /\ j - m \in 1 .. n /\ assets[j - m].mint = a /\ all[j] = second[j - m]
  <2>1. j > m
    BY <1>6, <1>7, <1>8, <1>9
  <2>2. j - m \in 1 .. n /\ j = m + (j - m)
    BY <1>4, <1>6, <2>1
  <2>3. all[j] = second[j - m]
    BY <1>6, <2>2
  <2> QED
    BY <1>5, <1>9, <2>1, <2>2, <2>3
<1>10. ASSUME NEW i \in DOMAIN assets
       PROVE  \E k \in DOMAIN assets :
                /\ assets[k].mint = assets[i].mint
                /\ Executed(all, before)[assets[i].mint].delegated
                     = computeApprovalCeiling(cap, assets[k].amount, assets[k].usdValue)
  <2>1. PICK a : a = assets[i].mint
    OBVIOUS
  <2>2. PICK own : own = {k \in 1 .. n : assets[k].mint = a}
    OBVIOUS
  <2>3. PICK k \in own : \A j \in own : j <= k
    <3>1. own \in SUBSET Int /\ IsFiniteSet(own) /\ own # {}
      <4>1. IsFiniteSet(1 .. n)
        BY <1>4, FS_Interval
      <4>2. own \in SUBSET (1 .. n) /\ i \in own
        BY <1>4, <2>1, <2>2
      <4>3. IsFiniteSet(own)
        BY <4>1, <4>2, FS_Subset
      <4> QED
        BY <1>4, <4>2, <4>3
    <3> QED
      BY <3>1, LargestMember
  <2>4. k \in 1 .. n /\ assets[k].mint = a /\ a \in Allowlist
    BY <1>4, <2>1, <2>2
  <2>5. m + k \in 1 .. Len(all) /\ all[m + k] = second[k]
    BY <1>4, <1>6, <2>4
  <2>6. ASSUME NEW j \in 1 .. Len(all), j > m + k PROVE all[j].asset # a
    <3>1. ASSUME all[j].asset = a PROVE FALSE
      <4>1. j - m \in 1 .. n /\ assets[j - m].mint = a
        BY <1>9, <2>4, <3>1
      <4>2. j - m <= k
        BY <2>2, <2>3, <4>1
      <4> QED
        BY <1>4, <1>6, <2>4, <2>6, <4>1, <4>2
    <3> QED
      BY <3>1
  <2>7. all[m + k].asset = a /\ all[m + k].type = "approve"
        /\ all[m + k].amount = computeApprovalCeiling(cap, assets[k].amount, assets[k].usdValue)
    BY <1>5, <2>4, <2>5
  <2>8. Executed(all, before)[a].delegated = all[m + k].amount
    <3>1. PICK q : q = m + k
      OBVIOUS
    <3>2. /\ q \in 1 .. Len(all) /\ all[q].asset = a /\ all[q].type = "approve"
          /\ \A j \in 1 .. Len(all) : j > q => all[j].asset # a
      BY <2>5, <2>6, <2>7, <3>1
    <3>3. a \in Assets /\ all \in Seq(Instructions)
      BY <1>6, <1>8, <2>4
    <3> QED
      BY <3>1, <3>2, <3>3, LastApproval
  <2> QED
    BY <1>4, <2>1, <2>4, <2>7, <2>8
<1>11. ASSUME NEW a \in Allowlist, \A i \in DOMAIN assets : assets[i].mint # a
       PROVE  Executed(all, before)[a] = before[a]
  <2>1. \A j \in 1 .. Len(all) : all[j].asset # a
    BY <1>4, <1>9, <1>11
  <2> QED
    BY <1>6, <1>8, <2>1, NotNamed
<1> QED
  BY <1>10, <1>11 DEF Approves

\* SOL's account after the wrap and the approval.
SolCovered(after, before, wrap, amount) ==
    /\ after[SOL].delegated = amount
    /\ after[SOL].balance = before[SOL].balance + wrap

\* What is wrapped is there to be approved.
LEMMA SolApproved ==
    ASSUME NEW assets \in Seq(Approvable), NEW cap \in Nat, NEW before \in Ledgers,
           NEW first, NEW wrap \in Nat, NEW amount \in Nat,
           SolPart(first, TRUE, wrap, amount),
           NEW all, Both(all, first, SplApprovals(assets, cap))
    PROVE  SolCovered(Executed(all, before), before, wrap, amount)
<1>1. PICK second : second = SplApprovals(assets, cap)
  OBVIOUS
<1>2. PICK m : m = Len(first)
  OBVIOUS
<1>3. PICK n : n = Len(second)
  OBVIOUS
<1>4. /\ n \in Nat /\ \A i \in 1 .. n : second[i].asset # SOL
  <2>1. /\ Len(second) = Len(assets)
        /\ \A i \in 1 .. Len(assets) : second[i].asset = assets[i].mint
    BY <1>1, SplApprovalsType
  <2>2. \A i \in 1 .. Len(assets) : assets[i].mint \in Allowlist
    <3>1. \A i \in 1 .. Len(assets) : assets[i] \in Approvable
      OBVIOUS
    <3> QED
      BY <3>1 DEF Approvable
  <2>3. SOL \notin Allowlist
    BY PricingAssumption
  <2>4. Len(assets) \in Nat
    OBVIOUS
  <2> QED
    BY <1>3, <2>1, <2>2, <2>3, <2>4
<1>5. /\ all \in Seq(Instructions) /\ Len(all) = m + n
      /\ \A i \in 1 .. m : all[i] = first[i]
      /\ \A i \in 1 .. n : all[m + i] = second[i]
  BY <1>1, <1>2, <1>3 DEF Both
<1>6. /\ m \in {1, 2} /\ first[m] = Instruction("approve", SOL, amount)
      /\ m = 1 => wrap = 0
      /\ m = 2 => first[1] = Instruction("wrap", SOL, wrap)
  BY <1>2 DEF SolPart
<1>7. PICK h : h = CarriedTo(all, before)
  OBVIOUS
<1>8. CarriedAlong(h, all, before) /\ Executed(all, before) = h[Len(all)]
  BY <1>5, <1>7, CarriedSteps
<1>9. \A i \in 0 .. Len(all) : h[i] \in Ledgers
  BY <1>5, <1>8, CarriedTypes
<1>10. SOL \in Assets
  BY DEF Assets
<1>11. h[Len(all)][SOL] = h[m][SOL]
  <2>1. m \in 0 .. Len(all)
    BY <1>4, <1>5, <1>6
  <2>2. ASSUME NEW j \in 1 .. Len(all), j > m PROVE all[j].asset # SOL
    <3>1. j - m \in 1 .. n /\ j = m + (j - m)
      BY <1>4, <1>5, <1>6, <2>2
    <3>2. all[j] = second[j - m]
      BY <1>5, <3>1
    <3> QED
      BY <1>4, <3>1, <3>2
  <2> QED
    BY <1>5, <1>8, <1>10, <2>1, <2>2, NoLongerNamed
<1>12. /\ h[0] = before
       /\ \A i \in 1 .. m : h[i] = Carried(h[i - 1], first[i]) /\ h[i - 1] \in Ledgers
  <2>1. \A i \in 1 .. m : i \in 1 .. Len(all) /\ i - 1 \in 0 .. Len(all)
    BY <1>4, <1>5, <1>6
  <2> QED
    BY <1>5, <1>8, <1>9, <2>1 DEF CarriedAlong
<1>13. ASSUME NEW l \in Ledgers
       PROVE  /\ Carried(l, Instruction("approve", SOL, amount))[SOL].delegated = amount
              /\ Carried(l, Instruction("approve", SOL, amount))[SOL].balance = l[SOL].balance
              /\ Carried(l, Instruction("wrap", SOL, wrap))[SOL].balance = l[SOL].balance + wrap
              /\ l[SOL].balance \in Nat
  <2>1. PICK p : p = Instruction("approve", SOL, amount)
    OBVIOUS
  <2>2. PICK w : w = Instruction("wrap", SOL, wrap)
    OBVIOUS
  <2>3. /\ p \in Instructions /\ p.type = "approve" /\ p.asset = SOL /\ p.amount = amount
        /\ w \in Instructions /\ w.type = "wrap" /\ w.asset = SOL /\ w.amount = wrap
    BY <1>10, <2>1, <2>2 DEF Instruction, Instructions
  <2>4. /\ Carried(l, p)[SOL].delegated = amount
        /\ Carried(l, p)[SOL].balance = l[SOL].balance
        /\ Carried(l, w)[SOL].balance = l[SOL].balance + wrap
    BY <2>3, CarriedType
  <2>5. l[SOL].balance \in Nat
    BY <1>10 DEF Ledgers
  <2> QED
    BY <2>1, <2>2, <2>4, <2>5
<1>14. CASE m = 1
  <2>1. 1 \in 1 .. m /\ 1 - 1 = 0
    BY <1>14
  <2>2. h[1] = Carried(before, Instruction("approve", SOL, amount))
    BY <1>6, <1>12, <1>14, <2>1
  <2>3. /\ h[1][SOL].delegated = amount
        /\ h[1][SOL].balance = before[SOL].balance /\ before[SOL].balance \in Nat
    BY <1>13, <2>2
  <2> QED
    BY <1>6, <1>8, <1>11, <1>14, <2>3 DEF SolCovered
<1>15. CASE m = 2
  <2>1. 1 \in 1 .. m /\ 2 \in 1 .. m /\ 1 - 1 = 0 /\ 2 - 1 = 1
    BY <1>15
  <2>2. /\ h[1] = Carried(before, Instruction("wrap", SOL, wrap)) /\ h[1] \in Ledgers
        /\ h[2] = Carried(h[1], Instruction("approve", SOL, amount))
    BY <1>6, <1>12, <1>15, <2>1
  <2>3. h[1][SOL].balance = before[SOL].balance + wrap
    BY <1>13, <2>2
  <2>4. h[2][SOL].delegated = amount /\ h[2][SOL].balance = h[1][SOL].balance
    BY <1>13, <2>2
  <2> QED
    BY <1>8, <1>11, <1>15, <2>3, <2>4 DEF SolCovered
<1> QED
  BY <1>6, <1>14, <1>15 DEF SolCovered

\* The client's accounts before it signs.
LEMMA AccountsType == PriceInv => Accounts(scan.wallet) \in Ledgers
<1> SUFFICES ASSUME PriceInv PROVE Accounts(scan.wallet) \in Ledgers
  OBVIOUS
<1> DEFINE accounts == scan.wallet.accounts
           Own(a) == {i \in DOMAIN accounts : accounts[i].mint = a}
           First(a) == CHOOSE i \in Own(a) : \A j \in Own(a) : i <= j
           balance(a) == IF Own(a) = {} THEN 0 ELSE accounts[First(a)].amount
<1>1. \A i \in DOMAIN accounts : accounts[i].amount \in Nat
  BY WalletType
<1>2. DOMAIN accounts \in SUBSET Nat
  <2>1. accounts \in Seq([mint : Nat, amount : Nat])
    BY WalletType
  <2> QED
    BY <2>1
<1>3. ASSUME NEW a \in Assets PROVE balance(a) \in Nat
  <2>1. CASE Own(a) = {}
    BY <2>1
  <2>2. CASE Own(a) # {}
    <3>1. Own(a) \in SUBSET Nat
      BY <1>2
    <3>2. PICK i \in Own(a) : \A m \in Nat : m < i => m \notin Own(a)
      BY <2>2, <3>1, LeastNumber
    <3>3. \A j \in Own(a) : i <= j
      BY <3>1, <3>2
    <3>4. First(a) \in Own(a)
      BY <3>3
    <3> QED
      BY <1>1, <2>2, <3>4
  <2> QED
    BY <2>1, <2>2
<1>4. Accounts(scan.wallet) = [a \in Assets |-> [delegated |-> 0, balance |-> balance(a)]]
  BY DEF Accounts
<1> HIDE DEF balance
<1> QED
  BY <1>3, <1>4 DEF Ledgers

\* An asset a scan offers: what a relevant account holds, with its value at the
\* price of the scan.
Offered(h) ==
    \E i \in Relevant(scan.wallet) :
      /\ scan.wallet.accounts[i].mint = h.mint
      /\ IsQuote(scan.prices[i]) /\ scan.prices[i].scaled > 0
      /\ PriceRatio(scan.prices[i]) \in PositivePrice
      /\ h.usdValue = ComputeUsdValueMicros(h.amount, PriceRatio(scan.prices[i]))

\* With a threshold above nothing, all that is offered has a value.
LEMMA OfferedAreValued ==
    ASSUME PriceInv, DustThreshold > 0
    PROVE  /\ SelectedSplAssets(scan) \in Seq(Approvable)
           /\ \A i \in DOMAIN SelectedSplAssets(scan) : Offered(SelectedSplAssets(scan)[i])
<1>1. PICK held : held = Held(scan)
  OBVIOUS
<1>2. PICK selected : selected = SelectedSplAssets(scan)
  OBVIOUS
<1>3. PICK eligible : eligible = EligibleIn(held)
  OBVIOUS
<1>4. PICK slots : slots = RemainingSlots(scan.already, MaxSplAssets)
  OBVIOUS
<1>5. selected \in Seq(HeldAsset) /\ RankedFirst(selected, held, eligible, slots)
  BY <1>1, <1>2, <1>3, <1>4, SelectionPlaces
<1>6. held \in Seq(HeldAsset) /\ DustThreshold \in Nat
  BY <1>1, HeldProperties, SelectionBounds
<1>7. ASSUME NEW k \in DOMAIN selected
      PROVE  \E j \in eligible : selected[k] = held[j]
  <2>1. PICK n : n = Cardinality(eligible)
    OBVIOUS
  <2>2. PICK m : m = Least(slots, n)
    OBVIOUS
  <2>3. PICK at : at = SelectedFrom(held, eligible)
    OBVIOUS
  <2>4. /\ n \in Nat /\ m \in Nat /\ m <= n /\ Len(selected) = m
        /\ at \in [1 .. n -> eligible]
        /\ \A i \in 1 .. m : selected[i] = held[at[i]]
    BY <1>5, <2>1, <2>2, <2>3 DEF RankedFirst
  <2>5. k \in 1 .. m /\ k \in 1 .. n
    BY <1>5, <2>4
  <2> QED
    BY <2>4, <2>5
<1>8. ASSUME NEW j \in eligible
      PROVE  held[j] \in Approvable /\ Offered(held[j])
  <2>1. j \in DOMAIN held /\ held[j].usdValue >= DustThreshold
    BY <1>3 DEF EligibleIn
  <2>2. held[j] \in HeldAsset
    BY <1>6, <2>1
  <2>3. PICK i \in Relevant(scan.wallet) :
           /\ isPriceFreshEnough(scan.prices[i], scan.since)
           /\ scan.prices[i].scaled \in Nat \ {0}
           /\ PriceRatio(scan.prices[i]) \in PositivePrice
           /\ held[j].mint = scan.wallet.accounts[i].mint
           /\ held[j].amount = scan.wallet.accounts[i].amount
           /\ held[j].usdValue
                = ComputeUsdValueMicros(held[j].amount, PriceRatio(scan.prices[i]))
    BY <1>1, <2>1, HeldProperties
  <2>4. Offered(held[j])
    <3>1. IsQuote(scan.prices[i]) /\ scan.prices[i].scaled > 0
      BY <2>3 DEF isPriceFreshEnough
    <3> QED
      BY <2>3, <3>1 DEF Offered
  <2>5. held[j].mint \in Allowlist
    BY <2>3 DEF Relevant
  <2>6. held[j].usdValue \in Nat \ {0}
    BY <1>6, <2>1, <2>2 DEF HeldAsset
  <2> QED
    BY <2>2, <2>4, <2>5, <2>6 DEF HeldAsset, Approvable
<1>9. \A k \in DOMAIN selected : selected[k] \in Approvable /\ Offered(selected[k])
  BY <1>7, <1>8
<1>10. selected \in Seq(Approvable)
  BY <1>5, <1>9
<1> QED
  BY <1>2, <1>9, <1>10

\* The value a scan gives SOL, and what is wrapped of it.
LEMMA SolValued ==
    ASSUME PriceInv, DustThreshold > 0
    PROVE  /\ solWrapAmount(scan.wallet.lamports) \in Nat
           /\ solEligible(scan) \in BOOLEAN
           /\ solEligible(scan) => Scanned(scan).solUsd \in Nat \ {0}
<1>1. solWrapAmount(scan.wallet.lamports) \in Nat
  BY WalletType, ApprovalAssumption DEF solWrapAmount
<1>2. solEligible(scan) \in BOOLEAN
  BY DEF solEligible, isSolEligible, isPriceFreshEnough, IsQuote, Fresh
<1>3. ASSUME solEligible(scan) PROVE Scanned(scan).solUsd \in Nat \ {0}
  <2>1. 0 \in 0 .. MaxAccounts
    BY Bounds
  <2>2. scan.prices[0] \in Answered \cup {Awaited}
    BY <2>1, Contents
  <2>3. isPriceFreshEnough(scan.prices[0], scan.since)
    BY <1>3 DEF solEligible
  <2>4. PriceRatio(scan.prices[0]) \in PositivePrice
    BY <2>2, <2>3, UsablePrice
  <2>5. usdValue(scan.wallet.lamports, scan.prices[0]) \in Nat
    BY <2>4, UsdValueType, WalletType
  <2>6. Scanned(scan).solUsd = usdValue(scan.wallet.lamports, scan.prices[0])
    BY <2>3 DEF Scanned
  <2>7. usdValue(scan.wallet.lamports, scan.prices[0]) >= DustThreshold
    BY <1>3 DEF solEligible, isSolEligible
  <2> QED
    BY <2>5, <2>6, <2>7, SelectionBounds
<1> QED
  BY <1>1, <1>2, <1>3

\* What is chosen of the assets a scan offers.
Chosen(offer, keys) == Kept(offer, {i \in DOMAIN offer : offer[i].mint \in keys})

\* It is all of them that the client ticked, and nothing else.
LEMMA ChosenAssets ==
    ASSUME NEW offer \in Seq(Approvable), NEW keys, NEW assets, assets = Chosen(offer, keys)
    PROVE  /\ assets \in Seq(Approvable)
           /\ \A k \in DOMAIN assets : \E i \in DOMAIN offer :
                assets[k] = offer[i] /\ offer[i].mint \in keys
           /\ \A i \in DOMAIN offer : offer[i].mint \in keys =>
                \E k \in DOMAIN assets : assets[k] = offer[i]
<1>1. PICK places : places = {i \in DOMAIN offer : offer[i].mint \in keys}
  OBVIOUS
<1>2. PICK at : at = KeptFrom(places)
  OBVIOUS
<1>3. PICK n : n = Cardinality(places)
  OBVIOUS
<1>4. assets = Kept(offer, places) /\ places \in SUBSET (DOMAIN offer)
  BY <1>1 DEF Chosen
<1>5. /\ n \in Nat /\ assets \in Seq(Approvable) /\ Len(assets) = n
      /\ at \in [1 .. n -> places]
      /\ \A k \in 1 .. n : assets[k] = offer[at[k]]
      /\ \A i \in places : \E k \in 1 .. n : at[k] = i
  BY <1>2, <1>3, <1>4, KeptProperties
<1>6. DOMAIN assets = 1 .. n
  BY <1>5
<1>7. ASSUME NEW k \in DOMAIN assets
      PROVE  \E i \in DOMAIN offer : assets[k] = offer[i] /\ offer[i].mint \in keys
  <2>1. at[k] \in places /\ assets[k] = offer[at[k]]
    BY <1>5, <1>6
  <2> QED
    BY <1>1, <2>1
<1>8. ASSUME NEW i \in DOMAIN offer, offer[i].mint \in keys
      PROVE  \E k \in DOMAIN assets : assets[k] = offer[i]
  <2>1. i \in places
    BY <1>1, <1>8
  <2>2. PICK k \in 1 .. n : at[k] = i
    BY <1>5, <2>1
  <2> QED
    BY <1>5, <1>6, <2>2
<1> QED
  BY <1>5, <1>7, <1>8

\* So much delegated cuts no sweep of the mint, at a price of the scan.
Unbound(mint, delegated, low, cap) ==
    \E i \in Relevant(scan.wallet) :
      /\ scan.wallet.accounts[i].mint = mint
      /\ IsQuote(scan.prices[i]) /\ scan.prices[i].scaled > 0
      /\ \A balance \in low .. low + 2 :
           C!ComputeSweepAmountNative(delegated, balance, cap, PriceRatio(scan.prices[i]))
             = C!ComputeSweepAmountNative(balance, balance, cap, PriceRatio(scan.prices[i]))

\* The approval of an offered asset never binds at the price of the scan.
LEMMA OfferSuffices ==
    ASSUME PriceInv, NEW h \in Approvable, NEW cap \in Nat, Offered(h),
           NEW delegated, delegated = computeApprovalCeiling(cap, h.amount, h.usdValue),
           NEW low \in Nat
    PROVE  Unbound(h.mint, delegated, low, cap)
<1>1. PICK i \in Relevant(scan.wallet) :
        /\ scan.wallet.accounts[i].mint = h.mint
        /\ IsQuote(scan.prices[i]) /\ scan.prices[i].scaled > 0
        /\ PriceRatio(scan.prices[i]) \in PositivePrice
        /\ h.usdValue = ComputeUsdValueMicros(h.amount, PriceRatio(scan.prices[i]))
  BY DEF Offered
<1>2. PICK p : p = PriceRatio(scan.prices[i])
  OBVIOUS
<1>3. h.amount \in Nat /\ h.usdValue \in Nat \ {0}
  BY DEF Approvable
<1>4. \A d, b : C!ComputeSweepAmountNative(d, b, cap, p) = ComputeSweepAmountNative(d, b, cap, p)
  BY DEF C!ComputeSweepAmountNative, ComputeSweepAmountNative, C!Lesser, Lesser,
     C!UsdMicrosToNativeQuantityFloor, UsdMicrosToNativeQuantityFloor
<1>5. ASSUME NEW balance \in low .. low + 2
      PROVE  ComputeSweepAmountNative(delegated, balance, cap, p)
               = ComputeSweepAmountNative(balance, balance, cap, p)
  <2>1. balance \in Nat
    OBVIOUS
  <2>2. p \in PositivePrice /\ h.usdValue = ComputeUsdValueMicros(h.amount, p) /\ cap <= cap
    BY <1>1, <1>2
  <2>3. ComputeUsdValueMicros(h.amount, p) # 0
    BY <1>3, <2>2
  <2>4. ComputeSweepAmountNative(
          computeApprovalCeiling(cap, h.amount, ComputeUsdValueMicros(h.amount, p)),
          balance, cap, p)
        = ComputeSweepAmountNative(balance, balance, cap, p)
    BY <1>3, <2>1, <2>2, <2>3, ApprovalNeverBinds
  <2> QED
    BY <2>2, <2>4
<1>6. \A balance \in low .. low + 2 :
        C!ComputeSweepAmountNative(delegated, balance, cap, p)
          = C!ComputeSweepAmountNative(balance, balance, cap, p)
  BY <1>4, <1>5
<1> QED
  BY <1>1, <1>2, <1>6 DEF Unbound

\* Whether SOL is in the transaction, and its ceiling.
SolChosen(keys) == SOL \in keys /\ solEligible(scan)
SolCeiling(cap, wrap) == computeApprovalCeiling(cap, wrap, Scanned(scan).solUsd)

\* The transaction, in its two parts.
LEMMA TransactionParts ==
    ASSUME PriceInv, DustThreshold > 0, NEW cap \in Nat, NEW keys, NEW all,
           all = buildCombinedAuthorizationTransaction(Scanned(scan), keys, cap),
           NEW wrap, wrap = solWrapAmount(scan.wallet.lamports),
           NEW amount, amount = SolCeiling(cap, wrap), NEW chosen, chosen = SolChosen(keys),
           NEW assets, assets = Chosen(SelectedSplAssets(scan), keys)
    PROVE  /\ assets \in Seq(Approvable) /\ wrap \in Nat /\ chosen \in BOOLEAN
           /\ chosen => amount \in Nat
           /\ \E first : /\ SolPart(first, chosen, wrap, amount)
                         /\ Both(all, first, SplApprovals(assets, cap))
<1>1. SelectedSplAssets(scan) \in Seq(Approvable)
  BY OfferedAreValued
<1>2. assets \in Seq(Approvable)
  BY <1>1, ChosenAssets
<1>3. wrap \in Nat /\ chosen \in BOOLEAN
  BY SolValued DEF SolChosen
<1>4. ASSUME chosen PROVE amount \in Nat
  <2>1. Scanned(scan).solUsd \in Nat \ {0}
    BY <1>4, SolValued DEF SolChosen
  <2> QED
    BY <1>3, <2>1, CeilingType DEF SolCeiling
<1>5. PICK first : first = IF chosen THEN SolInstructions(wrap, amount) ELSE <<>>
  OBVIOUS
<1>6. SolPart(first, chosen, wrap, amount)
  BY <1>3, <1>4, <1>5, SolPartType
<1>7. all = first \o SplApprovals(assets, cap)
  <2>0. PICK scanned : scanned = Scanned(scan)
    OBVIOUS
  <2>1. /\ scanned.lamports = scan.wallet.lamports
        /\ scanned.solEligible = solEligible(scan)
        /\ scanned.spl = SelectedSplAssets(scan)
    BY <2>0 DEF Scanned
  <2>2. all = (IF SOL \in keys /\ scanned.solEligible
               THEN SolInstructions(solWrapAmount(scanned.lamports),
                      computeApprovalCeiling(cap, solWrapAmount(scanned.lamports), scanned.solUsd))
               ELSE <<>>) \o SplApprovals(Chosen(scanned.spl, keys), cap)
    BY <2>0, Zenon DEF buildCombinedAuthorizationTransaction, SplApprovals, Chosen
  <2> QED
    BY <1>5, <2>0, <2>1, <2>2, Zenon DEF SolChosen, SolCeiling
<1>8. first \in Seq(Instructions) /\ SplApprovals(assets, cap) \in Seq(Instructions)
  BY <1>2, <1>6, SplApprovalsType DEF SolPart
<1>9. Both(all, first, SplApprovals(assets, cap))
  BY <1>7, <1>8, BothParts
<1> QED
  BY <1>2, <1>3, <1>4, <1>6, <1>9

\* The conclusions of ApprovalSuffices for one cap and one choice.
SufficesFor(a, before, after, cap) ==
    Unbound(a, after[a].delegated, before[a].balance, cap)

Mints(list) == {h.mint : h \in Range(list)}

SignedSuffices(before, after, keys, cap) ==
    /\ \A a \in keys \cap Mints(SelectedSplAssets(scan)) : SufficesFor(a, before, after, cap)
    /\ \A a \in Allowlist \ (keys \cap Mints(SelectedSplAssets(scan))) : after[a] = before[a]
    /\ SOL \in keys /\ solEligible(scan) /\ Scanned(scan).solUsd <= cap
         => after[SOL].delegated >= after[SOL].balance - before[SOL].balance

\* Whatever the client chooses.
LEMMA SignedIsEnough ==
    ASSUME PriceInv, DustThreshold > 0, NEW cap \in Nat, NEW keys,
           NEW before, before = Accounts(scan.wallet),
           NEW after, after = Executed(
             buildCombinedAuthorizationTransaction(Scanned(scan), keys, cap), before)
    PROVE  SignedSuffices(before, after, keys, cap)
<1>1. PICK offer : offer = SelectedSplAssets(scan)
  OBVIOUS
<1>2. PICK assets : assets = Chosen(offer, keys)
  OBVIOUS
<1>3. PICK scanned : scanned = Scanned(scan)
  OBVIOUS
<1>4. PICK all : all = buildCombinedAuthorizationTransaction(scanned, keys, cap)
  OBVIOUS
<1>5. PICK wrap : wrap = solWrapAmount(scan.wallet.lamports)
  OBVIOUS
<1>6. PICK amount : amount = SolCeiling(cap, wrap)
  OBVIOUS
<1>7. PICK chosen : chosen = SolChosen(keys)
  OBVIOUS
<1>8. /\ assets \in Seq(Approvable) /\ wrap \in Nat /\ chosen \in BOOLEAN
      /\ chosen => amount \in Nat
      /\ \E first : /\ SolPart(first, chosen, wrap, amount)
                    /\ Both(all, first, SplApprovals(assets, cap))
  BY <1>1, <1>2, <1>3, <1>4, <1>5, <1>6, <1>7, TransactionParts
<1>9. PICK first : /\ SolPart(first, chosen, wrap, amount)
                   /\ Both(all, first, SplApprovals(assets, cap))
  BY <1>8
<1>10. before \in Ledgers /\ after = Executed(all, before)
  BY <1>3, <1>4, AccountsType
<1>11. Approves(after, before, assets, cap)
  BY <1>8, <1>9, <1>10, SplApproved
<1>12. /\ offer \in Seq(Approvable)
       /\ \A i \in DOMAIN offer : Offered(offer[i])
  BY <1>1, OfferedAreValued
<1>13. /\ \A k \in DOMAIN assets : \E i \in DOMAIN offer :
            assets[k] = offer[i] /\ offer[i].mint \in keys
       /\ \A i \in DOMAIN offer : offer[i].mint \in keys =>
            \E k \in DOMAIN assets : assets[k] = offer[i]
  BY <1>2, <1>12, ChosenAssets
<1>14. ASSUME NEW a \in keys \cap Mints(offer) PROVE SufficesFor(a, before, after, cap)
  <2>1. PICK i \in DOMAIN offer : offer[i].mint = a
    BY DEF Mints, Range
  <2>2. PICK j \in DOMAIN assets : assets[j] = offer[i]
    BY <1>13, <2>1
  <2>3. PICK k \in DOMAIN assets :
          /\ assets[k].mint = a
          /\ after[a].delegated
               = computeApprovalCeiling(cap, assets[k].amount, assets[k].usdValue)
    BY <1>11, <2>1, <2>2 DEF Approves
  <2>4. PICK h : h = assets[k]
    OBVIOUS
  <2>5. h \in Approvable /\ Offered(h)
    <3>1. PICK l \in DOMAIN offer : assets[k] = offer[l]
      BY <1>13
    <3>2. offer[l] \in Approvable
      BY <1>12
    <3> QED
      BY <1>12, <2>4, <3>1, <3>2
  <2>6. before[a].balance \in Nat
    <3>1. a \in Assets
      BY <2>3, <2>4, <2>5 DEF Approvable, Assets
    <3> QED
      BY <1>10, <3>1 DEF Ledgers
  <2>7. PICK delegated : delegated = after[a].delegated
    OBVIOUS
  <2>8. PICK low : low = before[a].balance
    OBVIOUS
  <2>9. delegated = computeApprovalCeiling(cap, h.amount, h.usdValue) /\ h.mint = a
    BY <2>3, <2>4, <2>7
  <2>10. Unbound(h.mint, delegated, low, cap)
    BY <2>5, <2>6, <2>8, <2>9, OfferSuffices
  <2> QED
    BY <2>7, <2>8, <2>9, <2>10 DEF SufficesFor
<1>15. ASSUME NEW a \in Allowlist \ (keys \cap Mints(offer)) PROVE after[a] = before[a]
  <2>1. ASSUME NEW k \in DOMAIN assets, assets[k].mint = a PROVE FALSE
    <3>1. PICK i \in DOMAIN offer : assets[k] = offer[i] /\ offer[i].mint \in keys
      BY <1>13
    <3>2. a \in keys /\ a \in Mints(offer)
      BY <2>1, <3>1 DEF Mints, Range
    <3> QED
      BY <3>2
  <2> QED
    BY <1>11, <2>1 DEF Approves
<1>16. ASSUME SOL \in keys, solEligible(scan), scanned.solUsd <= cap
       PROVE  after[SOL].delegated >= after[SOL].balance - before[SOL].balance
  <2>1. chosen = TRUE
    BY <1>7, <1>8, <1>16 DEF SolChosen
  <2>2. after[SOL].delegated = amount /\ after[SOL].balance = before[SOL].balance + wrap
    <3>1. SolPart(first, TRUE, wrap, amount) /\ amount \in Nat
      BY <1>8, <1>9, <2>1
    <3>2. /\ Executed(all, before)[SOL].delegated = amount
          /\ Executed(all, before)[SOL].balance = before[SOL].balance + wrap
      <4>1. /\ assets \in Seq(Approvable) /\ wrap \in Nat /\ before \in Ledgers
            /\ Both(all, first, SplApprovals(assets, cap))
        BY <1>8, <1>9, <1>10
      <4>2. SolCovered(Executed(all, before), before, wrap, amount)
        BY <3>1, <4>1, SolApproved
      <4> QED
        BY <4>2 DEF SolCovered
    <3> QED
      BY <1>10, <3>2
  <2>3. scanned.solUsd \in Nat \ {0}
    BY <1>3, <1>16, SolValued
  <2>4. wrap <= amount /\ amount \in Nat
    BY <1>3, <1>6, <1>8, <1>16, <2>3, CeilingType DEF SolCeiling
  <2>5. before[SOL].balance \in Nat
    BY <1>10 DEF Ledgers, Assets
  <2> QED
    BY <1>8, <2>2, <2>4, <2>5
<1> QED
  BY <1>1, <1>3, <1>14, <1>15, <1>16 DEF SignedSuffices

\* Enough in every state of the invariant.
LEMMA ApprovalKept == DustThreshold > 0 /\ PriceInv => ApprovalSuffices
<1> SUFFICES ASSUME DustThreshold > 0, PriceInv PROVE ApprovalSuffices
  OBVIOUS
<1>1. PICK before : before = Accounts(scan.wallet)
  OBVIOUS
<1>2. ASSUME NEW cap \in Caps, NEW keys \in SUBSET Assets
      PROVE  SignedSuffices(before, Executed(
               buildCombinedAuthorizationTransaction(Scanned(scan), keys, cap), before), keys, cap)
  <2>1. cap \in Nat
    BY PricingAssumption
  <2> QED
    BY <1>1, <2>1, SignedIsEnough
<1> QED
  BY <1>1, <1>2, Zenon DEF ApprovalSuffices, SignedSuffices, SufficesFor, Unbound,
     Mints

\* Where a holding without value is never offered, whatever a wallet holds, the
\* client ticks and its cap is, what it signs cuts no sweep at the prices of the
\* scan and covers what is wrapped, and approves nothing that was not ticked.
\* At a threshold of 0 the fallback amount would be approved for a holding the
\* scan valued at nothing (authorization.ts:48-58, AppExperience.tsx:111).
THEOREM ApprovalsSuffice == DustThreshold > 0 => (Spec => []ApprovalSuffices)
<1>1. CASE DustThreshold > 0
  <2>1. PriceInv => ApprovalSuffices
    BY <1>1, ApprovalKept
  <2> QED
    BY <2>1, PriceInvariant, PTL
<1> QED
  BY <1>1
=============================================================================
