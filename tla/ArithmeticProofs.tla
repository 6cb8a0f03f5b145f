-------------------------- MODULE ArithmeticProofs --------------------------
(***************************************************************************)
(* The arithmetic the other proofs rest on: floored divisions, what the    *)
(* cap formulas of CapCheck guarantee for every price, balance and cap,    *)
(* sums over finite sets, and folds over lists.                            *)
(***************************************************************************)
EXTENDS CapCheck, Functions, FiniteSetsExt, Integers, FiniteSetTheorems,
        WellFoundedInduction, TLAPS

\* Floor division by a positive number, bounded from both sides.
LEMMA DivNat ==
    ASSUME NEW a \in Nat, NEW d \in Nat \ {0}
    PROVE  /\ a \div d \in Nat
           /\ (a \div d) * d <= a
           /\ a < (a \div d) * d + d
BY SMT

\* Multiplying by a natural number keeps the order ...
LEMMA ProductMonotone ==
    ASSUME NEW m \in Nat, NEW n \in Nat, NEW k \in Nat, m <= n
    PROVE  m * k <= n * k
BY SMT

\* ... and multiplying by a positive one reflects it.
LEMMA ProductReflects ==
    ASSUME NEW m \in Nat, NEW n \in Nat, NEW k \in Nat \ {0}, m * k <= n * k
    PROVE  m <= n
BY SMT

(***************************************************************************)
(* The three facts a sweep relies on.                                      *)
(***************************************************************************)

\* The valuation never decreases with the quantity.
LEMMA ValueMonotone ==
    ASSUME NEW p \in Price, NEW m \in Nat, NEW n \in Nat, m <= n
    PROVE  ComputeUsdValueMicros(m, p) <= ComputeUsdValueMicros(n, p)
<1> DEFINE xm == m * p.num
           xn == n * p.num
           vm == xm \div p.den
           vn == xn \div p.den
<1>1. p.num \in Nat /\ p.den \in Nat \ {0}
  BY DEF Price
<1>2. xm \in Nat /\ xn \in Nat /\ xm <= xn
  BY <1>1, ProductMonotone, SMT
<1> HIDE DEF xm, xn
<1>3. /\ vm \in Nat /\ vm * p.den <= xm
      /\ vn \in Nat /\ xn < vn * p.den + p.den
  BY <1>1, <1>2, DivNat
<1> HIDE DEF vm, vn
<1>4. vm * p.den < (vn + 1) * p.den
  BY <1>1, <1>2, <1>3, SMT
<1>5. ~ (vn + 1 <= vm)
  BY <1>1, <1>3, <1>4, ProductMonotone, SMT
<1> QED
  BY <1>3, <1>5, SMT DEF vm, vn, xm, xn, ComputeUsdValueMicros

\* Converting a USD amount to native units and back never gains value, so
\* flooring in usdMicrosToNativeQuantityFloor errs on the client's side.
LEMMA RoundTripNeverGains ==
    ASSUME NEW p \in PositivePrice, NEW u \in Nat
    PROVE  /\ UsdMicrosToNativeQuantityFloor(u, p) \in Nat
           /\ ComputeUsdValueMicros(UsdMicrosToNativeQuantityFloor(u, p), p) <= u
<1> DEFINE q == (u * p.den) \div p.num
           x == q * p.num
           v == x \div p.den
<1>1. p.num \in Nat \ {0} /\ p.den \in Nat \ {0}
  BY DEF PositivePrice, Price
<1>2. u * p.den \in Nat
  BY <1>1, SMT
<1>3. q \in Nat /\ q * p.num <= u * p.den
  BY <1>1, <1>2, DivNat, SMT
<1> HIDE DEF q
<1>4. x \in Nat /\ x <= u * p.den
  BY <1>1, <1>3, SMT
<1> HIDE DEF x
<1>5. v \in Nat /\ v * p.den <= x
  BY <1>1, <1>4, DivNat
<1> HIDE DEF v
<1>6. v * p.den <= u * p.den
  BY <1>1, <1>2, <1>4, <1>5, SMT
<1>7. v <= u
  BY <1>1, <1>5, <1>6, ProductReflects
<1> QED
  BY <1>3, <1>7 DEF q, x, v, ComputeUsdValueMicros, UsdMicrosToNativeQuantityFloor

\* What a sweep takes is a natural number within each of its ceilings.
LEMMA SweepAmountType ==
    ASSUME NEW p \in Price, NEW delegated \in Nat, NEW balance \in Nat,
           NEW headroom \in Nat
    PROVE  /\ ComputeSweepAmountNative(delegated, balance, headroom, p) \in Nat
           /\ ComputeSweepAmountNative(delegated, balance, headroom, p) <= delegated
           /\ ComputeSweepAmountNative(delegated, balance, headroom, p) <= balance
<1>1. CASE headroom = 0 \/ p.num = 0
  BY <1>1 DEF ComputeSweepAmountNative
<1>2. CASE ~ (headroom = 0 \/ p.num = 0)
  <2>1. p \in PositivePrice
    BY <1>2 DEF PositivePrice, Price
  <2>2. UsdMicrosToNativeQuantityFloor(headroom, p) \in Nat
    BY <2>1, RoundTripNeverGains
  <2> QED
    BY <1>2, <2>2 DEF ComputeSweepAmountNative, Lesser
<1> QED
  BY <1>1, <1>2

\* Whatever a sweep takes is credited at no more than the headroom it was
\* sized from, for every price, delegation and balance.
THEOREM CreditWithinHeadroom ==
    ASSUME NEW p \in Price, NEW delegated \in Nat, NEW balance \in Nat,
           NEW headroom \in Nat
    PROVE  LET amount == ComputeSweepAmountNative(delegated, balance, headroom, p)
           IN  /\ ComputeCreditedUsdMicros(amount, p) \in Nat
               /\ ComputeCreditedUsdMicros(amount, p) <= headroom
<1> DEFINE amount == ComputeSweepAmountNative(delegated, balance, headroom, p)
           ceiling == UsdMicrosToNativeQuantityFloor(headroom, p)
<1>1. p.num \in Nat /\ p.den \in Nat \ {0}
  BY DEF Price
<1>2. amount \in Nat
  BY SweepAmountType
<1>3. ComputeCreditedUsdMicros(amount, p) \in Nat
  <2>1. amount * p.num \in Nat
    BY <1>1, <1>2, SMT
  <2> HIDE DEF amount
  <2> QED
    BY <1>1, <2>1, DivNat DEF ComputeCreditedUsdMicros, ComputeUsdValueMicros
<1>4. CASE headroom = 0 \/ p.num = 0
  <2>1. amount = 0
    BY <1>4 DEF ComputeSweepAmountNative
  <2>2. ComputeCreditedUsdMicros(0, p) = 0
    <3>1. 0 * p.num = 0
      BY <1>1
    <3>2. 0 \div p.den \in Nat /\ (0 \div p.den) * p.den <= 0
      BY <1>1, DivNat
    <3> QED
      BY <1>1, <3>1, <3>2, SMT DEF ComputeCreditedUsdMicros, ComputeUsdValueMicros
  <2> QED
    BY <2>1, <2>2
<1>5. CASE ~ (headroom = 0 \/ p.num = 0)
  <2>1. p \in PositivePrice
    BY <1>5 DEF PositivePrice, Price
  <2>2. ceiling \in Nat /\ ComputeUsdValueMicros(ceiling, p) <= headroom
    BY <2>1, RoundTripNeverGains
  <2>3. amount <= ceiling
    BY <1>5, <2>2 DEF ComputeSweepAmountNative, Lesser
  <2>4. ComputeUsdValueMicros(amount, p) <= ComputeUsdValueMicros(ceiling, p)
    BY <1>2, <2>2, <2>3, ValueMonotone
  <2>5. ComputeUsdValueMicros(ceiling, p) \in Nat
    <3> HIDE DEF ceiling
    <3>1. ceiling * p.num \in Nat
      BY <1>1, <2>2, SMT
    <3> QED
      BY <1>1, <3>1, DivNat DEF ComputeUsdValueMicros
  <2>6. ComputeUsdValueMicros(amount, p) <= headroom
    <3> DEFINE va == ComputeUsdValueMicros(amount, p)
               vc == ComputeUsdValueMicros(ceiling, p)
    <3>1. va \in Nat /\ vc \in Nat /\ va <= vc /\ vc <= headroom
      BY <1>3, <2>2, <2>4, <2>5 DEF ComputeCreditedUsdMicros
    <3> HIDE DEF va, vc
    <3> QED
      BY <3>1, SMT DEF va
  <2> QED
    BY <1>3, <2>6 DEF ComputeCreditedUsdMicros
<1> QED
  BY <1>3, <1>4, <1>5

(***************************************************************************)
(* Sums.  SumFunctionOnSet adds recursively, taking away the element that  *)
(* CHOOSE picks.  What it computes is shown by least counterexample: the   *)
(* subsets of a finite set are well-founded under inclusion.               *)
(***************************************************************************)
\* The element the fold takes next.
Pick(s) == CHOOSE x \in s : TRUE

\* g gives the sum of f over every subset of S.
SumsUp(g, f, S) ==
    g = [s \in SUBSET S |-> IF s = {} THEN 0 ELSE f[Pick(s)] + g[s \ {Pick(s)}]]

\* Adding up recursively is what SumFunctionOnSet chooses.
LEMMA SumChosen ==
    ASSUME NEW f, NEW S
    PROVE  SumFunctionOnSet(f, S) = (CHOOSE g : SumsUp(g, f, S))[S]
BY Zenon DEF SumFunctionOnSet, FoldFunctionOnSet, MapThenFoldSet, SumsUp, Pick

\* What is picked is an element.
LEMMA PickMember ==
    ASSUME NEW s, s # {}
    PROVE  Pick(s) \in s
BY DEF Pick

\* Among subsets of a finite set there is a least counterexample.
LEMMA LeastSubset ==
    ASSUME NEW S, IsFiniteSet(S), NEW B \in SUBSET SUBSET S, B # {}
    PROVE  \E T \in B : \A U \in SUBSET T : U # T => U \notin B
<1>1. IsWellFoundedOn(StrictSubsetOrdering(S), SUBSET S)
  BY FS_StrictSubsetOrderingWellFounded, FS_FiniteSubsetsOfFinite
<1>2. PICK T \in B : \A U \in B : ~ (<<U, T>> \in StrictSubsetOrdering(S))
  BY <1>1, WFMin
<1>3. ASSUME NEW U \in SUBSET T, U # T, U \in B
      PROVE  FALSE
  BY <1>2, <1>3 DEF StrictSubsetOrdering
<1> QED
  BY <1>2, <1>3

\* A finite set of integers that is not empty has a largest member.
LEMMA LargestMember ==
    ASSUME NEW S \in SUBSET Int, IsFiniteSet(S), S # {}
    PROVE  \E i \in S : \A j \in S : j <= i
<1> DEFINE B == {T \in SUBSET S : T # {} /\ ~ \E i \in T : \A j \in T : j <= i}
<1> SUFFICES ASSUME B # {} PROVE FALSE
  OBVIOUS
<1>1. PICK T \in B : \A U \in SUBSET T : U # T => U \notin B
  <2>1. B \in SUBSET SUBSET S
    OBVIOUS
  <2> HIDE DEF B
  <2> QED
    BY <2>1, LeastSubset
<1>2. PICK x \in T : TRUE
  BY <1>1
<1> DEFINE U == T \ {x}
<1>3. U \in SUBSET T /\ U # T
  BY <1>2
<1>4. CASE U = {}
  BY <1>1, <1>2, <1>4
<1>5. CASE U # {}
  <2>1. PICK y \in U : \A j \in U : j <= y
    BY <1>1, <1>3, <1>5
  <2>2. \A j \in T : j \in Int /\ (j = x \/ j <= y)
    BY <1>1, <2>1
  <2>3. \/ \A j \in T : j <= x
        \/ \A j \in T : j <= y
    BY <1>2, <2>1, <2>2
  <2> QED
    BY <1>1, <1>2, <2>1, <2>3
<1> QED
  BY <1>4, <1>5

\* Two sums over sets that overlap agree on what they share.
LEMMA SumsAgree ==
    ASSUME NEW f, NEW S, IsFiniteSet(S), NEW T \in SUBSET S,
           NEW g, SumsUp(g, f, S), NEW h, SumsUp(h, f, T)
    PROVE  \A U \in SUBSET T : g[U] = h[U]
<1> DEFINE B == {U \in SUBSET T : g[U] # h[U]}
<1> SUFFICES ASSUME B # {} PROVE FALSE
  OBVIOUS
<1>1. IsFiniteSet(T) /\ B \in SUBSET SUBSET T
  BY FS_Subset
<1>2. PICK U \in B : \A V \in SUBSET U : V # U => V \notin B
  <2> HIDE DEF B
  <2> QED
    BY <1>1, LeastSubset
<1>3. CASE U = {}
  BY <1>2, <1>3 DEF SumsUp
<1>4. CASE U # {}
  <2> DEFINE V == U \ {Pick(U)}
  <2>1. V \in SUBSET U /\ V # U /\ V \in SUBSET T
    BY <1>4, PickMember
  <2>2. g[V] = h[V]
    BY <1>2, <2>1
  <2>3. g[U] = f[Pick(U)] + g[V] /\ h[U] = f[Pick(U)] + h[V]
    BY <1>2, <1>4 DEF SumsUp
  <2> QED
    BY <1>2, <2>2, <2>3
<1> QED
  BY <1>3, <1>4

\* The recursion has a solution on every finite set.
LEMMA SumsExist ==
    ASSUME NEW f, NEW S, IsFiniteSet(S)
    PROVE  \E g : SumsUp(g, f, S)
<1> DEFINE B == {T \in SUBSET S : ~ \E g : SumsUp(g, f, T)}
<1> SUFFICES ASSUME B # {} PROVE FALSE
  OBVIOUS
<1>1. PICK T \in B : \A U \in SUBSET T : U # T => U \notin B
  <2>1. B \in SUBSET SUBSET S
    OBVIOUS
  <2> HIDE DEF B
  <2> QED
    BY <2>1, LeastSubset
<1>2. IsFiniteSet(T)
  BY FS_Subset
<1> DEFINE sol(U) == CHOOSE g : SumsUp(g, f, U)
           G == [U \in SUBSET T |-> IF U = {} THEN 0
                    ELSE f[Pick(U)] + sol(U \ {Pick(U)})[U \ {Pick(U)}]]
<1>3. ASSUME NEW U \in SUBSET T, U # T
      PROVE  SumsUp(sol(U), f, U)
  <2>1. \E g : SumsUp(g, f, U)
    BY <1>1, <1>3
  <2> QED
    BY <2>1
<1> HIDE DEF sol
<1>4. ASSUME NEW U \in SUBSET T, U # {}
      PROVE  G[U \ {Pick(U)}] = sol(U \ {Pick(U)})[U \ {Pick(U)}]
  <2> DEFINE V == U \ {Pick(U)}
             W == V \ {Pick(V)}
  <2>1. V \in SUBSET T /\ V # T /\ V # U
    BY <1>4, PickMember
  <2>2. SumsUp(sol(V), f, V)
    BY <1>3, <2>1
  <2>3. CASE V = {}
    BY <2>1, <2>2, <2>3 DEF SumsUp
  <2>4. CASE V # {}
    <3>1. W \in SUBSET V /\ W \in SUBSET T /\ W # T
      BY <2>1, <2>4, PickMember
    <3>2. SumsUp(sol(W), f, W)
      BY <1>3, <3>1
    <3>3. IsFiniteSet(V)
      BY <1>2, <2>1, FS_Subset
    <3>4. sol(V)[W] = sol(W)[W]
      BY <2>2, <3>1, <3>2, <3>3, SumsAgree
    <3>5. sol(V)[V] = f[Pick(V)] + sol(V)[W]
      BY <2>2, <2>4 DEF SumsUp
    <3>6. G[V] = f[Pick(V)] + sol(W)[W]
      BY <2>1, <2>4
    <3> QED
      BY <3>4, <3>5, <3>6
  <2> QED
    BY <2>3, <2>4
<1>5. SumsUp(G, f, T)
  <2>1. G = [U \in SUBSET T |-> IF U = {} THEN 0
                 ELSE f[Pick(U)] + G[U \ {Pick(U)}]]
    BY <1>4
  <2> QED
    BY <2>1 DEF SumsUp
<1> QED
  BY <1>1, <1>5

-----------------------------------------------------------------------------
(* What the other proofs cite.                                             *)

\* Nothing adds up to 0.
LEMMA SumEmpty ==
    ASSUME NEW f
    PROVE  SumFunctionOnSet(f, {}) = 0
<1> DEFINE g == CHOOSE g : SumsUp(g, f, {})
<1>1. SumsUp(g, f, {})
  <2>1. \E h : SumsUp(h, f, {})
    BY SumsExist, FS_EmptySet
  <2> QED
    BY <2>1
<1>2. g[{}] = 0
  <2> HIDE DEF g
  <2> QED
    BY <1>1 DEF SumsUp
<1> QED
  BY <1>2, SumChosen

\* A sum is the element picked and the sum of the others.
LEMMA SumPicked ==
    ASSUME NEW f, NEW S, IsFiniteSet(S), S # {}
    PROVE  SumFunctionOnSet(f, S)
             = f[Pick(S)] + SumFunctionOnSet(f, S \ {Pick(S)})
<1> DEFINE T == S \ {Pick(S)}
           sol(U) == CHOOSE g : SumsUp(g, f, U)
<1>1. IsFiniteSet(T) /\ T \in SUBSET S
  BY FS_Subset
<1>2. SumsUp(sol(S), f, S) /\ SumsUp(sol(T), f, T)
  <2>1. (\E g : SumsUp(g, f, S)) /\ (\E g : SumsUp(g, f, T))
    BY <1>1, SumsExist
  <2> QED
    BY <2>1
<1>3. SumFunctionOnSet(f, S) = sol(S)[S] /\ SumFunctionOnSet(f, T) = sol(T)[T]
  BY SumChosen
<1> HIDE DEF sol
<1>4. sol(S)[T] = sol(T)[T]
  BY <1>1, <1>2, SumsAgree
<1>5. sol(S)[S] = f[Pick(S)] + sol(S)[T]
  BY <1>1, <1>2 DEF SumsUp
<1> QED
  BY <1>3, <1>4, <1>5

\* A sum of integers is an integer.
LEMMA SumInt ==
    ASSUME NEW f, NEW S, IsFiniteSet(S), \A x \in S : f[x] \in Int
    PROVE  SumFunctionOnSet(f, S) \in Int
<1> DEFINE B == {T \in SUBSET S : SumFunctionOnSet(f, T) \notin Int}
<1> SUFFICES ASSUME B # {} PROVE FALSE
  OBVIOUS
<1>1. PICK T \in B : \A U \in SUBSET T : U # T => U \notin B
  <2>1. B \in SUBSET SUBSET S
    OBVIOUS
  <2> HIDE DEF B
  <2> QED
    BY <2>1, LeastSubset
<1>2. T # {}
  BY SumEmpty
<1>3. /\ Pick(T) \in T /\ T \ {Pick(T)} \in SUBSET T /\ T \ {Pick(T)} # T
      /\ T \in SUBSET S /\ IsFiniteSet(T)
  BY <1>2, PickMember, FS_Subset
<1>4. SumFunctionOnSet(f, T \ {Pick(T)}) \in Int /\ f[Pick(T)] \in Int
  BY <1>1, <1>3
<1>5. SumFunctionOnSet(f, T) = f[Pick(T)] + SumFunctionOnSet(f, T \ {Pick(T)})
  BY <1>2, <1>3, SumPicked
<1> QED
  BY <1>4, <1>5

\* Any element may be taken out of a sum, not only the one the fold picks.
LEMMA SumLess ==
    ASSUME NEW f, NEW S, IsFiniteSet(S), \A x \in S : f[x] \in Int,
           NEW x \in S
    PROVE  SumFunctionOnSet(f, S) = f[x] + SumFunctionOnSet(f, S \ {x})
<1> DEFINE Sum(T) == SumFunctionOnSet(f, T)
           B == {T \in SUBSET S : ~ \A y \in T : Sum(T) = f[y] + Sum(T \ {y})}
<1> SUFFICES ASSUME B # {} PROVE FALSE
  OBVIOUS
<1>1. PICK T \in B : \A U \in SUBSET T : U # T => U \notin B
  <2>1. B \in SUBSET SUBSET S
    OBVIOUS
  <2> HIDE DEF B
  <2> QED
    BY <2>1, LeastSubset
<1>2. PICK y \in T : Sum(T) # f[y] + Sum(T \ {y})
  BY <1>1
<1> DEFINE p == Pick(T)
           R == (T \ {p}) \ {y}
<1>3. /\ p \in T /\ T \in SUBSET S /\ IsFiniteSet(T)
      /\ T \ {p} \in SUBSET T /\ T \ {p} # T
      /\ T \ {y} \in SUBSET T /\ T \ {y} # T
      /\ R = (T \ {y}) \ {p}
  BY <1>2, PickMember, FS_Subset
<1>4. Sum(T) = f[p] + Sum(T \ {p})
  BY <1>2, <1>3, SumPicked
<1>5. p # y
  BY <1>2, <1>4
<1>6. Sum(T \ {p}) = f[y] + Sum(R)
  <2>1. \A z \in T \ {p} : Sum(T \ {p}) = f[z] + Sum((T \ {p}) \ {z})
    BY <1>1, <1>3
  <2> QED
    BY <1>5, <2>1
<1>7. Sum(T \ {y}) = f[p] + Sum(R)
  <2>1. \A z \in T \ {y} : Sum(T \ {y}) = f[z] + Sum((T \ {y}) \ {z})
    BY <1>1, <1>3
  <2> QED
    BY <1>3, <1>5, <2>1
<1>8. Sum(R) \in Int /\ f[p] \in Int /\ f[y] \in Int
  <2>1. IsFiniteSet(R) /\ R \in SUBSET S
    BY <1>3, FS_Subset
  <2> QED
    BY <1>2, <1>3, <2>1, SumInt
<1> HIDE DEF Sum, R, p
<1> QED
  BY <1>2, <1>4, <1>6, <1>7, <1>8

\* Functions that agree on a set have the same sum over it.
LEMMA SumAgree ==
    ASSUME NEW f, NEW g, NEW S, IsFiniteSet(S), \A x \in S : f[x] = g[x]
    PROVE  SumFunctionOnSet(f, S) = SumFunctionOnSet(g, S)
<1> DEFINE B == {T \in SUBSET S :
                   SumFunctionOnSet(f, T) # SumFunctionOnSet(g, T)}
<1> SUFFICES ASSUME B # {} PROVE FALSE
  OBVIOUS
<1>1. PICK T \in B : \A U \in SUBSET T : U # T => U \notin B
  <2>1. B \in SUBSET SUBSET S
    OBVIOUS
  <2> HIDE DEF B
  <2> QED
    BY <2>1, LeastSubset
<1>2. T # {}
  BY SumEmpty
<1>3. /\ Pick(T) \in T /\ T \ {Pick(T)} \in SUBSET T /\ T \ {Pick(T)} # T
      /\ T \in SUBSET S /\ IsFiniteSet(T)
  BY <1>2, PickMember, FS_Subset
<1>4. SumFunctionOnSet(f, T \ {Pick(T)}) = SumFunctionOnSet(g, T \ {Pick(T)})
  BY <1>1, <1>3
<1>5. /\ SumFunctionOnSet(f, T) = f[Pick(T)] + SumFunctionOnSet(f, T \ {Pick(T)})
      /\ SumFunctionOnSet(g, T) = g[Pick(T)] + SumFunctionOnSet(g, T \ {Pick(T)})
  BY <1>2, <1>3, SumPicked
<1> QED
  BY <1>1, <1>3, <1>4, <1>5

\* Changing one addend changes the sum by as much.
LEMMA SumChange ==
    ASSUME NEW f, NEW g, NEW S, IsFiniteSet(S), NEW c \in S,
           \A x \in S : f[x] \in Int /\ g[x] \in Int,
           \A x \in S \ {c} : g[x] = f[x]
    PROVE  SumFunctionOnSet(g, S) = SumFunctionOnSet(f, S) + (g[c] - f[c])
<1>1. IsFiniteSet(S \ {c})
  BY FS_Subset
<1>2. SumFunctionOnSet(g, S \ {c}) = SumFunctionOnSet(f, S \ {c})
  BY <1>1, SumAgree
<1>3. SumFunctionOnSet(f, S \ {c}) \in Int
  BY <1>1, SumInt
<1>4. /\ SumFunctionOnSet(f, S) = f[c] + SumFunctionOnSet(f, S \ {c})
      /\ SumFunctionOnSet(g, S) = g[c] + SumFunctionOnSet(g, S \ {c})
  BY SumLess
<1> QED
  BY <1>2, <1>3, <1>4

\* A sum of natural numbers is one, and no addend exceeds it.
LEMMA SumNat ==
    ASSUME NEW f, NEW S, IsFiniteSet(S), \A x \in S : f[x] \in Nat
    PROVE  /\ SumFunctionOnSet(f, S) \in Nat
           /\ \A x \in S : f[x] <= SumFunctionOnSet(f, S)
<1> DEFINE B == {T \in SUBSET S : SumFunctionOnSet(f, T) \notin Nat}
<1>1. B = {}
  <2> SUFFICES ASSUME B # {} PROVE FALSE
    OBVIOUS
  <2>1. PICK T \in B : \A U \in SUBSET T : U # T => U \notin B
    <3>1. B \in SUBSET SUBSET S
      OBVIOUS
    <3> HIDE DEF B
    <3> QED
      BY <3>1, LeastSubset
  <2>2. T # {}
    BY SumEmpty
  <2>3. /\ Pick(T) \in T /\ T \ {Pick(T)} \in SUBSET T /\ T \ {Pick(T)} # T
        /\ T \in SUBSET S /\ IsFiniteSet(T)
    BY <2>2, PickMember, FS_Subset
  <2>4. SumFunctionOnSet(f, T \ {Pick(T)}) \in Nat /\ f[Pick(T)] \in Nat
    BY <2>1, <2>3
  <2>5. SumFunctionOnSet(f, T) = f[Pick(T)] + SumFunctionOnSet(f, T \ {Pick(T)})
    BY <2>2, <2>3, SumPicked
  <2> QED
    BY <2>4, <2>5
<1>2. \A T \in SUBSET S : SumFunctionOnSet(f, T) \in Nat
  BY <1>1
<1>3. ASSUME NEW x \in S
      PROVE  f[x] <= SumFunctionOnSet(f, S)
  <2>1. SumFunctionOnSet(f, S) = f[x] + SumFunctionOnSet(f, S \ {x})
    BY SumLess
  <2>2. SumFunctionOnSet(f, S \ {x}) \in Nat /\ f[x] \in Nat
    BY <1>2
  <2> QED
    BY <2>1, <2>2
<1> QED
  BY <1>2, <1>3

\* Addends that are 0 may be left out.
LEMMA SumZeros ==
    ASSUME NEW f, NEW S, IsFiniteSet(S), NEW D \in SUBSET S,
           \A x \in S : f[x] \in Int, \A x \in S \ D : f[x] = 0
    PROVE  SumFunctionOnSet(f, S) = SumFunctionOnSet(f, D)
<1> DEFINE Sum(T) == SumFunctionOnSet(f, T)
           B == {T \in SUBSET S : D \subseteq T /\ Sum(T) # Sum(D)}
<1> SUFFICES ASSUME B # {} PROVE FALSE
  OBVIOUS
<1>1. PICK T \in B : \A U \in SUBSET T : U # T => U \notin B
  <2>1. B \in SUBSET SUBSET S
    OBVIOUS
  <2> HIDE DEF B
  <2> QED
    BY <2>1, LeastSubset
<1>2. PICK x \in T \ D : TRUE
  <2>1. D \subseteq T /\ Sum(T) # Sum(D)
    OBVIOUS
  <2>2. T # D
    BY <2>1
  <2> HIDE DEF B
  <2> QED
    BY <2>1, <2>2
<1>3. /\ T \ {x} \in SUBSET T /\ T \ {x} # T /\ D \subseteq T \ {x}
      /\ T \in SUBSET S /\ IsFiniteSet(T) /\ IsFiniteSet(T \ {x})
  BY <1>1, <1>2, FS_Subset
<1>4. Sum(T \ {x}) = Sum(D)
  BY <1>1, <1>3
<1>5. Sum(T) = f[x] + Sum(T \ {x})
  BY <1>2, <1>3, SumLess
<1>6. f[x] = 0 /\ Sum(T \ {x}) \in Int
  BY <1>2, <1>3, SumInt
<1> QED
  BY <1>1, <1>4, <1>5, <1>6

\* A sum over the first places, its last addend first.
LEMMA SumLast ==
    ASSUME NEW n \in Nat, NEW f, \A i \in 1 .. n : f[i] \in Int, NEW i \in 1 .. n
    PROVE  /\ SumFunctionOnSet(f, 1 .. i) = f[i] + SumFunctionOnSet(f, 1 .. i - 1)
           /\ SumFunctionOnSet(f, 1 .. i - 1) \in Int
           /\ f[i] \in Int
<1>1. IsFiniteSet(1 .. i) /\ IsFiniteSet(1 .. i - 1)
  BY FS_Interval
<1>2. (\A j \in 1 .. i : f[j] \in Int) /\ (\A j \in 1 .. i - 1 : f[j] \in Int) /\ i \in 1 .. i
  OBVIOUS
<1>3. (1 .. i) \ {i} = 1 .. i - 1
  OBVIOUS
<1>4. SumFunctionOnSet(f, 1 .. i) = f[i] + SumFunctionOnSet(f, (1 .. i) \ {i})
  BY <1>1, <1>2, SumLess
<1>5. SumFunctionOnSet(f, 1 .. i - 1) \in Int
  BY <1>1, <1>2, SumInt
<1> QED
  BY <1>2, <1>3, <1>4, <1>5

\* p moves the addends g over S to the places R, where they are those of f.
Moves(p, g, f, S, R) ==
    /\ p \in [S -> R]
    /\ R = {p[x] : x \in S}
    /\ \A x, y \in S : x # y => p[x] # p[y]
    /\ \A y \in R : f[y] \in Int
    /\ \A x \in S : g[x] = f[p[x]]

\* A sum does not depend on where its addends stand.
LEMMA SumRearranged ==
    ASSUME NEW S, IsFiniteSet(S), NEW R, IsFiniteSet(R),
           NEW p, NEW g, NEW f, Moves(p, g, f, S, R)
    PROVE  SumFunctionOnSet(g, S) = SumFunctionOnSet(f, R)
<1> DEFINE To(T) == {p[x] : x \in T}
           B == {T \in SUBSET S : SumFunctionOnSet(g, T) # SumFunctionOnSet(f, To(T))}
<1>0. /\ p \in [S -> R] /\ R = To(S)
      /\ \A x, y \in S : x # y => p[x] # p[y]
      /\ \A y \in R : f[y] \in Int
      /\ \A x \in S : g[x] = f[p[x]]
  BY DEF Moves
<1> SUFFICES ASSUME B # {} PROVE FALSE
  BY <1>0
<1>1. PICK T \in B : \A U \in SUBSET T : U # T => U \notin B
  <2>1. B \in SUBSET SUBSET S
    OBVIOUS
  <2> HIDE DEF B
  <2> QED
    BY <2>1, LeastSubset
<1>2. T \in SUBSET S /\ IsFiniteSet(T) /\ SumFunctionOnSet(g, T) # SumFunctionOnSet(f, To(T))
  BY FS_Subset
<1>3. T # {}
  <2>1. ASSUME T = {} PROVE FALSE
    <3>1. To(T) = {}
      BY <2>1
    <3> QED
      BY <1>2, <2>1, <3>1, SumEmpty
  <2> QED
    BY <2>1
<1>4. PICK x \in T : TRUE
  BY <1>3
<1> DEFINE U == T \ {x}
<1>5. U \in SUBSET T /\ U # T /\ U \in SUBSET S
  BY <1>2, <1>4
<1>6. SumFunctionOnSet(g, U) = SumFunctionOnSet(f, To(U))
  BY <1>1, <1>5
<1>7. To(U) = To(T) \ {p[x]} /\ p[x] \in To(T)
  <2>1. \A y \in U : p[y] # p[x]
    BY <1>0, <1>2, <1>4
  <2>2. \A y \in T : y = x \/ y \in U
    OBVIOUS
  <2> QED
    BY <1>4, <2>1, <2>2
<1>8. To(T) \in SUBSET R /\ IsFiniteSet(To(T)) /\ \A y \in To(T) : f[y] \in Int
  <2>1. To(T) \in SUBSET R
    BY <1>0, <1>2
  <2> QED
    BY <1>0, <2>1, FS_Subset
<1>9. SumFunctionOnSet(f, To(T)) = f[p[x]] + SumFunctionOnSet(f, To(T) \ {p[x]})
  BY <1>7, <1>8, SumLess
<1>10. SumFunctionOnSet(g, T) = g[x] + SumFunctionOnSet(g, U)
  <2>1. \A y \in T : g[y] \in Int
    BY <1>0, <1>2
  <2> QED
    BY <1>2, <1>4, <2>1, SumLess
<1>11. g[x] = f[p[x]]
  BY <1>0, <1>2, <1>4
<1> HIDE DEF U, To, B
<1> QED
  BY <1>2, <1>6, <1>7, <1>9, <1>10, <1>11

-----------------------------------------------------------------------------
(***************************************************************************)
(* Numbers one after the other, and folds that go through the places of a  *)
(* list from the left.                                                     *)
(***************************************************************************)
\* A property that fails for some number fails for a least one.
LEMMA LeastNumber ==
    ASSUME NEW B \in SUBSET Nat, B # {}
    PROVE  \E n \in B : \A m \in Nat : m < n => m \notin B
<1>1. PICK n \in B : \A m \in B : ~ (<<m, n>> \in OpToRel(<, Nat))
  BY NatLessThanWellFounded, WFMin
<1>2. ASSUME NEW m \in Nat, m < n, m \in B PROVE FALSE
  BY <1>1, <1>2 DEF OpToRel
<1> QED
  BY <1>1, <1>2

\* The last place of a finite set of places is one of them.
LEMMA LastMember ==
    ASSUME NEW s \in SUBSET Int, IsFiniteSet(s), s # {}
    PROVE  Max(s) \in s
<1>1. \E x \in s : \A y \in s : x >= y
  BY LargestMember
<1> QED
  BY <1>1 DEF Max

\* What holds at 0 and passes from each number to the next holds up to n.
LEMMA StepByStep ==
    ASSUME NEW n \in Nat, NEW S, 0 \in S, \A i \in 1 .. n : i - 1 \in S => i \in S
    PROVE  0 .. n \subseteq S
<1> DEFINE B == (0 .. n) \ S
<1> SUFFICES ASSUME B # {} PROVE FALSE
  OBVIOUS
<1>1. PICK i \in B : \A m \in Nat : m < i => m \notin B
  <2>1. B \in SUBSET Nat
    OBVIOUS
  <2> HIDE DEF B
  <2> QED
    BY <2>1, LeastNumber
<1>2. i \in 0 .. n /\ i \notin S
  OBVIOUS
<1>3. i # 0
  BY <1>2
<1>4. i \in 1 .. n /\ i - 1 \in Nat /\ i - 1 < i /\ i - 1 \in 0 .. n
  BY <1>2, <1>3
<1>5. i - 1 \in S
  BY <1>1, <1>4
<1> QED
  BY <1>2, <1>4, <1>5

\* g is the fold of base over every set of places s of S, the last place first
\* in the recursion.
FoldsUp(g, step, base, S) ==
    g = [s \in SUBSET S |-> IF s = {} THEN base ELSE step[Max(s)][g[s \ {Max(s)}]]]

\* The last of some places is known when it is seen.
LEMMA LastIs ==
    ASSUME NEW s \in SUBSET Int, NEW m \in s, \A y \in s : y <= m
    PROVE  Max(s) = m
<1>1. \E x \in s : \A y \in s : x >= y
  <2>1. \A y \in s : m >= y
    OBVIOUS
  <2> QED
    BY <2>1
<1>2. Max(s) \in s /\ \A y \in s : Max(s) >= y
  BY <1>1 DEF Max
<1> HIDE DEF Max
<1>3. Max(s) \in Int /\ m \in Int /\ Max(s) >= m /\ Max(s) <= m
  BY <1>2
<1> QED
  BY <1>3

\* A fold has a value, of the type its steps keep.
LEMMA FoldExists ==
    ASSUME NEW S \in SUBSET Int, IsFiniteSet(S), NEW A, NEW base \in A,
           NEW step \in [S -> [A -> A]]
    PROVE  \E g \in [SUBSET S -> A] : FoldsUp(g, step, base, S)
<1> DEFINE Folded(T) == \E g \in [SUBSET T -> A] : FoldsUp(g, step, base, T)
           B == {T \in SUBSET S : ~ Folded(T)}
<1> SUFFICES ASSUME B # {} PROVE FALSE
  OBVIOUS
<1>1. PICK T \in B : \A U \in SUBSET T : U # T => U \notin B
  <2>1. B \in SUBSET SUBSET S
    OBVIOUS
  <2> HIDE DEF B
  <2> QED
    BY <2>1, LeastSubset
<1>2. T \in SUBSET S /\ IsFiniteSet(T) /\ ~ Folded(T)
  BY FS_Subset
<1>3. CASE T = {}
  <2> DEFINE g == [s \in SUBSET T |-> base]
  <2>1. g \in [SUBSET T -> A] /\ FoldsUp(g, step, base, T)
    BY <1>3 DEF FoldsUp
  <2> QED
    BY <1>2, <2>1
<1>4. CASE T # {}
  <2> DEFINE m == Max(T)
             U == T \ {m}
  <2>1. m \in T /\ \A y \in T : y <= m
    <3>1. \E x \in T : \A y \in T : x >= y
      BY <1>2, <1>4, LargestMember
    <3>2. m \in T /\ \A y \in T : m >= y
      BY <3>1 DEF Max
    <3> QED
      BY <1>2, <3>2
  <2> HIDE DEF m
  <2>2. U \in SUBSET T /\ U # T
    BY <2>1
  <2>3. PICK h \in [SUBSET U -> A] : FoldsUp(h, step, base, U)
    BY <1>1, <1>2, <2>2
  <2> DEFINE g == [s \in SUBSET T |-> IF m \in s THEN step[m][h[s \ {m}]] ELSE h[s]]
  <2>4. g \in [SUBSET T -> A]
    <3>1. \A s \in SUBSET T : s \ {m} \in SUBSET U /\ (m \notin s => s \in SUBSET U)
      OBVIOUS
    <3>2. step[m] \in [A -> A]
      BY <1>2, <2>1
    <3> QED
      BY <2>3, <3>1, <3>2
  <2>5. ASSUME NEW s \in SUBSET T
        PROVE  g[s] = IF s = {} THEN base ELSE step[Max(s)][g[s \ {Max(s)}]]
    <3>1. CASE s = {}
      <4>1. h[{}] = base
        BY <2>3 DEF FoldsUp
      <4> QED
        BY <3>1, <4>1
    <3>2. CASE m \in s
      <4>1. Max(s) = m
        <5>1. s \in SUBSET Int /\ \A y \in s : y <= m
          BY <1>2, <2>1
        <5> QED
          BY <3>2, <5>1, LastIs
      <4>2. s \ {m} \in SUBSET T /\ m \notin s \ {m}
        OBVIOUS
      <4>3. g[s \ {m}] = h[s \ {m}]
        BY <4>2
      <4>4. g[s] = step[m][h[s \ {m}]]
        BY <3>2
      <4> QED
        BY <3>2, <4>1, <4>3, <4>4
    <3>3. CASE m \notin s /\ s # {}
      <4>1. s \in SUBSET U /\ s \ {Max(s)} \in SUBSET T /\ m \notin s \ {Max(s)}
        BY <3>3
      <4>2. g[s] = h[s] /\ g[s \ {Max(s)}] = h[s \ {Max(s)}]
        BY <3>3, <4>1
      <4>3. h[s] = step[Max(s)][h[s \ {Max(s)}]]
        BY <2>3, <3>3, <4>1 DEF FoldsUp
      <4> QED
        BY <3>3, <4>2, <4>3
    <3> QED
      BY <3>1, <3>2, <3>3
  <2>6. FoldsUp(g, step, base, T)
    <3>1. g = [s \in SUBSET T |-> g[s]]
      OBVIOUS
    <3> HIDE DEF g
    <3> QED
      BY <2>5, <3>1 DEF FoldsUp
  <2> QED
    BY <1>2, <2>4, <2>6
<1> QED
  BY <1>3, <1>4

\* The first i places, and the one before.
LEMMA FirstPlaces ==
    ASSUME NEW i \in Nat \ {0}
    PROVE  Max(1 .. i) = i /\ (1 .. i) \ {i} = 1 .. i - 1 /\ 1 .. i # {}
<1>1. Max(1 .. i) = i
  <2>1. 1 .. i \in SUBSET Int /\ i \in 1 .. i /\ \A y \in 1 .. i : y <= i
    OBVIOUS
  <2> QED
    BY <2>1, LastIs
<1>2. (1 .. i) \ {i} = 1 .. i - 1
  OBVIOUS
<1>3. i \in 1 .. i
  OBVIOUS
<1> QED
  BY <1>1, <1>2, <1>3
=============================================================================
