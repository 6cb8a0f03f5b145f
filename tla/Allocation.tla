----------------------------- MODULE Allocation -----------------------------
(***************************************************************************)
(* Ranking and cutting off: the slots of a wallet scan                     *)
(* (scan/selectAssets.ts) and the allocation of a deposit quote            *)
(* (packages/accounting: comparator.ts, allocate.ts, reserve.ts).  An      *)
(* asset is a record with its mint, a number in the order of the mints'    *)
(* bytes, and its value in USD micros.                                     *)
(***************************************************************************)
EXTENDS Arranging, Sequences, SequencesExt

\* The more valuable first, ties in the order of the mints.
Precedes(a, b) ==
    \/ a.usdValue > b.usdValue
    \/ a.usdValue = b.usdValue /\ a.mint < b.mint

\* Two entries of one mint with one value make compareAssets throw.
Comparable(assets) ==
    \A i, j \in DOMAIN assets : i # j =>
      Precedes(assets[i], assets[j]) \/ Precedes(assets[j], assets[i])

\* The sort is stable: what ranks alike stays in the order of the list.
Ranking(assets) ==
    {e \in (DOMAIN assets) \X (DOMAIN assets) :
       \/ Precedes(assets[e[1]], assets[e[2]])
       \/ ~Precedes(assets[e[2]], assets[e[1]]) /\ e[1] < e[2]}

rankAssets(assets) ==
    LET at == Arranged(DOMAIN assets, Ranking(assets))
    IN  [k \in DOMAIN assets |-> assets[at[k]]]

-----------------------------------------------------------------------------
(* The slots of a scan.                                                    *)

Eligible(held, already, dust) ==
    Kept(held, {i \in DOMAIN held : /\ held[i].mint \notin already
                                    /\ held[i].usdValue >= dust})

\* Every authorized asset takes a slot.
RemainingSlots(already, slots) ==
    IF Cardinality(already) >= slots THEN 0 ELSE slots - Cardinality(already)

FirstOf(seq, n) == SubSeq(seq, 1, IF n < Len(seq) THEN n ELSE Len(seq))

\* Mutant: cuts before it ranks.
selectUnranked(held, already, dust, slots) ==
    rankAssets(FirstOf(Eligible(held, already, dust), RemainingSlots(already, slots)))

selectSplAssets(held, already, dust, slots) ==
    FirstOf(rankAssets(Eligible(held, already, dust)), RemainingSlots(already, slots))

isSolEligible(usdValue, dust) == usdValue >= dust

-----------------------------------------------------------------------------
(* A deposit quote.                                                        *)

Least(m, n) == IF m < n THEN m ELSE n
Greatest(m, n) == IF m < n THEN n ELSE m

\* Mutant: the boundary asset does not use up what it takes.
allocateAgain(assets, headroom) ==
    [i \in DOMAIN assets |->
       LET asset == rankAssets(assets)[i]
       IN  [mint |-> asset.mint, usdValue |-> asset.usdValue,
            allocated |-> Least(asset.usdValue, headroom)]]

\* Down the ranking until the headroom is used up.
allocate(assets, headroom) ==
    LET Take(acc, asset) ==
          LET allocated == Least(asset.usdValue, acc.remaining)
          IN  [remaining |-> acc.remaining - allocated,
               results |-> Append(acc.results,
                   [mint |-> asset.mint, usdValue |-> asset.usdValue,
                    allocated |-> allocated])]
    IN  FoldLeft(Take, [remaining |-> headroom, results |-> <<>>],
                 rankAssets(assets)).results

\* Mutant: the smaller of the two reserves.
offerTooMuch(eligible, minReserve) ==
    eligible - Least(eligible, Least(eligible \div 10, minReserve))

\* offered_sol: what is above the greater of the two reserves.
computeSolReserve(eligible, minReserve) ==
    LET reserve == Greatest(eligible \div 10, minReserve)
    IN  IF eligible > reserve THEN eligible - reserve ELSE 0

\* Rejected, never clamped.
assertSolSelectionWithinOffer(selected, offered) == selected <= offered
=============================================================================
