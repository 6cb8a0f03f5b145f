------------------------------ MODULE MCSweep ------------------------------
EXTENDS Sweep, TLC

WorkerSymmetry == Permutations(Workers)

\* One USD micro per native unit.
UnitPrice == {[num |-> 1, den |-> 1]}

\* Prices that floor: half a micro, and two micros, per native unit.
FlooringPrices == {[num |-> 1, den |-> 2], [num |-> 2, den |-> 1]}

\* The client never revokes, so every row stays ACTIVE.
NeverRevokedSpec == Init /\ [][Next /\ UNCHANGED status]_vars /\ Fairness

\* The client only tops up, and submits nothing further.
TopUpNext ==
    \/ \E w \in Workers : Work(w) \/ Crash(w)
    \/ \E a \in Auths : DelayElapses(a) \/ TopUp(a) \/ SyncLands(a)
    \/ Chain

TopUpSpec == Init /\ [][TopUpNext]_vars /\ Fairness
=============================================================================
