----------------------------- MODULE Arranging ------------------------------
(***************************************************************************)
(* Lists the code filters and sorts, Array.prototype.filter and sort.  The *)
(* entries of a list are named by their places in it, and an order of the  *)
(* places is a set of pairs.                                               *)
(***************************************************************************)
EXTENDS Integers, FiniteSets

\* The members of S one after the other in a total order.
Arranged(S, order) ==
    CHOOSE p \in [1 .. Cardinality(S) -> S] :
        \A k, l \in 1 .. Cardinality(S) : k < l => <<p[k], p[l]>> \in order

FirstToLast(places) == {e \in places \X places : e[1] < e[2]}

\* filter: what is at some places of a list, in the order it had.
Kept(list, places) ==
    LET at == Arranged(places, FirstToLast(places))
    IN  [k \in 1 .. Cardinality(places) |-> list[at[k]]]
=============================================================================
