----------------------------- MODULE MCPricing -----------------------------
EXTENDS Pricing

\* 2.5e-2 and 12e-1 dollars: with one digit after the point, 0 and 12.
TwoWires == {[int |-> <<2>>, frac |-> <<5>>, exp |-> -2],
             [int |-> <<1, 2>>, frac |-> <<>>, exp |-> -1]}

Account(mint, amount) == [mint |-> mint, amount |-> amount]

\* Two tokens of one value, for the slot SOL left, and SOL wrapped before, which
\* is not listed; two accounts of one mint, nothing authorized.
TwoRequests ==
    {[already |-> {SOL},
      wallet |-> [lamports |-> 11,
                  accounts |-> <<Account(2, 3), Account(1, 3), Account(SOL, 9)>>]],
     [already |-> {},
      wallet |-> [lamports |-> 1, accounts |-> <<Account(2, 1), Account(2, 2)>>]]}

TwoRows == {<<SOL, 1>>}

\* Requests of two keys, up to and past a window's edge.
ShortArrivals ==
    {[i \in 1 .. 5 |-> [key |-> keys[i], at |-> times[i]]] :
       keys \in [1 .. 5 -> {1, 2}],
       times \in {t \in [1 .. 5 -> 0 .. 4] : \A i \in 1 .. 4 : t[i] <= t[i + 1]}}

NoArrivals == {}

OneWire == {[int |-> <<1, 2>>, frac |-> <<>>, exp |-> -1]}
OneRequest ==
    {[already |-> {}, wallet |-> [lamports |-> 1, accounts |-> <<Account(1, 1)>>]]}
OneRow == {<<1>>}
=============================================================================
