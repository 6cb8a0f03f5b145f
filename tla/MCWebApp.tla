------------------------------ MODULE MCWebApp ------------------------------
EXTENDS WebApp

\* The first wallet holds both assets, the other one.
SomeHoldings ==
    [w \in Wallets |-> IF w = "w1" THEN Assets ELSE {"x"}]
=============================================================================
