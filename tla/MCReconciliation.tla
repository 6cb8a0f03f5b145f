-------------------------- MODULE MCReconciliation --------------------------
EXTENDS Reconciliation, TLC

Symmetry == Permutations(Clients) \cup Permutations(Jobs)

Bucket(managed, excess, unattributed) ==
    [managed |-> managed, excess |-> excess, unattributed |-> unattributed]

\* Something in every bucket.
TwoMints ==
    {[m \in {"mint1", "mint2"} |-> IF m = "mint1" THEN Bucket(2, 1, 0)
                                                  ELSE Bucket(0, 0, 1)]}
=============================================================================
