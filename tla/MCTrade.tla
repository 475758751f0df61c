------------------------------- MODULE MCTrade -------------------------------
EXTENDS Trade, TLC

CONSTANTS p1, p2      \* the two of them

\* One player has fewer bags than the other.
Bags == (p1 :> 2) @@ (p2 :> 3)

TwoOnly == [K \in Limits |-> 2]

Symmetric ==
    {f \in Permutations(Items) : \A K \in Limits : {f[i] : i \in K} \in Limits}

\* Bound: one of the four items is used up.
FewUsedUp == Cardinality({i \in Items : owner[i] \notin Players}) <= 1
=============================================================================
