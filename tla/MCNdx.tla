------------------------------- MODULE MCNdx -------------------------------
\* Every table of up to three records; the sorted ones of seven, whose index
\* may have three leaves, or as many as make its root page illegible; and one
\* of 24 records, the last of which is misread as the eighth.
EXTENDS Ndx

KeyOrder == <<<<1, 1>>, <<1, 2>>, <<2>>>>
SomeKeys == {KeyOrder[i] : i \in DOMAIN KeyOrder} \cup {<<>>, <<1>>}
SomeCriteria == SomeKeys \cup {<<1, 1, 1>>, <<1, 3>>}

SmallTables == UNION {[1..n -> SomeKeys \ {<<1>>}] : n \in 1..3}
SortedTables ==
    {[i \in 1..7 |-> KeyOrder[f[i]]] :
        f \in {g \in [1..7 -> DOMAIN KeyOrder] :
                    g[1] = 1 /\ g[7] = 3 /\ \A i \in 1..6 : g[i] <= g[i + 1]}}
LongTable == [i \in 1..24 |-> IF i = 24 THEN <<2>> ELSE <<1>>]
SomeTables == SmallTables \cup SortedTables \cup {LongTable}
=============================================================================
