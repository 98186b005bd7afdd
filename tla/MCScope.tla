------------------------------ MODULE MCScope ------------------------------
(***************************************************************************)
(* Instances of Scope for TLC.                                             *)
(***************************************************************************)
EXTENDS Scope

\* DELETED(), FIELD = "a" and RECNO() <= 2.
IsDeleted == {p \in Records \X Record : p[2].deleted}
IsA == {p \in Records \X Record : p[2].value = "a"}
Front == {p \in Records \X Record : p[1] <= 2}

SomeConditions == {IsDeleted, IsA, Front}

\* GO in front of the first record, to 0 and to a record.
AnyTarget == {-1, 0, 2}

\* A REPLACE in front of the file that reached the first record.
FirstLost == {[r \in Records |-> [value |-> IF r = 1 THEN "b" ELSE "a", deleted |-> r = 1]]}

\* NEXT and RECORD inside the table and beyond it.
Scopes ==
    {<<"none", 0>>, <<"all", 0>>, <<"rest", 0>>}
    \cup {"next", "record"} \X {2, NRecs + 1}

\* FOR and WHILE: neither, one of them, both.
Clauses == {<<None, None>>, <<IsA, None>>, <<IsDeleted, None>>,
            <<None, IsA>>, <<None, Front>>, <<IsDeleted, Front>>}

\* Every verb under every scope with all these clauses.
Scans ==
    {[verb |-> v, scope |-> s[1], n |-> s[2], for |-> c[1], while |-> c[2],
      with |-> IF v = "replace" THEN "b" ELSE None] :
        v \in Verbs \ Finding, s \in Scopes, c \in Clauses}

Locates ==
    {[verb |-> "locate", scope |-> "none", n |-> 0, for |-> IsA, while |-> w,
      with |-> None] : w \in {None, Front}}

\* RECORD with no clause or with both.
SomeCommands ==
    {c \in Scans : c.scope = "record" => (c.for = None <=> c.while = None)}
    \cup Locates
=============================================================================
