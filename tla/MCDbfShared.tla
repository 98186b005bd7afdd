---------------------------- MODULE MCDbfShared ----------------------------
(***************************************************************************)
(* Instances of DbfShared for TLC.                                         *)
(***************************************************************************)
EXTENDS DbfShared

OneRecord == <<Blank>> \o [j \in 1..(RecLen - 1) |-> Blank]

Files == { [count |-> 0, body |-> << >>],
           [count |-> 1, body |-> OneRecord],
           [count |-> 1, body |-> OneRecord \o <<EofMark>>] }

\* GO's arguments: before the first record, inside the table and beyond it.
AnyTarget == {-1, 1, 2}
=============================================================================
