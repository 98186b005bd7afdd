------------------------- MODULE MCDbfTableRefines -------------------------
(***************************************************************************)
(* An instance of DbfTableRefines for TLC.                                 *)
(***************************************************************************)
EXTENDS DbfTableRefines

Rec(flag, v) == <<flag>> \o FieldCells(v)

\* create_database() leaves no record; PACK leaves a blank slot, or just the
\* records.
OwnFiles ==
    { [count |-> 0, body |-> << >>],
      [count |-> 0, body |-> BlankRecord],
      [count |-> 2, body |-> Rec(Star, "a") \o Rec(Blank, "b")] }

AnyTarget == {-1, 0, 2}
=============================================================================
