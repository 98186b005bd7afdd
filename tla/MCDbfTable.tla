---------------------------- MODULE MCDbfTable ----------------------------
(***************************************************************************)
(* Instances of DbfTable for TLC.                                          *)
(***************************************************************************)
EXTENDS DbfTable

Rec(flag, v) == <<flag>> \o FieldCells(v)

\* create_database() leaves no record; PACK leaves a blank slot or just the
\* records.
OwnFiles ==
    { [count |-> 0, body |-> << >>],
      [count |-> 2, body |-> Rec(Star, "a") \o Rec(Blank, "a")] }

\* What dBASE leaves: an end-of-file mark after the records, and the remains of
\* records behind it (examples/dbf/RECON.DBF, examples/dbf/DEPOSITS.DBF).
DBaseFiles ==
    { [count |-> 0, body |-> <<EofMark>> \o FieldCells("a") \o Rec(Blank, "a")],
      [count |-> 1, body |-> Rec(Blank, "a") \o <<EofMark>>] }

\* GO's arguments: before the first record, on it, inside and beyond the table.
AnyTarget == {-1, 0, 2}
AllFiles == OwnFiles \cup DBaseFiles
=============================================================================
