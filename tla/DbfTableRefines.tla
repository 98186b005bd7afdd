--------------------------- MODULE DbfTableRefines ---------------------------
(***************************************************************************)
(* The work area over a .dbf file implements Table, for a program that     *)
(* marks and stores only in records: the sequence of records is what a     *)
(* reader finds in the file.                                               *)
(***************************************************************************)
EXTENDS DbfTable

\* A record the file does not hold completely is not ready.
RecordView(b, r) ==
    IF Intact(b, r)
    THEN [ready |-> TRUE, deleted |-> IsDeleted(b, r),
          field |-> [j \in 1..(RecLen - 1) |-> CellAt(b, Offset(r) + 1 + j)]]
    ELSE [ready |-> FALSE, deleted |-> FALSE, field |-> FieldCells(Blank)]

AbstractTable ==
    INSTANCE Table WITH
        Field <- [1..(RecLen - 1) -> Cell],
        BlankField <- FieldCells(Blank),
        recs <- [r \in 1..count |-> RecordView(body, r)],
        died <- torn > 0

\* Every command, step by step and with the crashes in between, acts on the
\* records of the file as Table allows: this is what a caller of the library
\* relies on, and what a neighbour overwritten, a record lost by PACK or an
\* APPEND that reuses old cells would break.
ImplementsTable == AbstractTable!TSpec
=============================================================================
