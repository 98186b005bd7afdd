------------------------------ MODULE DbfFile ------------------------------
(***************************************************************************)
(* The bytes of a .dbf file that follow its header, and what the library   *)
(* reads from and writes to them.                                          *)
(*                                                                         *)
(* A body is the sequence of the cells (bytes) after the header; record i  *)
(* occupies RecLen cells from Offset(i): the delete flag, then the fields. *)
(* The number of records is not derived from the body: it is a field of    *)
(* the header, and the two can disagree.                                   *)
(***************************************************************************)
EXTENDS Integers, Sequences, Selection

CONSTANTS RecLen,       \* rec_len, read from the header by use()
          Value         \* the bytes a program stores in its fields

\* Every record has its flag and at least one cell of data.
ASSUME RecLenAssumption == RecLen \in Nat /\ RecLen >= 2

Blank   == " "          \* what APPEND BLANK writes, and RECALL's flag
Star    == "*"          \* the flag of a deleted record
EofMark == "1A"         \* the end-of-file mark dBASE leaves after the records
EofChar == "FF"         \* getc()'s EOF, once stored in a char
Hole    == "00"         \* what a write beyond the end leaves in between

Cell == Value \cup {Blank, Star, EofMark, EofChar, Hole}

Body == Seq(Cell)

\* The distance from the header to record i (1-based).
Offset(i) == (i - 1) * RecLen

\* getc() at the k-th cell of the body.
CellAt(body, k) == IF k \in 1..Len(body) THEN body[k] ELSE EofChar

\* Record i, as a reader finds it.
RecordAt(body, i) == [j \in 1..RecLen |-> CellAt(body, Offset(i) + j)]

IsDeleted(body, i) == CellAt(body, Offset(i) + 1) = Star

\* Every cell of record i is in the file.
Intact(body, i) == 1 <= i /\ i * RecLen <= Len(body)

Larger(a, b) == IF a >= b THEN a ELSE b

\* fseek to off, then one fputc per cell of s.
WriteAt(body, off, s) ==
    [k \in 1..Larger(Len(body), off + Len(s)) |->
        IF off < k /\ k <= off + Len(s) THEN s[k - off]
        ELSE IF k <= Len(body) THEN body[k]
        ELSE Hole]

\* fseek to position pos of the file: a negative one is refused, and what is
\* written then goes to the beginning of the file.
Position(pos) == Larger(pos, 0)

\* The body of a file with h bytes of header after the cells s were written from
\* position pos on: what exceeds the header, or all, falls in the body.
BodyAfter(body, h, pos, s) ==
    IF pos >= h THEN WriteAt(body, pos - h, s)
    ELSE WriteAt(body, 0, SubSeq(s, h - pos + 1, Len(s)))

\* That write meets one of the given bytes of the header.
Touches(bytes, h, pos, s) ==
    \E k \in bytes : k < h /\ pos <= k /\ k < pos + Len(s)

BlankRecord == [j \in 1..RecLen |-> Blank]

\* The data cells of a record after its (only) field was given the value v.
FieldCells(v) == [j \in 1..(RecLen - 1) |-> v]

\* The records 1..n that are not marked, in order: what PACK is to keep.
LiveRecords(body, n) ==
    Chosen([i \in 1..n |-> RecordAt(body, i)], {i \in 1..n : ~IsDeleted(body, i)}, n)
=============================================================================
