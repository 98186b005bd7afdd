------------------------------ MODULE DbfShared ------------------------------
(***************************************************************************)
(* Several DATABASEDBF handles on one .dbf file: two work areas of one     *)
(* interpreter, or the areas of several interpreters; and locker.c, which  *)
(* marks records and the file as locked in a field of the table itself.    *)
(*                                                                         *)
(* Every handle has its own record count, read once by USE.  Each command  *)
(* opens and closes the file, so what it writes is seen by the others at   *)
(* once.  Commands of one interpreter follow each other; commands of       *)
(* several interpreters interleave between the two writes of an APPEND.    *)
(***************************************************************************)
EXTENDS DbfFile, FiniteSets

CONSTANTS
    Handles,        \* the open DATABASEDBFs
    InitFiles,      \* the files they may find: [count, body] records
    Data,           \* what programs REPLACE the data field with
    Layouts,        \* SUBSET BOOLEAN: with a _DBFLOCK field, without one
    GoTargets,      \* the records GO, rec_lock() and rec_unlock() are called for
    MaxRecs,        \* bound: no handle appends beyond this many records
    MaxEarly        \* bound: how often USE may fall into an APPEND

Digits == {"0", "1", "2"}

ASSUME SharedInitAssumption ==
    \A f \in InitFiles : /\ f.count \in Nat
                         /\ f.body \in Body
                         /\ f.count * RecLen <= Len(f.body)
ASSUME DataAssumption == Data \cup Digits \subseteq Value
\* _DBFLOCK is two cells wide; the record has at least one cell of data.
ASSUME LayoutAssumption == Layouts \subseteq BOOLEAN /\ RecLen >= 4
ASSUME SharedTargetsAssumption == GoTargets \subseteq Int
ASSUME SharedBoundsAssumption == MaxRecs \in Nat /\ MaxEarly \in Nat

VARIABLES
    count,          \* the record count in the header
    body,           \* the cells after the header
    multi,          \* the table has a _DBFLOCK field (create_database, multi)
    open,           \* per handle: USE succeeded
    recnos,         \* per handle: the record count it believes in
    current,        \* per handle: the record pointer
    pc,             \* per handle: "idle" or "append" (count written)
    endpos,         \* per handle: the file position of the blanks to write
    oneProcess,     \* the handles belong to one interpreter
    early           \* history: how often USE read a count whose record was
                    \* not yet written

file == <<count, body>>
handles == <<open, recnos, current, pc, endpos>>
setting == <<multi, oneProcess>>
vars == <<file, handles, setting, early>>

Init ==
    /\ \E f \in InitFiles : count = f.count /\ body = f.body
    /\ open = [h \in Handles |-> FALSE]
    /\ recnos = [h \in Handles |-> 0]
    /\ current = [h \in Handles |-> 0]
    /\ pc = [h \in Handles |-> "idle"]
    /\ endpos = [h \in Handles |-> 0]
    /\ multi \in Layouts /\ oneProcess \in BOOLEAN
    /\ early = 0

\* h may start a command.
Turn(h) ==
    /\ pc[h] = "idle"
    /\ oneProcess => \A g \in Handles : pc[g] = "idle"

Idle(h) == open[h] /\ Turn(h)

-----------------------------------------------------------------------------
(* USE, CLOSE and the moves *)

\* The header's count is that of an APPEND under way.
InFlight == \E g \in Handles : pc[g] = "append" /\ recnos[g] = count

\* Mutant: the header's count is taken for the last record's index.
UseOneLess(h) ==
    /\ ~open[h] /\ Turn(h)
    /\ early' = IF InFlight THEN early + 1 ELSE early
    /\ early' <= MaxEarly
    /\ open' = [open EXCEPT ![h] = TRUE]
    /\ recnos' = [recnos EXCEPT ![h] = count - 1]
    /\ current' = [current EXCEPT ![h] = 1]
    /\ UNCHANGED <<file, pc, endpos, setting>>

Use(h) ==
    /\ ~open[h] /\ Turn(h)
    /\ early' = IF InFlight THEN early + 1 ELSE early
    /\ early' <= MaxEarly
    /\ open' = [open EXCEPT ![h] = TRUE]
    /\ recnos' = [recnos EXCEPT ![h] = count]
    /\ current' = [current EXCEPT ![h] = 1]
    /\ UNCHANGED <<file, pc, endpos, setting>>

Close(h) ==
    /\ Idle(h)
    /\ open' = [open EXCEPT ![h] = FALSE]
    /\ recnos' = [recnos EXCEPT ![h] = 0]
    /\ current' = [current EXCEPT ![h] = 0]
    /\ UNCHANGED <<file, pc, endpos, setting, early>>

\* gotos(): by the handle's own count, not the file's.
Goto(h, rec) == IF recnos[h] >= rec THEN rec ELSE current[h]

Go(h, rec) ==
    /\ Idle(h)
    /\ current' = [current EXCEPT ![h] = Goto(h, rec)]
    /\ UNCHANGED <<file, open, recnos, pc, endpos, setting, early>>

-----------------------------------------------------------------------------
(* Writing in the record of a handle *)

\* gotos() to rec, then the cells s are written at distance d in that record.
\* Programs whose pointer is before the first record when they write, into the
\* header, are left to DbfTable.
WriteInRecord(h, rec, d, s) ==
    /\ Idle(h) /\ rec >= 1
    /\ current' = [current EXCEPT ![h] = rec]
    /\ body' = WriteAt(body, Offset(rec) + d, s)
    /\ UNCHANGED <<count, open, recnos, pc, endpos, setting, early>>

Delete(h) == WriteInRecord(h, current[h], 0, <<Star>>)
Recall(h) == WriteInRecord(h, current[h], 0, <<Blank>>)

\* replace() moves one cell to the right of the field if the table has a
\* _DBFLOCK field; get_field() and is_deleted() do not.
Shift == IF multi THEN 1 ELSE 0
LockLen == IF multi THEN 2 ELSE 0

\* Mutant: the width of the data field forgets _DBFLOCK.
DataCellsFull(v) == [j \in 1..(RecLen - 1) |-> v]

\* The fields: _DBFLOCK, if any, is the first (N, two wide, padded with a
\* blank), then the data.
DataCells(v) == [j \in 1..(RecLen - 1 - LockLen) |-> v]

Replace(h, v) ==
    WriteInRecord(h, current[h], 1 + LockLen + Shift, DataCells(v))

\* dbf_lock, dbf_unlock, rec_lock, rec_unlock: none looks at what is there.
SetLock(h, rec, digit) ==
    /\ multi
    /\ WriteInRecord(h, Goto(h, rec), 1 + Shift, <<digit, Blank>>)

DbfLock(h) == SetLock(h, 1, "2")
DbfUnlock(h) == SetLock(h, 1, "0")
RecLock(h, rec) == SetLock(h, rec, "1")
RecUnlock(h, rec) == SetLock(h, rec, "0")

-----------------------------------------------------------------------------
(* APPEND BLANK: the handle's own count, incremented, becomes the file's *)

AppendCount(h) ==
    /\ Idle(h) /\ recnos[h] < MaxRecs
    /\ recnos' = [recnos EXCEPT ![h] = @ + 1]
    /\ count' = recnos[h] + 1
    /\ endpos' = [endpos EXCEPT ![h] = Len(body)]
    /\ pc' = [pc EXCEPT ![h] = "append"]
    /\ UNCHANGED <<body, open, current, setting, early>>

\* Mutant: one blank too few.
AppendBlanksShort(h) ==
    /\ pc[h] = "append"
    /\ body' = WriteAt(body, endpos[h], SubSeq(BlankRecord, 1, RecLen - 1))
    /\ current' = [current EXCEPT ![h] = recnos[h]]
    /\ endpos' = [endpos EXCEPT ![h] = 0]
    /\ pc' = [pc EXCEPT ![h] = "idle"]
    /\ UNCHANGED <<count, open, recnos, setting, early>>

AppendBlanks(h) ==
    /\ pc[h] = "append"
    /\ body' = WriteAt(body, endpos[h], BlankRecord)
    /\ current' = [current EXCEPT ![h] = recnos[h]]
    /\ endpos' = [endpos EXCEPT ![h] = 0]
    /\ pc' = [pc EXCEPT ![h] = "idle"]
    /\ UNCHANGED <<count, open, recnos, setting, early>>

Next ==
    \E h \in Handles :
        \/ Use(h) \/ Close(h)
        \/ \E rec \in GoTargets : Go(h, rec)
        \/ Delete(h) \/ Recall(h) \/ \E v \in Data : Replace(h, v)
        \/ DbfLock(h) \/ DbfUnlock(h)
        \/ \E rec \in GoTargets : RecLock(h, rec) \/ RecUnlock(h, rec)
        \/ AppendCount(h) \/ AppendBlanks(h)

Spec == Init /\ [][Next]_vars

-----------------------------------------------------------------------------
(* Properties *)

\* The types of the file and the handles: no handle's count is negative, whoever
\* else has written to the file.  A pointer may be, after GO.
TypeOK ==
    /\ count \in Nat /\ body \in Body
    /\ open \in [Handles -> BOOLEAN]
    /\ recnos \in [Handles -> Nat]
    /\ current \in [Handles -> Int]
    /\ pc \in [Handles -> {"idle", "append"}]
    /\ endpos \in [Handles -> Nat]
    /\ multi \in BOOLEAN /\ oneProcess \in BOOLEAN /\ early \in Nat

\* However the APPENDs of the handles interleave and however old a handle's
\* count is, the records it believes in are in the file, but for the one it is
\* about to write and one for every USE that fell between the two writes of
\* another handle's APPEND: an old count shows too few records, never cells
\* that are not there.
ViewBacked ==
    \A h \in Handles :
        open[h] => recnos[h] * RecLen
                   <= early * RecLen + IF pc[h] = "append"
                                       THEN endpos[h] + RecLen
                                       ELSE Len(body)

\* The same of the header's count, which jumps back and forth between the
\* counts of the handles.
CountBacked == InFlight \/ count * RecLen <= Len(body) + early * RecLen

\* In one interpreter a command changes no record that is wholly in the file but
\* the one its own handle is on, whatever the other handle has done before; with
\* a _DBFLOCK field a REPLACE reaches into the next record, but no further than
\* its deletion mark.  (Of two interpreters, one that appends may blank a record
\* the other has just appended and filled.)
OthersUntouched ==
    [][oneProcess =>
        \A r \in 1..Len(body) :
            /\ Intact(body, r)
            /\ \E j \in (IF multi THEN 2 ELSE 1)..RecLen :
                  CellAt(body', Offset(r) + j) # CellAt(body, Offset(r) + j)
            => \E h \in Handles : current'[h] = r /\ pc' = pc]_vars
=============================================================================
