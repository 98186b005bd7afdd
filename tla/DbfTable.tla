------------------------------ MODULE DbfTable ------------------------------
(***************************************************************************)
(* One work area over one .dbf file: the commands that move in the table   *)
(* and change it (workarea.c over libdbase_4), a file system in which the  *)
(* file may be read-only, and an interpreter that may die between any two  *)
(* of the writes that reach the file.                                      *)
(*                                                                         *)
(* The header of the file is its record count and the length of its other  *)
(* bytes: a write at a pointer before the first record lands in it, and    *)
(* may change the count, spoil what use() has to read, or run over into    *)
(* the records.                                                            *)
(*                                                                         *)
(* A command that writes once is one action.  APPEND BLANK writes twice    *)
(* (the header's count, then the record) and PACK copies record by record  *)
(* and renames, so each is a sequence of actions and pc says which one is  *)
(* under way.                                                              *)
(***************************************************************************)
EXTENDS DbfFile

CONSTANTS
    InitFiles,      \* the files a program may find: [count, body] records
    HeaderLens,     \* the lengths a header may have (header_len)
    CountBytes,     \* the positions of the record count: 4..7
    LayoutBytes,    \* the positions of what else use() relies on: the type (0),
                    \* the lengths (8..11), the fields (from 32 on)
    StrayCounts,    \* the counts use() may read where a write hit its bytes
    InitWritable,   \* the answers fopen(name, "r+") may give: SUBSET BOOLEAN
    GoTargets,      \* the arguments GO is called with
    Careful,        \* TRUE: DELETE, RECALL and REPLACE only on a record
    MaxRecs,        \* bound: no APPEND BLANK beyond this many records, in the
                    \* count or in the file
    MaxCrashes      \* bound: how often the interpreter may die

ASSUME InitFilesAssumption ==
    \A f \in InitFiles : /\ f.count \in Nat
                         /\ f.body \in Body
                         /\ f.count * RecLen <= Len(f.body)
ASSUME HeaderAssumption ==
    \A h \in HeaderLens : h \in Nat /\ CountBytes \subseteq 0..(h - 1)
ASSUME BytesAssumption ==
    CountBytes # {} /\ LayoutBytes \subseteq Nat /\ StrayCounts \subseteq Nat
ASSUME InitWritableAssumption == InitWritable \subseteq BOOLEAN
ASSUME GoTargetsAssumption == GoTargets \subseteq Int
ASSUME CarefulAssumption == Careful \in BOOLEAN
ASSUME BoundsAssumption == MaxRecs \in Nat /\ MaxCrashes \in Nat

VARIABLES
    \* the file
    header,     \* the length of the header
    count,      \* the record count in the header, as use() reads it
    body,       \* the cells after the header
    layoutOK,   \* FALSE once a record write hit the layout in the header
    writable,   \* fopen(name, "r+") succeeds
    \* the area's DATABASEDBF
    open,       \* areas[selected] # NULL
    recnos,     \* the record count, as the area believes it
    current,    \* the record pointer
    \* the command under way
    pc,         \* "idle", "append" (count written) or "pack" (copying)
    endpos,     \* append: where fseek(0, SEEK_END) left the file position
    saved,      \* pack: the record pointer to return to
    i,          \* pack: the next record to copy
    temp,       \* pack: the body of the temporary file
    kept,       \* pack: the records copied, pos - estos
    \* history
    astray,     \* a record write hit the count, and no PACK has set it since
    crashes,    \* how often the interpreter died
    torn        \* how often it died between the two writes of an APPEND

file == <<header, count, body, layoutOK, writable, astray>>
area == <<open, recnos, current>>
work == <<pc, endpos, saved, i, temp, kept>>
history == <<crashes, torn>>
vars == <<file, area, work, history>>

Init ==
    /\ \E f \in InitFiles : count = f.count /\ body = f.body
    /\ header \in HeaderLens /\ layoutOK = TRUE /\ astray = FALSE
    /\ writable \in InitWritable
    /\ open = FALSE /\ recnos = 0 /\ current = 0
    /\ pc = "idle" /\ endpos = 0 /\ saved = 0 /\ i = 0
    /\ temp = << >> /\ kept = 0
    /\ crashes = 0 /\ torn = 0

Idle == open /\ pc = "idle"

OnRecord == current \in 1..recnos

-----------------------------------------------------------------------------
(* USE and CLOSE *)

\* use() reads the count and stands on record 1.  A file whose layout a write
\* has hit is refused; if what was written there happens to describe another
\* layout it is read as another table, which is left out.
Use ==
    /\ ~open
    /\ IF layoutOK THEN open' = TRUE /\ recnos' = count /\ current' = 1
                   ELSE UNCHANGED area
    /\ UNCHANGED <<file, work, history>>

Close ==
    /\ Idle
    /\ open' = FALSE /\ recnos' = 0 /\ current' = 0
    /\ UNCHANGED <<file, work, history>>

-----------------------------------------------------------------------------
(* Moving in the table.  None of these commands reads the file. *)

\* Mutant: gotos() without its test of the record count.
GotoUnchecked(cur, n, rec) == rec

\* gotos(): a target beyond the last record is ignored, any other accepted.
Goto(cur, n, rec) == IF n >= rec THEN rec ELSE cur

MoveTo(rec) ==
    /\ Idle
    /\ current' = rec
    /\ UNCHANGED <<file, open, recnos, work, history>>

Go(rec) == MoveTo(Goto(current, recnos, rec))
GoTop == Go(1)
GoBottom == Go(recnos)

\* skip(): the pointer stays on the last record.
Skip == MoveTo(IF current < recnos THEN current + 1 ELSE current)

\* SKIP -n: gotos() after a lower bound of 1.
SkipBack == MoveTo(Goto(current, recnos, Larger(current - 1, 1)))

\* get_field() moves a pointer of 0 to record 1 before it reads.
GetField == MoveTo(IF current = 0 THEN 1 ELSE current)

-----------------------------------------------------------------------------
(* Writing in a record *)

\* fputc of the cells s from position pos of the file on.
WriteFile(pos, s) ==
    /\ body' = BodyAfter(body, header, pos, s)
    /\ layoutOK' = (layoutOK /\ ~Touches(LayoutBytes, header, pos, s))
    /\ astray' = (astray \/ Touches(CountBytes, header, pos, s))
    /\ count' \in IF Touches(CountBytes, header, pos, s) THEN StrayCounts ELSE {count}

\* Mutant: the record position without the -1.
WriteInNextRecord(d, s) ==
    WriteFile(Position(header + current * RecLen + d), s)

\* A write of the cells s at distance d in the current record.  With a pointer
\* that is not positive it lands in front of the records.
WriteInRecord(d, s) ==
    WriteFile(Position(header + Offset(current) + d), s)

Write(d, s) ==
    /\ Idle
    /\ Careful => OnRecord
    /\ IF writable THEN WriteInRecord(d, s)
       ELSE UNCHANGED <<count, body, layoutOK, astray>>
    /\ UNCHANGED <<header, writable, area, work, history>>

Delete == Write(0, <<Star>>)
Recall == Write(0, <<Blank>>)
Replace(v) == Write(1, FieldCells(v))

-----------------------------------------------------------------------------
(* APPEND BLANK *)

Room == recnos < MaxRecs /\ Len(body) < (MaxRecs + 1) * RecLen

\* recnos is incremented before the file is opened: a file that cannot be
\* opened for writing leaves the area with one record too many.
AppendFails ==
    /\ Idle /\ Room
    /\ ~writable
    /\ recnos' = recnos + 1
    /\ UNCHANGED <<file, open, current, work, history>>

\* The four bytes of the count are buffered until fseek(0, SEEK_END) flushes
\* them and takes the end of the file as the position of the next write.
AppendCount ==
    /\ Idle /\ Room
    /\ writable
    /\ recnos' = recnos + 1
    /\ count' = recnos + 1
    /\ endpos' = Len(body)
    /\ pc' = "append"
    /\ UNCHANGED <<header, body, layoutOK, writable, astray, open, current,
                   saved, i, temp, kept, history>>

\* Mutant: the pointer stays on the old record.
AppendBlanksUnmoved ==
    /\ pc = "append"
    /\ body' = WriteAt(body, endpos, BlankRecord)
    /\ pc' = "idle" /\ endpos' = 0
    /\ UNCHANGED <<header, count, layoutOK, writable, astray, open, recnos, current,
                   saved, i, temp, kept, history>>

AppendBlanks ==
    /\ pc = "append"
    /\ body' = WriteAt(body, endpos, BlankRecord)
    /\ current' = recnos
    /\ pc' = "idle" /\ endpos' = 0
    /\ UNCHANGED <<header, count, layoutOK, writable, astray, open, recnos,
                   saved, i, temp, kept, history>>

-----------------------------------------------------------------------------
(* PACK (and ZAP, which wa_zap() makes the same command) *)

PackStart ==
    /\ Idle
    /\ saved' = current
    /\ current' = Goto(current, recnos, 1)
    /\ i' = 1 /\ temp' = << >> /\ kept' = 0
    /\ pc' = "pack"
    /\ UNCHANGED <<file, open, recnos, endpos, history>>

\* Mutant: the mark is read after skip() instead of before it.
PackRecordAfterSkip ==
    /\ pc = "pack" /\ i <= recnos
    /\ IF IsDeleted(body, IF current < recnos THEN current + 1 ELSE current)
       THEN UNCHANGED <<temp, kept>>
       ELSE temp' = temp \o RecordAt(body, i) /\ kept' = kept + 1
    /\ i' = i + 1
    /\ current' = IF current < recnos THEN current + 1 ELSE current
    /\ UNCHANGED <<file, open, recnos, pc, endpos, saved, history>>

\* One round of the copying loop, skip() included: the mark is read at the
\* area's pointer, the cells where a file handle stands that moves on by a record
\* in each round.
PackRecord ==
    /\ pc = "pack" /\ i <= recnos
    /\ IF IsDeleted(body, current)
       THEN UNCHANGED <<temp, kept>>
       ELSE temp' = temp \o RecordAt(body, i) /\ kept' = kept + 1
    /\ i' = i + 1
    /\ current' = IF current < recnos THEN current + 1 ELSE current
    /\ UNCHANGED <<file, open, recnos, pc, endpos, saved, history>>

\* Mutant: the area is not opened again, and keeps its count.
ReopenStale(n, rec) ==
    /\ current' = Goto(1, n, rec)
    /\ pc' = "idle" /\ i' = 0 /\ temp' = << >> /\ kept' = 0 /\ saved' = 0
    /\ UNCHANGED <<open, recnos, endpos, history>>

\* wa_pack() closes and opens the area again, returns to the record it was on
\* and, if EOF() holds there, goes to the bottom.  The area stays closed if
\* use() refuses its header.
Reopen(n, rec) ==
    LET back == Goto(1, n, rec)
    IN  /\ \/ /\ layoutOK
              /\ open' = TRUE /\ recnos' = n
              /\ current' = IF back >= n THEN Goto(back, n, n) ELSE back
           \/ /\ ~layoutOK
              /\ open' = FALSE /\ recnos' = 0 /\ current' = 0
        /\ pc' = "idle" /\ i' = 0 /\ temp' = << >> /\ kept' = 0 /\ saved' = 0
        /\ UNCHANGED <<endpos, history>>

\* Mutant: the count is one too small.
PackRenameOneLess ==
    /\ pc = "pack" /\ i > recnos
    /\ count' = kept - 1
    /\ body' = IF kept = 0 THEN BlankRecord ELSE temp
    /\ writable' = TRUE /\ astray' = FALSE
    /\ UNCHANGED <<header, layoutOK>>
    /\ Reopen(kept, saved)

\* Mutant: the temporary file keeps the old count.
PackRenameOldCount ==
    /\ pc = "pack" /\ i > recnos
    /\ count' = count
    /\ body' = IF kept = 0 THEN BlankRecord ELSE temp
    /\ writable' = TRUE /\ astray' = FALSE
    /\ UNCHANGED <<header, layoutOK>>
    /\ Reopen(count, saved)

\* Mutant: the records are moved up in the file, which is not shortened.
PackInPlace ==
    /\ pc = "pack" /\ i > recnos
    /\ count' = kept
    /\ body' = WriteAt(body, 0, temp)
    /\ UNCHANGED <<header, writable, layoutOK, astray>>
    /\ Reopen(kept, saved)

\* The count goes into the temporary file's header; a table with no record
\* left keeps one blank slot.  The temporary file, which is writable, then
\* takes the name of the table.  The rest of the header is copied as it is.
PackRename ==
    /\ pc = "pack" /\ i > recnos
    /\ count' = kept
    /\ body' = IF kept = 0 THEN BlankRecord ELSE temp
    /\ writable' = TRUE /\ astray' = FALSE
    /\ UNCHANGED <<header, layoutOK>>
    /\ Reopen(kept, saved)

\* pack() could not create its temporary file: wa_pack() does not look at its
\* answer and opens the unchanged table again.
PackFails ==
    /\ pc = "pack" /\ i = 1
    /\ UNCHANGED file
    /\ Reopen(count, saved)

-----------------------------------------------------------------------------
(* The interpreter dies: the area is gone, the file is what was written. *)

Crash ==
    /\ open /\ crashes < MaxCrashes
    /\ crashes' = crashes + 1
    /\ torn' = IF pc = "append" THEN torn + 1 ELSE torn
    /\ open' = FALSE /\ recnos' = 0 /\ current' = 0
    /\ pc' = "idle" /\ endpos' = 0 /\ saved' = 0 /\ i' = 0
    /\ temp' = << >> /\ kept' = 0
    /\ UNCHANGED file

Next ==
    \/ Use \/ Close
    \/ \E rec \in GoTargets : Go(rec)
    \/ GoTop \/ GoBottom \/ Skip \/ SkipBack \/ GetField
    \/ Delete \/ Recall \/ \E v \in Value : Replace(v)
    \/ AppendFails \/ AppendCount \/ AppendBlanks
    \/ PackStart \/ PackRecord \/ PackRename \/ PackFails
    \/ Crash

Spec == Init /\ [][Next]_vars

-----------------------------------------------------------------------------
(* Properties *)

\* The types of the file, the area and the command under way.  The counts PACK
\* and APPEND BLANK compute are natural numbers; the pointer may be negative.
TypeOK ==
    /\ count \in Nat /\ body \in Body
    /\ header \in HeaderLens
    /\ layoutOK \in BOOLEAN /\ writable \in BOOLEAN /\ astray \in BOOLEAN
    /\ open \in BOOLEAN /\ recnos \in Nat /\ current \in Int
    /\ pc \in {"idle", "append", "pack"}
    /\ endpos \in Nat /\ saved \in Int /\ i \in Nat
    /\ temp \in Body /\ kept \in Nat
    /\ crashes \in Nat /\ torn \in Nat

\* The header never promises more records than the file holds, but for one
\* record while an APPEND is between its two writes and one for every
\* interpreter that died there, until a write before the first record hits the
\* count; the next PACK then brings it back in step with the cells.
Backed ==
    ~astray => count * RecLen <= Len(body)
                                 + (torn + IF pc = "append" THEN 1 ELSE 0) * RecLen

\* The pointer is never beyond the last record, except that USE stands on
\* record 1 of a table without records.  gotos(), skip() and the return to the
\* saved record after PACK each keep it by a test of their own.
PointerInTable == open => current <= Larger(recnos, 1)

\* The area's count is the header's as long as the file can be written and no
\* write before the first record has hit the count: each of USE, APPEND BLANK and
\* the reopening in PACK moves both.
CountsAgree == open /\ writable /\ ~astray => recnos = count

\* PACK never loses, reorders or alters a record that is not marked, at any of
\* its steps and wherever the interpreter dies: until the rename the table is
\* the old one, after it the new one with the same unmarked records.
PackKeepsLive ==
    [][pc = "pack" /\ recnos = count
        => LiveRecords(body', count') = LiveRecords(body, count)]_vars

\* A record that is wholly in the file changes only by DELETE, RECALL or
\* REPLACE on that very record, and an APPEND, finished or torn, touches none;
\* only a write from the beginning of the file, for a pointer before the first
\* record, may run over the header, count included, into the records.
RecordsStable ==
    [][pc # "pack" =>
        \A r \in 1..count :
            Intact(body, r) /\ RecordAt(body', r) # RecordAt(body, r)
            => \/ r = current /\ pc # "append"
               \/ current < 1 /\ astray']_vars

\* PACK leaves a file whose cells are exactly the records it counts (or the one
\* blank slot of an empty table): it drops the trailer other programs leave
\* and repairs what a torn APPEND left behind.
PackRealigns ==
    [][pc = "pack" /\ body' # body => Len(body') = Larger(count', 1) * RecLen]_vars

\* "Add a blank record at the end of database" (appends.c:5): the record the
\* pointer is on after APPEND BLANK, the last, is blank and not deleted, if no
\* APPEND was torn before.
AppendYieldsBlank ==
    [][pc = "append" /\ open' /\ torn = 0
        => current' = count' /\ RecordAt(body', count') = BlankRecord]_vars
=============================================================================
