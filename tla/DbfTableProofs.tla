--------------------------- MODULE DbfTableProofs ---------------------------
(***************************************************************************)
(* Theorems about DbfTable, for every record length, every set of initial  *)
(* files and every bound.                                                  *)
(***************************************************************************)
EXTENDS DbfTableRefines, OperatorLemmas

\* The inductive invariant.  CountsAgree is what makes an APPEND extend the
\* header's count by one; a copy under way holds whole records, and the pointer
\* walks with the file handle; the pointer PACK returns to was a pointer in the
\* table.  A program that writes only in records never hits the header.
IInv ==
    /\ TypeOK
    /\ Backed
    /\ PointerInTable
    /\ CountsAgree
    /\ ~open => pc = "idle"
    /\ pc = "append" => writable /\ endpos = Len(body) /\ count >= 1
    /\ pc = "pack" => /\ i \in 1..(recnos + 1)
                      /\ kept \in 0..(i - 1)
                      /\ Len(temp) = kept * RecLen
                      /\ saved <= Larger(recnos, 1)
                      /\ i <= recnos => current = i
    /\ Careful => ~astray

\* gotos() never takes the pointer beyond the last record.
LEMMA GotoInTable ==
  ASSUME NEW cur \in Int, NEW n \in Nat, NEW rec \in Int,
         cur <= Larger(n, 1)
  PROVE  Goto(cur, n, rec) \in Int /\ Goto(cur, n, rec) <= Larger(n, 1)
BY DEF Goto, Larger

\* Backed, when no APPEND is under way.
LEMMA BackedInIdle ==
  ASSUME TypeOK, Backed, pc = "idle", ~astray
  PROVE  count * RecLen <= Len(body) + torn * RecLen
BY RecLenAssumption DEF TypeOK, Backed, Body

\* A file is backed when it is found, and the area is closed.
LEMMA InitIInv == Init => IInv
<1> SUFFICES ASSUME Init PROVE IInv
  OBVIOUS
<1>1. PICK f \in InitFiles : count = f.count /\ body = f.body
  BY DEF Init
<1>2. count \in Nat /\ body \in Body /\ count * RecLen <= Len(body)
  BY <1>1, InitFilesAssumption
<1>3. TypeOK
  <2>1. /\ writable \in BOOLEAN /\ layoutOK \in BOOLEAN /\ astray \in BOOLEAN
        /\ open \in BOOLEAN
    BY InitWritableAssumption DEF Init
  <2> QED
    BY <1>2, <2>1, EmptyBody DEF Init, TypeOK
<1>4. Backed
  BY <1>2, NoRecords DEF Init, Backed, Body
<1> QED
  BY <1>3, <1>4 DEF Init, IInv, PointerInTable, CountsAgree

\* A command that only moves the pointer, to a place in the table.
LEMMA MoveIInv ==
  ASSUME IInv, NEW rec, rec \in Int, MoveTo(rec), rec <= Larger(recnos, 1)
  PROVE  IInv'
BY DEF IInv, MoveTo, Idle, TypeOK, Backed, PointerInTable, CountsAgree,
       file, work, history

\* A write from the current record on leaves the header alone.
LEMMA WriteBehindHeader ==
  ASSUME TypeOK, NEW d \in Nat, NEW s \in Body, WriteInRecord(d, s), current >= 1
  PROVE  /\ body' = WriteAt(body, Offset(current) + d, s)
         /\ Offset(current) + d \in Nat
         /\ UNCHANGED <<count, layoutOK, astray>>
<1> DEFINE pos == header + Offset(current) + d
<1>1. Offset(current) \in Nat /\ current \in Int
  BY OffsetType DEF TypeOK
<1>2. header \in Nat /\ CountBytes \subseteq 0..(header - 1)
  BY HeaderAssumption DEF TypeOK
<1>3. Position(pos) = pos /\ pos \in Nat /\ pos >= header /\ pos - header = Offset(current) + d
  BY <1>1, <1>2 DEF Position, Larger
<1> HIDE DEF pos
<1>4. WriteFile(pos, s)
  BY <1>3 DEF WriteInRecord, pos
<1>5. ~Touches(CountBytes, header, pos, s) /\ ~Touches(LayoutBytes, header, pos, s)
  BY <1>2, <1>3, BytesAssumption DEF Touches
<1>6. body' = WriteAt(body, Offset(current) + d, s)
  BY <1>3, <1>4 DEF WriteFile, BodyAfter
<1>7. count' = count
  BY <1>4, <1>5 DEF WriteFile
<1>8. layoutOK' = layoutOK /\ astray' = astray
  BY <1>4, <1>5, Zenon DEF WriteFile, TypeOK
<1> QED
  BY <1>1, <1>6, <1>7, <1>8

\* A write at any pointer keeps the types, and the count unless it hit it.
LEMMA WriteAnywhere ==
  ASSUME TypeOK, NEW d \in Nat, NEW s \in Body, WriteInRecord(d, s)
  PROVE  /\ body' \in Body /\ Len(body') >= Len(body)
         /\ count' \in Nat /\ layoutOK' \in BOOLEAN /\ astray' \in BOOLEAN
         /\ ~astray' => count' = count /\ ~astray
<1> DEFINE pos == Position(header + Offset(current) + d)
<1>1. header \in Nat /\ pos \in Nat
  BY HeaderAssumption, RecLenAssumption DEF TypeOK, Position, Offset, Larger
<1> HIDE DEF pos
<1>2. WriteFile(pos, s)
  BY DEF WriteInRecord, pos
<1>3. body' \in Body /\ Len(body') >= Len(body)
  BY <1>1, <1>2, BodyAfterType, BodyLen DEF WriteFile, TypeOK
<1>4. layoutOK' \in BOOLEAN /\ astray' \in BOOLEAN
  BY <1>2, Zenon DEF WriteFile, TypeOK
<1>5. count' \in Nat
  BY <1>2, BytesAssumption DEF WriteFile, TypeOK
<1>6. ~astray' => count' = count /\ ~astray
  BY <1>2, <1>4 DEF WriteFile, TypeOK
<1> QED
  BY <1>3, <1>4, <1>5, <1>6

\* DELETE, RECALL and REPLACE can only lengthen the body; they are seen in the
\* count only if they hit it.
LEMMA WriteIInv ==
  ASSUME IInv, NEW d \in Nat, NEW s \in Body, Write(d, s)
  PROVE  IInv'
<1> USE DEF IInv
<1>1. pc = "idle" /\ open /\ pc' = pc
  BY DEF Write, Idle, work
<1>2. /\ body' \in Body /\ Len(body') >= Len(body)
      /\ count' \in Nat /\ layoutOK' \in BOOLEAN /\ astray' \in BOOLEAN
      /\ ~astray' => count' = count /\ ~astray
  <2>1. CASE writable
    BY <2>1, WriteAnywhere DEF Write
  <2>2. CASE ~writable
    <3>1. UNCHANGED <<count, body, layoutOK, astray>>
      BY <2>2 DEF Write
    <3>2. layoutOK' \in BOOLEAN /\ astray' \in BOOLEAN
      BY <3>1, Zenon DEF TypeOK
    <3> QED
      BY <3>1, <3>2, BodyLen DEF TypeOK
  <2> QED
    BY <2>1, <2>2
<1>3. TypeOK'
  BY <1>2 DEF TypeOK, Write, area, work, history
<1>4. Backed'
  <2> SUFFICES ASSUME ~astray' PROVE Backed'
    BY DEF Backed
  <2>1. count * RecLen \in Int /\ torn * RecLen \in Int
    BY RecLenAssumption DEF TypeOK
  <2>2. Len(body) \in Nat /\ Len(body') \in Nat
    BY <1>2, BodyLen DEF TypeOK
  <2>3. count' * RecLen <= Len(body') + torn * RecLen
    BY <1>1, <1>2, <2>1, <2>2, BackedInIdle
  <2> QED
    BY <1>1, <2>3 DEF Backed, Write, area, work, history, TypeOK
<1>5. Careful => ~astray'
  <2> SUFFICES ASSUME Careful PROVE ~astray'
    OBVIOUS
  <2>1. ~astray /\ current >= 1
    BY DEF Write, OnRecord
  <2> QED
    BY <2>1, WriteBehindHeader DEF Write
<1> QED
  BY <1>1, <1>2, <1>3, <1>4, <1>5
  DEF Write, PointerInTable, CountsAgree, area, work, history

\* The first write of APPEND BLANK promises one record more.
LEMMA AppendCountIInv == IInv /\ AppendCount => IInv'
<1> SUFFICES ASSUME IInv, AppendCount PROVE IInv'
  OBVIOUS
<1> USE DEF IInv
<1>1. /\ pc = "idle" /\ open /\ astray' = astray
      /\ ~astray => recnos = count
  BY DEF AppendCount, Idle, CountsAgree
<1>2. TypeOK'
  BY DEF AppendCount, TypeOK, Body, history
<1>3. Backed'
  <2> SUFFICES ASSUME ~astray, recnos = count PROVE Backed'
    BY <1>1 DEF Backed
  <2>1. (count + 1) * RecLen = count * RecLen + RecLen
    BY NextRecord DEF TypeOK
  <2>2. (torn + 1) * RecLen = torn * RecLen + RecLen
    BY NextRecord DEF TypeOK
  <2>3. count * RecLen <= Len(body) + torn * RecLen
    BY <1>1, BackedInIdle
  <2>4. Len(body) \in Nat /\ count * RecLen \in Int /\ torn * RecLen \in Int
    BY RecLenAssumption, BodyLen DEF TypeOK
  <2>5. (count + 1) * RecLen <= Len(body) + (torn + 1) * RecLen
    BY <2>1, <2>2, <2>3, <2>4, RecLenAssumption
  <2>6. count' = count + 1 /\ body' = body /\ torn' = torn /\ pc' = "append"
    BY <1>1 DEF AppendCount, history
  <2> QED
    BY <2>5, <2>6 DEF Backed
<1>4. PointerInTable' /\ CountsAgree'
  BY <1>1 DEF AppendCount, PointerInTable, CountsAgree, Larger, TypeOK
<1>5. count' >= 1
  BY DEF AppendCount, TypeOK
<1> QED
  BY <1>1, <1>2, <1>3, <1>4, <1>5 DEF AppendCount

\* The second write of APPEND BLANK keeps the promise.
LEMMA AppendBlanksIInv == IInv /\ AppendBlanks => IInv'
<1> SUFFICES ASSUME IInv, AppendBlanks PROVE IInv'
  OBVIOUS
<1> USE DEF IInv
<1>1. pc = "append" /\ pc' = "idle" /\ open /\ open' = open
  BY DEF AppendBlanks
<1>2. body' \in Body /\ Len(body') = Len(body) + RecLen
  <2>1. body' = WriteAt(body, Len(body), BlankRecord)
    BY DEF AppendBlanks
  <2> QED
    BY <2>1, BlankRecordType, WriteAtType, RecLenAssumption
    DEF Larger, TypeOK, Body
<1>3. TypeOK'
  BY <1>2 DEF AppendBlanks, TypeOK, history
<1>4. Backed'
  <2> SUFFICES ASSUME ~astray PROVE Backed'
    BY DEF Backed, AppendBlanks
  <2>1. count * RecLen <= Len(body) + (torn + 1) * RecLen
    BY <1>1 DEF Backed
  <2>2. (torn + 1) * RecLen = torn * RecLen + RecLen
    BY NextRecord DEF TypeOK
  <2>3. (torn + 0) * RecLen = torn * RecLen
    BY DEF TypeOK
  <2>4. Len(body) \in Nat /\ count * RecLen \in Int /\ torn * RecLen \in Int
    BY RecLenAssumption, BodyLen DEF TypeOK
  <2>5. count * RecLen <= Len(body') + torn * RecLen
    BY <1>2, <2>1, <2>2, <2>4, RecLenAssumption
  <2> QED
    BY <1>1, <2>3, <2>5 DEF Backed, AppendBlanks, history
<1>5. PointerInTable' /\ CountsAgree'
  BY DEF AppendBlanks, PointerInTable, CountsAgree, Larger, TypeOK
<1> QED
  BY <1>1, <1>3, <1>4, <1>5 DEF AppendBlanks

\* PACK starts with nothing copied.
LEMMA PackStartIInv == IInv /\ PackStart => IInv'
<1> SUFFICES ASSUME IInv, PackStart PROVE IInv'
  OBVIOUS
<1> USE DEF IInv
<1>1. pc = "idle" /\ open /\ pc' = "pack" /\ open' = open
  BY DEF PackStart, Idle
<1>2. current' \in Int /\ current' <= Larger(recnos, 1)
  BY <1>1, GotoInTable DEF PackStart, TypeOK, PointerInTable
<1>3. TypeOK'
  BY <1>2 DEF PackStart, TypeOK, Body, file, history
<1>4. Backed'
  BY <1>1 DEF PackStart, Backed, file, history
<1>5. Len(temp') = kept' * RecLen
  BY NoRecords DEF PackStart
<1>6. i' <= recnos => current' = i'
  BY DEF PackStart, Goto, TypeOK
<1> QED
  BY <1>1, <1>2, <1>3, <1>4, <1>5, <1>6
  DEF PackStart, PointerInTable, CountsAgree, file, TypeOK

\* A round of PACK copies one whole record or none.
LEMMA PackRecordIInv == IInv /\ PackRecord => IInv'
<1> SUFFICES ASSUME IInv, PackRecord PROVE IInv'
  OBVIOUS
<1> USE DEF IInv
<1>1. pc = "pack" /\ pc' = "pack" /\ open /\ open' = open
  BY DEF PackRecord
<1>2. /\ temp' \in Body /\ kept' \in 0..i
      /\ Len(temp') = kept' * RecLen
  <2>1. CASE IsDeleted(body, current)
    BY <1>1, <2>1 DEF PackRecord, TypeOK
  <2>2. CASE ~IsDeleted(body, current)
    <3>1. temp' = temp \o RecordAt(body, i) /\ kept' = kept + 1
      BY <2>2 DEF PackRecord
    <3>2. RecordAt(body, i) \in Body /\ Len(RecordAt(body, i)) = RecLen
      BY RecordAtType DEF TypeOK
    <3>3. temp' \in Body /\ Len(temp') = Len(temp) + RecLen
      BY <3>1, <3>2, ConcatBody DEF TypeOK
    <3>4. (kept + 1) * RecLen = kept * RecLen + RecLen
      BY NextRecord DEF TypeOK
    <3> QED
      BY <1>1, <3>1, <3>3, <3>4 DEF TypeOK
  <2> QED
    BY <2>1, <2>2
<1>3. current' \in Int /\ current' <= Larger(recnos, 1)
  BY <1>1 DEF PackRecord, TypeOK, PointerInTable, Larger
<1>4. TypeOK'
  BY <1>2, <1>3 DEF PackRecord, TypeOK, file, history
<1>5. Backed'
  BY <1>1 DEF PackRecord, Backed, file, history
<1>6. i' <= recnos => current' = i'
  BY <1>1 DEF PackRecord, TypeOK
<1> QED
  BY <1>1, <1>2, <1>3, <1>4, <1>5, <1>6
  DEF PackRecord, PointerInTable, CountsAgree, file, TypeOK

\* The reopened area is in the table whatever the number of records is.
LEMMA ReopenIInv ==
  ASSUME TypeOK, NEW n \in Nat, NEW rec \in Int, Reopen(n, rec),
         count' = n
  PROVE  /\ open' \in BOOLEAN /\ recnos' \in Nat /\ current' \in Int
         /\ pc' = "idle" /\ i' \in Nat /\ temp' \in Body /\ kept' \in Nat
         /\ endpos' \in Nat /\ saved' \in Int
         /\ crashes' \in Nat /\ torn' \in Nat /\ torn' = torn
         /\ PointerInTable' /\ CountsAgree'
<1>1. Goto(1, n, rec) \in Int /\ Goto(1, n, rec) <= Larger(n, 1)
  BY GotoInTable DEF Larger
<1>2. /\ Goto(Goto(1, n, rec), n, n) \in Int
      /\ Goto(Goto(1, n, rec), n, n) <= Larger(n, 1)
  BY <1>1, GotoInTable
<1>3. /\ pc' = "idle" /\ i' \in Nat /\ temp' \in Body /\ kept' \in Nat
      /\ endpos' \in Nat /\ saved' \in Int
      /\ crashes' \in Nat /\ torn' \in Nat /\ torn' = torn
  BY EmptyBody DEF Reopen, TypeOK, history
<1>4. CASE /\ open' = TRUE /\ recnos' = n
           /\ current' = IF Goto(1, n, rec) >= n THEN Goto(Goto(1, n, rec), n, n)
                         ELSE Goto(1, n, rec)
  <2>1. open' \in BOOLEAN
    BY <1>4, Zenon
  <2>2. recnos' \in Nat /\ current' \in Int /\ current' <= Larger(recnos', 1)
    BY <1>1, <1>2, <1>4
  <2> QED
    BY <1>3, <1>4, <2>1, <2>2 DEF PointerInTable, CountsAgree
<1>5. CASE open' = FALSE /\ recnos' = 0 /\ current' = 0
  <2>1. open' \in BOOLEAN
    BY <1>5, Zenon
  <2> QED
    BY <1>3, <1>5, <2>1 DEF PointerInTable, CountsAgree
<1> QED
  BY <1>4, <1>5, Zenon DEF Reopen

\* What PACK renames is backed by the records it copied.
LEMMA PackRenameIInv == IInv /\ PackRename => IInv'
<1> SUFFICES ASSUME IInv, PackRename PROVE IInv'
  OBVIOUS
<1> USE DEF IInv
<1>1. pc = "pack" /\ count' = kept /\ kept \in Nat /\ saved \in Int
  BY DEF PackRename, TypeOK
<1>2. /\ PointerInTable' /\ CountsAgree' /\ pc' = "idle" /\ torn' = torn
      /\ open' \in BOOLEAN /\ recnos' \in Nat /\ current' \in Int
      /\ i' \in Nat /\ temp' \in Body /\ kept' \in Nat
      /\ endpos' \in Nat /\ saved' \in Int /\ crashes' \in Nat
  BY <1>1, ReopenIInv DEF PackRename
<1>3. body' \in Body /\ kept * RecLen <= Len(body')
  <2>1. CASE kept = 0
    BY <2>1, BlankRecordType, NoRecords, RecLenAssumption DEF PackRename
  <2>2. CASE kept # 0
    BY <1>1, <2>2, NextRecord DEF PackRename, TypeOK
  <2> QED
    BY <2>1, <2>2
<1>4. TypeOK'
  <2>1. layoutOK' \in BOOLEAN /\ writable' \in BOOLEAN /\ astray' \in BOOLEAN
    BY Zenon DEF PackRename, TypeOK
  <2> QED
    BY <1>1, <1>2, <1>3, <2>1 DEF PackRename, TypeOK
<1>5. Backed'
  <2>1. torn * RecLen \in Nat /\ (torn + 0) * RecLen = torn * RecLen
    BY RecLenAssumption DEF TypeOK
  <2>2. kept * RecLen \in Int /\ Len(body') \in Nat
    BY <1>1, <1>3, NextRecord DEF Body
  <2>3. kept * RecLen <= Len(body') + torn * RecLen
    BY <1>3, <2>1, <2>2
  <2> QED
    BY <1>1, <1>2, <2>1, <2>3 DEF Backed
<1> QED
  BY <1>2, <1>4, <1>5 DEF PackRename, Reopen

\* A PACK that fails reopens the table it found.
LEMMA PackFailsIInv == IInv /\ PackFails => IInv'
<1> SUFFICES ASSUME IInv, PackFails PROVE IInv'
  OBVIOUS
<1> USE DEF IInv
<1>1. pc = "pack" /\ count' = count /\ count \in Nat /\ saved \in Int
  BY DEF PackFails, TypeOK, file
<1>2. /\ PointerInTable' /\ CountsAgree' /\ pc' = "idle" /\ torn' = torn
      /\ open' \in BOOLEAN /\ recnos' \in Nat /\ current' \in Int
      /\ i' \in Nat /\ temp' \in Body /\ kept' \in Nat
      /\ endpos' \in Nat /\ saved' \in Int /\ crashes' \in Nat
  BY <1>1, ReopenIInv DEF PackFails
<1>3. TypeOK'
  <2>1. layoutOK' \in BOOLEAN /\ writable' \in BOOLEAN /\ astray' \in BOOLEAN
    BY Zenon DEF PackFails, TypeOK, file
  <2> QED
    BY <1>2, <2>1 DEF PackFails, TypeOK, file
<1>4. Backed'
  BY <1>1, <1>2 DEF Backed, PackFails, file
<1> QED
  BY <1>2, <1>3, <1>4 DEF PackFails, file

\* A death between the two writes of an APPEND is counted in torn.
LEMMA CrashIInv == IInv /\ Crash => IInv'
<1> SUFFICES ASSUME IInv, Crash PROVE IInv'
  OBVIOUS
<1> USE DEF IInv
<1>1. TypeOK'
  <2>1. /\ layoutOK' \in BOOLEAN /\ writable' \in BOOLEAN /\ astray' \in BOOLEAN
        /\ open' \in BOOLEAN /\ pc' \in {"idle", "append", "pack"}
    BY Zenon DEF Crash, TypeOK, file
  <2>2. /\ count' \in Nat /\ body' \in Body /\ recnos' \in Nat /\ header' \in HeaderLens
        /\ current' \in Int /\ endpos' \in Nat /\ saved' \in Int
        /\ i' \in Nat /\ temp' \in Body /\ kept' \in Nat
        /\ crashes' \in Nat /\ torn' \in Nat
    BY EmptyBody DEF Crash, TypeOK, file
  <2> QED
    BY <2>1, <2>2 DEF TypeOK
<1>2. Backed'
  <2>1. (torn + 0) * RecLen = torn * RecLen /\ (torn + 1) + 0 = torn + 1
    BY DEF TypeOK
  <2>2. CASE pc = "append"
    BY <2>1, <2>2 DEF Crash, Backed, file
  <2>3. CASE pc # "append"
    BY <2>1, <2>3 DEF Crash, Backed, file
  <2> QED
    BY <2>2, <2>3
<1> QED
  BY <1>1, <1>2 DEF Crash, PointerInTable, CountsAgree, file

\* Every step keeps the invariant: one case per action.
LEMMA NextIInv == IInv /\ [Next]_vars => IInv'
<1> SUFFICES ASSUME IInv, [Next]_vars PROVE IInv'
  OBVIOUS
<1> USE DEF IInv
<1>1. CASE Use
  <2>1. CASE layoutOK
    BY <1>1, <2>1 DEF Use, TypeOK, Backed, PointerInTable, CountsAgree, Larger,
                      file, work, history
  <2>2. CASE ~layoutOK
    BY <1>1, <2>2 DEF Use, TypeOK, Backed, PointerInTable, CountsAgree,
                      file, area, work, history
  <2> QED
    BY <2>1, <2>2
<1>2. CASE Close
  <2>1. TypeOK'
    <3>1. /\ open' \in BOOLEAN /\ layoutOK' \in BOOLEAN /\ writable' \in BOOLEAN
          /\ astray' \in BOOLEAN
      BY <1>2, Zenon DEF Close, TypeOK, file
    <3> QED
      BY <1>2, <3>1 DEF Close, TypeOK, file, work, history
  <2>2. Backed'
    BY <1>2 DEF Close, Backed, file, work, history
  <2> QED
    BY <1>2, <2>1, <2>2 DEF Close, Idle, PointerInTable, CountsAgree, work, file
<1>3. ASSUME Idle
      PROVE  current \in Int /\ recnos \in Nat /\ current <= Larger(recnos, 1)
  BY <1>3 DEF Idle, TypeOK, PointerInTable
<1>4. ASSUME NEW rec \in Int, Go(rec) PROVE IInv'
  BY <1>3, <1>4, GotoInTable, MoveIInv DEF Go, MoveTo
<1>5. CASE \E rec \in GoTargets : Go(rec)
  BY <1>4, <1>5, GoTargetsAssumption
<1>6. CASE GoTop
  BY <1>4, <1>6 DEF GoTop
<1>7. CASE GoBottom
  BY <1>4, <1>7 DEF GoBottom, TypeOK
<1>8. CASE Skip
  <2> DEFINE rec == IF current < recnos THEN current + 1 ELSE current
  <2>1. MoveTo(rec) /\ Idle
    BY <1>8 DEF Skip, MoveTo
  <2>2. rec \in Int /\ rec <= Larger(recnos, 1)
    BY <1>3, <2>1 DEF Larger
  <2> QED
    BY <2>1, <2>2, MoveIInv
<1>9. CASE SkipBack
  <2> DEFINE rec == Goto(current, recnos, Larger(current - 1, 1))
  <2>1. MoveTo(rec) /\ Idle
    BY <1>9 DEF SkipBack, MoveTo
  <2>2. Larger(current - 1, 1) \in Int
    BY <1>3, <2>1 DEF Larger
  <2>3. rec \in Int /\ rec <= Larger(recnos, 1)
    BY <1>3, <2>1, <2>2, GotoInTable
  <2> QED
    BY <2>1, <2>3, MoveIInv
<1>10. CASE GetField
  <2> DEFINE rec == IF current = 0 THEN 1 ELSE current
  <2>1. MoveTo(rec) /\ Idle
    BY <1>10 DEF GetField, MoveTo
  <2>2. rec \in Int /\ rec <= Larger(recnos, 1)
    BY <1>3, <2>1 DEF Larger
  <2> QED
    BY <2>1, <2>2, MoveIInv
<1>11. CASE Delete \/ Recall
  <2>1. <<Star>> \in Body /\ <<Blank>> \in Body
    BY CellTypes DEF Body
  <2> QED
    BY <1>11, <2>1, WriteIInv DEF Delete, Recall
<1>12. CASE \E v \in Value : Replace(v)
  BY <1>12, FieldCellsType, WriteIInv DEF Replace
<1>13. CASE AppendFails
  BY <1>13 DEF AppendFails, Idle, TypeOK, Backed, PointerInTable, CountsAgree,
               Larger, file, work, history
<1>14. CASE UNCHANGED vars
  BY <1>14 DEF vars, file, area, work, history, TypeOK, Backed, PointerInTable,
               CountsAgree
<1> QED
  BY <1>1, <1>2, <1>5, <1>6, <1>7, <1>8, <1>9, <1>10, <1>11, <1>12, <1>13,
     <1>14, AppendCountIInv, AppendBlanksIInv, PackStartIInv, PackRecordIInv,
     PackRenameIInv, PackFailsIInv, CrashIInv
  DEF Next

-----------------------------------------------------------------------------
(* The invariants *)

\* IInv holds in every reachable state.
THEOREM Invariance == Spec => []IInv
BY InitIInv, NextIInv, PTL DEF Spec

\* Every variable keeps its type, whatever the initial files are.
THEOREM TypeCorrect == Spec => []TypeOK
<1>1. IInv => TypeOK
  BY DEF IInv
<1> QED
  BY <1>1, Invariance, PTL

\* The header's count is backed by cells of the file, but for the APPENDs that
\* are under way or were torn: appends.c, recs.c and deletes.c together.
THEOREM HeaderBacked == Spec => []Backed
<1>1. IInv => Backed
  BY DEF IInv
<1> QED
  BY <1>1, Invariance, PTL

\* No command leaves the record pointer beyond the last record.
THEOREM PointerStaysInTable == Spec => []PointerInTable
<1>1. IInv => PointerInTable
  BY DEF IInv
<1> QED
  BY <1>1, Invariance, PTL

\* The area's count is the header's as long as the file can be written.
THEOREM CountsStayEqual == Spec => []CountsAgree
<1>1. IInv => CountsAgree
  BY DEF IInv
<1> QED
  BY <1>1, Invariance, PTL

-----------------------------------------------------------------------------
(* What a step may do to the body *)

\* DELETE, RECALL and REPLACE: a write that ends with the record.
WriteIn(d, s) == Len(s) >= 1 /\ d + Len(s) <= RecLen /\ Write(d, s)

\* DELETE, RECALL and REPLACE are writes inside one record.
LEMMA WritesAreIn ==
  ASSUME Delete \/ Recall \/ \E v \in Value : Replace(v)
  PROVE  \E d \in Nat, s \in Body : WriteIn(d, s)
<1>1. CASE Delete
  <2>1. <<Star>> \in Body /\ Len(<<Star>>) >= 1 /\ 0 + Len(<<Star>>) <= RecLen
    BY CellTypes, RecLenAssumption DEF Body
  <2>2. WriteIn(0, <<Star>>)
    BY <1>1, <2>1, Zenon DEF Delete, WriteIn
  <2> QED
    BY <2>1, <2>2
<1>2. CASE Recall
  <2>1. <<Blank>> \in Body /\ Len(<<Blank>>) >= 1 /\ 0 + Len(<<Blank>>) <= RecLen
    BY CellTypes, RecLenAssumption DEF Body
  <2>2. WriteIn(0, <<Blank>>)
    BY <1>2, <2>1, Zenon DEF Recall, WriteIn
  <2> QED
    BY <2>1, <2>2
<1>3. CASE \E v \in Value : Replace(v)
  <2>1. PICK v \in Value : Replace(v)
    BY <1>3
  <2>2. /\ FieldCells(v) \in Body /\ Len(FieldCells(v)) >= 1
        /\ 1 + Len(FieldCells(v)) <= RecLen
    BY FieldCellsType, RecLenAssumption
  <2> QED
    BY <2>1, <2>2 DEF Replace, WriteIn
<1> QED
  BY <1>1, <1>2, <1>3

\* Three kinds of steps change the cells of the file.
LEMMA BodyChanges ==
  ASSUME [Next]_vars, body' # body
  PROVE  \/ \E d \in Nat, s \in Body : WriteIn(d, s)
         \/ AppendBlanks
         \/ PackRename
<1>1. CASE Use \/ Close \/ AppendFails \/ AppendCount
  BY <1>1 DEF Use, Close, AppendFails, AppendCount, file
<1>2. CASE PackStart \/ PackRecord \/ PackFails \/ Crash
  BY <1>2 DEF PackStart, PackRecord, PackFails, Crash, file
<1>3. CASE \/ \E rec \in GoTargets : Go(rec)
           \/ GoTop \/ GoBottom \/ Skip \/ SkipBack \/ GetField
  BY <1>3 DEF Go, GoTop, GoBottom, Skip, SkipBack, GetField, MoveTo, file
<1>4. CASE UNCHANGED vars
  BY <1>4 DEF vars, file
<1> QED
  BY <1>1, <1>2, <1>3, <1>4, WritesAreIn DEF Next

\* A write whose range meets none of an intact record's cells keeps it.
LEMMA RecordKept ==
  ASSUME NEW b \in Body, NEW off \in Nat, NEW s \in Body,
         NEW r \in Int, Intact(b, r),
         \A j \in 1..RecLen : \/ Offset(r) + j <= off
                              \/ off + Len(s) < Offset(r) + j
  PROVE  RecordAt(WriteAt(b, off, s), r) = RecordAt(b, r)
<1>1. ASSUME NEW j \in 1..RecLen
      PROVE  CellAt(WriteAt(b, off, s), Offset(r) + j)
             = CellAt(b, Offset(r) + j)
  BY <1>1, IntactCells, WriteAtFrame
<1> QED
  BY <1>1 DEF RecordAt

\* A write in front of the records that does not stay in the header began with
\* the first byte of the file, and went over the count.
LEMMA WriteBeforeRecords ==
  ASSUME TypeOK, NEW d \in Nat, NEW s \in Body, WriteIn(d, s), writable, current < 1
  PROVE  body' = body \/ astray'
<1> DEFINE off == header + Offset(current) + d
           pos == Position(off)
<1>1. header \in Nat /\ CountBytes # {} /\ CountBytes \subseteq 0..(header - 1)
  BY HeaderAssumption, BytesAssumption DEF TypeOK
<1>2. Offset(current) <= -RecLen /\ Offset(current) \in Int /\ RecLen \in Nat
  <2>1. current \in Int /\ current - 1 <= -1
    BY DEF TypeOK
  <2>2. (current - 1) * RecLen <= (-1) * RecLen
    BY <2>1, RecordsMonotone
  <2> QED
    BY <2>1, <2>2, NextRecord, NoRecords, RecLenAssumption DEF Offset
<1>3. Len(s) \in Nat /\ Len(s) >= 1 /\ d + Len(s) <= RecLen
  BY BodyLen DEF WriteIn
<1>4. off \in Int /\ off + Len(s) <= header
  BY <1>1, <1>2, <1>3
<1> HIDE DEF off
<1>5. pos \in Nat /\ (pos = off \/ (pos = 0 /\ off < 0))
  BY <1>4 DEF Position, Larger
<1> HIDE DEF pos
<1>6. WriteFile(pos, s)
  BY DEF WriteIn, Write, WriteInRecord, pos, off
<1>7. CASE pos + Len(s) <= header
  <2>1. pos < header
    BY <1>1, <1>3, <1>5, <1>7
  <2> QED
    BY <1>1, <1>5, <1>6, <1>7, <2>1, BodyAfterHeader DEF WriteFile, TypeOK
<1>8. CASE pos + Len(s) > header
  <2>1. pos = 0
    BY <1>1, <1>3, <1>4, <1>5, <1>8
  <2>2. PICK k \in CountBytes : k \in 0..(header - 1)
    BY <1>1
  <2>3. k < header /\ pos <= k /\ k < pos + Len(s)
    BY <1>1, <1>3, <1>8, <2>1, <2>2
  <2>4. Touches(CountBytes, header, pos, s)
    BY <2>3, Zenon DEF Touches
  <2> QED
    BY <1>6, <2>4 DEF WriteFile
<1> QED
  BY <1>1, <1>3, <1>5, <1>7, <1>8

\* RecordsStable, for one step.
LEMMA StepKeepsRecords ==
  ASSUME IInv, [Next]_vars, pc # "pack",
         NEW r \in 1..count, Intact(body, r), r # current \/ pc = "append",
         ~(current < 1 /\ astray')
  PROVE  RecordAt(body', r) = RecordAt(body, r)
<1> USE DEF IInv
<1>1. CASE body' = body
  BY <1>1
<1>2. CASE \E d \in Nat, s \in Body : WriteIn(d, s)
  <2>1. PICK d \in Nat, s \in Body : WriteIn(d, s)
    BY <1>2
  <2>2. pc = "idle" /\ r # current
    BY <2>1 DEF WriteIn, Write, Idle
  <2>3. CASE writable /\ current >= 1
    <3>0. body' = WriteAt(body, Offset(current) + d, s)
      BY <2>1, <2>3, WriteBehindHeader DEF WriteIn, Write
    <3>1. current \in Int /\ r \in Int /\ body \in Body
      BY DEF TypeOK
    <3>2. Offset(current) + d \in Nat /\ Offset(current) \in Int
      BY <2>3, <3>1, RecLenAssumption DEF Offset
    <3>3. d + Len(s) <= RecLen /\ Len(s) \in Nat
      BY <2>1, BodyLen DEF WriteIn
    <3>4. ASSUME NEW j \in 1..RecLen
          PROVE  \/ Offset(r) + j <= Offset(current) + d
                 \/ Offset(current) + d + Len(s) < Offset(r) + j
      <4>1. Offset(r) \in Int
        BY <3>1, RecLenAssumption DEF Offset
      <4>2. \/ Offset(r) + j <= Offset(current)
            \/ Offset(current) + RecLen < Offset(r) + j
        BY <2>2, <3>1, <3>4, RecordCells
      <4> QED
        BY <3>2, <3>3, <4>1, <4>2, RecLenAssumption
    <3> QED
      BY <3>0, <3>1, <3>2, <3>4, RecordKept
  <2>4. CASE writable /\ ~(current >= 1)
    <3>1. current < 1
      BY <2>4 DEF TypeOK
    <3>2. body' = body
      BY <2>1, <2>4, <3>1, WriteBeforeRecords
    <3> QED
      BY <3>2
  <2>5. CASE ~writable
    BY <2>1, <2>5 DEF WriteIn, Write
  <2> QED
    BY <2>3, <2>4, <2>5
<1>3. CASE AppendBlanks
  <2>1. body' = WriteAt(body, Len(body), BlankRecord)
    BY <1>3 DEF AppendBlanks
  <2>2. Len(body) \in Nat /\ body \in Body /\ BlankRecord \in Body
    BY BodyLen, BlankRecordType DEF TypeOK
  <2>3. \A j \in 1..RecLen : Offset(r) + j <= Len(body)
    BY <2>2, IntactCells
  <2> QED
    BY <2>1, <2>2, <2>3, RecordKept
<1> QED
  BY <1>1, <1>2, <1>3, BodyChanges DEF PackRename

\* DELETE, RECALL and REPLACE change the record they are on and no other, unless
\* the pointer is before the first record and the write overwrote the header,
\* count included; an APPEND, finished or torn, changes none that is wholly in
\* the file.
THEOREM RecordsStayStable == Spec => RecordsStable
<1>1. IInv /\ [Next]_vars
      => (pc # "pack" =>
            \A r \in 1..count :
                Intact(body, r) /\ RecordAt(body', r) # RecordAt(body, r)
                => \/ r = current /\ pc # "append"
                   \/ current < 1 /\ astray')
  BY StepKeepsRecords
<1> QED
  BY <1>1, Invariance, PTL DEF Spec, RecordsStable

\* PackRealigns, for one step.
LEMMA StepRealigns ==
  ASSUME IInv, [Next]_vars, pc = "pack", body' # body
  PROVE  Len(body') = Larger(count', 1) * RecLen
<1> USE DEF IInv
<1>1. PackRename
  BY BodyChanges DEF WriteIn, Write, Idle, AppendBlanks
<1>2. CASE kept = 0
  BY <1>1, <1>2, BlankRecordType, NoRecords DEF PackRename, Larger
<1>3. CASE kept # 0
  BY <1>1, <1>3 DEF PackRename, Larger, TypeOK
<1> QED
  BY <1>2, <1>3

\* After PACK the file holds the records it counts and nothing else.
THEOREM PackRealignsFile == Spec => PackRealigns
<1>1. IInv /\ [Next]_vars
      => (pc = "pack" /\ body' # body
          => Len(body') = Larger(count', 1) * RecLen)
  BY StepRealigns
<1> QED
  BY <1>1, Invariance, PTL DEF Spec, PackRealigns

-----------------------------------------------------------------------------
(* When APPEND BLANK gives a blank record: for a program that marks and      *)
(* stores only in records, over files that end with their last record (or    *)
(* with blank cells).  A file with dBASE's end-of-file mark is no such file, *)
(* and there APPEND BLANK does not give a blank record.                      *)

\* No trailer follows the records of the files the program finds.
NoTrailer ==
    \A f \in InitFiles :
        \A k \in 1..Len(f.body) : f.count * RecLen < k => f.body[k] = Blank

\* The records that the body holds before the APPEND under way.
Settled == count - IF pc = "append" THEN 1 ELSE 0

\* What follows the last record is blank, also when APPENDs were torn, so that
\* it does not matter that APPEND writes at the end of the file and not at the
\* end of the records.
SlackBlank ==
    \A k \in 1..Len(body) : Settled * RecLen < k => CellAt(body, k) = Blank

\* Nothing but blanks follows the records of a file without a trailer.
LEMMA InitSlack ==
  ASSUME NoTrailer, Init
  PROVE  SlackBlank
<1>1. PICK f \in InitFiles : count = f.count /\ body = f.body
  BY DEF Init
<1>2. count \in Nat /\ body \in Body /\ count * RecLen <= Len(body)
  BY <1>1, InitFilesAssumption
<1>3. Settled = count
  BY <1>2 DEF Init, Settled
<1> QED
  BY <1>1, <1>2, <1>3 DEF NoTrailer, SlackBlank, CellAt

\* Steps that leave the file alone.
LEMMA SameSlack ==
  ASSUME SlackBlank, UNCHANGED <<count, body, pc, torn>>
  PROVE  SlackBlank'
BY DEF SlackBlank, Settled

\* A cell behind the first n records is behind the first n - 1.
LEMMA CellAfter ==
  ASSUME NEW n \in Int, NEW k \in Int, n * RecLen < k
  PROVE  (n - 1) * RecLen < k
BY NextRecord, RecLenAssumption

\* A careful write stays among the records.
LEMMA WriteSlack ==
  ASSUME IInv, SlackBlank, Careful,
         NEW d \in Nat, NEW s \in Body, WriteIn(d, s)
  PROVE  SlackBlank'
<1> USE DEF IInv
<1>0. /\ UNCHANGED <<pc, torn>> /\ pc = "idle" /\ open /\ ~astray
      /\ d + Len(s) <= RecLen /\ current >= 1
  BY DEF WriteIn, Write, Idle, OnRecord, work, history
<1>1. UNCHANGED <<count, pc, torn>> /\ pc = "idle" /\ open /\ d + Len(s) <= RecLen
  BY <1>0, WriteBehindHeader DEF WriteIn, Write
<1>2. CASE writable
  <2>1. recnos = count /\ current \in 1..count /\ count \in Nat
    BY <1>0, <1>2 DEF WriteIn, Write, OnRecord, CountsAgree, TypeOK
  <2>2. body' = WriteAt(body, Offset(current) + d, s)
    BY <1>2, <2>1, WriteBehindHeader DEF WriteIn, Write
  <2>3. Settled = count /\ Settled' = count
    BY <1>1 DEF Settled, TypeOK
  <2>4. /\ Offset(current) + d \in Nat /\ count * RecLen \in Nat
        /\ Offset(current) + d + Len(s) <= count * RecLen
    BY <1>1, <2>1, OffsetType, BodyLen, RecLenAssumption
  <2>5. body \in Body /\ Len(body) \in Nat /\ Len(s) \in Nat
    BY BodyLen DEF TypeOK
  <2>6. Len(body') = Larger(Len(body), Offset(current) + d + Len(s))
    BY <2>2, <2>4, <2>5, WriteAtType
  <2>7. ASSUME NEW k \in 1..Len(body'), count * RecLen < k
        PROVE  CellAt(body', k) = Blank
    <3>1. k \in 1..Len(body) /\ Offset(current) + d + Len(s) < k
      BY <2>4, <2>5, <2>6, <2>7 DEF Larger
    <3>2. CellAt(body', k) = CellAt(body, k)
      BY <2>2, <2>4, <2>5, <3>1, WriteAtFrame
    <3> QED
      BY <2>3, <2>7, <3>1, <3>2 DEF SlackBlank
  <2> QED
    BY <2>3, <2>7 DEF SlackBlank
<1>3. CASE ~writable
  BY <1>1, <1>3, SameSlack DEF WriteIn, Write
<1> QED
  BY <1>2, <1>3

\* All that follows the records before the last is blank after an APPEND.
LEMMA AppendSlack ==
  ASSUME IInv, SlackBlank, AppendBlanks
  PROVE  /\ SlackBlank'
         /\ \A k \in 1..Len(body') : (count - 1) * RecLen < k => CellAt(body', k) = Blank
<1> USE DEF IInv
<1>1. /\ pc = "append" /\ pc' = "idle" /\ count >= 1 /\ count' = count /\ count \in Nat
  BY DEF AppendBlanks, TypeOK
<1>2. /\ body' = WriteAt(body, Len(body), BlankRecord)
      /\ body \in Body /\ Len(body) \in Nat
      /\ BlankRecord \in Body /\ Len(BlankRecord) = RecLen
  BY BodyLen, BlankRecordType DEF AppendBlanks, TypeOK
<1>3. Len(body') = Len(body) + RecLen
  BY <1>2, WriteAtType, RecLenAssumption DEF Larger
<1>4. Settled = count - 1 /\ Settled' = count
  BY <1>1 DEF Settled
<1>5. (count - 1) * RecLen = count * RecLen - RecLen /\ count * RecLen \in Int
      /\ RecLen \in Nat
  BY <1>1, NextRecord, RecLenAssumption
<1>6. ASSUME NEW k \in 1..Len(body'), (count - 1) * RecLen < k
      PROVE  CellAt(body', k) = Blank
  <2>1. CASE k <= Len(body)
    <3>1. CellAt(body', k) = CellAt(body, k)
      BY <1>2, <1>6, <2>1, WriteAtFrame
    <3> QED
      BY <1>2, <1>4, <1>6, <2>1, <3>1 DEF SlackBlank
  <2>2. CASE k > Len(body)
    <3>1. k - Len(body) \in 1..RecLen /\ k = Len(body) + (k - Len(body))
      BY <1>2, <1>3, <1>5, <1>6, <2>2
    <3>2. CellAt(body', k) = BlankRecord[k - Len(body)]
      BY <1>2, <3>1, WriteAtValue
    <3> QED
      BY <3>1, <3>2 DEF BlankRecord
  <2> QED
    BY <1>2, <1>6, <2>1, <2>2
<1>7. ASSUME NEW k \in 1..Len(body'), count * RecLen < k
      PROVE  (count - 1) * RecLen < k
  BY <1>1, <1>7, CellAfter
<1> QED
  BY <1>4, <1>6, <1>7 DEF SlackBlank

\* If no APPEND was torn, the record an APPEND completes is a blank one.
LEMMA AppendMakesBlank ==
  ASSUME IInv, SlackBlank, Careful, AppendBlanks, torn = 0
  PROVE  /\ current' = count' /\ Intact(body', count)
         /\ RecordAt(body', count') = BlankRecord
<1> USE DEF IInv
<1>1. /\ pc = "append" /\ open /\ writable /\ recnos = count
      /\ count >= 1 /\ count \in Nat /\ count' = count /\ current' = count
  BY DEF AppendBlanks, CountsAgree, TypeOK
<1>2. body \in Body /\ Len(body) \in Nat /\ Len(body') = Len(body) + RecLen
  BY BodyLen, BlankRecordType, WriteAtType, RecLenAssumption
  DEF AppendBlanks, TypeOK, Larger
<1>3. count * RecLen <= Len(body) + RecLen
  BY <1>1, NoRecords DEF Backed
<1>4. Offset(count) \in Nat /\ Offset(count) + RecLen = count * RecLen
      /\ count * RecLen \in Nat
  BY <1>1, OffsetType
<1>5. Intact(body', count)
  BY <1>1, <1>2, <1>3 DEF Intact
<1>6. ASSUME NEW j \in 1..RecLen
      PROVE  CellAt(body', Offset(count) + j) = Blank
  <2>1. Offset(count) + j \in 1..Len(body') /\ (count - 1) * RecLen < Offset(count) + j
    BY <1>2, <1>3, <1>4, RecLenAssumption DEF Offset
  <2> QED
    BY <2>1, AppendSlack
<1> QED
  BY <1>1, <1>5, <1>6 DEF RecordAt, BlankRecord

\* Every step keeps what follows the records blank: one case per action.
LEMMA NextSlack ==
  ASSUME IInv, SlackBlank, Careful, [Next]_vars
  PROVE  SlackBlank'
<1> USE DEF IInv
<1>1. CASE UNCHANGED <<count, body, pc, torn>>
  BY <1>1, SameSlack
<1>2. CASE \E d \in Nat, s \in Body : WriteIn(d, s)
  BY <1>2, WriteSlack
<1>3. CASE AppendBlanks
  BY <1>3, AppendSlack
<1>4. CASE AppendCount
  <2>1. /\ body' = body /\ torn' = torn /\ count' = count + 1
        /\ pc = "idle" /\ pc' = "append"
    BY <1>4 DEF AppendCount, Idle, CountsAgree, history
  <2>2. Settled' = Settled
    BY <2>1 DEF Settled, TypeOK
  <2> QED
    BY <2>1, <2>2 DEF SlackBlank
<1>5. CASE PackStart
  BY <1>5 DEF PackStart, Idle, SlackBlank, Settled, file, history
<1>6. CASE PackFails
  BY <1>6 DEF PackFails, Reopen, SlackBlank, Settled, file, history
<1>7. CASE PackRename
  <2>1. /\ count' = kept /\ pc' = "idle" /\ kept \in Nat
        /\ body' = IF kept = 0 THEN BlankRecord ELSE temp
    BY <1>7 DEF PackRename, Reopen, TypeOK
  <2>2. Settled' = kept
    BY <2>1 DEF Settled
  <2>3. CASE kept = 0
    <3>1. body' = BlankRecord /\ Len(body') = RecLen
      BY <2>1, <2>3, BlankRecordType
    <3> QED
      BY <2>2, <2>3, <3>1, NoRecords, RecLenAssumption
      DEF SlackBlank, CellAt, BlankRecord
  <2>4. CASE kept # 0
    <3>1. body' = temp /\ Len(temp) = kept * RecLen /\ kept * RecLen \in Int
      BY <1>7, <2>1, <2>4, NextRecord DEF PackRename
    <3> QED
      BY <2>2, <3>1 DEF SlackBlank
  <2> QED
    BY <2>3, <2>4
<1>8. CASE Crash
  <2>0. count \in Nat /\ body \in Body
    BY DEF TypeOK
  <2>1. CASE pc = "append"
    <3>1. count' = count /\ body' = body /\ Settled = count - 1 /\ Settled' = count
      BY <1>8, <2>0, <2>1 DEF Crash, file, Settled
    <3>2. ASSUME NEW k \in 1..Len(body), count * RecLen < k
          PROVE  (count - 1) * RecLen < k
      BY <2>0, <3>2, CellAfter
    <3> QED
      BY <3>1, <3>2 DEF SlackBlank
  <2>2. CASE pc # "append"
    <3>1. count' = count /\ body' = body /\ torn' = torn /\ pc' = "idle"
      BY <1>8, <2>2 DEF Crash, file
    <3>2. Settled' = Settled
      BY <2>2, <3>1 DEF Settled
    <3> QED
      BY <3>1, <3>2 DEF SlackBlank
  <2> QED
    BY <2>1, <2>2
<1>9. CASE Use \/ Close \/ AppendFails \/ PackRecord
  <2>1. UNCHANGED <<count, body, pc, torn>>
    BY <1>9
    DEF Use, Close, AppendFails, PackRecord, file, work, history
  <2> QED
    BY <2>1, SameSlack
<1>10. CASE \/ \E rec \in GoTargets : Go(rec)
            \/ GoTop \/ GoBottom \/ Skip \/ SkipBack \/ GetField
  <2>1. UNCHANGED <<count, body, pc, torn>>
    BY <1>10 DEF Go, GoTop, GoBottom, Skip, SkipBack, GetField, MoveTo, file,
                 work, history
  <2> QED
    BY <2>1, SameSlack
<1>11. CASE UNCHANGED vars
  BY <1>1, <1>11 DEF vars, file, work, history
<1> QED
  BY <1>2, <1>3, <1>4, <1>5, <1>6, <1>7, <1>8, <1>9, <1>10, <1>11, WritesAreIn
  DEF Next

\* AppendYieldsBlank, for one step.
LEMMA StepYieldsBlank ==
  ASSUME IInv, SlackBlank, Careful, [Next]_vars, pc = "append", open', torn = 0
  PROVE  UNCHANGED vars \/ (/\ current' = count'
                            /\ RecordAt(body', count') = BlankRecord)
<1> USE DEF IInv
<1>1. CASE AppendBlanks
  BY <1>1, AppendMakesBlank
<1>2. CASE Use \/ Close \/ AppendFails \/ AppendCount
  BY <1>2 DEF Use, Close, AppendFails, AppendCount, Idle
<1>3. CASE PackStart \/ PackRecord \/ PackFails \/ PackRename \/ Crash
  BY <1>3 DEF PackStart, PackRecord, PackFails, PackRename, Crash, Idle
<1>4. CASE \/ \E rec \in GoTargets : Go(rec)
           \/ GoTop \/ GoBottom \/ Skip \/ SkipBack \/ GetField
  BY <1>4 DEF Go, GoTop, GoBottom, Skip, SkipBack, GetField, MoveTo, Idle
<1>5. CASE Delete \/ Recall \/ \E v \in Value : Replace(v)
  BY <1>5 DEF Delete, Recall, Replace, Write, Idle
<1> QED
  BY <1>1, <1>2, <1>3, <1>4, <1>5 DEF Next

\* appends.c:5 holds of a careful program whose files end with their records:
\* whatever it does between them, an APPEND BLANK that is not cut short after
\* another one was leaves the pointer on a blank last record.
THEOREM AppendGivesBlank ==
  ASSUME Careful, NoTrailer
  PROVE  Spec => AppendYieldsBlank
<1>1. Init => IInv /\ SlackBlank
  BY InitIInv, InitSlack
<1>2. IInv /\ SlackBlank /\ [Next]_vars => (IInv /\ SlackBlank)'
  BY NextIInv, NextSlack
<1>3. IInv /\ SlackBlank /\ [Next]_vars
      => \/ UNCHANGED vars
         \/ pc = "append" /\ open' /\ torn = 0
            => current' = count' /\ RecordAt(body', count') = BlankRecord
  BY StepYieldsBlank
<1> QED
  BY <1>1, <1>2, <1>3, PTL DEF Spec, AppendYieldsBlank

-----------------------------------------------------------------------------
(* What PACK copies *)

Alive(b) == {r \in Nat : ~IsDeleted(b, r)}

\* After i - 1 rounds the temporary file holds the records among the first i - 1
\* that are not marked, one behind the other.
PackCopies ==
    pc = "pack" =>
        LET copied == Places(Alive(body), i - 1)
        IN  /\ kept = Len(copied)
            /\ \A m \in 1..kept : RecordAt(temp, m) = RecordAt(body, copied[m])

\* The cells of two bodies, one behind the other.
LEMMA ConcatCells ==
  ASSUME NEW s \in Body, NEW t \in Body
  PROVE  /\ \A k \in 1..Len(s) : (s \o t)[k] = s[k]
         /\ \A k \in 1..Len(t) : (s \o t)[Len(s) + k] = t[k]
<1>1. Len(s) \in Nat /\ Len(t) \in Nat
  BY BodyLen
<1>2. \A k \in 1..(Len(s) + Len(t)) : (s \o t)[k] = IF k <= Len(s) THEN s[k] ELSE t[k - Len(s)]
  BY ConcatProperties DEF Body
<1>3. ASSUME NEW k \in 1..Len(s) PROVE (s \o t)[k] = s[k]
  BY <1>1, <1>2
<1>4. ASSUME NEW k \in 1..Len(t) PROVE (s \o t)[Len(s) + k] = t[k]
  BY <1>1, <1>2
<1> QED
  BY <1>3, <1>4

\* A record behind the others is the next one, and changes none of them.
LEMMA ConcatRecord ==
  ASSUME NEW t \in Body, NEW n \in Nat, Len(t) = n * RecLen, NEW b \in Body, NEW r \in Int
  PROVE  /\ RecordAt(t \o RecordAt(b, r), n + 1) = RecordAt(b, r)
         /\ \A m \in 1..n : RecordAt(t \o RecordAt(b, r), m) = RecordAt(t, m)
<1> DEFINE u == RecordAt(b, r)
           c == t \o u
<1>1. u \in Body /\ Len(u) = RecLen /\ u = [j \in 1..RecLen |-> u[j]]
  <2>1. u = [j \in 1..RecLen |-> CellAt(b, Offset(r) + j)]
    BY DEF RecordAt
  <2> QED
    BY <2>1, RecordAtType
<1> HIDE DEF u
<1>2. /\ c \in Body /\ Len(t) \in Nat /\ Len(c) = Len(t) + RecLen
      /\ \A k \in 1..Len(t) : c[k] = t[k]
      /\ \A k \in 1..RecLen : c[Len(t) + k] = u[k]
  BY <1>1, ConcatBody, ConcatCells, BodyLen
<1> HIDE DEF c
<1>3. ASSUME NEW j \in 1..RecLen
      PROVE  CellAt(c, Offset(n + 1) + j) = u[j]
  <2>1. Offset(n + 1) = Len(t)
    BY DEF Offset
  <2>2. Len(t) + j \in 1..Len(c)
    BY <1>2, RecLenAssumption
  <2> QED
    BY <1>2, <2>1, <2>2 DEF CellAt
<1>4. RecordAt(c, n + 1) = u
  BY <1>1, <1>3 DEF RecordAt
<1>5. ASSUME NEW m \in 1..n
      PROVE  RecordAt(c, m) = RecordAt(t, m)
  <2>1. ASSUME NEW j \in 1..RecLen
        PROVE  CellAt(c, Offset(m) + j) = CellAt(t, Offset(m) + j)
    <3>1. Offset(m) \in Nat /\ Offset(m) + RecLen <= Len(t)
      BY OffsetType
    <3>2. Offset(m) + j \in 1..Len(t) /\ Offset(m) + j \in 1..Len(c)
      BY <1>2, <3>1, RecLenAssumption
    <3> QED
      BY <1>2, <3>2 DEF CellAt
  <2> QED
    BY <2>1 DEF RecordAt
<1> QED
  BY <1>4, <1>5 DEF c, u

\* No PACK is under way at the start.
LEMMA InitCopies == Init => PackCopies
BY DEF Init, PackCopies

\* A round of the loop copies the next record or passes it over.
LEMMA PackRecordCopies ==
  ASSUME IInv, PackCopies, PackRecord
  PROVE  PackCopies'
<1> DEFINE p == Places(Alive(body), i - 1)
<1>0. /\ pc = "pack" /\ pc' = "pack" /\ body' = body /\ i' = i + 1 /\ i <= recnos
      /\ current = i
      /\ IF IsDeleted(body, i) THEN UNCHANGED <<temp, kept>>
         ELSE temp' = temp \o RecordAt(body, i) /\ kept' = kept + 1
  BY DEF PackRecord, file, IInv
<1>1. /\ body \in Body /\ temp \in Body /\ i - 1 \in Nat /\ i \in Nat /\ i - 1 + 1 = i
      /\ i' - 1 = i /\ kept \in Nat /\ Len(temp) = kept * RecLen
  BY <1>0 DEF IInv, TypeOK
<1>2. kept = Len(p) /\ \A m \in 1..kept : RecordAt(temp, m) = RecordAt(body, p[m])
  BY <1>0 DEF PackCopies
<1>3. Places(Alive(body), i) = IF i \in Alive(body) THEN Append(p, i) ELSE p
  <2>1. Places(Alive(body), (i - 1) + 1)
        = IF (i - 1) + 1 \in Alive(body) THEN Append(p, (i - 1) + 1) ELSE p
    BY <1>1, PlacesNext
  <2> QED
    BY <1>1, <2>1
<1>4. p \in Seq(Nat)
  BY <1>1, PlacesType
<1> HIDE DEF p
<1>5. CASE IsDeleted(body, i)
  <2>1. Places(Alive(body), i) = p /\ temp' = temp /\ kept' = kept
    BY <1>0, <1>3, <1>5 DEF Alive
  <2> QED
    BY <1>0, <1>1, <1>2, <2>1 DEF PackCopies
<1>6. CASE ~IsDeleted(body, i)
  <2>1. /\ Places(Alive(body), i) = Append(p, i)
        /\ temp' = temp \o RecordAt(body, i) /\ kept' = kept + 1
    BY <1>0, <1>1, <1>3, <1>6 DEF Alive
  <2>2. /\ RecordAt(temp', kept + 1) = RecordAt(body, i)
        /\ \A m \in 1..kept : RecordAt(temp', m) = RecordAt(temp, m)
    BY <1>1, <2>1, ConcatRecord
  <2>3. /\ Len(Append(p, i)) = Len(p) + 1 /\ Append(p, i)[Len(p) + 1] = i
        /\ \A m \in 1..Len(p) : Append(p, i)[m] = p[m]
    BY <1>1, <1>4, AppendProperties
  <2>4. \A m \in 1..(kept + 1) : RecordAt(temp', m) = RecordAt(body, Append(p, i)[m])
    BY <1>1, <1>2, <2>2, <2>3
  <2> QED
    BY <1>0, <1>1, <1>2, <2>1, <2>3, <2>4 DEF PackCopies
<1> QED
  BY <1>5, <1>6

\* No command but PACK writes while it copies.
LEMMA NextCopies ==
  ASSUME IInv, PackCopies, [Next]_vars
  PROVE  PackCopies'
<1>1. CASE PackRecord
  BY <1>1, PackRecordCopies
<1>2. CASE PackStart
  <2>1. i' - 1 = 0 /\ kept' = 0
    BY <1>2 DEF PackStart
  <2>2. Len(Places(Alive(body'), 0)) = 0
    BY PlacesZero, EmptySeq
  <2> QED
    BY <2>1, <2>2 DEF PackCopies
<1>3. CASE PackRename \/ PackFails \/ Crash \/ AppendBlanks \/ AppendCount
  BY <1>3 DEF PackRename, PackFails, Reopen, Crash, AppendBlanks, AppendCount, PackCopies
<1>4. CASE Use \/ Close \/ AppendFails
  BY <1>4 DEF Use, Close, AppendFails, PackCopies, file, work
<1>5. CASE \/ \E rec \in GoTargets : Go(rec)
           \/ GoTop \/ GoBottom \/ Skip \/ SkipBack \/ GetField
  BY <1>5 DEF Go, GoTop, GoBottom, Skip, SkipBack, GetField, MoveTo, PackCopies,
              file, work
<1>6. CASE Delete \/ Recall \/ \E v \in Value : Replace(v)
  BY <1>6 DEF Delete, Recall, Replace, Write, Idle, PackCopies, work
<1>7. CASE UNCHANGED vars
  BY <1>7 DEF vars, file, work, PackCopies
<1> QED
  BY <1>1, <1>2, <1>3, <1>4, <1>5, <1>6, <1>7 DEF Next

\* The records that are not marked, by their places.
LEMMA LiveAt ==
  ASSUME NEW b \in Body, NEW n \in Nat
  PROVE  /\ LiveRecords(b, n) \in Seq(Body)
         /\ Len(LiveRecords(b, n)) = Len(Places(Alive(b), n))
         /\ \A m \in 1..Len(Places(Alive(b), n)) :
               LiveRecords(b, n)[m] = RecordAt(b, Places(Alive(b), n)[m])
<1> DEFINE s == [r \in 1..n |-> RecordAt(b, r)]
           S == {r \in 1..n : ~IsDeleted(b, r)}
<1>1. LiveRecords(b, n) = Chosen(s, S, n)
  BY DEF LiveRecords
<1>2. Chosen(s, S, n) = Chosen(s, Alive(b), n)
  <2>1. \A r \in 1..n : (r \in S <=> r \in Alive(b)) /\ (r \in S => s[r] = s[r])
    BY DEF Alive
  <2> HIDE DEF s, S
  <2> QED
    BY <2>1, ChosenSame
<1>3. \A r \in 1..n : s[r] = RecordAt(b, r) /\ s[r] \in Body
  BY RecordAtType
<1> HIDE DEF s, S
<1>4. Chosen(s, Alive(b), n) \in Seq(Body)
  BY <1>3, ChosenType
<1>5. /\ Len(Chosen(s, Alive(b), n)) = Len(Places(Alive(b), n))
      /\ \A m \in 1..Len(Places(Alive(b), n)) :
            Chosen(s, Alive(b), n)[m] = s[Places(Alive(b), n)[m]]
  BY ChosenAt
<1>6. \A m \in 1..Len(Places(Alive(b), n)) : Places(Alive(b), n)[m] \in 1..n
  BY PlacesType
<1> QED
  BY <1>1, <1>2, <1>3, <1>4, <1>5, <1>6

\* The first cell of a record says whether it is marked.
LEMMA DeletedCell ==
  ASSUME NEW b, NEW r
  PROVE  IsDeleted(b, r) <=> RecordAt(b, r)[1] = Star
BY RecLenAssumption DEF IsDeleted, RecordAt

\* If none of n records is marked, the live ones are all.
LEMMA AllAlive ==
  ASSUME NEW b \in Body, NEW n \in Nat, \A r \in 1..n : ~IsDeleted(b, r)
  PROVE  LiveRecords(b, n) = [r \in 1..n |-> RecordAt(b, r)]
<1> DEFINE s == [r \in 1..n |-> RecordAt(b, r)]
           S == {r \in 1..n : ~IsDeleted(b, r)}
<1>1. s \in Seq(Body) /\ Len(s) = n
  BY RecordAtType
<1>2. \A r \in 1..Len(s) : r \in S
  BY <1>1
<1>3. LiveRecords(b, n) = Chosen(s, S, n)
  BY DEF LiveRecords
<1> HIDE DEF s, S
<1>4. Chosen(s, S, Len(s)) = s
  BY <1>1, <1>2, ChosenAll
<1> QED
  BY <1>1, <1>3, <1>4 DEF s

\* What the finished PACK puts in the table's place.
LEMMA PackRenameCopies ==
  ASSUME IInv, PackCopies, PackRename
  PROVE  LET copied == Places(Alive(body), recnos)
         IN  /\ count' = Len(copied) /\ body' \in Body
             /\ \A m \in 1..count' : /\ RecordAt(body', m) = RecordAt(body, copied[m])
                                    /\ Intact(body', m) /\ ~IsDeleted(body', m)
<1> DEFINE p == Places(Alive(body), recnos)
<1>1. /\ pc = "pack" /\ count' = kept /\ i - 1 = recnos /\ recnos \in Nat /\ kept \in Nat
      /\ body' = IF kept = 0 THEN BlankRecord ELSE temp
      /\ temp \in Body /\ Len(temp) = kept * RecLen
  BY DEF PackRename, IInv, TypeOK
<1>2. kept = Len(p) /\ \A m \in 1..kept : RecordAt(temp, m) = RecordAt(body, p[m])
  BY <1>1 DEF PackCopies
<1>3. body' \in Body
  BY <1>1, BlankRecordType
<1>4. ASSUME NEW m \in 1..kept
      PROVE  /\ RecordAt(body', m) = RecordAt(body, p[m])
             /\ Intact(body', m) /\ ~IsDeleted(body', m)
  <2>1. body' = temp /\ RecordAt(temp, m) = RecordAt(body, p[m])
    BY <1>1, <1>2
  <2>2. Intact(temp, m)
    BY <1>1, RecordsMonotone DEF Intact
  <2>3. p[m] \in Alive(body)
    BY <1>1, <1>2, PlacesType
  <2>4. ~IsDeleted(temp, m)
    BY <2>1, <2>3, DeletedCell DEF Alive
  <2> QED
    BY <2>1, <2>2, <2>4
<1> QED
  BY <1>1, <1>2, <1>3, <1>4

\* PackKeepsLive, for one step.
LEMMA StepKeepsLive ==
  ASSUME IInv, PackCopies, [Next]_vars, pc = "pack", recnos = count
  PROVE  LiveRecords(body', count') = LiveRecords(body, count)
<1>1. CASE PackRename
  <2> DEFINE p == Places(Alive(body), count)
  <2>1. /\ count' = Len(p) /\ body' \in Body
        /\ \A m \in 1..count' : RecordAt(body', m) = RecordAt(body, p[m]) /\ ~IsDeleted(body', m)
    BY <1>1, PackRenameCopies
  <2>2. body \in Body /\ count \in Nat
    BY DEF IInv, TypeOK
  <2>3. count' \in Nat
    BY <2>1, <2>2, PlacesType
  <2>4. /\ LiveRecords(body, count) \in Seq(Body) /\ Len(LiveRecords(body, count)) = Len(p)
        /\ \A m \in 1..Len(p) : LiveRecords(body, count)[m] = RecordAt(body, p[m])
    BY <2>2, LiveAt
  <2> HIDE DEF p
  <2>5. LiveRecords(body', count') = [m \in 1..count' |-> RecordAt(body', m)]
    BY <2>1, <2>3, AllAlive
  <2>6. [m \in 1..count' |-> RecordAt(body', m)] \in Seq(Body)
    BY <2>1, <2>3, RecordAtType
  <2> DEFINE new == [m \in 1..count' |-> RecordAt(body', m)]
  <2>7. Len(new) = count' /\ \A m \in 1..count' : new[m] = LiveRecords(body, count)[m]
    BY <2>1, <2>3, <2>4
  <2>8. new = LiveRecords(body, count)
    BY <2>1, <2>3, <2>4, <2>6, <2>7, SeqEqual
  <2> QED
    BY <2>5, <2>8
<1>2. CASE body' = body /\ count' = count
  BY <1>2
<1>3. CASE Use \/ Close \/ AppendFails \/ PackStart \/ PackRecord \/ PackFails \/ Crash
  BY <1>2, <1>3 DEF Use, Close, AppendFails, PackStart, PackRecord, PackFails, Crash, file
<1>4. CASE AppendCount \/ AppendBlanks
  BY <1>4 DEF AppendCount, AppendBlanks, Idle
<1>5. CASE \/ \E rec \in GoTargets : Go(rec)
           \/ GoTop \/ GoBottom \/ Skip \/ SkipBack \/ GetField
  BY <1>2, <1>5 DEF Go, GoTop, GoBottom, Skip, SkipBack, GetField, MoveTo, file
<1>6. CASE Delete \/ Recall \/ \E v \in Value : Replace(v)
  BY <1>6 DEF Delete, Recall, Replace, Write, Idle
<1>7. CASE UNCHANGED vars
  BY <1>2, <1>7 DEF vars, file
<1> QED
  BY <1>1, <1>3, <1>4, <1>5, <1>6, <1>7 DEF Next

\* PACK never loses, reorders or alters a record that is not marked, whatever the
\* file holds and wherever the interpreter dies.
THEOREM PackKeepsRecords == Spec => PackKeepsLive
<1>1. Init => IInv /\ PackCopies
  BY InitIInv, InitCopies
<1>2. IInv /\ PackCopies /\ [Next]_vars => (IInv /\ PackCopies)'
  BY NextIInv, NextCopies
<1>3. IInv /\ PackCopies /\ [Next]_vars
      => (pc = "pack" /\ recnos = count
            => LiveRecords(body', count') = LiveRecords(body, count))
  BY StepKeepsLive
<1> QED
  BY <1>1, <1>2, <1>3, PTL DEF Spec, PackKeepsLive
-----------------------------------------------------------------------------
(* The file implements Table *)

\* What Table says of a record, from its cells.
ViewOf(c) == [ready |-> TRUE, deleted |-> c[1] = Star,
              field |-> [j \in 1..(RecLen - 1) |-> c[1 + j]]]

\* What is seen of a record that is wholly in the file depends on its cells only.
LEMMA IntactView ==
  ASSUME NEW b, NEW r \in Int, Intact(b, r)
  PROVE  RecordView(b, r) = ViewOf(RecordAt(b, r))
<1> DEFINE c == RecordAt(b, r)
<1>1. c[1] = CellAt(b, Offset(r) + 1)
  BY RecLenAssumption DEF RecordAt
<1>2. ASSUME NEW j \in 1..(RecLen - 1)
      PROVE  c[1 + j] = CellAt(b, Offset(r) + 1 + j)
  <2>1. 1 + j \in 1..RecLen /\ Offset(r) + (1 + j) = Offset(r) + 1 + j
    BY RecLenAssumption DEF Offset
  <2> QED
    BY <2>1 DEF RecordAt
<1> HIDE DEF c
<1>3. [j \in 1..(RecLen - 1) |-> c[1 + j]]
      = [j \in 1..(RecLen - 1) |-> CellAt(b, Offset(r) + 1 + j)]
  BY <1>2
<1>4. ViewOf(c) = RecordView(b, r)
  BY <1>1, <1>3, Zenon DEF RecordView, ViewOf, IsDeleted
<1> QED
  BY <1>4 DEF c

\* A record of Table with one of its fields replaced.
LEMMA RecExcept ==
  ASSUME NEW R, NEW D, NEW F, NEW rec \in [ready : R, deleted : D, field : F], NEW x
  PROVE  /\ [rec EXCEPT !.ready = x] = [ready |-> x, deleted |-> rec.deleted, field |-> rec.field]
         /\ [rec EXCEPT !.deleted = x] = [ready |-> rec.ready, deleted |-> x, field |-> rec.field]
         /\ [rec EXCEPT !.field = x] = [ready |-> rec.ready, deleted |-> rec.deleted, field |-> x]
OBVIOUS

\* The record without contents, its field being that of a blank record.
LEMMA PendingRec ==
  AbstractTable!Pending = [ready |-> FALSE, deleted |-> FALSE, field |-> FieldCells(Blank)]
  BY DEF AbstractTable!Pending

\* A record is Pending exactly when it is not wholly in the file.
LEMMA PendingView ==
  ASSUME NEW b, NEW r
  PROVE  /\ Intact(b, r) => RecordView(b, r) # AbstractTable!Pending
         /\ ~Intact(b, r) => RecordView(b, r) = AbstractTable!Pending
<1>1. Intact(b, r) => RecordView(b, r).ready = TRUE
  BY DEF RecordView
<1>2. ~Intact(b, r) => RecordView(b, r) = AbstractTable!Pending
  BY PendingRec DEF RecordView
<1>3. AbstractTable!Pending.ready = FALSE
  BY PendingRec
<1> QED
  BY <1>1, <1>2, <1>3

\* A blank record is seen as Table's blank record.
LEMMA BlankView == ViewOf(BlankRecord) = AbstractTable!BlankRec
<1>1. BlankRecord[1] # Star
  <2>1. BlankRecord[1] = Blank
    BY RecLenAssumption DEF BlankRecord
  <2> QED
    BY <2>1 DEF Blank, Star
<1>2. \A j \in 1..(RecLen - 1) : BlankRecord[1 + j] = Blank
  BY RecLenAssumption DEF BlankRecord
<1>3. [j \in 1..(RecLen - 1) |-> BlankRecord[1 + j]] = FieldCells(Blank)
  BY <1>2 DEF FieldCells
<1>4. (BlankRecord[1] = Star) = FALSE
  BY <1>1
<1> QED
  BY <1>3, <1>4, Zenon DEF ViewOf, AbstractTable!BlankRec

\* What is seen of a record is a record of Table.
LEMMA ViewType ==
  ASSUME NEW b \in Body, NEW r \in Int
  PROVE  RecordView(b, r) \in AbstractTable!Rec
<1>1. \A j \in Int : CellAt(b, Offset(r) + 1 + j) \in Cell
  BY CellAtType, RecLenAssumption DEF Offset
<1>2. IsDeleted(b, r) \in BOOLEAN
  BY DEF IsDeleted
<1>3. FieldCells(Blank) \in [1..(RecLen - 1) -> Cell]
  BY CellTypes DEF FieldCells
<1>4. [j \in 1..(RecLen - 1) |-> CellAt(b, Offset(r) + 1 + j)] \in [1..(RecLen - 1) -> Cell]
  BY <1>1
<1> QED
  BY <1>2, <1>3, <1>4, Zenon DEF RecordView, AbstractTable!Rec

\* The view of the file.
LEMMA ViewFacts ==
  ASSUME TypeOK
  PROVE  LET recs == [r \in 1..count |-> RecordView(body, r)]
         IN  /\ recs \in Seq(AbstractTable!Rec) /\ Len(recs) = count
             /\ \A r \in 1..count : recs[r] = RecordView(body, r)
BY ViewType DEF TypeOK

\* A step that leaves the file alone is no step of Table.
LEMMA NoTableStep == UNCHANGED <<count, body, torn>> => UNCHANGED AbstractTable!tvars
BY DEF AbstractTable!tvars

\* A step outside PACK shortens no body.
LEMMA BodyGrows ==
  ASSUME IInv, [Next]_vars, pc # "pack"
  PROVE  body' \in Body /\ Len(body) \in Nat /\ Len(body') \in Nat /\ Len(body) <= Len(body')
<1>1. TypeOK /\ TypeOK'
  BY NextIInv DEF IInv
<1>2. body \in Body /\ body' \in Body /\ Len(body) \in Nat /\ Len(body') \in Nat
  BY <1>1, BodyLen DEF TypeOK
<1>3. CASE body' = body
  BY <1>2, <1>3
<1>4. CASE \E d \in Nat, s \in Body : WriteIn(d, s)
  <2>1. PICK d \in Nat, s \in Body : WriteIn(d, s)
    BY <1>4
  <2>2. CASE writable
    BY <1>1, <1>2, <2>1, <2>2, WriteAnywhere DEF WriteIn, Write
  <2>3. CASE ~writable
    BY <1>3, <2>1, <2>3 DEF WriteIn, Write
  <2> QED
    BY <2>2, <2>3
<1>5. CASE AppendBlanks
  BY <1>2, <1>5, WriteAtType, BlankRecordType, RecLenAssumption DEF AppendBlanks, IInv, Larger
<1> QED
  BY <1>2, <1>3, <1>4, <1>5, BodyChanges DEF PackRename

\* What is seen of a record that is wholly in the file stays, but for a command
\* on that record.
LEMMA StepKeepsViews ==
  ASSUME IInv, Careful, [Next]_vars, pc # "pack",
         NEW r \in 1..count, Intact(body, r), r # current \/ pc = "append"
  PROVE  Intact(body', r) /\ RecordView(body', r) = RecordView(body, r)
<1>1. r \in Int /\ r * RecLen \in Int
  BY NextRecord DEF IInv, TypeOK
<1>2. Intact(body', r)
  BY <1>1, BodyGrows DEF Intact
<1>3. RecordAt(body', r) = RecordAt(body, r)
  BY StepKeepsRecords, NextIInv DEF IInv
<1> QED
  BY <1>1, <1>2, <1>3, IntactView

\* After a torn APPEND the records that are not wholly in the file may change.
LEMMA OnlyPendingChange ==
  ASSUME IInv, Careful, [Next]_vars, pc # "pack", count' = count, torn > 0, torn' = torn,
         Intact(body, current) => pc = "append"
  PROVE  AbstractTable!TNext
<1> DEFINE recs == [r \in 1..count |-> RecordView(body, r)]
<1>1. TypeOK /\ TypeOK'
  BY NextIInv DEF IInv
<1>2. /\ Len(recs) = count /\ Len(recs') = count
      /\ \A r \in 1..count : recs[r] = RecordView(body, r) /\ recs'[r] = RecordView(body', r)
  <2>1. Len(recs) = count /\ \A r \in 1..count : recs[r] = RecordView(body, r)
    BY <1>1, ViewFacts
  <2>2. recs' = [r \in 1..count' |-> RecordView(body', r)] /\ count' \in Nat
    BY <1>1 DEF TypeOK
  <2>3. Len(recs') = count /\ \A r \in 1..count : recs'[r] = RecordView(body', r)
    BY <2>2
  <2> QED
    BY <2>1, <2>3
<1>3. ASSUME NEW r \in 1..count, recs[r] # AbstractTable!Pending
      PROVE  recs'[r] = recs[r]
  <2>1. Intact(body, r)
    BY <1>2, <1>3, PendingView
  <2>2. r # current \/ pc = "append"
    BY <2>1
  <2> QED
    BY <1>2, <2>1, <2>2, StepKeepsViews
<1>4. AbstractTable!SettlesTo(recs)
  BY <1>2, <1>3 DEF AbstractTable!SettlesTo
<1>5. AbstractTable!TSettle
  BY <1>4 DEF AbstractTable!TSettle
<1> QED
  BY <1>5 DEF AbstractTable!TNext

\* What a careful command leaves in a file that holds the whole record.
LEMMA WriteView ==
  ASSUME IInv, [Next]_vars, Careful, writable, Intact(body, current),
         NEW d \in Nat, NEW s \in Body, WriteIn(d, s)
  PROVE  /\ current \in 1..count /\ count' = count /\ torn' = torn
         /\ Intact(body, current) /\ Intact(body', current)
         /\ \A r \in 1..count : r # current => RecordView(body', r) = RecordView(body, r)
         /\ \A j \in 1..RecLen :
               CellAt(body', Offset(current) + j)
               = IF d < j /\ j <= d + Len(s) THEN s[j - d] ELSE CellAt(body, Offset(current) + j)
<1>1. /\ count' = count /\ torn' = torn /\ pc = "idle" /\ current \in 1..count
      /\ body' = WriteAt(body, Offset(current) + d, s) /\ d + Len(s) <= RecLen
      /\ body \in Body /\ count \in Nat /\ Len(body) \in Nat /\ Len(s) \in Nat
  <2>1. /\ Write(d, s) /\ d + Len(s) <= RecLen
        /\ body \in Body /\ count \in Nat /\ open /\ recnos = count
    BY DEF WriteIn, Write, Idle, IInv, TypeOK, CountsAgree
  <2>2. /\ pc = "idle" /\ current \in 1..count /\ current >= 1 /\ torn' = torn
        /\ WriteInRecord(d, s)
    BY <2>1 DEF Write, Idle, OnRecord, history
  <2>3. body' = WriteAt(body, Offset(current) + d, s) /\ count' = count
    BY <2>2, WriteBehindHeader DEF IInv
  <2> QED
    BY <2>1, <2>2, <2>3, BodyLen
<1>2. /\ Offset(current) \in Nat /\ Offset(current) + RecLen = current * RecLen
      /\ current * RecLen \in Nat /\ current * RecLen <= Len(body) /\ RecLen \in Nat
  BY <1>1, OffsetType, RecLenAssumption DEF Intact
<1>3. Offset(current) + d \in Nat /\ Offset(current) + d + Len(s) <= Len(body)
  BY <1>1, <1>2
<1>4. Len(body') = Len(body)
  BY <1>1, <1>3, WriteAtType DEF Larger
<1>5. Intact(body', current)
  BY <1>4 DEF Intact
<1>6. ASSUME NEW r \in 1..count, r # current
      PROVE  RecordView(body', r) = RecordView(body, r)
  <2>1. CASE Intact(body, r)
    BY <1>1, <1>6, <2>1, StepKeepsViews
  <2>2. CASE ~Intact(body, r)
    <3>1. ~Intact(body', r)
      BY <1>4, <2>2 DEF Intact
    <3> QED
      BY <2>2, <3>1, PendingView
  <2> QED
    BY <2>1, <2>2
<1>7. ASSUME NEW j \in 1..RecLen
      PROVE  CellAt(body', Offset(current) + j)
             = IF d < j /\ j <= d + Len(s) THEN s[j - d] ELSE CellAt(body, Offset(current) + j)
  <2>1. Offset(current) + j \in 1..Len(body)
    BY <1>2
  <2>2. CASE d < j /\ j <= d + Len(s)
    <3>1. j - d \in 1..Len(s) /\ Offset(current) + d + (j - d) = Offset(current) + j
      BY <1>1, <1>2, <2>2
    <3> QED
      BY <1>1, <1>3, <2>2, <3>1, WriteAtValue
  <2>3. CASE ~(d < j /\ j <= d + Len(s))
    <3>1. \/ Offset(current) + j <= Offset(current) + d
          \/ Offset(current) + d + Len(s) < Offset(current) + j
      BY <1>1, <1>2, <2>3
    <3> QED
      BY <1>1, <1>3, <2>1, <2>3, <3>1, WriteAtFrame
  <2> QED
    BY <2>2, <2>3
<1> QED
  BY <1>1, <1>5, <1>6, <1>7

\* A command that changes what is seen of one record.
LEMMA ViewChange ==
  ASSUME TypeOK, count' = count, NEW r \in 1..count, NEW v, RecordView(body', r) = v,
         \A q \in 1..count : q # r => RecordView(body', q) = RecordView(body, q)
  PROVE  LET recs == [q \in 1..count |-> RecordView(body, q)]
         IN  recs' = [recs EXCEPT ![r] = v]
<1> DEFINE recs == [q \in 1..count |-> RecordView(body, q)]
<1>1. recs' = [q \in 1..count |-> RecordView(body', q)]
  OBVIOUS
<1>2. \A q \in 1..count : recs[q] = RecordView(body, q)
  OBVIOUS
<1>3. [recs EXCEPT ![r] = v] = [q \in 1..count |-> IF q = r THEN v ELSE recs[q]]
  OBVIOUS
<1> HIDE DEF recs
<1>4. [q \in 1..count |-> RecordView(body', q)] = [q \in 1..count |-> IF q = r THEN v ELSE recs[q]]
  BY <1>2
<1> QED
  BY <1>1, <1>3, <1>4 DEF recs

\* DELETE and RECALL mark the record the pointer is on.
LEMMA MarkStep ==
  ASSUME IInv, [Next]_vars, Careful, writable, Intact(body, current), Delete \/ Recall
  PROVE  AbstractTable!TNext
<1> DEFINE recs == [q \in 1..count |-> RecordView(body, q)]
           old == RecordView(body, current)
<1>1. PICK c \in Cell : Write(0, <<c>>)
  BY CellTypes DEF Delete, Recall
<1>2. <<c>> \in Body /\ Len(<<c>>) = 1 /\ 0 \in Nat /\ 0 + 1 <= RecLen
  BY RecLenAssumption DEF Body
<1>3. WriteIn(0, <<c>>)
  BY <1>1, <1>2, SMT DEF WriteIn
<1>4. /\ current \in 1..count /\ count' = count /\ torn' = torn /\ Intact(body', current)
      /\ \A r \in 1..count : r # current => RecordView(body', r) = RecordView(body, r)
      /\ \A j \in 1..RecLen :
            CellAt(body', Offset(current) + j)
            = IF 0 < j /\ j <= 0 + Len(<<c>>) THEN <<c>>[j - 0] ELSE CellAt(body, Offset(current) + j)
  BY <1>2, <1>3, WriteView
<1>5. PICK d \in BOOLEAN : d = IsDeleted(body', current)
  BY DEF IsDeleted
<1>6. ASSUME NEW j \in 1..(RecLen - 1)
      PROVE  CellAt(body', Offset(current) + 1 + j) = CellAt(body, Offset(current) + 1 + j)
  <2>1. 1 + j \in 1..RecLen /\ ~(1 + j <= 0 + 1)
        /\ Offset(current) + (1 + j) = Offset(current) + 1 + j
    BY <1>4, RecLenAssumption DEF Offset
  <2> QED
    BY <1>2, <1>4, <2>1
<1>7. /\ current \in Int /\ body \in Body
      /\ old = [ready |-> TRUE, deleted |-> IsDeleted(body, current),
                field |-> [j \in 1..(RecLen - 1) |-> CellAt(body, Offset(current) + 1 + j)]]
  BY Zenon DEF RecordView, IInv, TypeOK
<1>8. RecordView(body', current) = [ready |-> old.ready, deleted |-> d, field |-> old.field]
  <2>1. [j \in 1..(RecLen - 1) |-> CellAt(body', Offset(current) + 1 + j)]
        = [j \in 1..(RecLen - 1) |-> CellAt(body, Offset(current) + 1 + j)]
    BY <1>6
  <2> QED
    BY <1>4, <1>5, <1>7, <2>1, Zenon DEF RecordView
<1>9. old \in [ready : BOOLEAN, deleted : BOOLEAN, field : [1..(RecLen - 1) -> Cell]]
  BY <1>7, ViewType DEF AbstractTable!Rec
<1>10. RecordView(body', current) = [old EXCEPT !.deleted = d]
  <2> HIDE DEF old
  <2> QED
    BY <1>8, <1>9, RecExcept
<1>11. recs' = [recs EXCEPT ![current] = [old EXCEPT !.deleted = d]]
  BY <1>4, <1>10, ViewChange DEF IInv
<1>12. /\ Len(recs) = count /\ recs[current] = old /\ old # AbstractTable!Pending
  BY <1>4, ViewFacts, PendingView DEF IInv
<1>13. AbstractTable!TMark(current, d)
  BY <1>4, <1>11, <1>12 DEF AbstractTable!TMark
<1> QED
  BY <1>4, <1>12, <1>13 DEF AbstractTable!TNext

\* REPLACE stores in the record the pointer is on.
LEMMA StoreStep ==
  ASSUME IInv, [Next]_vars, Careful, writable, Intact(body, current),
         NEW v \in Value, Replace(v)
  PROVE  AbstractTable!TNext
<1> DEFINE recs == [q \in 1..count |-> RecordView(body, q)]
           old == RecordView(body, current)
           cells == [j \in 1..(RecLen - 1) |-> CellAt(body', Offset(current) + 1 + j)]
<1>2. FieldCells(v) \in Body /\ Len(FieldCells(v)) = RecLen - 1 /\ 1 \in Nat /\ RecLen - 1 \in Nat
      /\ 1 + Len(FieldCells(v)) <= RecLen /\ Len(FieldCells(v)) >= 1
  BY RecLenAssumption, FieldCellsType
<1>3. WriteIn(1, FieldCells(v))
  BY <1>2 DEF WriteIn, Replace
<1>4. /\ current \in 1..count /\ count' = count /\ torn' = torn /\ Intact(body', current)
      /\ \A r \in 1..count : r # current => RecordView(body', r) = RecordView(body, r)
      /\ \A j \in 1..RecLen :
            CellAt(body', Offset(current) + j)
            = IF 1 < j /\ j <= 1 + Len(FieldCells(v)) THEN FieldCells(v)[j - 1]
              ELSE CellAt(body, Offset(current) + j)
  BY <1>2, <1>3, WriteView
<1>5. IsDeleted(body', current) = IsDeleted(body, current)
  <2>1. 1 \in 1..RecLen /\ ~(1 < 1)
    BY RecLenAssumption
  <2>2. CellAt(body', Offset(current) + 1) = CellAt(body, Offset(current) + 1)
    BY <1>4, <2>1
  <2> QED
    BY <2>2 DEF IsDeleted
<1>7. /\ current \in Int /\ body \in Body /\ body' \in Body
      /\ old = [ready |-> TRUE, deleted |-> IsDeleted(body, current),
                field |-> [j \in 1..(RecLen - 1) |-> CellAt(body, Offset(current) + 1 + j)]]
  BY NextIInv, Zenon DEF RecordView, IInv, TypeOK
<1>8. RecordView(body', current) = [ready |-> old.ready, deleted |-> old.deleted, field |-> cells]
  BY <1>4, <1>5, <1>7, Zenon DEF RecordView
<1>9. old \in [ready : BOOLEAN, deleted : BOOLEAN, field : [1..(RecLen - 1) -> Cell]]
  BY <1>7, ViewType DEF AbstractTable!Rec
<1>10. PICK f \in [1..(RecLen - 1) -> Cell] : f = cells
  <2>1. \A j \in Int : CellAt(body', Offset(current) + 1 + j) \in Cell
    BY <1>7, CellAtType, RecLenAssumption DEF Offset
  <2>2. cells \in [1..(RecLen - 1) -> Cell]
    BY <2>1
  <2> QED
    BY <2>2
<1>11. RecordView(body', current) = [old EXCEPT !.field = f]
  <2> HIDE DEF old, cells
  <2> QED
    BY <1>8, <1>9, <1>10, RecExcept
<1>12. recs' = [recs EXCEPT ![current] = [old EXCEPT !.field = f]]
  BY <1>4, <1>11, ViewChange DEF IInv
<1>13. /\ Len(recs) = count /\ recs[current] = old /\ old # AbstractTable!Pending
  BY <1>4, ViewFacts, PendingView DEF IInv
<1>14. AbstractTable!TStore(current, f)
  BY <1>4, <1>12, <1>13 DEF AbstractTable!TStore
<1> QED
  BY <1>4, <1>13, <1>14 DEF AbstractTable!TNext

\* The count is written: one more record, blank already if its cells are left
\* from before.
LEMMA CountStep ==
  ASSUME IInv, SlackBlank, Careful, AppendCount
  PROVE  AbstractTable!TNext
<1> DEFINE recs == [q \in 1..count |-> RecordView(body, q)]
<1>1. /\ pc = "idle" /\ count' = count + 1 /\ body' = body /\ torn' = torn
      /\ body \in Body /\ count \in Nat /\ Len(body) \in Nat
  BY BodyLen DEF AppendCount, Idle, IInv, TypeOK, CountsAgree, history
<1>2. recs' = [q \in 1..(count + 1) |-> RecordView(body, q)]
  BY <1>1
<1>3. recs \in Seq(AbstractTable!Rec) /\ Len(recs) = count
  BY ViewFacts DEF IInv
<1>4. \/ RecordView(body, count + 1) = AbstractTable!Pending
      \/ RecordView(body, count + 1) = AbstractTable!BlankRec
  <2>1. CASE ~Intact(body, count + 1)
    BY <2>1, PendingView
  <2>2. CASE Intact(body, count + 1)
    <3>1. ASSUME NEW j \in 1..RecLen
          PROVE  CellAt(body, Offset(count + 1) + j) = Blank
      <4>1. count + 1 \in Int /\ (count + 1) - 1 = count /\ count * RecLen \in Int
        BY <1>1, NextRecord
      <4>2. Offset(count + 1) = count * RecLen /\ Offset(count + 1) + j \in 1..Len(body)
        BY <1>1, <2>2, <4>1, IntactCells DEF Offset
      <4>3. count * RecLen < Offset(count + 1) + j
        BY <4>1, <4>2
      <4> QED
        BY <1>1, <4>2, <4>3 DEF SlackBlank, Settled
    <3>2. RecordAt(body, count + 1) = BlankRecord
      BY <3>1 DEF RecordAt, BlankRecord
    <3> QED
      BY <1>1, <2>2, <3>2, IntactView, BlankView
  <2> QED
    BY <2>1, <2>2
<1>5. recs' = Append(recs, RecordView(body, count + 1))
  <2>1. Append(recs, RecordView(body, count + 1))
        = [q \in 1..(count + 1) |-> IF q <= count THEN recs[q] ELSE RecordView(body, count + 1)]
    BY <1>1, <1>3
  <2>2. \A q \in 1..(count + 1) :
           RecordView(body, q) = IF q <= count THEN recs[q] ELSE RecordView(body, count + 1)
    BY <1>1
  <2> QED
    BY <1>2, <2>1, <2>2
<1>6. AbstractTable!TAppend
  BY <1>1, <1>4, <1>5 DEF AbstractTable!TAppend
<1> QED
  BY <1>6 DEF AbstractTable!TNext

\* The record is written.
LEMMA BlanksStep ==
  ASSUME IInv, SlackBlank, Careful, [Next]_vars, AppendBlanks
  PROVE  AbstractTable!TNext \/ UNCHANGED AbstractTable!tvars
<1> DEFINE recs == [q \in 1..count |-> RecordView(body, q)]
<1>1. /\ pc = "append" /\ count' = count /\ torn' = torn /\ torn \in Nat
      /\ body \in Body /\ body' \in Body /\ count \in Nat /\ count >= 1 /\ Len(body) \in Nat
  BY NextIInv, BodyLen DEF AppendBlanks, IInv, TypeOK, history
<1>2. CASE torn > 0
  BY <1>1, <1>2, OnlyPendingChange
<1>3. CASE torn = 0
  <2>1. /\ Len(body) \in Nat /\ count \in 1..count /\ count * RecLen \in Int
        /\ count * RecLen <= Len(body) + RecLen
        /\ (count - 1) * RecLen = count * RecLen - RecLen
        /\ RecLen \in Nat
    BY <1>1, <1>3, NextRecord, RecLenAssumption DEF IInv, Backed
  <2>2. ASSUME NEW q \in 1..count, q # count
        PROVE  Intact(body, q) /\ RecordView(body', q) = RecordView(body, q)
    <3>1. q \in Int /\ count - 1 \in Int /\ q <= count - 1
      BY <1>1, <2>2
    <3>2. q * RecLen <= (count - 1) * RecLen /\ q * RecLen \in Int
      BY <3>1, RecordsMonotone, NextRecord
    <3>3. Intact(body, q)
      BY <2>1, <3>2 DEF Intact
    <3> QED
      BY <1>1, <3>3, StepKeepsViews
  <2>3. RecordView(body', count) = AbstractTable!BlankRec
    <3>1. Intact(body', count) /\ RecordAt(body', count) = BlankRecord
      BY <1>1, <1>3, AppendMakesBlank
    <3> QED
      BY <1>1, <3>1, IntactView, BlankView
  <2>4. recs' = [recs EXCEPT ![count] = AbstractTable!BlankRec]
    BY <1>1, <2>1, <2>2, <2>3, ViewChange DEF IInv
  <2>5. recs \in Seq(AbstractTable!Rec) /\ Len(recs) = count /\ recs[count] = RecordView(body, count)
    BY <2>1, ViewFacts DEF IInv
  <2>6. CASE ~Intact(body, count)
    <3>1. recs[count] = AbstractTable!Pending /\ recs # << >>
      BY <1>1, <2>5, <2>6, PendingView
    <3>2. AbstractTable!TComplete
      BY <1>1, <2>4, <2>5, <3>1 DEF AbstractTable!TComplete
    <3> QED
      BY <3>2 DEF AbstractTable!TNext
  <2>7. CASE Intact(body, count)
    <3>1. RecordView(body', count) = RecordView(body, count)
      BY <1>1, <2>1, <2>7, StepKeepsViews
    <3>2. \A q \in 1..count : RecordView(body', q) = RecordView(body, q)
      BY <2>2, <3>1
    <3>3. recs' = recs
      BY <1>1, <3>2
    <3> QED
      BY <1>1, <3>3 DEF AbstractTable!tvars
  <2> QED
    BY <2>6, <2>7
<1> QED
  BY <1>1, <1>2, <1>3

\* The interpreter dies.
LEMMA CrashStep ==
  ASSUME IInv, Crash
  PROVE  AbstractTable!TNext \/ UNCHANGED AbstractTable!tvars
<1>1. UNCHANGED <<count, body>> /\ torn \in Nat
      /\ torn' = IF pc = "append" THEN torn + 1 ELSE torn
  BY DEF Crash, file, IInv, TypeOK
<1>2. CASE torn' = torn
  BY <1>1, <1>2, NoTableStep
<1>3. CASE torn' = torn + 1
  <2>1. (torn' > 0) = TRUE
    BY <1>1, <1>3
  <2>2. AbstractTable!TDie
    BY <1>1, <2>1, Zenon DEF AbstractTable!TDie
  <2> QED
    BY <2>2 DEF AbstractTable!TNext
<1> QED
  BY <1>1, <1>2, <1>3

\* A body with cells for n records holds each of them.
LEMMA WholeRecords ==
  ASSUME NEW b \in Body, NEW n \in Nat, n * RecLen <= Len(b) + 0 * RecLen, NEW q \in 1..n
  PROVE  Intact(b, q)
<1>1. q * RecLen <= n * RecLen
  BY RecordsMonotone
<1>2. q * RecLen \in Int /\ n * RecLen \in Int /\ 0 * RecLen = 0 /\ Len(b) \in Nat
  BY NextRecord, NoRecords, BodyLen
<1> QED
  BY <1>1, <1>2 DEF Intact

\* Table chooses as the file does.
LEMMA TableChosen ==
  ASSUME NEW s, NEW T, NEW n
  PROVE  AbstractTable!Chosen(s, T, n) = Chosen(s, T, n)
BY DEF AbstractTable!Chosen, Chosen

\* PACK leaves out the marked records, and of those that are not wholly in the
\* file the ones whose first cell is a mark.
LEMMA PackStep ==
  ASSUME IInv, PackCopies, Careful, PackRename, writable
  PROVE  AbstractTable!TNext
<1> DEFINE recs == [q \in 1..count |-> RecordView(body, q)]
           p == Places(Alive(body), count)
           gone == {q \in AbstractTable!PendingAt : IsDeleted(body, q)}
           S == 1..count \ (AbstractTable!MarkedAt \cup gone)
           left == AbstractTable!Only(S)
<1>1. /\ recnos = count /\ torn' = torn /\ pc = "pack" /\ torn \in Nat
      /\ body \in Body /\ Len(body) \in Nat /\ count \in Nat
  BY BodyLen DEF PackRename, Reopen, history, IInv, TypeOK, CountsAgree
<1>2. /\ count' = Len(p) /\ body' \in Body /\ count' \in Nat
      /\ \A m \in 1..count' : /\ RecordAt(body', m) = RecordAt(body, p[m])
                              /\ Intact(body', m) /\ p[m] \in 1..count
  BY <1>1, PackRenameCopies, PlacesType
<1>3. /\ recs \in Seq(AbstractTable!Rec) /\ Len(recs) = count
      /\ \A q \in 1..count : recs[q] = RecordView(body, q)
  BY ViewFacts DEF IInv
<1>4. ASSUME NEW q \in 1..count
      PROVE  q \in S <=> q \in Alive(body)
  <2>1. CASE Intact(body, q)
    <3>1. q \notin AbstractTable!PendingAt /\ recs[q].deleted = IsDeleted(body, q)
      BY <1>3, <2>1, PendingView DEF AbstractTable!PendingAt, RecordView
    <3>2. q \in AbstractTable!MarkedAt <=> IsDeleted(body, q)
      BY <1>3, <3>1 DEF AbstractTable!MarkedAt
    <3> QED
      BY <3>1, <3>2 DEF Alive
  <2>2. CASE ~Intact(body, q)
    <3>1. q \in AbstractTable!PendingAt
      BY <1>3, <2>2, PendingView DEF AbstractTable!PendingAt
    <3>2. q \notin AbstractTable!MarkedAt
      BY <3>1 DEF AbstractTable!MarkedAt
    <3> QED
      BY <3>1, <3>2 DEF Alive
  <2> QED
    BY <2>1, <2>2
<1>5. left = Chosen(recs, S, count)
  <2>1. \A T : AbstractTable!Only(T) = Chosen(recs, T, Len(recs))
    BY TableChosen DEF AbstractTable!Only
  <2> HIDE DEF recs, S
  <2> QED
    BY <1>3, <2>1
<1>6. /\ left \in Seq(AbstractTable!Rec) /\ Len(left) = count'
      /\ \A m \in 1..count' : left[m] = RecordView(body, p[m])
  <2>1. \A q \in 1..count : recs[q] \in AbstractTable!Rec
    BY <1>3, ElementOfSeq
  <2> HIDE DEF recs, S
  <2>2. Chosen(recs, S, count) = Chosen(recs, Alive(body), count)
    BY <1>1, <1>4, ChosenSame
  <2>3. Chosen(recs, Alive(body), count) \in Seq(AbstractTable!Rec)
    BY <1>1, <2>1, ChosenType
  <2>4. /\ Len(Chosen(recs, Alive(body), count)) = Len(p)
        /\ \A m \in 1..Len(p) : Chosen(recs, Alive(body), count)[m] = recs[p[m]]
    BY <1>1, ChosenAt
  <2> HIDE DEF p, left
  <2> QED
    BY <1>2, <1>3, <1>5, <2>2, <2>3, <2>4
<1>7. /\ recs' = [m \in 1..count' |-> RecordView(body', m)]
      /\ Len(recs') = count' /\ recs' \in Seq(AbstractTable!Rec)
      /\ \A m \in 1..count' : recs'[m] = RecordView(body', m)
  BY <1>2, ViewType
<1>8. ASSUME NEW m \in 1..count', left[m] # AbstractTable!Pending
      PROVE  recs'[m] = left[m]
  <2>1. Intact(body, p[m]) /\ left[m] = RecordView(body, p[m])
    BY <1>6, <1>8, PendingView
  <2>2. p[m] \in Int /\ m \in Int
    BY <1>2
  <2>3. RecordView(body', m) = RecordView(body, p[m])
    BY <1>2, <2>1, <2>2, IntactView
  <2> QED
    BY <1>7, <2>1, <2>3
<1>9. AbstractTable!SettlesTo(left)
  BY <1>6, <1>7, <1>8 DEF AbstractTable!SettlesTo
<1>10. CASE torn > 0
  <2>1. gone \in SUBSET AbstractTable!PendingAt /\ left = AbstractTable!Only(S) /\ Len(recs) = count
    BY <1>3
  <2>2. AbstractTable!TSettle
    BY <1>1, <1>9, <1>10, <2>1 DEF AbstractTable!TSettle
  <2> QED
    BY <2>2 DEF AbstractTable!TNext
<1>11. CASE torn = 0
  <2>1. \A q \in 1..count : Intact(body, q)
    BY <1>1, <1>11, WholeRecords DEF IInv, Backed
  <2>2. gone = {}
    BY <1>3, <2>1, PendingView DEF AbstractTable!PendingAt
  <2>3. S = 1..Len(recs) \ AbstractTable!MarkedAt
    BY <1>3, <2>2
  <2>4. \A m \in 1..count' : recs'[m] = left[m]
    BY <1>2, <1>6, <1>8, <2>1, PendingView
  <2>5. recs' = left
    BY <1>6, <1>7, <2>4, SeqEqual
  <2>6. AbstractTable!TPack
    BY <1>1, <2>3, <2>5 DEF AbstractTable!TPack
  <2> QED
    BY <2>6 DEF AbstractTable!TNext
<1> QED
  BY <1>1, <1>10, <1>11

\* A file is found with whole records only.
LEMMA InitTable == Init => AbstractTable!TInit
<1> SUFFICES ASSUME Init PROVE AbstractTable!TInit
  OBVIOUS
<1> DEFINE recs == [q \in 1..count |-> RecordView(body, q)]
<1>1. PICK f \in InitFiles : count = f.count /\ body = f.body
  BY DEF Init
<1>2. count \in Nat /\ body \in Body /\ Len(body) \in Nat /\ count * RecLen <= Len(body)
  BY <1>1, InitFilesAssumption, BodyLen
<1>3. ASSUME NEW q \in 1..count
      PROVE  RecordView(body, q) \in {rec \in AbstractTable!Rec : rec.ready}
  <2>1. count * RecLen <= Len(body) + 0 * RecLen
    BY <1>2, NoRecords, NextRecord
  <2>2. Intact(body, q)
    BY <1>2, <2>1, WholeRecords
  <2>3. RecordView(body, q).ready
    BY <2>2, Zenon DEF RecordView
  <2> QED
    BY <1>2, <2>3, ViewType
<1>4. recs \in Seq({rec \in AbstractTable!Rec : rec.ready})
  BY <1>2, <1>3
<1>5. (torn > 0) = FALSE
  BY DEF Init
<1> QED
  BY <1>4, <1>5 DEF AbstractTable!TInit

\* A program may write to the file as long as it could when it started.
LEMMA StaysWritable ==
  ASSUME [Next]_vars, writable
  PROVE  writable'
<1>1. CASE Use \/ Close \/ AppendFails \/ AppendCount
  BY <1>1 DEF Use, Close, AppendFails, AppendCount, file
<1>2. CASE AppendBlanks \/ PackStart \/ PackRecord \/ PackFails \/ PackRename \/ Crash
  BY <1>2 DEF AppendBlanks, PackStart, PackRecord, PackFails, PackRename, Crash, file
<1>3. CASE \/ \E rec \in GoTargets : Go(rec)
           \/ GoTop \/ GoBottom \/ Skip \/ SkipBack \/ GetField
  BY <1>3 DEF Go, GoTop, GoBottom, Skip, SkipBack, GetField, MoveTo, file
<1>4. CASE Delete \/ Recall \/ \E v \in Value : Replace(v)
  BY <1>4 DEF Delete, Recall, Replace, Write
<1>5. CASE UNCHANGED vars
  BY <1>5 DEF vars, file
<1> QED
  BY <1>1, <1>2, <1>3, <1>4, <1>5 DEF Next

\* A careful DELETE, RECALL or REPLACE.
LEMMA WriteStep ==
  ASSUME IInv, [Next]_vars, Careful, writable,
         Delete \/ Recall \/ \E v \in Value : Replace(v)
  PROVE  AbstractTable!TNext
<1>1. CASE Intact(body, current)
  BY <1>1, MarkStep, StoreStep
<1>2. CASE ~Intact(body, current)
  <2>1. PICK d \in Nat, s \in Body : WriteIn(d, s)
    BY WritesAreIn
  <2>2. /\ pc = "idle" /\ count' = count /\ torn' = torn /\ current \in 1..count
        /\ body \in Body /\ Len(body) \in Nat /\ count \in Nat /\ torn \in Nat
    <3>1. Write(d, s) /\ open /\ recnos = count
      BY <2>1 DEF WriteIn, Write, Idle, IInv, CountsAgree
    <3>2. current \in 1..count /\ current >= 1 /\ WriteInRecord(d, s)
      BY <3>1 DEF Write, OnRecord, IInv, TypeOK
    <3>3. count' = count
      BY <3>2, WriteBehindHeader DEF IInv
    <3> QED
      BY <3>1, <3>2, <3>3, BodyLen DEF Write, Idle, history, IInv, TypeOK
  <2>3. CASE torn = 0
    <3>1. count * RecLen <= Len(body) + 0 * RecLen
      BY <2>2, <2>3, BackedInIdle DEF IInv
    <3> QED
      BY <1>2, <2>2, <3>1, WholeRecords
  <2>4. CASE torn > 0
    BY <1>2, <2>2, <2>4, OnlyPendingChange
  <2> QED
    BY <2>2, <2>3, <2>4
<1> QED
  BY <1>1, <1>2

\* Every step is a step of Table, or none.
LEMMA TableStep ==
  ASSUME IInv, SlackBlank, PackCopies, Careful, writable, [Next]_vars
  PROVE  AbstractTable!TNext \/ UNCHANGED AbstractTable!tvars
<1>1. CASE UNCHANGED <<count, body, torn>>
  BY <1>1, NoTableStep
<1>2. CASE Use \/ Close \/ AppendFails
  BY <1>1, <1>2 DEF Use, Close, AppendFails, file, history
<1>3. CASE PackStart \/ PackRecord \/ PackFails
  BY <1>1, <1>3 DEF PackStart, PackRecord, PackFails, Reopen, file, history
<1>4. CASE \/ \E rec \in GoTargets : Go(rec)
           \/ GoTop \/ GoBottom \/ Skip \/ SkipBack \/ GetField
  BY <1>1, <1>4 DEF Go, GoTop, GoBottom, Skip, SkipBack, GetField, MoveTo, file, history
<1>5. CASE UNCHANGED vars
  BY <1>1, <1>5 DEF vars, file, history
<1>6. CASE Delete \/ Recall \/ \E v \in Value : Replace(v)
  BY <1>6, WriteStep
<1>7. CASE AppendCount
  BY <1>7, CountStep
<1>8. CASE AppendBlanks
  BY <1>8, BlanksStep
<1>9. CASE PackRename
  BY <1>9, PackStep
<1>10. CASE Crash
  BY <1>10, CrashStep
<1> QED
  BY <1>2, <1>3, <1>4, <1>5, <1>6, <1>7, <1>8, <1>9, <1>10 DEF Next

\* The file implements Table, for every record length, every file without a
\* trailer that may be written, every program that marks and stores only in
\* records, and however often the interpreter dies.
THEOREM FileImplementsTable ==
  ASSUME Careful, NoTrailer, InitWritable \subseteq {TRUE}
  PROVE  Spec => ImplementsTable
<1> DEFINE Inv == IInv /\ SlackBlank /\ PackCopies /\ writable
<1>1. Init => Inv
  BY InitIInv, InitSlack, InitCopies DEF Init
<1>2. Inv /\ [Next]_vars => Inv'
  BY NextIInv, NextSlack, NextCopies, StaysWritable
<1>3. Inv /\ [Next]_vars => [AbstractTable!TNext]_(AbstractTable!tvars)
  BY TableStep
<1> HIDE DEF Inv
<1> QED
  BY <1>1, <1>2, <1>3, InitTable, PTL DEF Spec, ImplementsTable, AbstractTable!TSpec
=============================================================================
