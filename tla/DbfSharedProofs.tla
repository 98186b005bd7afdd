--------------------------- MODULE DbfSharedProofs ---------------------------
(***************************************************************************)
(* Theorems about DbfShared, for any number of handles, every record       *)
(* length and every interleaving of their APPENDs.                         *)
(***************************************************************************)
EXTENDS DbfShared, OperatorLemmas

\* The inductive invariant: a handle between the two writes of an APPEND is
\* open and will write at a place the file already reaches.
IInv ==
    /\ TypeOK
    /\ ViewBacked
    /\ CountBacked
    /\ \A h \in Handles :
          pc[h] = "append" => /\ open[h] /\ recnos[h] >= 1
                              /\ endpos[h] <= Len(body)

\* No handle is open at the start.
LEMMA InitIInv == Init => IInv
<1> SUFFICES ASSUME Init PROVE IInv
  OBVIOUS
<1>1. PICK f \in InitFiles : count = f.count /\ body = f.body
  BY DEF Init
<1>2. count \in Nat /\ body \in Body /\ count * RecLen <= Len(body)
  BY <1>1, SharedInitAssumption
<1>3. multi \in BOOLEAN /\ oneProcess \in BOOLEAN /\ open \in [Handles -> BOOLEAN]
  BY LayoutAssumption DEF Init
<1>4. TypeOK
  BY <1>2, <1>3 DEF Init, TypeOK
<1>5. ViewBacked
  BY DEF Init, ViewBacked
<1>6. CountBacked
  BY <1>2, NoRecords, BodyLen DEF Init, CountBacked
<1> QED
  BY <1>4, <1>5, <1>6 DEF Init, IInv

\* The arithmetic of the proofs below is about numbers.
LEMMA Numbers ==
  ASSUME TypeOK, NEW h \in Handles
  PROVE  /\ early \in Nat /\ recnos[h] \in Nat /\ endpos[h] \in Nat
         /\ RecLen \in Nat /\ Len(body) \in Nat
         /\ early * RecLen \in Int /\ recnos[h] * RecLen \in Int
         /\ count * RecLen \in Int
         /\ (early + 1) * RecLen = early * RecLen + RecLen
         /\ (recnos[h] + 1) * RecLen = recnos[h] * RecLen + RecLen
<1>1. /\ early \in Nat /\ recnos[h] \in Nat /\ endpos[h] \in Nat
      /\ count \in Nat
  BY DEF TypeOK
<1>2. RecLen \in Nat /\ Len(body) \in Nat
  BY RecLenAssumption, BodyLen DEF TypeOK
<1>3. /\ early * RecLen \in Int /\ (early + 1) * RecLen = early * RecLen + RecLen
  BY <1>1, NextRecord
<1>4. /\ recnos[h] * RecLen \in Int
      /\ (recnos[h] + 1) * RecLen = recnos[h] * RecLen + RecLen
  <2>1. \A n \in Int : n * RecLen \in Int /\ (n + 1) * RecLen = n * RecLen + RecLen
    BY NextRecord
  <2>2. recnos[h] \in Int
    BY <1>1
  <2> QED
    BY <2>1, <2>2
<1>5. count * RecLen \in Int
  BY <1>1, NextRecord
<1> QED
  BY <1>1, <1>2, <1>3, <1>4, <1>5

\* What a handle believes, at the time USE reads it.
LEMMA CountReadable ==
  ASSUME IInv
  PROVE  count * RecLen
         <= Len(body) + (IF InFlight THEN early + 1 ELSE early) * RecLen
<1> USE DEF IInv
<1>1. CASE InFlight
  <2>1. PICK g \in Handles : pc[g] = "append" /\ recnos[g] = count
    BY <1>1 DEF InFlight
  <2>2. count * RecLen <= early * RecLen + (endpos[g] + RecLen)
    BY <2>1 DEF ViewBacked
  <2>3. endpos[g] <= Len(body) /\ endpos[g] \in Nat /\ Len(body) \in Nat
    BY <2>1, BodyLen DEF TypeOK
  <2>4. /\ (early + 1) * RecLen = early * RecLen + RecLen
        /\ early * RecLen \in Int /\ RecLen \in Int
    BY Numbers
  <2>5. count * RecLen \in Int
    BY NextRecord DEF TypeOK
  <2>6. count * RecLen <= Len(body) + (early + 1) * RecLen
    BY <2>2, <2>3, <2>4, <2>5
  <2> QED
    BY <1>1, <2>6
<1>2. CASE ~InFlight
  BY <1>2 DEF CountBacked
<1> QED
  BY <1>1, <1>2

\* USE reads the header's count, which early accounts for.
LEMMA UseIInv ==
  ASSUME IInv, NEW h \in Handles, Use(h)
  PROVE  IInv'
<1> USE DEF IInv
<1>1. /\ pc[h] = "idle" /\ UNCHANGED <<count, body, pc, endpos, multi, oneProcess>>
      /\ open' = [open EXCEPT ![h] = TRUE]
      /\ recnos' = [recnos EXCEPT ![h] = count]
      /\ current' = [current EXCEPT ![h] = 1]
      /\ early' = IF InFlight THEN early + 1 ELSE early
  BY DEF Use, Turn, file, setting
<1>2. TypeOK'
  <2>1. open' \in [Handles -> BOOLEAN] /\ multi' \in BOOLEAN /\ oneProcess' \in BOOLEAN
    BY <1>1, Zenon DEF TypeOK
  <2>2. /\ recnos' \in [Handles -> Nat] /\ current' \in [Handles -> Int]
        /\ early' \in Nat
    BY <1>1 DEF TypeOK
  <2> QED
    BY <1>1, <2>1, <2>2 DEF TypeOK
<1>3. /\ early' \in Nat /\ early <= early'
      /\ early * RecLen <= early' * RecLen
      /\ early * RecLen \in Int /\ early' * RecLen \in Int
  <2>1. early' \in Nat /\ early \in Nat
    BY <1>2 DEF TypeOK
  <2>2. early <= early'
    BY <1>1, <2>1
  <2> QED
    <3>1. early * RecLen <= early' * RecLen
      BY <2>1, <2>2, RecordsMonotone
    <3>2. early * RecLen \in Int /\ early' * RecLen \in Int
      BY <2>1, NextRecord
    <3> QED
      BY <2>1, <2>2, <3>1, <3>2
<1>4. ViewBacked'
  <2> SUFFICES ASSUME NEW g \in Handles, open'[g]
               PROVE  recnos'[g] * RecLen
                      <= early' * RecLen + IF pc'[g] = "append"
                                           THEN endpos'[g] + RecLen
                                           ELSE Len(body')
    BY DEF ViewBacked
  <2>1. CASE g = h
    <3>1. recnos'[g] = count /\ pc'[g] = "idle" /\ body' = body
      BY <1>1, <2>1 DEF TypeOK
    <3>2. count * RecLen <= Len(body) + early' * RecLen
      BY <1>1, CountReadable
    <3>3. count * RecLen \in Int /\ Len(body) \in Nat
      BY NextRecord, BodyLen DEF TypeOK
    <3> QED
      BY <1>3, <3>1, <3>2, <3>3
  <2>2. CASE g # h
    <3>1. recnos'[g] = recnos[g] /\ open[g]
      BY <1>1, <2>2 DEF TypeOK
    <3>2. recnos[g] * RecLen <= early * RecLen + IF pc[g] = "append"
                                                 THEN endpos[g] + RecLen
                                                 ELSE Len(body)
      BY <3>1 DEF ViewBacked
    <3>3. /\ recnos[g] * RecLen \in Int /\ Len(body) \in Nat
          /\ endpos[g] + RecLen \in Int
      BY Numbers
    <3>4. pc'[g] = pc[g] /\ endpos'[g] = endpos[g] /\ Len(body') = Len(body)
      BY <1>1
    <3>5. CASE pc[g] = "append"
      BY <1>3, <3>1, <3>2, <3>3, <3>4, <3>5
    <3>6. CASE pc[g] # "append"
      BY <1>3, <3>1, <3>2, <3>3, <3>4, <3>6
    <3> QED
      BY <3>5, <3>6
  <2> QED
    BY <2>1, <2>2
<1>5. CountBacked'
  <2>1. CASE InFlight
    <3>1. PICK g \in Handles : pc[g] = "append" /\ recnos[g] = count
      BY <2>1 DEF InFlight
    <3>2. g # h /\ recnos'[g] = recnos[g]
      BY <1>1, <3>1 DEF TypeOK
    <3> QED
      BY <1>1, <3>1, <3>2 DEF CountBacked, InFlight
  <2>2. CASE ~InFlight
    BY <1>1, <2>2 DEF CountBacked
  <2> QED
    BY <2>1, <2>2
<1>6. \A g \in Handles :
        pc'[g] = "append" => /\ open'[g] /\ recnos'[g] >= 1
                             /\ endpos'[g] <= Len(body')
  BY <1>1 DEF TypeOK
<1> QED
  BY <1>2, <1>4, <1>5, <1>6

\* Moves, and CLOSE: only h's own view changes, and not to a larger count.
LEMMA ViewIInv ==
  ASSUME IInv, NEW h \in Handles, Close(h) \/ \E rec \in GoTargets : Go(h, rec)
  PROVE  IInv'
<1> USE DEF IInv
<1>1. CASE Close(h)
  <2>1. /\ pc[h] = "idle"
        /\ UNCHANGED <<count, body, pc, endpos, multi, oneProcess, early>>
        /\ open' = [open EXCEPT ![h] = FALSE]
        /\ recnos' = [recnos EXCEPT ![h] = 0]
        /\ current' = [current EXCEPT ![h] = 0]
    BY <1>1 DEF Close, Idle, Turn, file, setting
  <2>2. TypeOK'
    <3>1. open' \in [Handles -> BOOLEAN] /\ multi' \in BOOLEAN
          /\ oneProcess' \in BOOLEAN
      BY <2>1, Zenon DEF TypeOK
    <3>2. recnos' \in [Handles -> Nat] /\ current' \in [Handles -> Int]
      BY <2>1 DEF TypeOK
    <3> QED
      BY <2>1, <3>1, <3>2 DEF TypeOK
  <2>3. \A g \in Handles : open'[g] => g # h /\ open[g] /\ recnos'[g] = recnos[g]
                                        /\ current'[g] = current[g]
    BY <2>1 DEF TypeOK
  <2>4. ViewBacked'
    BY <2>1, <2>3 DEF ViewBacked
  <2>5. CountBacked'
    BY <2>1 DEF CountBacked, InFlight, TypeOK
  <2>6. \A g \in Handles : pc'[g] = "append" => g # h /\ open'[g]
    BY <2>1 DEF TypeOK
  <2> QED
    BY <2>1, <2>2, <2>3, <2>4, <2>5, <2>6
<1>2. CASE \E rec \in GoTargets : Go(h, rec)
  <2>1. PICK rec \in GoTargets : Go(h, rec)
    BY <1>2
  <2>2. /\ UNCHANGED <<count, body, open, recnos, pc, endpos, multi,
                       oneProcess, early>>
        /\ current' = [current EXCEPT ![h] = Goto(h, rec)] /\ open[h]
    BY <2>1 DEF Go, Idle, file, setting
  <2>3. Goto(h, rec) \in Int
    BY SharedTargetsAssumption DEF Goto, TypeOK
  <2>4. TypeOK' /\ ViewBacked' /\ CountBacked'
    BY <2>2, <2>3 DEF TypeOK, ViewBacked, CountBacked, InFlight
  <2> QED
    BY <2>2, <2>4
<1> QED
  BY <1>1, <1>2

\* A record write of any handle can only lengthen the body.
LEMMA WriteIInv ==
  ASSUME IInv, NEW h \in Handles, NEW rec \in Int,
         NEW d \in Nat, NEW s \in Body, WriteInRecord(h, rec, d, s)
  PROVE  IInv'
<1> USE DEF IInv
<1>1. /\ UNCHANGED <<count, open, recnos, pc, endpos, multi, oneProcess, early>>
      /\ current' = [current EXCEPT ![h] = rec]
      /\ body' = WriteAt(body, Offset(rec) + d, s) /\ rec >= 1
  BY DEF WriteInRecord, setting
<1>2. Offset(rec) + d \in Nat
  BY <1>1, OffsetType
<1>3. body' \in Body /\ Len(body') >= Len(body)
  BY <1>1, <1>2, WriteAtType, BodyLen DEF Larger, TypeOK
<1>4. Len(body) \in Nat /\ Len(body') \in Nat /\ early * RecLen \in Int
  BY <1>3, BodyLen, NextRecord DEF TypeOK
<1>5. TypeOK'
  BY <1>1, <1>3 DEF TypeOK
<1>6. ViewBacked'
  <2> SUFFICES ASSUME NEW g \in Handles, open'[g]
               PROVE  recnos'[g] * RecLen
                      <= early' * RecLen + IF pc'[g] = "append"
                                           THEN endpos'[g] + RecLen
                                           ELSE Len(body')
    BY DEF ViewBacked
  <2>1. recnos[g] * RecLen <= early * RecLen + IF pc[g] = "append"
                                               THEN endpos[g] + RecLen
                                               ELSE Len(body)
    BY <1>1 DEF ViewBacked
  <2>2. recnos[g] * RecLen \in Int
    BY NextRecord DEF TypeOK
  <2> QED
    BY <1>1, <1>3, <1>4, <2>1, <2>2
<1>7. CountBacked'
  <2>1. count * RecLen \in Int
    BY NextRecord DEF TypeOK
  <2> QED
    BY <1>1, <1>3, <1>4, <2>1 DEF CountBacked, InFlight
<1>8. \A g \in Handles :
        pc'[g] = "append" => /\ open'[g] /\ recnos'[g] >= 1
                             /\ endpos'[g] <= Len(body')
  BY <1>1, <1>3, <1>4 DEF TypeOK
<1> QED
  BY <1>5, <1>6, <1>7, <1>8

\* The first write of an APPEND promises one record more.
LEMMA AppendCountIInv ==
  ASSUME IInv, NEW h \in Handles, AppendCount(h)
  PROVE  IInv'
<1> USE DEF IInv
<1>1. /\ pc[h] = "idle" /\ open[h]
      /\ UNCHANGED <<body, open, current, multi, oneProcess, early>>
      /\ recnos' = [recnos EXCEPT ![h] = recnos[h] + 1]
      /\ count' = recnos[h] + 1
      /\ endpos' = [endpos EXCEPT ![h] = Len(body)]
      /\ pc' = [pc EXCEPT ![h] = "append"]
  BY DEF AppendCount, Idle, Turn, setting
<1>2. Len(body) \in Nat
  BY BodyLen DEF TypeOK
<1>3. TypeOK'
  BY <1>1, <1>2 DEF TypeOK
<1>4. ViewBacked'
  <2> SUFFICES ASSUME NEW g \in Handles, open'[g]
               PROVE  recnos'[g] * RecLen
                      <= early' * RecLen + IF pc'[g] = "append"
                                           THEN endpos'[g] + RecLen
                                           ELSE Len(body')
    BY DEF ViewBacked
  <2>1. recnos[g] * RecLen <= early * RecLen + IF pc[g] = "append"
                                               THEN endpos[g] + RecLen
                                               ELSE Len(body)
    BY <1>1 DEF ViewBacked
  <2>2. CASE g = h
    <3>1. recnos'[g] = recnos[g] + 1 /\ pc'[g] = "append" /\ endpos'[g] = Len(body)
      BY <1>1, <2>2 DEF TypeOK
    <3>2. /\ (recnos[g] + 1) * RecLen = recnos[g] * RecLen + RecLen
          /\ recnos[g] * RecLen \in Int /\ RecLen \in Int
          /\ early * RecLen \in Int
      BY Numbers
    <3> QED
      BY <1>1, <1>2, <2>1, <2>2, <3>1, <3>2
  <2>3. CASE g # h
    <3>1. /\ recnos'[g] = recnos[g] /\ pc'[g] = pc[g]
          /\ endpos'[g] = endpos[g] /\ early' = early /\ body' = body
      BY <1>1, <2>3 DEF TypeOK
    <3> QED
      BY <2>1, <3>1
  <2> QED
    BY <2>2, <2>3
<1>5. CountBacked'
  BY <1>1 DEF CountBacked, InFlight, TypeOK
<1>6. \A g \in Handles :
        pc'[g] = "append" => /\ open'[g] /\ recnos'[g] >= 1
                             /\ endpos'[g] <= Len(body')
  BY <1>1, <1>2 DEF TypeOK
<1> QED
  BY <1>3, <1>4, <1>5, <1>6

\* The second write of an APPEND keeps the promise.
LEMMA AppendBlanksIInv ==
  ASSUME IInv, NEW h \in Handles, AppendBlanks(h)
  PROVE  IInv'
<1> USE DEF IInv
<1>1. /\ pc[h] = "append" /\ open[h]
      /\ UNCHANGED <<count, open, recnos, multi, oneProcess, early>>
      /\ body' = WriteAt(body, endpos[h], BlankRecord)
      /\ current' = [current EXCEPT ![h] = recnos[h]]
      /\ endpos' = [endpos EXCEPT ![h] = 0]
      /\ pc' = [pc EXCEPT ![h] = "idle"]
  BY DEF AppendBlanks, setting
<1>2. /\ body' \in Body /\ Len(body') >= Len(body)
      /\ Len(body') >= endpos[h] + RecLen
      /\ Len(body) \in Nat /\ Len(body') \in Nat /\ RecLen \in Int
  <2>1. body \in Body /\ endpos[h] \in Nat
    BY DEF TypeOK
  <2>2. BlankRecord \in Body /\ Len(BlankRecord) = RecLen
    BY BlankRecordType
  <2> QED
    BY <1>1, <2>1, <2>2, WriteAtType, BodyLen, RecLenAssumption DEF Larger
<1>3. TypeOK'
  BY <1>1, <1>2 DEF TypeOK
<1>4. early * RecLen \in Int
  BY NextRecord DEF TypeOK
<1>5. ViewBacked'
  <2> SUFFICES ASSUME NEW g \in Handles, open'[g]
               PROVE  recnos'[g] * RecLen
                      <= early' * RecLen + IF pc'[g] = "append"
                                           THEN endpos'[g] + RecLen
                                           ELSE Len(body')
    BY DEF ViewBacked
  <2>1. recnos[g] * RecLen <= early * RecLen + IF pc[g] = "append"
                                               THEN endpos[g] + RecLen
                                               ELSE Len(body)
    BY <1>1 DEF ViewBacked
  <2>2. recnos[g] * RecLen \in Int /\ endpos[g] \in Int
    BY NextRecord DEF TypeOK
  <2>3. CASE g = h
    <3>1. pc'[g] = "idle"
      BY <1>1, <2>3 DEF TypeOK
    <3> QED
      BY <1>1, <1>2, <1>4, <2>1, <2>2, <2>3, <3>1
  <2>4. CASE g # h
    <3>1. pc'[g] = pc[g] /\ endpos'[g] = endpos[g]
      BY <1>1, <2>4 DEF TypeOK
    <3> QED
      BY <1>1, <1>2, <1>4, <2>1, <2>2, <3>1
  <2> QED
    BY <2>3, <2>4
<1>6. CountBacked'
  <2>1. CASE \E g \in Handles \ {h} : pc[g] = "append" /\ recnos[g] = count
    BY <1>1, <2>1 DEF CountBacked, InFlight, TypeOK
  <2>2. CASE count = recnos[h]
    <3>1. count * RecLen <= early * RecLen + (endpos[h] + RecLen)
      BY <1>1, <2>2 DEF ViewBacked
    <3>2. count * RecLen \in Int /\ endpos[h] \in Int
      BY NextRecord DEF TypeOK
    <3> QED
      BY <1>1, <1>2, <1>4, <3>1, <3>2 DEF CountBacked
  <2>3. CASE ~InFlight
    <3>1. count * RecLen \in Int
      BY NextRecord DEF TypeOK
    <3> QED
      BY <1>1, <1>2, <1>4, <2>3, <3>1 DEF CountBacked
  <2> QED
    BY <2>1, <2>2, <2>3 DEF InFlight
<1>7. \A g \in Handles :
        pc'[g] = "append" => /\ open'[g] /\ recnos'[g] >= 1
                             /\ endpos'[g] <= Len(body')
  BY <1>1, <1>2 DEF TypeOK
<1> QED
  BY <1>3, <1>5, <1>6, <1>7

\* Every step keeps the invariant: one case per action.
LEMMA NextIInv == IInv /\ [Next]_vars => IInv'
<1> SUFFICES ASSUME IInv, [Next]_vars PROVE IInv'
  OBVIOUS
<1>1. CASE UNCHANGED vars
  BY <1>1 DEF vars, file, handles, setting, IInv, TypeOK, ViewBacked,
              CountBacked, InFlight
<1>2. ASSUME NEW h \in Handles,
             \/ Delete(h) \/ Recall(h) \/ \E v \in Data : Replace(h, v)
             \/ DbfLock(h) \/ DbfUnlock(h)
             \/ \E rec \in GoTargets : RecLock(h, rec) \/ RecUnlock(h, rec)
      PROVE  IInv'
  <2>2. /\ current[h] \in Int
        /\ Shift \in Nat /\ LockLen \in Nat
        /\ LockLen + 2 <= RecLen /\ RecLen \in Nat
    BY LayoutAssumption, RecLenAssumption
    DEF IInv, TypeOK, Shift, LockLen
  <2>3. CASE Delete(h) \/ Recall(h)
    <3>1. <<Star>> \in Body /\ <<Blank>> \in Body
      BY CellTypes DEF Body
    <3> QED
      BY <2>2, <2>3, <3>1, WriteIInv DEF Delete, Recall
  <2>4. CASE \E v \in Data : Replace(h, v)
    <3>1. PICK v \in Data : Replace(h, v)
      BY <2>4
    <3>2. v \in Cell
      BY CellTypes, DataAssumption
    <3>3. DataCells(v) \in Body
      BY <2>2, <3>2 DEF DataCells, Body
    <3> QED
      BY <2>2, <3>1, <3>3, WriteIInv DEF Replace
  <2>5. ASSUME NEW rec \in Int, NEW digit \in Digits,
               SetLock(h, rec, digit)
        PROVE  IInv'
    <3>1. Goto(h, rec) \in Int
      BY <2>2, <2>5 DEF Goto
    <3>2. <<digit, Blank>> \in Body
      BY CellTypes, DataAssumption DEF Body
    <3> QED
      BY <2>2, <2>5, <3>1, <3>2, WriteIInv DEF SetLock
  <2>6. CASE DbfLock(h) \/ DbfUnlock(h)
    BY <2>5, <2>6 DEF DbfLock, DbfUnlock, Digits
  <2>7. CASE \E rec \in GoTargets : RecLock(h, rec) \/ RecUnlock(h, rec)
    BY <2>5, <2>7, SharedTargetsAssumption DEF RecLock, RecUnlock, Digits
  <2> QED
    BY <1>2, <2>3, <2>4, <2>6, <2>7
<1> QED
  BY <1>1, <1>2, UseIInv, ViewIInv, AppendCountIInv, AppendBlanksIInv DEF Next

\* IInv holds in every reachable state.
THEOREM Invariance == Spec => []IInv
BY InitIInv, NextIInv, PTL DEF Spec

\* However the APPENDs of any number of handles interleave, what a handle
\* believes in is in the file, but for the record it is writing and one for each
\* USE that fell into another handle's APPEND.
THEOREM ViewStaysBacked == Spec => []ViewBacked
<1>1. IInv => ViewBacked
  BY DEF IInv
<1> QED
  BY <1>1, Invariance, PTL

\* The same of the count in the header.
THEOREM CountStaysBacked == Spec => []CountBacked
<1>1. IInv => CountBacked
  BY DEF IInv
<1> QED
  BY <1>1, Invariance, PTL

\* Every variable keeps its type, whatever the other handles do.
THEOREM TypeCorrect == Spec => []TypeOK
<1>1. IInv => TypeOK
  BY DEF IInv
<1> QED
  BY <1>1, Invariance, PTL

-----------------------------------------------------------------------------
(* What a command changes of the records its handle is not on *)

\* In one interpreter no command starts between the two writes of an APPEND,
\* which therefore still writes at the end of the file.
AppendAlone ==
    oneProcess => \A h \in Handles :
                     pc[h] = "append" => /\ endpos[h] = Len(body)
                                         /\ \A g \in Handles \ {h} : pc[g] = "idle"

\* No APPEND is under way at the start.
LEMMA InitAlone == Init => AppendAlone
BY DEF Init, AppendAlone

\* A command that starts no APPEND finds none under way and leaves none.
LEMMA TurnAlone ==
  ASSUME TypeOK, NEW h \in Handles, Turn(h), pc' = pc, oneProcess' = oneProcess
  PROVE  AppendAlone'
BY DEF AppendAlone, Turn

\* The writes of DELETE, RECALL, REPLACE and the locks.
WriteBy(h, rec, d, s) ==
    /\ d + Len(s) <= RecLen + Shift
    /\ WriteInRecord(h, rec, d, s)

\* DELETE, RECALL, REPLACE and the locks are such writes.
LEMMA WritesAreIn ==
  ASSUME IInv, NEW h \in Handles,
         \/ Delete(h) \/ Recall(h) \/ \E v \in Data : Replace(h, v)
         \/ DbfLock(h) \/ DbfUnlock(h)
         \/ \E rec \in GoTargets : RecLock(h, rec) \/ RecUnlock(h, rec)
  PROVE  \E rec \in Nat, d \in Nat, s \in Body : rec >= 1 /\ WriteBy(h, rec, d, s)
<1>1. ASSUME NEW rec \in Int, NEW d, NEW s, WriteInRecord(h, rec, d, s)
      PROVE  rec \in Nat /\ rec >= 1
  BY <1>1 DEF WriteInRecord
<1>2. /\ current[h] \in Int
      /\ Shift \in Nat /\ LockLen \in Nat /\ Shift <= 1
      /\ LockLen + 2 <= RecLen /\ RecLen \in Nat /\ RecLen >= 4
  BY LayoutAssumption, RecLenAssumption DEF IInv, TypeOK, Shift, LockLen
<1>3. CASE Delete(h) \/ Recall(h)
  <2>1. /\ <<Star>> \in Body /\ <<Blank>> \in Body
        /\ 0 + Len(<<Star>>) <= RecLen + Shift /\ 0 + Len(<<Blank>>) <= RecLen + Shift
    BY <1>2, CellTypes DEF Body
  <2> QED
    BY <1>1, <1>2, <1>3, <2>1 DEF Delete, Recall, WriteBy
<1>4. CASE \E v \in Data : Replace(h, v)
  <2>1. PICK v \in Data : Replace(h, v)
    BY <1>4
  <2>2. v \in Cell
    BY CellTypes, DataAssumption
  <2>3. DataCells(v) \in Body /\ Len(DataCells(v)) = RecLen - 1 - LockLen
    BY <1>2, <2>2 DEF DataCells, Body
  <2>4. 1 + LockLen + Shift \in Nat /\ 1 + LockLen + Shift + Len(DataCells(v)) <= RecLen + Shift
    BY <1>2, <2>3
  <2> QED
    BY <1>1, <1>2, <2>1, <2>3, <2>4 DEF Replace, WriteBy
<1>5. ASSUME NEW rec \in Int, NEW digit \in Digits, SetLock(h, rec, digit)
      PROVE  \E to \in Nat, d \in Nat, s \in Body : to >= 1 /\ WriteBy(h, to, d, s)
  <2>1. Goto(h, rec) \in Int
    BY <1>2, <1>5 DEF Goto
  <2>2. /\ <<digit, Blank>> \in Body /\ 1 + Shift \in Nat
        /\ 1 + Shift + Len(<<digit, Blank>>) <= RecLen + Shift
    BY <1>2, CellTypes, DataAssumption DEF Body
  <2> QED
    BY <1>1, <1>5, <2>1, <2>2 DEF SetLock, WriteBy
<1>6. CASE DbfLock(h) \/ DbfUnlock(h)
  BY <1>5, <1>6 DEF DbfLock, DbfUnlock, Digits
<1>7. CASE \E rec \in GoTargets : RecLock(h, rec) \/ RecUnlock(h, rec)
  BY <1>5, <1>7, SharedTargetsAssumption DEF RecLock, RecUnlock, Digits
<1> QED
  BY <1>3, <1>4, <1>6, <1>7

\* Every step of one interpreter keeps its APPENDs alone.
LEMMA NextAlone ==
  ASSUME IInv, AppendAlone, [Next]_vars
  PROVE  AppendAlone'
<1>1. CASE UNCHANGED vars
  BY <1>1 DEF vars, file, handles, setting, AppendAlone
<1>2. ASSUME NEW h \in Handles, Use(h) \/ Close(h) \/ \E rec \in GoTargets : Go(h, rec)
      PROVE  AppendAlone'
  BY <1>2, TurnAlone DEF Use, Close, Go, Idle, setting, IInv
<1>3. ASSUME NEW h \in Handles, NEW rec, NEW d, NEW s, WriteBy(h, rec, d, s)
      PROVE  AppendAlone'
  BY <1>3, TurnAlone DEF WriteBy, WriteInRecord, Idle, setting, IInv
<1>4. ASSUME NEW h \in Handles, AppendCount(h)
      PROVE  AppendAlone'
  BY <1>4 DEF AppendCount, Idle, Turn, AppendAlone, setting, IInv, TypeOK
<1>5. ASSUME NEW h \in Handles, AppendBlanks(h)
      PROVE  AppendAlone'
  BY <1>5 DEF AppendBlanks, AppendAlone, setting, IInv, TypeOK
<1> QED
  BY <1>1, <1>2, <1>3, <1>4, <1>5, WritesAreIn DEF Next

\* A write may reach the mark of the next record if there is a _DBFLOCK field,
\* and nothing else outside its record.
LEMMA WriteStaysIn ==
  ASSUME IInv, NEW h \in Handles, NEW rec \in Nat, rec >= 1, NEW d \in Nat, NEW s \in Body,
         WriteBy(h, rec, d, s),
         NEW r \in Nat, Intact(body, r), r # rec,
         NEW j \in (IF multi THEN 2 ELSE 1)..RecLen
  PROVE  CellAt(body', Offset(r) + j) = CellAt(body, Offset(r) + j)
<1>1. /\ body' = WriteAt(body, Offset(rec) + d, s) /\ d + Len(s) <= RecLen + Shift
      /\ body \in Body /\ Len(s) \in Nat /\ Shift = (IF multi THEN 1 ELSE 0)
      /\ RecLen \in Nat /\ j \in 1..RecLen /\ multi \in BOOLEAN
  BY BodyLen, RecLenAssumption DEF WriteBy, WriteInRecord, IInv, TypeOK, Shift
<1>2. Offset(rec) \in Nat
  BY OffsetType
<1>3. Offset(r) + j \in 1..Len(body)
  BY <1>1, IntactCells
<1>4. \/ Offset(r) + j <= Offset(rec)
      \/ Offset(rec) + d + Len(s) < Offset(r) + j
  <2>1. CASE multi
    <3>1. j - 1 \in 1..RecLen
      BY <1>1, <2>1
    <3>2. \/ Offset(r) + (j - 1) <= Offset(rec)
          \/ Offset(rec) + RecLen < Offset(r) + (j - 1)
      BY <3>1, RecordCells
    <3>3. \/ Offset(r) + j <= Offset(rec)
          \/ Offset(rec) + RecLen < Offset(r) + j
      BY <1>1, RecordCells
    <3>4. Offset(r) \in Nat
      BY OffsetType DEF Intact
    <3>5. d + Len(s) <= RecLen + 1
      BY <1>1, <2>1
    <3> QED
      BY <1>1, <1>2, <3>2, <3>3, <3>4, <3>5
  <2>2. CASE ~multi
    BY <1>1, <1>2, <1>3, <2>2, RecordCells
  <2> QED
    BY <1>1, <2>1, <2>2
<1>5. Offset(rec) + d \in Nat /\ (Offset(r) + j <= Offset(rec) + d
                                  \/ Offset(rec) + d + Len(s) < Offset(r) + j)
  BY <1>1, <1>2, <1>3, <1>4
<1> QED
  BY <1>1, <1>3, <1>5, WriteAtFrame

\* OthersUntouched, for one step.
LEMMA StepTouchesOwn ==
  ASSUME IInv, AppendAlone, [Next]_vars, oneProcess,
         NEW r \in 1..Len(body), Intact(body, r),
         NEW j \in (IF multi THEN 2 ELSE 1)..RecLen,
         CellAt(body', Offset(r) + j) # CellAt(body, Offset(r) + j)
  PROVE  \E h \in Handles : current'[h] = r /\ pc' = pc
<1>1. body \in Body /\ r \in Nat /\ j \in 1..RecLen
  BY BodyLen, RecLenAssumption DEF IInv, TypeOK
<1>2. body' # body
  OBVIOUS
<1>3. ASSUME NEW h \in Handles, NEW rec \in Nat, NEW d \in Nat, NEW s \in Body,
             rec >= 1, WriteBy(h, rec, d, s)
      PROVE  current'[h] = r /\ pc' = pc
  <2>1. r = rec
    BY <1>1, <1>3, WriteStaysIn
  <2> QED
    BY <1>3, <2>1 DEF WriteBy, WriteInRecord, IInv, TypeOK
<1>4. ASSUME NEW h \in Handles, AppendBlanks(h)
      PROVE  FALSE
  <2>1. body' = WriteAt(body, Len(body), BlankRecord)
    BY <1>4 DEF AppendBlanks, AppendAlone
  <2>2. Offset(r) + j \in 1..Len(body)
    BY <1>1, IntactCells
  <2>3. Len(body) \in Nat /\ BlankRecord \in Body /\ Offset(r) + j <= Len(body)
    BY <1>1, <2>2, BodyLen, BlankRecordType
  <2> QED
    BY <1>1, <2>1, <2>2, <2>3, WriteAtFrame
<1>5. ASSUME NEW h \in Handles,
             Use(h) \/ Close(h) \/ AppendCount(h) \/ \E rec \in GoTargets : Go(h, rec)
      PROVE  FALSE
  BY <1>2, <1>5 DEF Use, Close, AppendCount, Go, file
<1>6. ~UNCHANGED vars
  BY <1>2 DEF vars, file
<1> QED
  BY <1>3, <1>4, <1>5, <1>6, WritesAreIn DEF Next

\* In one interpreter a command reaches into no record but its handle's, however
\* many handles there are and whatever they did before.
THEOREM OthersStayUntouched == Spec => OthersUntouched
<1>1. Init => IInv /\ AppendAlone
  BY InitIInv, InitAlone
<1>2. IInv /\ AppendAlone /\ [Next]_vars => (IInv /\ AppendAlone)'
  BY NextIInv, NextAlone
<1>3. IInv /\ AppendAlone /\ [Next]_vars
      => (oneProcess =>
            \A r \in 1..Len(body) :
                /\ Intact(body, r)
                /\ \E j \in (IF multi THEN 2 ELSE 1)..RecLen :
                      CellAt(body', Offset(r) + j) # CellAt(body, Offset(r) + j)
                => \E h \in Handles : current'[h] = r /\ pc' = pc)
  BY StepTouchesOwn
<1> QED
  BY <1>1, <1>2, <1>3, PTL DEF Spec, OthersUntouched
=============================================================================
