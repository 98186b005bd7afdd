--------------------------- MODULE WorkAreaProofs ---------------------------
(***************************************************************************)
(* Proofs about WorkArea, for every number of areas, tables and indexes.   *)
(* The invariants of the module are inductive together: who owns which     *)
(* memory depends on which area is open.  What a step may do to a pointer, *)
(* and to the areas that are not selected, follows from the types and from *)
(* that invariant, one action at a time.                                   *)
(***************************************************************************)
EXTENDS WorkArea, TLAPS

IInv == TypeOK /\ OwnMemory /\ AliasOfOpenTable /\ OrderLoaded

\* TypeOK without the Boolean variables, which are typed apart.
Typed ==
    /\ size \in [Tables -> Nat]
    /\ table \in [Areas -> Tables \cup {None}]
    /\ addr \in [Areas -> Addresses \cup {None}]
    /\ recnos \in [Areas -> Nat] /\ current \in [Areas -> Int]
    /\ alias \in [Areas -> Aliases \cup {None}]
    /\ selected \in Areas
    /\ tag \in [Areas -> Indexes \cup {None}]
    /\ order \in [Areas -> {0, 1}]
    /\ locAddr \in [Areas -> Addresses \cup {None}]

Flags ==
    /\ found \in [Areas -> BOOLEAN]
    /\ locActive \in [Areas -> BOOLEAN]

\* Typed and Flags together are the type invariant.
LEMMA TypeParts == TypeOK <=> Typed /\ Flags
  BY Zenon DEF TypeOK, Typed, Flags

\* The invariant depends on these variables only.
LEMMA AreasKept ==
    ASSUME IInv, UNCHANGED opening
    PROVE  OwnMemory' /\ AliasOfOpenTable'
<1>1. UNCHANGED <<table, addr, recnos, current, alias>>
  BY DEF opening
<1>2. OwnMemory' /\ AliasOfOpenTable'
  BY <1>1 DEF IInv, OwnMemory, AliasOfOpenTable, Open
<1> QED
  BY <1>2

\* Moving the pointer of the selected area disturbs nothing but its type.
LEMMA PointerMoved ==
    ASSUME IInv, NEW r \in Int, MoveTo(r),
           UNCHANGED <<table, addr, recnos, alias>>
    PROVE  /\ current' \in [Areas -> Int]
           /\ OwnMemory' /\ AliasOfOpenTable'
<1>1. current' = [current EXCEPT ![selected] = r] /\ selected \in Areas
      /\ current \in [Areas -> Int]
  BY DEF MoveTo, IInv, TypeOK
<1>2. OwnMemory' /\ AliasOfOpenTable'
  BY DEF IInv, OwnMemory, AliasOfOpenTable, Open
<1> QED
  BY <1>1, <1>2

\* What USE does to the areas.
LEMMA UseHolds ==
    ASSUME IInv, NEW t \in Tables, NEW al \in Aliases \cup {None}, NEW a \in Areas,
           NEW at \in Free, FirstFree(a), UseIn(a, t, al, at)
    PROVE  /\ size' \in [Tables -> Nat] /\ table' \in [Areas -> Tables \cup {None}]
           /\ addr' \in [Areas -> Addresses \cup {None}]
           /\ recnos' \in [Areas -> Nat] /\ current' \in [Areas -> Int]
           /\ alias' \in [Areas -> Aliases \cup {None}]
           /\ selected' \in Areas /\ locAddr' \in [Areas -> Addresses \cup {None}]
           /\ locActive' \in [Areas -> BOOLEAN]
           /\ OwnMemory' /\ AliasOfOpenTable'
<1> USE NoneAssumption
<1>1. /\ table' = [table EXCEPT ![a] = t] /\ addr' = [addr EXCEPT ![a] = at]
      /\ recnos' = [recnos EXCEPT ![a] = size[t]] /\ current' = [current EXCEPT ![a] = 1]
      /\ alias' = [alias EXCEPT ![a] = al] /\ selected' = a
      /\ UNCHANGED <<size, locActive, locAddr>>
  BY DEF UseIn
<1>2. Typed /\ Flags
  BY TypeParts DEF IInv
<1>3. at \in Addresses /\ at # None /\ t # None /\ \A b \in Areas : addr[b] # at
  BY DEF Free
<1>4. locActive' \in [Areas -> BOOLEAN]
  BY <1>1, <1>2, Zenon DEF Flags
<1>5. OwnMemory'
  BY <1>1, <1>2, <1>3 DEF IInv, OwnMemory, Open, Typed
<1>6. AliasOfOpenTable'
  BY <1>1, <1>2, <1>3 DEF IInv, AliasOfOpenTable, Open, Typed
<1> QED
  BY <1>1, <1>2, <1>3, <1>4, <1>5, <1>6 DEF Typed

\* What SET INDEX, and USE with its INDEX clause, do to the order.
LEMMA IndexLoaded ==
    ASSUME IInv, NEW a \in Areas, NEW f \in Indexes \cup {None}, LoadIndex(a, f)
    PROVE  /\ tag' \in [Areas -> Indexes \cup {None}] /\ order' \in [Areas -> {0, 1}]
           /\ found' \in [Areas -> BOOLEAN] /\ OrderLoaded'
<1>1. /\ tag' = [tag EXCEPT ![a] = f]
      /\ order' = [order EXCEPT ![a] = IF f = None THEN 0 ELSE 1]
      /\ found' = [found EXCEPT ![a] = FALSE]
  BY DEF LoadIndex
<1>2. Typed /\ Flags
  BY TypeParts DEF IInv
<1>3. found' \in [Areas -> BOOLEAN]
  BY <1>1, <1>2 DEF Flags
<1>4. tag' \in [Areas -> Indexes \cup {None}] /\ order' \in [Areas -> {0, 1}]
  BY <1>1, <1>2 DEF Typed
<1>5. OrderLoaded'
  BY <1>1, <1>2 DEF IInv, OrderLoaded, Typed
<1> QED
  BY <1>3, <1>4, <1>5

\* A scan moves the pointer of its area at most.
LEMMA ScanHolds ==
    ASSUME IInv, NEW from \in Int, Scan(from),
           UNCHANGED <<table, addr, recnos, alias>>
    PROVE  /\ found' \in [Areas -> BOOLEAN] /\ current' \in [Areas -> Int]
           /\ OwnMemory' /\ AliasOfOpenTable'
<1>1. Typed /\ Flags
  BY TypeParts DEF IInv
<1>2. recnos[selected] \in Nat
  BY <1>1 DEF Typed
<1>3. found' \in [Areas -> BOOLEAN]
  <2>1. PICK ok \in BOOLEAN : found' = [found EXCEPT ![selected] = ok]
    BY DEF Scan
  <2> QED
    BY <1>1, <2>1, Zenon DEF Flags
<1>4. CASE from <= recnos[selected]
  <2>1. PICK rec \in from..recnos[selected] : MoveTo(rec) \/ (rec = 0 /\ MoveTo(1))
    BY <1>4 DEF Scan
  <2>2. rec \in Int
    BY <1>2, <2>1
  <2> QED
    BY <1>3, <2>1, <2>2, PointerMoved
<1>5. CASE ~(from <= recnos[selected])
  <2>1. current' = current
    BY <1>5 DEF Scan
  <2>2. UNCHANGED opening
    BY <2>1 DEF opening
  <2> QED
    BY <1>1, <1>3, <2>1, <2>2, AreasKept DEF Typed
<1> QED
  BY <1>4, <1>5
-----------------------------------------------------------------------------
(* The invariant *)

\* No area is open at the start.
LEMMA InitHolds == Init => IInv
<1> SUFFICES ASSUME Init PROVE IInv
  OBVIOUS
<1> USE NoneAssumption, AreasAssumption DEF Init, PerArea
<1>1. Typed
  <2>1. size \in [Tables -> Nat]
    BY MaxRecsAssumption
  <2>2. selected \in Areas
    BY DEF Areas
  <2> QED
    BY <2>1, <2>2 DEF Typed
<1>2. Flags
  BY DEF Flags
<1>3. OwnMemory /\ AliasOfOpenTable /\ OrderLoaded
  BY DEF OwnMemory, AliasOfOpenTable, OrderLoaded, Open
<1> QED
  BY <1>1, <1>2, <1>3, TypeParts DEF IInv

\* The parts of the invariant after a step.
LEMMA Parts ==
    ASSUME Typed', Flags', OwnMemory', AliasOfOpenTable', OrderLoaded'
    PROVE  IInv'
<1>1. TypeOK'
  BY Zenon DEF TypeOK, Typed, Flags
<1> QED
  BY <1>1 DEF IInv

\* Flags that a step leaves alone stay Boolean.
LEMMA FlagsKept ==
    ASSUME IInv
    PROVE  /\ found' = found => found' \in [Areas -> BOOLEAN]
           /\ locActive' = locActive => locActive' \in [Areas -> BOOLEAN]
  BY Zenon DEF IInv, TypeOK

\* SELECT, USE and CLOSE ALL preserve the invariant.
LEMMA OpeningHolds ==
    ASSUME IInv
    PROVE  /\ \A a \in Areas : Select(a) => IInv'
           /\ \A t \in Tables, al \in Aliases \cup {None} : Use(t, al) => IInv'
           /\ \A t \in Tables, al \in Aliases \cup {None}, f \in Indexes \cup {None} :
                  UseIndex(t, al, f) => IInv'
           /\ CloseAll => IInv'
<1>0. Typed /\ Flags
  BY TypeParts DEF IInv
<1>1. ASSUME NEW a \in Areas, Select(a) PROVE IInv'
  <2>1. /\ selected' = a
        /\ UNCHANGED <<size, opening, tag, order, found, locActive, locAddr>>
    BY <1>1 DEF Select, indexing, locating
  <2>2. Typed'
    BY <1>0, <2>1 DEF Typed, opening
  <2>3. OwnMemory' /\ AliasOfOpenTable'
    BY <2>1, AreasKept
  <2>4. OrderLoaded'
    BY <2>1 DEF IInv, OrderLoaded
  <2>5. Flags'
    BY <2>1, FlagsKept, Zenon DEF Flags
  <2> QED
    BY <2>2, <2>3, <2>4, <2>5, Parts
<1>2. ASSUME NEW t \in Tables, NEW al \in Aliases \cup {None}, Use(t, al)
      PROVE  IInv'
  <2>1. PICK a \in Areas, at \in Free : FirstFree(a) /\ UseIn(a, t, al, at)
    BY <1>2 DEF Use
  <2>2. UNCHANGED <<tag, order, found>>
    BY <1>2 DEF Use, indexing
  <2>3. /\ size' \in [Tables -> Nat] /\ table' \in [Areas -> Tables \cup {None}]
        /\ addr' \in [Areas -> Addresses \cup {None}]
        /\ recnos' \in [Areas -> Nat] /\ current' \in [Areas -> Int]
        /\ alias' \in [Areas -> Aliases \cup {None}]
        /\ selected' \in Areas /\ locAddr' \in [Areas -> Addresses \cup {None}]
        /\ locActive' \in [Areas -> BOOLEAN]
        /\ OwnMemory' /\ AliasOfOpenTable'
    BY <2>1, UseHolds
  <2>4. Typed'
    BY <1>0, <2>2, <2>3 DEF Typed
  <2>5. Flags'
    BY <2>2, <2>3, FlagsKept, Zenon DEF Flags
  <2>6. OrderLoaded'
    BY <2>2 DEF IInv, OrderLoaded
  <2> QED
    BY <2>3, <2>4, <2>5, <2>6, Parts
<1>3. ASSUME NEW t \in Tables, NEW al \in Aliases \cup {None},
             NEW f \in Indexes \cup {None}, UseIndex(t, al, f)
      PROVE  IInv'
  <2>1. PICK a \in Areas, at \in Free :
            FirstFree(a) /\ UseIn(a, t, al, at) /\ LoadIndex(a, f)
    BY <1>3 DEF UseIndex
  <2>2. /\ size' \in [Tables -> Nat] /\ table' \in [Areas -> Tables \cup {None}]
        /\ addr' \in [Areas -> Addresses \cup {None}]
        /\ recnos' \in [Areas -> Nat] /\ current' \in [Areas -> Int]
        /\ alias' \in [Areas -> Aliases \cup {None}]
        /\ selected' \in Areas /\ locAddr' \in [Areas -> Addresses \cup {None}]
        /\ locActive' \in [Areas -> BOOLEAN]
        /\ OwnMemory' /\ AliasOfOpenTable'
    BY <2>1, UseHolds
  <2>3. /\ tag' \in [Areas -> Indexes \cup {None}] /\ order' \in [Areas -> {0, 1}]
        /\ found' \in [Areas -> BOOLEAN] /\ OrderLoaded'
    BY <2>1, IndexLoaded
  <2>4. Typed'
    BY <2>2, <2>3 DEF Typed
  <2>5. Flags'
    BY <2>2, <2>3, Zenon DEF Flags
  <2> QED
    BY <2>2, <2>3, <2>4, <2>5, Parts
<1>4. ASSUME CloseAll PROVE IInv'
  <2>1. /\ table' = PerArea(None) /\ addr' = PerArea(None)
        /\ recnos' = PerArea(0) /\ current' = PerArea(0)
        /\ alias' = PerArea(None) /\ selected' = 1
        /\ UNCHANGED <<size, tag, order, found, locActive, locAddr>>
    BY <1>4 DEF CloseAll, indexing, locating
  <2>2. Typed'
    BY <1>0, <2>1, AreasAssumption DEF Typed, PerArea, Areas
  <2>3. OwnMemory' /\ AliasOfOpenTable'
    BY <2>1 DEF OwnMemory, AliasOfOpenTable, Open, PerArea
  <2>4. OrderLoaded'
    BY <2>1 DEF IInv, OrderLoaded
  <2>5. Flags'
    BY <2>1, FlagsKept, Zenon DEF Flags
  <2> QED
    BY <2>2, <2>3, <2>4, <2>5, Parts
<1> QED
  BY <1>1, <1>2, <1>3, <1>4

\* Packing leaves a count, and the pointer that returns is a number.
LEMMA PackedType ==
    ASSUME Typed, NEW n \in Nat, Packed(n)
    PROVE  Open(selected) /\ size' \in [Tables -> Nat]
  BY DEF Packed, Typed

LEMMA ReturnType ==
    ASSUME NEW cur \in Int, NEW n \in Int, NEW rec \in Int
    PROVE  Return(cur, n, rec) \in Int
  BY DEF Return, Goto

\* GO, reading a field, APPEND BLANK and PACK preserve the invariant.
LEMMA RecordsHold ==
    ASSUME IInv
    PROVE  /\ \A rec \in GoTargets : Go(rec) => IInv'
           /\ \A a \in Areas : ReadField(a) => IInv'
           /\ AppendBlank => IInv'
           /\ \A n \in 0..MaxRecs : Pack(n) => IInv'
           /\ \A n \in 0..MaxRecs : PackLost(n) => IInv'
<1>0. Typed /\ Flags
  BY TypeParts DEF IInv
<1> USE MaxRecsAssumption, TargetsAssumption
<1>1. ASSUME NEW rec \in GoTargets, Go(rec) PROVE IInv'
  <2> DEFINE to == Goto(current[selected], recnos[selected], rec)
  <2>1. /\ MoveTo(to)
        /\ UNCHANGED <<size, table, addr, recnos, alias, selected, tag, order, found,
                       locActive, locAddr>>
    BY <1>1 DEF Go, indexing, locating
  <2>2. to \in Int
    BY <1>0 DEF Goto, Typed
  <2> HIDE DEF to
  <2>3. /\ current' \in [Areas -> Int]
        /\ OwnMemory' /\ AliasOfOpenTable'
    BY <2>1, <2>2, PointerMoved
  <2>4. Typed'
    BY <1>0, <2>1, <2>3 DEF Typed
  <2>5. OrderLoaded'
    BY <2>1 DEF IInv, OrderLoaded
  <2>6. Flags'
    BY <2>1, FlagsKept, Zenon DEF Flags
  <2> QED
    BY <2>3, <2>4, <2>5, <2>6, Parts
<1>2. ASSUME AppendBlank PROVE IInv'
  <2>1. /\ Open(selected)
        /\ recnos' = [recnos EXCEPT ![selected] = @ + 1]
        /\ size' = [size EXCEPT ![table[selected]] = recnos[selected] + 1]
        /\ current' = [current EXCEPT ![selected] = recnos[selected] + 1]
        /\ UNCHANGED <<table, addr, alias, selected, tag, order, found,
                       locActive, locAddr>>
    BY <1>2 DEF AppendBlank, MoveTo, indexing, locating
  <2>2. recnos[selected] \in Nat /\ selected \in Areas
    BY <1>0 DEF Typed
  <2>3. Typed'
    <3>1. recnos' \in [Areas -> Nat]
      BY <1>0, <2>1, <2>2 DEF Typed
    <3>2. recnos[selected] + 1 \in Nat
      BY <2>2
    <3>3. size' \in [Tables -> Nat]
      <4> DEFINE r == recnos[selected] + 1
      <4>1. size' = [size EXCEPT ![table[selected]] = r] /\ r \in Nat
        BY <2>1, <3>2
      <4> HIDE DEF r
      <4> QED
        BY <1>0, <4>1 DEF Typed
    <3>4. current' \in [Areas -> Int]
      <4> DEFINE r == recnos[selected] + 1
      <4>1. current' = [current EXCEPT ![selected] = r] /\ r \in Nat
        BY <2>1, <3>2
      <4> HIDE DEF r
      <4> QED
        BY <1>0, <4>1 DEF Typed
    <3> QED
      BY <1>0, <2>1, <3>1, <3>3, <3>4 DEF Typed
  <2>4. OwnMemory' /\ AliasOfOpenTable'
    BY <2>1 DEF IInv, OwnMemory, AliasOfOpenTable, Open
  <2>5. OrderLoaded'
    BY <2>1 DEF IInv, OrderLoaded
  <2>6. Flags'
    BY <2>1, FlagsKept, Zenon DEF Flags
  <2> QED
    BY <2>3, <2>4, <2>5, <2>6, Parts
<1>3. ASSUME NEW n \in 0..MaxRecs, Pack(n) PROVE IInv'
  <2> DEFINE to == Return(1, n, current[selected])
  <2>1. /\ Packed(n)
        /\ recnos' = [recnos EXCEPT ![selected] = n]
        /\ current' = [current EXCEPT ![selected] = to]
        /\ alias' = [alias EXCEPT ![selected] = None]
        /\ UNCHANGED <<table, selected, tag, order, found, locActive, locAddr>>
    BY <1>3 DEF Pack, MoveTo, indexing, locating
  <2>2. PICK at \in Free \cup {addr[selected]} : addr' = [addr EXCEPT ![selected] = at]
    BY <1>3 DEF Pack
  <2>3. selected \in Areas /\ current[selected] \in Int /\ n \in Nat
    BY <1>0 DEF Typed
  <2>4. to \in Int
    BY <2>3 DEF Return, Goto
  <2> HIDE DEF to
  <2>5. Open(selected) /\ size' \in [Tables -> Nat]
    BY <1>0, <2>1, <2>3, PackedType
  <2>6. at \in Addresses /\ at # None /\ \A b \in Areas : b # selected /\ Open(b) => addr[b] # at
    BY <1>0, <2>3, <2>5, NoneAssumption DEF Free, Typed, IInv, OwnMemory
  <2>7. Typed'
    BY <1>0, <2>1, <2>2, <2>3, <2>4, <2>5, <2>6 DEF Typed
  <2>8. OwnMemory'
    BY <1>0, <2>1, <2>2, <2>3, <2>5, <2>6 DEF IInv, OwnMemory, Open, Typed
  <2>9. AliasOfOpenTable'
    BY <1>0, <2>1, <2>3 DEF IInv, AliasOfOpenTable, Open, Typed
  <2>10. OrderLoaded'
    BY <2>1 DEF IInv, OrderLoaded
  <2>11. Flags'
    BY <2>1, FlagsKept, Zenon DEF Flags
  <2> QED
    BY <2>7, <2>8, <2>9, <2>10, <2>11, Parts
<1>4. ASSUME NEW n \in 0..MaxRecs, PackLost(n) PROVE IInv'
  <2>1. /\ Packed(n)
        /\ table' = [table EXCEPT ![selected] = None]
        /\ addr' = [addr EXCEPT ![selected] = None]
        /\ recnos' = [recnos EXCEPT ![selected] = 0]
        /\ alias' = [alias EXCEPT ![selected] = None]
        /\ selected' = 1
        /\ UNCHANGED <<tag, order, found, locActive, locAddr>>
    BY <1>4 DEF PackLost, indexing, locating
  <2>2. selected \in Areas /\ n \in Nat
    BY <1>0 DEF Typed
  <2>3. size' \in [Tables -> Nat]
    BY <1>0, <2>1, <2>2, PackedType
  <2>4. current' \in [Areas -> Int]
    <3>1. \A a \in Areas : Return(current[a], recnos[a], current[selected]) \in Int
      BY <1>0, <2>2, ReturnType DEF Typed
    <3> QED
      BY <1>0, <1>4, <3>1 DEF PackLost, Typed
  <2>5. Typed'
    BY <1>0, <2>1, <2>2, <2>3, <2>4, AreasAssumption DEF Typed, Areas
  <2>6. OwnMemory'
    BY <1>0, <2>1, <2>2 DEF IInv, OwnMemory, Open, Typed
  <2>7. AliasOfOpenTable'
    BY <1>0, <2>1, <2>2 DEF IInv, AliasOfOpenTable, Open, Typed
  <2>8. OrderLoaded'
    BY <2>1 DEF IInv, OrderLoaded
  <2>9. Flags'
    BY <2>1, FlagsKept, Zenon DEF Flags
  <2> QED
    BY <2>5, <2>6, <2>7, <2>8, <2>9, Parts
<1>5. ASSUME NEW a \in Areas, ReadField(a) PROVE IInv'
  <2>1. /\ current' = [current EXCEPT ![a] = 1]
        /\ UNCHANGED <<size, table, addr, recnos, alias, selected, tag, order, found,
                       locActive, locAddr>>
    BY <1>5 DEF ReadField, indexing, locating
  <2>2. Typed'
    BY <1>0, <2>1 DEF Typed
  <2>3. OwnMemory' /\ AliasOfOpenTable' /\ OrderLoaded'
    BY <2>1 DEF IInv, OwnMemory, AliasOfOpenTable, OrderLoaded, Open
  <2>4. Flags'
    BY <2>1, FlagsKept, Zenon DEF Flags
  <2> QED
    BY <2>2, <2>3, <2>4, Parts
<1> QED
  BY <1>1, <1>2, <1>3, <1>4, <1>5

\* SET INDEX, SET ORDER and SEEK preserve the invariant.
LEMMA IndexHolds ==
    ASSUME IInv
    PROVE  /\ \A f \in Indexes \cup {None} : SetIndex(f) => IInv'
           /\ \A n \in {0, 1} : SetOrder(n) => IInv'
           /\ \A rec \in 0..MaxRecs : Seek(rec) => IInv'
<1>0. Typed /\ Flags
  BY TypeParts DEF IInv
<1> USE MaxRecsAssumption
<1>1. ASSUME NEW f \in Indexes \cup {None}, SetIndex(f) PROVE IInv'
  <2> DEFINE g == IF Open(selected) THEN f ELSE None
  <2>1. /\ LoadIndex(selected, g)
        /\ UNCHANGED <<size, opening, selected, locActive, locAddr>>
    BY <1>1 DEF SetIndex, locating
  <2>2. g \in Indexes \cup {None} /\ selected \in Areas
    BY <1>0 DEF Typed
  <2> HIDE DEF g
  <2>3. /\ tag' \in [Areas -> Indexes \cup {None}] /\ order' \in [Areas -> {0, 1}]
        /\ found' \in [Areas -> BOOLEAN] /\ OrderLoaded'
    BY <2>1, <2>2, IndexLoaded
  <2>4. Typed'
    BY <1>0, <2>1, <2>3 DEF Typed, opening
  <2>5. Flags'
    BY <2>1, <2>3, FlagsKept, Zenon DEF Flags
  <2>6. OwnMemory' /\ AliasOfOpenTable'
    BY <2>1, AreasKept
  <2> QED
    BY <2>3, <2>4, <2>5, <2>6, Parts
<1>2. ASSUME NEW n \in {0, 1}, SetOrder(n) PROVE IInv'
  <2>1. /\ n = 0 \/ tag[selected] # None
        /\ order' = [order EXCEPT ![selected] = n]
        /\ UNCHANGED <<size, opening, selected, tag, found, locActive, locAddr>>
    BY <1>2 DEF SetOrder, locating
  <2>2. Typed'
    BY <1>0, <2>1 DEF Typed, opening
  <2>3. OrderLoaded'
    BY <1>0, <2>1 DEF IInv, OrderLoaded, Typed
  <2>4. Flags'
    BY <2>1, FlagsKept, Zenon DEF Flags
  <2>5. OwnMemory' /\ AliasOfOpenTable'
    BY <2>1, AreasKept
  <2> QED
    BY <2>2, <2>3, <2>4, <2>5, Parts
<1>3. ASSUME NEW rec \in 0..MaxRecs, Seek(rec) PROVE IInv'
  <2> DEFINE hit == /\ Open(selected) /\ order[selected] = 1
                    /\ rec \in 1..recnos[selected]
             to == IF hit THEN rec ELSE current[selected]
  <2>1. /\ found' = [found EXCEPT ![selected] = hit] /\ MoveTo(to)
        /\ UNCHANGED <<size, table, addr, recnos, alias, selected, tag, order,
                       locActive, locAddr>>
    BY <1>3 DEF Seek, indexing, locating
  <2>2. to \in Int
    BY <1>0 DEF Typed
  <2>3. found' \in [Areas -> BOOLEAN]
    <3>1. hit \in BOOLEAN
      OBVIOUS
    <3> HIDE DEF hit
    <3> QED
      BY <1>0, <2>1, <3>1, Zenon DEF Flags
  <2> HIDE DEF to
  <2>4. /\ current' \in [Areas -> Int]
        /\ OwnMemory' /\ AliasOfOpenTable'
    BY <2>1, <2>2, PointerMoved
  <2>5. Typed'
    BY <1>0, <2>1, <2>4 DEF Typed
  <2>6. OrderLoaded'
    BY <2>1 DEF IInv, OrderLoaded
  <2>7. Flags'
    BY <2>1, <2>3, FlagsKept, Zenon DEF Flags
  <2> QED
    BY <2>4, <2>5, <2>6, <2>7, Parts
<1> QED
  BY <1>1, <1>2, <1>3

\* LOCATE and CONTINUE preserve the invariant.
LEMMA LocateHolds ==
    ASSUME IInv
    PROVE  (Locate => IInv') /\ (LocateClear => IInv') /\ (Continue => IInv')
<1>0. Typed /\ Flags
  BY TypeParts DEF IInv
<1>1. ASSUME Locate PROVE IInv'
  <2>1. /\ locActive' = [locActive EXCEPT ![selected] = TRUE]
        /\ locAddr' = [locAddr EXCEPT ![selected] = addr[selected]]
        /\ Scan(1)
        /\ UNCHANGED <<size, table, addr, recnos, alias, selected, tag, order>>
    BY <1>1 DEF Locate, indexing
  <2>2. /\ found' \in [Areas -> BOOLEAN] /\ current' \in [Areas -> Int]
        /\ OwnMemory' /\ AliasOfOpenTable'
    BY <2>1, ScanHolds
  <2>3. Typed'
    BY <1>0, <2>1, <2>2 DEF Typed
  <2>4. Flags'
    <3>1. locActive' \in [Areas -> BOOLEAN]
      BY <1>0, <2>1 DEF Flags
    <3> QED
      BY <2>2, <3>1, Zenon DEF Flags
  <2>5. OrderLoaded'
    BY <2>1 DEF IInv, OrderLoaded
  <2> QED
    BY <2>2, <2>3, <2>4, <2>5, Parts
<1>2. ASSUME LocateClear PROVE IInv'
  <2>1. /\ locActive' = [locActive EXCEPT ![selected] = FALSE]
        /\ UNCHANGED <<size, opening, selected, tag, order, found, locAddr>>
    BY <1>2 DEF LocateClear, indexing
  <2>2. Typed'
    BY <1>0, <2>1 DEF Typed, opening
  <2>3. Flags'
    <3>1. locActive' \in [Areas -> BOOLEAN]
      BY <1>0, <2>1 DEF Flags
    <3> QED
      BY <2>1, <3>1, FlagsKept, Zenon DEF Flags
  <2>4. OrderLoaded'
    BY <2>1 DEF IInv, OrderLoaded
  <2> QED
    BY <2>1, <2>2, <2>3, <2>4, AreasKept, Parts
<1>3. ASSUME Continue PROVE IInv'
  <2>1. UNCHANGED <<size, table, addr, recnos, alias, selected, tag, order, locAddr>>
    BY <1>3 DEF Continue, indexing
  <2>2. OrderLoaded'
    BY <2>1 DEF IInv, OrderLoaded
  <2>3. CASE Resumable(selected)
    <3>1. locActive' = locActive /\ Scan(current[selected] + 1)
      BY <1>3, <2>3 DEF Continue
    <3>2. current[selected] + 1 \in Int
      BY <1>0 DEF Typed
    <3>3. /\ found' \in [Areas -> BOOLEAN] /\ current' \in [Areas -> Int]
          /\ OwnMemory' /\ AliasOfOpenTable'
      BY <2>1, <3>1, <3>2, ScanHolds
    <3>4. Typed'
      BY <1>0, <2>1, <3>3 DEF Typed
    <3>5. Flags'
      BY <2>1, <3>1, <3>3, FlagsKept, Zenon DEF Flags
    <3> QED
      BY <2>2, <3>3, <3>4, <3>5, Parts
  <2>4. CASE ~Resumable(selected)
    <3>1. /\ locActive' = [locActive EXCEPT ![selected] = FALSE]
          /\ found' = [found EXCEPT ![selected] = FALSE]
          /\ current' = current
      BY <1>3, <2>4 DEF Continue
    <3>2. UNCHANGED opening
      BY <2>1, <3>1 DEF opening
    <3>3. Typed'
      BY <1>0, <2>1, <3>1 DEF Typed
    <3>4. Flags'
      <4>1. locActive' \in [Areas -> BOOLEAN]
        BY <1>0, <3>1 DEF Flags
      <4>2. found' \in [Areas -> BOOLEAN]
        BY <1>0, <3>1 DEF Flags
      <4> QED
        BY <2>1, <4>1, <4>2, FlagsKept, Zenon DEF Flags
    <3> QED
      BY <2>2, <3>2, <3>3, <3>4, AreasKept, Parts
  <2> QED
    BY <2>3, <2>4
<1> QED
  BY <1>1, <1>2, <1>3

\* Every step preserves the invariant.
LEMMA NextHolds == IInv /\ [Next]_vars => IInv'
<1> SUFFICES ASSUME IInv, [Next]_vars PROVE IInv'
  OBVIOUS
<1>1. ASSUME UNCHANGED vars PROVE IInv'
  <2>1. UNCHANGED <<size, opening, selected, tag, order, found, locActive, locAddr>>
    BY <1>1 DEF vars, indexing, locating
  <2>2. Typed'
    BY <2>1, TypeParts DEF IInv, Typed, opening
  <2>3. Flags'
    BY <2>1, FlagsKept, Zenon DEF Flags
  <2>4. OrderLoaded'
    BY <2>1 DEF IInv, OrderLoaded
  <2> QED
    BY <2>1, <2>2, <2>3, <2>4, AreasKept, Parts
<1>2. ASSUME Next PROVE IInv'
  BY <1>2, OpeningHolds, RecordsHold, IndexHolds, LocateHolds DEF Next
<1> QED
  BY <1>1, <1>2

-----------------------------------------------------------------------------
(* Theorems *)

\* The conjunction of the invariants holds in every reachable state.
THEOREM Invariance == Spec => []IInv
<1>1. Init => IInv
  BY InitHolds
<1>2. IInv /\ [Next]_vars => IInv'
  BY NextHolds
<1> QED
  BY <1>1, <1>2, PTL DEF Spec

\* Every variable keeps its type: the ten areas are all there is.
THEOREM TypeCorrect == Spec => []TypeOK
<1>1. IInv => TypeOK
  BY DEF IInv
<1> QED
  BY <1>1, Invariance, PTL

\* An open area owns its DATABASEDBF alone and a closed one has none.
THEOREM MemoryIsOwned == Spec => []OwnMemory
<1>1. IInv => OwnMemory
  BY DEF IInv
<1> QED
  BY <1>1, Invariance, PTL

\* An alias never outlives its table.
THEOREM AliasIsOfOpenTable == Spec => []AliasOfOpenTable
<1>1. IInv => AliasOfOpenTable
  BY DEF IInv
<1> QED
  BY <1>1, Invariance, PTL

\* An order in use is loaded.
THEOREM OrderIsLoaded == Spec => []OrderLoaded
<1>1. IInv => OrderLoaded
  BY DEF IInv
<1> QED
  BY <1>1, Invariance, PTL

\* A step that leaves every other area alone.
Elsewhere(a) ==
    \A b \in Areas \ {a} : AreaStays(b) /\ current'[b] = current[b]

\* USE touches the area it opens, which was closed, and no other.
LEMMA UseElsewhere ==
    ASSUME Typed, Flags, NEW t \in Tables, NEW al, NEW a \in Areas, NEW at,
           FirstFree(a), UseIn(a, t, al, at),
           \/ UNCHANGED <<tag, order, found>>
           \/ \E f \in Indexes \cup {None} : LoadIndex(a, f)
    PROVE  /\ selected' = a /\ Elsewhere(a)
           /\ \A b \in Areas : Open(b) => table'[b] = table[b]
<1>1. /\ table' = [table EXCEPT ![a] = t] /\ addr' = [addr EXCEPT ![a] = at]
      /\ recnos' = [recnos EXCEPT ![a] = size[t]] /\ current' = [current EXCEPT ![a] = 1]
      /\ alias' = [alias EXCEPT ![a] = al] /\ selected' = a
      /\ UNCHANGED <<locActive, locAddr>>
  BY DEF UseIn
<1>2. \A b \in Areas \ {a} :
         tag'[b] = tag[b] /\ order'[b] = order[b] /\ found'[b] = found[b]
  BY DEF LoadIndex, Typed, Flags
<1>3. \A b \in Areas \ {a} :
        /\ table'[b] = table[b] /\ addr'[b] = addr[b] /\ recnos'[b] = recnos[b]
        /\ current'[b] = current[b] /\ alias'[b] = alias[b]
  BY <1>1 DEF Typed
<1>4. ~Open(a)
  BY DEF FirstFree
<1> QED
  BY <1>1, <1>2, <1>3, <1>4 DEF Elsewhere, AreaStays

\* What a command of the selected area changes.
LEMMA SelectedOnly ==
    ASSUME Typed, Flags,
           \/ \E rec \in GoTargets : Go(rec)
           \/ AppendBlank
           \/ \E n \in 0..MaxRecs : Pack(n)
           \/ \E f \in Indexes \cup {None} : SetIndex(f)
           \/ \E n \in {0, 1} : SetOrder(n)
           \/ \E rec \in 0..MaxRecs : Seek(rec)
           \/ Locate \/ LocateClear \/ Continue
    PROVE  selected' = selected /\ table' = table /\ Elsewhere(selected)
<1> USE DEF Typed, Flags, Elsewhere, AreaStays, MoveTo, indexing, locating, opening
<1>1. CASE \E rec \in GoTargets : Go(rec)
  BY <1>1 DEF Go
<1>2. CASE AppendBlank
  BY <1>2 DEF AppendBlank
<1>3. CASE \E n \in 0..MaxRecs : Pack(n)
  BY <1>3 DEF Pack, Packed
<1>4. CASE \E f \in Indexes \cup {None} : SetIndex(f)
  BY <1>4 DEF SetIndex, LoadIndex
<1>5. CASE \E n \in {0, 1} : SetOrder(n)
  BY <1>5 DEF SetOrder
<1>6. CASE \E rec \in 0..MaxRecs : Seek(rec)
  BY <1>6 DEF Seek
<1>7. CASE Locate
  BY <1>7 DEF Locate, Scan
<1>8. CASE LocateClear
  BY <1>8 DEF LocateClear
<1>9. CASE Continue
  BY <1>9 DEF Continue, Scan
<1> QED
  BY <1>1, <1>2, <1>3, <1>4, <1>5, <1>6, <1>7, <1>8, <1>9

\* A PACK that cannot reopen its table closes it, and moves the pointer of the
\* first area.
LEMMA LostOnly ==
    ASSUME Typed, Flags, NEW n \in 0..MaxRecs, PackLost(n)
    PROVE  /\ Open(selected) /\ selected' = 1
           /\ table' = [table EXCEPT ![selected] = None]
           /\ \A a \in Areas \ {selected} : AreaStays(a)
           /\ \A a \in Areas \ {selected, 1} : current'[a] = current[a]
<1>1. /\ Open(selected) /\ selected' = 1
      /\ table' = [table EXCEPT ![selected] = None]
      /\ addr' = [addr EXCEPT ![selected] = None]
      /\ recnos' = [recnos EXCEPT ![selected] = 0]
      /\ alias' = [alias EXCEPT ![selected] = None]
      /\ UNCHANGED <<tag, order, found, locActive, locAddr>>
  BY DEF PackLost, Packed, indexing, locating
<1>2. \A a \in Areas \ {selected} : AreaStays(a)
  BY <1>1 DEF Typed, AreaStays
<1>3. \A a \in Areas \ {selected, 1} : current'[a] = current[a]
  BY DEF PackLost
<1> QED
  BY <1>1, <1>2, <1>3

\* A command works on the area that is selected after it; only CLOSE ALL and a
\* PACK that cannot reopen its table close one.
THEOREM OneArea == Spec => OneAreaAtATime
<1> DEFINE Other ==
       \/ /\ \A a \in Areas \ {selected'} : AreaStays(a) /\ PointerStays(a)
          /\ \A a \in Areas : Open(a) => table'[a] = table[a]
       \/ table' = PerArea(None)
       \/ /\ Open(selected) /\ selected' = 1
          /\ table' = [table EXCEPT ![selected] = None]
          /\ \A a \in Areas \ {selected} : AreaStays(a)
          /\ \A a \in Areas \ {selected, 1} : PointerStays(a)
<1>1. ASSUME IInv, Next PROVE Other
  <2>1. Typed /\ Flags
    BY <1>1, TypeParts DEF IInv
  <2>2. ASSUME NEW a \in Areas, selected' = a, Elsewhere(a),
               \A b \in Areas : Open(b) => table'[b] = table[b]
        PROVE  Other
    BY <2>2 DEF Elsewhere, PointerStays
  <2>3. ASSUME NEW a \in Areas, Select(a) PROVE Other
    <3>1. selected' = a /\ Elsewhere(a) /\ table' = table
      BY <2>3 DEF Select, Elsewhere, AreaStays, opening, indexing, locating
    <3> QED
      BY <2>2, <3>1
  <2>4. ASSUME NEW t \in Tables, NEW al \in Aliases \cup {None}, Use(t, al) PROVE Other
    <3>1. PICK a \in Areas, at \in Free : FirstFree(a) /\ UseIn(a, t, al, at)
      BY <2>4 DEF Use
    <3>2. UNCHANGED <<tag, order, found>>
      BY <2>4 DEF Use, indexing
    <3> QED
      BY <2>1, <2>2, <3>1, <3>2, UseElsewhere
  <2>5. ASSUME NEW t \in Tables, NEW al \in Aliases \cup {None},
               NEW f \in Indexes \cup {None}, UseIndex(t, al, f)
        PROVE  Other
    <3>1. PICK a \in Areas, at \in Free :
            FirstFree(a) /\ UseIn(a, t, al, at) /\ LoadIndex(a, f)
      BY <2>5 DEF UseIndex
    <3> QED
      BY <2>1, <2>2, <3>1, UseElsewhere
  <2>6. ASSUME CloseAll PROVE Other
    BY <2>6 DEF CloseAll
  <2>7. ASSUME selected' = selected, table' = table, Elsewhere(selected) PROVE Other
    BY <2>1, <2>2, <2>7 DEF Typed
  <2>8. ASSUME NEW a \in Areas, ReadField(a) PROVE Other
    <3>1. \A b \in Areas : AreaStays(b) /\ PointerStays(b)
      BY <2>1, <2>8 DEF ReadField, AreaStays, PointerStays, Typed, indexing, locating
    <3>2. table' = table
      BY <2>8 DEF ReadField
    <3> QED
      BY <3>1, <3>2
  <2>9. ASSUME NEW n \in 0..MaxRecs, PackLost(n) PROVE Other
    BY <2>1, <2>9, LostOnly DEF PointerStays
  <2> HIDE DEF Other
  <2> QED
    BY <1>1, <2>1, <2>3, <2>4, <2>5, <2>6, <2>7, <2>8, <2>9, SelectedOnly DEF Next
<1>2. IInv /\ [Next]_vars => [Other]_vars
  BY <1>1
<1> QED
  BY <1>2, Invariance, PTL DEF Spec, OneAreaAtATime

\* The pointer that returns after a PACK, from a record, is on a record.
LEMMA ReturnOnRecord ==
    ASSUME NEW n \in Nat, n >= 1, NEW cur \in 1..n, NEW rec \in Int, rec >= 1
    PROVE  Return(cur, n, rec) \in 1..n
  BY DEF Return, Goto

\* What a step may do to the pointer of area a that is on a record.
KeepsRecord(a) ==
    OnRecord(a) /\ OffRecords(a)' =>
        \/ \E rec \in GoTargets : rec < 1 /\ Go(rec)
        \/ a = 1 /\ current[selected] < 1 /\ table'[selected] = None

\* A pointer that stays, in a table whose count stays, is on a record as before.
LEMMA StillOnRecord ==
    ASSUME NEW a \in Areas, current'[a] = current[a], recnos'[a] = recnos[a]
    PROVE  KeepsRecord(a)
  BY DEF KeepsRecord, OnRecord, OffRecords

\* So is one that goes to a record.
LEMMA NowOnRecord ==
    ASSUME NEW a \in Areas, current'[a] \in 1..recnos'[a]
    PROVE  KeepsRecord(a)
  BY DEF KeepsRecord, OnRecord, OffRecords

\* SELECT, USE and CLOSE ALL keep a pointer on its record.
LEMMA OpeningKeeps ==
    ASSUME Typed, NEW a \in Areas
    PROVE  /\ \A b \in Areas : Select(b) => KeepsRecord(a)
           /\ \A b \in Areas, t \in Tables, al \in Aliases \cup {None}, at \in Free :
                 UseIn(b, t, al, at) => KeepsRecord(a)
           /\ CloseAll => KeepsRecord(a)
<1>1. ASSUME NEW b \in Areas, Select(b) PROVE KeepsRecord(a)
  BY <1>1, StillOnRecord DEF Select, opening
<1>2. ASSUME NEW b \in Areas, NEW t \in Tables, NEW al \in Aliases \cup {None},
             NEW at \in Free, UseIn(b, t, al, at)
      PROVE  KeepsRecord(a)
  <2>1. /\ recnos' = [recnos EXCEPT ![b] = size[t]]
        /\ current' = [current EXCEPT ![b] = 1]
    BY <1>2 DEF UseIn
  <2>2. CASE a = b
    <3>1. current'[a] = 1 /\ recnos'[a] \in Nat
      BY <2>1, <2>2 DEF Typed
    <3> QED
      BY <3>1 DEF KeepsRecord, OffRecords, OnRecord
  <2>3. CASE a # b
    BY <2>1, <2>3, StillOnRecord DEF Typed
  <2> QED
    BY <2>2, <2>3
<1>3. ASSUME CloseAll PROVE KeepsRecord(a)
  BY <1>3 DEF CloseAll, PerArea, KeepsRecord, OffRecords, Open
<1> QED
  BY <1>1, <1>2, <1>3

\* GO takes it off only below record 1; reading, APPEND and PACK do not.
LEMMA RecordsKeep ==
    ASSUME Typed, NEW a \in Areas
    PROVE  /\ \A rec \in GoTargets : Go(rec) => KeepsRecord(a)
           /\ \A b \in Areas : ReadField(b) => KeepsRecord(a)
           /\ AppendBlank => KeepsRecord(a)
           /\ \A n \in 0..MaxRecs : Pack(n) => KeepsRecord(a)
           /\ \A n \in 0..MaxRecs : PackLost(n) => KeepsRecord(a)
<1> USE MaxRecsAssumption
<1>0. selected \in Areas /\ recnos[selected] \in Nat /\ current[selected] \in Int
      /\ recnos[a] \in Nat /\ current[a] \in Int
  BY DEF Typed
<1>1. ASSUME NEW rec \in GoTargets, Go(rec) PROVE KeepsRecord(a)
  <2>0. rec \in Int
    BY TargetsAssumption
  <2>1. recnos' = recnos
        /\ current' = [current EXCEPT
                         ![selected] = Goto(current[selected], recnos[selected], rec)]
    BY <1>1 DEF Go, MoveTo
  <2>2. CASE rec < 1
    BY <1>1, <2>2 DEF KeepsRecord
  <2>3. CASE rec >= 1
    <3>1. a # selected => current'[a] = current[a]
      BY <2>1 DEF Typed
    <3>2. CASE a = selected /\ recnos[selected] >= rec
      <4>1. current'[a] = rec /\ recnos'[a] = recnos[a]
        BY <2>1, <3>2 DEF Typed, Goto
      <4> QED
        BY <1>0, <2>0, <2>3, <3>2, <4>1, NowOnRecord
    <3>3. CASE a = selected /\ ~(recnos[selected] >= rec)
      <4>1. current'[a] = current[a] /\ recnos'[a] = recnos[a]
        BY <2>1, <3>3 DEF Typed, Goto
      <4> QED
        BY <4>1, StillOnRecord
    <3> QED
      BY <2>1, <3>1, <3>2, <3>3, StillOnRecord
  <2> QED
    BY <2>0, <2>2, <2>3
<1>2. ASSUME NEW b \in Areas, ReadField(b) PROVE KeepsRecord(a)
  <2>1. current' = [current EXCEPT ![b] = 1] /\ current[b] = 0 /\ recnos' = recnos
    BY <1>2 DEF ReadField
  <2>2. CASE a = b
    BY <1>0, <2>1, <2>2 DEF KeepsRecord, OnRecord
  <2>3. CASE a # b
    BY <2>1, <2>3, StillOnRecord DEF Typed
  <2> QED
    BY <2>2, <2>3
<1>3. ASSUME AppendBlank PROVE KeepsRecord(a)
  <2>1. recnos' = [recnos EXCEPT ![selected] = recnos[selected] + 1]
        /\ current' = [current EXCEPT ![selected] = recnos[selected] + 1]
    BY <1>3 DEF AppendBlank, MoveTo
  <2>2. CASE a = selected
    <3>1. current'[a] = recnos[a] + 1 /\ recnos'[a] = recnos[a] + 1
      BY <2>1, <2>2 DEF Typed
    <3> QED
      BY <1>0, <3>1, NowOnRecord
  <2>3. CASE a # selected
    BY <2>1, <2>3, StillOnRecord DEF Typed
  <2> QED
    BY <2>2, <2>3
<1>4. ASSUME NEW n \in 0..MaxRecs, Pack(n) PROVE KeepsRecord(a)
  <2>1. recnos' = [recnos EXCEPT ![selected] = n]
        /\ current' = [current EXCEPT ![selected] = Return(1, n, current[selected])]
    BY <1>4 DEF Pack, MoveTo
  <2>2. CASE a = selected
    <3>1. current'[a] = Return(1, n, current[a]) /\ recnos'[a] = n /\ n \in Nat
      BY <2>1, <2>2 DEF Typed
    <3>2. CASE n >= 1 /\ OnRecord(a)
      <4>1. current[a] >= 1 /\ 1 \in 1..n
        BY <1>0, <3>1, <3>2 DEF OnRecord
      <4>2. Return(1, n, current[a]) \in 1..n
        BY <1>0, <3>1, <3>2, <4>1, ReturnOnRecord
      <4> QED
        BY <3>1, <4>2, NowOnRecord
    <3>3. CASE ~(n >= 1 /\ OnRecord(a))
      BY <3>1, <3>3 DEF KeepsRecord, OffRecords
    <3> QED
      BY <3>2, <3>3
  <2>3. CASE a # selected
    BY <2>1, <2>3, StillOnRecord DEF Typed
  <2> QED
    BY <2>2, <2>3
<1>5. ASSUME NEW n \in 0..MaxRecs, PackLost(n) PROVE KeepsRecord(a)
  <2>1. /\ table' = [table EXCEPT ![selected] = None]
        /\ recnos' = [recnos EXCEPT ![selected] = 0]
        /\ current' =
              [b \in Areas |->
                 IF b = selected THEN 0
                 ELSE IF b = 1 /\ Open(b)
                 THEN Return(current[b], recnos[b], current[selected])
                 ELSE current[b]]
    BY <1>5 DEF PackLost
  <2>2. table'[selected] = None
    BY <1>0, <2>1 DEF Typed
  <2>3. CASE a = selected
    BY <2>2, <2>3, <1>0, <2>1 DEF KeepsRecord, OffRecords, Open, Typed
  <2>4. CASE a # selected /\ ~(a = 1 /\ Open(a))
    <3>1. current'[a] = current[a] /\ recnos'[a] = recnos[a]
      BY <2>1, <2>4 DEF Typed
    <3> QED
      BY <3>1, StillOnRecord
  <2>5. CASE a # selected /\ a = 1 /\ Open(a)
    <3>1. current'[a] = Return(current[a], recnos[a], current[selected])
          /\ recnos'[a] = recnos[a]
      BY <2>1, <2>5 DEF Typed
    <3>2. CASE current[selected] < 1
      BY <2>2, <2>5, <3>2 DEF KeepsRecord
    <3>3. CASE ~(current[selected] < 1) /\ OnRecord(a)
      <4>1. current[selected] >= 1 /\ recnos[a] >= 1 /\ current[a] \in 1..recnos[a]
        BY <1>0, <3>3 DEF OnRecord
      <4>2. Return(current[a], recnos[a], current[selected]) \in 1..recnos[a]
        BY <1>0, <4>1, ReturnOnRecord
      <4> QED
        BY <3>1, <4>2, NowOnRecord
    <3>4. CASE ~OnRecord(a)
      BY <3>4 DEF KeepsRecord
    <3> QED
      BY <3>2, <3>3, <3>4
  <2> QED
    BY <2>3, <2>4, <2>5
<1> QED
  BY <1>1, <1>2, <1>3, <1>4, <1>5

\* A scan that starts behind the pointer, or at the top, ends on a record.
LEMMA ScanKeeps ==
    ASSUME Typed, NEW a \in Areas, NEW from \in Int, Scan(from), recnos' = recnos,
           from >= 1 \/ (a = selected => ~OnRecord(a))
    PROVE  KeepsRecord(a)
<1>0. selected \in Areas /\ recnos[selected] \in Nat
  BY DEF Typed
<1>1. CASE a # selected
  <2>1. current'[a] = current[a]
    BY <1>1 DEF Scan, MoveTo, Typed
  <2> QED
    BY <2>1, StillOnRecord
<1>2. CASE a = selected /\ ~OnRecord(a)
  BY <1>2 DEF KeepsRecord
<1>3. CASE a = selected /\ from >= 1
  <2>1. CASE from <= recnos[selected]
    <3>1. PICK rec \in from..recnos[selected] : MoveTo(rec) \/ (rec = 0 /\ MoveTo(1))
      BY <2>1 DEF Scan
    <3>2. rec \in 1..recnos[selected] /\ MoveTo(rec)
      BY <1>0, <1>3, <3>1
    <3>3. current'[a] = rec
      BY <1>3, <3>2 DEF MoveTo, Typed
    <3> QED
      BY <1>3, <3>2, <3>3, NowOnRecord
  <2>2. CASE ~(from <= recnos[selected])
    <3>1. current' = current
      BY <2>2 DEF Scan
    <3> QED
      BY <3>1, StillOnRecord
  <2> QED
    BY <2>1, <2>2
<1> QED
  BY <1>1, <1>2, <1>3

\* SET INDEX, SET ORDER, SEEK, LOCATE and CONTINUE keep a pointer on a record.
LEMMA IndexKeeps ==
    ASSUME Typed, NEW a \in Areas
    PROVE  /\ \A f \in Indexes \cup {None} : SetIndex(f) => KeepsRecord(a)
           /\ \A n \in {0, 1} : SetOrder(n) => KeepsRecord(a)
           /\ \A rec \in 0..MaxRecs : Seek(rec) => KeepsRecord(a)
           /\ Locate => KeepsRecord(a)
           /\ LocateClear => KeepsRecord(a)
           /\ Continue => KeepsRecord(a)
<1>1. ASSUME NEW f \in Indexes \cup {None}, SetIndex(f) PROVE KeepsRecord(a)
  BY <1>1, StillOnRecord DEF SetIndex, opening
<1>2. ASSUME NEW n \in {0, 1}, SetOrder(n) PROVE KeepsRecord(a)
  BY <1>2, StillOnRecord DEF SetOrder, opening
<1>3. ASSUME NEW rec \in 0..MaxRecs, Seek(rec) PROVE KeepsRecord(a)
  <2> DEFINE hit == /\ Open(selected) /\ order[selected] = 1
                    /\ rec \in 1..recnos[selected]
  <2>1. /\ current' = [current EXCEPT
                         ![selected] = IF hit THEN rec ELSE current[selected]]
        /\ recnos' = recnos
    BY <1>3 DEF Seek, MoveTo
  <2>2. CASE a = selected /\ hit
    <3>1. current'[a] = rec /\ rec \in 1..recnos'[a]
      BY <2>1, <2>2 DEF Typed
    <3> QED
      BY <3>1, NowOnRecord
  <2>3. CASE ~(a = selected /\ hit)
    <3>1. current'[a] = current[a] /\ recnos'[a] = recnos[a]
      BY <2>1, <2>3 DEF Typed
    <3> QED
      BY <3>1, StillOnRecord
  <2> QED
    BY <2>2, <2>3
<1>4. ASSUME Locate PROVE KeepsRecord(a)
  BY <1>4, ScanKeeps DEF Locate
<1>5. ASSUME LocateClear PROVE KeepsRecord(a)
  BY <1>5, StillOnRecord DEF LocateClear, opening
<1>6. ASSUME Continue PROVE KeepsRecord(a)
  <2>0. recnos' = recnos
    BY <1>6 DEF Continue
  <2>1. CASE Resumable(selected)
    <3>1. Scan(current[selected] + 1)
      BY <1>6, <2>1 DEF Continue
    <3>2. current[selected] + 1 \in Int
      BY DEF Typed
    <3>3. current[selected] + 1 >= 1 \/ (a = selected => ~OnRecord(a))
      BY DEF Typed, OnRecord
    <3> QED
      BY <2>0, <3>1, <3>2, <3>3, ScanKeeps
  <2>2. CASE ~Resumable(selected)
    <3>1. current' = current
      BY <1>6, <2>2 DEF Continue
    <3> QED
      BY <2>0, <3>1, StillOnRecord
  <2> QED
    BY <2>1, <2>2
<1> QED
  BY <1>1, <1>2, <1>3, <1>4, <1>5, <1>6

\* Only a GO below record 1, or a lost PACK with such a pointer, takes a pointer
\* off the records of its table.
THEOREM PointerLeavesOnlyByGo == Spec => OnlyGoLeavesRecords
<1>1. ASSUME IInv, Next, NEW a \in Areas PROVE KeepsRecord(a)
  <2>1. Typed
    BY <1>1, TypeParts DEF IInv
  <2>2. ASSUME NEW t \in Tables, NEW al \in Aliases \cup {None}, Use(t, al)
        PROVE  KeepsRecord(a)
    BY <2>1, <2>2, OpeningKeeps DEF Use
  <2>3. ASSUME NEW t \in Tables, NEW al \in Aliases \cup {None},
               NEW f \in Indexes \cup {None}, UseIndex(t, al, f)
        PROVE  KeepsRecord(a)
    BY <2>1, <2>3, OpeningKeeps DEF UseIndex
  <2> QED
    BY <1>1, <2>1, <2>2, <2>3, OpeningKeeps, RecordsKeep, IndexKeeps DEF Next
<1>2. IInv /\ [Next]_vars => [\A a \in Areas : KeepsRecord(a)]_vars
  BY <1>1
<1> QED
  BY <1>2, Invariance, PTL DEF Spec, OnlyGoLeavesRecords, KeepsRecord
=============================================================================
