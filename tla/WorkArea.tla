------------------------------ MODULE WorkArea ------------------------------
(***************************************************************************)
(* The work areas of the interpreter (workarea.c, and the commands of      *)
(* executor.c that use them): which table is open where, under which       *)
(* alias, which area is selected, the index and the last LOCATE of each    *)
(* area, and what USE, CLOSE ALL, SELECT, PACK, SEEK, LOCATE and CONTINUE  *)
(* do to all of them.                                                      *)
(*                                                                         *)
(* A table is its number of records; a search may find any of them.  The   *)
(* memory of a DATABASEDBF is an address: free() makes it available, and   *)
(* calloc() may return any that is.                                        *)
(***************************************************************************)
EXTENDS Integers, FiniteSets

CONSTANTS
    NAreas,         \* MAX_WORK_AREAS
    Tables,         \* the .dbf files
    Aliases,        \* the names given by USE ... ALIAS
    Indexes,        \* the index files
    Addresses,      \* where calloc() may put a DATABASEDBF
    None,           \* no table, alias, index or address (NULL)
    GoTargets,      \* the numbers a program gives to GO
    MaxRecs         \* bound: the records of a table

ASSUME AreasAssumption == NAreas \in Nat /\ NAreas >= 1
ASSUME NoneAssumption ==
    None \notin Tables \cup Aliases \cup Indexes \cup Addresses
\* calloc() always finds room.
ASSUME AddressesAssumption ==
    IsFiniteSet(Addresses) /\ Cardinality(Addresses) >= NAreas
ASSUME MaxRecsAssumption == MaxRecs \in Nat
ASSUME TargetsAssumption == GoTargets \subseteq Int

Areas == 1..NAreas

VARIABLES
    size,       \* the record count in the header of each table
    table,      \* per area: the table open there
    addr,       \* per area: the address of its DATABASEDBF, areas[]
    recnos,     \* per area: the record count it read
    current,    \* per area: the record pointer
    alias,      \* per area: custom_aliases[]
    selected,   \* the selected area
    tag,        \* per area: the index loaded (SET INDEX loads one)
    order,      \* per area: active_order, 0 or 1
    found,      \* per area: last_found
    locActive,  \* per area: a LOCATE was executed
    locAddr     \* per area: the DATABASEDBF it ran on

opening == <<table, addr, recnos, current, alias>>
indexing == <<tag, order>>
locating == <<locActive, locAddr>>
vars == <<size, opening, selected, indexing, found, locating>>

PerArea(v) == [a \in Areas |-> v]

Init ==
    /\ size \in [Tables -> 0..MaxRecs]
    /\ table = PerArea(None) /\ addr = PerArea(None)
    /\ recnos = PerArea(0) /\ current = PerArea(0)
    /\ alias = PerArea(None)
    /\ selected = 1
    /\ tag = PerArea(None) /\ order = PerArea(0) /\ found = PerArea(FALSE)
    /\ locActive = PerArea(FALSE) /\ locAddr = PerArea(None)

Open(a) == table[a] # None

\* calloc(): an address no DATABASEDBF is at.
Free == Addresses \ {addr[a] : a \in Areas}

\* gotos(): any number up to the count is a record number, 0 and less included.
Goto(cur, n, rec) == IF n >= rec THEN rec ELSE cur

-----------------------------------------------------------------------------
(* SELECT, USE and CLOSE ALL *)

\* Mutant: areas counted from 0.
SelectFromZero(a) ==
    /\ selected' = a - 1
    /\ UNCHANGED <<size, opening, indexing, found, locating>>

\* wa_select() refuses other numbers; SELECT with anything but a number is
\* SELECT 1.
Select(a) ==
    /\ selected' = a
    /\ UNCHANGED <<size, opening, indexing, found, locating>>

\* Mutant: a file that is missing is taken for the active order.
LoadIndexAlways(a, f) ==
    /\ tag' = [tag EXCEPT ![a] = f]
    /\ order' = [order EXCEPT ![a] = 1]
    /\ found' = [found EXCEPT ![a] = FALSE]

\* Mutant: USE loads its index in the area that was selected before.
LoadIndexSelected(a, f) ==
    /\ tag' = [tag EXCEPT ![selected] = f]
    /\ order' = [order EXCEPT ![selected] = IF f = None THEN 0 ELSE 1]
    /\ found' = [found EXCEPT ![selected] = FALSE]

\* SET INDEX TO in area a: the old index is closed before the new one is tried,
\* which may be missing (f = None).
LoadIndex(a, f) ==
    /\ tag' = [tag EXCEPT ![a] = f]
    /\ order' = [order EXCEPT ![a] = IF f = None THEN 0 ELSE 1]
    /\ found' = [found EXCEPT ![a] = FALSE]

\* USE takes the first free area whatever area is selected, and selects it.
\* Only its INDEX clause touches what an earlier table left there.  A USE that
\* finds no free area, or cannot open its file, changes nothing and skips INDEX.
UseIn(a, t, al, at) ==
    /\ table' = [table EXCEPT ![a] = t]
    /\ addr' = [addr EXCEPT ![a] = at]
    /\ recnos' = [recnos EXCEPT ![a] = size[t]]
    /\ current' = [current EXCEPT ![a] = 1]
    /\ alias' = [alias EXCEPT ![a] = al]
    /\ selected' = a
    /\ UNCHANGED <<size, locActive, locAddr>>

FirstFree(a) == ~Open(a) /\ \A b \in 1..(a - 1) : Open(b)

Use(t, al) ==
    \E a \in Areas, at \in Free :
        /\ FirstFree(a) /\ UseIn(a, t, al, at)
        /\ UNCHANGED <<indexing, found>>

UseIndex(t, al, f) ==
    \E a \in Areas, at \in Free :
        FirstFree(a) /\ UseIn(a, t, al, at) /\ LoadIndex(a, f)

\* Mutant: areas[] keeps the pointers that were freed.
CloseAllDangling ==
    /\ table' = PerArea(None)
    /\ recnos' = PerArea(0) /\ current' = PerArea(0)
    /\ alias' = PerArea(None)
    /\ selected' = 1
    /\ UNCHANGED <<size, addr, indexing, found, locating>>

\* Mutant: CLOSE ALL forgets the aliases.
CloseAllKeepsAlias ==
    /\ table' = PerArea(None) /\ addr' = PerArea(None)
    /\ recnos' = PerArea(0) /\ current' = PerArea(0)
    /\ selected' = 1
    /\ UNCHANGED <<size, alias, indexing, found, locating>>

\* CLOSE, CLOSE ALL and CLEAR ALL: indexes and LOCATEs stay.
CloseAll ==
    /\ table' = PerArea(None) /\ addr' = PerArea(None)
    /\ recnos' = PerArea(0) /\ current' = PerArea(0)
    /\ alias' = PerArea(None)
    /\ selected' = 1
    /\ UNCHANGED <<size, indexing, found, locating>>

-----------------------------------------------------------------------------
(* Commands on the selected area *)

MoveTo(rec) == current' = [current EXCEPT ![selected] = rec]

Go(rec) ==
    /\ Open(selected)
    /\ MoveTo(Goto(current[selected], recnos[selected], rec))
    /\ UNCHANGED <<size, table, addr, recnos, alias, selected, indexing, found,
                   locating>>

AppendBlank ==
    /\ Open(selected) /\ recnos[selected] < MaxRecs
    /\ recnos' = [recnos EXCEPT ![selected] = @ + 1]
    /\ size' = [size EXCEPT ![table[selected]] = recnos[selected] + 1]
    /\ MoveTo(recnos[selected] + 1)
    /\ UNCHANGED <<table, addr, alias, selected, indexing, found, locating>>

\* get_field(), in whatever area an expression names: a pointer of 0 moves to
\* record 1, there or not.
ReadField(a) ==
    /\ Open(a) /\ current[a] = 0
    /\ current' = [current EXCEPT ![a] = 1]
    /\ UNCHANGED <<size, table, addr, recnos, alias, selected, indexing, found,
                   locating>>

\* The count PACK leaves in the header: of the records it kept, or the one that
\* was there when it cannot make its new file.
Packed(n) ==
    /\ Open(selected)
    /\ n <= recnos[selected] \/ n = size[table[selected]]
    /\ size' = [size EXCEPT ![table[selected]] = n]

\* wa_goto(rec), then wa_goto_bottom() if wa_eof().
Return(cur, n, rec) ==
    LET back == Goto(cur, n, rec)
    IN  IF back >= n THEN Goto(back, n, n) ELSE back

\* wa_pack().  The area is closed, which frees its alias and its DATABASEDBF,
\* and opened again; the pointer returns, or goes to the bottom.
Pack(n) ==
    /\ Packed(n)
    /\ recnos' = [recnos EXCEPT ![selected] = n]
    /\ MoveTo(Return(1, n, current[selected]))
    /\ \E at \in Free \cup {addr[selected]} : addr' = [addr EXCEPT ![selected] = at]
    /\ alias' = [alias EXCEPT ![selected] = None]
    /\ UNCHANGED <<table, selected, indexing, found, locating>>

\* wa_pack() when the table cannot be opened again: closing it selected the
\* first area, and what is open there takes the move of the pointer.
PackLost(n) ==
    /\ Packed(n)
    /\ table' = [table EXCEPT ![selected] = None]
    /\ addr' = [addr EXCEPT ![selected] = None]
    /\ recnos' = [recnos EXCEPT ![selected] = 0]
    /\ alias' = [alias EXCEPT ![selected] = None]
    /\ current' =
          [a \in Areas |->
             IF a = selected THEN 0
             ELSE IF a = 1 /\ Open(a)
             THEN Return(current[a], recnos[a], current[selected])
             ELSE current[a]]
    /\ selected' = 1
    /\ UNCHANGED <<indexing, found, locating>>

\* SET INDEX TO a file that is there, to one that is not, or to nothing.  With
\* no table open the old index is closed all the same.
SetIndex(f) ==
    /\ LoadIndex(selected, IF Open(selected) THEN f ELSE None)
    /\ UNCHANGED <<size, opening, selected, locating>>

\* An order that is not loaded is ignored.
SetOrder(n) ==
    /\ n = 0 \/ tag[selected] # None
    /\ order' = [order EXCEPT ![selected] = n]
    /\ UNCHANGED <<size, opening, selected, tag, found, locating>>

\* Mutant: SEEK goes where the index says.
SeekUnchecked(rec) ==
    LET hit == Open(selected) /\ order[selected] = 1
    IN  /\ found' = [found EXCEPT ![selected] = hit]
        /\ MoveTo(IF hit THEN rec ELSE current[selected])
        /\ UNCHANGED <<size, table, addr, recnos, alias, selected, indexing,
                       locating>>

\* SEEK: the index answers rec, 0 if it does not know the key.
Seek(rec) ==
    LET hit == /\ Open(selected) /\ order[selected] = 1
               /\ rec \in 1..recnos[selected]
    IN  /\ found' = [found EXCEPT ![selected] = hit]
        /\ MoveTo(IF hit THEN rec ELSE current[selected])
        /\ UNCHANGED <<size, table, addr, recnos, alias, selected, indexing,
                       locating>>

-----------------------------------------------------------------------------
(* LOCATE and CONTINUE *)

\* A scan of the records from..recnos ends on one of them, the match or where
\* the WHILE clause or the end of the table stopped it; there may be none.  A
\* clause that reads a field at 0 moves the pointer to 1.
Scan(from) ==
    \E ok \in BOOLEAN :
        /\ found' = [found EXCEPT ![selected] = ok]
        /\ IF from <= recnos[selected]
           THEN \E rec \in from..recnos[selected] :
                   MoveTo(rec) \/ (rec = 0 /\ MoveTo(1))
           ELSE ~ok /\ UNCHANGED current

Locate ==
    /\ locActive' = [locActive EXCEPT ![selected] = TRUE]
    /\ locAddr' = [locAddr EXCEPT ![selected] = addr[selected]]
    /\ Scan(1)
    /\ UNCHANGED <<size, table, addr, recnos, alias, selected, indexing>>

\* LOCATE without FOR.
LocateClear ==
    /\ locActive' = [locActive EXCEPT ![selected] = FALSE]
    /\ UNCHANGED <<size, opening, selected, indexing, found, locAddr>>

\* wa_locate_active(): the LOCATE ran on the DATABASEDBF that is there now.
Resumable(a) == locActive[a] /\ locAddr[a] = addr[a]

Continue ==
    /\ IF Resumable(selected)
       THEN locActive' = locActive /\ Scan(current[selected] + 1)
       ELSE /\ locActive' = [locActive EXCEPT ![selected] = FALSE]
            /\ found' = [found EXCEPT ![selected] = FALSE]
            /\ current' = current
    /\ UNCHANGED <<size, table, addr, recnos, alias, selected, indexing,
                   locAddr>>

Next ==
    \/ \E a \in Areas : Select(a)
    \/ \E t \in Tables, al \in Aliases \cup {None} :
          Use(t, al) \/ \E f \in Indexes \cup {None} : UseIndex(t, al, f)
    \/ CloseAll
    \/ \E rec \in GoTargets : Go(rec)
    \/ \E a \in Areas : ReadField(a)
    \/ AppendBlank
    \/ \E n \in 0..MaxRecs : Pack(n) \/ PackLost(n)
    \/ \E f \in Indexes \cup {None} : SetIndex(f)
    \/ \E n \in {0, 1} : SetOrder(n)
    \/ \E rec \in 0..MaxRecs : Seek(rec)
    \/ Locate \/ LocateClear \/ Continue

Spec == Init /\ [][Next]_vars

-----------------------------------------------------------------------------
(* Properties *)

\* The types of the areas; the selected area is one of them.
TypeOK ==
    /\ size \in [Tables -> Nat]
    /\ table \in [Areas -> Tables \cup {None}]
    /\ addr \in [Areas -> Addresses \cup {None}]
    /\ recnos \in [Areas -> Nat] /\ current \in [Areas -> Int]
    /\ alias \in [Areas -> Aliases \cup {None}]
    /\ selected \in Areas
    /\ tag \in [Areas -> Indexes \cup {None}]
    /\ order \in [Areas -> {0, 1}]
    /\ found \in [Areas -> BOOLEAN]
    /\ locActive \in [Areas -> BOOLEAN]
    /\ locAddr \in [Areas -> Addresses \cup {None}]

\* Every open area has a DATABASEDBF of its own, and every closed one none: no
\* free() is forgotten or done twice by USE, CLOSE ALL and the reopening in PACK.
OwnMemory ==
    /\ \A a \in Areas : Open(a) <=> addr[a] # None
    /\ \A a, b \in Areas : a # b /\ Open(a) => addr[a] # addr[b]

\* An alias outlives the table it was given to in no area, although PACK closes
\* and reopens an area and CLOSE ALL closes those that are not selected: ALIAS()
\* answers with an alias before it looks whether a table is open.
AliasOfOpenTable == \A a \in Areas : alias[a] # None => Open(a)

\* An order in use is one that is loaded: idx_active_tag() never returns a tag
\* that SET INDEX has closed.
OrderLoaded == \A a \in Areas : order[a] = 1 => tag[a] # None

\* The pointer of area a is on a record; it is not, in a table that has some.
OnRecord(a) == current[a] \in 1..recnos[a]
OffRecords(a) == Open(a) /\ recnos[a] >= 1 /\ ~OnRecord(a)

\* Only a GO to 0 or less takes a pointer off the records of its table, and a
\* PACK that cannot reopen its own table with such a pointer, which it passes to
\* the first area: no SEEK through the index of another table, no CONTINUE in a
\* table that PACK made shorter, no APPEND through a stale count does.
OnlyGoLeavesRecords ==
    [][\A a \in Areas : OnRecord(a) /\ OffRecords(a)' =>
          \/ \E rec \in GoTargets : rec < 1 /\ Go(rec)
          \/ a = 1 /\ current[selected] < 1 /\ table'[selected] = None]_vars

\* All of area a but its pointer stays.
AreaStays(a) ==
    /\ table'[a] = table[a] /\ addr'[a] = addr[a] /\ recnos'[a] = recnos[a]
    /\ alias'[a] = alias[a] /\ tag'[a] = tag[a] /\ order'[a] = order[a]
    /\ found'[a] = found[a]
    /\ locActive'[a] = locActive[a] /\ locAddr'[a] = locAddr[a]

\* The pointer of area a stays, or an expression read a field at 0.
PointerStays(a) == current'[a] = current[a] \/ (current[a] = 0 /\ current'[a] = 1)

\* A command works on one area, the one that is selected afterwards: what is
\* open elsewhere, its alias, pointer, index, FOUND() and LOCATE, stays, and no
\* table is closed, so that USE never takes an area in use.  CLOSE ALL is one
\* exception.  The other is a PACK that cannot reopen its table: it closes that
\* one alone, and in the area it selects nothing but the pointer moves.
OneAreaAtATime ==
    [][\/ /\ \A a \in Areas \ {selected'} : AreaStays(a) /\ PointerStays(a)
          /\ \A a \in Areas : Open(a) => table'[a] = table[a]
       \/ table' = PerArea(None)
       \/ /\ Open(selected) /\ selected' = 1
          /\ table' = [table EXCEPT ![selected] = None]
          /\ \A a \in Areas \ {selected} : AreaStays(a)
          /\ \A a \in Areas \ {selected, 1} : PointerStays(a)]_vars
=============================================================================
