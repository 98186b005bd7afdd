-------------------------------- MODULE Ndx --------------------------------
(***************************************************************************)
(* An index file (.ndx) of a table: INDEX ON builds it from the keys the   *)
(* records have then (exec_index, create_index_ndx_generic), SEEK descends *)
(* from its root page to a record (wa_seek, seek_ndx_btree).               *)
(*                                                                         *)
(* Page 0 is a header that names the root page, the leaves follow in the   *)
(* order of their keys, the root comes last.  The file is written once:    *)
(* REPLACE, APPEND BLANK and PACK leave it as it is.                       *)
(*                                                                         *)
(* A key is a sequence of letters, upper case and lower case alike, blanks *)
(* at its end stripped.                                                    *)
(***************************************************************************)
EXTENDS Naturals, Integers, Sequences, SequencesExt, TLC

CONSTANTS
    Tables,     \* the tables at the start: the keys of the records
    Keys,       \* the keys a record may be given
    Criteria,   \* the texts searched for
    PageSizes,  \* the entries a page may hold, which its key length decides
    Radix,      \* the values of a byte
    MaxRecs,    \* bound: the records of a table that grows
    MaxEdits    \* bound: the edits of a run

\* A page of 512 bytes holds at most 56 entries, fewer than half a byte counts.
ASSUME PagesAssumption ==
    /\ Radix \in Nat /\ Radix > 2
    /\ PageSizes \subseteq 1..(Radix \div 2 - 1)
ASSUME TablesAssumption ==
    /\ MaxRecs \in Nat /\ MaxEdits \in Nat
    /\ Keys \subseteq Seq(Nat) /\ Criteria \subseteq Seq(Nat)
    /\ Tables \subseteq Seq(Keys)

VARIABLES
    keys,       \* per record: its key at present, <<>> for none
    current,    \* the record pointer
    found,      \* last_found: what FOUND() answers
    index,      \* the file: its leaves, and how many entries a page holds
    seek,       \* the SEEK under way: what it looks for and the page it is at
    edits

vars == <<keys, current, found, index, seek, edits>>

-----------------------------------------------------------------------------
(* Comparing keys *)

Shared(k, c) == 1..(IF Len(k) < Len(c) THEN Len(k) ELSE Len(c))

\* strncasecmp() over the shorter of the two: equal, and less.
Agree(k, c) == \A i \in Shared(k, c) : k[i] = c[i]

Less(k, c) == \E i \in Shared(k, c) : /\ k[i] < c[i]
                                      /\ \A j \in 1..(i - 1) : k[j] = c[j]

\* The order of the leaves: by key, and by record where keys are equal.
Before(ks, r, q) ==
    \/ Less(ks[r], ks[q])
    \/ Agree(ks[r], ks[q]) /\ Len(ks[r]) < Len(ks[q])
    \/ ks[r] = ks[q] /\ r < q

-----------------------------------------------------------------------------
(* The file *)

\* A number's bytes are read back as chars, and chars are signed.
SignedByte(n) == IF n < Radix \div 2 THEN n ELSE n - Radix
ReadBack(n) == SignedByte(n % Radix) + Radix * SignedByte((n \div Radix) % Radix)

\* INDEX ON: the records that have a key, sorted, so many to a leaf.
Entry(child, rec, key) == [child |-> child, rec |-> rec, key |-> key]

Sorted(ks) == SortSeq(SelectSeq([r \in DOMAIN ks |-> r], LAMBDA r : ks[r] # <<>>),
                      LAMBDA r, q : Before(ks, r, q))

Build(ks, size) ==
    LET order == Sorted(ks)
    IN [size |-> size,
        leaves |-> [p \in 1..((Len(order) + size - 1) \div size) |->
                      LET batch == SubSeq(order, (p - 1) * size + 1,
                                          IF p * size < Len(order) THEN p * size ELSE Len(order))
                      IN [j \in DOMAIN batch |-> Entry(0, batch[j], ks[batch[j]])]]]

\* Mutant: the leaves are counted from the page behind the first.
RootFromNext(ndx) ==
    [e \in 1..(IF Len(ndx.leaves) < ndx.size THEN Len(ndx.leaves) ELSE ndx.size) |->
        Entry(e + 1, 0, ndx.leaves[e][1].key)]

\* The root names the leaves it has room for, each by its first key.
Root(ndx) ==
    [e \in 1..(IF Len(ndx.leaves) < ndx.size THEN Len(ndx.leaves) ELSE ndx.size) |->
        Entry(e, 0, ndx.leaves[e][1].key)]

RootPage(ndx) == Len(ndx.leaves) + 1

\* What is read at page n.  Before the file's start nothing can be sought: what
\* is read is the header, whose first number, the root page, is then negative.
Page(ndx, n) == IF n < 0 THEN <<>>
                ELSE IF n = RootPage(ndx) THEN Root(ndx) ELSE ndx.leaves[n]

-----------------------------------------------------------------------------
NoIndex == [size |-> 0, leaves |-> <<>>]
Idle == [for |-> <<>>, page |-> 0]

Init == /\ keys \in Tables /\ keys # <<>>
        /\ current = 1 /\ found = FALSE
        /\ index = NoIndex /\ seek = Idle /\ edits = 0

\* The key file is left as it is.
Edit == /\ seek = Idle /\ edits < MaxEdits /\ edits' = edits + 1
        /\ UNCHANGED <<found, index, seek>>

Replace(k) == /\ Edit
              /\ keys' = [keys EXCEPT ![current] = k]
              /\ UNCHANGED current

AppendBlank == /\ Edit /\ Len(keys) < MaxRecs
               /\ keys' = Append(keys, <<>>)
               /\ current' = Len(keys')

\* PACK of a table with one record marked.
Pack(r) == /\ Edit /\ Len(keys) > 1
           /\ keys' = RemoveAt(keys, r)
           /\ current' = IF current > Len(keys') THEN Len(keys') ELSE current

\* Without a key in the table no file is written.
IndexOn(size) ==
    /\ seek = Idle
    /\ IF \E r \in DOMAIN keys : keys[r] # <<>>
       THEN index' = Build(keys, size) /\ found' = FALSE
       ELSE UNCHANGED <<index, found>>
    /\ UNCHANGED <<keys, current, seek, edits>>

-----------------------------------------------------------------------------
(* SEEK *)

SeekStart(c) ==
    /\ seek = Idle /\ index # NoIndex
    /\ seek' = [for |-> c, page |-> ReadBack(RootPage(index))]
    /\ UNCHANGED <<keys, current, found, index, edits>>

\* Mutant: whatever the index says is believed.
AnyRecord(rec) == rec # 0

InTable(rec) == rec > 0 /\ rec <= Len(keys)

\* The entries of the page are scanned up to the first that is not less.
Scanned(es) == {i \in DOMAIN es : \A j \in 1..(i - 1) : Less(es[j].key, seek.for)}
Stop(es) == CHOOSE i \in Scanned(es) : \A j \in Scanned(es) : j <= i

\* Mutant: the entry at which the scan ends is taken for a match.
HitAtStop(es) == es # <<>>

Hit(es) == es # <<>> /\ Agree(es[Stop(es)].key, seek.for)

\* Mutant: the descent takes the child at which the scan stopped.
ChildAtStop(es) == es[Stop(es)].child

\* The child to descend to: that of the entry met, of the one before the first
\* that is greater, of the first, or of the last.
Child(es) == IF Less(es[Stop(es)].key, seek.for) \/ Hit(es) \/ Stop(es) = 1
             THEN es[Stop(es)].child ELSE es[Stop(es) - 1].child

Interior(es) == es # <<>> /\ es[1].rec = 0

\* The page the SEEK is at, read once.
Here == Page(index, seek.page)
Visiting == seek # Idle

Descend == /\ Visiting
           /\ \E es \in {Here} :
                /\ Interior(es)
                /\ seek' = [seek EXCEPT !.page = ReadBack(Child(es))]
           /\ UNCHANGED <<keys, current, found, index, edits>>

\* A leaf with a key that agrees: the pointer goes to its record, if there is one.
Answer == /\ Visiting
          /\ \E es \in {Here} :
                /\ ~Interior(es) /\ Hit(es)
                /\ LET rec == ReadBack(es[Stop(es)].rec)
                   IN /\ found' = InTable(rec)
                      /\ current' = IF InTable(rec) THEN rec ELSE current
          /\ seek' = Idle
          /\ UNCHANGED <<keys, index, edits>>

NotFound == /\ Visiting /\ \E es \in {Here} : ~Interior(es) /\ ~Hit(es)
            /\ found' = FALSE
            /\ seek' = Idle
            /\ UNCHANGED <<keys, current, index, edits>>

Next ==
    \/ \E k \in Keys : Replace(k)
    \/ AppendBlank
    \/ \E r \in DOMAIN keys : Pack(r)
    \/ \E size \in PageSizes : IndexOn(size)
    \/ \E c \in Criteria : SeekStart(c)
    \/ Descend \/ Answer \/ NotFound

\* One thread: a SEEK that can go on does.
Spec == Init /\ [][Next]_vars /\ WF_seek(Descend \/ Answer \/ NotFound)

-----------------------------------------------------------------------------
(* Properties *)

TypeOK ==
    /\ keys \in Seq(Keys \cup {<<>>}) /\ keys # <<>>
    /\ current \in DOMAIN keys
    /\ found \in BOOLEAN
    /\ index.size \in PageSizes \cup {0}
    /\ \A p \in DOMAIN index.leaves :
          /\ index.leaves[p] # <<>> /\ Len(index.leaves[p]) <= index.size
    /\ seek.for \in Criteria \cup {<<>>}
    /\ seek.page \in Int /\ seek.page <= Len(index.leaves) + 1
    /\ edits \in 0..MaxEdits

\* The index says what INDEX ON would say now.
Fresh == index = Build(keys, index.size)

\* A record SEEK finds in a fresh index has a key that agrees with what was
\* looked for, case and the longer one's tail apart; unless the record's number
\* has been misread for that of another.
FindsMatch ==
    [][(Answer /\ Fresh /\ found') =>
         \E r \in DOMAIN keys : /\ keys[r] # <<>> /\ Agree(keys[r], seek.for)
                                /\ ReadBack(r) = current']_vars

\* If some record of a fresh index agrees, SEEK finds one.  It does not if the
\* root has no room for all leaves, or if a number needs the sign bit of a byte.
Legible == /\ Len(index.leaves) <= index.size
           /\ RootPage(index) < Radix \div 2
           /\ Len(keys) < Radix \div 2

FindsAny ==
    [][(seek # Idle /\ seek' = Idle /\ Fresh /\ Legible) =>
         (found' <=> \E r \in DOMAIN keys : keys[r] # <<>> /\ Agree(keys[r], seek.for))]_vars

\* Every SEEK ends, whatever its root page is misread as.
SeekReturns == seek # Idle ~> seek = Idle
=============================================================================
