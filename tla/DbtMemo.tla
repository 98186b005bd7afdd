------------------------------ MODULE DbtMemo ------------------------------
(***************************************************************************)
(* The memo file (.dbt) of a table with one memo field: what REPLACE       *)
(* stores in it (recs.c), and what PACK makes of it (deletes.c).           *)
(*                                                                         *)
(* A memo field holds the number of a block of 512 bytes; a text takes the *)
(* blocks it needs from there on, 510 bytes in each, and the first zero    *)
(* byte ends it.  The file's header holds the number of the first free     *)
(* block.  All of this is read anew by every call, so that the state is    *)
(* that of the two files, and of the call that is under way: the           *)
(* interpreter may die between any two of its writes.                      *)
(***************************************************************************)
EXTENDS Integers, Sequences, FiniteSets, SequencesExt, Selection

CONSTANTS
    Texts,      \* the texts stored: how many full blocks, and whether a rest
    Radix,      \* the values of a byte
    MaxRead,    \* the blocks that fit in a reader's buffer
    MaxRecs,    \* bound: the records of the table
    MaxOld      \* bound: the blocks of a .dbt that was there before the table

None == [none |-> TRUE]         \* no text

ASSUME TextsAssumption ==
    \A t \in Texts : t.full \in Nat /\ t.rest \in BOOLEAN /\ t # None
ASSUME NumbersAssumption == /\ Radix \in Nat /\ Radix > 2
                            /\ MaxRead \in Nat \ {0}
                            /\ MaxRecs \in Nat /\ MaxOld \in Nat

VARIABLES
    ptr,        \* per record: the block its memo field names, 0 for none
    marked,     \* the records marked as deleted
    header,     \* the number in the header of the .dbt
    blocks,     \* the blocks behind the header
    op,         \* the call under way
    \* history
    truth,      \* per record: the text last stored for it
    strayed,    \* a record was given the number of a block that is not its own
    wrapped     \* the header has wrapped around

table == <<ptr, marked>>
file == <<header, blocks>>
history == <<truth, strayed, wrapped>>
vars == <<table, file, op, history>>

-----------------------------------------------------------------------------
(* Texts and blocks *)

ZeroBlock == [blank |-> TRUE]       \* a block that begins with a zero byte

Size(t) == t.full + (IF t.rest THEN 1 ELSE 0)
Piece(t, k) == [text |-> t, part |-> k]
Pieces == [text : Texts, part : Nat \ {0}]

\* Mutant: no block is padded.
NeverPadded(b) == b # ZeroBlock

\* A piece that leaves no room for a zero byte.
IsFull(b) == b # ZeroBlock /\ b.part <= b.text.full

Records == DOMAIN ptr

\* The header's bytes are chars, and chars are signed.
SignedByte(n) == IF n < Radix \div 2 THEN n ELSE n - Radix
NextBlock == SignedByte(header % Radix) + Radix * SignedByte((header \div Radix) % Radix)

\* Mutant: the number is written as it was before the last block.
LowByteOfLast(n) == (n - 1) % Radix

\* Of the number's four ints only the first is written.
LowByte(n) == n % Radix

Put(bs, n, b) == IF n <= Len(bs) THEN [bs EXCEPT ![n] = b] ELSE Append(bs, b)

\* The blocks of text t from block n on.
Extent(n, t) == n..(n + Size(t) - 1)

Holds(bs, n, t) ==
    \A k \in 1..Size(t) : n + k - 1 \in DOMAIN bs /\ bs[n + k - 1] = Piece(t, k)

\* get_memo_field(): a record without a memo reads the first block.  What is
\* read goes on, over the marks that end a block, up to a zero byte.
Readable(n) == n <= NextBlock /\ n <= Len(blocks)

EndsAt(from, e) ==
    /\ ~IsFull(blocks[e]) \/ e = Len(blocks) \/ e - from + 1 = MaxRead
    /\ \A i \in from..(e - 1) : IsFull(blocks[i]) /\ i - from + 1 # MaxRead

Recovered(n) ==
    LET from == IF n = 0 THEN 1 ELSE n
    IN SubSeq(blocks, from, CHOOSE e \in from..Len(blocks) : EndsAt(from, e))

-----------------------------------------------------------------------------
Idle == [kind |-> "idle"]

\* A table just created; a .dbt that is in the way is not overwritten.
Init ==
    /\ \E old \in 0..MaxOld : /\ blocks = [i \in 1..old |-> ZeroBlock]
                              /\ header = LowByte(old + 1)
    /\ ptr = <<>> /\ marked = {} /\ op = Idle
    /\ truth = <<>> /\ strayed = FALSE /\ wrapped = FALSE

AppendBlank ==
    /\ op = Idle /\ Len(ptr) < MaxRecs
    /\ ptr' = Append(ptr, 0) /\ truth' = Append(truth, None)
    /\ UNCHANGED <<marked, file, op, strayed, wrapped>>

Delete(r) == /\ op = Idle /\ marked' = marked \cup {r}
             /\ UNCHANGED <<ptr, file, op, history>>

Recall(r) == /\ op = Idle /\ marked' = marked \ {r}
             /\ UNCHANGED <<ptr, file, op, history>>

-----------------------------------------------------------------------------
(* REPLACE of a memo field *)

\* Mutant: the header's number is not looked at.
AddStartUnchecked(r, t) ==
    /\ op = Idle /\ ptr[r] = 0
    /\ op' = [kind |-> "add", rec |-> r, text |-> t, block |-> NextBlock, done |-> 0]
    /\ UNCHANGED <<table, file, history>>

\* The record has no block yet: it will be given the first free one.
AddStart(r, t) ==
    /\ op = Idle /\ ptr[r] = 0 /\ NextBlock > 0
    /\ op' = [kind |-> "add", rec |-> r, text |-> t, block |-> NextBlock, done |-> 0]
    /\ UNCHANGED <<table, file, history>>

AddBlock ==
    /\ op.kind = "add" /\ op.done < Size(op.text)
    /\ blocks' = Put(blocks, op.block + op.done, Piece(op.text, op.done + 1))
    /\ op' = [op EXCEPT !.done = @ + 1]
    /\ UNCHANGED <<table, header, history>>

AddHeader ==
    /\ op.kind = "add" /\ op.done = Size(op.text)
    /\ header' = LowByte(op.block + op.done)
    /\ wrapped' = (wrapped \/ op.block + op.done >= Radix)
    /\ op' = [op EXCEPT !.kind = "point"]
    /\ UNCHANGED <<table, blocks, truth, strayed>>

\* An empty text took no block: the next text will be given the same one.
AddPointer ==
    /\ op.kind = "point"
    /\ ptr' = [ptr EXCEPT ![op.rec] = op.block]
    /\ truth' = [truth EXCEPT ![op.rec] = op.text]
    /\ strayed' = (strayed \/ wrapped \/ Size(op.text) = 0)
    /\ op' = Idle
    /\ UNCHANGED <<marked, file, wrapped>>

\* Mutant: a text of any size is written over the block.
AnySize(t) == TRUE

FitsBlock(t) == Size(t) <= 1

\* The record has a block: the text is written over it.
Overwrites(r, t) == ptr[r] > 0 /\ ptr[r] < NextBlock /\ FitsBlock(t)

Overwrite(r, t) ==
    /\ op = Idle /\ Overwrites(r, t)
    /\ blocks' = [blocks EXCEPT ![ptr[r]] = IF Size(t) = 0 THEN ZeroBlock ELSE Piece(t, 1)]
    /\ truth' = [truth EXCEPT ![r] = t]
    /\ UNCHANGED <<table, header, op, strayed, wrapped>>

\* Nothing is stored.  Where the record has a block, REPLACE reports no error.
Refuse(r, t) ==
    /\ op = Idle
    /\ IF ptr[r] = 0 THEN NextBlock <= 0 ELSE ~Overwrites(r, t)
    /\ UNCHANGED vars

-----------------------------------------------------------------------------
(* PACK *)

\* The blocks the records ps name, each once, in the order they are met.
MemoBlocks(ps) ==
    Chosen(ps, {i \in DOMAIN ps : ps[i] > 0 /\ \A j \in 1..(i - 1) : ps[j] # ps[i]}, Len(ps))

Kept == Chosen([r \in Records |-> r], Records \ marked, Len(ptr))

\* The numbers of the records that stay should be read back from the copy, to be
\* mapped, but the copy is open for writing only: what is mapped is what the
\* memory held, and a number that is not in the map becomes 0.
Renumbered(olds) == [DOMAIN Kept -> 0..Len(olds)]

\* The records that stay, and a copy of their blocks: what is written for one
\* that is not in the file yet is what the memory held.
PackTable ==
    /\ op = Idle
    /\ LET olds == MemoBlocks([i \in DOMAIN Kept |-> ptr[Kept[i]]])
       IN \E copy \in [DOMAIN olds -> ToSet(blocks) \cup {ZeroBlock}] :
            /\ \A i \in DOMAIN olds : olds[i] <= Len(blocks) => copy[i] = blocks[olds[i]]
            /\ ptr' \in Renumbered(olds)
            /\ op' = [kind |-> "pack", file |-> copy,
                      kept |-> [i \in DOMAIN Kept |-> truth[Kept[i]]]]
    /\ marked' = {}
    /\ truth' = [i \in DOMAIN Kept |-> None]
    /\ strayed' = (strayed \/ \E i \in DOMAIN Kept : ptr'[i] # 0)
    /\ UNCHANGED <<file, wrapped>>

\* Here the number's four bytes are written.
PackFile ==
    /\ op.kind = "pack"
    /\ blocks' = op.file
    /\ header' = Len(op.file) + 1
    /\ op' = Idle
    /\ UNCHANGED <<table, history>>

-----------------------------------------------------------------------------
\* The interpreter dies; reading a memo field does it, too: get_field() gives
\* get_memo_field() no buffer to copy the text to.
Death == /\ op # Idle
         /\ op' = Idle
         /\ UNCHANGED <<table, file, history>>

Next ==
    \/ AppendBlank
    \/ \E r \in Records : Delete(r) \/ Recall(r)
    \/ \E r \in Records, t \in Texts : AddStart(r, t) \/ Overwrite(r, t) \/ Refuse(r, t)
    \/ AddBlock \/ AddHeader \/ AddPointer
    \/ PackTable \/ PackFile
    \/ Death

Spec == Init /\ [][Next]_vars

-----------------------------------------------------------------------------
(* Properties *)

TypeOK ==
    /\ ptr \in Seq(Nat)
    /\ marked \subseteq Records
    /\ header \in Nat
    /\ blocks \in Seq(Pieces \cup {ZeroBlock})
    /\ truth \in Seq(Texts \cup {None}) /\ Len(truth) = Len(ptr)
    /\ strayed \in BOOLEAN /\ wrapped \in BOOLEAN
    /\ \/ op = Idle
       \/ /\ op \in [kind : {"add", "point"}, rec : Records, text : Texts,
                     block : Nat \ {0}, done : Nat]
          /\ op.done <= Size(op.text)
       \/ op \in [kind : {"pack"}, file : Seq(Pieces \cup {ZeroBlock}),
                  kept : Seq(Texts \cup {None})]

Stored(r) == truth[r] # None
Alone(r) == \A q \in Records : q # r => ptr[q] \notin Extent(ptr[r], truth[r])

\* No two records share a block, whatever deaths have wasted: add_to_dbt() and
\* the header it writes hand each block out once.  Ruined by an empty text, whose
\* number is handed out again, by PACK, and by a header that has wrapped.
OwnBlocks ==
    ~strayed =>
        \A r, q \in Records :
            (r # q /\ Stored(r) /\ Stored(q)) =>
                Extent(ptr[r], truth[r]) \cap Extent(ptr[q], truth[q]) = {}

\* The text a record was given stays in its blocks through every REPLACE of
\* another record, refused ones, and deaths, until the record is given another
\* or PACK is run.  No other record must name one of its blocks.
MemosKept ==
    ~wrapped => \A r \in Records :
                    (Stored(r) /\ Alone(r)) => Holds(blocks, ptr[r], truth[r])

\* A text that leaves room for a zero byte in its one block is read back by
\* get_memo_field(), as long as the header's number is positive.
ReadsBack ==
    (~wrapped /\ NextBlock > 0) =>
        \A r \in Records :
            (Stored(r) /\ Alone(r) /\ truth[r].rest /\ Size(truth[r]) = 1) =>
                /\ Readable(ptr[r])
                /\ Recovered(ptr[r]) = <<Piece(truth[r], 1)>>

\* PACK copies the memos of the records that stay and gives the records the new
\* numbers of their blocks.
PackKeepsMemos ==
    [][PackFile => \A i \in DOMAIN op.kept :
           op.kept[i] # None => Holds(blocks', ptr'[i], op.kept[i])]_vars
=============================================================================
