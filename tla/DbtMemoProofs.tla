--------------------------- MODULE DbtMemoProofs ---------------------------
(***************************************************************************)
(* Proofs about the memo file of a table.                                  *)
(***************************************************************************)
EXTENDS DbtMemo, OperatorLemmas

Adding == op.kind \in {"add", "point"}

\* A text takes one block at least: an empty one may be written over a block.
Room(t) == IF Size(t) = 0 THEN 1 ELSE Size(t)
Span(r) == ptr[r]..(ptr[r] + Room(truth[r]) - 1)

\* The numbers handed out are those of blocks, or of the one behind the last.
NumbersOK == /\ header <= Len(blocks) + 1
             /\ Adding => op.block + op.done <= Len(blocks) + 1

\* Which records have a block.
PointersOK ==
    /\ \A r \in Records : Stored(r) => ptr[r] > 0
    /\ ~strayed => \A r \in Records : ptr[r] > 0 => Stored(r)
    /\ Adding => ptr[op.rec] = 0
    /\ op.kind = "pack" => \A r \in Records : ~Stored(r) /\ (~strayed => ptr[r] = 0)

\* Every text ends before the block n.
EndsBefore(n) ==
    \A r \in Records : Stored(r) =>
        /\ ptr[r] + Size(truth[r]) <= n
        /\ ~strayed => ptr[r] + Room(truth[r]) <= n

FreeOK ==
    ~wrapped => /\ NextBlock > 0 => EndsBefore(NextBlock)
                /\ Adding => EndsBefore(op.block)

\* The call under way: what it has written, and what the header says of it.
WrittenOK ==
    /\ Adding => \A k \in 1..op.done : /\ op.block + k - 1 \in DOMAIN blocks
                                       /\ blocks[op.block + k - 1] = Piece(op.text, k)
    /\ op.kind = "add" => op.block = NextBlock
    /\ op.kind = "point" => /\ op.done = Size(op.text)
                            /\ ~wrapped => header = op.block + op.done /\ header < Radix

SpansOK == ~strayed => \A r, q \in Records :
               (r # q /\ Stored(r) /\ Stored(q)) => Span(r) \cap Span(q) = {}

IInv == /\ TypeOK /\ NumbersOK /\ PointersOK /\ FreeOK /\ WrittenOK
        /\ SpansOK /\ MemosKept

-----------------------------------------------------------------------------
(* Sizes and numbers *)

LEMMA SizeType ==
    ASSUME NEW t \in Texts
    PROVE  Size(t) \in Nat /\ Room(t) \in Nat /\ Room(t) >= 1 /\ Size(t) <= Room(t)
<1>1. t.full \in Nat /\ t.rest \in BOOLEAN
  BY TextsAssumption
<1> QED
  BY <1>1 DEF Size, Room

\* A number and its last digit.
LEMMA Digits ==
    ASSUME NEW n \in Nat
    PROVE  /\ n % Radix \in 0..(Radix - 1) /\ n \div Radix \in Nat
           /\ n = Radix * (n \div Radix) + (n % Radix)
           /\ n % Radix <= n /\ n \div Radix <= n
           /\ n < Radix => n % Radix = n /\ n \div Radix = 0
  BY NumbersAssumption

LEMMA SignedByteType ==
    ASSUME NEW n \in 0..(Radix - 1)
    PROVE  /\ SignedByte(n) \in Int /\ SignedByte(n) <= n
           /\ SignedByte(n) > 0 => SignedByte(n) = n
  BY NumbersAssumption DEF SignedByte

\* The number the header's two bytes are taken for.
Read(n) == SignedByte(n % Radix) + Radix * SignedByte((n \div Radix) % Radix)

LEMMA ReadType ==
    ASSUME NEW n \in Nat
    PROVE  /\ Read(n) \in Int /\ Read(n) <= n
           /\ n < Radix /\ Read(n) > 0 => Read(n) = n
<1> DEFINE low == n % Radix
           rest == n \div Radix
           high == rest % Radix
<1>1. /\ low \in 0..(Radix - 1) /\ rest \in Nat /\ n = Radix * rest + low
      /\ n < Radix => low = n /\ rest = 0
  BY Digits
<1>2. high \in 0..(Radix - 1) /\ high <= rest /\ (rest < Radix => high = rest)
  BY <1>1, Digits
<1>3. /\ SignedByte(low) \in Int /\ SignedByte(low) <= low
      /\ SignedByte(low) > 0 => SignedByte(low) = low
  BY <1>1, SignedByteType
<1>4. SignedByte(high) \in Int /\ SignedByte(high) <= high
  BY <1>2, SignedByteType
<1>5. Read(n) = SignedByte(low) + Radix * SignedByte(high)
  BY DEF Read
<1> HIDE DEF low, rest, high
<1>6. Radix * SignedByte(high) \in Int /\ Radix * SignedByte(high) <= Radix * rest
  BY <1>1, <1>2, <1>4, NumbersAssumption
<1>7. n < Radix => SignedByte(high) = 0
  BY <1>1, <1>2, NumbersAssumption DEF SignedByte
<1>8. n < Radix => Radix * SignedByte(high) = 0
  BY <1>7, NumbersAssumption
<1> QED
  BY <1>1, <1>3, <1>5, <1>6, <1>8, NumbersAssumption

LEMMA NextBlockRead == NextBlock = Read(header)
  BY DEF NextBlock, Read

-----------------------------------------------------------------------------
(* The blocks *)

Contents == Pieces \cup {ZeroBlock}

LEMMA OneElement ==
    ASSUME NEW T, NEW s \in Seq(T), Len(s) = 1
    PROVE  s = <<s[1]>>
<1>1. s[1] \in T
  BY ElementOfSeq
<1> DEFINE x == s[1]
<1> HIDE DEF x
<1>2. <<x>> \in Seq(T) /\ Len(<<x>>) = 1 /\ <<x>>[1] = x
  BY <1>1 DEF x
<1>3. \A i \in 1..Len(s) : s[i] = <<x>>[i]
  BY <1>2 DEF x
<1>4. s = <<x>>
  BY <1>2, <1>3, SeqEqual
<1> QED
  BY <1>4 DEF x

LEMMA PutType ==
    ASSUME NEW T, NEW bs \in Seq(T), NEW n \in 1..(Len(bs) + 1), NEW b \in T
    PROVE  /\ Put(bs, n, b) \in Seq(T)
           /\ Len(bs) <= Len(Put(bs, n, b)) /\ n <= Len(Put(bs, n, b))
           /\ Put(bs, n, b)[n] = b
           /\ \A i \in 1..Len(bs) : i # n => Put(bs, n, b)[i] = bs[i]
<1>0. Len(bs) \in Nat
  BY LenProperties
<1>1. CASE n <= Len(bs)
  <2>1. Put(bs, n, b) = [bs EXCEPT ![n] = b]
    BY <1>1 DEF Put
  <2>2. n \in 1..Len(bs)
    BY <1>0, <1>1
  <2> QED
    BY <1>0, <2>1, <2>2, ExceptSeq
<1>2. CASE ~(n <= Len(bs))
  <2>1. Put(bs, n, b) = Append(bs, b) /\ n = Len(bs) + 1
    BY <1>0, <1>2 DEF Put
  <2> QED
    BY <1>0, <2>1, AppendProperties
<1> QED
  BY <1>1, <1>2

LEMMA PieceType ==
    ASSUME NEW t \in Texts, NEW k \in Nat \ {0}
    PROVE  Piece(t, k) \in Contents
  BY DEF Piece, Pieces, Contents

-----------------------------------------------------------------------------
(* The types *)

\* The type of the call under way.
Additions == [kind : {"add", "point"}, rec : Records, text : Texts,
              block : Nat \ {0}, done : Nat]

LEMMA TypeFacts ==
    ASSUME TypeOK
    PROVE  /\ Len(ptr) \in Nat /\ Records = 1..Len(ptr) /\ DOMAIN truth = Records
           /\ \A r \in Records : ptr[r] \in Nat /\ truth[r] \in Texts \cup {None}
           /\ \A r \in Records : Stored(r) => truth[r] \in Texts
           /\ Len(blocks) \in Nat /\ DOMAIN blocks = 1..Len(blocks)
           /\ \A n \in DOMAIN blocks : blocks[n] \in Contents
           /\ Adding => op \in Additions /\ op.done <= Size(op.text)
           /\ op.kind = "pack" => op.file \in Seq(Contents)
<1>1. ptr \in Seq(Nat) /\ truth \in Seq(Texts \cup {None}) /\ Len(truth) = Len(ptr)
      /\ blocks \in Seq(Contents)
  BY DEF TypeOK, Contents
<1>2. /\ Len(ptr) \in Nat /\ Records = 1..Len(ptr) /\ DOMAIN truth = Records
      /\ \A r \in Records : ptr[r] \in Nat /\ truth[r] \in Texts \cup {None}
  BY <1>1, LenProperties, ElementOfSeq DEF Records
<1>3. /\ Len(blocks) \in Nat /\ DOMAIN blocks = 1..Len(blocks)
      /\ \A n \in DOMAIN blocks : blocks[n] \in Contents
  BY <1>1, LenProperties, ElementOfSeq
<1>4. /\ Adding => op \in Additions /\ op.done <= Size(op.text)
      /\ op.kind = "pack" => op.file \in Seq(Contents)
  BY DEF TypeOK, Adding, Additions, Idle, Contents
<1> QED
  BY <1>2, <1>3, <1>4 DEF Stored

LEMMA KeptType ==
    ASSUME TypeOK
    PROVE  Kept \in Seq(Records)
<1>1. Len(ptr) \in Nat /\ Records = 1..Len(ptr)
  BY TypeFacts
<1> DEFINE all == [r \in Records |-> r]
<1>2. \A r \in 1..Len(ptr) : r \in Records \ marked => all[r] \in Records
  BY <1>1
<1> HIDE DEF all
<1>3. Chosen(all, Records \ marked, Len(ptr)) \in Seq(Records)
  BY <1>1, <1>2, ChosenType
<1> QED
  BY <1>3 DEF Kept, all

LEMMA MemoBlocksType ==
    ASSUME NEW ps \in Seq(Nat)
    PROVE  MemoBlocks(ps) \in Seq(Nat)
<1> DEFINE firsts == {i \in DOMAIN ps : ps[i] > 0 /\ \A j \in 1..(i - 1) : ps[j] # ps[i]}
<1>1. Len(ps) \in Nat /\ \A i \in 1..Len(ps) : ps[i] \in Nat
  BY LenProperties, ElementOfSeq
<1> HIDE DEF firsts
<1>2. Chosen(ps, firsts, Len(ps)) \in Seq(Nat)
  BY <1>1, ChosenType
<1> QED
  BY <1>2 DEF MemoBlocks, firsts

\* PACK numbers the records that stay anew, from a copy of their blocks.
LEMMA PackTableType ==
    ASSUME TypeOK, PackTable
    PROVE  TypeOK' /\ Len(ptr') = Len(Kept) /\ op'.kind = "pack"
<1> DEFINE olds == MemoBlocks([i \in DOMAIN Kept |-> ptr[Kept[i]]])
<1>1. /\ Len(Kept) \in Nat /\ DOMAIN Kept = 1..Len(Kept)
      /\ \A i \in DOMAIN Kept : Kept[i] \in Records
  BY KeptType, LenProperties, ElementOfSeq
<1>2. \A r \in Records : ptr[r] \in Nat /\ truth[r] \in Texts \cup {None}
  BY TypeFacts
<1>3. olds \in Seq(Nat)
  <2>1. [i \in DOMAIN Kept |-> ptr[Kept[i]]] \in Seq(Nat)
    BY <1>1, <1>2
  <2> QED
    BY <2>1, MemoBlocksType
<1>4. PICK copy \in [DOMAIN olds -> ToSet(blocks) \cup {ZeroBlock}] :
          /\ ptr' \in Renumbered(olds)
          /\ op' = [kind |-> "pack", file |-> copy,
                    kept |-> [i \in DOMAIN Kept |-> truth[Kept[i]]]]
  BY DEF PackTable
<1> HIDE DEF olds
<1>5. Len(olds) \in Nat /\ DOMAIN olds = 1..Len(olds)
  BY <1>3, LenProperties
<1>6. ptr' \in Seq(Nat) /\ Len(ptr') = Len(Kept)
  BY <1>1, <1>4, <1>5 DEF Renumbered
<1>7. copy \in Seq(Contents)
  <2>1. ToSet(blocks) \cup {ZeroBlock} \subseteq Contents
    <3>1. \A n \in DOMAIN blocks : blocks[n] \in Contents
      BY TypeFacts
    <3> QED
      BY <3>1 DEF ToSet, Contents
  <2> QED
    BY <1>4, <1>5, <2>1
<1>8. [i \in DOMAIN Kept |-> truth[Kept[i]]] \in Seq(Texts \cup {None})
  BY <1>1, <1>2
<1>9. /\ truth' = [i \in DOMAIN Kept |-> None] /\ marked' = {}
      /\ strayed' \in BOOLEAN /\ UNCHANGED <<header, blocks, wrapped>>
  BY DEF PackTable, file, TypeOK
<1>10. truth' \in Seq(Texts \cup {None}) /\ Len(truth') = Len(Kept)
  BY <1>1, <1>9
<1> QED
  BY <1>4, <1>6, <1>7, <1>8, <1>9, <1>10 DEF TypeOK, Contents, Records

-----------------------------------------------------------------------------
(* The steps that write no block *)

\* Nothing but the marks is changed, or the call under way ends.
LEMMA QuietStep ==
    ASSUME IInv, UNCHANGED <<ptr, file, history>>, marked' \subseteq Records,
           op' = op \/ op' = Idle
    PROVE  IInv'
<1>1. UNCHANGED <<ptr, header, blocks, truth, strayed, wrapped, Records, NextBlock>>
  BY DEF file, history, Records, NextBlock
<1>2. TypeOK'
  BY <1>1 DEF IInv, TypeOK, Records
<1>3. op' = Idle => ~Adding' /\ op'.kind = "idle"
  BY DEF Adding, Idle
<1>4. op' = op => Adding' = Adding
  BY DEF Adding
<1>5. NumbersOK'
  BY <1>1, <1>3, <1>4 DEF IInv, NumbersOK
<1>6. PointersOK'
  BY <1>1, <1>3, <1>4 DEF IInv, PointersOK, Stored
<1>7. FreeOK'
  BY <1>1, <1>3, <1>4 DEF IInv, FreeOK, EndsBefore, Stored
<1>8. WrittenOK'
  BY <1>1, <1>3, <1>4 DEF IInv, WrittenOK
<1>9. SpansOK' /\ MemosKept'
  BY <1>1 DEF IInv, SpansOK, Span, MemosKept, Stored, Alone, Holds
<1> QED
  BY <1>2, <1>5, <1>6, <1>7, <1>8, <1>9 DEF IInv

LEMMA AppendBlankStep ==
    ASSUME IInv, AppendBlank
    PROVE  IInv'
<1> DEFINE new == Len(ptr) + 1
<1>0. TypeOK
  BY DEF IInv
<1>1. /\ ptr' = Append(ptr, 0) /\ truth' = Append(truth, None)
      /\ UNCHANGED <<marked, header, blocks, op, strayed, wrapped>> /\ op = Idle
  BY DEF AppendBlank, file
<1>2. /\ ptr' \in Seq(Nat) /\ Len(ptr') = new
      /\ ptr'[new] = 0 /\ \A r \in Records : ptr'[r] = ptr[r]
  BY <1>0, <1>1, AppendProperties, TypeFacts DEF TypeOK
<1>3. /\ truth' \in Seq(Texts \cup {None}) /\ Len(truth') = new
      /\ truth'[new] = None /\ \A r \in Records : truth'[r] = truth[r]
  BY <1>0, <1>1, AppendProperties, TypeFacts DEF TypeOK
<1>4. Len(ptr) \in Nat /\ Records = 1..Len(ptr) /\ Records' = Records \cup {new}
  <2>1. DOMAIN ptr' = 1..new
    BY <1>2, LenProperties
  <2> QED
    BY <1>0, <2>1, TypeFacts DEF Records
<1> HIDE DEF new
<1>5. TypeOK'
  BY <1>0, <1>1, <1>2, <1>3, <1>4 DEF TypeOK, Idle
<1>6. \A r \in Records' : Stored(r)' => r \in Records /\ Stored(r)
  BY <1>3, <1>4 DEF Stored
<1>7. ~Adding' /\ op'.kind = "idle" /\ NextBlock' = NextBlock
  BY <1>1 DEF Adding, Idle, NextBlock
<1>8. NumbersOK' /\ WrittenOK'
  BY <1>1, <1>7 DEF IInv, NumbersOK, WrittenOK
<1>9. PointersOK'
  BY <1>1, <1>2, <1>3, <1>4, <1>6, <1>7 DEF IInv, PointersOK, Stored
<1>10. FreeOK'
  BY <1>1, <1>2, <1>3, <1>6, <1>7 DEF IInv, FreeOK, EndsBefore
<1>11. SpansOK'
  BY <1>1, <1>2, <1>3, <1>6 DEF IInv, SpansOK, Span
<1>12. MemosKept'
  <2> SUFFICES ASSUME ~wrapped, NEW r \in Records', Stored(r)', Alone(r)'
               PROVE  Holds(blocks', ptr'[r], truth'[r])
    BY <1>1 DEF MemosKept
  <2>1. r \in Records /\ Stored(r)
    BY <1>6
  <2>2. Alone(r)
    BY <1>2, <1>3, <1>4, <2>1 DEF Alone
  <2> QED
    BY <1>1, <1>2, <1>3, <2>1, <2>2 DEF IInv, MemosKept
<1> QED
  BY <1>5, <1>8, <1>9, <1>10, <1>11, <1>12 DEF IInv

LEMMA AddStartStep ==
    ASSUME IInv, NEW r \in Records, NEW t \in Texts, AddStart(r, t)
    PROVE  IInv'
<1>0. TypeOK
  BY DEF IInv
<1>1. /\ op' = [kind |-> "add", rec |-> r, text |-> t, block |-> NextBlock, done |-> 0]
      /\ ptr[r] = 0 /\ NextBlock > 0
      /\ UNCHANGED <<ptr, marked, header, blocks, truth, strayed, wrapped, Records, NextBlock>>
  BY DEF AddStart, table, file, history, Records, NextBlock
<1>2. NextBlock \in Nat \ {0} /\ NextBlock <= header /\ header \in Nat
  BY <1>0, <1>1, NextBlockRead, ReadType DEF TypeOK
<1>3. op'.kind = "add" /\ op'.rec = r /\ op'.block = NextBlock /\ op'.done = 0 /\ Adding'
  BY <1>1 DEF Adding
<1>4. TypeOK'
  <2>1. Size(t) \in Nat
    BY SizeType
  <2>2. op' \in [kind : {"add", "point"}, rec : Records, text : Texts,
               block : Nat \ {0}, done : Nat]
    BY <1>1, <1>2
  <2>3. op'.done <= Size(op'.text)
    BY <1>1, <2>1
  <2> QED
    BY <1>0, <1>1, <2>2, <2>3 DEF TypeOK, Size
<1>5. NumbersOK'
  BY <1>0, <1>1, <1>2, <1>3, TypeFacts DEF IInv, NumbersOK
<1>6. PointersOK'
  BY <1>1, <1>3 DEF IInv, PointersOK, Stored
<1>7. FreeOK'
  BY <1>1, <1>3 DEF IInv, FreeOK, EndsBefore, Stored
<1>8. WrittenOK'
  BY <1>1, <1>3 DEF WrittenOK
<1>9. SpansOK' /\ MemosKept'
  BY <1>1 DEF IInv, SpansOK, Span, MemosKept, Stored, Alone, Holds
<1> QED
  BY <1>4, <1>5, <1>6, <1>7, <1>8, <1>9 DEF IInv

-----------------------------------------------------------------------------
(* The steps of a REPLACE *)

\* The block that is written is behind those of every text.
LEMMA AddBlockStep ==
    ASSUME IInv, AddBlock
    PROVE  IInv'
<1> DEFINE n == op.block + op.done
           b == Piece(op.text, op.done + 1)
<1>0. TypeOK
  BY DEF IInv
<1>1. /\ op.kind = "add" /\ Adding /\ op.done < Size(op.text)
      /\ blocks' = Put(blocks, n, b) /\ op' = [op EXCEPT !.done = @ + 1]
      /\ UNCHANGED <<ptr, marked, header, truth, strayed, wrapped, Records, NextBlock>>
  BY DEF AddBlock, table, history, Adding, Records, NextBlock
<1>2. /\ op \in Additions /\ op.rec \in Records /\ op.text \in Texts
      /\ op.block \in Nat \ {0} /\ op.done \in Nat /\ Size(op.text) \in Nat
  BY <1>0, <1>1, TypeFacts, SizeType DEF Additions
<1>3. /\ op'.kind = "add" /\ op'.rec = op.rec /\ op'.text = op.text
      /\ op'.block = op.block /\ op'.done = op.done + 1 /\ Adding'
  BY <1>1, <1>2 DEF Adding, Additions
<1>4. blocks \in Seq(Contents) /\ b \in Contents /\ Len(blocks) \in Nat
  BY <1>0, <1>2, PieceType, TypeFacts DEF TypeOK, Contents
<1>5. n \in 1..(Len(blocks) + 1)
  BY <1>1, <1>2, <1>4 DEF IInv, NumbersOK
<1> HIDE DEF n, b
<1>6. /\ blocks' \in Seq(Contents) /\ Len(blocks) <= Len(blocks') /\ n <= Len(blocks')
      /\ blocks'[n] = b /\ \A i \in 1..Len(blocks) : i # n => blocks'[i] = blocks[i]
  <2> DEFINE bs == Put(blocks, n, b)
  <2>1. /\ bs \in Seq(Contents) /\ Len(blocks) <= Len(bs) /\ n <= Len(bs)
        /\ bs[n] = b /\ \A i \in 1..Len(blocks) : i # n => bs[i] = blocks[i]
    BY <1>4, <1>5, PutType
  <2>2. blocks' = bs
    BY <1>1
  <2> HIDE DEF bs
  <2> QED
    BY <2>1, <2>2
<1>7. Len(blocks') \in Nat /\ DOMAIN blocks' = 1..Len(blocks') /\ DOMAIN blocks = 1..Len(blocks)
  BY <1>4, <1>6, LenProperties
<1>8. TypeOK'
  <2>1. op' \in Additions
    BY <1>1, <1>2 DEF Additions
  <2>2. op'.done <= Size(op'.text)
    BY <1>1, <1>2, <1>3
  <2> QED
    BY <1>0, <1>1, <1>6, <2>1, <2>2 DEF TypeOK, Additions, Contents, Size
<1>9. NumbersOK'
  <2>1. header \in Nat /\ header <= Len(blocks) + 1
    BY <1>0 DEF IInv, NumbersOK, TypeOK
  <2> QED
    BY <1>1, <1>2, <1>3, <1>4, <1>6, <1>7, <2>1 DEF NumbersOK, n
<1>10. PointersOK'
  BY <1>1, <1>3 DEF IInv, PointersOK, Stored
<1>11. FreeOK'
  BY <1>1, <1>3 DEF IInv, FreeOK, EndsBefore, Stored
<1>12. WrittenOK'
  <2>1. ASSUME NEW k \in 1..(op.done + 1)
        PROVE  /\ op.block + k - 1 \in DOMAIN blocks'
               /\ blocks'[op.block + k - 1] = Piece(op.text, k)
    <3>1. CASE k = op.done + 1
      <4>1. op.block + k - 1 = n /\ b = Piece(op.text, k)
        BY <1>2, <3>1 DEF n, b
      <4> QED
        BY <1>5, <1>6, <1>7, <4>1
    <3>2. CASE k # op.done + 1
      <4>1. k \in 1..op.done
        BY <1>2, <3>2
      <4>2. /\ op.block + k - 1 \in DOMAIN blocks
            /\ blocks[op.block + k - 1] = Piece(op.text, k)
        BY <1>1, <4>1 DEF IInv, WrittenOK
      <4>3. op.block + k - 1 # n
        BY <1>2, <4>1 DEF n
      <4> QED
        BY <1>4, <1>6, <1>7, <4>2, <4>3
    <3> QED
      BY <3>1, <3>2
  <2>2. op'.block = NextBlock'
    BY <1>1, <1>3 DEF IInv, WrittenOK
  <2> QED
    BY <1>3, <2>1, <2>2 DEF WrittenOK
<1>13. SpansOK'
  BY <1>1 DEF IInv, SpansOK, Span, Stored
<1>14. MemosKept'
  <2> SUFFICES ASSUME ~wrapped, NEW r \in Records, Stored(r), Alone(r)
               PROVE  Holds(blocks', ptr[r], truth[r])
    BY <1>1 DEF MemosKept, Stored, Alone
  <2>1. Holds(blocks, ptr[r], truth[r])
    BY DEF IInv, MemosKept
  <2>2. ptr[r] \in Nat /\ Size(truth[r]) \in Nat
    BY <1>0, TypeFacts, SizeType
  <2>3. ptr[r] + Size(truth[r]) <= n
    <3>1. ptr[r] + Size(truth[r]) <= op.block
      BY <1>1 DEF IInv, FreeOK, EndsBefore
    <3> QED
      BY <1>2, <2>2, <3>1 DEF n
  <2>4. ASSUME NEW k \in 1..Size(truth[r])
        PROVE  ptr[r] + k - 1 \in DOMAIN blocks' /\ blocks'[ptr[r] + k - 1] = Piece(truth[r], k)
    <3>1. ptr[r] + k - 1 \in DOMAIN blocks /\ blocks[ptr[r] + k - 1] = Piece(truth[r], k)
      BY <2>1 DEF Holds
    <3>2. ptr[r] + k - 1 # n
      BY <1>5, <2>2, <2>3
    <3> QED
      BY <1>4, <1>6, <1>7, <3>1, <3>2
  <2> QED
    BY <2>4 DEF Holds
<1> QED
  BY <1>8, <1>9, <1>10, <1>11, <1>12, <1>13, <1>14 DEF IInv

\* The header's number passes the text that was written, or wraps around.
LEMMA AddHeaderStep ==
    ASSUME IInv, AddHeader
    PROVE  IInv'
<1> DEFINE n == op.block + op.done
<1>0. TypeOK
  BY DEF IInv
<1>1. /\ op.kind = "add" /\ Adding /\ op.done = Size(op.text)
      /\ header' = LowByte(n) /\ wrapped' = (wrapped \/ n >= Radix)
      /\ op' = [op EXCEPT !.kind = "point"]
      /\ UNCHANGED <<ptr, marked, blocks, truth, strayed, Records>>
  BY DEF AddHeader, table, Adding, Records
<1>2. /\ op \in Additions /\ op.rec \in Records /\ op.text \in Texts
      /\ op.block \in Nat \ {0} /\ op.done \in Nat
  BY <1>0, <1>1, TypeFacts DEF Additions
<1>3. /\ op'.kind = "point" /\ op'.rec = op.rec /\ op'.text = op.text
      /\ op'.block = op.block /\ op'.done = op.done /\ Adding'
  BY <1>1, <1>2 DEF Adding, Additions
<1>4. n \in Nat /\ n >= op.block /\ n <= Len(blocks) + 1
  BY <1>1, <1>2 DEF IInv, NumbersOK
<1> HIDE DEF n
<1>5. header' \in Nat /\ header' <= n /\ (n < Radix => header' = n)
  BY <1>1, <1>4, Digits DEF LowByte
<1>6. ~wrapped' => ~wrapped /\ n < Radix /\ header' = n
  <2>1. ~wrapped' => ~wrapped /\ ~(n >= Radix)
    BY <1>1, Zenon
  <2>2. ~(n >= Radix) => n < Radix /\ header' = n
    BY <1>4, <1>5, NumbersAssumption
  <2> QED
    BY <2>1, <2>2
<1>7. TypeOK'
  <2>1. op' \in Additions
    BY <1>1, <1>2 DEF Additions
  <2>2. op'.done <= Size(op'.text) /\ wrapped' \in BOOLEAN
    BY <1>0, <1>1, <1>2, <1>3, SizeType DEF TypeOK
  <2> QED
    BY <1>0, <1>1, <1>5, <2>1, <2>2 DEF TypeOK, Additions, Size
<1>8. NumbersOK'
  <2>1. Len(blocks) \in Nat
    BY <1>0, TypeFacts
  <2> QED
    BY <1>1, <1>3, <1>4, <1>5, <2>1 DEF NumbersOK, n
<1>9. PointersOK'
  BY <1>1, <1>3 DEF IInv, PointersOK, Stored
<1>10. FreeOK'
  <2> SUFFICES ASSUME ~wrapped'
               PROVE  (NextBlock > 0 => EndsBefore(NextBlock))' /\ EndsBefore(op.block)'
    BY DEF FreeOK
  <2>1. EndsBefore(op.block)
    BY <1>1, <1>6 DEF IInv, FreeOK
  <2>2. EndsBefore(op.block)'
    BY <1>1, <1>3, <2>1 DEF EndsBefore, Stored
  <2>3. ASSUME NextBlock' > 0 PROVE EndsBefore(NextBlock)'
    <3>1. NextBlock' = n
      <4>1. NextBlock' = Read(n)
        BY <1>6 DEF NextBlock, Read
      <4> QED
        BY <1>4, <1>6, <2>3, <4>1, ReadType
    <3>2. ASSUME NEW r \in Records, Stored(r)
          PROVE  /\ ptr[r] + Size(truth[r]) <= n
                 /\ ~strayed => ptr[r] + Room(truth[r]) <= n
      <4>1. /\ ptr[r] \in Nat /\ Size(truth[r]) \in Nat /\ Room(truth[r]) \in Nat
        BY <1>0, <3>2, TypeFacts, SizeType
      <4>2. /\ ptr[r] + Size(truth[r]) <= op.block
            /\ ~strayed => ptr[r] + Room(truth[r]) <= op.block
        BY <2>1, <3>2 DEF EndsBefore
      <4> QED
        BY <1>2, <1>4, <4>1, <4>2
    <3> QED
      BY <1>1, <3>1, <3>2 DEF EndsBefore, Stored
  <2> QED
    BY <2>2, <2>3
<1>11. WrittenOK'
  <2>1. \A k \in 1..op.done : /\ op.block + k - 1 \in DOMAIN blocks
                              /\ blocks[op.block + k - 1] = Piece(op.text, k)
    BY <1>1 DEF IInv, WrittenOK
  <2> QED
    BY <1>1, <1>3, <1>6, <2>1 DEF WrittenOK, n, Size
<1>12. SpansOK' /\ MemosKept'
  BY <1>1, <1>6 DEF IInv, SpansOK, Span, MemosKept, Stored, Alone, Holds
<1> QED
  BY <1>7, <1>8, <1>9, <1>10, <1>11, <1>12 DEF IInv

\* The record is given the blocks that were written for it.
LEMMA AddPointerStep ==
    ASSUME IInv, AddPointer
    PROVE  IInv'
<1>0. TypeOK
  BY DEF IInv
<1> PICK p : p = op.rec
  OBVIOUS
<1>1. /\ op.kind = "point" /\ Adding
      /\ ptr' = [ptr EXCEPT ![p] = op.block] /\ truth' = [truth EXCEPT ![p] = op.text]
      /\ strayed' = (strayed \/ wrapped \/ Size(op.text) = 0) /\ op' = Idle
      /\ UNCHANGED <<marked, header, blocks, wrapped, NextBlock>>
  BY DEF AddPointer, file, Adding, NextBlock
<1>2. /\ op \in Additions /\ p \in Records /\ op.text \in Texts
      /\ op.block \in Nat \ {0} /\ op.done = Size(op.text) /\ op.done \in Nat
      /\ Size(op.text) <= Room(op.text) /\ (Size(op.text) # 0 => Room(op.text) = op.done)
  BY <1>0, <1>1, TypeFacts, SizeType DEF Additions, IInv, WrittenOK, Room
<1>3. /\ Records' = Records /\ DOMAIN ptr = Records /\ DOMAIN truth = Records
      /\ DOMAIN ptr' = Records /\ DOMAIN truth' = Records
      /\ ptr'[p] = op.block /\ truth'[p] = op.text
      /\ \A r \in Records \ {p} : ptr'[r] = ptr[r] /\ truth'[r] = truth[r]
  BY <1>0, <1>1, <1>2, TypeFacts DEF Records
<1>4. \A r \in Records : ptr[r] \in Nat
  BY <1>0, TypeFacts
<1>5. Stored(p)' /\ \A r \in Records \ {p} : Stored(r)' <=> Stored(r)
  BY <1>2, <1>3, TextsAssumption DEF Stored
<1>6. ~strayed' => ~strayed /\ ~wrapped /\ Size(op.text) # 0
  BY <1>1, Zenon
<1>7. ~Adding' /\ op'.kind = "idle"
  BY <1>1 DEF Adding, Idle
<1>8. TypeOK'
  <2>1. ptr' \in Seq(Nat) /\ Len(ptr') = Len(ptr)
    BY <1>0, <1>1, <1>2, ExceptSeq, TypeFacts DEF TypeOK
  <2>2. truth' \in Seq(Texts \cup {None}) /\ Len(truth') = Len(truth)
    BY <1>0, <1>1, <1>2, ExceptSeq, TypeFacts DEF TypeOK
  <2>3. strayed' \in BOOLEAN
    BY <1>0, <1>1 DEF TypeOK
  <2> QED
    BY <1>0, <1>1, <1>3, <2>1, <2>2, <2>3 DEF TypeOK
<1>9. NumbersOK' /\ WrittenOK'
  BY <1>1, <1>7 DEF IInv, NumbersOK, WrittenOK
<1>10. PointersOK'
  BY <1>2, <1>3, <1>5, <1>6, <1>7 DEF IInv, PointersOK
<1>11. FreeOK'
  <2> SUFFICES ASSUME ~wrapped, NextBlock > 0, NEW r \in Records, Stored(r)'
               PROVE  /\ ptr'[r] + Size(truth'[r]) <= NextBlock
                      /\ ~strayed' => ptr'[r] + Room(truth'[r]) <= NextBlock
    BY <1>1, <1>3, <1>7 DEF FreeOK, EndsBefore
  <2>1. CASE r = p
    <3>1. NextBlock = op.block + op.done
      BY <1>0, <1>1, NextBlockRead, ReadType DEF IInv, WrittenOK, TypeOK
    <3> QED
      BY <1>2, <1>3, <1>6, <2>1, <3>1
  <2>2. CASE r # p
    BY <1>3, <1>5, <1>6, <2>2 DEF IInv, FreeOK, EndsBefore
  <2> QED
    BY <2>1, <2>2
<1>12. SpansOK'
  <2> SUFFICES ASSUME ~strayed', NEW r \in Records, NEW q \in Records, r # q,
                      Stored(r)', Stored(q)'
               PROVE  Span(r)' \cap Span(q)' = {}
    BY <1>3 DEF SpansOK
  <2>1. ~strayed /\ ~wrapped /\ Room(op.text) = op.done
    BY <1>2, <1>6
  <2>2. ASSUME NEW s \in Records, s # p, Stored(s)'
        PROVE  /\ Span(s)' = Span(s) /\ Stored(s) /\ Span(s)' \cap Span(p)' = {}
    <3>1. Span(s)' = Span(s) /\ Stored(s) /\ truth[s] \in Texts
      BY <1>0, <1>3, <1>5, <2>2, TypeFacts DEF Span
    <3>2. ptr[s] \in Nat /\ Room(truth[s]) \in Nat /\ ptr[s] + Room(truth[s]) <= op.block
      BY <1>1, <1>4, <2>1, <3>1, SizeType DEF IInv, FreeOK, EndsBefore
    <3>3. Span(p)' = op.block..(op.block + op.done - 1)
      BY <1>3, <2>1 DEF Span
    <3>4. Span(s) = ptr[s]..(ptr[s] + Room(truth[s]) - 1)
      BY DEF Span
    <3>5. op.block \in Nat /\ op.done \in Nat
      BY <1>2
    <3> HIDE DEF Span
    <3>6. Span(s) \cap Span(p)' = {}
      BY <3>2, <3>3, <3>4, <3>5
    <3> QED
      BY <3>1, <3>6
  <2>3. CASE r = p
    BY <2>2, <2>3
  <2>4. CASE q = p
    BY <2>2, <2>4
  <2>5. CASE r # p /\ q # p
    BY <2>1, <2>2, <2>5 DEF IInv, SpansOK
  <2> QED
    BY <2>3, <2>4, <2>5
<1>13. MemosKept'
  <2> SUFFICES ASSUME ~wrapped, NEW r \in Records, Stored(r)', Alone(r)'
               PROVE  Holds(blocks, ptr'[r], truth'[r])
    BY <1>1, <1>3 DEF MemosKept
  <2>1. CASE r = p
    BY <1>1, <1>2, <1>3, <2>1 DEF IInv, WrittenOK, Holds
  <2>2. CASE r # p
    <3>1. ptr'[r] = ptr[r] /\ truth'[r] = truth[r] /\ Stored(r)
      BY <1>3, <1>5, <2>2
    <3>2. ptr[p] \notin Extent(ptr[r], truth[r])
      <4>1. ptr[p] = 0 /\ ptr[r] > 0 /\ ptr[r] \in Nat
        BY <1>1, <1>4, <3>1 DEF IInv, PointersOK
      <4>2. Size(truth[r]) \in Nat
        BY <1>0, <3>1, TypeFacts, SizeType
      <4> QED
        BY <4>1, <4>2 DEF Extent
    <3>3. Alone(r)
      BY <1>3, <3>1, <3>2 DEF Alone
    <3> QED
      BY <3>1, <3>3 DEF IInv, MemosKept
  <2> QED
    BY <2>1, <2>2
<1> QED
  BY <1>8, <1>9, <1>10, <1>11, <1>12, <1>13 DEF IInv

\* A record's one block is written, which is before the first free one.
LEMMA OverwriteStep ==
    ASSUME IInv, NEW r \in Records, NEW t \in Texts, Overwrite(r, t)
    PROVE  IInv'
<1> DEFINE b == IF Size(t) = 0 THEN ZeroBlock ELSE Piece(t, 1)
<1>0. TypeOK
  BY DEF IInv
<1>1. /\ op = Idle /\ ptr[r] > 0 /\ ptr[r] < NextBlock /\ Size(t) <= 1
      /\ blocks' = [blocks EXCEPT ![ptr[r]] = b] /\ truth' = [truth EXCEPT ![r] = t]
      /\ UNCHANGED <<ptr, marked, header, op, strayed, wrapped, Records, NextBlock>>
  BY DEF Overwrite, Overwrites, FitsBlock, table, Records, NextBlock
<1>2. /\ Size(t) \in Nat /\ Room(t) = 1 /\ DOMAIN truth = Records
      /\ \A s \in Records : ptr[s] \in Nat
  BY <1>0, <1>1, SizeType, TypeFacts DEF Room
<1>3. ptr[r] \in 1..Len(blocks)
  <2>1. NextBlock \in Int /\ NextBlock <= header /\ header \in Nat
    BY <1>0, NextBlockRead, ReadType DEF TypeOK
  <2>2. header <= Len(blocks) + 1 /\ Len(blocks) \in Nat
    BY <1>0, TypeFacts DEF IInv, NumbersOK
  <2> QED
    BY <1>1, <1>2, <2>1, <2>2
<1>4. b \in Contents
  BY PieceType DEF Contents
<1>5. /\ blocks' \in Seq(Contents) /\ Len(blocks') = Len(blocks)
      /\ DOMAIN blocks' = 1..Len(blocks) /\ DOMAIN blocks = 1..Len(blocks)
      /\ blocks'[ptr[r]] = b
      /\ \A n \in 1..Len(blocks) : n # ptr[r] => blocks'[n] = blocks[n]
  <2> HIDE DEF b
  <2>1. blocks \in Seq(Contents)
    BY <1>0 DEF TypeOK, Contents
  <2>2. Len(blocks) \in Nat /\ DOMAIN blocks = 1..Len(blocks)
    BY <1>0, TypeFacts
  <2> QED
    BY <1>1, <1>3, <1>4, <2>1, <2>2, ExceptSeq
<1>6. /\ truth'[r] = t /\ Stored(r)'
      /\ \A s \in Records \ {r} : truth'[s] = truth[s] /\ (Stored(s)' <=> Stored(s))
  BY <1>1, <1>2, TextsAssumption DEF Stored
<1>7. TypeOK'
  <2>1. truth' \in Seq(Texts \cup {None}) /\ Len(truth') = Len(truth)
    BY <1>0, <1>1, ExceptSeq, TypeFacts DEF TypeOK
  <2> QED
    BY <1>0, <1>1, <1>5, <2>1 DEF TypeOK, Contents
<1>8. ~Adding /\ ~Adding' /\ op'.kind = "idle"
  BY <1>1 DEF Adding, Idle
<1>9. NumbersOK' /\ WrittenOK'
  BY <1>1, <1>5, <1>8 DEF IInv, NumbersOK, WrittenOK
<1>10. PointersOK'
  BY <1>1, <1>6, <1>8 DEF IInv, PointersOK
<1>11. FreeOK'
  <2> SUFFICES ASSUME ~wrapped, NextBlock > 0, NEW s \in Records, Stored(s)'
               PROVE  /\ ptr[s] + Size(truth'[s]) <= NextBlock
                      /\ ~strayed => ptr[s] + Room(truth'[s]) <= NextBlock
    BY <1>1, <1>8 DEF FreeOK, EndsBefore
  <2>1. CASE s = r
    <3>1. NextBlock \in Int
      BY <1>0, NextBlockRead, ReadType DEF TypeOK
    <3> QED
      BY <1>1, <1>2, <1>6, <2>1, <3>1
  <2>2. CASE s # r
    BY <1>6, <2>2 DEF IInv, FreeOK, EndsBefore
  <2> QED
    BY <2>1, <2>2
<1>12. SpansOK'
  <2> SUFFICES ASSUME ~strayed, NEW s \in Records, NEW q \in Records, s # q,
                      Stored(s)', Stored(q)'
               PROVE  Span(s)' \cap Span(q)' = {}
    BY <1>1 DEF SpansOK
  <2>1. ASSUME NEW x \in Records, Stored(x)'
        PROVE  Stored(x) /\ Span(x)' \subseteq Span(x)
    <3>1. Stored(x)
      BY <1>1, <1>6, <2>1 DEF IInv, PointersOK
    <3>2. ptr[x] \in Nat /\ Room(truth[x]) \in Nat /\ Room(truth[x]) >= 1
      BY <1>0, <1>2, <3>1, TypeFacts, SizeType
    <3>3. CASE x = r
      BY <1>1, <1>2, <1>6, <3>1, <3>2, <3>3 DEF Span
    <3>4. CASE x # r
      BY <1>1, <1>6, <3>1, <3>4 DEF Span
    <3> QED
      BY <3>3, <3>4
  <2>2. Span(s) \cap Span(q) = {}
    BY <2>1 DEF IInv, SpansOK
  <2> QED
    BY <2>1, <2>2
<1>13. MemosKept'
  <2> SUFFICES ASSUME ~wrapped, NEW s \in Records, Stored(s)', Alone(s)'
               PROVE  Holds(blocks', ptr[s], truth'[s])
    BY <1>1 DEF MemosKept
  <2>1. CASE s = r
    <3>1. ASSUME NEW k \in 1..Size(t)
          PROVE  ptr[r] + k - 1 \in DOMAIN blocks' /\ blocks'[ptr[r] + k - 1] = Piece(t, k)
      <4>1. k = 1 /\ Size(t) = 1 /\ ptr[r] + k - 1 = ptr[r] /\ b = Piece(t, 1)
        BY <1>1, <1>2
      <4> QED
        BY <1>3, <1>5, <4>1
    <3> QED
      BY <1>6, <2>1, <3>1 DEF Holds
  <2>2. CASE s # r
    <3>1. truth'[s] = truth[s] /\ Stored(s)
      BY <1>6, <2>2
    <3>2. Alone(s) /\ ptr[r] \notin Extent(ptr[s], truth[s])
      BY <1>1, <2>2, <3>1 DEF Alone
    <3>3. Holds(blocks, ptr[s], truth[s])
      BY <3>1, <3>2 DEF IInv, MemosKept
    <3>4. Size(truth[s]) \in Nat /\ ptr[s] \in Nat
      BY <1>0, <1>2, <3>1, TypeFacts, SizeType
    <3>5. ASSUME NEW k \in 1..Size(truth[s])
          PROVE  /\ ptr[s] + k - 1 \in DOMAIN blocks'
                 /\ blocks'[ptr[s] + k - 1] = Piece(truth[s], k)
      <4>1. ptr[s] + k - 1 \in DOMAIN blocks /\ blocks[ptr[s] + k - 1] = Piece(truth[s], k)
        BY <3>3 DEF Holds
      <4>2. ptr[s] + k - 1 # ptr[r]
        BY <3>2, <3>4 DEF Extent
      <4> QED
        BY <1>5, <4>1, <4>2
    <3> QED
      BY <3>1, <3>5 DEF Holds
  <2> QED
    BY <2>1, <2>2
<1> QED
  BY <1>7, <1>9, <1>10, <1>11, <1>12, <1>13 DEF IInv

-----------------------------------------------------------------------------
(* PACK *)

\* The records that stay are without a text until they are given one, because
\* their numbers are lost: nothing is promised of them.
LEMMA PackTableStep ==
    ASSUME IInv, PackTable
    PROVE  IInv'
<1>0. TypeOK
  BY DEF IInv
<1>1. TypeOK' /\ Len(ptr') = Len(Kept) /\ op'.kind = "pack"
  BY <1>0, PackTableType
<1>2. /\ truth' = [i \in DOMAIN Kept |-> None] /\ UNCHANGED <<header, blocks, wrapped>>
      /\ strayed' = (strayed \/ \E i \in DOMAIN Kept : ptr'[i] # 0)
  BY DEF PackTable, file
<1>3. Records' = DOMAIN Kept
  <2>1. Len(Kept) \in Nat /\ DOMAIN Kept = 1..Len(Kept)
    BY <1>0, KeptType, LenProperties
  <2>2. DOMAIN ptr' = 1..Len(ptr')
    BY <1>1, LenProperties DEF TypeOK
  <2> QED
    BY <1>1, <2>1, <2>2 DEF Records
<1>4. \A r \in Records' : ~Stored(r)'
  BY <1>2, <1>3 DEF Stored
<1>5. ~strayed' => \A r \in Records' : ptr'[r] = 0
  BY <1>2, <1>3
<1>6. ~Adding' /\ op'.kind # "add" /\ op'.kind # "point"
  BY <1>1 DEF Adding
<1>7. NumbersOK' /\ WrittenOK'
  BY <1>2, <1>6 DEF IInv, NumbersOK, WrittenOK
<1>8. PointersOK'
  BY <1>4, <1>5, <1>6 DEF PointersOK
<1>9. FreeOK' /\ SpansOK' /\ MemosKept'
  BY <1>4, <1>6 DEF FreeOK, EndsBefore, SpansOK, MemosKept
<1> QED
  BY <1>1, <1>7, <1>8, <1>9 DEF IInv

LEMMA PackFileStep ==
    ASSUME IInv, PackFile
    PROVE  IInv'
<1>0. TypeOK
  BY DEF IInv
<1>1. /\ op.kind = "pack" /\ blocks' = op.file /\ header' = Len(op.file) + 1
      /\ op' = Idle /\ UNCHANGED <<ptr, marked, truth, strayed, wrapped, Records>>
  BY DEF PackFile, table, history, Records
<1>2. op.file \in Seq(Contents) /\ Len(op.file) \in Nat
  BY <1>0, <1>1, TypeFacts, LenProperties
<1>3. ~Adding' /\ op'.kind = "idle"
  BY <1>1 DEF Adding, Idle
<1>4. TypeOK'
  BY <1>0, <1>1, <1>2 DEF TypeOK, Contents
<1>5. NumbersOK' /\ WrittenOK'
  BY <1>1, <1>2, <1>3 DEF NumbersOK, WrittenOK
<1>6. \A r \in Records' : ~Stored(r)' /\ (~strayed' => ptr'[r] = 0)
  BY <1>1 DEF IInv, PointersOK, Stored
<1>7. PointersOK'
  BY <1>3, <1>6 DEF PointersOK
<1>8. FreeOK' /\ SpansOK' /\ MemosKept'
  BY <1>3, <1>6 DEF FreeOK, EndsBefore, SpansOK, MemosKept
<1> QED
  BY <1>4, <1>5, <1>7, <1>8 DEF IInv

-----------------------------------------------------------------------------
(* The invariant *)

LEMMA InitHolds == Init => IInv
<1> SUFFICES ASSUME Init PROVE IInv
  OBVIOUS
<1>1. PICK old \in 0..MaxOld : /\ blocks = [i \in 1..old |-> ZeroBlock]
                              /\ header = LowByte(old + 1)
  BY DEF Init
<1>2. /\ ptr = << >> /\ marked = {} /\ op = Idle
      /\ truth = << >> /\ strayed = FALSE /\ wrapped = FALSE
  BY DEF Init
<1>3. old \in Nat /\ blocks \in Seq(Contents) /\ Len(blocks) = old
  BY <1>1, NumbersAssumption DEF Contents
<1>4. header \in Nat /\ header <= old + 1
  BY <1>1, <1>3, Digits DEF LowByte
<1>5. Records = {} /\ Len(ptr) = 0 /\ Len(truth) = 0
  BY <1>2 DEF Records
<1>6. TypeOK
  <2>1. ptr \in Seq(Nat) /\ truth \in Seq(Texts \cup {None})
    BY <1>2, EmptySeq
  <2> QED
    BY <1>2, <1>3, <1>4, <1>5, <2>1 DEF TypeOK, Contents
<1>7. ~Adding /\ op.kind = "idle"
  BY <1>2 DEF Adding, Idle
<1>8. NumbersOK /\ WrittenOK
  BY <1>3, <1>4, <1>7 DEF NumbersOK, WrittenOK
<1>9. PointersOK /\ FreeOK /\ SpansOK /\ MemosKept
  BY <1>5, <1>7 DEF PointersOK, FreeOK, EndsBefore, SpansOK, MemosKept
<1> QED
  BY <1>6, <1>8, <1>9 DEF IInv

LEMMA NextKeeps == IInv /\ [Next]_vars => IInv'
<1> SUFFICES ASSUME IInv, [Next]_vars PROVE IInv'
  OBVIOUS
<1>0. TypeOK
  BY DEF IInv
<1>1. CASE AppendBlank
  BY <1>1, AppendBlankStep
<1>2. ASSUME NEW r \in Records, Delete(r) \/ Recall(r) PROVE IInv'
  <2>1. UNCHANGED <<ptr, file, history, op>> /\ marked' \subseteq Records
    BY <1>0, <1>2 DEF Delete, Recall, TypeOK
  <2> QED
    BY <2>1, QuietStep
<1>3. ASSUME NEW r \in Records, NEW t \in Texts, AddStart(r, t) PROVE IInv'
  BY <1>3, AddStartStep
<1>4. ASSUME NEW r \in Records, NEW t \in Texts, Overwrite(r, t) PROVE IInv'
  BY <1>4, OverwriteStep
<1>5. CASE (\E r \in Records, t \in Texts : Refuse(r, t)) \/ UNCHANGED vars
  <2>1. UNCHANGED <<ptr, marked, file, history, op>>
    BY <1>5 DEF Refuse, vars, table
  <2> QED
    BY <1>0, <2>1, QuietStep DEF TypeOK
<1>6. CASE AddBlock
  BY <1>6, AddBlockStep
<1>7. CASE AddHeader
  BY <1>7, AddHeaderStep
<1>8. CASE AddPointer
  BY <1>8, AddPointerStep
<1>9. CASE PackTable
  BY <1>9, PackTableStep
<1>10. CASE PackFile
  BY <1>10, PackFileStep
<1>11. CASE Death
  <2>1. UNCHANGED <<ptr, marked, file, history>> /\ op' = Idle
    BY <1>11 DEF Death, table
  <2> QED
    BY <1>0, <2>1, QuietStep DEF TypeOK
<1> QED
  BY <1>1, <1>2, <1>3, <1>4, <1>5, <1>6, <1>7, <1>8, <1>9, <1>10, <1>11 DEF Next

LEMMA InvariantHolds == Spec => []IInv
  BY InitHolds, NextKeeps, PTL DEF Spec

\* The types of the two files, of the call under way and of the history, for
\* texts of any sizes, any width of the header's byte and any .dbt found.
THEOREM TypeCorrect == Spec => []TypeOK
<1>1. IInv => TypeOK
  BY DEF IInv
<1> QED
  BY <1>1, InvariantHolds, PTL

\* No two records share a block: the numbers add_to_dbt() hands out and the
\* header it writes keep the texts apart, however many REPLACEs have died
\* between their writes.
THEOREM BlocksAreOwn == Spec => []OwnBlocks
<1>1. IInv => OwnBlocks
  <2> SUFFICES ASSUME IInv, ~strayed, NEW r \in Records, NEW q \in Records,
                      r # q, Stored(r), Stored(q)
               PROVE  Extent(ptr[r], truth[r]) \cap Extent(ptr[q], truth[q]) = {}
    BY DEF OwnBlocks
  <2>1. ASSUME NEW s \in Records, Stored(s)
        PROVE  Extent(ptr[s], truth[s]) \subseteq Span(s)
    <3>1. /\ ptr[s] \in Nat /\ Size(truth[s]) \in Nat /\ Room(truth[s]) \in Nat
          /\ Size(truth[s]) <= Room(truth[s])
      BY <2>1, TypeFacts, SizeType DEF IInv
    <3> QED
      BY <3>1 DEF Extent, Span
  <2>2. Span(r) \cap Span(q) = {}
    BY DEF IInv, SpansOK
  <2> QED
    BY <2>1, <2>2
<1> QED
  BY <1>1, InvariantHolds, PTL

\* A text stays in its blocks until its record is given another, or PACK is run:
\* every REPLACE of another record writes behind it or in a block of its own.
THEOREM TextsAreKept == Spec => []MemosKept
<1>1. IInv => MemosKept
  BY DEF IInv
<1> QED
  BY <1>1, InvariantHolds, PTL

\* get_memo_field() reads back a text that leaves room in its one block.
THEOREM TextsAreReadBack == Spec => []ReadsBack
<1>1. IInv => ReadsBack
  <2> SUFFICES ASSUME IInv, ~wrapped, NextBlock > 0, NEW r \in Records, Stored(r),
                      Alone(r), truth[r].rest, Size(truth[r]) = 1
               PROVE  Readable(ptr[r]) /\ Recovered(ptr[r]) = <<Piece(truth[r], 1)>>
    BY DEF ReadsBack
  <2> DEFINE n == ptr[r]
             t == truth[r]
  <2>0. TypeOK
    BY DEF IInv
  <2>1. n \in Nat /\ n > 0 /\ t \in Texts
    BY <2>0, TypeFacts DEF IInv, PointersOK
  <2>2. t.full = 0
    BY <2>1, TextsAssumption DEF Size
  <2>3. Holds(blocks, n, t)
    BY DEF IInv, MemosKept
  <2>4. n \in DOMAIN blocks /\ blocks[n] = Piece(t, 1)
    <3>1. 1 \in 1..Size(t) /\ n + 1 - 1 = n
      BY <2>1
    <3> QED
      BY <2>3, <3>1 DEF Holds
  <2>5. Len(blocks) \in Nat /\ n \in 1..Len(blocks)
    BY <2>0, <2>4, TypeFacts
  <2>6. Readable(n)
    <3>1. n + Size(t) <= NextBlock
      BY DEF IInv, FreeOK, EndsBefore
    <3>2. NextBlock \in Int
      BY <2>0, NextBlockRead, ReadType DEF TypeOK
    <3> QED
      BY <2>1, <2>5, <3>1, <3>2 DEF Readable
  <2>7. ~IsFull(blocks[n])
    BY <2>2, <2>4 DEF IsFull, Piece
  <2> DEFINE from == IF n = 0 THEN 1 ELSE n
             last == CHOOSE e \in from..Len(blocks) : EndsAt(from, e)
  <2>8. Recovered(n) = SubSeq(blocks, from, last)
    BY DEF Recovered
  <2>9. from = n
    BY <2>1
  <2> HIDE DEF from
  <2>10. n \in from..Len(blocks) /\ EndsAt(from, n)
    BY <2>1, <2>5, <2>7, <2>9 DEF EndsAt
  <2>11. last = n
    <3>1. last \in from..Len(blocks) /\ EndsAt(from, last)
      BY <2>10
    <3> HIDE DEF last
    <3>2. last # n => n \in from..(last - 1)
      BY <2>1, <2>5, <2>9, <3>1
    <3> QED
      BY <2>7, <3>1, <3>2 DEF EndsAt
  <2>12. SubSeq(blocks, n, n) = <<blocks[n]>>
    <3>1. \A i \in n..n : blocks[i] \in Contents
      BY <2>0, <2>1, <2>4, TypeFacts
    <3>2. /\ SubSeq(blocks, n, n) \in Seq(Contents) /\ Len(SubSeq(blocks, n, n)) = 1
          /\ SubSeq(blocks, n, n)[1] = blocks[n]
      BY <2>1, <3>1, SubSeqProperties
    <3> DEFINE s == SubSeq(blocks, n, n)
    <3> HIDE DEF s
    <3>3. s = <<s[1]>>
      BY <3>2, OneElement DEF s
    <3> QED
      BY <3>2, <3>3 DEF s
  <2> QED
    BY <2>4, <2>6, <2>8, <2>9, <2>11, <2>12
<1> QED
  BY <1>1, InvariantHolds, PTL
=============================================================================
