--------------------------- MODULE ControlProofs ---------------------------
(***************************************************************************)
(* Proofs about Control, for every set of programs and every limit.        *)
(*                                                                         *)
(* ReturnsToCaller is not inductive.  The invariant relates the two stacks *)
(* of the interpreter: a call adds one to the level of the activations     *)
(* above it (Nested), and "calls" has at the level of each running call    *)
(* the place where that call resumes, but for the one that a RETURN on its *)
(* way has popped already (Matched).  TypeOK needs that the cursor, and    *)
(* every place it may return to, is a line of the program (Placed).        *)
(*                                                                         *)
(* ImplementsStructured rests on where the blocks of a program are         *)
(* (Inside), on where the scans of the code stop, and on an invariant that *)
(* says which block each activation runs (Tracked).                        *)
(***************************************************************************)
EXTENDS Control, OperatorLemmas, FiniteSetTheorems, SequenceTheorems, TLAPS

Typed ==
    /\ prog \in Programs
    /\ cur \in Nat /\ target \in Nat
    /\ stack \in Seq(Activation)
    /\ calls \in Seq(Nat) /\ Len(calls) <= MaxDepth
    /\ status \in {"ok", "exit", "loop", "return", "cancel"}

\* A call is one level above what it was called from, every other activation
\* on the level of the one below it; the levels never fall.
Nested ==
    stack # <<>> =>
        /\ stack[1].kind = "tokens" /\ stack[1].level = 0
        /\ \A i, j \in 1..Len(stack) :
              i < j => /\ stack[i].level <= stack[j].level
                       /\ IsCall(stack[j]) => stack[i].level < stack[j].level
        /\ \A i \in 2..Len(stack) :
              stack[i].level = stack[i - 1].level + (IF IsCall(stack[i]) THEN 1 ELSE 0)

\* The frames of the running calls; a RETURN on its way has taken the last.
Framed ==
    /\ Len(calls) = IF status = "return" /\ Top.level > 0 THEN Top.level - 1 ELSE Top.level
    /\ \A i \in 2..Len(stack) :
          IsCall(stack[i]) =>
            stack[i].resume = IF stack[i].level <= Len(calls) THEN calls[stack[i].level]
                              ELSE target

Matched == (~fellOff /\ ~refused /\ stack # <<>>) => Framed

IInv == Typed /\ Nested /\ Matched

-----------------------------------------------------------------------------
(* Programs *)

\* What a program is made of has its type.
LEMMA ProgramTypes ==
    ASSUME Typed
    PROVE  /\ Len(prog.lines) \in Nat
           /\ \A f \in DOMAIN prog.files : prog.files[f] \in Nat
<1>1. IsProgram(prog)
  BY ProgramsAssumption DEF Typed
<1>2. Len(prog.lines) \in Nat
  BY <1>1, LenProperties DEF IsProgram
<1> QED
  BY <1>1, <1>2 DEF IsProgram

\* A scan ends on a line, and the cursor on it or behind it.
LEMMA ConsumedType ==
    ASSUME Typed, NEW q \in 1..Len(prog.lines), NEW kw
    PROVE  Consumed(prog, q, kw) \in Nat /\ q \in Nat /\ q + 1 \in Nat
  BY ProgramTypes DEF Consumed

\* What is pushed is an activation.
LEMMA PushedType ==
    ASSUME Typed, stack # <<>>, NEW k \in Blocks \cup CallKinds, NEW at \in Nat,
           NEW resume \in Nat
    PROVE  /\ Top \in Activation
           /\ Block(k, at) \in Activation /\ Call(k, at, resume) \in Activation
           /\ Block(k, at).kind = k /\ Block(k, at).level = Top.level
           /\ Call(k, at, resume).kind = k /\ Call(k, at, resume).level = Top.level + 1
           /\ Call(k, at, resume).resume = resume
<1>1. Top \in Activation
  BY DEF Typed, Top
<1> QED
  BY <1>1 DEF Block, Call, Started, Activation

-----------------------------------------------------------------------------
(* The stack *)

LEMMA AppendFacts ==
    ASSUME NEW S, NEW s \in Seq(S), NEW x \in S
    PROVE  /\ Append(s, x) \in Seq(S) /\ Append(s, x) # <<>>
           /\ Len(s) \in Nat /\ Len(Append(s, x)) = Len(s) + 1
           /\ \A i \in 1..Len(s) : Append(s, x)[i] = s[i]
           /\ Append(s, x)[Len(s) + 1] = x
  BY AppendProperties

LEMMA FrontFacts ==
    ASSUME NEW S, NEW s \in Seq(S), s # <<>>
    PROVE  /\ Len(s) \in Nat /\ Len(s) >= 1
           /\ SubSeq(s, 1, Len(s) - 1) \in Seq(S)
           /\ Len(SubSeq(s, 1, Len(s) - 1)) = Len(s) - 1
           /\ \A i \in 1..(Len(s) - 1) : SubSeq(s, 1, Len(s) - 1)[i] = s[i]
<1>1. Len(s) \in Nat /\ Len(s) >= 1
  BY EmptySeq
<1> DEFINE n == Len(s) - 1
<1>2. n \in Int /\ n >= 0 /\ 1 \in Int /\ \A i \in 1..n : s[i] \in S
  BY <1>1
<1> HIDE DEF n
<1>3. /\ SubSeq(s, 1, n) \in Seq(S)
      /\ Len(SubSeq(s, 1, n)) = IF 1 <= n THEN n - 1 + 1 ELSE 0
      /\ \A i \in 1..(n - 1 + 1) : SubSeq(s, 1, n)[i] = s[1 + i - 1]
  BY <1>2, SubSeqProperties
<1>4. /\ Len(SubSeq(s, 1, n)) = n
      /\ \A i \in 1..n : SubSeq(s, 1, n)[i] = s[i]
  BY <1>2, <1>3
<1> QED
  BY <1>1, <1>3, <1>4 DEF n

LEMMA LevelType ==
    ASSUME NEW s \in Seq(Activation), NEW i \in 1..Len(s)
    PROVE  s[i] \in Activation /\ s[i].level \in Nat
<1>1. s[i] \in Activation
  BY ElementOfSeq
<1> QED
  BY <1>1 DEF Activation

LEMMA PushNested ==
    ASSUME Typed, Nested, stack # <<>>, NEW x \in Activation,
           x.level = Top.level + (IF IsCall(x) THEN 1 ELSE 0),
           stack' = Append(stack, x)
    PROVE  Nested' /\ stack' # <<>> /\ stack' \in Seq(Activation) /\ Top' = x
<1>1. /\ Len(stack) \in Nat /\ Len(stack) >= 1 /\ Len(stack') = Len(stack) + 1
      /\ stack' \in Seq(Activation) /\ stack'[Len(stack')] = x
      /\ \A i \in 1..Len(stack) : stack'[i] = stack[i] /\ stack[i].level \in Nat
      /\ stack' # <<>>
  <2>1. stack \in Seq(Activation)
    BY DEF Typed
  <2>2. \A i \in 1..Len(stack) : stack[i].level \in Nat
    BY <2>1, LevelType
  <2> QED
    BY <2>1, <2>2, AppendFacts, FrontFacts
<1>2. /\ stack[1].kind = "tokens" /\ stack[1].level = 0
      /\ \A i, j \in 1..Len(stack) :
              i < j => /\ stack[i].level <= stack[j].level
                       /\ IsCall(stack[j]) => stack[i].level < stack[j].level
      /\ \A i \in 2..Len(stack) :
              stack[i].level = stack[i - 1].level + (IF IsCall(stack[i]) THEN 1 ELSE 0)
  BY DEF Nested
<1>3. \A i \in 1..Len(stack) : stack[i].level <= Top.level
  BY <1>1, <1>2 DEF Top
<1>4. ASSUME NEW i \in 1..Len(stack'), NEW j \in 1..Len(stack'), i < j
      PROVE  /\ stack'[i].level <= stack'[j].level
             /\ IsCall(stack'[j]) => stack'[i].level < stack'[j].level
  <2>1. CASE j = Len(stack')
    <3>1. i \in 1..Len(stack) /\ stack'[j] = x /\ stack'[i] = stack[i]
      BY <1>1, <1>4, <2>1
    <3>2. Top.level \in Nat /\ stack[i].level \in Nat /\ stack[i].level <= Top.level
      BY <1>1, <1>3, <3>1 DEF Top
    <3> QED
      BY <3>1, <3>2
  <2>2. CASE j # Len(stack')
    BY <1>1, <1>2, <1>4, <2>2
  <2> QED
    BY <2>1, <2>2
<1>5. ASSUME NEW i \in 2..Len(stack')
      PROVE  stack'[i].level = stack'[i - 1].level + (IF IsCall(stack'[i]) THEN 1 ELSE 0)
  BY <1>1, <1>2, <1>5 DEF Top
<1>6. stack'[1].kind = "tokens" /\ stack'[1].level = 0
  BY <1>1, <1>2
<1>7. Nested'
  BY <1>4, <1>5, <1>6 DEF Nested, IsCall
<1> QED
  BY <1>1, <1>7 DEF Top

LEMMA PopNested ==
    ASSUME Typed, Nested, Len(stack) > 1, stack' = Popped
    PROVE  /\ Nested' /\ stack' # <<>> /\ stack' \in Seq(Activation)
           /\ Len(stack') = Len(stack) - 1
           /\ \A i \in 1..(Len(stack) - 1) : stack'[i] = stack[i]
           /\ Top' = stack[Len(stack) - 1]
           /\ Top.level = Top'.level + (IF IsCall(Top) THEN 1 ELSE 0)
<1>1. /\ Len(stack) \in Nat /\ stack # <<>>
      /\ stack' \in Seq(Activation) /\ Len(stack') = Len(stack) - 1 /\ stack' # <<>>
      /\ \A i \in 1..(Len(stack) - 1) : stack'[i] = stack[i]
  <2>1. stack \in Seq(Activation) /\ stack # <<>>
    BY EmptySeq DEF Typed
  <2>2. stack' \in Seq(Activation) /\ Len(stack') = Len(stack) - 1 /\ Len(stack) \in Nat
    BY <2>1, FrontFacts DEF Popped
  <2>3. stack' # <<>>
    BY <2>2, EmptySeq
  <2> QED
    BY <2>1, <2>2, <2>3, FrontFacts DEF Popped
<1>2. Nested'
  BY <1>1 DEF Nested, IsCall
<1>3. Top' = stack[Len(stack) - 1]
  BY <1>1 DEF Top
<1> QED
  BY <1>1, <1>2, <1>3 DEF Nested, Top

\* A branch of DO CASE is entered or left: the same activation in another mode.
LEMMA SwapNested ==
    ASSUME Typed, Nested, stack # <<>>, NEW x \in Activation,
           x.level = Top.level, x.kind = Top.kind, stack' = Append(Popped, x)
    PROVE  /\ Nested' /\ stack' # <<>> /\ stack' \in Seq(Activation) /\ Top' = x
           /\ Len(stack') = Len(stack)
           /\ \A i \in 1..(Len(stack) - 1) : stack'[i] = stack[i]
<1>1. /\ Len(stack) \in Nat /\ Len(stack) >= 1
      /\ stack' \in Seq(Activation) /\ Len(stack') = Len(stack)
      /\ stack'[Len(stack)] = x
      /\ \A i \in 1..(Len(stack) - 1) : stack'[i] = stack[i]
      /\ stack' # <<>>
  <2>1. /\ stack \in Seq(Activation) /\ Len(stack) \in Nat /\ Len(stack) >= 1
        /\ Popped \in Seq(Activation) /\ Len(Popped) = Len(stack) - 1
        /\ \A i \in 1..(Len(stack) - 1) : Popped[i] = stack[i]
    BY FrontFacts DEF Typed, Popped
  <2>2. /\ stack' \in Seq(Activation) /\ stack' # <<>>
        /\ Len(stack') = Len(Popped) + 1
        /\ \A i \in 1..Len(Popped) : stack'[i] = Popped[i]
        /\ stack'[Len(Popped) + 1] = x
    BY <2>1, AppendFacts
  <2> QED
    BY <2>1, <2>2
<1>2. \A i \in 1..Len(stack) : stack'[i].level = stack[i].level /\ stack'[i].kind = stack[i].kind
  BY <1>1 DEF Top
<1>3. \A i \in 1..Len(stack') : IsCall(stack'[i]) = IsCall(stack[i])
  BY <1>1, <1>2 DEF IsCall
<1>4. /\ stack[1].kind = "tokens" /\ stack[1].level = 0
      /\ \A i, j \in 1..Len(stack) :
              i < j => /\ stack[i].level <= stack[j].level
                       /\ IsCall(stack[j]) => stack[i].level < stack[j].level
      /\ \A i \in 2..Len(stack) :
              stack[i].level = stack[i - 1].level + (IF IsCall(stack[i]) THEN 1 ELSE 0)
  BY DEF Nested
<1>5. ASSUME NEW i \in 2..Len(stack')
      PROVE  stack'[i].level = stack'[i - 1].level + (IF IsCall(stack'[i]) THEN 1 ELSE 0)
  <2>1. i \in 1..Len(stack) /\ i - 1 \in 1..Len(stack) /\ i \in 2..Len(stack)
    BY <1>1
  <2> QED
    BY <1>1, <1>2, <1>3, <1>4, <2>1
<1>6. \A i, j \in 1..Len(stack') :
              i < j => /\ stack'[i].level <= stack'[j].level
                       /\ IsCall(stack'[j]) => stack'[i].level < stack'[j].level
  <2> SUFFICES ASSUME NEW i \in 1..Len(stack'), NEW j \in 1..Len(stack'), i < j
               PROVE  /\ stack'[i].level <= stack'[j].level
                      /\ IsCall(stack'[j]) => stack'[i].level < stack'[j].level
    OBVIOUS
  <2>1. i \in 1..Len(stack) /\ j \in 1..Len(stack)
    BY <1>1
  <2> QED
    BY <1>2, <1>3, <1>4, <2>1
<1>7. Nested'
  BY <1>1, <1>2, <1>4, <1>5, <1>6 DEF Nested, IsCall
<1> QED
  BY <1>1, <1>7 DEF Top

-----------------------------------------------------------------------------
(* The two stacks.  A block is pushed, popped or goes on in another mode: the *)
(* frames stay as they are.                                                   *)

\* A block is never at the bottom of the stack.
LEMMA BlockOnTop ==
    ASSUME IInv, stack # <<>>, Top.kind \in Blocks
    PROVE  Len(stack) > 1 /\ ~IsCall(Top)
<1>1. Len(stack) \in Nat /\ Len(stack) >= 1
  BY FrontFacts DEF IInv, Typed
<1>2. stack[1].kind = "tokens"
  BY DEF IInv, Nested
<1> QED
  BY <1>1, <1>2 DEF Top, Blocks, IsCall, CallKinds

LEMMA BlockPushed ==
    ASSUME IInv, stack # <<>>, status # "return", status' # "return",
           NEW x \in Activation, ~IsCall(x), x.level = Top.level,
           stack' = Append(stack, x), UNCHANGED <<calls, target, history>>
    PROVE  Nested' /\ Matched' /\ stack' \in Seq(Activation)
<1>1. Len(stack) \in Nat /\ Len(stack) >= 1 /\ Top.level \in Nat
  BY FrontFacts, LevelType DEF IInv, Typed, Top
<1>2. Nested' /\ stack' # <<>> /\ stack' \in Seq(Activation) /\ Top' = x
  BY <1>1, PushNested DEF IInv
<1>3. /\ Len(stack') = Len(stack) + 1 /\ stack'[Len(stack) + 1] = x
      /\ \A i \in 1..Len(stack) : stack'[i] = stack[i]
  BY AppendFacts DEF IInv, Typed
<1>4. ASSUME ~fellOff, ~refused PROVE Framed'
  <2>1. Framed
    BY <1>4 DEF IInv, Matched
  <2>2. Len(calls') = Top'.level
    BY <1>2, <2>1 DEF Framed, history
  <2>3. ASSUME NEW i \in 2..Len(stack'), IsCall(stack'[i])
        PROVE  stack'[i].resume = IF stack'[i].level <= Len(calls') THEN calls'[stack'[i].level]
                                  ELSE target'
    <3>1. i \in 2..Len(stack) /\ stack'[i] = stack[i]
      BY <1>1, <1>3, <2>3
    <3> QED
      BY <2>1, <2>3, <3>1 DEF Framed
  <2> QED
    BY <2>2, <2>3 DEF Framed, IsCall
<1> QED
  BY <1>2, <1>4 DEF Matched, history

LEMMA BlockPopped ==
    ASSUME IInv, Len(stack) > 1, ~IsCall(Top), stack' = Popped,
           status' = "return" <=> status = "return", UNCHANGED <<calls, target, history>>
    PROVE  Nested' /\ Matched' /\ stack' \in Seq(Activation) /\ stack' # <<>>
<1>1. /\ Nested' /\ stack' # <<>> /\ stack' \in Seq(Activation)
      /\ Len(stack') = Len(stack) - 1
      /\ \A i \in 1..(Len(stack) - 1) : stack'[i] = stack[i]
      /\ Top.level = Top'.level + 0
  BY PopNested DEF IInv
<1>2. Len(stack) \in Nat /\ Top'.level \in Nat
  <2>1. Len(stack') \in Nat /\ Len(stack') >= 1
    BY <1>1, FrontFacts
  <2> QED
    BY <1>1, <2>1, LevelType, LenProperties DEF Top, IInv, Typed
<1>3. ASSUME ~fellOff, ~refused PROVE Framed'
  <2>1. Framed
    BY <1>1, <1>3 DEF IInv, Matched
  <2>2. Top.level = Top'.level
    BY <1>1, <1>2
  <2>3. ASSUME NEW i \in 2..Len(stack'), IsCall(stack'[i])
        PROVE  stack'[i].resume = IF stack'[i].level <= Len(calls') THEN calls'[stack'[i].level]
                                  ELSE target'
    <3>1. i \in 2..Len(stack) /\ stack'[i] = stack[i]
      BY <1>1, <1>2, <2>3
    <3> QED
      BY <2>1, <2>3, <3>1 DEF Framed
  <2> QED
    BY <2>1, <2>2, <2>3 DEF Framed, IsCall
<1> QED
  BY <1>1, <1>3 DEF Matched, history

LEMMA BlockSwapped ==
    ASSUME IInv, stack # <<>>, status # "return", status' # "return", ~IsCall(Top),
           NEW x \in Activation, x.level = Top.level, x.kind = Top.kind,
           stack' = Append(Popped, x), UNCHANGED <<calls, target, history>>
    PROVE  Nested' /\ Matched' /\ stack' \in Seq(Activation)
<1>1. /\ Nested' /\ stack' # <<>> /\ stack' \in Seq(Activation) /\ Top' = x
      /\ Len(stack') = Len(stack)
      /\ \A i \in 1..(Len(stack) - 1) : stack'[i] = stack[i]
  BY SwapNested DEF IInv
<1>2. Len(stack) \in Nat
  BY LenProperties DEF IInv, Typed
<1>3. ASSUME ~fellOff, ~refused PROVE Framed'
  <2>1. Framed
    BY <1>3 DEF IInv, Matched
  <2>2. Len(calls') = Top'.level
    BY <1>1, <2>1 DEF Framed
  <2>3. ASSUME NEW i \in 2..Len(stack'), IsCall(stack'[i])
        PROVE  stack'[i].resume = IF stack'[i].level <= Len(calls') THEN calls'[stack'[i].level]
                                  ELSE target'
    <3>1. stack'[Len(stack)] = x
      BY <1>1 DEF Top
    <3>2. i # Len(stack)
      BY <2>3, <3>1 DEF IsCall
    <3>3. i \in 2..Len(stack) /\ stack'[i] = stack[i]
      BY <1>1, <1>2, <2>3, <3>2
    <3> QED
      BY <2>1, <2>3, <3>3 DEF Framed
  <2> QED
    BY <2>2, <2>3 DEF Framed, IsCall
<1> QED
  BY <1>1, <1>3 DEF Matched, history

\* DO CASE between its branches, and in one.
LEMMA ModeType ==
    ASSUME IInv, stack # <<>>, NEW b \in {"none", "case", "otherwise"}
    PROVE  /\ [Top EXCEPT !.body = b] \in Activation
           /\ [Top EXCEPT !.body = b].level = Top.level
           /\ [Top EXCEPT !.body = b].kind = Top.kind
           /\ [Top EXCEPT !.matched = TRUE, !.body = b] \in Activation
           /\ [Top EXCEPT !.matched = TRUE, !.body = b].level = Top.level
           /\ [Top EXCEPT !.matched = TRUE, !.body = b].kind = Top.kind
<1>1. Len(stack) \in 1..Len(stack)
  BY FrontFacts DEF IInv, Typed
<1>2. Top \in Activation
  BY <1>1, LevelType DEF Top, IInv, Typed
<1> QED
  BY <1>2 DEF Activation

\* Statements inside a block.
LEMMA StackKept ==
    ASSUME IInv, status # "return", status' # "return",
           UNCHANGED <<stack, calls, target, history>>
    PROVE  Nested' /\ Matched'
<1>1. Nested'
  BY DEF IInv, Nested, IsCall
<1>2. Matched'
  BY DEF IInv, Matched, Framed, IsCall, Top, history
<1> QED
  BY <1>1, <1>2

LEMMA StackEmptied ==
    ASSUME stack' = <<>>
    PROVE  Nested' /\ Matched'
  BY DEF Nested, Matched

-----------------------------------------------------------------------------
(* A call pushes an activation and a frame, RETURN pops the frame, and the    *)
(* end of the call the activation.                                            *)

LEMMA CallPushed ==
    ASSUME IInv, stack # <<>>, status # "return", status' # "return",
           NEW x \in Activation, IsCall(x), x.level = Top.level + 1, cur + 1 = x.resume,
           stack' = Append(stack, x), calls' = PushFrame(calls, ReturnPoint(cur)),
           refused' = (refused \/ Len(calls) = MaxDepth), UNCHANGED <<target, fellOff>>
    PROVE  /\ Nested' /\ Matched' /\ stack' \in Seq(Activation)
           /\ calls' \in Seq(Nat) /\ Len(calls') <= MaxDepth
<1>1. /\ Len(stack) \in Nat /\ Len(stack) >= 1 /\ Top.level \in Nat
      /\ Len(calls) \in Nat /\ Len(calls) <= MaxDepth /\ MaxDepth \in Nat
      /\ calls \in Seq(Nat) /\ cur + 1 \in Nat
  BY FrontFacts, LevelType, LenProperties, BoundsAssumption DEF IInv, Typed, Top
<1>2. Nested' /\ stack' # <<>> /\ stack' \in Seq(Activation) /\ Top' = x
  BY <1>1, PushNested DEF IInv
<1>3. /\ Len(stack') = Len(stack) + 1 /\ stack'[Len(stack) + 1] = x
      /\ \A i \in 1..Len(stack) : stack'[i] = stack[i]
  BY AppendFacts DEF IInv, Typed
<1>4. CASE Len(calls) < MaxDepth
  <2>1. /\ calls' \in Seq(Nat) /\ Len(calls') = Len(calls) + 1
        /\ \A i \in 1..Len(calls) : calls'[i] = calls[i]
        /\ calls'[Len(calls) + 1] = x.resume
    BY <1>1, <1>4, AppendFacts DEF PushFrame, ReturnPoint
  <2>2. ASSUME ~fellOff, ~refused PROVE Framed'
    <3>1. Framed
      BY <2>2 DEF IInv, Matched
    <3>2. Len(calls') = Top'.level
      BY <1>1, <1>2, <2>1, <3>1 DEF Framed
    <3>3. ASSUME NEW i \in 2..Len(stack'), IsCall(stack'[i])
          PROVE  stack'[i].resume = IF stack'[i].level <= Len(calls') THEN calls'[stack'[i].level]
                                    ELSE target'
      <4>1. CASE i = Len(stack')
        <5>1. stack'[i] = x
          BY <1>3, <4>1
        <5> QED
          BY <1>1, <1>2, <2>1, <3>1, <3>2, <5>1 DEF Framed
      <4>2. CASE i # Len(stack')
        <5>1. i \in 2..Len(stack) /\ stack'[i] = stack[i] /\ i \in 1..Len(stack)
          BY <1>1, <1>3, <3>3, <4>2
        <5>2. stack[i].level <= Top.level /\ stack[i].level \in Nat /\ stack[i].level >= 1
          <6>1. stack[i].level \in Nat
            BY <5>1, LevelType DEF IInv, Typed
          <6>2. stack[1].level = 0 /\ stack[1].level < stack[i].level
            BY <1>1, <3>3, <5>1 DEF IInv, Nested
          <6>3. stack[i].level <= Top.level
            BY <1>1, <5>1, <6>1 DEF IInv, Nested, Top
          <6> QED
            BY <6>1, <6>2, <6>3
        <5>3. stack[i].resume = calls[stack[i].level]
          BY <1>1, <3>1, <3>3, <5>1, <5>2 DEF Framed
        <5>4. Len(calls) = Top.level
          BY <3>1 DEF Framed
        <5>5. stack[i].level \in 1..Len(calls)
          BY <1>1, <5>2, <5>4
        <5>6. calls'[stack[i].level] = calls[stack[i].level]
          BY <2>1, <5>5
        <5>7. stack[i].level <= Len(calls')
          BY <1>1, <2>1, <5>2, <5>4
        <5> QED
          BY <5>1, <5>3, <5>6, <5>7
      <4> QED
        BY <4>1, <4>2
    <3> QED
      BY <3>2, <3>3 DEF Framed, IsCall
  <2>3. Matched'
    BY <2>2, Zenon DEF Matched
  <2> QED
    BY <1>1, <1>2, <1>4, <2>1, <2>3
<1>5. CASE ~(Len(calls) < MaxDepth)
  <2>1. Len(calls) = MaxDepth /\ calls' = calls
    BY <1>1, <1>5 DEF PushFrame
  <2>2. refused' = TRUE
    BY <2>1
  <2> QED
    BY <1>1, <1>2, <2>1, <2>2 DEF Matched
<1> QED
  BY <1>4, <1>5

LEMMA ReturnRaised ==
    ASSUME IInv, Return
    PROVE  /\ Nested' /\ Matched'
           /\ calls' \in Seq(Nat) /\ Len(calls') <= MaxDepth /\ target' \in Nat
<1>1. /\ stack # <<>> /\ status = "ok" /\ status' = "return"
      /\ UNCHANGED <<stack, fellOff, refused>>
      /\ IF calls = <<>> THEN UNCHANGED <<calls, target>>
         ELSE target' = calls[Len(calls)] /\ calls' = PopFrame(calls)
  BY DEF Return, At, Running, history
<1>2. /\ Len(stack) \in Nat /\ Len(stack) >= 1 /\ Top.level \in Nat
      /\ Len(calls) \in Nat /\ Len(calls) <= MaxDepth /\ MaxDepth \in Nat
      /\ calls \in Seq(Nat) /\ target \in Nat
  BY <1>1, FrontFacts, LevelType, LenProperties, BoundsAssumption DEF IInv, Typed, Top
<1>3. Nested' /\ Top' = Top
  BY <1>1 DEF IInv, Nested, IsCall, Top
<1>4. ASSUME NEW i \in 2..Len(stack), IsCall(stack[i])
      PROVE  stack[i].level \in Nat /\ 1 <= stack[i].level /\ stack[i].level <= Top.level
  <2>1. stack[i].level \in Nat
    BY <1>2, LevelType DEF IInv, Typed
  <2>2. stack[1].level = 0 /\ stack[1].level < stack[i].level
    BY <1>1, <1>2, <1>4 DEF IInv, Nested
  <2>3. stack[i].level <= Top.level
    BY <1>1, <1>2, <2>1 DEF IInv, Nested, Top
  <2> QED
    BY <2>1, <2>2, <2>3
<1>5. CASE calls = <<>>
  <2>1. ASSUME ~fellOff, ~refused PROVE Framed'
    <3>1. Framed /\ Top.level = 0
      BY <1>1, <1>5, <2>1 DEF IInv, Matched, Framed
    <3>2. \A i \in 2..Len(stack) : ~IsCall(stack[i])
      BY <1>2, <1>4, <3>1
    <3> QED
      BY <1>1, <1>3, <1>5, <3>1, <3>2 DEF Framed, IsCall
  <2>2. Matched'
    BY <1>1, <2>1, Zenon DEF Matched
  <2>3. calls' = calls /\ target' = target
    BY <1>1, <1>5
  <2>4. calls' \in Seq(Nat)
    BY <1>2, <2>3
  <2>5. Len(calls') <= MaxDepth
    BY <1>2, <2>3
  <2>6. target' \in Nat
    BY <1>2, <2>3
  <2> QED
    BY <1>3, <2>2, <2>4, <2>5, <2>6
<1>6. CASE calls # <<>>
  <2>1. /\ Len(calls) >= 1 /\ calls' \in Seq(Nat) /\ Len(calls') = Len(calls) - 1
        /\ \A i \in 1..(Len(calls) - 1) : calls'[i] = calls[i]
    <3>1. calls' = SubSeq(calls, 1, Len(calls) - 1)
      BY <1>1, <1>6 DEF PopFrame
    <3>2. calls \in Seq(Nat)
      BY <1>2
    <3> QED
      BY <1>6, <3>1, <3>2, FrontFacts
  <2>2. target' = calls[Len(calls)] /\ target' \in Nat
    BY <1>1, <1>2, <1>6, <2>1, ElementOfSeq
  <2>3. ASSUME ~fellOff, ~refused PROVE Framed'
    <3>1. Framed /\ Len(calls) = Top.level
      BY <1>1, <2>3 DEF IInv, Matched, Framed
    <3>2. Len(calls') = Top'.level - 1 /\ Top'.level > 0
      BY <1>2, <1>3, <2>1, <3>1
    <3>3. ASSUME NEW i \in 2..Len(stack), IsCall(stack[i])
          PROVE  stack[i].resume = IF stack[i].level <= Len(calls') THEN calls'[stack[i].level]
                                   ELSE target'
      <4>1. stack[i].resume = calls[stack[i].level]
        BY <1>4, <3>1, <3>3 DEF Framed
      <4>2. stack[i].level \in 1..Len(calls)
        BY <1>2, <1>4, <3>1, <3>3
      <4>3. CASE stack[i].level = Len(calls)
        BY <1>2, <2>1, <2>2, <4>1, <4>3
      <4>4. CASE stack[i].level # Len(calls)
        <5>1. stack[i].level \in 1..(Len(calls) - 1)
          BY <1>2, <4>2, <4>4
        <5>2. stack[i].level <= Len(calls') /\ calls'[stack[i].level] = calls[stack[i].level]
          BY <1>2, <2>1, <5>1
        <5> QED
          BY <4>1, <5>2
      <4> QED
        BY <4>3, <4>4
    <3> QED
      BY <1>1, <3>2, <3>3 DEF Framed, IsCall
  <2>4. Matched'
    BY <1>1, <2>3, Zenon DEF Matched
  <2> QED
    BY <1>1, <1>2, <1>3, <2>1, <2>2, <2>4
<1> QED
  BY <1>5, <1>6

LEMMA CallReturned ==
    ASSUME IInv, status = "return", Len(stack) > 1, IsCall(Top), stack' = Popped,
           status' = "ok", UNCHANGED <<calls, target, history>>
    PROVE  Nested' /\ Matched' /\ stack' \in Seq(Activation)
<1>1. /\ Nested' /\ stack' # <<>> /\ stack' \in Seq(Activation)
      /\ Len(stack') = Len(stack) - 1
      /\ \A i \in 1..(Len(stack) - 1) : stack'[i] = stack[i]
      /\ Top.level = Top'.level + 1
  BY PopNested DEF IInv
<1>2. /\ Len(stack) \in Nat /\ Len(stack') >= 1 /\ Len(stack') \in Nat
      /\ Top'.level \in Nat /\ Len(calls) \in Nat
  <2>1. Len(stack') \in Nat /\ Len(stack') >= 1
    BY <1>1, FrontFacts
  <2> QED
    BY <1>1, <2>1, LevelType, LenProperties DEF Top, IInv, Typed
<1>3. ASSUME ~fellOff, ~refused PROVE Framed'
  <2>1. Framed /\ Len(calls) = Top'.level
    BY <1>1, <1>2, <1>3 DEF IInv, Matched, Framed
  <2>2. ASSUME NEW i \in 2..Len(stack'), IsCall(stack'[i])
        PROVE  stack'[i].resume = IF stack'[i].level <= Len(calls') THEN calls'[stack'[i].level]
                                  ELSE target'
    <3>1. i \in 2..Len(stack) /\ stack'[i] = stack[i]
      BY <1>1, <1>2, <2>2
    <3> QED
      BY <2>1, <2>2, <3>1 DEF Framed
  <2> QED
    BY <2>1, <2>2 DEF Framed, IsCall
<1> QED
  BY <1>1, <1>3 DEF Matched, history

LEMMA CallFellOff ==
    ASSUME IInv, Len(stack) > 1, stack' = Popped, fellOff'
    PROVE  Nested' /\ Matched' /\ stack' \in Seq(Activation)
  BY PopNested DEF IInv, Matched

-----------------------------------------------------------------------------
(* The invariant holds *)

LEMMA InitHolds == Init => IInv
<1> SUFFICES ASSUME Init PROVE IInv
  OBVIOUS
<1>1. /\ prog \in Programs /\ cur = 1 /\ stack = <<Started("tokens", 0, 0, 0)>>
      /\ status = "ok" /\ calls = <<>> /\ target = 0
  BY DEF Init
<1>2. Started("tokens", 0, 0, 0) \in Activation
  BY DEF Started, Activation, CallKinds
<1>3. /\ stack \in Seq(Activation) /\ Len(stack) = 1 /\ Top = stack[1]
      /\ stack[1].kind = "tokens" /\ stack[1].level = 0
  BY <1>1, <1>2 DEF Top, Started
<1>4. calls \in Seq(Nat) /\ Len(calls) = 0 /\ Len(calls) <= MaxDepth
  BY <1>1, EmptySeq, BoundsAssumption
<1>5. Typed
  BY <1>1, <1>3, <1>4 DEF Typed
<1>6. Nested
  BY <1>3 DEF Nested
<1>7. Matched
  BY <1>1, <1>3, <1>4 DEF Matched, Framed
<1> QED
  BY <1>5, <1>6, <1>7 DEF IInv

\* What a step leaves alone keeps its type.
LEMMA TypesKept ==
    ASSUME IInv
    PROVE  /\ prog' = prog => prog' \in Programs
           /\ cur' = cur => cur' \in Nat
           /\ target' = target => target' \in Nat
           /\ stack' = stack => stack' \in Seq(Activation)
           /\ calls' = calls => calls' \in Seq(Nat) /\ Len(calls') <= MaxDepth
           /\ status' = status => status' \in {"ok", "exit", "loop", "return", "cancel"}
           /\ cur + 1 \in Nat
           /\ <<>> \in Seq(Activation)
  BY EmptySeq DEF IInv, Typed

\* The statements that neither call nor return.
LEMMA StatementHolds ==
    ASSUME IInv
    PROVE  /\ Simple => IInv'
           /\ IfTrue => IInv'
           /\ IfFalse => IInv'
           /\ WhileTrue => IInv'
           /\ WhileFalse => IInv'
           /\ DoCase => IInv'
           /\ Raise => IInv'
           /\ Cancel => IInv'
           /\ SetProcedure => IInv'
<1> USE DEF At, Running, Keep, Stay
<1>0. Typed
  BY DEF IInv
<1>1. ASSUME Simple PROVE IInv'
  BY <1>1, TypesKept, StackKept DEF Simple, IInv, Typed
<1>2. ASSUME IfTrue PROVE IInv'
  <2>1. stack # <<>> /\ status = "ok"
    BY <1>2 DEF IfTrue
  <2>2. Block("then", cur) \in Activation /\ ~IsCall(Block("then", cur))
        /\ Block("then", cur).level = Top.level
    BY <1>0, <2>1, PushedType DEF Blocks, CallKinds, IsCall, Typed
  <2>3. Nested' /\ Matched' /\ stack' \in Seq(Activation)
    BY <1>2, <2>1, <2>2, BlockPushed DEF IfTrue
  <2> QED
    BY <1>2, <2>3, TypesKept DEF IfTrue, IInv, Typed
<1>3. ASSUME IfFalse PROVE IInv'
  <2>1. stack # <<>> /\ status = "ok"
    BY <1>3 DEF IfFalse
  <2>2. PICK q \in 1..Len(prog.lines) :
           IF Kw(prog, q) = "else"
           THEN cur' = q + 1 /\ stack' = Append(stack, Block("else", cur))
           ELSE cur' = Consumed(prog, q, "endif") /\ UNCHANGED stack
    BY <1>3 DEF IfFalse
  <2>3. cur' \in Nat
    BY <1>0, <2>2, ConsumedType
  <2>4. Nested' /\ Matched' /\ stack' \in Seq(Activation)
    <3>1. CASE UNCHANGED stack
      BY <1>3, <2>1, <3>1, StackKept, TypesKept DEF IfFalse
    <3>2. CASE stack' = Append(stack, Block("else", cur))
      <4>1. Block("else", cur) \in Activation /\ ~IsCall(Block("else", cur))
            /\ Block("else", cur).level = Top.level
        BY <1>0, <2>1, PushedType DEF Blocks, CallKinds, IsCall, Typed
      <4> QED
        BY <1>3, <2>1, <3>2, <4>1, BlockPushed DEF IfFalse
    <3> QED
      BY <2>2, <3>1, <3>2
  <2> QED
    BY <1>3, <2>3, <2>4, TypesKept DEF IfFalse, IInv, Typed
<1>4. ASSUME WhileTrue PROVE IInv'
  <2>1. stack # <<>> /\ status = "ok" /\ UNCHANGED <<prog, calls, target, registry, history>>
    BY <1>4 DEF WhileTrue
  <2>2. Block("while", cur) \in Activation /\ ~IsCall(Block("while", cur))
        /\ Block("while", cur).level = Top.level
    BY <1>0, <2>1, PushedType DEF Blocks, CallKinds, IsCall, Typed
  <2>3. Nested' /\ Matched' /\ stack' \in Seq(Activation)
    BY <1>4, <2>1, <2>2, BlockPushed DEF WhileTrue
  <2> QED
    BY <1>4, <2>1, <2>3, TypesKept DEF WhileTrue, IInv, Typed
<1>5. ASSUME WhileFalse PROVE IInv'
  <2>1. cur' \in Nat
    BY <1>0, <1>5, ConsumedType DEF WhileFalse, SkipLoop
  <2> QED
    BY <1>5, <2>1, TypesKept, StackKept DEF WhileFalse, IInv, Typed
<1>6. ASSUME DoCase PROVE IInv'
  <2>1. stack # <<>> /\ status = "ok"
    BY <1>6 DEF DoCase
  <2>2. Block("case", cur) \in Activation /\ ~IsCall(Block("case", cur))
        /\ Block("case", cur).level = Top.level
    BY <1>0, <2>1, PushedType DEF Blocks, CallKinds, IsCall, Typed
  <2>3. Nested' /\ Matched' /\ stack' \in Seq(Activation)
    BY <1>6, <2>1, <2>2, BlockPushed DEF DoCase
  <2> QED
    BY <1>6, <2>3, TypesKept DEF DoCase, IInv, Typed
<1>7. ASSUME Raise PROVE IInv'
  <2>1. status = "ok" /\ status' \in {"exit", "loop"}
    BY <1>7 DEF Raise
  <2> QED
    BY <1>7, <2>1, TypesKept, StackKept DEF Raise, IInv, Typed
<1>8. ASSUME Cancel PROVE IInv'
  BY <1>8, TypesKept, StackEmptied DEF Cancel, IInv, Typed
<1>9. ASSUME SetProcedure PROVE IInv'
  <2>1. /\ status = "ok" /\ cur' = cur + 1
        /\ UNCHANGED <<prog, stack, status, calls, target, history>>
    BY <1>9 DEF SetProcedure
  <2> QED
    BY <2>1, TypesKept, StackKept DEF IInv, Typed
<1> QED
  BY <1>1, <1>2, <1>3, <1>4, <1>5, <1>6, <1>7, <1>8, <1>9

\* A call of a procedure or a file.
LEMMA BodyRun ==
    ASSUME IInv, stack # <<>>, status = "ok", status' = status,
           NEW kind \in CallKinds, NEW start \in Nat, RunBody(kind, start),
           UNCHANGED <<prog, target, fellOff>>
    PROVE  IInv'
<1>0. Typed
  BY DEF IInv
<1>1. PICK q \in 1..Len(prog.lines) : stack' = Append(stack, Call(kind, q, ReturnPoint(cur)))
  BY DEF RunBody
<1>2. q \in Nat /\ cur + 1 \in Nat
  BY <1>0, ConsumedType DEF Typed
<1> DEFINE x == Call(kind, q, ReturnPoint(cur))
<1>3. x \in Activation /\ IsCall(x) /\ x.level = Top.level + 1 /\ x.resume = cur + 1
  BY <1>0, <1>2, PushedType DEF ReturnPoint, IsCall
<1> HIDE DEF x
<1>4. /\ Nested' /\ Matched' /\ stack' \in Seq(Activation)
      /\ calls' \in Seq(Nat) /\ Len(calls') <= MaxDepth
  <2>1. stack' = Append(stack, x)
    BY <1>1 DEF x
  <2> QED
    BY <1>3, <2>1, CallPushed DEF RunBody
<1> QED
  BY <1>4, TypesKept DEF RunBody, IInv, Typed

LEMMA CallHolds == ASSUME IInv, Do PROVE IInv'
<1>1. /\ stack # <<>> /\ status = "ok" /\ status' = status
      /\ UNCHANGED <<prog, target, fellOff>>
  BY DEF Do, At, Running, Stay
<1>2. /\ \A p \in 1..Len(prog.lines) : p + 1 \in Nat
      /\ \A f \in DOMAIN prog.files : prog.files[f] \in Nat
  BY ProgramTypes DEF IInv
<1>3. \/ \E p \in 1..Len(prog.lines) : RunBody("range", p + 1)
      \/ \E f \in DOMAIN prog.files : RunBody("tokens", prog.files[f])
      \/ cur' = ReturnPoint(cur) /\ UNCHANGED <<stack, calls, registry, refused>>
  BY DEF Do
<1>4. "range" \in CallKinds /\ "tokens" \in CallKinds
  BY DEF CallKinds
<1>5. ASSUME NEW p \in 1..Len(prog.lines), RunBody("range", p + 1) PROVE IInv'
  BY <1>1, <1>2, <1>4, <1>5, BodyRun
<1>6. ASSUME NEW f \in DOMAIN prog.files, RunBody("tokens", prog.files[f]) PROVE IInv'
  BY <1>1, <1>2, <1>4, <1>6, BodyRun
<1>7. ASSUME cur' = ReturnPoint(cur), UNCHANGED <<stack, calls, registry, refused>>
      PROVE  IInv'
  BY <1>1, <1>7, TypesKept, StackKept DEF ReturnPoint, history, IInv, Typed
<1> QED
  BY <1>3, <1>5, <1>6, <1>7

\* The ends of blocks and calls, and the next branch of DO CASE.
LEMMA EndHolds ==
    ASSUME IInv
    PROVE  /\ EndThen => IInv'
           /\ EndElse => IInv'
           /\ LoopAgain => IInv'
           /\ LoopDone => IInv'
           /\ EndBranch => IInv'
           /\ EndCall => IInv'
           /\ EndProgram => IInv'
<1> USE DEF Ending, Running, Keep, Stay
<1>0. Typed
  BY DEF IInv
<1>1. ASSUME EndThen PROVE IInv'
  <2>1. /\ stack # <<>> /\ Top.kind \in Blocks /\ status = "ok" /\ status' = "ok"
        /\ stack' = Popped /\ UNCHANGED <<prog, calls, target, history>>
    BY <1>1 DEF EndThen, Blocks
  <2>2. cur' \in Nat
    <3>1. CASE Kw(prog, cur) = "else"
      BY <1>0, <1>1, <3>1, ConsumedType DEF EndThen
    <3>2. CASE Kw(prog, cur) # "else"
      BY <1>0, <1>1, <3>2 DEF EndThen, Consumed, Typed
    <3> QED
      BY <3>1, <3>2
  <2>3. Nested' /\ Matched' /\ stack' \in Seq(Activation)
    BY <2>1, BlockOnTop, BlockPopped
  <2> QED
    BY <2>1, <2>2, <2>3, TypesKept DEF IInv, Typed
<1>2. ASSUME EndElse PROVE IInv'
  <2>1. /\ stack # <<>> /\ Top.kind \in Blocks /\ status = "ok" /\ status' = "ok"
        /\ stack' = Popped /\ UNCHANGED <<prog, calls, target, history>>
    BY <1>2 DEF EndElse, Blocks
  <2>2. cur' \in Nat
    BY <1>0, <1>2 DEF EndElse, Consumed, Typed
  <2>3. Nested' /\ Matched' /\ stack' \in Seq(Activation)
    BY <2>1, BlockOnTop, BlockPopped
  <2> QED
    BY <2>1, <2>2, <2>3, TypesKept DEF IInv, Typed
<1>3. ASSUME LoopAgain PROVE IInv'
  <2>1. /\ stack # <<>> /\ status \in {"ok", "loop"} /\ status' = "ok" /\ cur' = Top.at + 1
        /\ UNCHANGED <<prog, stack, calls, target, history>>
    BY <1>3 DEF LoopAgain, AtLoopEnd
  <2>2. Top.at \in Nat
    <3>1. Len(stack) \in 1..Len(stack)
      BY <1>0, <2>1, FrontFacts DEF Typed
    <3>2. Top \in Activation
      BY <1>0, <3>1, LevelType DEF Top, Typed
    <3> QED
      BY <3>2 DEF Activation
  <2> QED
    BY <2>1, <2>2, TypesKept, StackKept DEF IInv, Typed
<1>4. ASSUME LoopDone PROVE IInv'
  <2>1. /\ stack # <<>> /\ Top.kind \in Blocks /\ status \in {"ok", "loop"} /\ status' = "ok"
        /\ stack' = Popped /\ UNCHANGED <<prog, calls, target, history>>
    BY <1>4 DEF LoopDone, AtLoopEnd, Blocks
  <2>2. cur' \in Nat
    BY <1>0, <1>4, ConsumedType DEF LoopDone, SkipLoop
  <2>3. Nested' /\ Matched' /\ stack' \in Seq(Activation)
    BY <2>1, BlockOnTop, BlockPopped
  <2> QED
    BY <2>1, <2>2, <2>3, TypesKept DEF IInv, Typed
<1>5. ASSUME EndBranch PROVE IInv'
  <2>1. /\ stack # <<>> /\ Top.kind \in Blocks /\ status = "ok" /\ status' = "ok"
        /\ stack' = Append(Popped, [Top EXCEPT !.body = "none"])
        /\ UNCHANGED <<prog, cur, calls, target, history>>
    BY <1>5 DEF EndBranch, Blocks
  <2>2. Nested' /\ Matched' /\ stack' \in Seq(Activation)
    BY <2>1, BlockOnTop, ModeType, BlockSwapped
  <2> QED
    BY <2>1, <2>2, TypesKept DEF IInv, Typed
<1>6. ASSUME EndCall PROVE IInv'
  <2>1. /\ stack # <<>> /\ Len(stack) > 1 /\ cur' = Top.resume /\ stack' = Popped /\ fellOff'
        /\ status' = status /\ UNCHANGED <<prog, calls, target>>
    BY <1>6 DEF EndCall
  <2>2. Top.resume \in Nat
    <3>1. Len(stack) \in 1..Len(stack)
      BY <1>0, <2>1, FrontFacts DEF Typed
    <3>2. Top \in Activation
      BY <1>0, <3>1, LevelType DEF Top, Typed
    <3> QED
      BY <3>2 DEF Activation
  <2>3. Nested' /\ Matched' /\ stack' \in Seq(Activation)
    BY <2>1, CallFellOff
  <2> QED
    BY <2>1, <2>2, <2>3, TypesKept DEF IInv, Typed
<1>7. ASSUME EndProgram PROVE IInv'
  BY <1>7, TypesKept, StackEmptied DEF EndProgram, IInv, Typed
<1> QED
  BY <1>1, <1>2, <1>3, <1>4, <1>5, <1>6, <1>7

\* DO CASE between two branches.
LEMMA BranchHolds ==
    ASSUME IInv
    PROVE  /\ CaseTrue => IInv'
           /\ CaseSkipped => IInv'
           /\ Otherwise => IInv'
           /\ OtherwiseSkipped => IInv'
           /\ EndCase => IInv'
           /\ NoBranch => IInv'
<1> USE DEF Untaken, Choosing, Dispatching, Running, Keep, Stay
<1>0. Typed
  BY DEF IInv
<1>1. ASSUME NEW b \in {"case", "otherwise"}, stack # <<>>, Top.kind = "case", status = "ok",
             Enter(b), Stay, Keep
      PROVE  IInv'
  <2>1. Len(stack) > 1 /\ ~IsCall(Top)
    BY <1>1, BlockOnTop DEF Blocks
  <2>2. Nested' /\ Matched' /\ stack' \in Seq(Activation)
    BY <1>1, <2>1, ModeType, BlockSwapped DEF Enter
  <2> QED
    BY <1>1, <2>2, TypesKept DEF Enter, IInv, Typed
<1>2. ASSUME NEW ends, stack # <<>>, status = "ok", SkipBranch(ends), Stay, Keep
      PROVE  IInv'
  <2>1. cur' \in Nat
    BY <1>0, <1>2, ConsumedType DEF SkipBranch
  <2> QED
    BY <1>2, <2>1, TypesKept, StackKept DEF SkipBranch, IInv, Typed
<1>3. ASSUME CaseTrue PROVE IInv'
  BY <1>1, <1>3 DEF CaseTrue
<1>4. ASSUME CaseSkipped PROVE IInv'
  BY <1>2, <1>4 DEF CaseSkipped
<1>5. ASSUME Otherwise PROVE IInv'
  BY <1>1, <1>5 DEF Otherwise
<1>6. ASSUME OtherwiseSkipped PROVE IInv'
  BY <1>2, <1>6 DEF OtherwiseSkipped
<1>7. ASSUME EndCase PROVE IInv'
  <2>1. /\ stack # <<>> /\ Top.kind \in Blocks /\ status = "ok" /\ status' = "ok"
        /\ stack' = Popped /\ UNCHANGED <<prog, calls, target, history>>
    BY <1>7 DEF EndCase, Blocks
  <2>2. cur' \in Nat
    BY <1>0, <1>7 DEF EndCase, Consumed, Typed
  <2>3. Nested' /\ Matched' /\ stack' \in Seq(Activation)
    BY <2>1, BlockOnTop, BlockPopped
  <2> QED
    BY <2>1, <2>2, <2>3, TypesKept DEF IInv, Typed
<1>8. ASSUME NoBranch PROVE IInv'
  BY <1>8, TypesKept, StackKept DEF NoBranch, IInv, Typed
<1> QED
  BY <1>3, <1>4, <1>5, <1>6, <1>7, <1>8

\* RETURN, and the statuses on their way out.
LEMMA StatusHolds ==
    ASSUME IInv
    PROVE  /\ Return => IInv'
           /\ PassOn => IInv'
           /\ ExitLoop => IInv'
           /\ Swallow => IInv'
           /\ ReturnFromCall => IInv'
           /\ ReturnFromProgram => IInv'
<1> USE DEF Leaving, Keep, Stay
<1>0. Typed
  BY DEF IInv
<1>1. ASSUME Return PROVE IInv'
  <2>1. /\ status' = "return" /\ cur' = cur + 1 /\ UNCHANGED <<prog, stack>>
    BY <1>1 DEF Return
  <2>2. /\ Nested' /\ Matched'
        /\ calls' \in Seq(Nat) /\ Len(calls') <= MaxDepth /\ target' \in Nat
    BY <1>1, ReturnRaised
  <2> QED
    BY <2>1, <2>2, TypesKept DEF IInv, Typed
<1>2. ASSUME PassOn PROVE IInv'
  <2>1. /\ stack # <<>> /\ Top.kind \in Blocks /\ status' = status
        /\ stack' = Popped /\ UNCHANGED <<prog, cur, calls, target, history>>
    BY <1>2 DEF PassOn, Blocks
  <2>2. Nested' /\ Matched' /\ stack' \in Seq(Activation)
    BY <2>1, BlockOnTop, BlockPopped
  <2> QED
    BY <2>1, <2>2, TypesKept DEF IInv, Typed
<1>3. ASSUME ExitLoop PROVE IInv'
  <2>1. /\ stack # <<>> /\ Top.kind \in Blocks /\ status = "exit" /\ status' = "ok"
        /\ stack' = Popped /\ UNCHANGED <<prog, calls, target, history>>
    BY <1>3 DEF ExitLoop, Blocks
  <2>2. cur' \in Nat
    BY <1>0, <1>3, ConsumedType DEF ExitLoop
  <2>3. Nested' /\ Matched' /\ stack' \in Seq(Activation)
    BY <2>1, BlockOnTop, BlockPopped
  <2> QED
    BY <2>1, <2>2, <2>3, TypesKept DEF IInv, Typed
<1>4. ASSUME Swallow PROVE IInv'
  <2>1. /\ status # "return" /\ status' = "ok"
        /\ UNCHANGED <<prog, cur, stack, calls, target, history>>
    BY <1>4 DEF Swallow
  <2> QED
    BY <2>1, TypesKept, StackKept DEF IInv, Typed
<1>5. ASSUME ReturnFromCall PROVE IInv'
  <2>1. /\ status = "return" /\ Len(stack) > 1 /\ IsCall(Top) /\ stack' = Popped
        /\ status' = "ok" /\ cur' = target /\ UNCHANGED <<prog, calls, target, history>>
    BY <1>5 DEF ReturnFromCall, IsCall
  <2>2. Nested' /\ Matched' /\ stack' \in Seq(Activation)
    BY <2>1, CallReturned
  <2> QED
    BY <1>0, <2>1, <2>2, TypesKept DEF IInv, Typed
<1>6. ASSUME ReturnFromProgram PROVE IInv'
  BY <1>6, TypesKept, StackEmptied DEF ReturnFromProgram, IInv, Typed
<1> QED
  BY <1>1, <1>2, <1>3, <1>4, <1>5, <1>6

LEMMA StepHolds == IInv /\ [Next]_vars => IInv'
<1> SUFFICES ASSUME IInv, [Next]_vars PROVE IInv'
  OBVIOUS
<1>1. CASE UNCHANGED vars
  <2>1. UNCHANGED <<prog, cur, stack, status, calls, target, fellOff, refused>>
    BY <1>1 DEF vars
  <2>2. Typed'
    BY <2>1 DEF IInv, Typed
  <2>3. Nested'
    BY <2>1 DEF IInv, Nested, IsCall
  <2>4. Matched'
    BY <2>1 DEF IInv, Matched, Framed, IsCall, Top
  <2> QED
    BY <2>2, <2>3, <2>4 DEF IInv
<1>2. CASE Step
  BY <1>2, StatementHolds, CallHolds, EndHolds, BranchHolds, StatusHolds DEF Step
<1> QED
  BY <1>1, <1>2 DEF Next

-----------------------------------------------------------------------------
(* Theorems *)

\* In every run of every program the activations are nested as they were called,
\* and, until some procedure ends without RETURN or a call finds no free frame,
\* call_stack holds the return tokens of exactly the running calls: what exec_do_call
\* (call_push) and exec_return (call_pop) must keep true together.
THEOREM Invariance == Spec => []IInv
<1>1. Init => IInv
  BY InitHolds
<1>2. IInv /\ [Next]_vars => IInv'
  BY StepHolds
<1> QED
  BY <1>1, <1>2, PTL DEF Spec

\* While no RETURN is on its way, call_stack names the running calls, innermost
\* last, and no other.
THEOREM FramesMatch == Spec => []CallsMatch
<1>1. IInv => CallsMatch
  <2> SUFFICES ASSUME IInv, ~fellOff, ~refused, status # "return", stack # <<>>
               PROVE  /\ Len(calls) = Top.level
                      /\ \A i \in 2..Len(stack) :
                            IsCall(stack[i]) => calls[stack[i].level] = stack[i].resume
    BY DEF CallsMatch
  <2>1. Framed /\ Len(calls) = Top.level
    BY DEF IInv, Matched, Framed
  <2>2. Len(stack) \in Nat /\ Len(stack) >= 1
    BY FrontFacts DEF IInv, Typed
  <2>3. ASSUME NEW i \in 2..Len(stack)
        PROVE  stack[i].level <= Top.level
    <3>1. Top.level \in Nat
      BY <2>2, LevelType DEF Top, IInv, Typed
    <3> QED
      BY <2>2, <3>1 DEF IInv, Nested, Top
  <2> QED
    BY <2>1, <2>3 DEF Framed
<1> QED
  BY <1>1, Invariance, PTL

\* The last frame but one is that of the innermost call: RETURN took the last.
LEMMA CallerIsTarget == IInv => ReturnsToCaller
<1> SUFFICES ASSUME IInv, ~fellOff, ~refused, status = "return", stack # <<>>,
                    IsCall(Top), Len(stack) > 1
             PROVE  target = Top.resume
  BY DEF ReturnsToCaller
<1>1. Framed
  BY DEF IInv, Matched
<1>2. Len(stack) \in 2..Len(stack) /\ Len(stack) \in 1..Len(stack) /\ 1 \in 1..Len(stack)
  BY FrontFacts DEF IInv, Typed
<1>3. Top.level \in Nat
  BY <1>2, LevelType DEF Top, IInv, Typed
<1>4. Top.level > 0
  <2>1. stack[1].level = 0 /\ stack[1].level < Top.level
    BY <1>2 DEF IInv, Nested, Top
  <2> QED
    BY <1>3, <2>1
<1>5. Len(calls) = Top.level - 1
  BY <1>1, <1>4 DEF Framed
<1>6. Top.resume = IF Top.level <= Len(calls) THEN calls[Top.level] ELSE target
  BY <1>1, <1>2 DEF Framed, Top
<1> QED
  BY <1>3, <1>5, <1>6

\* A RETURN that leaves its procedure resumes at the DO that called it, whatever the
\* program and however deep the calls, until some procedure ends without RETURN or a
\* call finds call_stack full.
THEOREM ReturnsAreToCaller == Spec => []ReturnsToCaller
<1>1. IInv => ReturnsToCaller
  BY CallerIsTarget
<1> QED
  BY <1>1, Invariance, PTL

-----------------------------------------------------------------------------
(* Where the cursor, the stacks and the registry point *)

Lines == 0..Len(prog.lines)
Procedures == {p \in 1..Len(prog.lines) : Kw(prog, p) = "procedure"}

\* An activation goes on at a line; that of a loop knows its DO WHILE.
Points(a) == /\ a.resume \in Lines
             /\ a.kind = "while" => Kw(prog, a.at) = "while"

Remembers == \A i \in 1..Len(stack) : Points(stack[i])

Known == /\ registry \in Seq(Procedures) /\ Len(registry) <= MaxProcs
         /\ calls \in Seq(1..Len(prog.lines))
         /\ target \in Lines

Counted == turns \in 0..MaxTurns /\ fellOff \in BOOLEAN /\ refused \in BOOLEAN

Placed == cur \in Lines /\ line \in Lines /\ Remembers /\ Known /\ Counted

\* Behind a line with a keyword there is another: the last is the end of the file.
LEMMA NextLine ==
    ASSUME Typed, NEW p, Kw(prog, p) # "eof"
    PROVE  p \in 1..Len(prog.lines) /\ p + 1 \in 1..Len(prog.lines) /\ p + 1 \in Lines
<1>1. IsProgram(prog)
  BY ProgramsAssumption DEF Typed
<1>2. Len(prog.lines) \in Nat /\ prog.lines[Len(prog.lines)].kw = "eof"
  BY <1>1, ProgramTypes DEF IsProgram
<1>3. p \in 1..Len(prog.lines) /\ p # Len(prog.lines)
  BY <1>2 DEF Kw
<1> QED
  BY <1>2, <1>3 DEF Lines

\* The cursor stays on the lines when a scan consumes the keyword it looked for.
LEMMA ConsumedLine ==
    ASSUME Typed, NEW q \in Lines, NEW kw, kw # "eof"
    PROVE  Consumed(prog, q, kw) \in Lines
  BY NextLine DEF Consumed

\* A scan ends on a line.
LEMMA LineOfScan == \A q \in 1..Len(prog.lines) : q \in Lines
  BY DEF Lines

\* The activation on top points where it should.
LEMMA TopPoints ==
    ASSUME Typed, Remembers, stack # <<>>
    PROVE  Points(Top) /\ Top \in Activation
<1>1. Len(stack) \in 1..Len(stack)
  BY FrontFacts DEF Typed
<1> QED
  BY <1>1, LevelType DEF Typed, Remembers, Top

\* What is registered are lines of PROCEDUREs.
LEMMA ScannedType ==
    ASSUME Typed, NEW p \in 1..Len(prog.lines)
    PROVE  Scanned(prog, p) \in Seq(Procedures)
<1> DEFINE n == Len(prog.lines)
           S == {q \in p..n : /\ Kw(prog, q) = "procedure"
                              /\ \A r \in p..q : Kw(prog, r) # "eof"}
<1>1. n \in Nat
  BY ProgramTypes
<1>2. \A i \in 1..n : i \in S => [q \in 1..n |-> q][i] \in Procedures
  BY DEF Procedures
<1> HIDE DEF n, S
<1>3. Chosen([q \in 1..n |-> q], S, n) \in Seq(Procedures)
  BY <1>1, <1>2, ChosenType
<1> QED
  BY <1>3 DEF Scanned, n, S

LEMMA RegisterType ==
    ASSUME NEW S, NEW known \in Seq(S), Len(known) <= MaxProcs, NEW new \in Seq(S)
    PROVE  Register(known, new) \in Seq(S) /\ Len(Register(known, new)) <= MaxProcs
<1> DEFINE room == IF MaxProcs - Len(known) < Len(new) THEN MaxProcs - Len(known)
                   ELSE Len(new)
<1>1. /\ room \in Int /\ room >= 0 /\ room <= Len(new) /\ Len(known) + room <= MaxProcs
      /\ Len(new) \in Nat /\ Len(known) \in Nat /\ 1 \in Int
  BY BoundsAssumption, LenProperties
<1>2. Register(known, new) = known \o SubSeq(new, 1, room)
  BY DEF Register
<1> HIDE DEF room
<1>3. \A i \in 1..room : new[i] \in S
  BY <1>1, ElementOfSeq
<1>4. SubSeq(new, 1, room) \in Seq(S) /\ Len(SubSeq(new, 1, room)) = room
  BY <1>1, <1>3, SubSeqProperties
<1>5. /\ known \o SubSeq(new, 1, room) \in Seq(S)
      /\ Len(known \o SubSeq(new, 1, room)) = Len(known) + room
  BY <1>4, ConcatProperties
<1> QED
  BY <1>1, <1>2, <1>5

\* At the start.
LEMMA InitPlaced == Init => Placed
<1> SUFFICES ASSUME Init PROVE Placed
  OBVIOUS
<1>1. Typed /\ IsProgram(prog)
  BY InitHolds, ProgramsAssumption DEF IInv, Init
<1>2. Len(prog.lines) \in Nat /\ 1 \in 1..Len(prog.lines)
  BY <1>1, ProgramTypes, EmptySeq DEF IsProgram
<1>3. cur \in Lines /\ line \in Lines /\ target \in Lines
  BY <1>2 DEF Init, Lines
<1>4. Remembers
  BY <1>2 DEF Init, Remembers, Points, Started, Lines
<1>5. Known
  <2>1. Scanned(prog, 1) \in Seq(Procedures) /\ <<>> \in Seq(Procedures) /\ Len(<<>>) <= MaxProcs
    BY <1>1, <1>2, ScannedType, EmptySeq, BoundsAssumption
  <2>2. registry \in Seq(Procedures) /\ Len(registry) <= MaxProcs
    BY <2>1, RegisterType DEF Init
  <2>3. calls \in Seq(1..Len(prog.lines))
    BY EmptySeq DEF Init
  <2> QED
    BY <1>3, <2>2, <2>3 DEF Known
<1>6. Counted
  <2>1. fellOff \in BOOLEAN /\ refused \in BOOLEAN
    BY Zenon DEF Init
  <2> QED
    BY <2>1, BoundsAssumption DEF Init, Counted
<1> QED
  BY <1>3, <1>4, <1>5, <1>6 DEF Placed

\* Where the body of a procedure or a file begins.
LEMMA BodyStart ==
    ASSUME Typed, NEW known \in Seq(Procedures), NEW name, NEW p, Finds(known, name, p)
    PROVE  p + 1 \in Lines
<1>1. p \in Procedures
  BY ElementOfSeq DEF Finds
<1>2. Kw(prog, p) # "eof"
  BY <1>1 DEF Procedures
<1> QED
  BY <1>2, NextLine

\* DO makes the procedures of a file known.
LEMMA DoKnows ==
    ASSUME IInv, Placed, Do
    PROVE  registry' \in Seq(Procedures) /\ Len(registry') <= MaxProcs
<1>1. \/ registry' = registry
      \/ /\ Name(prog, cur) \in DOMAIN prog.files
         /\ registry' = Register(registry, Scanned(prog, prog.files[Name(prog, cur)]))
  BY DEF Do
<1>2. ASSUME NEW f \in DOMAIN prog.files
      PROVE  Scanned(prog, prog.files[f]) \in Seq(Procedures)
  <2>1. prog.files[f] \in 1..Len(prog.lines)
    BY ProgramsAssumption DEF IInv, Typed, IsProgram
  <2> QED
    BY <2>1, ScannedType DEF IInv
<1>3. registry \in Seq(Procedures) /\ Len(registry) <= MaxProcs
  BY DEF Placed, Known
<1> QED
  BY <1>1, <1>2, <1>3, RegisterType

\* SET PROCEDURE makes those of its file known, and no other.
LEMMA SetProcedureKnows ==
    ASSUME IInv, SetProcedure
    PROVE  registry' \in Seq(Procedures) /\ Len(registry') <= MaxProcs
<1>1. registry' = <<>>
      \/ /\ Name(prog, cur) \in DOMAIN prog.files
         /\ registry' = Register(<<>>, Scanned(prog, prog.files[Name(prog, cur)]))
  BY DEF SetProcedure
<1>2. ASSUME NEW f \in DOMAIN prog.files
      PROVE  Scanned(prog, prog.files[f]) \in Seq(Procedures)
  <2>1. prog.files[f] \in 1..Len(prog.lines)
    BY ProgramsAssumption DEF IInv, Typed, IsProgram
  <2> QED
    BY <2>1, ScannedType DEF IInv
<1>3. <<>> \in Seq(Procedures) /\ Len(<<>>) <= MaxProcs
  BY EmptySeq, BoundsAssumption
<1> QED
  BY <1>1, <1>2, <1>3, RegisterType

\* What a call leaves for later, and where it goes on.
LEMMA DoPlaces ==
    ASSUME IInv, Placed, Do
    PROVE  /\ cur' \in Lines
           /\ \/ UNCHANGED <<stack, calls, refused>>
              \/ /\ \E q \in Nat, k \in CallKinds :
                       stack' = Append(stack, Call(k, q, ReturnPoint(cur)))
                 /\ calls' = PushFrame(calls, ReturnPoint(cur))
                 /\ refused' = (refused \/ Len(calls) = MaxDepth)
<1>0. Typed /\ registry \in Seq(Procedures)
  BY DEF IInv, Placed, Known
<1>1. registry' \in Seq(Procedures)
  BY DoKnows
<1>2. \A q \in 1..Len(prog.lines) : q \in Nat
  OBVIOUS
<1>3. ASSUME NEW known \in Seq(Procedures), NEW name, NEW p, Finds(known, name, p)
      PROVE  p + 1 \in Lines
  BY <1>0, <1>3, BodyStart
<1>4. \/ \E start \in Lines, k \in CallKinds : RunBody(k, start)
      \/ cur' = ReturnPoint(cur) /\ UNCHANGED <<stack, calls, refused>>
  <2>1. \A f \in DOMAIN prog.files : prog.files[f] \in Lines
    BY <1>0, ProgramsAssumption DEF Typed, IsProgram, Lines
  <2>2. "range" \in CallKinds /\ "tokens" \in CallKinds
    BY DEF CallKinds
  <2> QED
    BY <1>0, <1>1, <1>3, <2>1, <2>2 DEF Do
<1>5. ReturnPoint(cur) \in Lines
  BY <1>0, NextLine DEF Do, At, ReturnPoint
<1>6. ASSUME NEW start \in Lines, NEW k \in CallKinds, RunBody(k, start)
      PROVE  /\ cur' \in Lines
             /\ \E q \in Nat : stack' = Append(stack, Call(k, q, ReturnPoint(cur)))
             /\ calls' = PushFrame(calls, ReturnPoint(cur))
             /\ refused' = (refused \/ Len(calls) = MaxDepth)
  <2>1. cur' \in Lines
    BY <1>6 DEF RunBody
  <2>2. \E q \in Nat : stack' = Append(stack, Call(k, q, ReturnPoint(cur)))
    BY <1>2, <1>6 DEF RunBody
  <2>3. calls' = PushFrame(calls, ReturnPoint(cur))
    BY <1>6 DEF RunBody
  <2>4. refused' = (refused \/ Len(calls) = MaxDepth)
    BY <1>6, Zenon DEF RunBody
  <2> QED
    BY <2>1, <2>2, <2>3, <2>4, Zenon
<1>7. CASE cur' = ReturnPoint(cur) /\ UNCHANGED <<stack, calls, refused>>
  BY <1>5, <1>7
<1> QED
  BY <1>4, <1>6, <1>7, Zenon

\* The cursor stays on the lines of the program.
LEMMA CursorPlaced ==
    ASSUME IInv, Placed, Step
    PROVE  cur' \in Lines
<1> USE DEF At, Running
<1>0. Typed /\ Remembers /\ cur \in Lines /\ target \in Lines
  BY DEF IInv, Placed, Known
<1>1. CASE cur' = cur
  BY <1>0, <1>1
<1>2. CASE Simple \/ IfTrue \/ WhileTrue \/ DoCase \/ Raise \/ Return \/ SetProcedure
  <2>1. cur' = cur + 1 /\ Kw(prog, cur) # "eof"
    BY <1>2 DEF Simple, IfTrue, WhileTrue, DoCase, Raise, Return, SetProcedure, Heads
  <2> QED
    BY <1>0, <2>1, NextLine
<1>3. CASE CaseTrue \/ Otherwise \/ NoBranch
  <2>1. cur' = cur + 1 /\ Kw(prog, cur) # "eof"
    BY <1>3 DEF CaseTrue, Otherwise, NoBranch, Untaken, Choosing, Enter, Heads
  <2> QED
    BY <1>0, <2>1, NextLine
<1>4. CASE IfFalse
  BY <1>0, <1>4, NextLine, ConsumedLine, LineOfScan DEF IfFalse
<1>5. CASE WhileFalse \/ LoopDone
  BY <1>0, <1>5, ConsumedLine, LineOfScan DEF WhileFalse, LoopDone, SkipLoop
<1>6. CASE Do
  BY <1>6, DoPlaces
<1>7. CASE EndThen
  BY <1>0, <1>7, ConsumedLine, LineOfScan DEF EndThen
<1>8. CASE EndElse \/ EndCase
  BY <1>0, <1>8, ConsumedLine DEF EndElse, EndCase
<1>9. CASE LoopAgain
  <2>1. cur' = Top.at + 1 /\ stack # <<>> /\ Top.kind = "while"
    BY <1>9 DEF LoopAgain, AtLoopEnd, Ending
  <2>2. Kw(prog, Top.at) = "while"
    BY <1>0, <2>1, TopPoints DEF Points
  <2> QED
    BY <1>0, <2>1, <2>2, NextLine
<1>10. CASE EndCall
  BY <1>0, <1>10, TopPoints DEF EndCall, Ending, Points
<1>11. CASE CaseSkipped \/ OtherwiseSkipped
  BY <1>11, LineOfScan DEF CaseSkipped, OtherwiseSkipped, SkipBranch
<1>12. CASE ExitLoop
  BY <1>0, <1>12, ConsumedLine, LineOfScan DEF ExitLoop
<1>13. CASE ReturnFromCall
  BY <1>0, <1>13 DEF ReturnFromCall
<1> QED
  BY <1>1, <1>2, <1>3, <1>4, <1>5, <1>6, <1>7, <1>8, <1>9, <1>10, <1>11, <1>12, <1>13
     DEF Step, Cancel, EndBranch, EndProgram, PassOn, Swallow, ReturnFromProgram

\* How a step changes the stack: one activation is pushed, popped or changed.
LEMMA StackPlaced ==
    ASSUME IInv, Remembers, prog' = prog,
           \/ stack' = stack \/ stack' = <<>> \/ (stack # <<>> /\ stack' = Popped)
           \/ \E x \in Activation : /\ Points(x)
                                    /\ \/ stack' = Append(stack, x)
                                       \/ stack # <<>> /\ stack' = Append(Popped, x)
    PROVE  Remembers'
<1>0. stack \in Seq(Activation) /\ Len(stack) \in Nat
  BY LenProperties DEF IInv, Typed
<1>1. SUFFICES ASSUME NEW i \in 1..Len(stack')
               PROVE  Points(stack'[i])
  BY DEF Remembers, Points, Lines
<1>2. \A j \in 1..Len(stack) : Points(stack[j])
  BY DEF Remembers
<1>3. ASSUME stack # <<>>
      PROVE  /\ Popped \in Seq(Activation) /\ Len(Popped) = Len(stack) - 1
             /\ \A j \in 1..(Len(stack) - 1) : Popped[j] = stack[j]
             /\ Len(stack) >= 1
  BY <1>0, <1>3, FrontFacts DEF Popped
<1>4. CASE stack' = stack
  BY <1>2, <1>4
<1>5. CASE stack' = <<>>
  BY <1>5
<1>6. CASE stack # <<>> /\ stack' = Popped
  BY <1>0, <1>2, <1>3, <1>6
<1>7. ASSUME NEW x \in Activation, Points(x), stack' = Append(stack, x)
      PROVE  Points(stack'[i])
  BY <1>0, <1>2, <1>7, AppendFacts
<1>8. ASSUME NEW x \in Activation, Points(x), stack # <<>>, stack' = Append(Popped, x)
      PROVE  Points(stack'[i])
  <2> DEFINE rest == Popped
  <2>1. /\ rest \in Seq(Activation) /\ Len(rest) = Len(stack) - 1 /\ Len(stack) >= 1
        /\ \A j \in 1..Len(rest) : Points(rest[j])
    BY <1>0, <1>2, <1>3, <1>8
  <2>2. stack' = Append(rest, x)
    BY <1>8
  <2> HIDE DEF rest
  <2> QED
    BY <1>0, <1>8, <2>1, <2>2, AppendFacts
<1> QED
  BY <1>4, <1>5, <1>6, <1>7, <1>8

\* The activations point where they should.
LEMMA ActivationsPlaced ==
    ASSUME IInv, Placed, Step
    PROVE  Remembers' /\ prog' = prog
<1> USE DEF At, Running, Keep
<1>0. Typed /\ Remembers /\ cur \in Lines
  BY DEF IInv, Placed
<1>1. prog' = prog
  BY DEF Step, Simple, IfTrue, IfFalse, WhileTrue, WhileFalse, DoCase, Raise, Return, Cancel,
         Do, SetProcedure, EndThen, EndElse, LoopAgain, LoopDone, EndBranch, EndCall,
         EndProgram, CaseTrue, CaseSkipped, Otherwise, OtherwiseSkipped, EndCase, NoBranch,
         PassOn, ExitLoop, Swallow, ReturnFromCall, ReturnFromProgram
<1>2. CASE stack' = stack \/ stack' = <<>>
  BY <1>0, <1>1, <1>2, StackPlaced
<1>3. CASE stack # <<>> /\ stack' = Popped
  BY <1>0, <1>1, <1>3, StackPlaced
<1>4. ASSUME stack # <<>>, NEW k \in {"then", "else", "case"}, stack' = Append(stack, Block(k, cur))
      PROVE  Remembers'
  <2>1. Block(k, cur) \in Activation
    BY <1>0, <1>4, PushedType DEF Blocks, Typed
  <2>2. Points(Block(k, cur))
    BY <1>0, ProgramTypes DEF Points, Block, Started, Lines
  <2> QED
    BY <1>1, <1>4, <2>1, <2>2, StackPlaced, <1>0
<1>5. CASE WhileTrue
  <2>1. stack # <<>> /\ Kw(prog, cur) = "while" /\ stack' = Append(stack, Block("while", cur))
    BY <1>5 DEF WhileTrue
  <2>2. Block("while", cur) \in Activation
    BY <1>0, <2>1, PushedType DEF Blocks, Typed
  <2>3. Points(Block("while", cur))
    BY <1>0, <2>1, ProgramTypes DEF Points, Block, Started, Lines
  <2> QED
    BY <1>0, <1>1, <2>1, <2>2, <2>3, StackPlaced
<1>6. CASE Do
  <2>1. stack # <<>> /\ ReturnPoint(cur) \in Lines /\ ReturnPoint(cur) \in Nat
    BY <1>0, <1>6, NextLine DEF Do, ReturnPoint, Typed
  <2>2. ASSUME NEW q \in Nat, NEW k \in CallKinds,
               stack' = Append(stack, Call(k, q, ReturnPoint(cur)))
        PROVE  Remembers'
    <3>1. Call(k, q, ReturnPoint(cur)) \in Activation
      BY <1>0, <2>1, PushedType
    <3>2. Points(Call(k, q, ReturnPoint(cur)))
      BY <2>1 DEF Points, Call, Started, CallKinds
    <3> QED
      BY <1>0, <1>1, <2>2, <3>1, <3>2, StackPlaced
  <2>3. \/ stack' = stack
        \/ \E q \in Nat, k \in CallKinds :
              stack' = Append(stack, Call(k, q, ReturnPoint(cur)))
    BY <1>6, DoPlaces
  <2> QED
    BY <1>1, <1>2, <2>2, <2>3
<1>7. ASSUME stack # <<>>, Top.kind = "case", NEW x, x \in Activation, x.resume = Top.resume,
             x.kind = Top.kind, stack' = Append(Popped, x)
      PROVE  Remembers'
  <2>1. Points(x)
    BY <1>0, <1>7, TopPoints DEF Points
  <2> QED
    BY <1>0, <1>1, <1>7, <2>1, StackPlaced
<1>8. ASSUME stack # <<>>, NEW b \in {"none", "case", "otherwise"}
      PROVE  /\ [Top EXCEPT !.body = b].resume = Top.resume
             /\ [Top EXCEPT !.matched = TRUE, !.body = b].resume = Top.resume
  BY <1>0, <1>8, TopPoints DEF Activation
<1>9. CASE EndBranch
  <2>1. stack # <<>> /\ Top.kind = "case" /\ stack' = Append(Popped, [Top EXCEPT !.body = "none"])
    BY <1>9 DEF EndBranch, Ending
  <2>2. /\ [Top EXCEPT !.body = "none"] \in Activation
        /\ [Top EXCEPT !.body = "none"].kind = Top.kind
        /\ [Top EXCEPT !.body = "none"].resume = Top.resume
    BY <1>8, <2>1, ModeType
  <2> QED
    BY <1>1, <1>7, <2>1, <2>2
<1>10. ASSUME NEW b \in {"case", "otherwise"}, stack # <<>>, Top.kind = "case", Enter(b)
       PROVE  Remembers'
  BY <1>7, <1>8, <1>10, ModeType DEF Enter
<1>11. CASE CaseTrue \/ Otherwise
  BY <1>10, <1>11 DEF CaseTrue, Otherwise, Untaken, Choosing, Dispatching
<1>12. CASE IfTrue \/ IfFalse \/ DoCase
  BY <1>2, <1>4, <1>12 DEF IfTrue, IfFalse, DoCase
<1>13. CASE EndThen \/ EndElse \/ LoopDone \/ EndCall \/ EndCase
  BY <1>3, <1>13 DEF EndThen, EndElse, LoopDone, AtLoopEnd, Ending, EndCall, EndCase, Choosing
<1>14. CASE PassOn \/ ExitLoop \/ ReturnFromCall
  BY <1>3, <1>14 DEF PassOn, ExitLoop, ReturnFromCall, Leaving
<1>15. CASE \/ Simple \/ WhileFalse \/ Raise \/ Return \/ Cancel \/ SetProcedure \/ LoopAgain
            \/ EndProgram \/ CaseSkipped \/ OtherwiseSkipped \/ NoBranch \/ Swallow
            \/ ReturnFromProgram
  BY <1>2, <1>15 DEF Simple, WhileFalse, Raise, Return, Cancel, SetProcedure, LoopAgain,
     EndProgram, CaseSkipped, OtherwiseSkipped, SkipBranch, NoBranch, Swallow, ReturnFromProgram
<1> QED
  BY <1>1, <1>5, <1>6, <1>9, <1>11, <1>12, <1>13, <1>14, <1>15 DEF Step

\* The frames, the registry and the counters keep their types.
LEMMA RestPlaced ==
    ASSUME IInv, Placed, Step
    PROVE  Known' /\ Counted'
<1> USE DEF Keep, history
<1>0. /\ Typed /\ cur \in Lines /\ target \in Lines /\ prog' = prog
      /\ registry \in Seq(Procedures) /\ Len(registry) <= MaxProcs
      /\ calls \in Seq(1..Len(prog.lines)) /\ turns \in 0..MaxTurns
      /\ Procedures' = Procedures /\ Lines' = Lines
  BY ActivationsPlaced DEF IInv, Placed, Known, Counted, Procedures, Lines
<1>1. fellOff \in BOOLEAN /\ refused \in BOOLEAN
  BY DEF Placed, Counted
<1>2. /\ UNCHANGED <<registry, calls, target>> => Known'
      /\ UNCHANGED <<fellOff, refused>> => fellOff' \in BOOLEAN /\ refused' \in BOOLEAN
  <2>1. UNCHANGED <<registry, calls, target>> => Known'
    BY <1>0 DEF Known
  <2>2. UNCHANGED <<fellOff, refused>> => fellOff' \in BOOLEAN /\ refused' \in BOOLEAN
    BY <1>1, Zenon
  <2> QED
    BY <2>1, <2>2
<1>3. UNCHANGED <<turns, fellOff, refused>> => Counted'
  BY <1>0, <1>2 DEF Counted
<1>4. CASE UNCHANGED <<registry, calls, target, turns, fellOff, refused>>
  BY <1>2, <1>3, <1>4
<1>5. CASE WhileTrue \/ LoopAgain
  <2>1. turns < MaxTurns /\ turns' = turns + 1 /\ UNCHANGED <<registry, calls, target, history>>
    BY <1>5 DEF WhileTrue, LoopAgain
  <2> QED
    BY <1>0, <1>2, <2>1, BoundsAssumption DEF Counted
<1>6. CASE Return
  <2>1. /\ UNCHANGED <<registry, turns, fellOff, refused>>
        /\ IF calls = <<>> THEN UNCHANGED <<calls, target>>
           ELSE target' = calls[Len(calls)] /\ calls' = PopFrame(calls)
    BY <1>6 DEF Return
  <2>2. CASE calls = <<>>
    BY <1>4, <2>1, <2>2
  <2>3. CASE calls # <<>>
    <3>1. Len(calls) \in 1..Len(calls) /\ calls' \in Seq(1..Len(prog.lines))
      <4> DEFINE S == 1..Len(prog.lines)
      <4>1. calls \in Seq(S) /\ calls' = SubSeq(calls, 1, Len(calls) - 1)
        BY <1>0, <2>1, <2>3 DEF PopFrame
      <4> HIDE DEF S
      <4>2. Len(calls) \in Nat /\ Len(calls) >= 1 /\ calls' \in Seq(S)
        BY <2>3, <4>1, FrontFacts
      <4> QED
        BY <4>2 DEF S
    <3>2. target' \in Lines
      BY <1>0, <2>1, <2>3, <3>1, ElementOfSeq DEF Lines
    <3>3. Known'
      BY <1>0, <2>1, <3>1, <3>2 DEF Known
    <3> QED
      BY <1>3, <2>1, <3>3
  <2> QED
    BY <2>2, <2>3
<1>7. CASE SetProcedure
  <2>1. UNCHANGED <<calls, target, turns, fellOff, refused>>
    BY <1>7 DEF SetProcedure
  <2>2. Known'
    BY <1>0, <1>7, <2>1, SetProcedureKnows DEF Known
  <2> QED
    BY <1>3, <2>1, <2>2
<1>8. CASE EndCall
  <2>1. UNCHANGED <<registry, calls, target, turns, refused>> /\ fellOff' = TRUE
    BY <1>8 DEF EndCall
  <2>2. fellOff' \in BOOLEAN /\ refused' \in BOOLEAN
    BY <1>1, <2>1, Zenon
  <2> QED
    BY <1>0, <1>2, <2>1, <2>2 DEF Counted
<1>9. CASE Do
  <2>1. UNCHANGED <<target, turns, fellOff>> /\ Kw(prog, cur) # "eof"
    BY <1>9 DEF Do, At
  <2>2. ReturnPoint(cur) \in 1..Len(prog.lines)
    BY <1>0, <2>1, NextLine DEF ReturnPoint
  <2>3. calls' = calls \/ calls' = PushFrame(calls, ReturnPoint(cur))
    BY <1>9, DoPlaces
  <2>4. calls' \in Seq(1..Len(prog.lines))
    BY <1>0, <2>2, <2>3, AppendProperties DEF PushFrame
  <2>5. Known'
    BY <1>0, <1>9, <2>1, <2>4, DoKnows DEF Known
  <2>6. refused' = refused \/ refused' = (refused \/ Len(calls) = MaxDepth)
    BY <1>9, DoPlaces, Zenon
  <2>7. fellOff' \in BOOLEAN /\ refused' \in BOOLEAN
    BY <1>1, <2>1, <2>6, Zenon
  <2> QED
    BY <1>0, <2>1, <2>5, <2>7 DEF Counted
<1> QED
  BY <1>4, <1>5, <1>6, <1>7, <1>8, <1>9
     DEF Step, Simple, IfTrue, IfFalse, WhileFalse, DoCase, Raise, Cancel, EndThen, EndElse,
         LoopDone, EndBranch, EndProgram, CaseTrue, CaseSkipped, Otherwise, OtherwiseSkipped,
         EndCase, NoBranch, PassOn, ExitLoop, Swallow, ReturnFromCall, ReturnFromProgram

\* Every step keeps all of them.
LEMMA NextPlaced == IInv /\ Placed /\ [Next]_vars => Placed'
<1> SUFFICES ASSUME IInv, Placed, [Next]_vars PROVE Placed'
  OBVIOUS
<1>1. CASE UNCHANGED vars
  <2>1. /\ UNCHANGED <<prog, cur, stack, calls, target, registry, turns, line>>
        /\ UNCHANGED <<fellOff, refused>>
    BY <1>1 DEF vars
  <2>2. fellOff' \in BOOLEAN /\ refused' \in BOOLEAN
    BY <2>1, Zenon DEF Placed, Counted
  <2>3. Lines' = Lines /\ Procedures' = Procedures
    BY <2>1 DEF Lines, Procedures
  <2>4. Remembers'
    BY <2>1, <2>3 DEF Placed, Remembers, Points
  <2> QED
    BY <2>1, <2>2, <2>3, <2>4 DEF Placed, Known, Counted
<1>2. CASE Step /\ Settle
  <2>1. cur' \in Lines /\ Remembers' /\ Known' /\ Counted' /\ prog' = prog
    BY <1>2, CursorPlaced, ActivationsPlaced, RestPlaced
  <2>2. line' = cur' \/ line' = line
    BY <1>2 DEF Settle
  <2> QED
    BY <2>1, <2>2 DEF Placed, Lines
<1> QED
  BY <1>1, <1>2 DEF Next

\* The cursor, the frames and the registry never point outside the program, the two
\* stacks and the registry keep to MAX_CALL_DEPTH and MAX_PROCEDURES.
THEOREM TypeCorrect == Spec => []TypeOK
<1>1. Init => Placed
  BY InitPlaced
<1>2. IInv /\ Placed /\ [Next]_vars => Placed'
  BY NextPlaced
<1>3. IInv /\ Placed => TypeOK
  <2> SUFFICES ASSUME IInv, Placed PROVE TypeOK
    OBVIOUS
  <2>1. fellOff \in BOOLEAN /\ refused \in BOOLEAN
    BY DEF Placed, Counted
  <2>2. IsProgram(prog)
    BY ProgramsAssumption DEF IInv, Typed
  <2>3. registry \in Seq(1..Len(prog.lines)) /\ Len(registry) <= MaxProcs
    <3>1. registry \in Seq(Procedures) /\ Procedures \subseteq 1..Len(prog.lines)
      BY DEF Placed, Known, Procedures
    <3>2. Len(registry) \in Nat /\ registry \in [1..Len(registry) -> Procedures]
      BY <3>1, LenProperties
    <3>3. registry \in [1..Len(registry) -> 1..Len(prog.lines)]
      BY <3>1, <3>2
    <3> QED
      BY <3>2, <3>3, SeqDef DEF Placed, Known
  <2> QED
    BY <2>1, <2>2, <2>3 DEF IInv, Typed, Placed, Known, Counted, Lines, TypeOK
<1> QED
  BY <1>1, <1>2, <1>3, Invariance, PTL DEF Spec

-----------------------------------------------------------------------------
(* Counting keywords *)

Found(g, p, q, kws) == {r \in p..q : Kw(g, r) \in kws}

\* The lines counted are finitely many.
LEMMA FoundFinite ==
    ASSUME NEW g, NEW p \in Int, NEW q \in Int, NEW kws
    PROVE  /\ IsFiniteSet(Found(g, p, q, kws))
           /\ Count(g, p, q, kws) = Cardinality(Found(g, p, q, kws))
           /\ Count(g, p, q, kws) \in Nat
<1>1. IsFiniteSet(p..q)
  BY FS_Interval
<1>2. Found(g, p, q, kws) \in SUBSET (p..q)
  BY DEF Found
<1>3. IsFiniteSet(Found(g, p, q, kws))
  BY <1>1, <1>2, FS_Subset
<1> QED
  BY <1>3, FS_CardinalityType DEF Count, Found

\* No line, no keyword.
LEMMA CountNone ==
    ASSUME NEW g, NEW p \in Int, NEW q \in Int, NEW kws,
           \A r \in p..q : Kw(g, r) \notin kws
    PROVE  Count(g, p, q, kws) = 0
<1>1. Found(g, p, q, kws) = {}
  BY DEF Found
<1> QED
  BY <1>1, FoundFinite, FS_EmptySet

\* What is counted up to a line and behind it.
LEMMA CountSplit ==
    ASSUME NEW g, NEW p \in Int, NEW m \in Int, NEW q \in Int, NEW kws,
           p <= m + 1, m <= q
    PROVE  Count(g, p, q, kws) = Count(g, p, m, kws) + Count(g, m + 1, q, kws)
<1> DEFINE S == Found(g, p, m, kws)
           T == Found(g, m + 1, q, kws)
<1>1. Found(g, p, q, kws) = S \cup T /\ S \cap T = {}
  BY DEF Found
<1>2. IsFiniteSet(S) /\ IsFiniteSet(T)
  BY FoundFinite
<1>3. Cardinality(S \cup T) = Cardinality(S) + Cardinality(T) - Cardinality({})
  BY <1>1, <1>2, FS_Union
<1> QED
  BY <1>1, <1>3, FoundFinite, FS_EmptySet

\* The last line counted.
LEMMA CountLast ==
    ASSUME NEW g, NEW p \in Int, NEW q \in Int, NEW kws, p <= q
    PROVE  Count(g, p, q, kws)
             = Count(g, p, q - 1, kws) + (IF Kw(g, q) \in kws THEN 1 ELSE 0)
<1>1. Count(g, p, q, kws) = Count(g, p, q - 1, kws) + Count(g, (q - 1) + 1, q, kws)
  BY CountSplit
<1>2. Count(g, q, q, kws) = IF Kw(g, q) \in kws THEN 1 ELSE 0
  <2>1. CASE Kw(g, q) \in kws
    <3>1. Found(g, q, q, kws) = {q}
      BY <2>1 DEF Found
    <3> QED
      BY <2>1, <3>1, FoundFinite, FS_Singleton
  <2>2. CASE Kw(g, q) \notin kws
    BY <2>2, CountNone
  <2> QED
    BY <2>1, <2>2
<1> QED
  BY <1>1, <1>2

\* One keyword is enough.
LEMMA CountSome ==
    ASSUME NEW g, NEW p \in Int, NEW q \in Int, NEW kws,
           NEW r \in p..q, Kw(g, r) \in kws
    PROVE  Count(g, p, q, kws) >= 1
<1>1. /\ Count(g, p, q, kws) = Count(g, p, r, kws) + Count(g, r + 1, q, kws)
      /\ Count(g, p, r, kws) = Count(g, p, r - 1, kws) + 1
  BY CountSplit, CountLast
<1>2. /\ Count(g, p, r - 1, kws) \in Nat /\ Count(g, r + 1, q, kws) \in Nat
  BY FoundFinite
<1> QED
  BY <1>1, <1>2

-----------------------------------------------------------------------------
(* How deep a line is in blocks *)

Formed(g) == IsProgram(g) /\ WellFormed(g)

Level(g, p) == Count(g, 1, p, Openers) - Count(g, 1, p, Closers)

\* How deep is a number.
LEMMA LevelInt ==
    ASSUME NEW g, NEW p \in Int
    PROVE  Level(g, p) \in Int
  BY FoundFinite DEF Level

\* One line at a time.
LEMMA LevelNext ==
    ASSUME NEW g, NEW p \in Int, p >= 1
    PROVE  /\ Kw(g, p) \in Openers => Level(g, p) = Level(g, p - 1) + 1
           /\ Kw(g, p) \in Closers => Level(g, p) = Level(g, p - 1) - 1
           /\ Kw(g, p) \notin Openers \cup Closers => Level(g, p) = Level(g, p - 1)
<1>1. /\ Count(g, 1, p, Openers)
           = Count(g, 1, p - 1, Openers) + (IF Kw(g, p) \in Openers THEN 1 ELSE 0)
      /\ Count(g, 1, p, Closers)
           = Count(g, 1, p - 1, Closers) + (IF Kw(g, p) \in Closers THEN 1 ELSE 0)
  BY CountLast
<1>2. Openers \cap Closers = {}
  BY DEF Openers, Closers
<1>3. /\ Count(g, 1, p - 1, Openers) \in Nat /\ Count(g, 1, p - 1, Closers) \in Nat
  BY FoundFinite
<1> QED
  BY <1>1, <1>2, <1>3 DEF Level

\* The depth a scan that begins behind line b counts.
LEMMA DepthLevel ==
    ASSUME NEW g, NEW b \in Int, NEW q \in Int, 0 <= b, b <= q
    PROVE  Depth(g, b + 1, q, Openers, Closers) = 1 + Level(g, q) - Level(g, b)
<1>1. /\ Count(g, 1, q, Openers) = Count(g, 1, b, Openers) + Count(g, b + 1, q, Openers)
      /\ Count(g, 1, q, Closers) = Count(g, 1, b, Closers) + Count(g, b + 1, q, Closers)
  BY CountSplit
<1>2. /\ Count(g, 1, b, Openers) \in Nat /\ Count(g, b + 1, q, Openers) \in Nat
      /\ Count(g, 1, b, Closers) \in Nat /\ Count(g, b + 1, q, Closers) \in Nat
  BY FoundFinite
<1> QED
  BY <1>1, <1>2 DEF Level, Depth

\* A scan stops at one line only.
LEMMA StopsOnce ==
    ASSUME NEW g, NEW p, NEW opens, NEW closes, NEW q \in Int, NEW r \in Int,
           StopsAt(g, p, opens, closes, q), StopsAt(g, p, opens, closes, r)
    PROVE  q = r
<1>1. ASSUME NEW x \in Int, NEW y \in Int, x < y, x >= p,
             StopsAt(g, p, opens, closes, x), StopsAt(g, p, opens, closes, y)
      PROVE  FALSE
  <2>1. x \in p..(y - 1)
    BY <1>1 DEF StopsAt
  <2>2. Kw(g, x) # "eof" /\ Depth(g, p, x, opens, closes) > 0
    BY <1>1, <2>1 DEF StopsAt
  <2>3. Kw(g, x) = "eof" \/ Depth(g, p, x, opens, closes) = 0
    BY <1>1 DEF StopsAt
  <2> QED
    BY <2>2, <2>3
<1>2. q >= p /\ r >= p
  BY DEF StopsAt
<1> QED
  BY <1>1, <1>2

\* Lines with keywords other than the end are in the program.
LEMMA LineOfKeyword ==
    ASSUME NEW g, IsProgram(g), NEW p, Kw(g, p) # "eof"
    PROVE  /\ p \in 1..Len(g.lines) /\ p \in Nat /\ p + 1 \in 1..Len(g.lines)
           /\ Len(g.lines) \in Nat
<1>1. Len(g.lines) \in Nat /\ g.lines[Len(g.lines)].kw = "eof"
  BY LenProperties DEF IsProgram
<1>2. p \in 1..Len(g.lines)
  BY DEF Kw
<1>3. p # Len(g.lines)
  BY <1>1 DEF Kw
<1> QED
  BY <1>1, <1>2, <1>3

\* A block begins with one of these.
LEMMA OpenerIsLine ==
    ASSUME NEW g, IsProgram(g), NEW b, Kw(g, b) \in Openers
    PROVE  b \in 1..Len(g.lines) /\ b \in Nat /\ b >= 1 /\ Kw(g, b) # "eof"
<1>1. Kw(g, b) # "eof"
  BY DEF Openers
<1> QED
  BY <1>1, LineOfKeyword

\* Where a block ends: at its own keyword, on the level around it.
LEMMA EndFacts ==
    ASSUME NEW g, Formed(g), NEW b, Kw(g, b) \in Openers
    PROVE  /\ b \in 1..Len(g.lines) /\ b \in Nat /\ b >= 1
           /\ End(g, b) \in 1..Len(g.lines) /\ End(g, b) \in Nat /\ b < End(g, b)
           /\ StopsAt(g, b + 1, Openers, Closers, End(g, b))
           /\ Kw(g, End(g, b)) = ClosingOf[Kw(g, b)]
           /\ Kw(g, End(g, b)) \in Closers
           /\ Level(g, End(g, b)) = Level(g, b) - 1
           /\ \A r \in b..(End(g, b) - 1) : Level(g, r) >= Level(g, b)
           /\ \A r \in b..End(g, b) : Kw(g, r) # "eof"
<1>1. b \in 1..Len(g.lines) /\ b \in Nat /\ b >= 1 /\ Kw(g, b) # "eof"
  BY OpenerIsLine DEF Formed
<1>2. PICK q \in 1..Len(g.lines) : /\ StopsAt(g, b + 1, Openers, Closers, q)
                                    /\ Kw(g, q) = ClosingOf[Kw(g, b)]
  BY <1>1 DEF Formed, WellFormed
<1>3. /\ End(g, b) \in 1..Len(g.lines)
      /\ StopsAt(g, b + 1, Openers, Closers, End(g, b))
  BY <1>2 DEF End
<1>4. Len(g.lines) \in Nat
  BY LenProperties DEF Formed, IsProgram
<1>5. End(g, b) = q
  BY <1>2, <1>3, <1>4, StopsOnce
<1>6. Kw(g, q) \in Closers
  BY <1>2 DEF Openers, Closers, ClosingOf
<1>7. q \in Nat /\ b + 1 <= q
  BY <1>1, <1>2, <1>4 DEF StopsAt
<1>8. Kw(g, q) # "eof"
  BY <1>6 DEF Closers
<1>9. ASSUME NEW r \in b..q
      PROVE  Level(g, r) \in Int /\ Depth(g, b + 1, r, Openers, Closers) = 1 + Level(g, r) - Level(g, b)
  BY <1>1, <1>7, DepthLevel, LevelInt
<1>10. Level(g, q) = Level(g, b) - 1
  BY <1>1, <1>2, <1>7, <1>8, <1>9, LevelInt DEF StopsAt
<1>11. ASSUME NEW r \in b..(q - 1)
       PROVE  Level(g, r) >= Level(g, b) /\ Kw(g, r) # "eof"
  <2>1. CASE r = b
    BY <1>1, <2>1, LevelInt
  <2>2. CASE r # b
    <3>1. r \in (b + 1)..(q - 1) /\ r \in b..q
      BY <1>1, <1>7, <2>2
    <3>2. Kw(g, r) # "eof" /\ Depth(g, b + 1, r, Openers, Closers) > 0
      BY <1>2, <3>1 DEF StopsAt
    <3> QED
      BY <1>1, <1>9, <3>1, <3>2, LevelInt
  <2> QED
    BY <2>1, <2>2
<1>12. \A r \in b..q : Kw(g, r) # "eof"
  BY <1>1, <1>7, <1>8, <1>11
<1> QED
  BY <1>1, <1>2, <1>3, <1>5, <1>6, <1>7, <1>10, <1>11, <1>12

\* A block that begins in another ends in it.
LEMMA BlocksNest ==
    ASSUME NEW g, Formed(g), NEW b, Kw(g, b) \in Openers,
           NEW c, Kw(g, c) \in Openers, b < c, c <= End(g, b)
    PROVE  End(g, c) < End(g, b)
<1>1. /\ b \in Nat /\ c \in Nat /\ b >= 1 /\ c >= 1 /\ End(g, b) \in Nat /\ End(g, c) \in Nat
      /\ Level(g, End(g, b)) = Level(g, b) - 1 /\ Level(g, End(g, c)) = Level(g, c) - 1
      /\ \A r \in b..(End(g, b) - 1) : Level(g, r) >= Level(g, b)
      /\ \A r \in c..(End(g, c) - 1) : Level(g, r) >= Level(g, c)
  BY EndFacts
<1>2. Level(g, c) = Level(g, c - 1) + 1
  BY <1>1, LevelNext
<1>3. c - 1 \in b..(End(g, b) - 1)
  BY <1>1
<1>4. /\ Level(g, c - 1) >= Level(g, b) /\ Level(g, b) \in Int /\ Level(g, c) \in Int
      /\ Level(g, c - 1) \in Int
  BY <1>1, <1>3, LevelInt
<1>5. SUFFICES ASSUME End(g, b) <= End(g, c) PROVE FALSE
  BY <1>1
<1>6. CASE End(g, b) = End(g, c)
  BY <1>1, <1>2, <1>4, <1>6
<1>7. CASE End(g, b) # End(g, c)
  <2>1. End(g, b) \in c..(End(g, c) - 1)
    BY <1>1, <1>5, <1>7
  <2>2. Level(g, End(g, b)) >= Level(g, c)
    BY <1>1, <2>1
  <2> QED
    BY <1>1, <1>2, <1>4, <2>2
<1> QED
  BY <1>6, <1>7

-----------------------------------------------------------------------------
(* The block a line is directly in *)

\* Line p follows, in the block that begins at b, only lines and whole blocks.
Inside(g, b, p) ==
    Kw(g, b) \in Openers /\ b < p /\ p <= End(g, b) /\ Level(g, p - 1) = Level(g, b)

\* It is in no block that begins behind b.
LEMMA InsideInnermost ==
    ASSUME NEW g, Formed(g), NEW b, NEW p \in Int, Inside(g, b, p),
           NEW c, Kw(g, c) \in Openers, c < p, p <= End(g, c)
    PROVE  c <= b
<1>1. /\ b \in Nat /\ c \in Nat /\ b >= 1 /\ c >= 1 /\ End(g, b) \in Nat /\ End(g, c) \in Nat
      /\ \A r \in b..(End(g, b) - 1) : Level(g, r) >= Level(g, b)
      /\ \A r \in c..(End(g, c) - 1) : Level(g, r) >= Level(g, c)
  BY EndFacts DEF Inside
<1>2. SUFFICES ASSUME b < c PROVE FALSE
  BY <1>1
<1>3. Level(g, c) = Level(g, c - 1) + 1
  BY <1>1, LevelNext
<1>4. c - 1 \in b..(End(g, b) - 1) /\ p - 1 \in c..(End(g, c) - 1)
  BY <1>1, <1>2 DEF Inside
<1>5. /\ Level(g, c - 1) >= Level(g, b) /\ Level(g, p - 1) >= Level(g, c)
      /\ Level(g, c - 1) \in Int /\ Level(g, b) \in Int /\ Level(g, c) \in Int
  BY <1>1, <1>4, LevelInt
<1> QED
  BY <1>3, <1>5 DEF Inside

\* A line is directly in one block at most.
LEMMA InsideOne ==
    ASSUME NEW g, Formed(g), NEW p \in Int, NEW b, Inside(g, b, p), NEW c, Inside(g, c, p)
    PROVE  b = c
<1>1. Kw(g, b) \in Openers /\ Kw(g, c) \in Openers /\ b < p /\ c < p
      /\ p <= End(g, b) /\ p <= End(g, c)
  BY DEF Inside
<1>2. b <= c /\ c <= b
  BY <1>1, InsideInnermost
<1>3. b \in Nat /\ c \in Nat
  BY <1>1, EndFacts
<1> QED
  BY <1>2, <1>3

\* The parts of a block are directly in it.
LEMMA DirectlyInside ==
    ASSUME NEW g, Formed(g), NEW b, Kw(g, b) \in Openers, NEW p \in Int,
           Kw(g, p) \notin Openers \cup Closers
    PROVE  Directly(g, b, p) <=> Inside(g, b, p)
<1>1. b \in Nat /\ b >= 1
  BY EndFacts
<1>2. CASE b < p
  <2>1. /\ Depth(g, b + 1, p, Openers, Closers) = 1 + Level(g, p) - Level(g, b)
        /\ Level(g, p) = Level(g, p - 1) /\ Level(g, b) \in Int /\ Level(g, p) \in Int
    BY <1>1, <1>2, DepthLevel, LevelNext, LevelInt
  <2> QED
    BY <1>1, <1>2, <2>1 DEF Directly, Encloses, Inside
<1>3. CASE ~(b < p)
  BY <1>3 DEF Directly, Encloses, Inside
<1> QED
  BY <1>2, <1>3

\* The first line of a block.
LEMMA InsideFirst ==
    ASSUME NEW g, Formed(g), NEW b, Kw(g, b) \in Openers
    PROVE  Inside(g, b, b + 1)
<1>1. b \in Nat /\ End(g, b) \in Nat /\ b < End(g, b)
  BY EndFacts
<1> QED
  BY <1>1 DEF Inside

\* The next line.
LEMMA InsideNext ==
    ASSUME NEW g, Formed(g), NEW b, NEW p \in Int, Inside(g, b, p),
           Kw(g, p) \notin Openers \cup Closers
    PROVE  Inside(g, b, p + 1)
<1>1. b \in Nat /\ b >= 1 /\ End(g, b) \in Nat /\ Kw(g, End(g, b)) \in Closers
  BY EndFacts DEF Inside
<1>2. Level(g, p) = Level(g, p - 1)
  BY <1>1, LevelNext DEF Inside
<1>3. p # End(g, b) /\ p < End(g, b)
  BY <1>1 DEF Inside
<1> QED
  BY <1>1, <1>2, <1>3 DEF Inside

\* The line behind a block in the block.
LEMMA InsideOver ==
    ASSUME NEW g, Formed(g), NEW b, NEW c, Inside(g, b, c), Kw(g, c) \in Openers
    PROVE  Inside(g, b, End(g, c) + 1)
<1>1. /\ b \in Nat /\ c \in Nat /\ b >= 1 /\ c >= 1 /\ End(g, b) \in Nat /\ End(g, c) \in Nat
      /\ c < End(g, c) /\ Level(g, End(g, c)) = Level(g, c) - 1
  BY EndFacts DEF Inside
<1>2. Level(g, c) = Level(g, c - 1) + 1 /\ Level(g, c - 1) \in Int
  BY <1>1, LevelNext, LevelInt
<1>3. End(g, c) < End(g, b)
  BY BlocksNest DEF Inside
<1> QED
  BY <1>1, <1>2, <1>3 DEF Inside

\* An end of a block ends the one it is in.
LEMMA InsideEnd ==
    ASSUME NEW g, Formed(g), NEW b, NEW p \in Int, Inside(g, b, p), Kw(g, p) \in Closers
    PROVE  p = End(g, b)
<1>1. /\ b \in Nat /\ b >= 1 /\ End(g, b) \in Nat
      /\ \A r \in b..(End(g, b) - 1) : Level(g, r) >= Level(g, b)
  BY EndFacts DEF Inside
<1>2. Level(g, p) = Level(g, p - 1) - 1
  BY <1>1, LevelNext DEF Inside
<1>3. Level(g, b) \in Int
  BY <1>1, LevelInt
<1> SUFFICES ASSUME p # End(g, b) PROVE FALSE
  OBVIOUS
<1>4. p \in b..(End(g, b) - 1)
  BY <1>1 DEF Inside
<1>5. Level(g, p) >= Level(g, b)
  BY <1>1, <1>4
<1> QED
  BY <1>2, <1>3, <1>5 DEF Inside

\* A line in no block.
Outside(g, p) == \A b \in 1..Len(g.lines) : Kw(g, b) \in Openers => ~Encloses(g, b, p)

\* What is in no block is behind all that begin before it.
LEMMA OutsideBlocks ==
    ASSUME NEW g, Formed(g), NEW p \in Int, Outside(g, p), NEW b, Kw(g, b) \in Openers, b < p
    PROVE  End(g, b) < p
<1>1. b \in 1..Len(g.lines) /\ End(g, b) \in Nat
  BY EndFacts
<1> QED
  BY <1>1 DEF Outside, Encloses

\* The next line of a procedure.
LEMMA OutsideNext ==
    ASSUME NEW g, Formed(g), NEW p \in Int, Outside(g, p), Kw(g, p) \notin Openers
    PROVE  Outside(g, p + 1)
<1>1. ASSUME NEW b \in 1..Len(g.lines), Kw(g, b) \in Openers, Encloses(g, b, p + 1)
      PROVE  FALSE
  <2>1. b \in Nat /\ End(g, b) \in Nat /\ b < p + 1 /\ p + 1 <= End(g, b)
    BY <1>1, EndFacts DEF Encloses
  <2>2. b # p
    BY <1>1
  <2>3. Encloses(g, b, p)
    BY <2>1, <2>2 DEF Encloses
  <2> QED
    BY <1>1, <2>3 DEF Outside
<1> QED
  BY <1>1 DEF Outside

\* The line behind a block of a procedure.
LEMMA OutsideOver ==
    ASSUME NEW g, Formed(g), NEW c, Outside(g, c), Kw(g, c) \in Openers
    PROVE  Outside(g, End(g, c) + 1)
<1>0. c \in Nat /\ End(g, c) \in Nat /\ c < End(g, c)
  BY EndFacts
<1>1. ASSUME NEW b \in 1..Len(g.lines), Kw(g, b) \in Openers, Encloses(g, b, End(g, c) + 1)
      PROVE  FALSE
  <2>1. b \in Nat /\ End(g, b) \in Nat /\ b < End(g, c) + 1 /\ End(g, c) + 1 <= End(g, b)
    BY <1>1, EndFacts DEF Encloses
  <2>2. CASE b < c
    BY <1>0, <1>1, <2>1, <2>2 DEF Outside, Encloses
  <2>3. CASE b = c
    BY <1>0, <2>1, <2>3
  <2>4. CASE c < b
    <3>1. b <= End(g, c)
      BY <1>0, <2>1
    <3>2. End(g, b) < End(g, c)
      BY <1>1, <2>4, <3>1, BlocksNest
    <3> QED
      BY <1>0, <2>1, <3>2
  <2> QED
    BY <1>0, <2>1, <2>2, <2>3, <2>4
<1> QED
  BY <1>1 DEF Outside

-----------------------------------------------------------------------------
(* What a line of a block is a part of *)

\* An end of a block ends a block before it.
LEMMA EndOfSome ==
    ASSUME NEW g, Formed(g), NEW q, Kw(g, q) \in Closers
    PROVE  \E b \in 1..(q - 1) : Kw(g, b) \in Openers /\ q = End(g, b) /\ q \in Nat
<1>1. Kw(g, q) # "eof"
  BY DEF Closers
<1>2. q \in 1..Len(g.lines) /\ q \in Nat
  BY <1>1, LineOfKeyword DEF Formed
<1> QED
  BY <1>2 DEF Formed, WellFormed

\* Outside the blocks no block ends.
LEMMA OutsideNoEnd ==
    ASSUME NEW g, Formed(g), NEW p \in Int, Outside(g, p)
    PROVE  Kw(g, p) \notin Closers
<1> SUFFICES ASSUME Kw(g, p) \in Closers PROVE FALSE
  OBVIOUS
<1>1. PICK b \in 1..(p - 1) : Kw(g, b) \in Openers /\ p = End(g, b)
  BY EndOfSome
<1>2. b < p
  BY <1>1
<1>3. End(g, b) < p
  BY <1>1, <1>2, OutsideBlocks
<1> QED
  BY <1>1, <1>3

\* ELSE, CASE and OTHERWISE are directly in a block of theirs.
LEMMA PartOfBlock ==
    ASSUME NEW g, Formed(g), NEW q, Kw(g, q) \in {"else", "case", "otherwise"}
    PROVE  \E b \in Nat :
              /\ Inside(g, b, q) /\ q \in Nat
              /\ Kw(g, q) = "else" => Kw(g, b) = "if" /\ q \in ElseOf(g, b)
              /\ Kw(g, q) # "else" => Kw(g, b) = "docase" /\ q \in Branches(g, b)
<1>1. Kw(g, q) # "eof" /\ Kw(g, q) \notin Openers \cup Closers
  BY DEF Openers, Closers
<1>2. q \in 1..Len(g.lines) /\ q \in Nat
  BY <1>1, LineOfKeyword DEF Formed
<1>3. CASE Kw(g, q) = "else"
  <2>1. PICK b \in 1..q : Kw(g, b) = "if" /\ q \in ElseOf(g, b)
    BY <1>2, <1>3 DEF Formed, WellFormed
  <2>2. Kw(g, b) \in Openers /\ Directly(g, b, q)
    BY <2>1 DEF ElseOf, Openers
  <2>3. Inside(g, b, q)
    BY <1>1, <1>2, <2>2, DirectlyInside
  <2> QED
    BY <1>2, <1>3, <2>1, <2>3
<1>4. CASE Kw(g, q) \in {"case", "otherwise"}
  <2>1. PICK b \in 1..q : Kw(g, b) = "docase" /\ q \in Branches(g, b)
    BY <1>2, <1>4 DEF Formed, WellFormed
  <2>2. Kw(g, b) \in Openers /\ Directly(g, b, q)
    BY <2>1 DEF Branches, Openers
  <2>3. Inside(g, b, q)
    BY <1>1, <1>2, <2>2, DirectlyInside
  <2> QED
    BY <1>2, <1>4, <2>1, <2>3
<1> QED
  BY <1>3, <1>4

\* EXIT and LOOP are in a loop.
LEMMA JumpInLoop ==
    ASSUME NEW g, Formed(g), NEW q, Kw(g, q) \in {"exit", "loop"}
    PROVE  \E w \in 1..Len(g.lines) : Kw(g, w) = "while" /\ w < q /\ q <= End(g, w)
<1>1. q \in 1..Len(g.lines) /\ q \in Nat /\ Len(g.lines) \in Nat
  BY LineOfKeyword DEF Formed
<1>2. \E b \in 1..(q - 1) : Kw(g, b) \in {"while"} /\ q <= End(g, b)
  BY <1>1 DEF Formed, WellFormed
<1> QED
  BY <1>1, <1>2

\* Procedures are in no block, nor are the lines behind the end of a file.
LEMMA ProcedureOutside ==
    ASSUME NEW g, Formed(g), NEW q, Kw(g, q) = "procedure"
    PROVE  Outside(g, q)
<1>1. q \in 1..Len(g.lines) /\ q \in Nat /\ Len(g.lines) \in Nat
  BY LineOfKeyword DEF Formed
<1>2. ~\E b \in 1..(q - 1) : Kw(g, b) \in Openers /\ q <= End(g, b)
  BY <1>1 DEF Formed, WellFormed
<1> QED
  BY <1>1, <1>2 DEF Outside, Encloses

\* A file begins behind the end of another.
LEMMA FileOutside ==
    ASSUME NEW g, Formed(g), NEW p \in Int, Kw(g, p - 1) = "eof"
    PROVE  Outside(g, p)
<1>1. ASSUME NEW b \in 1..Len(g.lines), Kw(g, b) \in Openers, Encloses(g, b, p)
      PROVE  FALSE
  <2>1. b \in Nat /\ End(g, b) \in Nat /\ \A r \in b..End(g, b) : Kw(g, r) # "eof"
    BY <1>1, EndFacts
  <2>2. p - 1 \in b..End(g, b)
    BY <1>1, <2>1 DEF Encloses
  <2> QED
    BY <2>1, <2>2
<1> QED
  BY <1>1 DEF Outside

\* No procedure begins in a block.
LEMMA NoProcedureInside ==
    ASSUME NEW g, Formed(g), NEW b, Kw(g, b) \in Openers
    PROVE  \A r \in b..End(g, b) : Kw(g, r) \notin {"procedure", "eof"}
<1>1. b \in 1..Len(g.lines) /\ b \in Nat /\ End(g, b) \in Nat
      /\ \A r \in b..End(g, b) : Kw(g, r) # "eof"
  BY EndFacts
<1>2. ASSUME NEW r \in b..End(g, b), Kw(g, r) = "procedure"
      PROVE  FALSE
  <2>1. r # b
    BY <1>2 DEF Openers
  <2>2. Encloses(g, b, r)
    BY <1>1, <2>1 DEF Encloses
  <2> QED
    BY <1>1, <1>2, <2>2, ProcedureOutside DEF Outside
<1> QED
  BY <1>1, <1>2

-----------------------------------------------------------------------------
(* Where the scans of the code stop *)

\* The same keywords, the same count.
LEMMA SameCount ==
    ASSUME NEW g, NEW p \in Int, NEW q \in Int, NEW kws, NEW others,
           \A r \in p..q : Kw(g, r) \in kws <=> Kw(g, r) \in others
    PROVE  Count(g, p, q, kws) = Count(g, p, q, others)
<1>1. {r \in p..q : Kw(g, r) \in kws} = {r \in p..q : Kw(g, r) \in others}
  OBVIOUS
<1> QED
  BY <1>1 DEF Count

\* A scan for other keywords stops at the same line if it meets the same ones.
LEMMA SameScan ==
    ASSUME NEW g, NEW p \in Int, NEW q \in Int,
           NEW opens, NEW closes, NEW opens2, NEW closes2,
           StopsAt(g, p, opens, closes, q),
           \A r \in p..q : /\ Kw(g, r) \in opens <=> Kw(g, r) \in opens2
                           /\ Kw(g, r) \in closes <=> Kw(g, r) \in closes2
    PROVE  StopsAt(g, p, opens2, closes2, q)
<1>1. ASSUME NEW r \in p..q
      PROVE  Depth(g, p, r, opens, closes) = Depth(g, p, r, opens2, closes2)
  <2>1. \A s \in p..r : s \in p..q
    OBVIOUS
  <2>2. /\ Count(g, p, r, opens) = Count(g, p, r, opens2)
        /\ Count(g, p, r, closes) = Count(g, p, r, closes2)
    BY <2>1, SameCount
  <2> QED
    BY <2>2 DEF Depth
<1>2. q \in p..q /\ \A r \in p..(q - 1) : r \in p..q
  BY DEF StopsAt
<1> QED
  BY <1>1, <1>2 DEF StopsAt

\* From a line directly in a block to the end of the block.
LEMMA BlockScan ==
    ASSUME NEW g, Formed(g), NEW b, NEW p \in Int, Inside(g, b, p)
    PROVE  StopsAt(g, p, Openers, Closers, End(g, b))
<1>1. /\ b \in Nat /\ b >= 1 /\ End(g, b) \in Nat
      /\ Level(g, End(g, b)) = Level(g, b) - 1
      /\ \A r \in b..(End(g, b) - 1) : Level(g, r) >= Level(g, b)
      /\ \A r \in b..End(g, b) : Kw(g, r) # "eof"
  BY EndFacts DEF Inside
<1>2. b < p /\ p <= End(g, b) /\ Level(g, p - 1) = Level(g, b)
  BY DEF Inside
<1>3. ASSUME NEW r \in p..End(g, b)
      PROVE  Depth(g, p, r, Openers, Closers) = 1 + Level(g, r) - Level(g, b)
  <2>1. Depth(g, (p - 1) + 1, r, Openers, Closers) = 1 + Level(g, r) - Level(g, p - 1)
    BY <1>1, <1>2, DepthLevel
  <2> QED
    BY <1>2, <2>1
<1>4. ASSUME NEW r \in p..(End(g, b) - 1)
      PROVE  Kw(g, r) # "eof" /\ Depth(g, p, r, Openers, Closers) > 0
  <2>1. r \in b..(End(g, b) - 1) /\ r \in p..End(g, b) /\ r \in b..End(g, b)
    BY <1>1, <1>2
  <2> QED
    BY <1>1, <1>3, <2>1, LevelInt
<1>5. Depth(g, p, End(g, b), Openers, Closers) = 0
  BY <1>1, <1>2, <1>3, LevelInt
<1> QED
  BY <1>1, <1>2, <1>4, <1>5 DEF StopsAt

\* The scan of IF for its ELSE or ENDIF, if it takes no ELSE of another IF for one.
LEMMA IfScan ==
    ASSUME NEW g, Formed(g), NEW b, Kw(g, b) = "if",
           \A r \in (b + 1)..End(g, b) :
              Kw(g, r) = "else" => Directly(g, b, r) \/ \E e \in ElseOf(g, b) : ~(r < e)
    PROVE  /\ ElseOf(g, b) = {} =>
                 StopsAt(g, b + 1, Openers, Closers \cup {"else"}, End(g, b))
           /\ \A e \in ElseOf(g, b) :
                 StopsAt(g, b + 1, Openers, Closers \cup {"else"}, e)
<1>1. /\ Kw(g, b) \in Openers /\ b \in 1..Len(g.lines) /\ b \in Nat /\ b >= 1
      /\ End(g, b) \in Nat /\ End(g, b) \in 1..Len(g.lines)
      /\ StopsAt(g, b + 1, Openers, Closers, End(g, b))
      /\ \A r \in b..End(g, b) : Kw(g, r) # "eof"
      /\ \A r \in b..(End(g, b) - 1) : Level(g, r) >= Level(g, b)
  BY EndFacts DEF Openers
<1>2. Len(g.lines) \in Nat
  BY LineOfKeyword, <1>1 DEF Formed, Openers
<1>3. ASSUME ElseOf(g, b) = {}
      PROVE  StopsAt(g, b + 1, Openers, Closers \cup {"else"}, End(g, b))
  <2>1. ASSUME NEW r \in (b + 1)..End(g, b)
        PROVE  Kw(g, r) # "else"
    <3>1. r \in 1..Len(g.lines)
      BY <1>1, <1>2
    <3> QED
      BY <1>3, <3>1 DEF ElseOf
  <2> QED
    BY <1>1, <2>1, SameScan
<1>4. ASSUME NEW e \in ElseOf(g, b)
      PROVE  StopsAt(g, b + 1, Openers, Closers \cup {"else"}, e)
  <2>1. e \in 1..Len(g.lines) /\ e \in Nat /\ Kw(g, e) = "else" /\ Directly(g, b, e)
    BY <1>2 DEF ElseOf
  <2>2. Inside(g, b, e) /\ Kw(g, e) \notin Openers
    BY <1>1, <2>1, DirectlyInside DEF Openers, Closers
  <2>3. b < e /\ e <= End(g, b) /\ Level(g, e - 1) = Level(g, b)
    BY <2>2 DEF Inside
  <2>4. ASSUME NEW r \in (b + 1)..(e - 1)
        PROVE  Kw(g, r) # "else"
    <3>0. SUFFICES ASSUME Kw(g, r) = "else" PROVE FALSE
      OBVIOUS
    <3>1. r \in 1..Len(g.lines) /\ r \in (b + 1)..End(g, b) /\ r < e
      BY <1>1, <1>2, <2>1, <2>3
    <3>2. Directly(g, b, r) => r \in ElseOf(g, b)
      BY <3>0, <3>1 DEF ElseOf
    <3>3. \A x \in ElseOf(g, b) : x = e
      BY <1>1 DEF Formed, WellFormed
    <3>4. Directly(g, b, r) \/ \E x \in ElseOf(g, b) : ~(r < x)
      BY <3>0, <3>1
    <3> QED
      BY <3>1, <3>2, <3>3, <3>4
  <2>5. ASSUME NEW r \in b..(e - 1)
        PROVE  /\ Depth(g, b + 1, r, Openers, Closers \cup {"else"})
                    = 1 + Level(g, r) - Level(g, b)
               /\ Kw(g, r) # "eof" /\ Level(g, r) >= Level(g, b)
    <3>1. \A s \in (b + 1)..r : s \in (b + 1)..(e - 1)
      BY <1>1, <2>1
    <3>2. Count(g, b + 1, r, Closers) = Count(g, b + 1, r, Closers \cup {"else"})
      BY <1>1, <2>4, <3>1, SameCount
    <3>3. Depth(g, b + 1, r, Openers, Closers) = 1 + Level(g, r) - Level(g, b)
      BY <1>1, DepthLevel
    <3> QED
      BY <1>1, <2>1, <2>3, <3>2, <3>3 DEF Depth
  <2>6. Depth(g, b + 1, e, Openers, Closers \cup {"else"}) = 0
    <3>1. /\ Count(g, b + 1, e, Openers) = Count(g, b + 1, e - 1, Openers)
          /\ Count(g, b + 1, e, Closers \cup {"else"})
               = Count(g, b + 1, e - 1, Closers \cup {"else"}) + 1
      <4>1. b + 1 \in Int /\ e \in Int /\ b + 1 <= e
        BY <1>1, <2>1, <2>3
      <4>2. Kw(g, e) \in Closers \cup {"else"}
        BY <2>1
      <4>3. /\ Count(g, b + 1, e, Openers)
                 = Count(g, b + 1, e - 1, Openers) + (IF Kw(g, e) \in Openers THEN 1 ELSE 0)
            /\ Count(g, b + 1, e, Closers \cup {"else"})
                 = Count(g, b + 1, e - 1, Closers \cup {"else"})
                     + (IF Kw(g, e) \in Closers \cup {"else"} THEN 1 ELSE 0)
        BY <4>1, CountLast
      <4>4. Count(g, b + 1, e - 1, Openers) \in Nat
        BY <4>1, FoundFinite
      <4> QED
        BY <2>2, <4>2, <4>3, <4>4
    <3>2. Depth(g, b + 1, e - 1, Openers, Closers \cup {"else"}) = 1
      <4>1. e - 1 \in b..(e - 1)
        BY <1>1, <2>1, <2>3
      <4>2. Depth(g, b + 1, e - 1, Openers, Closers \cup {"else"})
              = 1 + Level(g, e - 1) - Level(g, b)
        BY <2>5, <4>1
      <4>3. Level(g, b) \in Int
        BY <1>1, LevelInt
      <4> QED
        BY <2>3, <4>2, <4>3
    <3>3. /\ Count(g, b + 1, e - 1, Openers) \in Nat
          /\ Count(g, b + 1, e - 1, Closers \cup {"else"}) \in Nat
      BY <1>1, <2>1, FoundFinite
    <3> QED
      BY <3>1, <3>2, <3>3 DEF Depth
  <2>7. ASSUME NEW r \in (b + 1)..(e - 1)
        PROVE  Kw(g, r) # "eof" /\ Depth(g, b + 1, r, Openers, Closers \cup {"else"}) > 0
    <3>1. r \in b..(e - 1) /\ r \in Int
      BY <1>1, <2>1
    <3>2. Level(g, b) \in Int /\ Level(g, r) \in Int
      BY <1>1, <3>1, LevelInt
    <3> QED
      BY <2>5, <3>1, <3>2
  <2>8. e >= b + 1
    BY <1>1, <2>1, <2>3
  <2> QED
    BY <2>6, <2>7, <2>8 DEF StopsAt
<1> QED
  BY <1>3, <1>4

\* An end of a loop between here and the end of the loop around ends a loop that
\* begins between: the scan that counts only DO WHILEs stops at the end of the loop.
LEMMA LoopScan ==
    ASSUME NEW g, Formed(g), NEW b, Kw(g, b) = "while",
           NEW p \in Int, b < p, p <= End(g, b),
           \A w \in 1..Len(g.lines) : Kw(g, w) = "while" /\ w < p /\ p <= End(g, w) => w <= b
    PROVE  StopsAt(g, p, {"while"}, {"enddo"}, End(g, b))
<1> DEFINE e == End(g, b)
<1>1. /\ b \in 1..Len(g.lines) /\ b \in Nat /\ b >= 1 /\ e \in 1..Len(g.lines) /\ e \in Nat
      /\ Kw(g, e) = "enddo" /\ \A r \in b..e : Kw(g, r) # "eof"
  <2>1. Kw(g, b) \in Openers
    BY DEF Openers
  <2>2. ClosingOf["while"] = "enddo"
    BY DEF ClosingOf
  <2> QED
    BY <2>1, <2>2, EndFacts
<1>2. ASSUME NEW r \in p..(e - 1), Kw(g, r) = "enddo"
      PROVE  \E w \in p..r : Kw(g, w) = "while" /\ End(g, w) = r
  <2>1. PICK w \in 1..(r - 1) : Kw(g, w) \in Openers /\ r = End(g, w) /\ r \in Nat
    BY <1>2, EndOfSome DEF Closers
  <2>2. Kw(g, w) = "while" /\ w \in 1..Len(g.lines) /\ w \in Nat
    <3>1. Kw(g, r) = ClosingOf[Kw(g, w)] /\ w \in 1..Len(g.lines)
      BY <2>1, EndFacts
    <3> QED
      BY <1>2, <2>1, <3>1 DEF Openers, ClosingOf
  <2>3. ~(w < p)
    <3>0. SUFFICES ASSUME w < p PROVE FALSE
      OBVIOUS
    <3>1. w <= b
      BY <2>1, <2>2, <3>0
    <3>2. w # b
      BY <1>1, <2>1
    <3>3. b <= End(g, w)
      BY <1>1, <2>1
    <3>4. End(g, b) < End(g, w)
      BY <1>1, <2>1, <2>2, <3>1, <3>2, <3>3, BlocksNest DEF Openers
    <3> QED
      BY <1>1, <2>1, <3>4
  <2> QED
    BY <2>1, <2>2, <2>3
<1>3. ASSUME NEW w \in p..(e - 1), Kw(g, w) = "while"
      PROVE  End(g, w) \in w..(e - 1)
  <2>1. End(g, w) < e /\ w < End(g, w) /\ End(g, w) \in Nat
    BY <1>1, <1>3, BlocksNest, EndFacts DEF Openers
  <2> QED
    BY <1>1, <2>1
<1> HIDE DEF e
<1>4. ASSUME NEW r \in p..(e - 1)
      PROVE  Count(g, p, r, {"enddo"}) <= Count(g, p, r, {"while"})
  <2> DEFINE S == Found(g, p, r, {"enddo"})
             T == Found(g, p, r, {"while"})
             f == [x \in S |-> CHOOSE w \in p..x : Kw(g, w) = "while" /\ End(g, w) = x]
  <2>1. IsFiniteSet(S) /\ IsFiniteSet(T)
    BY FoundFinite
  <2>2. \A x \in S : f[x] \in p..x /\ Kw(g, f[x]) = "while" /\ End(g, f[x]) = x
    <3>1. \A x \in S : \E w \in p..x : Kw(g, w) = "while" /\ End(g, w) = x
      BY <1>1, <1>2 DEF Found
    <3> QED
      BY <3>1
  <2>3. f \in Injection(S, T)
    <3>1. f \in [S -> T]
      BY <2>2 DEF Found
    <3> QED
      BY <2>2, <3>1 DEF Injection, IsInjective
  <2>4. Cardinality(S) <= Cardinality(T)
    BY <2>1, <2>3, FS_Injection
  <2> QED
    BY <2>4, FoundFinite
<1>5. Count(g, p, e - 1, {"while"}) <= Count(g, p, e - 1, {"enddo"})
  <2> DEFINE S == Found(g, p, e - 1, {"while"})
             T == Found(g, p, e - 1, {"enddo"})
             f == [x \in S |-> End(g, x)]
  <2>1. IsFiniteSet(S) /\ IsFiniteSet(T)
    BY <1>1, FoundFinite
  <2>2. f \in [S -> T]
    <3>1. ASSUME NEW x \in S PROVE End(g, x) \in T
      <4>1. x \in p..(e - 1) /\ Kw(g, x) = "while"
        BY DEF Found
      <4>2. Kw(g, End(g, x)) = "enddo"
        BY <4>1, EndFacts DEF Openers, ClosingOf
      <4> QED
        BY <1>1, <1>3, <4>1, <4>2 DEF Found
    <3> QED
      BY <3>1
  <2>3. ASSUME NEW x \in S, NEW y \in S, End(g, x) = End(g, y)
        PROVE  x = y
    <3>1. ASSUME NEW v \in S, NEW w \in S, End(g, v) = End(g, w), v < w
          PROVE  FALSE
      <4>1. /\ Kw(g, v) \in Openers /\ Kw(g, w) \in Openers
            /\ End(g, w) \in Nat /\ w < End(g, w) /\ w \in Nat
        BY EndFacts DEF Found, Openers
      <4> QED
        BY <3>1, <4>1, BlocksNest
    <3>2. x \in Int /\ y \in Int
      BY DEF Found
    <3> QED
      BY <2>3, <3>1, <3>2
  <2>4. f \in Injection(S, T)
    BY <2>2, <2>3 DEF Injection, IsInjective
  <2>5. Cardinality(S) <= Cardinality(T)
    BY <2>1, <2>4, FS_Injection
  <2> QED
    BY <1>1, <2>5, FoundFinite
<1>6. ASSUME NEW r \in p..(e - 1)
      PROVE  Kw(g, r) # "eof" /\ Depth(g, p, r, {"while"}, {"enddo"}) > 0
  <2>1. Count(g, p, r, {"while"}) \in Nat /\ Count(g, p, r, {"enddo"}) \in Nat
    BY FoundFinite
  <2>2. r \in b..e
    BY <1>1
  <2> QED
    BY <1>1, <1>4, <2>1, <2>2 DEF Depth
<1>7. Depth(g, p, e, {"while"}, {"enddo"}) = 0
  <2>1. /\ Count(g, p, e, {"while"}) = Count(g, p, e - 1, {"while"})
        /\ Count(g, p, e, {"enddo"}) = Count(g, p, e - 1, {"enddo"}) + 1
    <3>1. /\ Count(g, p, e, {"while"})
               = Count(g, p, e - 1, {"while"}) + (IF Kw(g, e) \in {"while"} THEN 1 ELSE 0)
          /\ Count(g, p, e, {"enddo"})
               = Count(g, p, e - 1, {"enddo"}) + (IF Kw(g, e) \in {"enddo"} THEN 1 ELSE 0)
      BY <1>1, CountLast DEF e
    <3>2. Count(g, p, e - 1, {"while"}) \in Nat
      BY <1>1, FoundFinite
    <3> QED
      BY <1>1, <3>1, <3>2
  <2>2. Count(g, p, e - 1, {"while"}) \in Nat /\ Count(g, p, e - 1, {"enddo"}) \in Nat
    BY <1>1, FoundFinite
  <2>3. Count(g, p, e - 1, {"while"}) = Count(g, p, e - 1, {"enddo"})
    <3>1. CASE p <= e - 1
      <4>1. e - 1 \in p..(e - 1)
        BY <1>1, <3>1
      <4> QED
        BY <1>4, <1>5, <2>2, <4>1
    <3>2. CASE ~(p <= e - 1)
      <4>1. p..(e - 1) = {}
        BY <1>1, <3>2
      <4>2. Count(g, p, e - 1, {"while"}) = 0 /\ Count(g, p, e - 1, {"enddo"}) = 0
        BY <1>1, <4>1, CountNone
      <4> QED
        BY <4>2
    <3> QED
      BY <3>1, <3>2
  <2> QED
    BY <2>1, <2>2, <2>3 DEF Depth
<1>8. e >= p
  BY <1>1 DEF e
<1> QED
  BY <1>6, <1>7, <1>8 DEF StopsAt, e

\* A scan that counts no block stops at the first of the keywords, if not at the
\* end of the file.
LEMMA FlatScan ==
    ASSUME NEW g, NEW p \in Int, NEW closes, NEW q \in Int, StopsAt(g, p, {}, closes, q)
    PROVE  /\ p <= q
           /\ \A r \in p..(q - 1) : Kw(g, r) # "eof" /\ Kw(g, r) \notin closes
           /\ Kw(g, q) \in closes \cup {"eof"}
<1>1. p <= q
  BY DEF StopsAt
<1>2. ASSUME NEW r \in p..q PROVE Depth(g, p, r, {}, closes) = 1 - Count(g, p, r, closes)
                                   /\ Count(g, p, r, closes) \in Nat
  <2>1. Count(g, p, r, {}) = 0
    BY CountNone
  <2> QED
    BY <2>1, FoundFinite DEF Depth
<1>3. ASSUME NEW r \in p..(q - 1)
      PROVE  Kw(g, r) # "eof" /\ Kw(g, r) \notin closes
  <2>1. Kw(g, r) # "eof" /\ Depth(g, p, r, {}, closes) > 0
    BY DEF StopsAt
  <2>2. Count(g, p, r, closes) = 0
    BY <1>2, <2>1
  <2>3. r \in p..r
    OBVIOUS
  <2> QED
    BY <2>1, <2>2, <2>3, CountSome
<1>4. Kw(g, q) \in closes \cup {"eof"}
  <2>0. SUFFICES ASSUME Kw(g, q) \notin closes, Kw(g, q) # "eof" PROVE FALSE
    OBVIOUS
  <2>1. Depth(g, p, q, {}, closes) = 0
    BY <2>0 DEF StopsAt
  <2>2. \A r \in p..q : Kw(g, r) \notin closes
    BY <1>3, <2>0
  <2>3. Count(g, p, q, closes) = 0
    BY <2>2, CountNone
  <2> QED
    BY <1>1, <1>2, <2>1, <2>3
<1> QED
  BY <1>1, <1>3, <1>4

-----------------------------------------------------------------------------
(* Where the running activations stand in the program *)

EndsAt(g, p, q) ==
    /\ p <= q /\ Kw(g, q) \in {"procedure", "eof"}
    /\ \A r \in p..(q - 1) : Kw(g, r) \notin {"procedure", "eof"}

Opener == [then |-> "if", else |-> "if", while |-> "while", case |-> "docase"]

\* Line p is directly in what the activation runs: the branch of an IF behind its
\* ELSE, the branch of a DO CASE that was taken, a procedure outside all blocks.
In(g, a, p) ==
    IF IsCall(a) THEN Outside(g, p) /\ (a.kind = "range" => EndsAt(g, p, a.at))
    ELSE /\ Kw(g, a.at) = Opener[a.kind] /\ Inside(g, a.at, p)
         /\ a.kind = "else" => \E e \in ElseOf(g, a.at) : e < p
         /\ a.kind = "case" => /\ a.matched
                               /\ \E c \in Branches(g, a.at) : c < p /\ Kw(g, c) = a.body

\* An activation that is no call is that of a block.
LEMMA OpenerOf ==
    ASSUME NEW a \in Activation, ~IsCall(a)
    PROVE  Opener[a.kind] \in Openers /\ a.kind \in Blocks
  BY DEF Activation, IsCall, Blocks, CallKinds, Opener, Openers

\* The next line is in the same activation,
LEMMA InNext ==
    ASSUME NEW g, Formed(g), NEW a \in Activation, NEW p \in Nat, In(g, a, p),
           Kw(g, p) \notin Openers \cup Closers \cup {"procedure", "eof"}
    PROVE  In(g, a, p + 1)
<1>1. CASE IsCall(a)
  <2>1. Outside(g, p + 1)
    BY <1>1, OutsideNext DEF In
  <2>2. ASSUME a.kind = "range" PROVE EndsAt(g, p + 1, a.at)
    <3>1. EndsAt(g, p, a.at) /\ a.at \in Nat
      BY <1>1, <2>2 DEF In, Activation
    <3> QED
      BY <3>1 DEF EndsAt
  <2> QED
    BY <1>1, <2>1, <2>2 DEF In
<1>2. CASE ~IsCall(a)
  <2>1. Inside(g, a.at, p + 1)
    BY <1>2, InsideNext DEF In
  <2>2. \A x \in ElseOf(g, a.at) \cup Branches(g, a.at) : x < p => x < p + 1
    <3>1. Len(g.lines) \in Nat
      BY LenProperties DEF Formed, IsProgram
    <3>2. \A x \in ElseOf(g, a.at) \cup Branches(g, a.at) : x \in Nat
      BY <3>1 DEF ElseOf, Branches
    <3> QED
      BY <3>2
  <2> QED
    BY <1>2, <2>1, <2>2 DEF In
<1> QED
  BY <1>1, <1>2

\* and so is the line behind a block.
LEMMA InOver ==
    ASSUME NEW g, Formed(g), NEW a \in Activation, NEW c \in Nat, In(g, a, c),
           Kw(g, c) \in Openers
    PROVE  In(g, a, End(g, c) + 1)
<1>0. End(g, c) \in Nat /\ c < End(g, c)
  BY EndFacts
<1>1. CASE IsCall(a)
  <2>1. Outside(g, End(g, c) + 1)
    BY <1>1, OutsideOver DEF In
  <2>2. ASSUME a.kind = "range" PROVE EndsAt(g, End(g, c) + 1, a.at)
    <3>1. EndsAt(g, c, a.at) /\ a.at \in Nat
      BY <1>1, <2>2 DEF In, Activation
    <3>2. \A r \in c..End(g, c) : Kw(g, r) \notin {"procedure", "eof"}
      BY NoProcedureInside
    <3>3. a.at \notin c..End(g, c)
      BY <3>1, <3>2 DEF EndsAt
    <3> QED
      BY <1>0, <3>1, <3>3 DEF EndsAt
  <2> QED
    BY <1>1, <2>1, <2>2 DEF In
<1>2. CASE ~IsCall(a)
  <2>1. Inside(g, a.at, End(g, c) + 1)
    BY <1>2, InsideOver DEF In
  <2>2. \A x \in ElseOf(g, a.at) \cup Branches(g, a.at) : x < c => x < End(g, c) + 1
    <3>1. Len(g.lines) \in Nat
      BY LenProperties DEF Formed, IsProgram
    <3>2. \A x \in ElseOf(g, a.at) \cup Branches(g, a.at) : x \in Nat
      BY <3>1 DEF ElseOf, Branches
    <3> QED
      BY <1>0, <3>2
  <2> QED
    BY <1>2, <2>1, <2>2 DEF In
<1> QED
  BY <1>1, <1>2

\* What a keyword of a block says of the block it is directly in.
LEMMA PartsInside ==
    ASSUME NEW g, Formed(g), NEW p \in Nat, NEW b, Inside(g, b, p)
    PROVE  /\ b \in Nat /\ Kw(g, b) \in Openers /\ b < p /\ p <= End(g, b)
           /\ Kw(g, p) \notin {"procedure", "eof"}
           /\ Kw(g, p) = "else" => Kw(g, b) = "if" /\ p \in ElseOf(g, b)
           /\ Kw(g, p) \in {"case", "otherwise"} => Kw(g, b) = "docase" /\ p \in Branches(g, b)
           /\ Kw(g, p) \in Closers => p = End(g, b) /\ Kw(g, p) = ClosingOf[Kw(g, b)]
<1>1. /\ b \in Nat /\ Kw(g, b) \in Openers /\ b < p /\ p <= End(g, b) /\ End(g, b) \in Nat
      /\ Kw(g, End(g, b)) = ClosingOf[Kw(g, b)]
  BY EndFacts DEF Inside
<1>2. Kw(g, p) \notin {"procedure", "eof"}
  BY <1>1, NoProcedureInside
<1>3. ASSUME Kw(g, p) \in {"else", "case", "otherwise"}
      PROVE  /\ Kw(g, p) = "else" => Kw(g, b) = "if" /\ p \in ElseOf(g, b)
             /\ Kw(g, p) # "else" => Kw(g, b) = "docase" /\ p \in Branches(g, b)
  <2>1. PICK c \in Nat :
              /\ Inside(g, c, p)
              /\ Kw(g, p) = "else" => Kw(g, c) = "if" /\ p \in ElseOf(g, c)
              /\ Kw(g, p) # "else" => Kw(g, c) = "docase" /\ p \in Branches(g, c)
    BY <1>3, PartOfBlock
  <2>2. c = b
    BY <2>1, InsideOne
  <2> QED
    BY <2>1, <2>2
<1>4. Kw(g, p) \in Closers => p = End(g, b)
  BY InsideEnd
<1> QED
  BY <1>1, <1>2, <1>3, <1>4

\* Outside the blocks there is no part of one.
LEMMA PartsOutside ==
    ASSUME NEW g, Formed(g), NEW p \in Nat, Outside(g, p)
    PROVE  Kw(g, p) \notin {"else", "case", "otherwise"} \cup Closers
<1>1. Kw(g, p) \notin Closers
  BY OutsideNoEnd
<1>2. ASSUME Kw(g, p) \in {"else", "case", "otherwise"} PROVE FALSE
  <2>1. PICK b \in Nat : Inside(g, b, p)
    BY <1>2, PartOfBlock
  <2>2. End(g, b) \in Nat /\ Kw(g, b) \in Openers /\ b < p /\ p <= End(g, b)
    BY <2>1, PartsInside, EndFacts
  <2> QED
    BY <2>2, OutsideBlocks
<1> QED
  BY <1>1, <1>2

\* The block of the kind around a line that no later one encloses.
LEMMA AroundIs ==
    ASSUME NEW g, Formed(g), NEW p \in Nat, NEW b, Kw(g, b) \in Openers, Encloses(g, b, p),
           \A c \in 1..Len(g.lines) : Kw(g, c) = Kw(g, b) /\ Encloses(g, c, p) => c <= b
    PROVE  Around(g, Kw(g, b), p) = b
<1>1. /\ b \in 1..Len(g.lines) /\ b \in Nat /\ Len(g.lines) \in Nat /\ End(g, b) \in 1..Len(g.lines)
      /\ b < p /\ p <= End(g, b)
  BY EndFacts, OpenerIsLine, LineOfKeyword DEF Formed, Encloses
<1>2. \A c \in (b + 1)..(p - 1) : Kw(g, c) = Kw(g, b) => ~Encloses(g, c, p)
  <2> SUFFICES ASSUME NEW c \in (b + 1)..(p - 1), Kw(g, c) = Kw(g, b), Encloses(g, c, p)
               PROVE  FALSE
    OBVIOUS
  <2>1. c \in 1..Len(g.lines) /\ b < c
    BY <1>1
  <2>2. c <= b
    BY <2>1
  <2> QED
    BY <1>1, <2>1, <2>2
<1>3. ASSUME NEW x \in 1..Len(g.lines), Kw(g, x) = Kw(g, b), Encloses(g, x, p),
             \A c \in (x + 1)..(p - 1) : Kw(g, c) = Kw(g, b) => ~Encloses(g, c, p)
      PROVE  x = b
  <2>1. x <= b /\ x \in Nat
    BY <1>1, <1>3
  <2>2. ~(x < b)
    <3>1. x < b => b \in (x + 1)..(p - 1)
      BY <1>1, <2>1
    <3> QED
      BY <1>3, <3>1
  <2> QED
    BY <1>1, <2>1, <2>2
<1> DEFINE P(x) == /\ Kw(g, x) = Kw(g, b) /\ Encloses(g, x, p)
                   /\ \A c \in (x + 1)..(p - 1) : Kw(g, c) = Kw(g, b) => ~Encloses(g, c, p)
<1>4. P(b) /\ \A x \in 1..Len(g.lines) : P(x) => x = b
  BY <1>2, <1>3
<1>5. Around(g, Kw(g, b), p) = CHOOSE x \in 1..Len(g.lines) : P(x)
  BY DEF Around
<1> HIDE DEF P
<1> QED
  BY <1>1, <1>4, <1>5

\* In particular that of a line directly in it.
LEMMA AroundInside ==
    ASSUME NEW g, Formed(g), NEW p \in Nat, NEW b, Inside(g, b, p)
    PROVE  Around(g, Kw(g, b), p) = b
<1>1. Kw(g, b) \in Openers /\ Encloses(g, b, p)
  BY DEF Inside, Encloses
<1>2. \A c \in 1..Len(g.lines) : Kw(g, c) = Kw(g, b) /\ Encloses(g, c, p) => c <= b
  BY <1>1, InsideInnermost DEF Encloses
<1> QED
  BY <1>1, <1>2, AroundIs

\* The line that pushed an activation: that of its block, or of its DO.
Place(a) == IF IsCall(a) THEN a.resume - 1 ELSE a.at

Joined(a, b) == In(prog, a, Place(b)) /\ (IsCall(b) => Kw(prog, Place(b)) = "do")

\* Each activation was pushed where the one below it stands.
Chained == \A i \in 1..(Len(stack) - 1) : Joined(stack[i], stack[i + 1])

\* A step that leaves the stack alone,
LEMMA ChainKept ==
    ASSUME Chained, stack' = stack, prog' = prog
    PROVE  Chained'
  BY DEF Chained, Joined, In, Place, IsCall

\* one that pushes what was met on a line of the activation on top,
LEMMA ChainPushed ==
    ASSUME Typed, stack # <<>>, Chained, NEW x \in Activation, Joined(Top, x),
           stack' = Append(stack, x), prog' = prog
    PROVE  Chained' /\ Top' = x /\ stack' # <<>>
<1>1. /\ Len(stack) \in Nat /\ Len(stack) >= 1 /\ Len(stack') = Len(stack) + 1
      /\ \A i \in 1..Len(stack) : stack'[i] = stack[i]
      /\ stack'[Len(stack) + 1] = x /\ stack' # <<>>
  BY AppendFacts, FrontFacts DEF Typed
<1>2. ASSUME NEW i \in 1..(Len(stack') - 1)
      PROVE  Joined(stack'[i], stack'[i + 1])
  <2>1. CASE i = Len(stack)
    BY <1>1, <2>1 DEF Top
  <2>2. CASE i # Len(stack)
    <3>1. i \in 1..(Len(stack) - 1) /\ i \in 1..Len(stack) /\ i + 1 \in 1..Len(stack)
      BY <1>1, <2>2
    <3> QED
      BY <1>1, <3>1 DEF Chained
  <2> QED
    BY <2>1, <2>2
<1> QED
  BY <1>1, <1>2 DEF Chained, Joined, In, Place, IsCall, Top

\* one that pops,
LEMMA ChainPopped ==
    ASSUME Typed, Len(stack) > 1, Chained, stack' = Popped, prog' = prog
    PROVE  /\ Chained' /\ stack' # <<>> /\ Top' \in Activation /\ Joined(Top', Top)
           /\ Top' = stack[Len(stack) - 1]
<1>1. /\ Len(stack) \in Nat /\ stack # <<>>
      /\ stack' \in Seq(Activation) /\ Len(stack') = Len(stack) - 1 /\ stack' # <<>>
      /\ \A i \in 1..(Len(stack) - 1) : stack'[i] = stack[i]
  <2>1. stack \in Seq(Activation) /\ stack # <<>>
    BY EmptySeq DEF Typed
  <2>2. stack' \in Seq(Activation) /\ Len(stack') = Len(stack) - 1 /\ Len(stack) \in Nat
    BY <2>1, FrontFacts DEF Popped
  <2>3. stack' # <<>>
    BY <2>2, EmptySeq
  <2> QED
    BY <2>1, <2>2, <2>3, FrontFacts DEF Popped
<1>2. Top' = stack[Len(stack) - 1]
  BY <1>1 DEF Top
<1>3. Top' \in Activation
  BY <1>1, <1>2, ElementOfSeq DEF Typed
<1>4. Len(stack) - 1 \in 1..(Len(stack) - 1) /\ Len(stack) - 1 + 1 = Len(stack)
  BY <1>1
<1>5. Joined(stack[Len(stack) - 1], Top)
  BY <1>4 DEF Chained, Top
<1>6. ASSUME NEW i \in 1..(Len(stack') - 1)
      PROVE  Joined(stack'[i], stack'[i + 1])
  <2>1. i \in 1..(Len(stack) - 1) /\ i + 1 \in 1..(Len(stack) - 1)
    BY <1>1
  <2> QED
    BY <1>1, <2>1 DEF Chained
<1> QED
  BY <1>1, <1>2, <1>3, <1>5, <1>6 DEF Chained, Joined, In, Place, IsCall

\* and one that changes the mode of a DO CASE keep the chain.
LEMMA ChainSwapped ==
    ASSUME Typed, stack # <<>>, Chained, ~IsCall(Top), NEW x \in Activation, x.kind = Top.kind,
           x.at = Top.at, stack' = Append(Popped, x), prog' = prog
    PROVE  Chained' /\ Top' = x /\ stack' # <<>>
<1>1. /\ Len(stack) \in Nat /\ Len(stack) >= 1 /\ Len(stack') = Len(stack)
      /\ \A i \in 1..(Len(stack) - 1) : stack'[i] = stack[i]
      /\ stack'[Len(stack)] = x /\ stack' # <<>>
  <2>1. /\ stack \in Seq(Activation) /\ Len(stack) \in Nat /\ Len(stack) >= 1
        /\ Popped \in Seq(Activation) /\ Len(Popped) = Len(stack) - 1
        /\ \A i \in 1..(Len(stack) - 1) : Popped[i] = stack[i]
    BY FrontFacts DEF Typed, Popped
  <2>2. /\ stack' \in Seq(Activation) /\ stack' # <<>>
        /\ Len(stack') = Len(Popped) + 1
        /\ \A i \in 1..Len(Popped) : stack'[i] = Popped[i]
        /\ stack'[Len(Popped) + 1] = x
    BY <2>1, AppendFacts
  <2> QED
    BY <2>1, <2>2
<1>2. ASSUME NEW i \in 1..(Len(stack') - 1)
      PROVE  Joined(stack'[i], stack'[i + 1])
  <2>1. /\ i \in 1..(Len(stack) - 1) /\ Joined(stack[i], stack[i + 1]) /\ stack'[i] = stack[i]
    BY <1>1 DEF Chained
  <2>2. CASE i + 1 = Len(stack)
    BY <1>1, <2>1, <2>2 DEF Joined, Place, IsCall, Top
  <2>3. CASE i + 1 # Len(stack)
    <3>1. i + 1 \in 1..(Len(stack) - 1)
      BY <1>1, <2>1, <2>3
    <3> QED
      BY <1>1, <2>1, <3>1
  <2> QED
    BY <2>2, <2>3
<1> QED
  BY <1>1, <1>2 DEF Chained, Joined, In, Place, IsCall, Top

-----------------------------------------------------------------------------
(* The lines to return to *)

CallPlaces(s) == {i \in DOMAIN s : IsCall(s[i])}
RunningCalls(s) == Chosen(s, CallPlaces(s), Len(s))
Resumes(r) == [i \in 1..(Len(r) - 1) |-> r[i + 1].resume]

\* The lines to return to are the resume lines of the running calls but the first.
LEMMA ReturnsOf ==
    /\ stack # <<>> => Returns = Resumes(RunningCalls(stack))
    /\ stack = <<>> => Returns = <<>>
  BY DEF Returns, Resumes, RunningCalls, CallPlaces, Finished

\* The running calls are activations.
LEMMA RunningType ==
    ASSUME NEW s \in Seq(Activation)
    PROVE  RunningCalls(s) \in Seq(Activation) /\ Len(RunningCalls(s)) \in Nat
<1>1. Len(s) \in Nat /\ DOMAIN s = 1..Len(s) /\ \A i \in 1..Len(s) : s[i] \in Activation
  BY LenProperties, ElementOfSeq
<1>2. RunningCalls(s) \in Seq(Activation)
  BY <1>1, ChosenType DEF RunningCalls
<1> QED
  BY <1>2, LenProperties

\* One activation more.
LEMMA RunningAppend ==
    ASSUME NEW s \in Seq(Activation), NEW x \in Activation
    PROVE  RunningCalls(Append(s, x))
             = IF IsCall(x) THEN Append(RunningCalls(s), x) ELSE RunningCalls(s)
<1> DEFINE t == Append(s, x)
           n == Len(s)
<1>1. /\ n \in Nat /\ Len(t) = n + 1 /\ \A i \in 1..n : t[i] = s[i]
      /\ t[n + 1] = x /\ DOMAIN s = 1..n /\ DOMAIN t = 1..(n + 1)
  BY AppendFacts, AppendProperties, LenProperties
<1> HIDE DEF t, n
<1>2. RunningCalls(t) = IF n + 1 \in CallPlaces(t)
                        THEN Append(Chosen(t, CallPlaces(t), n), t[n + 1])
                        ELSE Chosen(t, CallPlaces(t), n)
  BY <1>1, ChosenNext DEF RunningCalls
<1>3. Chosen(t, CallPlaces(t), n) = Chosen(s, CallPlaces(s), n)
  <2>1. \A i \in 1..n : (i \in CallPlaces(t) <=> i \in CallPlaces(s))
                        /\ (i \in CallPlaces(t) => t[i] = s[i])
    BY <1>1 DEF CallPlaces
  <2> QED
    BY <1>1, <2>1, ChosenSame
<1>4. n + 1 \in CallPlaces(t) <=> IsCall(x)
  BY <1>1 DEF CallPlaces
<1>5. Chosen(s, CallPlaces(s), n) = RunningCalls(s)
  BY DEF RunningCalls, n
<1> QED
  BY <1>1, <1>2, <1>3, <1>4, <1>5 DEF t

\* One less.
LEMMA RunningFront ==
    ASSUME NEW s \in Seq(Activation), s # <<>>
    PROVE  RunningCalls(s) = IF IsCall(s[Len(s)])
                             THEN Append(RunningCalls(SubSeq(s, 1, Len(s) - 1)), s[Len(s)])
                             ELSE RunningCalls(SubSeq(s, 1, Len(s) - 1))
<1> DEFINE f == SubSeq(s, 1, Len(s) - 1)
           x == s[Len(s)]
<1>1. /\ Len(s) \in Nat /\ Len(s) >= 1 /\ f \in Seq(Activation) /\ Len(f) = Len(s) - 1
      /\ \A i \in 1..(Len(s) - 1) : f[i] = s[i]
  BY FrontFacts
<1>2. x \in Activation
  BY <1>1, ElementOfSeq
<1> HIDE DEF f, x
<1>3. /\ Append(f, x) \in Seq(Activation) /\ Len(Append(f, x)) = Len(s)
      /\ \A i \in 1..(Len(s) - 1) : Append(f, x)[i] = s[i]
      /\ Append(f, x)[Len(s)] = x
  BY <1>1, <1>2, AppendFacts
<1>4. Append(f, x) = s
  <2>1. \A i \in 1..Len(s) : Append(f, x)[i] = s[i]
    BY <1>1, <1>3 DEF x
  <2> QED
    BY <1>1, <1>3, <2>1, SeqEqual
<1>5. RunningCalls(Append(f, x)) = IF IsCall(x) THEN Append(RunningCalls(f), x) ELSE RunningCalls(f)
  BY <1>1, <1>2, RunningAppend
<1> QED
  BY <1>4, <1>5 DEF f, x

\* The program itself is always among the running calls.
LEMMA RunningSome ==
    ASSUME NEW s \in Seq(Activation), s # <<>>, IsCall(s[1])
    PROVE  Len(RunningCalls(s)) >= 1
<1>1. Len(s) \in Nat /\ Len(s) >= 1 /\ DOMAIN s = 1..Len(s)
      /\ \A i \in 1..Len(s) : s[i] \in Activation
  BY FrontFacts, LenProperties, ElementOfSeq
<1> DEFINE C(m) == Chosen(s, CallPlaces(s), m)
           K == {m \in Nat : m + 1 <= Len(s) => Len(C(m + 1)) >= 1}
<1>2. \A m \in Nat : m <= Len(s) => C(m) \in Seq(Activation) /\ Len(C(m)) \in Nat
  <2>1. ASSUME NEW m \in Nat, m <= Len(s) PROVE C(m) \in Seq(Activation)
    <3>1. \A i \in 1..m : s[i] \in Activation
      BY <1>1, <2>1
    <3> QED
      BY <3>1, ChosenType
  <2> QED
    BY <2>1, LenProperties
<1>3. ASSUME NEW m \in Nat, NEW n, n = m + 1
      PROVE  /\ n \in CallPlaces(s) => C(n) = Append(C(m), s[n])
             /\ n \notin CallPlaces(s) => C(n) = C(m)
  BY <1>3, ChosenNext
<1>4. RunningCalls(s) = C(Len(s))
  BY DEF RunningCalls
<1> HIDE DEF C
<1>5. 0 \in K
  <2>1. 1 \in CallPlaces(s)
    BY <1>1 DEF CallPlaces
  <2>2. C(0 + 1) = Append(C(0), s[1])
    BY <1>3, <2>1
  <2>3. C(0) \in Seq(Activation) /\ s[1] \in Activation /\ Len(C(0)) \in Nat
    BY <1>1, <1>2
  <2>4. Len(C(0 + 1)) = Len(C(0)) + 1
    BY <2>2, <2>3, AppendFacts
  <2> QED
    BY <2>3, <2>4
<1>6. ASSUME NEW m \in Nat, m \in K PROVE m + 1 \in K
  <2> SUFFICES ASSUME m + 1 + 1 <= Len(s) PROVE Len(C(m + 1 + 1)) >= 1
    OBVIOUS
  <2>0. m + 1 \in Nat
    OBVIOUS
  <2>1. /\ Len(C(m + 1)) >= 1 /\ C(m + 1) \in Seq(Activation) /\ Len(C(m + 1)) \in Nat
        /\ s[m + 1 + 1] \in Activation
    BY <1>1, <1>2, <1>6
  <2>2. C(m + 1 + 1) = Append(C(m + 1), s[m + 1 + 1]) \/ C(m + 1 + 1) = C(m + 1)
    BY <1>3, <2>0, Zenon
  <2> QED
    BY <2>1, <2>2, AppendFacts
<1> HIDE DEF K
<1>7. \A m \in Nat : m \in K
  BY <1>5, <1>6, SetInduction
<1>8. Len(s) - 1 \in K
  BY <1>1, <1>7
<1> QED
  BY <1>1, <1>4, <1>8 DEF K

\* One resume line for every call but the first, which is the program.
LEMMA ResumesFacts ==
    ASSUME NEW r \in Seq(Activation), Len(r) >= 1
    PROVE  /\ Resumes(r) \in Seq(Nat) /\ Len(Resumes(r)) = Len(r) - 1
           /\ \A i \in 1..(Len(r) - 1) : Resumes(r)[i] = r[i + 1].resume
<1>1. Len(r) \in Nat /\ \A i \in 1..(Len(r) - 1) : r[i + 1] \in Activation
  BY LenProperties, ElementOfSeq
<1>2. Resumes(r) \in [1..(Len(r) - 1) -> Nat]
  BY <1>1 DEF Resumes, Activation
<1>3. Len(r) - 1 \in Nat
  BY <1>1
<1>4. Resumes(r) \in Seq(Nat) /\ Len(Resumes(r)) = Len(r) - 1
  BY <1>2, <1>3, SeqDef, LenProperties
<1> QED
  BY <1>4 DEF Resumes

\* One more call.
LEMMA ResumesAppend ==
    ASSUME NEW r \in Seq(Activation), Len(r) >= 1, NEW x \in Activation
    PROVE  Resumes(Append(r, x)) = Append(Resumes(r), x.resume)
<1>1. /\ Append(r, x) \in Seq(Activation) /\ Len(Append(r, x)) = Len(r) + 1 /\ Len(r) \in Nat
      /\ \A i \in 1..Len(r) : Append(r, x)[i] = r[i]
      /\ Append(r, x)[Len(r) + 1] = x
  BY AppendFacts
<1>2. /\ Resumes(Append(r, x)) \in Seq(Nat) /\ Len(Resumes(Append(r, x))) = Len(r)
      /\ \A i \in 1..Len(r) : Resumes(Append(r, x))[i] = Append(r, x)[i + 1].resume
  <2> DEFINE a == Append(r, x)
  <2>1. a \in Seq(Activation) /\ Len(a) >= 1 /\ Len(a) - 1 = Len(r)
    BY <1>1
  <2> HIDE DEF a
  <2>2. /\ Resumes(a) \in Seq(Nat) /\ Len(Resumes(a)) = Len(r)
        /\ \A i \in 1..Len(r) : Resumes(a)[i] = a[i + 1].resume
    BY <2>1, ResumesFacts
  <2> QED
    BY <2>2 DEF a
<1>3. /\ Resumes(r) \in Seq(Nat) /\ Len(Resumes(r)) = Len(r) - 1
      /\ \A i \in 1..(Len(r) - 1) : Resumes(r)[i] = r[i + 1].resume
  BY ResumesFacts
<1>4. x.resume \in Nat
  BY DEF Activation
<1>5. /\ Append(Resumes(r), x.resume) \in Seq(Nat)
      /\ Len(Append(Resumes(r), x.resume)) = Len(r)
      /\ \A i \in 1..(Len(r) - 1) : Append(Resumes(r), x.resume)[i] = Resumes(r)[i]
      /\ Append(Resumes(r), x.resume)[Len(r)] = x.resume
  BY <1>1, <1>3, <1>4, AppendFacts
<1>6. \A i \in 1..Len(r) : Resumes(Append(r, x))[i] = Append(Resumes(r), x.resume)[i]
  <2> SUFFICES ASSUME NEW i \in 1..Len(r)
               PROVE  Resumes(Append(r, x))[i] = Append(Resumes(r), x.resume)[i]
    OBVIOUS
  <2>1. CASE i = Len(r)
    BY <1>1, <1>2, <1>5, <2>1
  <2>2. CASE i # Len(r)
    <3>1. i \in 1..(Len(r) - 1) /\ i + 1 \in 1..Len(r)
      BY <1>1, <2>2
    <3> QED
      BY <1>1, <1>2, <1>3, <1>5, <3>1
  <2> QED
    BY <2>1, <2>2
<1> QED
  BY <1>2, <1>5, <1>6, SeqEqual

\* What was appended is last, and what was there is in front of it.
LEMMA AppendFront ==
    ASSUME NEW S, NEW s \in Seq(S), NEW x \in S
    PROVE  /\ Append(s, x) # <<>> /\ Append(s, x)[Len(Append(s, x))] = x
           /\ SubSeq(Append(s, x), 1, Len(Append(s, x)) - 1) = s
<1>1. /\ Append(s, x) \in Seq(S) /\ Append(s, x) # <<>> /\ Len(s) \in Nat
      /\ Len(Append(s, x)) = Len(s) + 1
      /\ \A i \in 1..Len(s) : Append(s, x)[i] = s[i]
      /\ Append(s, x)[Len(s) + 1] = x
  BY AppendFacts
<1> DEFINE a == Append(s, x)
           f == SubSeq(a, 1, Len(a) - 1)
<1>2. a \in Seq(S) /\ a # <<>> /\ Len(a) = Len(s) + 1 /\ \A i \in 1..Len(s) : a[i] = s[i]
  BY <1>1
<1> HIDE DEF a
<1>3. f \in Seq(S) /\ Len(f) = Len(a) - 1 /\ \A i \in 1..(Len(a) - 1) : f[i] = a[i]
  BY <1>2, FrontFacts
<1> HIDE DEF f
<1>4. Len(f) = Len(s) /\ \A i \in 1..Len(s) : f[i] = s[i]
  BY <1>1, <1>2, <1>3
<1>5. f = s
  BY <1>3, <1>4, SeqEqual
<1> QED
  BY <1>1, <1>5 DEF f, a

\* The stack always begins with the program.
LEMMA ProgramRuns ==
    ASSUME IInv, stack # <<>>
    PROVE  /\ Len(RunningCalls(stack)) >= 1 /\ RunningCalls(stack) \in Seq(Activation)
           /\ Returns = Resumes(RunningCalls(stack))
<1>1. IsCall(stack[1])
  BY DEF IInv, Nested, IsCall, CallKinds
<1> QED
  BY <1>1, RunningSome, RunningType, ReturnsOf DEF IInv, Typed

\* The same after the step.
LEMMA ReturnsPrimed ==
    /\ stack' # <<>> => Returns' = Resumes(RunningCalls(stack'))
    /\ stack' = <<>> => Returns' = <<>>
    /\ stack' = stack => Returns' = Returns
<1>1. stack' # <<>> => Returns' = Resumes(RunningCalls(stack'))
  BY DEF Returns, Resumes, RunningCalls, CallPlaces, Finished
<1>2. stack' = <<>> => Returns' = <<>>
  BY DEF Returns, Finished
<1>3. stack' = stack => Returns' = Returns
  BY <1>1, <1>2, ReturnsOf
<1> QED
  BY <1>1, <1>2, <1>3

\* A block that is pushed returns nowhere,
LEMMA ReturnsBlockPushed ==
    ASSUME IInv, stack # <<>>, NEW x \in Activation, ~IsCall(x), stack' = Append(stack, x)
    PROVE  Returns' = Returns
<1>1. stack' # <<>>
  BY AppendFacts DEF IInv, Typed
<1>2. RunningCalls(stack') = RunningCalls(stack)
  BY RunningAppend DEF IInv, Typed
<1> QED
  BY <1>1, <1>2, ReturnsPrimed, ProgramRuns

\* a call behind its DO.
LEMMA ReturnsCallPushed ==
    ASSUME IInv, stack # <<>>, NEW x \in Activation, IsCall(x), stack' = Append(stack, x)
    PROVE  Returns' = Append(Returns, x.resume)
<1>1. stack' # <<>>
  BY AppendFacts DEF IInv, Typed
<1>2. RunningCalls(stack') = Append(RunningCalls(stack), x)
  BY RunningAppend DEF IInv, Typed
<1> QED
  BY <1>1, <1>2, ReturnsPrimed, ProgramRuns, ResumesAppend

\* What is below the innermost activation.
LEMMA PoppedRuns ==
    ASSUME IInv, Len(stack) > 1
    PROVE  /\ Popped \in Seq(Activation) /\ Popped # <<>> /\ Top \in Activation
           /\ RunningCalls(Popped) \in Seq(Activation) /\ Len(RunningCalls(Popped)) >= 1
           /\ RunningCalls(stack) = IF IsCall(Top) THEN Append(RunningCalls(Popped), Top)
                                    ELSE RunningCalls(Popped)
<1>1. /\ Len(stack) \in Nat /\ stack # <<>> /\ stack \in Seq(Activation)
      /\ Popped \in Seq(Activation) /\ Len(Popped) = Len(stack) - 1 /\ Popped # <<>>
      /\ \A i \in 1..(Len(stack) - 1) : Popped[i] = stack[i]
  <2>1. stack \in Seq(Activation) /\ stack # <<>>
    BY EmptySeq DEF IInv, Typed
  <2>2. Popped \in Seq(Activation) /\ Len(Popped) = Len(stack) - 1 /\ Len(stack) \in Nat
    BY <2>1, FrontFacts DEF Popped
  <2>3. Popped # <<>>
    BY <2>2, EmptySeq
  <2> QED
    BY <2>1, <2>2, <2>3, FrontFacts DEF Popped
<1>2. Top \in Activation
  BY <1>1, ElementOfSeq DEF Top
<1>3. IsCall(Popped[1])
  <2>1. stack[1].kind = "tokens"
    BY <1>1 DEF IInv, Nested
  <2> QED
    BY <1>1, <2>1 DEF IsCall, CallKinds
<1>4. RunningCalls(Popped) \in Seq(Activation) /\ Len(RunningCalls(Popped)) >= 1
  BY <1>1, <1>3, RunningSome, RunningType
<1>5. RunningCalls(stack) = IF IsCall(Top) THEN Append(RunningCalls(Popped), Top)
                            ELSE RunningCalls(Popped)
  BY <1>1, RunningFront DEF Popped, Top
<1> QED
  BY <1>1, <1>2, <1>4, <1>5

\* A block that is popped takes no line to return to,
LEMMA ReturnsBlockPopped ==
    ASSUME IInv, Len(stack) > 1, ~IsCall(Top), stack' = Popped
    PROVE  Returns' = Returns
<1>1. stack # <<>>
  BY EmptySeq
<1> QED
  BY <1>1, PoppedRuns, ReturnsPrimed, ProgramRuns

\* a call takes the last,
LEMMA ReturnsCallPopped ==
    ASSUME IInv, Len(stack) > 1, IsCall(Top), stack' = Popped
    PROVE  /\ Returns # <<>> /\ Returns[Len(Returns)] = Top.resume
           /\ Returns' = SubSeq(Returns, 1, Len(Returns) - 1)
<1>1. stack # <<>>
  BY EmptySeq
<1>2. /\ Returns' = Resumes(RunningCalls(Popped)) /\ Top \in Activation
      /\ RunningCalls(Popped) \in Seq(Activation) /\ Len(RunningCalls(Popped)) >= 1
  BY PoppedRuns, ReturnsPrimed
<1>3. Returns = Append(Returns', Top.resume)
  BY <1>1, <1>2, PoppedRuns, ProgramRuns, ResumesAppend
<1>4. Returns' \in Seq(Nat) /\ Top.resume \in Nat
  BY <1>2, ResumesFacts DEF Activation
<1> QED
  BY <1>3, <1>4, AppendFront

\* and the mode of a DO CASE changes none.
LEMMA ReturnsSwapped ==
    ASSUME IInv, Len(stack) > 1, ~IsCall(Top), NEW x \in Activation, ~IsCall(x),
           stack' = Append(Popped, x)
    PROVE  Returns' = Returns
<1>1. stack # <<>>
  BY EmptySeq
<1>2. stack' # <<>> /\ RunningCalls(stack') = RunningCalls(Popped)
  BY PoppedRuns, RunningAppend, AppendFacts
<1> QED
  BY <1>1, <1>2, PoppedRuns, ReturnsPrimed, ProgramRuns

\* The program itself returns nowhere.
LEMMA ReturnsNone ==
    ASSUME IInv, Len(stack) = 1
    PROVE  Returns = <<>>
<1>0. stack \in Seq(Activation)
  BY DEF IInv, Typed
<1>1. stack # <<>> /\ stack \in Seq(Activation)
  BY <1>0, EmptySeq
<1> DEFINE f == SubSeq(stack, 1, Len(stack) - 1)
<1>2. f \in Seq(Activation) /\ Len(f) = 0
  BY <1>1, FrontFacts
<1>3. f = <<>>
  BY <1>2, EmptySeq
<1>4. RunningCalls(<<>>) = <<>>
  BY ChosenZero, EmptySeq DEF RunningCalls
<1>5. RunningCalls(stack) = IF IsCall(stack[Len(stack)]) THEN Append(RunningCalls(f), stack[Len(stack)])
                            ELSE RunningCalls(f)
  BY <1>1, RunningFront
<1>6. stack[Len(stack)] \in Activation
  BY <1>1, ElementOfSeq
<1>7. Len(RunningCalls(stack)) <= 1 /\ Len(RunningCalls(stack)) >= 1
  <2>1. Len(Append(<<>>, stack[Len(stack)])) = 1 /\ Len(<<>>) = 0
    BY <1>6, AppendFacts, EmptySeq
  <2> HIDE DEF f
  <2> QED
    BY <1>1, <1>3, <1>4, <1>5, <2>1, ProgramRuns
<1>8. Returns \in Seq(Nat) /\ Len(Returns) = 0
  <2>1. Len(RunningCalls(stack)) = 1
    BY <1>1, <1>7, RunningType
  <2> QED
    BY <1>1, <2>1, ProgramRuns, ResumesFacts
<1> QED
  BY <1>8, EmptySeq

-----------------------------------------------------------------------------
(* Where control is *)

\* Between the branches of a DO CASE: its line is still that of the DO CASE, or the
\* end of the branch that was taken.
Seeking ==
    /\ Kw(prog, Top.at) = "docase" /\ Encloses(prog, Top.at, cur)
    /\ Top.matched => Kw(prog, line) \in Heads /\ Encloses(prog, Top.at, line)
    /\ ~Top.matched =>
          /\ line = Top.at
          /\ \A c \in Branches(prog, Top.at) : c < cur => Kw(prog, c) = "case"

\* EXIT or LOOP on its way: the activations it left were in no loop around it.
Raised ==
    /\ Kw(prog, line) = status /\ cur = line + 1
    /\ ~IsCall(Top) => Kw(prog, Top.at) = Opener[Top.kind] /\ Encloses(prog, Top.at, line)
    /\ \A w \in 1..Len(prog.lines) :
          Kw(prog, w) = "while" /\ Encloses(prog, w, line) => ~IsCall(Top) /\ w <= Top.at

Here ==
    /\ status = "ok" => IF Dispatching THEN Seeking ELSE line = cur /\ In(prog, Top, cur)
    /\ status \in {"exit", "loop"} => Raised
    /\ status = "return" => Kw(prog, line) = "return"

Live == Tame(prog) /\ ~fellOff /\ ~refused

Sound == Live /\ stack # <<>> => Chained /\ Here

\* What every step may rely on.
Ready == IInv /\ Placed /\ Formed(prog) /\ Live /\ stack # <<>> /\ Chained /\ Here

\* The types the proofs below keep needing.
LEMMA ReadyFacts ==
    ASSUME Ready
    PROVE  /\ Typed /\ cur \in Nat /\ line \in Nat /\ stack \in Seq(Activation)
           /\ Len(stack) \in Nat /\ Len(stack) >= 1 /\ Len(prog.lines) \in Nat
           /\ Top \in Activation /\ Top.at \in Nat /\ Top.resume \in Nat
<1>1. Typed /\ stack \in Seq(Activation) /\ stack # <<>> /\ cur \in Nat
  BY DEF Ready, IInv, Typed
<1>2. Len(stack) \in Nat /\ Len(stack) >= 1
  BY <1>1, FrontFacts
<1>3. Top \in Activation
  BY <1>1, <1>2, ElementOfSeq DEF Top
<1>4. Len(prog.lines) \in Nat /\ line \in Nat
  BY <1>1, ProgramTypes DEF Ready, Placed, Lines
<1> QED
  BY <1>1, <1>2, <1>3, <1>4 DEF Activation

\* What stands in a branch of DO CASE does not look for one.
LEMMA InBody ==
    ASSUME NEW g, NEW a \in Activation, NEW p, In(g, a, p)
    PROVE  ~(a.kind = "case" /\ a.body = "none")
<1> SUFFICES ASSUME a.kind = "case", a.body = "none" PROVE FALSE
  OBVIOUS
<1>1. ~IsCall(a)
  BY DEF IsCall, CallKinds
<1>2. \E c \in Branches(g, a.at) : Kw(g, c) = a.body
  BY <1>1 DEF In
<1> QED
  BY <1>2 DEF Branches

\* Control settles on the line the cursor is at.
LEMMA SettledHere ==
    ASSUME Settle, stack' # <<>>, status' = "ok", prog' = prog, Top' \in Activation,
           In(prog, Top', cur')
    PROVE  line' = cur' /\ Here'
<1>1. ~Dispatching'
  BY InBody DEF Dispatching
<1>2. line' = cur'
  BY <1>1 DEF Settle, Dispatching, Top
<1> QED
  BY <1>1, <1>2 DEF Here, In, IsCall

\* Control is not settled between a status and its handler, nor while DO CASE looks.
LEMMA SettledNot ==
    ASSUME Settle, stack' = <<>> \/ status' # "ok" \/ Dispatching'
    PROVE  line' = line
  BY DEF Settle, Dispatching, Top

-----------------------------------------------------------------------------
(* Steps of Structured *)

\* Control goes to a line of the same call.
LEMMA Going ==
    ASSUME stack # <<>>, stack' # <<>>, prog' = prog, Returns' = Returns, NEW p, line' = p
    PROVE  Intended!Go(p)
<1>1. Finished' = Finished
  BY Zenon DEF Finished
<1> QED
  BY <1>1, Zenon DEF Intended!Go

\* The program is read by the same operators.
LEMMA SameReading ==
    /\ \A g, p : Intended!Kw(g, p) = Kw(g, p) /\ Intended!Name(g, p) = Name(g, p)
    /\ \A g, p : Intended!End(g, p) = End(g, p)
    /\ \A g, p : Intended!ElseOf(g, p) = ElseOf(g, p) /\ Intended!Branches(g, p) = Branches(g, p)
    /\ \A g, kw, p : Intended!Around(g, kw, p) = Around(g, kw, p)
    /\ Intended!Heads = Heads
<1>1. \A g, p : Intended!Kw(g, p) = Kw(g, p) /\ Intended!Name(g, p) = Name(g, p)
  BY DEF Intended!Kw, Kw, Intended!Name, Name
<1>2. \A g, p, q, kws : Intended!Count(g, p, q, kws) = Count(g, p, q, kws)
  <2>1. \A S : Intended!Cardinality(S) = Cardinality(S)
    BY DEF Intended!Cardinality, Cardinality
  <2>2. \A g, p, q, kws : {r \in p..q : Intended!Kw(g, r) \in kws} = {r \in p..q : Kw(g, r) \in kws}
    BY <1>1
  <2> QED
    BY <2>1, <2>2 DEF Intended!Count, Count
<1>3. \A g, p, q, o, c : Intended!Depth(g, p, q, o, c) = Depth(g, p, q, o, c)
  BY <1>2 DEF Intended!Depth, Depth
<1>4. \A g, p, o, c, q : Intended!StopsAt(g, p, o, c, q) <=> StopsAt(g, p, o, c, q)
  BY <1>1, <1>3 DEF Intended!StopsAt, StopsAt
<1>5. \A g, p : Intended!End(g, p) = End(g, p)
  BY <1>4 DEF Intended!End, End, Intended!Openers, Openers, Intended!Closers, Closers
<1>6. \A g, b, p : Intended!Encloses(g, b, p) <=> Encloses(g, b, p)
  BY <1>5 DEF Intended!Encloses, Encloses
<1>7. \A g, b, p : Intended!Directly(g, b, p) <=> Directly(g, b, p)
  BY <1>3, <1>6 DEF Intended!Directly, Directly, Intended!Openers, Openers, Intended!Closers, Closers
<1>8. \A g, p : Intended!ElseOf(g, p) = ElseOf(g, p) /\ Intended!Branches(g, p) = Branches(g, p)
  BY <1>1, <1>7 DEF Intended!ElseOf, ElseOf, Intended!Branches, Branches
<1>9. \A g, kw, p : Intended!Around(g, kw, p) = Around(g, kw, p)
  BY <1>1, <1>6 DEF Intended!Around, Around
<1>10. Intended!Heads = Heads
  BY DEF Intended!Heads, Heads
<1> QED
  BY <1>1, <1>5, <1>8, <1>9, <1>10

\* Structured executes the line control is settled on.
LEMMA Standing ==
    ASSUME stack # <<>>, NEW kws, Kw(prog, line) \in kws
    PROVE  Intended!Here(kws)
  BY SameReading DEF Intended!Here, Finished

\* Nothing that Structured sees changes.
LEMMA Stutters ==
    ASSUME stack # <<>>, stack' # <<>>, prog' = prog, Returns' = Returns, line' = line
    PROVE  UNCHANGED Intended!vars
<1>1. Finished' = Finished
  BY Zenon DEF Finished
<1> QED
  BY <1>1, Zenon DEF Intended!vars

Mapped == Intended!Next \/ UNCHANGED Intended!vars

-----------------------------------------------------------------------------
(* The ends of the blocks *)

\* Outside a DO CASE that looks for its branch the cursor is on a line directly in
\* the innermost block or procedure, and what ends that is what the code looks for.
LEMMA EndsRight ==
    ASSUME Ready, Running, ~Dispatching
    PROVE  /\ line = cur /\ In(prog, Top, cur)
           /\ AtBlockEnd =>
                /\ Top.kind = "then" => \/ Kw(prog, cur) = "else" /\ cur \in ElseOf(prog, Top.at)
                                        \/ Kw(prog, cur) = "endif" /\ cur = End(prog, Top.at)
                /\ Top.kind = "else" => Kw(prog, cur) = "endif" /\ cur = End(prog, Top.at)
                /\ Top.kind = "while" => Kw(prog, cur) = "enddo" /\ cur = End(prog, Top.at)
                /\ Top.kind = "case" => Kw(prog, cur) \in Heads
                /\ IsCall(Top) => Kw(prog, cur) \in {"procedure", "eof"}
           /\ ~AtBlockEnd =>
                Kw(prog, cur) \notin {"else", "procedure", "eof"} \cup Closers \cup Heads
<1>0. /\ Top \in Activation /\ Top.at \in Nat /\ cur \in Nat /\ Formed(prog)
      /\ line = cur /\ In(prog, Top, cur)
  BY ReadyFacts DEF Ready, Here, Running
<1>1. CASE IsCall(Top)
  <2>1. /\ Outside(prog, cur) /\ Top.kind \in {"tokens", "range"}
        /\ Top.kind = "range" => EndsAt(prog, cur, Top.at)
    BY <1>0, <1>1 DEF In, IsCall, CallKinds
  <2>2. Kw(prog, cur) \notin {"else", "case", "otherwise"} \cup Closers
    BY <1>0, <2>1, PartsOutside
  <2>3. Kw(prog, cur) \notin Heads
    BY <2>2 DEF Heads, Closers
  <2>4. Top.kind = "range" /\ Kw(prog, cur) = "procedure" => cur = Top.at
    BY <1>0, <2>1 DEF EndsAt
  <2>5. ~AtBlockEnd => Kw(prog, cur) \notin {"procedure", "eof"}
    <3>1. CASE Top.kind = "tokens"
      <4>1. Top.body \notin {"case", "otherwise"} => (Kw(prog, cur) = "procedure" => AtBlockEnd)
        BY <3>1 DEF AtBlockEnd
      <4> QED
        BY <3>1, <4>1 DEF AtBlockEnd
    <3>2. CASE Top.kind = "range"
      BY <2>4, <3>2 DEF AtBlockEnd
    <3> QED
      BY <2>1, <3>1, <3>2
  <2>6. AtBlockEnd => Kw(prog, cur) \in {"procedure", "eof"}
    BY <2>1, <2>3 DEF AtBlockEnd, Heads
  <2> QED
    BY <1>0, <1>1, <2>1, <2>2, <2>3, <2>5, <2>6
<1>2. CASE ~IsCall(Top)
  <2>1. /\ Kw(prog, Top.at) = Opener[Top.kind] /\ Inside(prog, Top.at, cur)
        /\ Top.kind = "else" => \E e \in ElseOf(prog, Top.at) : e < cur
        /\ Top.kind = "case" => \E c \in Branches(prog, Top.at) : c < cur /\ Kw(prog, c) = Top.body
    BY <1>0, <1>2 DEF In
  <2>2. /\ Kw(prog, cur) \notin {"procedure", "eof"}
        /\ Kw(prog, cur) = "else" => Kw(prog, Top.at) = "if" /\ cur \in ElseOf(prog, Top.at)
        /\ Kw(prog, cur) \in {"case", "otherwise"} =>
              Kw(prog, Top.at) = "docase" /\ cur \in Branches(prog, Top.at)
        /\ Kw(prog, cur) \in Closers =>
              cur = End(prog, Top.at) /\ Kw(prog, cur) = ClosingOf[Kw(prog, Top.at)]
    BY <1>0, <2>1, PartsInside
  <2>3. Top.kind \in Blocks
    BY <1>0, <1>2, OpenerOf
  <2>4. Top.at \in 1..Len(prog.lines)
    BY <1>0, <2>1, EndFacts DEF Inside
  <2>5. CASE Top.kind = "then"
    <3>3. Kw(prog, Top.at) = "if" /\ ClosingOf["if"] = "endif"
      BY <2>1, <2>5 DEF Opener, ClosingOf
    <3>4. AtBlockEnd <=> Kw(prog, cur) \in {"eof", "else", "endif"}
      BY <1>2, <2>5 DEF AtBlockEnd
    <3> QED
      BY <1>0, <1>2, <2>2, <2>5, <3>3, <3>4 DEF Heads, Closers
  <2>6. CASE Top.kind = "else"
    <3>3. Kw(prog, Top.at) = "if" /\ ClosingOf["if"] = "endif"
      BY <2>1, <2>6 DEF Opener, ClosingOf
    <3>4. AtBlockEnd <=> Kw(prog, cur) \in {"eof", "endif"}
      BY <1>2, <2>6 DEF AtBlockEnd
    <3>1. Kw(prog, cur) # "else"
      <4>1. PICK e \in ElseOf(prog, Top.at) : e < cur
        BY <2>1, <2>6
      <4>2. Kw(prog, Top.at) = "if"
        BY <2>1, <2>6 DEF Opener
      <4>3. cur \in ElseOf(prog, Top.at) => cur = e
        BY <1>0, <2>4, <4>1, <4>2 DEF Formed, WellFormed
      <4> QED
        BY <1>0, <2>2, <4>1, <4>3
    <3> QED
      BY <1>0, <1>2, <2>2, <2>6, <3>3, <3>4, <3>1 DEF Heads, Closers
  <2>7. CASE Top.kind = "while"
    <3>3. Kw(prog, Top.at) = "while" /\ ClosingOf["while"] = "enddo"
      BY <2>1, <2>7 DEF Opener, ClosingOf
    <3>4. AtBlockEnd <=> Kw(prog, cur) \in {"eof", "enddo"}
      BY <1>2, <2>7 DEF AtBlockEnd
    <3> QED
      BY <1>0, <1>2, <2>2, <2>7, <3>3, <3>4 DEF Heads, Closers
  <2>8. CASE Top.kind = "case"
    <3>1. PICK c \in Branches(prog, Top.at) : c < cur /\ Kw(prog, c) = Top.body
      BY <2>1, <2>8
    <3>2. Kw(prog, Top.at) = "docase" /\ Top.body \in {"case", "otherwise"}
      BY <2>1, <2>8, <3>1 DEF Opener, Branches
    <3>3. Top.body = "otherwise" => Kw(prog, cur) \notin {"case", "otherwise"}
      <4>1. ASSUME Top.body = "otherwise", cur \in Branches(prog, Top.at)
            PROVE  cur <= c
        BY <1>0, <2>4, <3>1, <3>2, <4>1 DEF Formed, WellFormed
      <4>2. c \in Nat
        BY ReadyFacts DEF Branches
      <4> QED
        BY <1>0, <2>2, <3>1, <4>1, <4>2
    <3> QED
      BY <1>0, <1>2, <2>1, <2>2, <2>8, <3>2, <3>3 DEF AtBlockEnd, Opener, ClosingOf, Heads, Closers
  <2> QED
    BY <2>3, <2>5, <2>6, <2>7, <2>8 DEF Blocks
<1> QED
  BY <1>1, <1>2

-----------------------------------------------------------------------------
(* What the steps have in common *)

Kept == Chained' /\ Here'

\* The next line of the same block.
LEMMA LinePassed ==
    ASSUME Ready, Running, ~Dispatching, Settle, stack' = stack, prog' = prog, status' = "ok",
           cur' = cur + 1, Kw(prog, cur) \notin Openers \cup Closers \cup {"procedure", "eof"}
    PROVE  line' = line + 1 /\ Kept /\ Intended!Go(line + 1)
<1>1. /\ Top \in Activation /\ cur \in Nat /\ Formed(prog) /\ stack # <<>> /\ Chained
      /\ line = cur /\ In(prog, Top, cur)
  BY ReadyFacts, EndsRight DEF Ready
<1>2. In(prog, Top, cur + 1) /\ Top' = Top
  BY <1>1, InNext DEF Top
<1>3. line' = cur' /\ Here'
  BY <1>1, <1>2, SettledHere
<1>4. Chained' /\ Returns' = Returns
  BY <1>1, ChainKept, ReturnsPrimed
<1> QED
  BY <1>1, <1>3, <1>4, Going DEF Kept

\* The line behind a block of the same block.
LEMMA BlockPassed ==
    ASSUME Ready, Running, ~Dispatching, Settle, stack' = stack, prog' = prog, status' = "ok",
           Kw(prog, cur) \in Openers, cur' = End(prog, cur) + 1
    PROVE  Kept /\ Intended!Go(End(prog, line) + 1)
<1>1. /\ Top \in Activation /\ cur \in Nat /\ Formed(prog) /\ stack # <<>> /\ Chained
      /\ line = cur /\ In(prog, Top, cur)
  BY ReadyFacts, EndsRight DEF Ready
<1>2. In(prog, Top, End(prog, cur) + 1) /\ Top' = Top
  BY <1>1, InOver DEF Top
<1>3. line' = cur' /\ Here'
  BY <1>1, <1>2, SettledHere
<1>4. Chained' /\ Returns' = Returns
  BY <1>1, ChainKept, ReturnsPrimed
<1> QED
  BY <1>1, <1>3, <1>4, Going DEF Kept

\* The end of a block that was run: the line behind it, of the block around.
LEMMA BlockLeft ==
    ASSUME Ready, Settle, ~IsCall(Top), Len(stack) > 1, Kw(prog, Top.at) \in Openers,
           stack' = Popped, prog' = prog, status' = "ok", cur' = End(prog, Top.at) + 1
    PROVE  Kept /\ Intended!Go(End(prog, Top.at) + 1)
<1>1. /\ Top \in Activation /\ Top.at \in Nat /\ Formed(prog) /\ stack # <<>> /\ Chained
      /\ Typed /\ IInv
  BY ReadyFacts DEF Ready
<1>2. /\ Chained' /\ stack' # <<>> /\ Top' \in Activation /\ Joined(Top', Top)
  BY <1>1, ChainPopped
<1>3. In(prog, Top', Top.at)
  BY <1>2 DEF Joined, Place
<1>4. In(prog, Top', End(prog, Top.at) + 1)
  BY <1>1, <1>2, <1>3, InOver
<1>5. line' = cur' /\ Here'
  BY <1>1, <1>2, <1>4, SettledHere
<1>6. Returns' = Returns
  BY <1>1, ReturnsBlockPopped
<1> QED
  BY <1>1, <1>2, <1>5, <1>6, Going DEF Kept

\* A block is entered.
LEMMA BlockEntered ==
    ASSUME Ready, Running, ~Dispatching, Settle, NEW k \in Blocks,
           stack' = Append(stack, Block(k, cur)), prog' = prog, status' = "ok",
           In(prog, Block(k, cur), cur')
    PROVE  Kept /\ Intended!Go(cur')
<1>1. /\ Top \in Activation /\ cur \in Nat /\ Formed(prog) /\ stack # <<>> /\ Chained
      /\ line = cur /\ In(prog, Top, cur) /\ Typed /\ IInv
  BY ReadyFacts, EndsRight DEF Ready
<1> DEFINE x == Block(k, cur)
<1>2. x \in Activation /\ x.kind = k /\ x.at = cur
  BY <1>1, PushedType DEF Block, Started
<1>3. ~IsCall(x) /\ Place(x) = cur
  BY <1>2 DEF IsCall, Blocks, CallKinds, Place
<1> HIDE DEF x
<1>4. Joined(Top, x)
  BY <1>1, <1>3 DEF Joined
<1>5. stack' = Append(stack, x) /\ In(prog, x, cur')
  BY DEF x
<1>6. Chained' /\ Top' = x /\ stack' # <<>>
  BY <1>1, <1>2, <1>4, <1>5, ChainPushed
<1>7. line' = cur' /\ Here'
  BY <1>2, <1>5, <1>6, SettledHere
<1>8. Returns' = Returns
  BY <1>1, <1>2, <1>3, <1>5, ReturnsBlockPushed
<1> QED
  BY <1>1, <1>6, <1>7, <1>8, Going DEF Kept

-----------------------------------------------------------------------------
(* The statements *)

\* Away from the end of its block control is at a statement.
LEMMA AtStatement ==
    ASSUME Ready, NEW kws, At(kws)
    PROVE  /\ Running /\ ~Dispatching /\ status = "ok" /\ stack # <<>> /\ line = cur
           /\ Kw(prog, cur) \in kws /\ Kw(prog, line) \in kws /\ In(prog, Top, cur)
           /\ Kw(prog, cur) \notin {"else", "procedure", "eof"} \cup Closers \cup Heads
           /\ cur \in 1..Len(prog.lines)
<1>1. Running /\ ~Dispatching /\ ~AtBlockEnd /\ Kw(prog, cur) \in kws
  BY DEF At
<1>2. Kw(prog, cur) \notin {"else", "procedure", "eof"} \cup Closers \cup Heads
      /\ line = cur /\ In(prog, Top, cur)
  BY <1>1, EndsRight
<1> QED
  BY <1>1, <1>2, LineOfKeyword DEF Running, Ready, Formed

\* A command that leaves the flow of control alone.
LEMMA SimpleMaps ==
    ASSUME Ready, Settle, Simple
    PROVE  Mapped /\ Kept
<1>1. /\ Running /\ ~Dispatching /\ status = "ok" /\ stack # <<>> /\ line = cur
      /\ Kw(prog, cur) \in {"stmt"} \cup {"else", "endif", "enddo", "procedure"} \cup Heads
      /\ Kw(prog, cur) \notin {"else", "procedure", "eof"} \cup Closers \cup Heads
  BY AtStatement DEF Simple
<1>2. Kw(prog, cur) = "stmt"
  BY <1>1 DEF Closers
<1>3. Kept /\ Intended!Go(line + 1)
  BY <1>1, <1>2, LinePassed DEF Simple, Stay, Keep, Openers, Closers
<1>4. Intended!Here({"stmt", "setproc"})
  BY <1>1, <1>2, Standing
<1> QED
  BY <1>3, <1>4 DEF Mapped, Intended!Next, Intended!Simple

\* SET PROCEDURE: Structured knows all procedures anyway.
LEMMA SetProcedureMaps ==
    ASSUME Ready, Settle, SetProcedure
    PROVE  Mapped /\ Kept
<1>1. /\ Running /\ ~Dispatching /\ status = "ok" /\ stack # <<>> /\ line = cur
      /\ Kw(prog, cur) \in {"setproc"}
  BY AtStatement DEF SetProcedure
<1>2. Kept /\ Intended!Go(line + 1)
  BY <1>1, LinePassed DEF SetProcedure, Stay, Openers, Closers
<1>3. Intended!Here({"stmt", "setproc"})
  BY <1>1, Standing
<1> QED
  BY <1>2, <1>3 DEF Mapped, Intended!Next, Intended!Simple

\* The true branch.
LEMMA IfTrueMaps ==
    ASSUME Ready, Settle, IfTrue
    PROVE  Mapped /\ Kept
<1>1. /\ Running /\ ~Dispatching /\ status = "ok" /\ stack # <<>> /\ line = cur
      /\ Kw(prog, cur) = "if" /\ Kw(prog, line) \in {"if"} /\ Formed(prog) /\ Typed
      /\ cur \in Nat
  BY AtStatement, ReadyFacts DEF IfTrue, Ready
<1>2. In(prog, Block("then", cur), cur + 1)
  <2>1. Inside(prog, cur, cur + 1)
    BY <1>1, InsideFirst DEF Openers
  <2> QED
    BY <1>1, <2>1 DEF In, Block, Started, IsCall, CallKinds, Opener
<1>3. Kept /\ Intended!Go(cur')
  BY <1>1, <1>2, BlockEntered DEF IfTrue, Stay, Keep, Blocks
<1>4. Intended!Here({"if"}) /\ cur' = line + 1
  BY <1>1, Standing DEF IfTrue
<1> QED
  BY <1>3, <1>4 DEF Mapped, Intended!Next, Intended!If

\* The ELSE branch of the same IF, or behind its ENDIF: a tame program has no ELSE
\* of another IF on the way.
LEMMA IfFalseMaps ==
    ASSUME Ready, Settle, IfFalse
    PROVE  Mapped /\ Kept
<1>1. /\ Running /\ ~Dispatching /\ status = "ok" /\ stack # <<>> /\ line = cur
      /\ Kw(prog, cur) = "if" /\ Kw(prog, line) \in {"if"} /\ Formed(prog) /\ Typed
      /\ cur \in Nat /\ cur \in 1..Len(prog.lines) /\ Kw(prog, cur) \in Openers
  BY AtStatement, ReadyFacts DEF IfFalse, Ready, Openers
<1>2. PICK q \in 1..Len(prog.lines) :
         /\ StopsAt(prog, cur + 1, Openers, Closers \cup {"else"}, q)
         /\ IF Kw(prog, q) = "else"
            THEN cur' = q + 1 /\ stack' = Append(stack, Block("else", cur))
            ELSE cur' = Consumed(prog, q, "endif") /\ UNCHANGED stack
  BY DEF IfFalse
<1>3. /\ End(prog, cur) \in Nat /\ Kw(prog, End(prog, cur)) = "endif"
      /\ \A e \in ElseOf(prog, cur) : e \in Nat /\ Kw(prog, e) = "else" /\ Inside(prog, cur, e)
  <2>1. /\ End(prog, cur) \in Nat /\ Kw(prog, End(prog, cur)) = ClosingOf["if"]
    BY <1>1, EndFacts
  <2>2. ASSUME NEW e \in ElseOf(prog, cur)
        PROVE  e \in Nat /\ Kw(prog, e) = "else" /\ Inside(prog, cur, e)
    <3>1. e \in Nat /\ Kw(prog, e) = "else" /\ Directly(prog, cur, e)
      BY ReadyFacts DEF ElseOf
    <3> QED
      BY <1>1, <3>1, DirectlyInside DEF Openers, Closers
  <2> QED
    BY <2>1, <2>2 DEF ClosingOf
<1>4. /\ ElseOf(prog, cur) = {} => q = End(prog, cur)
      /\ \A e \in ElseOf(prog, cur) : q = e
  <2>1. ~Misread(prog, cur)
    BY <1>1 DEF Ready, Live, Tame
  <2>2. \A r \in (cur + 1)..End(prog, cur) :
           Kw(prog, r) = "else" =>
             Directly(prog, cur, r) \/ \E e \in ElseOf(prog, cur) : ~(r < e)
    BY <1>1, <2>1 DEF Misread
  <2>3. /\ ElseOf(prog, cur) = {} =>
              StopsAt(prog, cur + 1, Openers, Closers \cup {"else"}, End(prog, cur))
        /\ \A e \in ElseOf(prog, cur) :
              StopsAt(prog, cur + 1, Openers, Closers \cup {"else"}, e)
    BY <1>1, <2>2, IfScan
  <2>4. q \in Int /\ StopsAt(prog, cur + 1, Openers, Closers \cup {"else"}, q)
    BY <1>2
  <2>5. ASSUME NEW r \in Nat, StopsAt(prog, cur + 1, Openers, Closers \cup {"else"}, r)
        PROVE  q = r
    BY <2>4, <2>5, StopsOnce
  <2> QED
    BY <1>3, <2>3, <2>5
<1>5. Intended!Here({"if"}) /\ prog' = prog /\ status' = "ok"
  BY <1>1, Standing DEF IfFalse, Stay, Keep
<1>6. CASE ElseOf(prog, cur) = {}
  <2>1. cur' = End(prog, cur) + 1 /\ stack' = stack
    BY <1>2, <1>3, <1>4, <1>6 DEF Consumed
  <2>2. Kept /\ Intended!Go(End(prog, line) + 1)
    BY <1>1, <1>5, <2>1, BlockPassed
  <2>3. Intended!ElseOf(prog, line) = {} /\ Intended!End(prog, line) = End(prog, line)
    BY <1>1, <1>6, SameReading
  <2> QED
    BY <1>5, <2>2, <2>3 DEF Mapped, Intended!Next, Intended!If
<1>7. ASSUME NEW e \in ElseOf(prog, cur)
      PROVE  Mapped /\ Kept
  <2>1. cur' = e + 1 /\ stack' = Append(stack, Block("else", cur))
    BY <1>2, <1>3, <1>4
  <2>2. In(prog, Block("else", cur), e + 1)
    <3>1. Inside(prog, cur, e + 1) /\ e < e + 1
      BY <1>1, <1>3, InsideNext DEF Openers, Closers
    <3> QED
      BY <1>1, <3>1 DEF In, Block, Started, IsCall, CallKinds, Opener
  <2>3. Kept /\ Intended!Go(cur')
    BY <1>1, <1>5, <2>1, <2>2, BlockEntered DEF Blocks
  <2>4. e \in Intended!ElseOf(prog, line)
    BY <1>1, SameReading
  <2> QED
    BY <1>5, <2>1, <2>3, <2>4 DEF Mapped, Intended!Next, Intended!If
<1> QED
  BY <1>6, <1>7

\* A turn of a loop.
LEMMA WhileTrueMaps ==
    ASSUME Ready, Settle, WhileTrue
    PROVE  Mapped /\ Kept
<1>1. /\ Running /\ ~Dispatching /\ status = "ok" /\ stack # <<>> /\ line = cur
      /\ Kw(prog, cur) = "while" /\ Kw(prog, line) \in {"while"} /\ Formed(prog) /\ Typed
      /\ cur \in Nat
  BY AtStatement, ReadyFacts DEF WhileTrue, Ready
<1>2. In(prog, Block("while", cur), cur + 1)
  <2>1. Inside(prog, cur, cur + 1)
    BY <1>1, InsideFirst DEF Openers
  <2> QED
    BY <1>1, <2>1 DEF In, Block, Started, IsCall, CallKinds, Opener
<1>3. Kept /\ Intended!Go(cur')
  BY <1>1, <1>2, BlockEntered DEF WhileTrue, Stay, Blocks
<1>4. Intended!Here({"while"}) /\ cur' = line + 1
  BY <1>1, Standing DEF WhileTrue
<1> QED
  BY <1>3, <1>4 DEF Mapped, Intended!Next, Intended!While

\* The scan for the end of a loop finds it, from every line of the loop that is in
\* no loop inside.
LEMMA LoopSkipped ==
    ASSUME Ready, NEW b, Kw(prog, b) = "while", NEW p \in Nat, b < p, p <= End(prog, b),
           \A w \in 1..Len(prog.lines) :
              Kw(prog, w) = "while" /\ w < p /\ p <= End(prog, w) => w <= b,
           SkipLoop(p)
    PROVE  cur' = End(prog, b) + 1
<1>1. PICK q \in 1..Len(prog.lines) : /\ StopsAt(prog, p, {"while"}, {"enddo"}, q)
                                      /\ cur' = Consumed(prog, q, "enddo")
  BY DEF SkipLoop
<1>2. StopsAt(prog, p, {"while"}, {"enddo"}, End(prog, b))
  BY LoopScan DEF Ready
<1>3. /\ End(prog, b) \in Nat /\ Kw(prog, End(prog, b)) = "enddo"
  <2>1. Kw(prog, b) \in Openers /\ ClosingOf["while"] = "enddo"
    BY DEF Openers, ClosingOf
  <2> QED
    BY <2>1, EndFacts DEF Ready
<1>4. q = End(prog, b)
  BY <1>1, <1>2, <1>3, StopsOnce
<1> QED
  BY <1>1, <1>3, <1>4 DEF Consumed

\* Behind the ENDDO of the same loop.
LEMMA WhileFalseMaps ==
    ASSUME Ready, Settle, WhileFalse
    PROVE  Mapped /\ Kept
<1>1. /\ Running /\ ~Dispatching /\ status = "ok" /\ stack # <<>> /\ line = cur
      /\ Kw(prog, cur) = "while" /\ Kw(prog, line) \in {"while"} /\ Formed(prog) /\ Typed
      /\ cur \in Nat /\ Kw(prog, cur) \in Openers
  BY AtStatement, ReadyFacts DEF WhileFalse, Ready, Openers
<1>2. Inside(prog, cur, cur + 1)
  BY <1>1, InsideFirst
<1>4. cur < cur + 1 /\ cur + 1 <= End(prog, cur) /\ cur + 1 \in Nat
  BY <1>1, <1>2 DEF Inside
<1>5. \A w \in 1..Len(prog.lines) :
         Kw(prog, w) = "while" /\ w < cur + 1 /\ cur + 1 <= End(prog, w) => w <= cur
  BY <1>1
<1>6. SkipLoop(cur + 1)
  BY DEF WhileFalse
<1>7. cur' = End(prog, cur) + 1
  BY <1>1, <1>4, <1>5, <1>6, LoopSkipped
<1>8. Kept /\ Intended!Go(End(prog, line) + 1)
  BY <1>1, <1>7, BlockPassed DEF WhileFalse, Stay, Keep
<1>9. Intended!Here({"while"}) /\ Intended!End(prog, line) = End(prog, line)
  BY <1>1, Standing, SameReading
<1> QED
  BY <1>8, <1>9 DEF Mapped, Intended!Next, Intended!While

\* DO CASE looks for its branch: Structured is still at its line.
LEMMA DoCaseMaps ==
    ASSUME Ready, Settle, DoCase
    PROVE  Mapped /\ Kept
<1>1. /\ Running /\ ~Dispatching /\ status = "ok" /\ stack # <<>> /\ line = cur
      /\ Kw(prog, cur) = "docase" /\ Formed(prog) /\ Typed /\ IInv /\ In(prog, Top, cur)
      /\ cur \in Nat /\ Kw(prog, cur) \in Openers /\ Chained
  BY AtStatement, ReadyFacts DEF DoCase, Ready, Openers
<1> DEFINE x == Block("case", cur)
<1>2. /\ x \in Activation /\ x.kind = "case" /\ x.at = cur /\ x.body = "none" /\ ~x.matched
      /\ ~IsCall(x) /\ Place(x) = cur
  BY <1>1, PushedType DEF Block, Started, IsCall, Blocks, CallKinds, Place
<1>3. stack' = Append(stack, x) /\ prog' = prog /\ status' = "ok" /\ cur' = cur + 1
  BY <1>1 DEF DoCase, Keep, Stay
<1> HIDE DEF x
<1>4. Chained' /\ Top' = x /\ stack' # <<>>
  BY <1>1, <1>2, <1>3, ChainPushed DEF Joined
<1>5. Dispatching' /\ line' = line
  BY <1>2, <1>4, SettledNot DEF Dispatching
<1>6. Seeking'
  <2>1. cur < cur + 1 /\ cur + 1 <= End(prog, cur)
    BY <1>1, InsideFirst DEF Inside
  <2>2. \A c \in Branches(prog, cur) : c < cur + 1 => FALSE
    <3>1. \A c \in Branches(prog, cur) : c \in Nat /\ cur < c
      BY ReadyFacts DEF Branches, Directly, Encloses
    <3> QED
      BY <1>1, <3>1
  <2> QED
    BY <1>1, <1>2, <1>3, <1>4, <1>5, <2>1, <2>2 DEF Seeking, Encloses
<1>7. Kept
  BY <1>3, <1>4, <1>5, <1>6 DEF Kept, Here
<1>8. Returns' = Returns
  BY <1>1, <1>2, <1>3, ReturnsBlockPushed
<1> QED
  BY <1>1, <1>3, <1>4, <1>5, <1>7, <1>8, Stutters DEF Mapped

\* A status is raised: Structured is still at the line that raised it.
LEMMA RaiseMaps ==
    ASSUME Ready, Settle, Raise
    PROVE  Mapped /\ Kept
<1>1. /\ Running /\ ~Dispatching /\ status = "ok" /\ stack # <<>> /\ line = cur
      /\ Kw(prog, cur) \in {"exit", "loop"} /\ Formed(prog) /\ In(prog, Top, cur)
      /\ cur \in Nat /\ Chained /\ Top \in Activation
  BY AtStatement, ReadyFacts DEF Raise, Ready
<1>2. stack' = stack /\ prog' = prog /\ status' = Kw(prog, cur) /\ cur' = cur + 1
  BY DEF Raise, Keep
<1>3. line' = line /\ Top' = Top
  BY <1>1, <1>2, SettledNot DEF Top
<1>4. Chained' /\ Returns' = Returns
  BY <1>1, <1>2, ChainKept, ReturnsPrimed
<1>5. ~IsCall(Top) => Kw(prog, Top.at) = Opener[Top.kind] /\ Inside(prog, Top.at, cur)
  BY <1>1 DEF In
<1>6. ASSUME NEW w \in 1..Len(prog.lines), Kw(prog, w) = "while", Encloses(prog, w, cur)
      PROVE  ~IsCall(Top) /\ w <= Top.at
  <2>1. Kw(prog, w) \in Openers
    BY <1>6 DEF Openers
  <2>2. CASE IsCall(Top)
    BY <1>1, <1>6, <2>1, <2>2 DEF In, Outside
  <2>3. CASE ~IsCall(Top)
    BY <1>1, <1>5, <1>6, <2>1, <2>3, InsideInnermost DEF Encloses
  <2> QED
    BY <2>2, <2>3
<1>7. Raised'
  <2>1. ~IsCall(Top) => Encloses(prog, Top.at, cur)
    BY <1>5 DEF Inside, Encloses
  <2> QED
    BY <1>1, <1>2, <1>3, <1>5, <1>6, <2>1 DEF Raised, IsCall
<1>8. Kept
  BY <1>1, <1>2, <1>4, <1>7 DEF Kept, Here
<1> QED
  BY <1>1, <1>2, <1>3, <1>4, <1>8, Stutters DEF Mapped

\* RETURN is raised: the line stays that of the RETURN.
LEMMA ReturnMaps ==
    ASSUME Ready, Settle, Return
    PROVE  Mapped /\ Kept
<1>1. /\ stack # <<>> /\ line = cur /\ Kw(prog, cur) = "return" /\ Chained
  BY AtStatement DEF Return, Ready
<1>2. stack' = stack /\ prog' = prog /\ status' = "return"
  BY DEF Return
<1>3. line' = line
  BY <1>2, SettledNot
<1>4. Chained' /\ Returns' = Returns
  BY <1>1, <1>2, ChainKept, ReturnsPrimed
<1>5. Kept
  BY <1>1, <1>2, <1>3, <1>4 DEF Kept, Here
<1> QED
  BY <1>1, <1>2, <1>3, <1>4, <1>5, Stutters DEF Mapped

\* The program ends.
LEMMA CancelMaps ==
    ASSUME Ready, Settle, Cancel
    PROVE  Mapped /\ stack' = <<>>
<1>1. /\ stack # <<>> /\ line = cur /\ Kw(prog, line) \in {"cancel"}
  BY AtStatement DEF Cancel
<1>2. stack' = <<>> /\ prog' = prog
  BY DEF Cancel, Keep
<1>3. line' = line /\ Returns' = <<>>
  BY <1>2, SettledNot, ReturnsPrimed
<1>4. Finished' = TRUE
  BY <1>2 DEF Finished
<1>5. Intended!Here({"cancel"})
  BY <1>1, Standing
<1> QED
  BY <1>2, <1>3, <1>4, <1>5 DEF Mapped, Intended!Next, Intended!Cancel

\* The procedures of the first file stay known if they all fit and none is forgotten.
AllKnown ==
    (\A s \in 1..Len(prog.lines) : Kw(prog, s) # "setproc") /\ Len(Scanned(prog, 1)) <= MaxProcs =>
        \A i \in DOMAIN Scanned(prog, 1) :
            \E j \in DOMAIN registry : registry[j] = Scanned(prog, 1)[i]

\* What is known stays in place, and an empty registry takes all that fit.
LEMMA RegisterKeeps ==
    ASSUME NEW S, NEW known \in Seq(S), Len(known) <= MaxProcs, NEW new \in Seq(S)
    PROVE  /\ \A i \in DOMAIN known : /\ i \in DOMAIN Register(known, new)
                                      /\ Register(known, new)[i] = known[i]
           /\ known = <<>> /\ Len(new) <= MaxProcs => Register(known, new) = new
<1> DEFINE room == IF MaxProcs - Len(known) < Len(new) THEN MaxProcs - Len(known)
                   ELSE Len(new)
<1>1. /\ room \in Int /\ room >= 0 /\ room <= Len(new)
      /\ Len(new) \in Nat /\ Len(known) \in Nat /\ 1 \in Int
  BY BoundsAssumption, LenProperties
<1>2. Register(known, new) = known \o SubSeq(new, 1, room)
  BY DEF Register
<1>3. known = <<>> /\ Len(new) <= MaxProcs => room = Len(new)
  BY <1>1, BoundsAssumption, EmptySeq
<1> HIDE DEF room
<1>4. \A i \in 1..room : new[i] \in S
  BY <1>1, ElementOfSeq
<1>5. /\ SubSeq(new, 1, room) \in Seq(S) /\ Len(SubSeq(new, 1, room)) = room
      /\ \A i \in 1..room : SubSeq(new, 1, room)[i] = new[i]
  BY <1>1, <1>4, SubSeqProperties
<1>6. /\ Register(known, new) \in Seq(S)
      /\ Len(Register(known, new)) = Len(known) + room
      /\ \A i \in 1..Len(known) : Register(known, new)[i] = known[i]
      /\ \A i \in 1..room : Register(known, new)[Len(known) + i] = SubSeq(new, 1, room)[i]
  <2> DEFINE t == SubSeq(new, 1, room)
  <2>1. t \in Seq(S) /\ Len(t) = room
    BY <1>5
  <2> HIDE DEF t
  <2>2. /\ known \o t \in Seq(S) /\ Len(known \o t) = Len(known) + Len(t)
        /\ \A i \in 1..(Len(known) + Len(t)) :
              (known \o t)[i] = IF i <= Len(known) THEN known[i] ELSE t[i - Len(known)]
    BY <2>1, ConcatProperties
  <2>3. /\ \A i \in 1..Len(known) : (known \o t)[i] = known[i]
        /\ \A i \in 1..room : (known \o t)[Len(known) + i] = t[i]
    BY <1>1, <2>1, <2>2
  <2> QED
    BY <1>2, <2>1, <2>2, <2>3 DEF t
<1>7. ASSUME NEW i \in DOMAIN known
      PROVE  i \in DOMAIN Register(known, new) /\ Register(known, new)[i] = known[i]
  <2>1. i \in 1..Len(known) /\ DOMAIN Register(known, new) = 1..(Len(known) + room)
    BY <1>6, LenProperties
  <2> QED
    BY <1>1, <1>6, <2>1
<1>8. ASSUME known = <<>>, Len(new) <= MaxProcs
      PROVE  Register(known, new) = new
  <2>1. Len(known) = 0 /\ room = Len(new)
    BY <1>3, <1>8, EmptySeq
  <2>2. Len(Register(known, new)) = Len(new)
    BY <1>1, <1>6, <2>1
  <2>3. \A i \in 1..Len(new) : Register(known, new)[i] = new[i]
    <3> SUFFICES ASSUME NEW i \in 1..Len(new) PROVE Register(known, new)[i] = new[i]
      OBVIOUS
    <3>1. i \in 1..room /\ Len(known) + i = i
      BY <1>1, <2>1
    <3>2. Register(known, new)[Len(known) + i] = SubSeq(new, 1, room)[i]
      BY <1>6, <3>1
    <3> QED
      BY <1>5, <3>1, <3>2
  <2> QED
    BY <1>6, <2>2, <2>3, SeqEqual
<1> QED
  BY <1>7, <1>8

\* A name that is not known is that of no procedure.
LEMMA UnknownNone ==
    ASSUME Ready, AllKnown, CallsKnown(prog), Kw(prog, cur) = "do", line = cur, NEW known,
           \A j \in DOMAIN registry : \E i \in DOMAIN known : known[i] = registry[j],
           Unknown(known, Name(prog, cur))
    PROVE  Intended!Bodies(Name(prog, line)) = {}
<1>1. ASSUME NEW p \in 1..Len(prog.lines), Kw(prog, p) = "procedure",
             Name(prog, p) = Name(prog, cur)
      PROVE  FALSE
  <2>1. cur \in 1..Len(prog.lines)
    BY LineOfKeyword DEF Ready, Formed
  <2>2. /\ \A s \in 1..Len(prog.lines) : Kw(prog, s) # "setproc"
        /\ Len(Scanned(prog, 1)) <= MaxProcs
        /\ \E i \in DOMAIN Scanned(prog, 1) : Name(prog, Scanned(prog, 1)[i]) = Name(prog, cur)
    BY <1>1, <2>1 DEF CallsKnown
  <2>3. PICK i \in DOMAIN Scanned(prog, 1) : Name(prog, Scanned(prog, 1)[i]) = Name(prog, cur)
    BY <2>2
  <2>4. PICK j \in DOMAIN registry : registry[j] = Scanned(prog, 1)[i]
    BY <2>2 DEF AllKnown
  <2>5. PICK k \in DOMAIN known : known[k] = registry[j]
    OBVIOUS
  <2> QED
    BY <2>3, <2>4, <2>5 DEF Unknown
<1> QED
  BY <1>1, SameReading DEF Intended!Bodies

\* A procedure or a file begins: it is to run to the next procedure.
LEMMA BodyEntered ==
    ASSUME Ready, Settle, At({"do"}), NEW kind \in CallKinds, NEW start \in Nat,
           Outside(prog, start),
           kind = "range" => \A s \in 1..Len(prog.lines) : Kw(prog, s) = "setproc" => s < start,
           RunBody(kind, start), prog' = prog, status' = status
    PROVE  /\ Kept /\ line' = start /\ stack' # <<>>
           /\ Returns' = Append(Returns, line + 1)
<1>1. /\ stack # <<>> /\ line = cur /\ Kw(prog, cur) = "do" /\ status = "ok" /\ Typed /\ IInv
      /\ In(prog, Top, cur) /\ cur \in Nat /\ Chained /\ Formed(prog)
  BY AtStatement, ReadyFacts DEF Ready
<1>2. PICK q \in 1..Len(prog.lines) :
         /\ StopsAt(prog, start, {}, {"procedure", "setproc"}, q)
         /\ stack' = Append(stack, Call(kind, q, ReturnPoint(cur)))
  BY DEF RunBody
<1>3. cur' = start
  BY DEF RunBody
<1> DEFINE x == Call(kind, q, cur + 1)
<1>4. /\ x \in Activation /\ x.kind = kind /\ x.resume = cur + 1 /\ x.at = q
      /\ IsCall(x) /\ Place(x) = cur
  <2>1. q \in Nat /\ cur + 1 \in Nat /\ kind \in Blocks \cup CallKinds
    BY <1>1
  <2>2. /\ x \in Activation /\ x.kind = kind /\ x.resume = cur + 1
    BY <1>1, <2>1, PushedType
  <2>3. x.at = q
    BY DEF Call, Started
  <2> HIDE DEF x
  <2> QED
    BY <1>1, <2>2, <2>3 DEF IsCall, Place
<1>5. stack' = Append(stack, x)
  BY <1>2 DEF ReturnPoint
<1> HIDE DEF x
<1>6. Chained' /\ Top' = x /\ stack' # <<>>
  BY <1>1, <1>4, <1>5, ChainPushed DEF Joined
<1>7. In(prog, x, start)
  <2>1. ASSUME kind = "range" PROVE EndsAt(prog, start, q)
    <3>1. /\ start <= q /\ q \in Nat
          /\ \A r \in start..(q - 1) : Kw(prog, r) \notin {"procedure", "setproc", "eof"}
          /\ Kw(prog, q) \in {"procedure", "setproc", "eof"}
      BY <1>2, FlatScan
    <3>2. Kw(prog, q) # "setproc"
      BY <2>1, <3>1
    <3> QED
      BY <3>1, <3>2 DEF EndsAt
  <2> QED
    BY <1>4, <2>1 DEF In
<1>8. line' = start /\ Here'
  BY <1>1, <1>3, <1>4, <1>6, <1>7, SettledHere
<1>9. Returns' = Append(Returns, line + 1)
  BY <1>1, <1>4, <1>5, ReturnsCallPushed
<1> QED
  BY <1>6, <1>8, <1>9 DEF Kept

\* A procedure that is found is one of the name; nothing hides where it ends.
LEMMA ProcedureFound ==
    ASSUME Ready, Kw(prog, cur) = "do", line = cur, NEW known \in Seq(Procedures), NEW p,
           Finds(known, Name(prog, cur), p)
    PROVE  /\ p \in Intended!Bodies(Name(prog, line)) /\ p + 1 \in Nat /\ Outside(prog, p + 1)
           /\ \A s \in 1..Len(prog.lines) : Kw(prog, s) = "setproc" => s < p + 1
<1>1. p \in Procedures /\ Name(prog, p) = Name(prog, cur)
  BY ElementOfSeq DEF Finds
<1>2. /\ p \in 1..Len(prog.lines) /\ Kw(prog, p) = "procedure" /\ p \in Nat
      /\ Len(prog.lines) \in Nat
  BY <1>1, ReadyFacts DEF Procedures
<1>3. Outside(prog, p) /\ Outside(prog, p + 1)
  BY <1>2, ProcedureOutside, OutsideNext DEF Ready, Openers
<1>4. ASSUME NEW s \in 1..Len(prog.lines), Kw(prog, s) = "setproc"
      PROVE  s < p + 1
  <2>1. ~Misread(prog, s)
    BY DEF Ready, Live, Tame
  <2>2. ~(Name(prog, s) \in DOMAIN prog.files => p < prog.files[Name(prog, s)])
    BY <1>2, <1>4, <2>1 DEF Misread
  <2>3. s < prog.files[Name(prog, s)] /\ prog.files[Name(prog, s)] \in 1..Len(prog.lines)
    BY <1>4, <2>2, SetProcAssumption DEF Ready, IInv, Typed, Formed, IsProgram
  <2> QED
    BY <1>2, <2>2, <2>3
<1>5. p \in Intended!Bodies(Name(prog, line))
  BY <1>1, <1>2, SameReading DEF Intended!Bodies
<1> QED
  BY <1>2, <1>3, <1>4, <1>5

\* A DO finds the procedure of the name, or the file where there is none.
LEMMA DoMaps ==
    ASSUME Ready, Settle, Do, AllKnown, CallsKnown(prog)
    PROVE  Mapped /\ Kept
<1> DEFINE name == Name(prog, cur)
<1>1. /\ Running /\ ~Dispatching /\ status = "ok" /\ stack # <<>> /\ line = cur
      /\ Kw(prog, cur) = "do" /\ Kw(prog, line) \in {"do"} /\ At({"do"})
  BY AtStatement DEF Do
<1>2. prog' = prog /\ status' = status /\ Intended!Here({"do"})
  BY <1>1, Standing DEF Do, Stay
<1>3. /\ registry \in Seq(Procedures) /\ Len(registry) <= MaxProcs /\ Formed(prog) /\ IInv
      /\ Placed
  BY DEF Ready, Placed, Known
<1>4. Intended!Name(prog, line) = name
  BY <1>1, SameReading
<1>5. ASSUME NEW known \in Seq(Procedures),
             NEW p \in 1..Len(prog.lines), Finds(known, name, p), RunBody("range", p + 1)
      PROVE  Mapped /\ Kept
  <2>1. /\ p \in Intended!Bodies(name) /\ p + 1 \in Nat /\ Outside(prog, p + 1)
        /\ \A s \in 1..Len(prog.lines) : Kw(prog, s) = "setproc" => s < p + 1
    BY <1>1, <1>5, ProcedureFound
  <2>2. Kept /\ line' = p + 1 /\ stack' # <<>> /\ Returns' = Append(Returns, line + 1)
    BY <1>1, <1>2, <1>5, <2>1, BodyEntered DEF CallKinds
  <2>3. Finished' = Finished
    BY <1>1, <2>2, Zenon DEF Finished
  <2> QED
    BY <1>2, <1>4, <2>1, <2>2, <2>3 DEF Mapped, Intended!Next, Intended!Do
<1>6. CASE \E p \in 1..Len(prog.lines) : Finds(registry, name, p) /\ RunBody("range", p + 1)
  BY <1>3, <1>5, <1>6
<1>7. CASE /\ Unknown(registry, name) /\ name \in DOMAIN prog.files
           /\ registry' = Register(registry, Scanned(prog, prog.files[name]))
           /\ \/ \E p \in 1..Len(prog.lines) : /\ Finds(registry', name, p)
                                                 /\ RunBody("range", p + 1)
              \/ Unknown(registry', name) /\ RunBody("tokens", prog.files[name])
  <2>1. prog.files[name] \in 1..Len(prog.lines) /\ prog.files[name] \in Nat
    BY <1>3, <1>7, ReadyFacts DEF Formed, IsProgram
  <2>2. Scanned(prog, prog.files[name]) \in Seq(Procedures)
    BY <1>3, <2>1, ScannedType DEF IInv
  <2>3. registry' \in Seq(Procedures)
    BY <1>3, <1>7, <2>2, RegisterType
  <2>4. \A j \in DOMAIN registry : j \in DOMAIN registry' /\ registry'[j] = registry[j]
    BY <1>3, <1>7, <2>2, RegisterKeeps
  <2>5. CASE \E p \in 1..Len(prog.lines) : Finds(registry', name, p) /\ RunBody("range", p + 1)
    BY <1>5, <2>3, <2>5
  <2>6. CASE Unknown(registry', name) /\ RunBody("tokens", prog.files[name])
    <3>1. Intended!Bodies(name) = {}
      BY <1>1, <2>4, <2>6, UnknownNone
    <3>2. Outside(prog, prog.files[name])
      <4>1. Kw(prog, prog.files[name] - 1) = "eof"
        BY <1>3, <1>7 DEF Formed, WellFormed
      <4> QED
        BY <1>3, <2>1, <4>1, FileOutside
    <3>3. /\ Kept /\ line' = prog.files[name] /\ stack' # <<>>
          /\ Returns' = Append(Returns, line + 1)
      BY <1>1, <1>2, <2>1, <2>6, <3>2, BodyEntered DEF CallKinds
    <3>4. Finished' = Finished
      BY <1>1, <3>3, Zenon DEF Finished
    <3> QED
      BY <1>2, <1>4, <1>7, <3>1, <3>3, <3>4 DEF Mapped, Intended!Next, Intended!Do
  <2> QED
    BY <1>7, <2>5, <2>6
<1>8. CASE /\ Unknown(registry, name) /\ name \notin DOMAIN prog.files
           /\ cur' = ReturnPoint(cur) /\ stack' = stack
  <2>1. Intended!Bodies(name) = {}
    BY <1>1, <1>8, UnknownNone
  <2>2. Kept /\ Intended!Go(line + 1)
    BY <1>1, <1>2, <1>8, LinePassed DEF ReturnPoint, Openers, Closers
  <2> QED
    BY <1>2, <1>4, <1>8, <2>1, <2>2 DEF Mapped, Intended!Next, Intended!Do, Intended!Go
<1> QED
  BY <1>6, <1>7, <1>8 DEF Do

-----------------------------------------------------------------------------
(* The ends of the blocks and of the procedures *)

\* At the end of a block control is directly in it.
LEMMA BlockEnds ==
    ASSUME Ready, NEW k \in Blocks, Ending({k})
    PROVE  /\ line = cur /\ In(prog, Top, cur) /\ AtBlockEnd /\ Running /\ ~Dispatching
           /\ status = "ok" /\ Top.kind = k /\ ~IsCall(Top) /\ Len(stack) > 1
           /\ Kw(prog, Top.at) = Opener[k] /\ Inside(prog, Top.at, cur)
           /\ Kw(prog, Top.at) \in Openers
           /\ Around(prog, Kw(prog, Top.at), line) = Top.at
<1>1. Running /\ ~Dispatching /\ AtBlockEnd /\ Top.kind = k
  BY DEF Ending
<1>2. line = cur /\ In(prog, Top, cur)
  BY <1>1, EndsRight
<1>3. ~IsCall(Top)
  BY <1>1 DEF IsCall, Blocks, CallKinds
<1>4. Len(stack) > 1
  BY <1>1, BlockOnTop DEF Ready, IInv, Running
<1>5. Kw(prog, Top.at) = Opener[k] /\ Inside(prog, Top.at, cur)
  BY <1>1, <1>2, <1>3 DEF In
<1>6. Around(prog, Kw(prog, Top.at), line) = Top.at
  BY <1>2, <1>5, ReadyFacts, AroundInside DEF Ready
<1> QED
  BY <1>1, <1>2, <1>3, <1>4, <1>5, <1>6 DEF Running, Inside

\* Behind the true branch: past the ENDIF of the same IF.
LEMMA EndThenMaps ==
    ASSUME Ready, Settle, EndThen
    PROVE  Mapped /\ Kept
<1>1. /\ line = cur /\ In(prog, Top, cur) /\ AtBlockEnd /\ Running /\ ~Dispatching
      /\ status = "ok" /\ Top.kind = "then" /\ ~IsCall(Top) /\ Len(stack) > 1
      /\ Kw(prog, Top.at) = "if" /\ Inside(prog, Top.at, cur) /\ Kw(prog, Top.at) \in Openers
      /\ Around(prog, "if", line) = Top.at
  BY BlockEnds DEF EndThen, Blocks, Opener
<1>2. stack # <<>> /\ Formed(prog) /\ cur \in Nat
  BY <1>1, ReadyFacts DEF Ready
<1>3. /\ End(prog, Top.at) \in Nat /\ Kw(prog, End(prog, Top.at)) = "endif"
  BY <1>1, <1>2, EndFacts DEF ClosingOf
<1>4. cur' = End(prog, Top.at) + 1 /\ Kw(prog, line) \in {"else", "endif"}
      /\ (Kw(prog, line) = "endif" => line = End(prog, Top.at))
  <2>1. CASE Kw(prog, cur) = "else"
    <3>1. PICK q \in 1..Len(prog.lines) : /\ StopsAt(prog, cur + 1, Openers, Closers, q)
                                          /\ cur' = Consumed(prog, q, "endif")
      BY <2>1 DEF EndThen
    <3>2. Inside(prog, Top.at, cur + 1)
      BY <1>1, <1>2, <2>1, InsideNext DEF Openers, Closers
    <3>3. StopsAt(prog, cur + 1, Openers, Closers, End(prog, Top.at))
      BY <1>2, <3>2, BlockScan
    <3>4. q = End(prog, Top.at)
      BY <1>3, <3>1, <3>3, StopsOnce
    <3> QED
      BY <1>1, <1>3, <2>1, <3>1, <3>4 DEF Consumed
  <2>2. CASE Kw(prog, cur) = "endif" /\ cur = End(prog, Top.at)
    BY <1>1, <2>2 DEF EndThen, Consumed
  <2> QED
    BY <1>1, <2>1, <2>2, EndsRight
<1>5. stack' = Popped /\ prog' = prog /\ status' = "ok"
  BY <1>1 DEF EndThen, Keep, Stay
<1>6. Kept /\ Intended!Go(End(prog, Top.at) + 1)
  BY <1>1, <1>4, <1>5, BlockLeft
<1>7. Intended!End(prog, Intended!Around(prog, "if", line)) = End(prog, Top.at)
  BY <1>1, SameReading
<1>8. CASE Kw(prog, line) = "else"
  <2>1. Intended!Here({"else"})
    BY <1>2, <1>8, Standing
  <2> QED
    BY <1>6, <1>7, <2>1 DEF Mapped, Intended!Next, Intended!EndIf
<1>9. CASE Kw(prog, line) = "endif"
  <2>1. Intended!Here({"endif"}) /\ End(prog, Top.at) + 1 = line + 1
    BY <1>2, <1>4, <1>9, Standing
  <2> QED
    BY <1>6, <2>1 DEF Mapped, Intended!Next, Intended!EndIf
<1> QED
  BY <1>4, <1>6, <1>8, <1>9

\* The ENDIF behind an ELSE branch.
LEMMA EndElseMaps ==
    ASSUME Ready, Settle, EndElse
    PROVE  Mapped /\ Kept
<1>1. /\ line = cur /\ In(prog, Top, cur) /\ AtBlockEnd /\ Running /\ ~Dispatching
      /\ status = "ok" /\ Top.kind = "else" /\ ~IsCall(Top) /\ Len(stack) > 1
      /\ Kw(prog, Top.at) \in Openers
  BY BlockEnds DEF EndElse, Blocks
<1>2. stack # <<>> /\ Kw(prog, cur) = "endif" /\ cur = End(prog, Top.at)
  BY <1>1, ReadyFacts, EndsRight
<1>3. cur' = End(prog, Top.at) + 1 /\ stack' = Popped /\ prog' = prog /\ status' = "ok"
  BY <1>1, <1>2 DEF EndElse, Consumed, Keep, Stay
<1>4. Kept /\ Intended!Go(line + 1)
  BY <1>1, <1>2, <1>3, BlockLeft
<1>5. Intended!Here({"endif"})
  BY <1>1, <1>2, Standing
<1> QED
  BY <1>4, <1>5 DEF Mapped, Intended!Next, Intended!EndIf

\* At the end of a loop, or at a LOOP in it, control is in no loop inside.
LEMMA LoopEnds ==
    ASSUME Ready, AtLoopEnd
    PROVE  /\ Top.kind = "while" /\ ~IsCall(Top) /\ Len(stack) > 1 /\ stack # <<>>
           /\ Kw(prog, Top.at) = "while" /\ Kw(prog, Top.at) \in Openers
           /\ Kw(prog, line) \in {"enddo", "loop"}
           /\ Around(prog, "while", line) = Top.at
           /\ Top.at < cur /\ cur <= End(prog, Top.at)
           /\ \A w \in 1..Len(prog.lines) :
                 Kw(prog, w) = "while" /\ w < cur /\ cur <= End(prog, w) => w <= Top.at
<1>1. /\ Formed(prog) /\ cur \in Nat /\ line \in Nat /\ stack # <<>> /\ Top.at \in Nat
  BY ReadyFacts DEF Ready
<1>2. CASE Ending({"while"})
  <2>1. /\ line = cur /\ AtBlockEnd /\ Running /\ ~Dispatching
        /\ Top.kind = "while" /\ ~IsCall(Top) /\ Len(stack) > 1
        /\ Kw(prog, Top.at) = "while" /\ Inside(prog, Top.at, cur) /\ Kw(prog, Top.at) \in Openers
        /\ Around(prog, "while", line) = Top.at
    BY <1>2, BlockEnds DEF Blocks, Opener
  <2>2. Kw(prog, cur) = "enddo"
    BY <2>1, EndsRight
  <2>3. ASSUME NEW w \in 1..Len(prog.lines), Kw(prog, w) = "while", w < cur, cur <= End(prog, w)
        PROVE  w <= Top.at
    BY <1>1, <2>1, <2>3, InsideInnermost DEF Openers
  <2> QED
    BY <1>1, <2>1, <2>2, <2>3 DEF Inside
<1>3. CASE status = "loop" /\ Top.kind = "while"
  <2>1. Raised
    BY <1>3 DEF Ready, Here
  <2>2. ~IsCall(Top) /\ Len(stack) > 1
    BY <1>1, <1>3, BlockOnTop DEF Ready, Blocks
  <2>3. /\ Kw(prog, Top.at) = "while" /\ Encloses(prog, Top.at, line)
        /\ Kw(prog, line) = "loop" /\ cur = line + 1
        /\ \A w \in 1..Len(prog.lines) :
              Kw(prog, w) = "while" /\ Encloses(prog, w, line) => w <= Top.at
    BY <1>3, <2>1, <2>2 DEF Raised, Opener
  <2>4. Kw(prog, Top.at) \in Openers
    BY <2>3 DEF Openers
  <2>5. End(prog, Top.at) \in Nat /\ Kw(prog, End(prog, Top.at)) \in Closers
    BY <1>1, <2>4, EndFacts
  <2>6. line < End(prog, Top.at) /\ Top.at < line
    BY <1>1, <2>3, <2>5 DEF Encloses, Closers
  <2>7. Around(prog, "while", line) = Top.at
    BY <1>1, <2>3, <2>4, AroundIs
  <2>8. ASSUME NEW w \in 1..Len(prog.lines), Kw(prog, w) = "while", w < cur, cur <= End(prog, w)
        PROVE  w <= Top.at
    <3>1. w # line
      BY <2>3, <2>8
    <3>2. w < line /\ w \in Nat /\ Kw(prog, w) \in Openers
      BY <1>1, <2>3, <2>8, <3>1 DEF Openers
    <3>3. End(prog, w) \in Nat
      BY <1>1, <3>2, EndFacts
    <3>4. Encloses(prog, w, line)
      BY <1>1, <2>3, <2>8, <3>2, <3>3 DEF Encloses
    <3> QED
      BY <2>3, <2>8, <3>4
  <2> QED
    BY <1>1, <1>3, <2>2, <2>3, <2>4, <2>5, <2>6, <2>7, <2>8
<1> QED
  BY <1>2, <1>3 DEF AtLoopEnd

\* ENDDO or LOOP, and the condition holds,
LEMMA LoopAgainMaps ==
    ASSUME Ready, Settle, LoopAgain
    PROVE  Mapped /\ Kept
<1>1. /\ Top.kind = "while" /\ ~IsCall(Top) /\ stack # <<>>
      /\ Kw(prog, Top.at) = "while" /\ Kw(prog, Top.at) \in Openers
      /\ Kw(prog, line) \in {"enddo", "loop"} /\ Around(prog, "while", line) = Top.at
  BY LoopEnds DEF LoopAgain
<1>2. stack' = stack /\ prog' = prog /\ status' = "ok" /\ cur' = Top.at + 1
  BY DEF LoopAgain
<1>3. Formed(prog) /\ Chained /\ Top \in Activation /\ Top' = Top
  BY <1>2, ReadyFacts DEF Ready, Top
<1>4. In(prog, Top, Top.at + 1)
  BY <1>1, <1>3, InsideFirst DEF In, Opener
<1>5. line' = cur' /\ Here'
  BY <1>1, <1>2, <1>3, <1>4, SettledHere
<1>6. Chained' /\ Returns' = Returns
  BY <1>2, <1>3, ChainKept, ReturnsPrimed
<1>7. Intended!Go(Top.at + 1)
  BY <1>1, <1>2, <1>5, <1>6, Going
<1>8. Intended!Here({"enddo", "loop"}) /\ Intended!Around(prog, "while", line) = Top.at
  BY <1>1, Standing, SameReading
<1> QED
  BY <1>5, <1>6, <1>7, <1>8 DEF Kept, Mapped, Intended!Next, Intended!EndDo

\* or it does not.
LEMMA LoopDoneMaps ==
    ASSUME Ready, Settle, LoopDone
    PROVE  Mapped /\ Kept
<1>1. /\ Top.kind = "while" /\ ~IsCall(Top) /\ Len(stack) > 1 /\ stack # <<>>
      /\ Kw(prog, Top.at) = "while" /\ Kw(prog, Top.at) \in Openers
      /\ Kw(prog, line) \in {"enddo", "loop"}
      /\ Around(prog, "while", line) = Top.at
      /\ Top.at < cur /\ cur <= End(prog, Top.at)
      /\ \A w \in 1..Len(prog.lines) :
            Kw(prog, w) = "while" /\ w < cur /\ cur <= End(prog, w) => w <= Top.at
  BY LoopEnds DEF LoopDone
<1>2. stack' = Popped /\ prog' = prog /\ status' = "ok" /\ SkipLoop(cur) /\ cur \in Nat
  BY ReadyFacts DEF LoopDone, Keep
<1>3. cur' = End(prog, Top.at) + 1
  BY <1>1, <1>2, LoopSkipped
<1>4. Kept /\ Intended!Go(End(prog, Top.at) + 1)
  BY <1>1, <1>2, <1>3, BlockLeft
<1>5. /\ Intended!Here({"enddo", "loop"})
      /\ Intended!End(prog, Intended!Around(prog, "while", line)) = End(prog, Top.at)
  BY <1>1, Standing, SameReading
<1> QED
  BY <1>4, <1>5 DEF Mapped, Intended!Next, Intended!EndDo

\* A branch that was run: DO CASE looks on, and Structured stays at its end.
LEMMA EndBranchMaps ==
    ASSUME Ready, Settle, EndBranch
    PROVE  Mapped /\ Kept
<1>1. /\ line = cur /\ In(prog, Top, cur) /\ AtBlockEnd /\ Running /\ ~Dispatching
      /\ status = "ok" /\ Top.kind = "case" /\ ~IsCall(Top) /\ Len(stack) > 1
      /\ Kw(prog, Top.at) = "docase" /\ Inside(prog, Top.at, cur)
  BY BlockEnds DEF EndBranch, Blocks, Opener
<1>2. /\ stack # <<>> /\ Typed /\ IInv /\ Chained /\ Top \in Activation
      /\ Kw(prog, cur) \in Heads /\ Top.matched
  BY <1>1, ReadyFacts, EndsRight DEF Ready, In
<1> DEFINE x == [Top EXCEPT !.body = "none"]
<1>3. /\ x \in Activation /\ x.kind = "case" /\ x.at = Top.at /\ x.matched /\ x.body = "none"
      /\ ~IsCall(x)
  BY <1>1, <1>2 DEF Activation, IsCall, CallKinds
<1>4. stack' = Append(Popped, x) /\ prog' = prog /\ status' = "ok" /\ cur' = cur
  BY <1>1 DEF EndBranch, Keep, Stay
<1> HIDE DEF x
<1>5. Chained' /\ Top' = x /\ stack' # <<>>
  BY <1>1, <1>2, <1>3, <1>4, ChainSwapped
<1>6. Dispatching' /\ line' = line
  BY <1>3, <1>5, SettledNot DEF Dispatching
<1>7. Seeking'
  BY <1>1, <1>2, <1>3, <1>4, <1>5, <1>6 DEF Seeking, Inside, Encloses
<1>8. Kept
  BY <1>4, <1>5, <1>6, <1>7 DEF Kept, Here
<1>9. Returns' = Returns
  BY <1>1, <1>2, <1>3, <1>4, ReturnsSwapped
<1> QED
  BY <1>2, <1>4, <1>5, <1>6, <1>8, <1>9, Stutters DEF Mapped

\* Control goes back behind the DO.
LEMMA CallLeft ==
    ASSUME Ready, Settle, IsCall(Top), Len(stack) > 1, Kw(prog, line) \in {"return", "procedure", "eof"},
           stack' = Popped, prog' = prog, status' = "ok", cur' = Top.resume
    PROVE  Mapped /\ Kept
<1>1. /\ Top \in Activation /\ Top.resume \in Nat /\ Formed(prog) /\ stack # <<>> /\ Chained
      /\ Typed /\ IInv
  BY ReadyFacts DEF Ready
<1>2. /\ Chained' /\ stack' # <<>> /\ Top' \in Activation /\ Joined(Top', Top)
  BY <1>1, ChainPopped
<1>3. In(prog, Top', Top.resume - 1) /\ Kw(prog, Top.resume - 1) = "do"
  BY <1>2 DEF Joined, Place
<1>4. Top.resume - 1 \in Nat
  BY <1>1, <1>3, LineOfKeyword DEF Formed
<1>5. In(prog, Top', Top.resume)
  <2>1. In(prog, Top', (Top.resume - 1) + 1)
    BY <1>1, <1>2, <1>3, <1>4, InNext DEF Openers, Closers
  <2> QED
    BY <1>1, <2>1
<1>6. line' = Top.resume /\ Here'
  BY <1>1, <1>2, <1>5, SettledHere
<1>7. /\ Returns # <<>> /\ Returns[Len(Returns)] = Top.resume
      /\ Returns' = SubSeq(Returns, 1, Len(Returns) - 1)
  BY <1>1, ReturnsCallPopped
<1>8. Intended!Here({"return", "procedure", "eof"}) /\ Finished' = Finished
  BY <1>1, <1>2, Standing, Zenon DEF Finished
<1>9. Intended!Return
  BY <1>6, <1>7, <1>8 DEF Intended!Return
<1> QED
  BY <1>2, <1>6, <1>9 DEF Kept, Mapped, Intended!Next

\* A procedure or a file that runs to its end.
LEMMA EndCallMaps ==
    ASSUME Ready, Settle, EndCall
    PROVE  Mapped /\ Kept
<1>1. /\ Running /\ ~Dispatching /\ AtBlockEnd /\ IsCall(Top) /\ Len(stack) > 1 /\ status = "ok"
  BY DEF EndCall, Ending, IsCall, Running
<1>2. line = cur /\ Kw(prog, cur) \in {"procedure", "eof"}
  BY <1>1, EndsRight
<1> QED
  BY <1>1, <1>2, CallLeft DEF EndCall, Stay

\* The program is left.
LEMMA ProgramLeft ==
    ASSUME Ready, Settle, Len(stack) = 1, Kw(prog, line) \in {"return", "procedure", "eof"},
           stack' = <<>>, prog' = prog
    PROVE  Mapped
<1>1. stack # <<>> /\ Returns = <<>>
  BY ReadyFacts, ReturnsNone DEF Ready
<1>2. line' = line /\ Returns' = Returns
  BY <1>1, SettledNot, ReturnsPrimed
<1>3. Intended!Here({"return", "procedure", "eof"}) /\ Finished' = TRUE
  BY <1>1, Standing DEF Finished
<1> QED
  BY <1>1, <1>2, <1>3 DEF Mapped, Intended!Next, Intended!Return

\* The program runs to its end.
LEMMA EndProgramMaps ==
    ASSUME Ready, Settle, EndProgram
    PROVE  Mapped /\ stack' = <<>>
<1>1. /\ Running /\ ~Dispatching /\ AtBlockEnd /\ IsCall(Top)
  BY DEF EndProgram, Ending, IsCall
<1>2. line = cur /\ Kw(prog, cur) \in {"procedure", "eof"}
  BY <1>1, EndsRight
<1> QED
  BY <1>2, ProgramLeft DEF EndProgram, Keep

-----------------------------------------------------------------------------
(* DO CASE: the next branch *)

\* While a DO CASE looks for its branch the keywords it meets are its own: a tame
\* program has no DO CASE in a DO CASE.
LEMMA HeadsAreTops ==
    ASSUME Ready, Running, Dispatching
    PROVE  /\ Top.kind = "case" /\ ~IsCall(Top) /\ Len(stack) > 1 /\ stack # <<>> /\ status = "ok"
           /\ Kw(prog, Top.at) = "docase" /\ Kw(prog, Top.at) \in Openers
           /\ Encloses(prog, Top.at, cur) /\ Seeking
           /\ End(prog, Top.at) \in Nat /\ Kw(prog, End(prog, Top.at)) = "endcase"
           /\ Kw(prog, cur) # "eof"
           /\ \A c \in 1..Len(prog.lines), p \in Nat :
                 Kw(prog, c) = "docase" /\ Encloses(prog, c, p) /\ p <= End(prog, Top.at) => c <= Top.at
           /\ Kw(prog, cur) \in {"case", "otherwise"} =>
                 Inside(prog, Top.at, cur) /\ cur \in Branches(prog, Top.at)
           /\ Kw(prog, cur) = "endcase" => cur = End(prog, Top.at)
<1>1. /\ Formed(prog) /\ stack # <<>> /\ cur \in Nat /\ Top.at \in Nat /\ Seeking
      /\ Top.kind = "case" /\ status = "ok"
  BY ReadyFacts DEF Ready, Here, Running, Dispatching
<1>2. ~IsCall(Top) /\ Len(stack) > 1
  BY <1>1, BlockOnTop DEF Ready, Blocks
<1>3. /\ Kw(prog, Top.at) = "docase" /\ Kw(prog, Top.at) \in Openers
      /\ Top.at < cur /\ cur <= End(prog, Top.at)
  BY <1>1 DEF Seeking, Encloses, Openers
<1>4. /\ Top.at \in 1..Len(prog.lines)
      /\ End(prog, Top.at) \in Nat /\ Kw(prog, End(prog, Top.at)) = "endcase"
      /\ \A r \in Top.at..End(prog, Top.at) : Kw(prog, r) # "eof"
  BY <1>1, <1>3, EndFacts DEF ClosingOf
<1>5. Kw(prog, cur) # "eof"
  BY <1>1, <1>3, <1>4
<1>6. \A r \in (Top.at + 1)..End(prog, Top.at) : Kw(prog, r) # "docase"
  <2>1. ~Misread(prog, Top.at)
    BY <1>4 DEF Ready, Live, Tame
  <2> QED
    BY <1>3, <2>1 DEF Misread
<1>7. ASSUME NEW c \in Nat, Kw(prog, c) = "docase", c <= End(prog, Top.at)
      PROVE  c <= Top.at
  <2> SUFFICES ASSUME c > Top.at PROVE FALSE
    BY <1>1
  <2>1. c \in (Top.at + 1)..End(prog, Top.at)
    BY <1>1, <1>4, <1>7
  <2> QED
    BY <1>6, <1>7, <2>1
<1>8. ASSUME NEW c \in 1..Len(prog.lines), NEW p \in Nat,
             Kw(prog, c) = "docase", Encloses(prog, c, p), p <= End(prog, Top.at)
      PROVE  c <= Top.at
  <2>1. c \in Nat /\ c <= End(prog, Top.at)
    BY <1>4, <1>8 DEF Encloses
  <2> QED
    BY <1>7, <1>8, <2>1
<1>9. ASSUME Kw(prog, cur) \in {"case", "otherwise"}
      PROVE  Inside(prog, Top.at, cur) /\ cur \in Branches(prog, Top.at)
  <2>1. PICK b \in Nat : Inside(prog, b, cur) /\ Kw(prog, b) = "docase" /\ cur \in Branches(prog, b)
    BY <1>1, <1>9, PartOfBlock
  <2>2. b <= Top.at
    BY <1>1, <1>3, <1>4, <1>7, <2>1 DEF Inside
  <2>3. Top.at <= b
    BY <1>1, <1>3, <2>1, InsideInnermost
  <2>4. b = Top.at
    BY <1>1, <2>2, <2>3
  <2> QED
    BY <2>1, <2>4
<1>10. ASSUME Kw(prog, cur) = "endcase"
       PROVE  cur = End(prog, Top.at)
  <2>1. PICK b \in 1..(cur - 1) : Kw(prog, b) \in Openers /\ cur = End(prog, b)
    BY <1>1, <1>10, EndOfSome DEF Closers
  <2>2. Kw(prog, b) = "docase"
    <3>1. Kw(prog, cur) = ClosingOf[Kw(prog, b)]
      BY <1>1, <2>1, EndFacts
    <3> QED
      BY <1>10, <2>1, <3>1 DEF ClosingOf, Openers
  <2>3. b \in Nat /\ b <= Top.at
    BY <1>1, <1>3, <1>4, <1>7, <2>1, <2>2
  <2>4. CASE b = Top.at
    BY <2>1, <2>4
  <2>5. CASE b < Top.at
    <3>1. End(prog, Top.at) < End(prog, b)
      BY <1>1, <1>3, <1>4, <2>1, <2>5, BlocksNest
    <3> QED
      BY <1>1, <1>3, <1>4, <2>1, <3>1
  <2> QED
    BY <1>1, <2>3, <2>4, <2>5
<1> QED
  BY <1>1, <1>2, <1>3, <1>4, <1>5, <1>8, <1>9, <1>10 DEF Seeking

\* CASE and OTHERWISE.
LEMMA BranchTaken ==
    ASSUME Ready, Settle, NEW k \in {"case", "otherwise"}, Untaken({k}), Enter(k), Stay, Keep
    PROVE  Mapped /\ Kept
<1>1. Running /\ Dispatching /\ Kw(prog, cur) = k /\ ~Top.matched
  BY DEF Untaken, Choosing
<1>2. /\ Top.kind = "case" /\ ~IsCall(Top) /\ Len(stack) > 1 /\ stack # <<>> /\ status = "ok"
      /\ Kw(prog, Top.at) = "docase" /\ Seeking
      /\ Inside(prog, Top.at, cur) /\ cur \in Branches(prog, Top.at)
  BY <1>1, HeadsAreTops
<1>3. line = Top.at
  BY <1>1, <1>2 DEF Seeking
<1>4. /\ Typed /\ IInv /\ Chained /\ Top \in Activation /\ Formed(prog) /\ cur \in Nat
  BY ReadyFacts DEF Ready
<1> DEFINE x == [Top EXCEPT !.matched = TRUE, !.body = k]
<1>5. /\ x \in Activation /\ x.kind = "case" /\ x.at = Top.at /\ x.matched /\ x.body = k
      /\ ~IsCall(x)
  BY <1>2, <1>4 DEF Activation, IsCall, CallKinds
<1>6. /\ stack' = Append(Popped, x) /\ prog' = prog /\ status' = "ok" /\ cur' = cur + 1
  BY <1>2 DEF Enter, Keep, Stay
<1> HIDE DEF x
<1>7. Chained' /\ Top' = x /\ stack' # <<>>
  BY <1>2, <1>4, <1>5, <1>6, ChainSwapped
<1>8. In(prog, x, cur + 1)
  <2>1. Inside(prog, Top.at, cur + 1)
    BY <1>1, <1>2, <1>4, InsideNext DEF Openers, Closers
  <2> QED
    BY <1>1, <1>2, <1>4, <1>5, <2>1 DEF In, Opener
<1>9. line' = cur' /\ Here'
  BY <1>5, <1>6, <1>7, <1>8, SettledHere
<1>10. Returns' = Returns
  BY <1>2, <1>4, <1>5, <1>6, ReturnsSwapped
<1>11. Intended!Go(cur + 1)
  BY <1>2, <1>6, <1>7, <1>9, <1>10, Going
<1>12. Intended!Here({"docase"}) /\ cur \in Intended!Branches(prog, line)
  BY <1>2, <1>3, Standing, SameReading
<1> QED
  BY <1>7, <1>9, <1>11, <1>12 DEF Kept, Mapped, Intended!Next, Intended!DoCase

\* A branch that is skipped ends at the next one of its DO CASE, or with that.
LEMMA BranchSkipped ==
    ASSUME Ready, Settle, Running, Dispatching, Kw(prog, cur) \in {"case", "otherwise"},
           NEW ends, SkipBranch(ends), "endcase" \in ends, Stay, Keep,
           Top.matched \/ (Kw(prog, cur) = "case" /\ ends = Heads)
    PROVE  Mapped /\ Kept
<1>1. /\ Top.kind = "case" /\ stack # <<>> /\ status = "ok"
      /\ Kw(prog, Top.at) = "docase" /\ Seeking
      /\ End(prog, Top.at) \in Nat /\ Kw(prog, End(prog, Top.at)) = "endcase"
      /\ Encloses(prog, Top.at, cur)
  BY HeadsAreTops
<1>2. cur \in Nat /\ Top.at \in Nat /\ Chained
  BY ReadyFacts DEF Ready
<1>3. PICK q \in 1..Len(prog.lines) : StopsAt(prog, cur + 1, {}, ends, q) /\ cur' = q
  BY DEF SkipBranch
<1>4. stack' = stack /\ prog' = prog /\ status' = "ok"
  BY <1>1 DEF SkipBranch, Stay, Keep
<1>5. Top' = Top /\ Dispatching' /\ line' = line
  BY <1>4, SettledNot DEF Dispatching, Top
<1>6. /\ cur + 1 <= q /\ q \in Nat
      /\ \A r \in (cur + 1)..(q - 1) : Kw(prog, r) \notin ends
  BY <1>2, <1>3, FlatScan
<1>7. q <= End(prog, Top.at)
  <2>1. cur + 1 <= End(prog, Top.at)
    BY <1>1, <1>2 DEF Encloses
  <2> QED
    BY <1>1, <1>2, <1>6, <2>1
<1>8. ASSUME ~Top.matched, NEW c \in Branches(prog, Top.at), c < q
      PROVE  Kw(prog, c) = "case"
  <2>1. c \in Nat /\ Kw(prog, c) \in {"case", "otherwise"}
    BY ReadyFacts DEF Branches
  <2>2. CASE c < cur
    BY <1>1, <1>8, <2>2 DEF Seeking
  <2>3. CASE c = cur
    BY <1>8, <2>3
  <2>4. CASE c > cur
    <3>1. c \in (cur + 1)..(q - 1)
      BY <1>2, <1>6, <1>8, <2>1, <2>4
    <3> QED
      BY <1>6, <1>8, <2>1, <3>1 DEF Heads
  <2> QED
    BY <1>2, <2>1, <2>2, <2>3, <2>4
<1>9. Seeking'
  <2>1. Encloses(prog, Top.at, q)
    BY <1>1, <1>2, <1>6, <1>7 DEF Encloses
  <2>2. /\ Top.matched => Kw(prog, line) \in Heads /\ Encloses(prog, Top.at, line)
        /\ ~Top.matched => line = Top.at
    BY <1>1 DEF Seeking
  <2> QED
    BY <1>1, <1>3, <1>4, <1>5, <1>8, <2>1, <2>2 DEF Seeking
<1>10. Chained' /\ Returns' = Returns
  BY <1>2, <1>4, ChainKept, ReturnsPrimed
<1> QED
  BY <1>1, <1>4, <1>5, <1>9, <1>10, Stutters DEF Mapped, Kept, Here

\* Behind the ENDCASE: a branch was taken, or there was none to take.
LEMMA EndCaseMaps ==
    ASSUME Ready, Settle, EndCase
    PROVE  Mapped /\ Kept
<1>1. Running /\ Dispatching /\ Kw(prog, cur) \in {"endcase", "eof"}
  BY DEF EndCase, Choosing
<1>2. /\ ~IsCall(Top) /\ Len(stack) > 1 /\ stack # <<>> /\ status = "ok"
      /\ Kw(prog, Top.at) = "docase" /\ Kw(prog, Top.at) \in Openers /\ Seeking
      /\ End(prog, Top.at) \in Nat /\ Kw(prog, End(prog, Top.at)) = "endcase"
      /\ \A c \in 1..Len(prog.lines), p \in Nat :
            Kw(prog, c) = "docase" /\ Encloses(prog, c, p) /\ p <= End(prog, Top.at) => c <= Top.at
      /\ Kw(prog, cur) = "endcase" /\ cur = End(prog, Top.at)
  BY <1>1, HeadsAreTops
<1>3. /\ Formed(prog) /\ line \in Nat /\ cur \in Nat
  BY ReadyFacts DEF Ready
<1>4. cur' = End(prog, Top.at) + 1 /\ stack' = Popped /\ prog' = prog /\ status' = "ok"
  BY <1>2 DEF EndCase, Consumed, Keep, Stay
<1>5. Kept /\ Intended!Go(End(prog, Top.at) + 1)
  BY <1>2, <1>4, BlockLeft
<1>6. CASE Top.matched
  <2>1. Kw(prog, line) \in Heads /\ Encloses(prog, Top.at, line)
    BY <1>2, <1>6 DEF Seeking
  <2>2. Around(prog, "docase", line) = Top.at
    <3>1. \A c \in 1..Len(prog.lines) : Kw(prog, c) = "docase" /\ Encloses(prog, c, line) => c <= Top.at
      BY <1>2, <1>3, <2>1 DEF Encloses
    <3> QED
      BY <1>2, <1>3, <2>1, <3>1, AroundIs
  <2>3. Intended!Here(Heads) /\ Intended!Heads = Heads
        /\ Intended!End(prog, Intended!Around(prog, "docase", line)) = End(prog, Top.at)
    BY <1>2, <2>1, <2>2, Standing, SameReading
  <2> QED
    BY <1>5, <2>3 DEF Mapped, Intended!Next, Intended!EndCase
<1>7. CASE ~Top.matched
  <2>1. line = Top.at /\ \A c \in Branches(prog, Top.at) : c < cur => Kw(prog, c) = "case"
    BY <1>2, <1>7 DEF Seeking
  <2>2. ASSUME NEW c \in Branches(prog, Top.at)
        PROVE  Kw(prog, c) = "case"
    <3>1. c \in Nat /\ Kw(prog, c) \in {"case", "otherwise"} /\ c <= End(prog, Top.at)
      BY ReadyFacts DEF Branches, Directly, Encloses
    <3>2. c < cur
      BY <1>2, <1>3, <3>1
    <3> QED
      BY <2>1, <3>2
  <2>3. /\ Intended!Here({"docase"}) /\ Intended!End(prog, line) = End(prog, Top.at)
        /\ \A b \in Intended!Branches(prog, line) : Intended!Kw(prog, b) = "case"
    BY <1>2, <2>1, <2>2, Standing, SameReading
  <2> QED
    BY <1>5, <2>3 DEF Mapped, Intended!Next, Intended!DoCase
<1> QED
  BY <1>6, <1>7

\* What stands before the first branch, or behind one, is passed over.
LEMMA NoBranchMaps ==
    ASSUME Ready, Settle, NoBranch
    PROVE  Mapped /\ Kept
<1>1. Running /\ Dispatching /\ Kw(prog, cur) \notin Heads
  BY DEF NoBranch, Choosing
<1>2. /\ stack # <<>> /\ status = "ok" /\ Seeking
      /\ End(prog, Top.at) \in Nat /\ Kw(prog, End(prog, Top.at)) = "endcase"
      /\ Encloses(prog, Top.at, cur)
  BY <1>1, HeadsAreTops
<1>3. cur \in Nat /\ Top.at \in Nat /\ Chained
  BY ReadyFacts DEF Ready
<1>4. stack' = stack /\ prog' = prog /\ status' = "ok" /\ cur' = cur + 1
  BY <1>2 DEF NoBranch, Stay, Keep
<1>5. Top' = Top /\ Dispatching' /\ line' = line
  BY <1>1, <1>4, SettledNot DEF Dispatching, Top
<1>6. Encloses(prog, Top.at, cur + 1)
  BY <1>1, <1>2, <1>3 DEF Encloses, Heads
<1>7. ASSUME ~Top.matched, NEW c \in Branches(prog, Top.at), c < cur + 1
      PROVE  Kw(prog, c) = "case"
  <2>1. c \in Nat /\ Kw(prog, c) \in Heads
    BY ReadyFacts DEF Branches, Heads
  <2>2. c < cur
    BY <1>1, <1>3, <1>7, <2>1
  <2> QED
    BY <1>2, <1>7, <2>2 DEF Seeking
<1>8. Seeking'
  <2>1. /\ Kw(prog, Top.at) = "docase"
        /\ Top.matched => Kw(prog, line) \in Heads /\ Encloses(prog, Top.at, line)
        /\ ~Top.matched => line = Top.at
    BY <1>2 DEF Seeking
  <2> QED
    BY <1>4, <1>5, <1>6, <1>7, <2>1 DEF Seeking
<1>9. Chained' /\ Returns' = Returns
  BY <1>3, <1>4, ChainKept, ReturnsPrimed
<1> QED
  BY <1>2, <1>4, <1>5, <1>8, <1>9, Stutters DEF Mapped, Kept, Here

-----------------------------------------------------------------------------
(* A status on its way out *)

\* An IF, or a block that only passes a RETURN: Structured does not move.
LEMMA PassOnMaps ==
    ASSUME Ready, Settle, PassOn
    PROVE  Mapped /\ Kept
<1>1. /\ stack # <<>> /\ Formed(prog) /\ Typed /\ IInv /\ Chained /\ line \in Nat
      /\ Top \in Activation /\ Top.at \in Nat
  BY ReadyFacts DEF Ready
<1>2. /\ Top.kind \in Blocks /\ status \in {"exit", "loop", "return"}
      /\ status # "return" => Top.kind \in {"then", "else"}
      /\ stack' = Popped /\ prog' = prog /\ status' = status /\ cur' = cur
  BY DEF PassOn, Leaving, Stay, Keep, Blocks
<1>3. Len(stack) > 1 /\ ~IsCall(Top)
  BY <1>1, <1>2, BlockOnTop
<1>4. /\ Chained' /\ stack' # <<>> /\ Top' \in Activation /\ Joined(Top', Top)
  BY <1>1, <1>2, <1>3, ChainPopped
<1>5. In(prog, Top', Top.at)
  BY <1>3, <1>4 DEF Joined, Place
<1>6. line' = line /\ Returns' = Returns
  BY <1>1, <1>2, <1>3, SettledNot, ReturnsBlockPopped
<1>7. CASE status = "return"
  BY <1>1, <1>2, <1>4, <1>6, <1>7, Stutters DEF Mapped, Kept, Here, Ready
<1>8. CASE status \in {"exit", "loop"}
  <2>1. Raised
    BY <1>8 DEF Ready, Here
  <2>2. /\ Kw(prog, line) = status /\ cur = line + 1
        /\ Kw(prog, Top.at) = "if" /\ Top.at < line /\ line <= End(prog, Top.at)
        /\ \A w \in 1..Len(prog.lines) :
              Kw(prog, w) = "while" /\ Encloses(prog, w, line) => w <= Top.at
    BY <1>2, <1>3, <1>8, <2>1 DEF Raised, Encloses, Opener
  <2>3. Kw(prog, Top.at) \in Openers /\ End(prog, Top.at) \in Nat
    BY <1>1, <2>2, EndFacts DEF Openers
  <2>4. ASSUME ~IsCall(Top')
        PROVE  /\ Kw(prog, Top'.at) = Opener[Top'.kind] /\ Encloses(prog, Top'.at, line)
               /\ Inside(prog, Top'.at, Top.at)
    <3>1. Kw(prog, Top'.at) = Opener[Top'.kind] /\ Inside(prog, Top'.at, Top.at)
      BY <1>5, <2>4 DEF In
    <3>2. End(prog, Top.at) < End(prog, Top'.at)
      BY <1>1, <2>3, <3>1, BlocksNest DEF Inside
    <3>3. Top'.at \in Nat /\ End(prog, Top'.at) \in Nat
      BY <1>1, <3>1, EndFacts DEF Inside
    <3> QED
      BY <1>1, <2>2, <2>3, <3>1, <3>2, <3>3 DEF Encloses, Inside
  <2>5. ASSUME NEW w \in 1..Len(prog.lines), Kw(prog, w) = "while", Encloses(prog, w, line)
        PROVE  ~IsCall(Top') /\ w <= Top'.at
    <3>1. Kw(prog, w) \in Openers /\ w # Top.at /\ w \in Nat
      BY <2>2, <2>5 DEF Openers
    <3>2. End(prog, w) \in Nat
      BY <1>1, <3>1, EndFacts
    <3>3. w < Top.at /\ Top.at <= End(prog, w)
      BY <1>1, <2>2, <2>5, <3>1, <3>2 DEF Encloses
    <3>4. ~IsCall(Top')
      BY <1>5, <2>5, <3>1, <3>3 DEF In, Outside, Encloses
    <3>5. Inside(prog, Top'.at, Top.at)
      BY <2>4, <3>4
    <3>6. w <= Top'.at
      BY <1>1, <3>1, <3>3, <3>5, InsideInnermost
    <3> QED
      BY <3>4, <3>6
  <2>6. Raised'
    BY <1>2, <1>6, <2>2, <2>4, <2>5 DEF Raised, IsCall
  <2> QED
    BY <1>1, <1>2, <1>4, <1>6, <1>8, <2>6, Stutters DEF Mapped, Kept, Here
<1> QED
  BY <1>2, <1>7, <1>8

\* A tame program has no DO CASE between an EXIT and its ENDDO, so that the scan
\* that counts them finds it.
LEMMA ExitLoopMaps ==
    ASSUME Ready, Settle, ExitLoop
    PROVE  Mapped /\ Kept
<1>1. /\ stack # <<>> /\ Formed(prog) /\ line \in Nat /\ Top.at \in Nat
  BY ReadyFacts DEF Ready
<1>2. /\ Top.kind = "while" /\ status = "exit"
      /\ stack' = Popped /\ prog' = prog /\ status' = "ok"
  BY DEF ExitLoop, Leaving, Keep
<1>3. Len(stack) > 1 /\ ~IsCall(Top)
  BY <1>1, <1>2, BlockOnTop DEF Ready, Blocks
<1>4. /\ Kw(prog, line) = "exit" /\ cur = line + 1
      /\ Kw(prog, Top.at) = "while" /\ Encloses(prog, Top.at, line)
      /\ \A w \in 1..Len(prog.lines) :
            Kw(prog, w) = "while" /\ Encloses(prog, w, line) => w <= Top.at
  BY <1>2, <1>3 DEF Ready, Here, Raised, Opener
<1>5. /\ Kw(prog, Top.at) \in Openers /\ End(prog, Top.at) \in Nat
      /\ Kw(prog, End(prog, Top.at)) = "enddo" /\ Top.at \in 1..Len(prog.lines)
  BY <1>1, <1>4, EndFacts DEF Openers, ClosingOf
<1>6. Top.at < line /\ line < End(prog, Top.at)
  BY <1>1, <1>4, <1>5 DEF Encloses
<1>7. StopsAt(prog, cur, {"while"}, {"enddo"}, End(prog, Top.at))
  <2>1. ASSUME NEW w \in 1..Len(prog.lines), Kw(prog, w) = "while",
               w < cur, cur <= End(prog, w)
        PROVE  w <= Top.at
    <3>1. w # line /\ w \in Nat /\ Kw(prog, w) \in Openers
      BY <1>4, <2>1 DEF Openers
    <3>2. End(prog, w) \in Nat
      BY <1>1, <3>1, EndFacts
    <3>3. Encloses(prog, w, line)
      BY <1>1, <1>4, <2>1, <3>1, <3>2 DEF Encloses
    <3> QED
      BY <1>4, <2>1, <3>3
  <2>2. cur \in Int /\ Top.at < cur /\ cur <= End(prog, Top.at)
    BY <1>1, <1>4, <1>5, <1>6
  <2> QED
    BY <1>1, <1>4, <2>1, <2>2, LoopScan
<1>8. \A r \in cur..End(prog, Top.at) : Kw(prog, r) # "docase"
  <2>1. line \in 1..Len(prog.lines)
    BY <1>1, <1>4, LineOfKeyword DEF Formed
  <2>2. ~Misread(prog, line)
    BY <2>1 DEF Ready, Live, Tame
  <2>3. Top.at \in 1..line
    BY <1>1, <1>5, <1>6
  <2>4. \A v \in (Top.at + 1)..line : Kw(prog, v) = "while" => ~Encloses(prog, v, line)
    <3> SUFFICES ASSUME NEW v \in (Top.at + 1)..line, Kw(prog, v) = "while",
                        Encloses(prog, v, line)
                 PROVE  FALSE
      OBVIOUS
    <3>1. v \in 1..Len(prog.lines)
      BY <1>1, LineOfKeyword DEF Formed
    <3>2. v <= Top.at
      BY <1>4, <3>1
    <3> QED
      BY <1>1, <3>2
  <2>5. ~(Count(prog, line, End(prog, Top.at), {"docase"}) > 0)
    BY <1>4, <2>2, <2>3, <2>4 DEF Misread
  <2> SUFFICES ASSUME NEW r \in cur..End(prog, Top.at), Kw(prog, r) = "docase" PROVE FALSE
    OBVIOUS
  <2>6. r \in line..End(prog, Top.at)
    BY <1>1, <1>4, <1>5
  <2>7. Count(prog, line, End(prog, Top.at), {"docase"}) >= 1
    BY <1>1, <1>5, <2>6, CountSome
  <2> QED
    BY <1>1, <1>5, <2>5, <2>7, FoundFinite
<1>9. StopsAt(prog, cur, {"while", "docase"}, {"enddo"}, End(prog, Top.at))
  <2>1. cur \in Int
    BY <1>1, <1>4
  <2>2. \A r \in cur..End(prog, Top.at) :
           /\ Kw(prog, r) \in {"while"} <=> Kw(prog, r) \in {"while", "docase"}
           /\ Kw(prog, r) \in {"enddo"} <=> Kw(prog, r) \in {"enddo"}
    BY <1>8
  <2> QED
    BY <1>5, <1>7, <2>1, <2>2, SameScan
<1>10. cur' = End(prog, Top.at) + 1
  <2>1. PICK q \in 1..Len(prog.lines) :
           /\ StopsAt(prog, cur, {"while", "docase"}, {"enddo"}, q)
           /\ cur' = Consumed(prog, q, "enddo")
    BY DEF ExitLoop
  <2>2. q = End(prog, Top.at)
    BY <1>5, <1>9, <2>1, StopsOnce
  <2> QED
    BY <1>5, <2>1, <2>2 DEF Consumed
<1>11. Kept /\ Intended!Go(End(prog, Top.at) + 1)
  BY <1>2, <1>3, <1>5, <1>10, BlockLeft
<1>12. Around(prog, "while", line) = Top.at
  BY <1>1, <1>4, <1>5, AroundIs
<1>13. /\ Intended!Here({"exit"})
       /\ Intended!End(prog, Intended!Around(prog, "while", line)) = End(prog, Top.at)
  BY <1>1, <1>4, <1>12, Standing, SameReading
<1> QED
  BY <1>11, <1>13 DEF Mapped, Intended!Next, Intended!Exit

\* In a tame program every EXIT and LOOP reaches its loop.
LEMMA NothingSwallowed ==
    ASSUME Ready, Swallow
    PROVE  FALSE
<1>1. /\ stack # <<>> /\ Formed(prog) /\ line \in Nat /\ Top.at \in Nat
  BY ReadyFacts DEF Ready
<1>2. Top.kind \in {"case"} \cup CallKinds /\ status \in {"exit", "loop"}
  BY DEF Swallow, Leaving
<1>3. Raised /\ Kw(prog, line) \in {"exit", "loop"}
  BY <1>2 DEF Ready, Here, Raised
<1>4. PICK w \in 1..Len(prog.lines) : Kw(prog, w) = "while" /\ Encloses(prog, w, line)
  BY <1>1, <1>3, JumpInLoop DEF Encloses
<1>5. ~IsCall(Top)
  BY <1>3, <1>4 DEF Raised
<1>6. Top.kind = "case"
  BY <1>2, <1>5 DEF IsCall
<1>7. /\ Kw(prog, Top.at) = "docase" /\ Top.at < line /\ line <= End(prog, Top.at)
      /\ \A v \in 1..Len(prog.lines) :
            Kw(prog, v) = "while" /\ Encloses(prog, v, line) => v <= Top.at
  BY <1>3, <1>5, <1>6 DEF Raised, Encloses, Opener
<1>8. Top.at \in 1..Len(prog.lines) /\ End(prog, Top.at) \in Nat
  BY <1>1, <1>7, EndFacts DEF Openers
<1>9. ~Misread(prog, Top.at)
  BY <1>8 DEF Ready, Live, Tame
<1>10. line \in (Top.at + 1)..End(prog, Top.at)
  BY <1>1, <1>7, <1>8
<1>11. \A v \in (Top.at + 1)..line : Kw(prog, v) = "while" => ~Encloses(prog, v, line)
  <2> SUFFICES ASSUME NEW v \in (Top.at + 1)..line, Kw(prog, v) = "while",
                      Encloses(prog, v, line)
               PROVE  FALSE
    OBVIOUS
  <2>1. v \in 1..Len(prog.lines)
    BY <1>1, LineOfKeyword DEF Formed
  <2>2. v <= Top.at
    BY <1>7, <2>1
  <2> QED
    BY <1>1, <2>2
<1> QED
  BY <1>3, <1>7, <1>9, <1>10, <1>11 DEF Misread

\* RETURN goes back behind the DO: the frame it popped is that of its call.
LEMMA ReturnFromCallMaps ==
    ASSUME Ready, Settle, ReturnFromCall
    PROVE  Mapped /\ Kept
<1>1. /\ IsCall(Top) /\ status = "return" /\ Len(stack) > 1 /\ stack # <<>>
      /\ stack' = Popped /\ prog' = prog /\ status' = "ok" /\ cur' = target
  BY DEF ReturnFromCall, Leaving, IsCall, Keep
<1>2. target = Top.resume
  BY <1>1, CallerIsTarget DEF Ready, Live, ReturnsToCaller
<1>3. Kw(prog, line) = "return"
  BY <1>1 DEF Ready, Here
<1> QED
  BY <1>1, <1>2, <1>3, CallLeft

\* RETURN in the program itself.
LEMMA ReturnFromProgramMaps ==
    ASSUME Ready, Settle, ReturnFromProgram
    PROVE  Mapped /\ stack' = <<>>
<1>1. /\ status = "return" /\ Len(stack) = 1 /\ stack' = <<>> /\ prog' = prog
  BY DEF ReturnFromProgram, Leaving, Keep
<1>2. Kw(prog, line) = "return"
  BY <1>1 DEF Ready, Here
<1> QED
  BY <1>1, <1>2, ProgramLeft

-----------------------------------------------------------------------------
(* The whole *)

\* The procedures of the first file stay known.
LEMMA KnownFirst ==
    ASSUME Init
    PROVE  AllKnown
<1>1. Typed /\ IsProgram(prog)
  BY InitHolds, ProgramsAssumption DEF IInv, Init
<1>2. 1 \in 1..Len(prog.lines)
  BY <1>1, ProgramTypes, EmptySeq DEF IsProgram
<1>3. Scanned(prog, 1) \in Seq(Procedures) /\ <<>> \in Seq(Procedures) /\ Len(<<>>) <= MaxProcs
  BY <1>1, <1>2, ScannedType, EmptySeq, BoundsAssumption
<1>4. Len(Scanned(prog, 1)) <= MaxProcs => registry = Scanned(prog, 1)
  BY <1>3, RegisterKeeps DEF Init
<1> QED
  BY <1>4 DEF AllKnown

\* Only SET PROCEDURE forgets, and the claim is about programs without it.
LEMMA KnownStays ==
    ASSUME IInv, Placed, AllKnown, Step, prog' = prog
    PROVE  AllKnown'
<1>1. registry \in Seq(Procedures) /\ Len(registry) <= MaxProcs /\ Typed /\ IsProgram(prog)
  BY ProgramsAssumption DEF Placed, Known, IInv, Typed
<1>2. CASE registry' = registry
  BY <1>2 DEF AllKnown
<1>3. CASE /\ Name(prog, cur) \in DOMAIN prog.files
           /\ registry' = Register(registry, Scanned(prog, prog.files[Name(prog, cur)]))
  <2>1. prog.files[Name(prog, cur)] \in 1..Len(prog.lines)
    BY <1>1, <1>3 DEF IsProgram
  <2>2. Scanned(prog, prog.files[Name(prog, cur)]) \in Seq(Procedures)
    BY <1>1, <2>1, ScannedType
  <2>3. \A j \in DOMAIN registry : j \in DOMAIN registry' /\ registry'[j] = registry[j]
    BY <1>1, <1>3, <2>2, RegisterKeeps
  <2> QED
    BY <2>3 DEF AllKnown
<1>4. CASE SetProcedure
  <2>1. Kw(prog, cur) = "setproc"
    BY <1>4 DEF SetProcedure, At
  <2>2. cur \in 1..Len(prog.lines)
    BY <1>1, <2>1, LineOfKeyword
  <2> QED
    BY <2>1, <2>2 DEF AllKnown
<1>5. registry' = registry \/ Do \/ SetProcedure
  BY DEF Step, Simple, IfTrue, IfFalse, WhileTrue, WhileFalse, DoCase, Raise, Return, Cancel,
         EndThen, EndElse, LoopAgain, LoopDone, EndBranch, EndCall, EndProgram, CaseTrue,
         CaseSkipped, Otherwise, OtherwiseSkipped, EndCase, NoBranch, PassOn, ExitLoop,
         Swallow, ReturnFromCall, ReturnFromProgram, Keep
<1> QED
  BY <1>2, <1>3, <1>4, <1>5 DEF Do

\* A step is one of a program that runs.
LEMMA StepRuns ==
    ASSUME Step
    PROVE  stack # <<>> /\ prog' = prog
<1>1. stack # <<>>
  BY DEF Step, Simple, IfTrue, IfFalse, WhileTrue, WhileFalse, DoCase, Raise, Return, Cancel,
         Do, SetProcedure,
         EndThen, EndElse, LoopAgain, LoopDone, EndBranch, EndCall, EndProgram, CaseTrue,
         CaseSkipped, Otherwise, OtherwiseSkipped, EndCase, NoBranch, PassOn, ExitLoop,
         Swallow, ReturnFromCall, ReturnFromProgram,
         At, Ending, AtLoopEnd, Choosing, Untaken, Leaving, Running
<1>2. prog' = prog
  BY DEF Step, Simple, IfTrue, IfFalse, WhileTrue, WhileFalse, DoCase, Raise, Return, Cancel,
         Do, SetProcedure,
         EndThen, EndElse, LoopAgain, LoopDone, EndBranch, EndCall, EndProgram, CaseTrue,
         CaseSkipped, Otherwise, OtherwiseSkipped, EndCase, NoBranch, PassOn, ExitLoop,
         Swallow, ReturnFromCall, ReturnFromProgram, Keep
<1> QED
  BY <1>1, <1>2

\* What history has recorded stays recorded.
LEMMA HistoryStays ==
    ASSUME Step, ~fellOff', ~refused'
    PROVE  ~fellOff /\ ~refused
<1>1. UNCHANGED <<fellOff, refused>> \/ Do \/ EndCall
  BY Zenon DEF Step, Simple, IfTrue, IfFalse, WhileTrue, WhileFalse, DoCase, Raise, Return, Cancel,
         SetProcedure, EndThen, EndElse, LoopAgain, LoopDone, EndBranch, EndProgram, CaseTrue,
         CaseSkipped, Otherwise, OtherwiseSkipped, EndCase, NoBranch, PassOn, ExitLoop,
         Swallow, ReturnFromCall, ReturnFromProgram, Keep, history
<1>2. ASSUME Do
      PROVE  (fellOff => fellOff') /\ (refused => refused')
  <2>1. \A kind, start : RunBody(kind, start) => (refused => refused')
    BY Zenon DEF RunBody
  <2>2. UNCHANGED <<stack, calls, registry, refused>> \/ \E kind, start : RunBody(kind, start)
    BY <1>2, Zenon DEF Do
  <2>3. UNCHANGED <<stack, calls, registry, refused>> => (refused => refused')
    BY Zenon
  <2>4. refused => refused'
    BY <2>1, <2>2, <2>3, Zenon
  <2>5. UNCHANGED <<prog, target, turns, fellOff>>
    BY <1>2, Zenon DEF Do
  <2>6. fellOff => fellOff'
    BY <2>5, Zenon
  <2> QED
    BY <2>4, <2>6, Zenon
<1>3. EndCall => fellOff'
  BY Zenon DEF EndCall
<1>4. CASE UNCHANGED <<fellOff, refused>>
  BY <1>4, Zenon
<1>5. CASE Do
  BY <1>2, <1>5, Zenon
<1>6. CASE EndCall
  BY <1>3, <1>6, Zenon
<1> QED
  BY <1>1, <1>4, <1>5, <1>6, Zenon

\* Each step of the interpreter is one of Structured, or none.
LEMMA StepMaps ==
    ASSUME Ready, Step, Settle, AllKnown, CallsKnown(prog)
    PROVE  Mapped /\ (stack' # <<>> => Kept)
<1>1. CASE Simple \/ IfTrue \/ IfFalse \/ WhileTrue \/ WhileFalse \/ DoCase \/ Raise \/ Return
           \/ Cancel \/ Do \/ SetProcedure
  BY <1>1, SimpleMaps, IfTrueMaps, IfFalseMaps, WhileTrueMaps, WhileFalseMaps, DoCaseMaps,
     RaiseMaps, ReturnMaps, CancelMaps, DoMaps, SetProcedureMaps
<1>2. CASE EndThen \/ EndElse \/ LoopAgain \/ LoopDone \/ EndBranch \/ EndCall \/ EndProgram
  BY <1>2, EndThenMaps, EndElseMaps, LoopAgainMaps, LoopDoneMaps, EndBranchMaps, EndCallMaps,
     EndProgramMaps
<1>3. CASE CaseTrue \/ Otherwise
  BY <1>3, BranchTaken DEF CaseTrue, Otherwise
<1>4. CASE CaseSkipped \/ OtherwiseSkipped
  <2>1. Running /\ Dispatching
    BY <1>4 DEF CaseSkipped, OtherwiseSkipped, Choosing
  <2>2. CASE CaseSkipped
    BY <2>1, <2>2, BranchSkipped DEF CaseSkipped, Choosing, Heads
  <2>3. CASE OtherwiseSkipped
    <3>1. /\ Kw(prog, cur) = "otherwise" /\ Top.matched /\ SkipBranch({"endcase"})
          /\ Stay /\ Keep
      BY <2>3 DEF OtherwiseSkipped, Choosing
    <3>2. "endcase" \in {"endcase"} /\ Kw(prog, cur) \in {"case", "otherwise"}
      BY <3>1
    <3>3. Top.matched \/ (Kw(prog, cur) = "case" /\ {"endcase"} = Heads)
      BY <3>1
    <3>4. SkipBranch({"endcase"}) /\ Stay /\ Keep
      BY <3>1
    <3>5. Mapped /\ Kept
      BY <2>1, <3>2, <3>3, <3>4, BranchSkipped
    <3> QED
      BY <3>5
  <2> QED
    BY <1>4, <2>2, <2>3
<1>5. CASE EndCase \/ NoBranch
  BY <1>5, EndCaseMaps, NoBranchMaps
<1>6. CASE PassOn \/ ExitLoop \/ Swallow \/ ReturnFromCall \/ ReturnFromProgram
  BY <1>6, PassOnMaps, ExitLoopMaps, NothingSwallowed, ReturnFromCallMaps, ReturnFromProgramMaps
<1> QED
  BY <1>1, <1>2, <1>3, <1>4, <1>5, <1>6 DEF Step

\* Control is where the block structure has it, as far as the program was tame.
Tracked == IInv /\ Placed /\ Sound /\ AllKnown

\* At first,
LEMMA TrackedFirst ==
    ASSUME Init, \A g \in Programs : WellFormed(g)
    PROVE  Tracked /\ Intended!Init
<1>1. IInv /\ Placed /\ AllKnown
  BY InitHolds, InitPlaced, KnownFirst
<1>2. Formed(prog)
  BY ProgramsAssumption DEF Init, Formed
<1>3. /\ Len(stack) = 1 /\ stack # <<>> /\ Top.kind = "tokens" /\ stack[1] = Top
      /\ IsCall(Top) /\ ~Dispatching
  BY DEF Init, Top, Started, IsCall, CallKinds, Dispatching
<1>4. Outside(prog, 1)
  <2>1. \A b \in 1..Len(prog.lines) : ~(b < 1)
    BY ProgramTypes, <1>1 DEF IInv
  <2> QED
    BY <2>1 DEF Outside, Encloses
<1>5. Chained
  BY <1>3 DEF Chained
<1>6. Here
  BY <1>3, <1>4 DEF Init, Here, In
<1>7. Returns = <<>>
  BY <1>1, <1>3, ReturnsNone
<1>8. Finished = FALSE
  BY <1>3 DEF Finished
<1>9. Intended!Init
  BY <1>7, <1>8 DEF Init, Intended!Init
<1> QED
  BY <1>1, <1>5, <1>6, <1>9 DEF Tracked, Sound

\* and from then on.
LEMMA TrackedStays ==
    ASSUME Tracked, [Next]_vars, \A g \in Programs : WellFormed(g) /\ CallsKnown(g)
    PROVE  Tracked' /\ [Live => Intended!Next]_Intended!vars
<1>1. IInv' /\ Placed'
  BY StepHolds, NextPlaced DEF Tracked
<1>2. CASE UNCHANGED vars
  <2>1. UNCHANGED <<prog, cur, stack, status, registry, line>>
    BY <1>2 DEF vars
  <2>2. AllKnown'
    BY <2>1 DEF Tracked, AllKnown
  <2>3. UNCHANGED <<fellOff, refused, Finished>>
    BY <1>2, Zenon DEF vars, Finished
  <2>4. Returns' = Returns
    BY <2>1, ReturnsPrimed
  <2>5. UNCHANGED Intended!vars
    BY <2>1, <2>3, <2>4, Zenon DEF Intended!vars
  <2>6. Sound'
    <3>1. Live' => Live
      BY <2>1, <2>3, Zenon DEF Live
    <3>2. SUFFICES ASSUME Live, stack # <<>> PROVE Chained' /\ Here'
      BY <2>1, <3>1 DEF Sound
    <3>3. Chained /\ Here
      BY <3>2 DEF Tracked, Sound
    <3>4. Chained'
      BY <2>1, <3>3, ChainKept
    <3>5. Here'
      BY <2>1, <3>3 DEF Here, Seeking, Raised, In, IsCall, Top, Dispatching
    <3> QED
      BY <3>4, <3>5
  <2> QED
    BY <1>1, <2>2, <2>5, <2>6 DEF Tracked
<1>3. CASE Step /\ Settle
  <2>1. stack # <<>> /\ prog' = prog
    BY <1>3, StepRuns
  <2>2. AllKnown'
    BY <1>3, <2>1, KnownStays DEF Tracked
  <2>3. CASE Live
    <3>1. Ready /\ AllKnown /\ CallsKnown(prog)
      <4>1. prog \in Programs
        BY DEF Tracked, IInv, Typed
      <4>2. Formed(prog)
        BY <4>1, ProgramsAssumption DEF Formed
      <4> QED
        BY <2>1, <2>3, <4>1, <4>2 DEF Tracked, Sound, Ready
    <3>2. Mapped /\ (stack' # <<>> => Kept)
      BY <1>3, <3>1, StepMaps
    <3>3. Sound'
      BY <3>2 DEF Sound, Kept
    <3> QED
      BY <1>1, <2>2, <3>2, <3>3 DEF Tracked, Mapped
  <2>4. CASE ~Live
    <3>1. ~Live'
      BY <1>3, <2>1, <2>4, HistoryStays DEF Live
    <3> QED
      BY <1>1, <2>2, <2>4, <3>1 DEF Tracked, Sound
  <2> QED
    BY <2>3, <2>4
<1> QED
  BY <1>2, <1>3 DEF Next

\* Whatever its conditions yield, a tame program takes the branches, turns and calls
\* of its block structure, and no others: every scan for ELSE, ENDIF, ENDDO or ENDCASE
\* stops at the end of the block it is in, EXIT and LOOP reach the loop around them, and
\* control comes back behind each DO.
THEOREM FollowsStructure ==
    ASSUME \A g \in Programs : WellFormed(g) /\ CallsKnown(g)
    PROVE  Spec => ImplementsStructured
<1>1. Init => Tracked /\ Intended!Init
  BY TrackedFirst
<1>2. Tracked /\ [Next]_vars => Tracked'
  BY TrackedStays
<1>3. Tracked /\ [Next]_vars =>
        [(Tame(prog) /\ ~fellOff /\ ~refused) => Intended!Next]_Intended!vars
  BY TrackedStays DEF Live
<1> QED
  BY <1>1, <1>2, <1>3, PTL DEF Spec, ImplementsStructured
=============================================================================
