---------------------------- MODULE MemVarsProofs ----------------------------
(***************************************************************************)
(* Proofs about MemVars: the store is one for every set of names and every *)
(* number of variables, whatever is restored into it; a SAVE that is cut   *)
(* short leaves the first of the variables it was to write; a RESTORE      *)
(* gives back what the last SAVE wrote.                                    *)
(***************************************************************************)
EXTENDS MemVars, OperatorLemmas, FiniteSetTheorems

-----------------------------------------------------------------------------
(* Sequences of any elements *)

IsSequence(s) == s \in Seq(ToSet(s))

\* A sequence is a function on 1..Len.
LEMMA SequenceFacts ==
    ASSUME NEW s, IsSequence(s)
    PROVE  Len(s) \in Nat /\ DOMAIN s = 1..Len(s)
BY LenProperties DEF IsSequence

\* A sequence over any set is one.
LEMMA SequenceOf ==
    ASSUME NEW U, NEW s \in Seq(U)
    PROVE  IsSequence(s)
<1>1. Len(s) \in Nat /\ DOMAIN s = 1..Len(s) /\ s = [i \in 1..Len(s) |-> s[i]]
  BY LenProperties
<1>2. \A i \in 1..Len(s) : s[i] \in ToSet(s)
  BY <1>1 DEF ToSet
<1> DEFINE T == ToSet(s)
           n == Len(s)
<1>3. s = [i \in 1..n |-> s[i]] /\ n \in Nat /\ \A i \in 1..n : s[i] \in T
  BY <1>1, <1>2
<1> HIDE DEF T, n
<1>4. [i \in 1..n |-> s[i]] \in Seq(T)
  BY <1>3, IsASeq
<1> QED
  BY <1>3, <1>4 DEF IsSequence, T

\* A function on 1..n is a sequence.
LEMMA SequenceFrom ==
    ASSUME NEW n \in Nat, NEW s, s = [i \in 1..n |-> s[i]]
    PROVE  IsSequence(s) /\ Len(s) = n
<1> DEFINE U == {s[i] : i \in 1..n}
<1>1. \A i \in 1..n : s[i] \in U
  OBVIOUS
<1> HIDE DEF U
<1>2. [i \in 1..n |-> s[i]] \in Seq(U)
  BY <1>1, IsASeq
<1>3. s \in Seq(U)
  BY <1>2
<1>4. DOMAIN s = 1..n /\ DOMAIN s = 1..Len(s) /\ Len(s) \in Nat
  BY <1>3, LenProperties
<1> QED
  BY <1>3, <1>4, SequenceOf

\* One element more.
LEMMA AppendFacts ==
    ASSUME NEW s, IsSequence(s), NEW x
    PROVE  /\ IsSequence(Append(s, x))
           /\ Len(Append(s, x)) = Len(s) + 1
           /\ \A i \in 1..Len(s) : Append(s, x)[i] = s[i]
           /\ Append(s, x)[Len(s) + 1] = x
<1> DEFINE U == ToSet(s) \cup {x}
<1>1. s \in Seq(U) /\ x \in U
  <2>1. ToSet(s) \subseteq U /\ x \in U
    OBVIOUS
  <2> HIDE DEF U
  <2> QED
    BY <2>1, SeqMonotonic DEF IsSequence
<1> HIDE DEF U
<1> DEFINE t == Append(s, x)
<1>2. /\ t \in Seq(U) /\ Len(t) = Len(s) + 1
      /\ \A i \in 1..Len(s) : t[i] = s[i]
      /\ t[Len(s) + 1] = x
  BY <1>1, AppendProperties
<1> HIDE DEF t
<1>3. IsSequence(t)
  BY <1>2, SequenceOf
<1> QED
  BY <1>2, <1>3 DEF t

\* Sequences with the same elements are the same.
LEMMA SequencesEqual ==
    ASSUME NEW s, NEW t, IsSequence(s), IsSequence(t),
           Len(s) = Len(t), \A i \in 1..Len(s) : s[i] = t[i]
    PROVE  s = t
<1> DEFINE U == ToSet(s) \cup ToSet(t)
<1>1. s \in Seq(U) /\ t \in Seq(U)
  <2>1. ToSet(s) \subseteq U /\ ToSet(t) \subseteq U
    OBVIOUS
  <2> HIDE DEF U
  <2> QED
    BY <2>1, SeqMonotonic DEF IsSequence
<1> HIDE DEF U
<1> QED
  BY <1>1, SeqEqual

\* The first elements of a sequence.
LEMMA CutFacts ==
    ASSUME NEW s, IsSequence(s), NEW n \in 0..Len(s)
    PROVE  /\ IsSequence(SubSeq(s, 1, n)) /\ Len(SubSeq(s, 1, n)) = n
           /\ \A i \in 1..n : SubSeq(s, 1, n)[i] = s[i]
<1>1. Len(s) \in Nat /\ n \in Int /\ 1 \in Int
  BY SequenceFacts
<1>2. \A i \in 1..n : s[i] \in ToSet(s)
  BY <1>1, SequenceFacts DEF ToSet
<1> DEFINE t == SubSeq(s, 1, n)
<1>3. /\ t \in Seq(ToSet(s))
      /\ Len(t) = IF 1 <= n THEN n - 1 + 1 ELSE 0
      /\ \A i \in 1..(n - 1 + 1) : t[i] = s[1 + i - 1]
  BY <1>1, <1>2, SubSeqProperties
<1> HIDE DEF t
<1>4. Len(t) = n /\ \A i \in 1..n : t[i] = s[i]
  <2>1. n - 1 + 1 = n /\ \A i \in 1..n : 1 + i - 1 = i
    BY <1>1
  <2> QED
    BY <1>1, <1>3, <2>1
<1>5. IsSequence(t)
  BY <1>3, SequenceOf
<1> QED
  BY <1>4, <1>5 DEF t

\* A prefix, element by element.
LEMMA PrefixMeans ==
    ASSUME NEW s, NEW t, IsSequence(s), IsSequence(t)
    PROVE  IsPrefix(s, t) <=> /\ Len(s) <= Len(t)
                              /\ \A i \in 1..Len(s) : s[i] = t[i]
<1>1. Len(s) \in Nat /\ Len(t) \in Nat
  BY SequenceFacts
<1>2. SUFFICES ASSUME Len(s) <= Len(t)
               PROVE  SubSeq(s, 1, Len(s)) = SubSeq(t, 1, Len(s))
                        <=> \A i \in 1..Len(s) : s[i] = t[i]
  BY DEF IsPrefix
<1> DEFINE a == SubSeq(s, 1, Len(s))
           b == SubSeq(t, 1, Len(s))
<1>3. /\ IsSequence(a) /\ Len(a) = Len(s) /\ \A i \in 1..Len(s) : a[i] = s[i]
      /\ IsSequence(b) /\ Len(b) = Len(s) /\ \A i \in 1..Len(s) : b[i] = t[i]
  BY <1>1, <1>2, CutFacts
<1> HIDE DEF a, b
<1>4. a = b <=> \A i \in 1..Len(s) : s[i] = t[i]
  BY <1>3, SequencesEqual
<1> QED
  BY <1>4 DEF a, b

\* What is chosen from a sequence is a sequence of some of its elements.
LEMMA ChosenSequence ==
    ASSUME NEW s, IsSequence(s), NEW S, NEW n \in 0..Len(s)
    PROVE  /\ IsSequence(Chosen(s, S, n)) /\ Len(Chosen(s, S, n)) <= n
           /\ \A i \in 1..Len(Chosen(s, S, n)) : \E j \in S \cap (1..n) : Chosen(s, S, n)[i] = s[j]
<1>1. n \in Nat
  BY SequenceFacts
<1> DEFINE T == {s[j] : j \in S \cap (1..n)}
<1>2. \A i \in 1..n : i \in S => s[i] \in T
  OBVIOUS
<1>3. \A x \in T : \E j \in S \cap (1..n) : x = s[j]
  OBVIOUS
<1> HIDE DEF T
<1>4. Chosen(s, S, n) \in Seq(T) /\ Len(Chosen(s, S, n)) <= n
  BY <1>1, <1>2, ChosenType
<1>5. \A i \in 1..Len(Chosen(s, S, n)) : Chosen(s, S, n)[i] \in T
  BY <1>4, ElementOfSeq
<1> QED
  BY <1>3, <1>4, <1>5, SequenceOf

\* What is chosen from the first elements comes first in what is chosen from all.
LEMMA ChosenFirst ==
    ASSUME NEW s, IsSequence(s), NEW S, NEW m \in 0..Len(s)
    PROVE  LET a == Chosen(s, S, m)
               b == Chosen(s, S, Len(s))
           IN Len(a) <= Len(b) /\ \A i \in 1..Len(a) : a[i] = b[i]
<1> DEFINE a == Chosen(s, S, m)
           c(n) == Chosen(s, S, n)
           K == {n \in Nat : m <= n /\ n <= Len(s) =>
                    Len(a) <= Len(c(n)) /\ \A i \in 1..Len(a) : a[i] = c(n)[i]}
<1>1. Len(s) \in Nat /\ m \in Nat
  BY SequenceFacts
<1>2. IsSequence(a) /\ Len(a) \in Nat
  BY ChosenSequence, SequenceFacts
<1>3. m \in K /\ \A n \in Nat : n < m => n \in K
  BY <1>1, <1>2
<1>4. 0 \in K
  BY <1>1, <1>3
<1>5. ASSUME NEW n \in Nat, n \in K PROVE n + 1 \in K
  <2> SUFFICES ASSUME m <= n, n + 1 <= Len(s)
               PROVE  Len(a) <= Len(c(n + 1)) /\ \A i \in 1..Len(a) : a[i] = c(n + 1)[i]
    BY <1>1, <1>3
  <2>1. Len(a) <= Len(c(n)) /\ \A i \in 1..Len(a) : a[i] = c(n)[i]
    BY <1>1, <1>5
  <2>2. IsSequence(c(n))
    BY <1>1, ChosenSequence
  <2>3. c(n + 1) = IF n + 1 \in S THEN Append(c(n), s[n + 1]) ELSE c(n)
    BY ChosenNext
  <2> HIDE DEF a, c
  <2>4. /\ Len(Append(c(n), s[n + 1])) = Len(c(n)) + 1
        /\ \A i \in 1..Len(c(n)) : Append(c(n), s[n + 1])[i] = c(n)[i]
        /\ Len(c(n)) \in Nat
    BY <2>2, AppendFacts, SequenceFacts
  <2>5. \A i \in 1..Len(a) : i \in 1..Len(c(n))
    BY <1>2, <2>1, <2>4
  <2>6. Len(a) <= Len(c(n)) + 1
    BY <1>2, <2>1, <2>4
  <2>7. CASE n + 1 \in S
    BY <2>1, <2>3, <2>4, <2>5, <2>6, <2>7
  <2>8. CASE n + 1 \notin S
    BY <2>1, <2>3, <2>8
  <2> QED
    BY <2>7, <2>8
<1>6. \A n \in Nat : n \in K
  <2> HIDE DEF K
  <2> QED
    BY <1>4, <1>5, SetInduction
<1> QED
  BY <1>1, <1>6

-----------------------------------------------------------------------------
(* The store *)

Stored(vs) == IsSequence(vs) /\ IsStore(vs)

\* Set gives a variable a new value, or adds one at the end if there is room.
LEMMA SetCases ==
    ASSUME NEW vs, Stored(vs), NEW n \in Names, NEW v, IsValue(v)
    PROVE  LET t == Set(vs, n, v)
           IN /\ IsSequence(t)
              /\ \/ /\ n \in NamesIn(vs) /\ Len(t) = Len(vs)
                    /\ \A i \in 1..Len(vs) :
                          t[i] = IF vs[i].name = n THEN Var(n, v) ELSE vs[i]
                 \/ /\ n \notin NamesIn(vs) /\ Len(vs) < MaxVars
                    /\ Len(t) = Len(vs) + 1 /\ t[Len(vs) + 1] = Var(n, v)
                    /\ \A i \in 1..Len(vs) : t[i] = vs[i]
                 \/ n \notin NamesIn(vs) /\ Len(vs) = MaxVars /\ t = vs
<1>1. Len(vs) \in Nat /\ DOMAIN vs = 1..Len(vs) /\ Len(vs) <= MaxVars
  BY SequenceFacts DEF Stored, IsStore
<1>2. CASE n \in NamesIn(vs)
  <2> DEFINE t == [i \in 1..Len(vs) |-> IF vs[i].name = n THEN Var(n, v) ELSE vs[i]]
  <2>1. Set(vs, n, v) = t
    BY <1>1, <1>2 DEF Set
  <2>2. t = [i \in 1..Len(vs) |-> t[i]]
    OBVIOUS
  <2>3. \A i \in 1..Len(vs) : t[i] = IF vs[i].name = n THEN Var(n, v) ELSE vs[i]
    OBVIOUS
  <2> HIDE DEF t
  <2>4. IsSequence(t) /\ Len(t) = Len(vs)
    BY <1>1, <2>2, SequenceFrom
  <2> QED
    BY <1>2, <2>1, <2>3, <2>4
<1>3. CASE n \notin NamesIn(vs) /\ Len(vs) < MaxVars
  <2>1. Set(vs, n, v) = Append(vs, Var(n, v))
    BY <1>3 DEF Set
  <2>2. /\ IsSequence(Append(vs, Var(n, v)))
        /\ Len(Append(vs, Var(n, v))) = Len(vs) + 1
        /\ \A i \in 1..Len(vs) : Append(vs, Var(n, v))[i] = vs[i]
        /\ Append(vs, Var(n, v))[Len(vs) + 1] = Var(n, v)
    BY AppendFacts DEF Stored
  <2> QED
    BY <1>3, <2>1, <2>2
<1>4. CASE n \notin NamesIn(vs) /\ ~(Len(vs) < MaxVars)
  <2>1. Set(vs, n, v) = vs
    BY <1>4 DEF Set
  <2>2. Len(vs) = MaxVars
    <3>1. MaxVars \in Nat /\ Len(vs) \in Nat /\ Len(vs) <= MaxVars /\ ~(Len(vs) < MaxVars)
      BY <1>1, <1>4, BoundsAssumption
    <3> QED
      BY <3>1
  <2> QED
    BY <1>4, <2>1, <2>2 DEF Stored
<1> QED
  BY <1>2, <1>3, <1>4

\* The name and the value of a variable.
LEMMA VarFields == \A n, v : Var(n, v).name = n /\ Var(n, v).value = v
BY DEF Var

\* The names in a store and its elements, by their places.
LEMMA NamesOfSequence ==
    ASSUME NEW vs, IsSequence(vs)
    PROVE  /\ NamesIn(vs) = {vs[i].name : i \in 1..Len(vs)}
           /\ ToSet(vs) = {vs[i] : i \in 1..Len(vs)}
BY SequenceFacts DEF NamesIn, ToSet

\* Setting a variable keeps the store one, and the others in it.
LEMMA SetFacts ==
    ASSUME NEW vs, Stored(vs), NEW n \in Names, NEW v, IsValue(v)
    PROVE  LET t == Set(vs, n, v)
           IN /\ Stored(t) /\ Len(t) >= Len(vs)
              /\ \/ Var(n, v) \in ToSet(t)
                 \/ n \notin NamesIn(t) /\ Len(t) = MaxVars
              /\ \A m \in Names \ {n} :
                    /\ \A w : Var(m, w) \in ToSet(vs) => Var(m, w) \in ToSet(t)
                    /\ m \notin NamesIn(vs) => m \notin NamesIn(t)
<1> DEFINE t == Set(vs, n, v)
<1>1. /\ Len(vs) \in Nat /\ Len(vs) <= MaxVars
      /\ \A i \in 1..Len(vs) : vs[i].name \in Names /\ IsValue(vs[i].value)
      /\ \A i, j \in 1..Len(vs) : vs[i].name = vs[j].name => i = j
  BY SequenceFacts DEF Stored, IsStore
<1>2. /\ IsSequence(t)
      /\ \/ /\ n \in NamesIn(vs) /\ Len(t) = Len(vs)
            /\ \A i \in 1..Len(vs) :
                  t[i] = IF vs[i].name = n THEN Var(n, v) ELSE vs[i]
         \/ /\ n \notin NamesIn(vs) /\ Len(vs) < MaxVars
            /\ Len(t) = Len(vs) + 1 /\ t[Len(vs) + 1] = Var(n, v)
            /\ \A i \in 1..Len(vs) : t[i] = vs[i]
         \/ n \notin NamesIn(vs) /\ Len(vs) = MaxVars /\ t = vs
  BY SetCases
<1> HIDE DEF t
<1>3. /\ NamesIn(vs) = {vs[i].name : i \in 1..Len(vs)}
      /\ ToSet(vs) = {vs[i] : i \in 1..Len(vs)}
      /\ NamesIn(t) = {t[i].name : i \in 1..Len(t)}
      /\ ToSet(t) = {t[i] : i \in 1..Len(t)}
      /\ DOMAIN t = 1..Len(t) /\ Len(t) \in Nat
  BY <1>2, NamesOfSequence, SequenceFacts DEF Stored
<1>4. CASE n \in NamesIn(vs) /\ Len(t) = Len(vs)
           /\ \A i \in 1..Len(vs) : t[i] = IF vs[i].name = n THEN Var(n, v) ELSE vs[i]
  <2>1. \A i \in 1..Len(vs) : t[i].name = vs[i].name /\ IsValue(t[i].value)
    BY <1>1, <1>4, VarFields
  <2>2. Stored(t)
    BY <1>1, <1>2, <1>3, <1>4, <2>1 DEF Stored, IsStore
  <2>3. PICK k \in 1..Len(vs) : vs[k].name = n
    BY <1>3, <1>4
  <2>4. Var(n, v) \in ToSet(t)
    BY <1>3, <1>4, <2>3
  <2>5. ASSUME NEW m \in Names \ {n}
        PROVE  /\ \A w : Var(m, w) \in ToSet(vs) => Var(m, w) \in ToSet(t)
               /\ m \notin NamesIn(vs) => m \notin NamesIn(t)
    <3>1. ASSUME NEW w, Var(m, w) \in ToSet(vs) PROVE Var(m, w) \in ToSet(t)
      <4>1. PICK k2 \in 1..Len(vs) : vs[k2] = Var(m, w)
        BY <1>3, <3>1
      <4>2. t[k2] = vs[k2]
        BY <1>4, <4>1, VarFields
      <4> QED
        BY <1>3, <1>4, <4>1, <4>2
    <3> QED
      BY <1>3, <1>4, <2>1, <3>1
  <2> QED
    BY <1>1, <1>4, <2>2, <2>4, <2>5 DEF t
<1>5. CASE n \notin NamesIn(vs) /\ Len(vs) < MaxVars
           /\ Len(t) = Len(vs) + 1 /\ t[Len(vs) + 1] = Var(n, v)
           /\ \A i \in 1..Len(vs) : t[i] = vs[i]
  <2>1. t[Len(vs) + 1].name = n /\ IsValue(t[Len(vs) + 1].value)
    BY <1>5, VarFields
  <2>2. Stored(t)
    <3>1. \A i \in 1..Len(t) : t[i].name \in Names /\ IsValue(t[i].value)
      BY <1>1, <1>5, <2>1
    <3>2. ASSUME NEW i \in 1..Len(t), NEW j \in 1..Len(t), t[i].name = t[j].name PROVE i = j
      BY <1>1, <1>3, <1>5, <2>1, <3>2
    <3>3. Len(t) <= MaxVars
      BY <1>1, <1>5, BoundsAssumption
    <3> QED
      BY <1>2, <1>3, <3>1, <3>2, <3>3 DEF Stored, IsStore
  <2>3. Var(n, v) \in ToSet(t)
    BY <1>1, <1>3, <1>5
  <2>4. ASSUME NEW m \in Names \ {n}
        PROVE  /\ \A w : Var(m, w) \in ToSet(vs) => Var(m, w) \in ToSet(t)
               /\ m \notin NamesIn(vs) => m \notin NamesIn(t)
    BY <1>1, <1>3, <1>5, <2>1
  <2> QED
    BY <1>1, <1>5, <2>2, <2>3, <2>4 DEF t
<1>6. CASE n \notin NamesIn(vs) /\ Len(vs) = MaxVars /\ t = vs
  BY <1>1, <1>6 DEF t
<1> QED
  BY <1>2, <1>4, <1>5, <1>6

\* The variables whose names are not among those set are what they were.
LEMMA SetLeavesOthers ==
    ASSUME NEW vs, Stored(vs), NEW n \in Names, NEW v, IsValue(v), NEW names, n \in names
    PROVE  LET t == Set(vs, n, v)
           IN OfNames(t, NamesIn(t) \ names) = OfNames(vs, NamesIn(vs) \ names)
<1> DEFINE t == Set(vs, n, v)
           S == {i \in DOMAIN vs : vs[i].name \in NamesIn(vs) \ names}
           T == {i \in DOMAIN t : t[i].name \in NamesIn(t) \ names}
<1>1. /\ IsSequence(t)
      /\ \/ /\ n \in NamesIn(vs) /\ Len(t) = Len(vs)
            /\ \A i \in 1..Len(vs) :
                  t[i] = IF vs[i].name = n THEN Var(n, v) ELSE vs[i]
         \/ /\ n \notin NamesIn(vs) /\ Len(vs) < MaxVars
            /\ Len(t) = Len(vs) + 1 /\ t[Len(vs) + 1] = Var(n, v)
            /\ \A i \in 1..Len(vs) : t[i] = vs[i]
         \/ n \notin NamesIn(vs) /\ Len(vs) = MaxVars /\ t = vs
  BY SetCases
<1>2. /\ OfNames(t, NamesIn(t) \ names) = Chosen(t, T, Len(t))
      /\ OfNames(vs, NamesIn(vs) \ names) = Chosen(vs, S, Len(vs))
  BY DEF OfNames
<1> HIDE DEF t
<1>3. /\ \A i : i \in S <=> i \in 1..Len(vs) /\ vs[i].name \notin names
      /\ \A i : i \in T <=> i \in 1..Len(t) /\ t[i].name \notin names
      /\ Len(vs) \in Nat
  BY <1>1, SequenceFacts DEF Stored, NamesIn
<1> HIDE DEF S, T
<1>4. CASE n \in NamesIn(vs) /\ Len(t) = Len(vs)
           /\ \A i \in 1..Len(vs) : t[i] = IF vs[i].name = n THEN Var(n, v) ELSE vs[i]
  <2>1. \A i \in 1..Len(vs) : (i \in S <=> i \in T) /\ (i \in S => vs[i] = t[i])
    BY <1>3, <1>4, VarFields
  <2>2. Chosen(vs, S, Len(vs)) = Chosen(t, T, Len(vs))
    BY <1>3, <2>1, ChosenSame
  <2> QED
    BY <1>2, <1>4, <2>2 DEF t
<1>5. CASE n \notin NamesIn(vs) /\ Len(vs) < MaxVars
           /\ Len(t) = Len(vs) + 1 /\ t[Len(vs) + 1] = Var(n, v)
           /\ \A i \in 1..Len(vs) : t[i] = vs[i]
  <2>1. \A i \in 1..Len(vs) : (i \in S <=> i \in T) /\ (i \in S => vs[i] = t[i])
    BY <1>3, <1>5
  <2>2. Chosen(vs, S, Len(vs)) = Chosen(t, T, Len(vs))
    BY <1>3, <2>1, ChosenSame
  <2>3. Len(vs) + 1 \notin T
    BY <1>3, <1>5, VarFields
  <2>4. Chosen(t, T, Len(vs) + 1) = Chosen(t, T, Len(vs))
    BY <1>3, <2>3, ChosenNext
  <2> QED
    BY <1>2, <1>5, <2>2, <2>4 DEF t
<1>6. CASE t = vs
  BY <1>6 DEF t
<1> QED
  BY <1>1, <1>4, <1>5, <1>6

-----------------------------------------------------------------------------
(* What a value is after SAVE and RESTORE *)

\* The length in a header is the length while it fits.
LEMMA LengthFits ==
    ASSUME NEW n \in Nat
    PROVE  n % LengthRadix \in Nat /\ (n < LengthRadix => n % LengthRadix = n)
BY BoundsAssumption

\* A value stays one.
LEMMA RestoredType ==
    ASSUME NEW v, IsValue(v)
    PROVE  IsValue(Restored(v))
<1>1. v \in [type : ValTypes, data : Int] /\ (v.type \in {"text", "date"} => v.data \in Nat)
  BY DEF IsValue, ValTypes
<1>2. CASE v.type = "real" /\ v.data % 2 = 0
  <2>1. Restored(v) = [v EXCEPT !.type = "integer"]
    BY <1>2 DEF Restored
  <2>2. /\ [v EXCEPT !.type = "integer"] \in [type : ValTypes, data : Int]
        /\ [v EXCEPT !.type = "integer"].type = "integer"
    BY <1>1 DEF ValTypes
  <2> QED
    BY <2>1, <2>2 DEF IsValue, ValTypes
<1>3. CASE v.type = "null"
  <2>1. Restored(v) = [type |-> "text", data |-> 0]
    BY <1>3 DEF Restored, Text
  <2> QED
    BY <2>1 DEF IsValue, ValTypes
<1>4. CASE v.type = "text"
  <2>1. v.data % LengthRadix \in Nat
    BY <1>1, <1>4, LengthFits
  <2> QED
    BY <1>4, <2>1 DEF Restored, IsValue, ValTypes, Text
<1>5. CASE v.type = "date"
  <2> DEFINE month == v.data \div 100
             day == v.data % 100
  <2>1. month \in Nat /\ day \in Nat
    BY <1>1, <1>5
  <2>2. Restored(v) = RestoredDate(month, day)
    <3>1. ~(v.type = "real" /\ v.data % 2 = 0) /\ v.type # "null" /\ v.type # "text"
      BY <1>5
    <3> QED
      BY <1>5, <3>1 DEF Restored
  <2> HIDE DEF month, day
  <2>3. \A m, d \in Nat : IsValue(Date(m, d))
    BY DEF Date, IsValue, ValTypes
  <2>4. (month % 12) + 1 \in Nat /\ 0 \in Nat
    BY <2>1
  <2> QED
    BY <2>1, <2>2, <2>3, <2>4 DEF RestoredDate
<1>6. CASE v.type \notin {"null", "text", "date"} /\ ~(v.type = "real" /\ v.data % 2 = 0)
  BY <1>6 DEF Restored
<1> QED
  BY <1>2, <1>3, <1>4, <1>5, <1>6

\* What is not listed as altered is what it was.
LEMMA RestoredSame ==
    ASSUME NEW v, IsValue(v), ~Altered(v)
    PROVE  Restored(v) = v
<1>1. v \in [type : ValTypes, data : Int] /\ (v.type = "text" => v.data \in Nat)
  BY DEF IsValue
<1>2. CASE v.type = "text"
  <2>1. v.data % LengthRadix = v.data
    BY <1>1, <1>2, LengthFits, BoundsAssumption DEF Altered, Overlong
  <2>2. v = [type |-> "text", data |-> v.data]
    BY <1>1, <1>2
  <2> QED
    BY <1>2, <2>1, <2>2 DEF Restored, Text
<1>3. CASE v.type # "text"
  BY <1>3 DEF Altered, Restored
<1> QED
  BY <1>2, <1>3

-----------------------------------------------------------------------------
(* RESTORE, record by record *)

Loading(l, f, vs, i) ==
    IF i = 0 THEN vs ELSE Set(l[i - 1], f[i].name, Restored(f[i].value))

Loads(l, f, vs, D) == l = [i \in D |-> Loading(l, f, vs, i)]

\* Up to each number there is a function that follows the recursion of Load.
LEMMA LoadsUpTo ==
    ASSUME NEW f, NEW vs
    PROVE  \A n \in Nat : \E l : Loads(l, f, vs, 0..n)
<1> DEFINE K == {n \in Nat : \E l : Loads(l, f, vs, 0..n)}
<1>1. 0 \in K
  <2> DEFINE l == [i \in 0..0 |-> vs]
  <2>1. l = [i \in 0..0 |-> Loading(l, f, vs, i)]
    BY DEF Loading
  <2> QED
    BY <2>1 DEF Loads
<1>2. ASSUME NEW n \in Nat, n \in K PROVE n + 1 \in K
  <2>1. PICK l : Loads(l, f, vs, 0..n)
    BY <1>2
  <2> DEFINE k == [i \in 0..(n + 1) |-> IF i = n + 1 THEN Loading(l, f, vs, i) ELSE l[i]]
  <2>2. \A i \in 0..n : l[i] = Loading(l, f, vs, i) /\ k[i] = l[i]
    <3>1. l = [i \in 0..n |-> Loading(l, f, vs, i)]
      BY <2>1 DEF Loads
    <3>2. \A i \in 0..n : l[i] = Loading(l, f, vs, i)
      BY <3>1
    <3>3. \A i \in 0..n : k[i] = l[i]
      OBVIOUS
    <3> QED
      BY <3>2, <3>3
  <2>3. ASSUME NEW i \in 0..(n + 1)
        PROVE  k[i] = Loading(k, f, vs, i)
    <3>1. i # 0 => i - 1 \in 0..n
      OBVIOUS
    <3>2. Loading(k, f, vs, i) = Loading(l, f, vs, i)
      BY <2>2, <3>1 DEF Loading
    <3>3. CASE i = n + 1
      BY <3>2, <3>3
    <3>4. CASE i # n + 1
      <4>1. i \in 0..n
        BY <3>4
      <4> QED
        BY <2>2, <3>2, <4>1
    <3> QED
      BY <3>3, <3>4
  <2>4. Loads(k, f, vs, 0..(n + 1))
    <3> HIDE DEF k
    <3>1. DOMAIN k = 0..(n + 1) /\ k = [i \in DOMAIN k |-> k[i]]
      BY DEF k
    <3> QED
      BY <2>3, <3>1 DEF Loads
  <2> QED
    BY <2>4
<1> HIDE DEF K
<1>3. \A n \in Nat : n \in K
  BY <1>1, <1>2, SetInduction
<1> QED
  BY <1>3 DEF K

\* Two functions that follow it agree as far as both go.
LEMMA LoadsAgree ==
    ASSUME NEW f, NEW vs, NEW l, NEW k, NEW m \in Nat, NEW n \in Nat, m <= n,
           Loads(l, f, vs, 0..m), Loads(k, f, vs, 0..n)
    PROVE  \A i \in 0..m : l[i] = k[i]
<1>1. \A i \in 0..m : l[i] = Loading(l, f, vs, i)
  BY DEF Loads
<1>2. \A i \in 0..n : k[i] = Loading(k, f, vs, i)
  BY DEF Loads
<1> DEFINE K == {i \in Nat : i <= m => l[i] = k[i]}
<1>3. 0 \in K
  BY <1>1, <1>2 DEF Loading
<1>4. ASSUME NEW i \in Nat, i \in K PROVE i + 1 \in K
  <2> SUFFICES ASSUME i + 1 <= m PROVE l[i + 1] = k[i + 1]
    OBVIOUS
  <2>1. l[i] = k[i] /\ i + 1 - 1 = i /\ i + 1 # 0
    BY <1>4
  <2>2. l[i + 1] = Loading(l, f, vs, i + 1) /\ k[i + 1] = Loading(k, f, vs, i + 1)
    BY <1>1, <1>2
  <2> QED
    BY <2>1, <2>2 DEF Loading
<1> HIDE DEF K
<1>5. \A i \in Nat : i \in K
  BY <1>3, <1>4, SetInduction
<1> QED
  BY <1>5 DEF K

\* Load(vs) is what the last of a chain of stores holds, the first of which is vs.
LEMMA LoadFollows ==
    ASSUME NEW vs
    PROVE  \E l : /\ Load(vs) = l[Cardinality(Legible)]
                  /\ \A n \in Nat : l[n] = Loading(l, file, vs, n)
<1> DEFINE f == file
           UpTo(n) == CHOOSE l : Loads(l, f, vs, 0..n)
           k == [n \in Nat |-> UpTo(n)[n]]
           l == CHOOSE l : Loads(l, f, vs, Nat)
<1>1. ASSUME NEW n \in Nat PROVE Loads(UpTo(n), f, vs, 0..n)
  BY LoadsUpTo
<1> HIDE DEF UpTo
<1>2. ASSUME NEW n \in Nat PROVE k[n] = Loading(k, f, vs, n)
  <2>1. UpTo(n)[n] = Loading(UpTo(n), f, vs, n)
    <3>1. UpTo(n) = [i \in 0..n |-> Loading(UpTo(n), f, vs, i)]
      BY <1>1 DEF Loads
    <3>2. n \in 0..n
      OBVIOUS
    <3> QED
      BY <3>1, <3>2
  <2>2. CASE n = 0
    BY <2>1, <2>2 DEF Loading
  <2>3. CASE n # 0
    <3>1. n - 1 \in Nat /\ n - 1 <= n /\ n - 1 \in 0..(n - 1)
      BY <2>3
    <3>2. UpTo(n - 1)[n - 1] = UpTo(n)[n - 1]
      BY <1>1, <3>1, LoadsAgree
    <3> QED
      BY <2>1, <3>1, <3>2 DEF Loading
  <2> QED
    BY <2>2, <2>3
<1>3. Loads(k, f, vs, Nat)
  <2> HIDE DEF k
  <2>1. DOMAIN k = Nat /\ k = [n \in DOMAIN k |-> k[n]]
    BY DEF k
  <2> QED
    BY <1>2, <2>1 DEF Loads
<1> HIDE DEF k
<1>4. Loads(l, f, vs, Nat)
  BY <1>3
<1>5. Load(vs) = l[Cardinality(Legible)]
  BY DEF Load, Loads, Loading
<1> HIDE DEF l
<1>6. \A n \in Nat : l[n] = Loading(l, f, vs, n)
  BY <1>4 DEF Loads
<1> QED
  BY <1>5, <1>6

\* The records that are read are the first ones.
LEMMA LegibleFacts ==
    ASSUME IsSequence(file)
    PROVE  /\ Cardinality(Legible) \in 0..Len(file)
           /\ (\A i \in DOMAIN file : ~Overlong(file[i].value)) => Cardinality(Legible) = Len(file)
<1>1. Len(file) \in Nat /\ DOMAIN file = 1..Len(file)
  BY SequenceFacts
<1>2. IsFiniteSet(1..Len(file)) /\ Cardinality(1..Len(file)) = Len(file)
  <2>1. /\ IsFiniteSet(1..Len(file))
        /\ Cardinality(1..Len(file)) = IF 1 > Len(file) THEN 0 ELSE Len(file) - 1 + 1
    BY <1>1, FS_Interval
  <2> QED
    BY <1>1, <2>1
<1>3. Legible \subseteq 1..Len(file)
  BY <1>1 DEF Legible
<1>4. IsFiniteSet(Legible) /\ Cardinality(Legible) <= Cardinality(1..Len(file))
  BY <1>2, <1>3, FS_Subset
<1>5. Cardinality(Legible) \in Nat
  BY <1>4, FS_CardinalityType
<1>6. (\A i \in DOMAIN file : ~Overlong(file[i].value)) => Legible = 1..Len(file)
  BY <1>1 DEF Legible
<1> QED
  BY <1>1, <1>2, <1>4, <1>5, <1>6

\* Whatever the file holds, the store it is read into stays one; it holds what
\* the last record under each name gave, unless it is full.
LEMMA LoadFacts ==
    ASSUME IsSequence(file),
           \A i \in DOMAIN file : file[i].name \in Names /\ IsValue(file[i].value),
           NEW vs, Stored(vs), NEW names,
           \A i \in DOMAIN file : file[i].name \in names
    PROVE  LET t == Load(vs)
               n == Cardinality(Legible)
           IN /\ Stored(t)
              /\ OfNames(t, NamesIn(t) \ names) = OfNames(vs, NamesIn(vs) \ names)
              /\ \A i \in 1..n :
                    (\A j \in (i + 1)..n : file[j].name # file[i].name) =>
                       \/ Var(file[i].name, Restored(file[i].value)) \in ToSet(t)
                       \/ file[i].name \notin NamesIn(t) /\ Len(t) = MaxVars
<1>1. PICK l : /\ Load(vs) = l[Cardinality(Legible)]
               /\ \A n \in Nat : l[n] = Loading(l, file, vs, n)
  BY LoadFollows
<1>2. /\ Cardinality(Legible) \in Nat /\ Cardinality(Legible) <= Len(file)
      /\ Len(file) \in Nat /\ DOMAIN file = 1..Len(file)
  BY LegibleFacts, SequenceFacts
<1> DEFINE Held(n) ==
             \A i \in 1..n :
                (\A j \in (i + 1)..n : file[j].name # file[i].name) =>
                   \/ Var(file[i].name, Restored(file[i].value)) \in ToSet(l[n])
                   \/ file[i].name \notin NamesIn(l[n]) /\ Len(l[n]) = MaxVars
           Others(t) == OfNames(t, NamesIn(t) \ names)
           K == {n \in Nat : n <= Len(file) =>
                    /\ Stored(l[n])
                    /\ Others(l[n]) = Others(vs)
                    /\ Held(n)}
<1>3. 0 \in K
  <2>1. l[0] = vs
    BY <1>1 DEF Loading
  <2>2. Held(0)
    OBVIOUS
  <2> HIDE DEF Held
  <2> QED
    BY <2>1, <2>2
<1>4. ASSUME NEW n \in Nat, n \in K PROVE n + 1 \in K
  <2> SUFFICES ASSUME n + 1 <= Len(file)
               PROVE  Stored(l[n + 1]) /\ Others(l[n + 1]) = Others(vs) /\ Held(n + 1)
    OBVIOUS
  <2> DEFINE x == file[n + 1].name
             v == Restored(file[n + 1].value)
  <2>1. Stored(l[n]) /\ Others(l[n]) = Others(vs) /\ Held(n)
    BY <1>2, <1>4
  <2>2. l[n + 1] = Set(l[n], x, v)
    <3>1. n + 1 \in Nat /\ n + 1 # 0 /\ n + 1 - 1 = n
      OBVIOUS
    <3>2. l[n + 1] = Loading(l, file, vs, n + 1)
      BY <1>1, <3>1
    <3> QED
      BY <3>1, <3>2 DEF Loading
  <2>3. x \in Names /\ x \in names /\ IsValue(v)
    <3>1. n + 1 \in DOMAIN file
      BY <1>2
    <3> QED
      BY <3>1, RestoredType
  <2> DEFINE t == l[n + 1]
  <2> HIDE DEF x, v
  <2>4. /\ Stored(t) /\ Len(t) >= Len(l[n])
        /\ Var(x, v) \in ToSet(t) \/ (x \notin NamesIn(t) /\ Len(t) = MaxVars)
        /\ \A m \in Names \ {x} :
              /\ \A w : Var(m, w) \in ToSet(l[n]) => Var(m, w) \in ToSet(t)
              /\ m \notin NamesIn(l[n]) => m \notin NamesIn(t)
    BY <2>1, <2>2, <2>3, SetFacts
  <2>5. Others(t) = Others(l[n])
    BY <2>1, <2>2, <2>3, SetLeavesOthers
  <2>6. Len(t) \in Nat /\ Len(t) <= MaxVars /\ Len(l[n]) \in Nat /\ MaxVars \in Nat
    BY <2>1, <2>4, SequenceFacts, BoundsAssumption DEF Stored, IsStore
  <2>7. ASSUME NEW i \in 1..(n + 1), \A j \in (i + 1)..(n + 1) : file[j].name # file[i].name
        PROVE  \/ Var(file[i].name, Restored(file[i].value)) \in ToSet(t)
               \/ file[i].name \notin NamesIn(t) /\ Len(t) = MaxVars
    <3>1. CASE i = n + 1
      BY <2>4, <3>1 DEF x, v
    <3>2. CASE i # n + 1
      <4>1. i \in 1..n /\ n + 1 \in (i + 1)..(n + 1) /\ i \in DOMAIN file
        BY <1>2, <3>2
      <4>2. file[i].name \in Names \ {x}
        BY <2>7, <4>1 DEF x
      <4>3. \A j \in (i + 1)..n : file[j].name # file[i].name
        BY <2>7
      <4>4. \/ Var(file[i].name, Restored(file[i].value)) \in ToSet(l[n])
            \/ file[i].name \notin NamesIn(l[n]) /\ Len(l[n]) = MaxVars
        BY <2>1, <4>1, <4>3
      <4>5. Len(l[n]) = MaxVars => Len(t) = MaxVars
        BY <2>4, <2>6
      <4> QED
        BY <2>4, <4>2, <4>4, <4>5
    <3> QED
      BY <3>1, <3>2
  <2> QED
    BY <2>1, <2>4, <2>5, <2>7
<1>5. \A n \in Nat : n \in K
  <2> HIDE DEF K
  <2> QED
    BY <1>3, <1>4, SetInduction
<1> DEFINE n == Cardinality(Legible)
<1>6. Stored(l[n]) /\ Others(l[n]) = Others(vs) /\ Held(n)
  <2>1. n \in K /\ n <= Len(file)
    BY <1>2, <1>5
  <2> HIDE DEF Held, n
  <2> QED
    BY <2>1
<1> QED
  BY <1>1, <1>6

-----------------------------------------------------------------------------
(* SAVE, variable by variable *)

\* The variables as a file holds them.
LEMMA ShortenedFacts ==
    ASSUME NEW vs, IsSequence(vs)
    PROVE  /\ IsSequence(Shortened(vs)) /\ Len(Shortened(vs)) = Len(vs)
           /\ \A i \in 1..Len(vs) :
                 Shortened(vs)[i] = Var(Short[vs[i].name], vs[i].value)
<1>1. Len(vs) \in Nat /\ DOMAIN vs = 1..Len(vs)
  BY SequenceFacts
<1> DEFINE t == Shortened(vs)
<1>2. t = [i \in 1..Len(vs) |-> Var(Short[vs[i].name], vs[i].value)]
  BY <1>1 DEF Shortened
<1> HIDE DEF t
<1>3. IsSequence(t) /\ Len(t) = Len(vs)
  BY <1>1, <1>2, SequenceFrom
<1> QED
  BY <1>2, <1>3 DEF t

\* One variable more is one record more.
LEMMA ShortenedAppend ==
    ASSUME NEW vs, IsSequence(vs), NEW x
    PROVE  Shortened(Append(vs, x)) = Append(Shortened(vs), Var(Short[x.name], x.value))
<1> DEFINE a == Shortened(Append(vs, x))
           y == Var(Short[x.name], x.value)
           b == Append(Shortened(vs), y)
<1>1. /\ IsSequence(Append(vs, x)) /\ Len(Append(vs, x)) = Len(vs) + 1
      /\ \A i \in 1..Len(vs) : Append(vs, x)[i] = vs[i]
      /\ Append(vs, x)[Len(vs) + 1] = x
  BY AppendFacts
<1>2. /\ IsSequence(a) /\ Len(a) = Len(vs) + 1
      /\ \A i \in 1..(Len(vs) + 1) :
            a[i] = Var(Short[Append(vs, x)[i].name], Append(vs, x)[i].value)
  BY <1>1, ShortenedFacts
<1>3. /\ IsSequence(Shortened(vs)) /\ Len(Shortened(vs)) = Len(vs)
      /\ \A i \in 1..Len(vs) : Shortened(vs)[i] = Var(Short[vs[i].name], vs[i].value)
  BY ShortenedFacts
<1> HIDE DEF y
<1>4. /\ IsSequence(b) /\ Len(b) = Len(vs) + 1
      /\ \A i \in 1..Len(vs) : b[i] = Shortened(vs)[i]
      /\ b[Len(vs) + 1] = y
  BY <1>3, AppendFacts
<1> HIDE DEF a, b
<1>5. \A i \in 1..(Len(vs) + 1) : a[i] = b[i]
  <2> TAKE i \in 1..(Len(vs) + 1)
  <2>1. Len(vs) \in Nat
    BY SequenceFacts
  <2>2. CASE i \in 1..Len(vs)
    BY <1>1, <1>2, <1>3, <1>4, <2>2
  <2>3. CASE i = Len(vs) + 1
    BY <1>1, <1>2, <1>4, <2>3 DEF y
  <2> QED
    BY <2>1, <2>2, <2>3
<1>6. a = b
  BY <1>2, <1>4, <1>5, SequencesEqual
<1> QED
  BY <1>6 DEF a, b, y

\* What is chosen from a store is one.
LEMMA ChosenStored ==
    ASSUME NEW vs, Stored(vs), NEW names
    PROVE  Stored(OfNames(vs, names)) /\ Len(OfNames(vs, names)) <= Len(vs)
<1> DEFINE S == {i \in DOMAIN vs : vs[i].name \in names}
           n == Len(vs)
           t == Chosen(vs, S, n)
<1>1. n \in Nat /\ DOMAIN vs = 1..n /\ n <= MaxVars /\ MaxVars \in Nat
  BY SequenceFacts, BoundsAssumption DEF Stored, IsStore
<1> HIDE DEF S
<1>2. IsSequence(t) /\ Len(t) <= n
  <2>1. IsSequence(vs) /\ n \in 0..Len(vs)
    BY <1>1 DEF Stored
  <2> QED
    BY <2>1, ChosenSequence
<1>3. /\ Len(t) = Len(Places(S, n))
      /\ \A m \in 1..Len(Places(S, n)) : t[m] = vs[Places(S, n)[m]]
  BY <1>1, ChosenAt
<1>4. \A m \in 1..Len(Places(S, n)) : Places(S, n)[m] \in S \cap (1..n)
  BY <1>1, PlacesType
<1>5. \A i, j \in 1..Len(Places(S, n)) : Places(S, n)[i] = Places(S, n)[j] => i = j
  <2>1. \A i, j \in 1..Len(Places(S, n)) : i < j => Places(S, n)[i] < Places(S, n)[j]
    BY <1>1, PlacesRise
  <2>2. \A m \in 1..Len(Places(S, n)) : Places(S, n)[m] \in Nat
    BY <1>1, <1>4
  <2> QED
    BY <1>1, <2>1, <2>2, PlacesType
<1> HIDE DEF n, t
<1>6. \A i \in 1..Len(t) : t[i].name \in Names /\ IsValue(t[i].value)
  BY <1>1, <1>3, <1>4 DEF Stored, IsStore
<1>7. \A i, j \in 1..Len(t) : t[i].name = t[j].name => i = j
  BY <1>1, <1>3, <1>4, <1>5 DEF Stored, IsStore
<1>8. Len(t) \in Nat /\ DOMAIN t = 1..Len(t) /\ Len(t) <= MaxVars
  BY <1>1, <1>2, SequenceFacts
<1>9. Stored(t)
  BY <1>2, <1>6, <1>7, <1>8 DEF Stored, IsStore
<1> QED
  BY <1>2, <1>9 DEF t, n, S, OfNames

\* The names SAVE ALL collects are names.
LEMMA FilteredNames ==
    ASSUME Stored(vars), NEW matching
    PROVE  Filtered(matching) \subseteq Names
<1>1. \A vs : Stored(vs) => NamesIn(vs) \subseteq Names
  BY DEF Stored, IsStore, NamesIn
<1> DEFINE found == OfNames(vars, matching)
           least == Min({Len(found), MaxFiltered})
           kept == SubSeq(found, 1, least)
<1>2. Stored(found)
  BY ChosenStored
<1>3. Len(found) \in Nat /\ MaxFiltered \in Nat
  BY <1>2, SequenceFacts, BoundsAssumption DEF Stored
<1>4. least \in 0..Len(found)
  <2> DEFINE S == {Len(found), MaxFiltered}
  <2>1. \E x \in S : \A y \in S : x =< y
    BY <1>3
  <2> HIDE DEF S
  <2>2. Min(S) \in S /\ \A y \in S : Min(S) =< y
    BY <2>1 DEF Min
  <2>3. least \in Nat /\ least =< Len(found)
    BY <1>3, <2>2 DEF S
  <2> QED
    BY <1>3, <2>3
<1> HIDE DEF found, least
<1>5. /\ IsSequence(kept) /\ Len(kept) = least
      /\ \A i \in 1..least : kept[i] = found[i]
  BY <1>2, <1>4, CutFacts DEF Stored
<1> HIDE DEF kept
<1>6. NamesIn(kept) \subseteq Names
  <2>1. DOMAIN kept = 1..least /\ 1..least \subseteq DOMAIN found
    BY <1>2, <1>4, <1>5, SequenceFacts DEF Stored
  <2> QED
    BY <1>2, <1>5, <2>1 DEF NamesIn, Stored, IsStore
<1>7. Filtered(matching) = IF kept = << >> THEN NamesIn(vars) ELSE NamesIn(kept)
  BY DEF Filtered, kept, found, least
<1> QED
  BY <1>1, <1>6, <1>7

-----------------------------------------------------------------------------
(* The invariant *)

\* The variables to be saved among the first n of the store.
Selected(n) == Chosen(vars, {i \in DOMAIN vars : vars[i].name \in op.names}, n)

\* In front of its place the SAVE has written what it was to write of it.
Saving ==
    op # Idle => /\ op \in [kind : {"save"}, names : SUBSET Names, next : Nat]
                 /\ ~whole
                 /\ saved = Selected(Len(vars))
                 /\ file = Shortened(Selected(op.next - 1))

IInv ==
    /\ TypeOK
    /\ Stored(vars) /\ Stored(saved) /\ IsSequence(file)
    /\ FileIsPrefix
    /\ Saving

\* No variables are a store.
LEMMA EmptyStore == Stored(<< >>) /\ Shortened(<< >>) = << >> /\ NamesIn(<< >>) = {}
<1>1. << >> \in Seq({}) /\ Len(<< >>) = 0
  BY EmptySeq
<1>2. IsSequence(<< >>) /\ DOMAIN << >> = 1..0
  BY <1>1, SequenceOf, LenProperties
<1>3. Stored(<< >>) /\ NamesIn(<< >>) = {}
  BY <1>1, <1>2, BoundsAssumption DEF Stored, IsStore, NamesIn
<1>4. IsSequence(Shortened(<< >>)) /\ Len(Shortened(<< >>)) = 0
  BY <1>1, <1>2, ShortenedFacts
<1>5. Shortened(<< >>) = << >>
  BY <1>1, <1>2, <1>4, SequencesEqual
<1> QED
  BY <1>3, <1>5

\* Every sequence begins with itself and with nothing.
LEMMA SequenceIsPrefix ==
    ASSUME NEW s, IsSequence(s)
    PROVE  IsPrefix(s, s) /\ IsPrefix(<< >>, s)
<1>1. IsSequence(<< >>) /\ Len(<< >>) = 0 /\ Len(s) \in Nat
  BY EmptyStore, EmptySeq, SequenceFacts DEF Stored
<1> QED
  BY <1>1, PrefixMeans

\* It holds at the start.
LEMMA InitIInv == Init => IInv
<1> SUFFICES ASSUME Init PROVE IInv
  OBVIOUS
<1>1. vars = << >> /\ file = << >> /\ op = Idle /\ saved = << >> /\ whole = TRUE
  BY DEF Init
<1>2. Stored(<< >>) /\ IsSequence(<< >>) /\ DOMAIN << >> = 1..0
  BY EmptyStore, SequenceFacts, EmptySeq DEF Stored
<1>3. FileIsPrefix
  BY <1>1, <1>2, EmptyStore, SequenceIsPrefix DEF FileIsPrefix
<1>4. TypeOK
  BY <1>1, <1>2 DEF TypeOK, Stored
<1> QED
  BY <1>1, <1>2, <1>3, <1>4 DEF IInv, Saving

\* An assignment, a CLEAR or a RESTORE changes the store and nothing else.
LEMMA StoreIInv ==
    ASSUME IInv, op = Idle, Stored(vars'), UNCHANGED <<file, op, saved, whole>>
    PROVE  IInv'
BY DEF IInv, TypeOK, Stored, FileIsPrefix, Saving

\* RESTORE reads into the store what makes it a store again.
LEMMA RestoreIInv ==
    ASSUME IInv, NEW additive \in BOOLEAN, Restore(additive)
    PROVE  IInv'
<1>1. Stored(IF additive THEN vars ELSE << >>)
  BY EmptyStore DEF IInv
<1>2. \A i \in DOMAIN file : file[i].name \in Names /\ IsValue(file[i].value)
  BY NamesAssumption DEF IInv, TypeOK
<1>3. Stored(Load(IF additive THEN vars ELSE << >>))
  BY <1>1, <1>2, LoadFacts DEF IInv
<1> QED
  BY <1>3, StoreIInv DEF Restore

\* A SAVE that starts empties the file.
LEMMA SaveStartIInv ==
    ASSUME IInv, NEW names, names \subseteq Names, SaveStart(names)
    PROVE  IInv'
<1>1. /\ op' = [kind |-> "save", names |-> names, next |-> 1]
      /\ file' = << >> /\ saved' = OfNames(vars, names)
      /\ whole' = FALSE /\ vars' = vars
  BY DEF SaveStart, NewFile
<1>2. Stored(vars) /\ Stored(saved') /\ Len(vars) \in Nat
  BY <1>1, ChosenStored, SequenceFacts DEF IInv, Stored
<1>3. /\ IsSequence(<< >>) /\ DOMAIN << >> = 1..0 /\ Shortened(<< >>) = << >>
      /\ IsSequence(Shortened(saved'))
  BY <1>2, EmptyStore, SequenceFacts, EmptySeq, ShortenedFacts DEF Stored
<1>4. FileIsPrefix'
  BY <1>1, <1>3, SequenceIsPrefix DEF FileIsPrefix, Shortened
<1>5. TypeOK'
  <2>1. op'.kind = "save" /\ op'.names = names /\ op'.next = 1
    BY <1>1
  <2>2. (\E n \in 1..(Len(vars) + 1) : n = 1) /\ \A i \in DOMAIN << >> : FALSE
    BY <1>2, <1>3
  <2>3. IsStore(vars') /\ IsStore(saved')
    BY <1>1, <1>2 DEF Stored
  <2> QED
    BY <1>1, <2>1, <2>2, <2>3 DEF TypeOK
<1>6. Saving'
  <2>1. Selected(0)' = << >> /\ Selected(Len(vars))' = saved'
    BY <1>1, ChosenZero DEF Selected, OfNames
  <2>2. op'.next - 1 = 0
    BY <1>1
  <2> QED
    BY <1>1, <1>3, <2>1, <2>2 DEF Saving, Selected, Shortened
<1> QED
  BY <1>1, <1>2, <1>3, <1>4, <1>5, <1>6 DEF IInv

\* One variable more is selected and written, or none is.
LEMMA SaveRecordIInv ==
    ASSUME IInv, SaveRecord
    PROVE  IInv'
<1> DEFINE n == op.next
           x == vars[n]
           S == {i \in DOMAIN vars : vars[i].name \in op.names}
<1>1. /\ op # Idle /\ op \in [kind : {"save"}, names : SUBSET Names, next : Nat]
      /\ n \in 1..(Len(vars) + 1) /\ n <= Len(vars)
      /\ op' = [op EXCEPT !.next = n + 1]
      /\ file' = IF x.name \in op.names THEN Append(file, Var(Short[x.name], x.value)) ELSE file
      /\ vars' = vars /\ saved' = saved /\ whole' = whole
  <2>1. op # Idle
    BY DEF SaveRecord, Idle
  <2> QED
    BY <2>1 DEF SaveRecord, IInv, TypeOK, Saving
<1>2. Stored(vars) /\ Len(vars) \in Nat /\ DOMAIN vars = 1..Len(vars)
  BY SequenceFacts DEF IInv, Stored
<1>3. /\ op' \in [kind : {"save"}, names : SUBSET Names, next : Nat]
      /\ op'.names = op.names /\ op'.next = n + 1 /\ op' # Idle
  BY <1>1 DEF Idle
<1>4. /\ ~whole /\ saved = Chosen(vars, S, Len(vars))
      /\ file = Shortened(Chosen(vars, S, n - 1))
  BY <1>1 DEF IInv, Saving, Selected
<1>5. n \in Nat /\ n - 1 \in Nat /\ n - 1 + 1 = n /\ n \in 0..Len(vars) /\ n - 1 \in 0..Len(vars)
  BY <1>1, <1>2
<1> HIDE DEF S
<1>6. file' = Shortened(Chosen(vars, S, n))
  <2>1. Chosen(vars, S, n) = IF n \in S THEN Append(Chosen(vars, S, n - 1), x)
                             ELSE Chosen(vars, S, n - 1)
    <3> HIDE DEF n
    <3>1. Chosen(vars, S, n - 1 + 1) = IF n - 1 + 1 \in S
                                       THEN Append(Chosen(vars, S, n - 1), vars[n - 1 + 1])
                                       ELSE Chosen(vars, S, n - 1)
      BY <1>5, ChosenNext
    <3> QED
      BY <1>5, <3>1
  <2>2. n \in S <=> x.name \in op.names
    BY <1>1, <1>2, <1>5 DEF S
  <2>3. IsSequence(Chosen(vars, S, n - 1))
    BY <1>2, <1>5, ChosenSequence DEF Stored
  <2>4. Shortened(Append(Chosen(vars, S, n - 1), x))
          = Append(Shortened(Chosen(vars, S, n - 1)), Var(Short[x.name], x.value))
    BY <2>3, ShortenedAppend
  <2> QED
    BY <1>1, <1>4, <2>1, <2>2, <2>4
<1>7. IsSequence(file') /\ IsPrefix(file', Shortened(saved))
  <2> DEFINE a == Chosen(vars, S, n)
             b == Chosen(vars, S, Len(vars))
  <2>1. /\ IsSequence(a) /\ IsSequence(b)
        /\ Len(a) <= Len(b) /\ \A i \in 1..Len(a) : a[i] = b[i]
    BY <1>2, <1>5, ChosenFirst, ChosenSequence DEF Stored
  <2> HIDE DEF a, b
  <2>2. /\ IsSequence(Shortened(a)) /\ Len(Shortened(a)) = Len(a)
        /\ \A i \in 1..Len(a) : Shortened(a)[i] = Var(Short[a[i].name], a[i].value)
        /\ IsSequence(Shortened(b)) /\ Len(Shortened(b)) = Len(b)
        /\ \A i \in 1..Len(b) : Shortened(b)[i] = Var(Short[b[i].name], b[i].value)
    BY <2>1, ShortenedFacts
  <2>3. Len(a) \in Nat /\ Len(b) \in Nat
    BY <2>1, SequenceFacts
  <2>4. \A i \in 1..Len(a) : Shortened(a)[i] = Shortened(b)[i]
    BY <2>1, <2>2, <2>3
  <2>5. IsPrefix(Shortened(a), Shortened(b))
    BY <2>1, <2>2, <2>4, PrefixMeans
  <2> QED
    BY <1>4, <1>6, <2>2, <2>5 DEF a, b
<1>8. \A i \in DOMAIN file' : file'[i].name \in {Short[m] : m \in Names} /\ IsValue(file'[i].value)
  <2>1. /\ IsSequence(file)
        /\ \A i \in 1..Len(file) : file[i].name \in {Short[m] : m \in Names} /\ IsValue(file[i].value)
        /\ DOMAIN file' = 1..Len(file') /\ Len(file) \in Nat
    BY <1>7, SequenceFacts DEF IInv, TypeOK
  <2>2. x.name \in Names /\ IsValue(x.value)
    BY <1>1, <1>2, <1>5 DEF Stored, IsStore
  <2>3. CASE file' = file
    BY <2>1, <2>3
  <2>4. CASE file' = Append(file, Var(Short[x.name], x.value))
    <3>1. /\ Len(file') = Len(file) + 1 /\ \A i \in 1..Len(file) : file'[i] = file[i]
          /\ file'[Len(file) + 1].name = Short[x.name] /\ file'[Len(file) + 1].value = x.value
      BY <2>1, <2>4, AppendFacts, VarFields
    <3> QED
      BY <2>1, <2>2, <3>1
  <2> QED
    BY <1>1, <2>3, <2>4
<1>9. TypeOK'
  BY <1>1, <1>2, <1>3, <1>5, <1>8 DEF IInv, TypeOK
<1>10. Saving'
  <2>1. op'.next - 1 = n
    BY <1>3, <1>5
  <2>2. {i \in DOMAIN vars' : vars'[i].name \in op'.names} = S
    BY <1>1, <1>3 DEF S
  <2> HIDE DEF n
  <2>3. saved' = Selected(Len(vars))' /\ file' = Shortened(Selected(op.next - 1))'
    BY <1>1, <1>4, <1>6, <2>1, <2>2 DEF Selected, Shortened
  <2> QED
    BY <1>1, <1>3, <1>4, <2>3 DEF Saving
<1>11. FileIsPrefix'
  BY <1>1, <1>4, <1>7 DEF FileIsPrefix, Shortened
<1> QED
  BY <1>1, <1>7, <1>9, <1>10, <1>11 DEF IInv, Stored, IsSequence

\* At the end all that was selected is written.
LEMMA SaveEndIInv ==
    ASSUME IInv, SaveEnd
    PROVE  IInv'
<1>1. /\ op # Idle /\ op.next \in 1..(Len(vars) + 1) /\ op.next > Len(vars)
      /\ op' = Idle /\ whole' = TRUE /\ UNCHANGED <<vars, file, saved>>
  <2>1. op # Idle
    BY DEF SaveEnd, Idle
  <2> QED
    BY <2>1 DEF SaveEnd, IInv, TypeOK
<1>2. Len(vars) \in Nat
  BY SequenceFacts DEF IInv, Stored
<1>3. op.next - 1 = Len(vars)
  BY <1>1, <1>2
<1>4. file = Shortened(saved)
  BY <1>1, <1>3 DEF IInv, Saving
<1>5. FileIsPrefix'
  BY <1>1, <1>4 DEF IInv, FileIsPrefix, Shortened
<1> QED
  BY <1>1, <1>5 DEF IInv, TypeOK, Saving, Stored, IsSequence

\* What death leaves of the file is a prefix of a prefix.
LEMMA DeathIInv ==
    ASSUME IInv, Death
    PROVE  IInv'
<1>1. PICK n \in 0..Len(file) : file' = SubSeq(file, 1, n)
  BY DEF Death
<1>2. /\ op # Idle /\ ~whole /\ vars' = << >> /\ op' = Idle
      /\ saved' = saved /\ whole' = whole
  <2>1. op # Idle
    BY DEF Death, Idle
  <2> QED
    BY <2>1 DEF Death, IInv, Saving
<1>3. /\ IsSequence(file') /\ Len(file') = n /\ \A i \in 1..n : file'[i] = file[i]
  BY <1>1, CutFacts DEF IInv
<1>4. /\ IsSequence(file) /\ Len(file) \in Nat /\ DOMAIN file = 1..Len(file)
      /\ DOMAIN file' = 1..n /\ IsSequence(Shortened(saved))
  BY <1>3, SequenceFacts, ShortenedFacts DEF IInv, Stored
<1>5. IsPrefix(file', Shortened(saved))
  <2>1. Len(file) <= Len(Shortened(saved)) /\ \A i \in 1..Len(file) : file[i] = Shortened(saved)[i]
    BY <1>4, PrefixMeans DEF IInv, FileIsPrefix
  <2>2. Len(Shortened(saved)) \in Nat
    BY <1>4, SequenceFacts
  <2>3. Len(file') <= Len(Shortened(saved)) /\ \A i \in 1..Len(file') : file'[i] = Shortened(saved)[i]
    BY <1>3, <1>4, <2>1, <2>2
  <2> QED
    BY <1>3, <1>4, <2>3, PrefixMeans
<1>6. FileIsPrefix'
  BY <1>2, <1>5 DEF FileIsPrefix, Shortened
<1>7. \A i \in DOMAIN file' : file'[i].name \in {Short[m] : m \in Names} /\ IsValue(file'[i].value)
  BY <1>3, <1>4 DEF IInv, TypeOK
<1>8. Stored(vars')
  BY <1>2, EmptyStore
<1> QED
  BY <1>2, <1>3, <1>6, <1>7, <1>8 DEF IInv, TypeOK, Saving, Stored, IsSequence

-----------------------------------------------------------------------------
(* The theorems *)

\* Every step keeps the invariant: one case per action.
LEMMA NextIInv == IInv /\ [Next]_state => IInv'
<1> SUFFICES ASSUME IInv, [Next]_state PROVE IInv'
  OBVIOUS
<1>1. ASSUME NEW n \in Names, NEW v \in Values, Assign(n, v) PROVE IInv'
  <2>1. Stored(vars')
    BY <1>1, SetFacts, ValuesAssumption DEF Assign, IInv
  <2> QED
    BY <1>1, <2>1, StoreIInv DEF Assign
<1>2. CASE Clear
  BY <1>2, EmptyStore, StoreIInv DEF Clear
<1>3. ASSUME NEW names \in SUBSET Names, SaveList(names) \/ SaveAll(names) PROVE IInv'
  <2>1. Filtered(names) \subseteq Names
    BY FilteredNames DEF IInv
  <2> QED
    BY <1>3, <2>1, SaveStartIInv DEF SaveList, SaveAll
<1>4. CASE SaveStore
  <2>1. NamesIn(vars) \subseteq Names
    BY DEF IInv, Stored, IsStore, NamesIn
  <2> QED
    BY <1>4, <2>1, SaveStartIInv DEF SaveStore
<1>5. CASE UNCHANGED state
  BY <1>5 DEF state, IInv, TypeOK, Stored, IsSequence, FileIsPrefix, Shortened, Saving, Selected
<1> QED
  BY <1>1, <1>2, <1>3, <1>4, <1>5, SaveRecordIInv, SaveEndIInv, DeathIInv, RestoreIInv DEF Next

\* The invariant holds of every state.
THEOREM Invariance == Spec => []IInv
BY InitIInv, NextIInv, PTL DEF Spec

\* For every set of names, every way to cut them to eleven characters and every
\* size of the store: the store never holds a name twice and never more than
\* MAX_VARS variables, and a SAVE keeps its place in it.
THEOREM TypeCorrect == Spec => []TypeOK
<1>1. IInv => TypeOK
  BY DEF IInv
<1> QED
  BY <1>1, Invariance, PTL

\* Wherever the interpreter dies in a SAVE, of however many variables, the file
\* holds some of the first of them; if it does not die, all.
THEOREM SaveLeavesPrefix == Spec => []FileIsPrefix
<1>1. IInv => FileIsPrefix
  BY DEF IInv
<1> QED
  BY <1>1, Invariance, PTL

-----------------------------------------------------------------------------
(* RESTORE gives back *)

\* Of finitely many numbers one is the largest.
LEMMA LargestElement ==
    ASSUME NEW n \in Nat, NEW T \in SUBSET (1..n), T # {}
    PROVE  Max(T) \in T /\ \A i \in T : i <= Max(T)
<1> DEFINE U == {k \in Nat : \A i \in T : i <= k}
<1>1. n \in U
  OBVIOUS
<1>2. U \in SUBSET Nat /\ U # {}
  BY <1>1
<1>3. \A k : k \in U <=> k \in Nat /\ \A i \in T : i <= k
  OBVIOUS
<1> HIDE DEF U
<1>4. PICK m \in U : \A k \in U : m <= k
  BY <1>2, SmallestElement
<1>5. m \in T
  <2> SUFFICES ASSUME m \notin T PROVE FALSE
    OBVIOUS
  <2>1. PICK i \in T : TRUE
    OBVIOUS
  <2>2. m \in Nat /\ i \in Nat /\ 1 <= i /\ i <= m
    BY <1>3, <1>4
  <2>3. m - 1 \in Nat /\ \A j \in T : j <= m - 1
    <3> SUFFICES ASSUME NEW j \in T PROVE j <= m - 1
      BY <2>2
    <3>1. j \in Nat /\ j <= m /\ j # m
      BY <1>3, <1>4
    <3> QED
      BY <2>2, <3>1
  <2>4. m - 1 \in U
    BY <1>3, <2>3
  <2> QED
    BY <1>4, <2>2, <2>4
<1>6. \E x \in T : \A y \in T : x >= y
  <2>1. \A y \in T : y \in Nat /\ y <= m
    BY <1>3, <1>4
  <2> QED
    BY <1>3, <1>4, <1>5, <2>1
<1>7. Max(T) \in T /\ \A y \in T : Max(T) >= y
  BY <1>6 DEF Max
<1> QED
  BY <1>7

\* The file is whole: its records are the variables saved, under their short names.
LEMMA RestoreGives ==
    ASSUME IInv, NEW additive \in BOOLEAN, Restore(additive), whole,
           \A i \in DOMAIN saved : ~Overlong(saved[i].value)
    PROVE  GivesBack(additive)
<1> DEFINE shorts == {Short[saved[i].name] : i \in DOMAIN saved}
           vs == IF additive THEN vars ELSE << >>
           n == Len(saved)
<1>1. /\ Stored(saved) /\ n \in Nat /\ DOMAIN saved = 1..n
      /\ \A i \in 1..n : saved[i].name \in Names /\ IsValue(saved[i].value)
  BY SequenceFacts DEF IInv, Stored, IsStore
<1>2. file = Shortened(saved)
  BY DEF IInv, FileIsPrefix
<1>3. /\ IsSequence(file) /\ Len(file) = n /\ DOMAIN file = 1..n
      /\ \A i \in 1..n : file[i] = Var(Short[saved[i].name], saved[i].value)
  BY <1>1, <1>2, ShortenedFacts, SequenceFacts DEF Stored
<1>4. \A i \in 1..n : file[i].name = Short[saved[i].name] /\ file[i].value = saved[i].value
  BY <1>3, VarFields
<1>5. Cardinality(Legible) = n
  <2>1. \A i \in DOMAIN file : ~Overlong(file[i].value)
    BY <1>1, <1>3, <1>4
  <2> QED
    BY <1>3, <2>1, LegibleFacts
<1>6. \A i \in DOMAIN file : /\ file[i].name \in Names /\ IsValue(file[i].value)
                             /\ file[i].name \in shorts
  BY <1>1, <1>3, <1>4, NamesAssumption
<1>7. Stored(vs)
  BY EmptyStore DEF IInv
<1>8. vars' = Load(vs)
  BY DEF Restore
<1> HIDE DEF shorts, vs, n
<1>9. /\ OfNames(vars', NamesIn(vars') \ shorts) = OfNames(vs, NamesIn(vs) \ shorts)
      /\ \A i \in 1..n :
            (\A j \in (i + 1)..n : file[j].name # file[i].name) =>
               \/ Var(file[i].name, Restored(file[i].value)) \in ToSet(vars')
               \/ file[i].name \notin NamesIn(vars') /\ Len(vars') = MaxVars
  BY <1>3, <1>5, <1>6, <1>7, <1>8, LoadFacts
<1>10. OfNames(vs, NamesIn(vs) \ shorts)
         = IF additive THEN OfNames(vars, NamesIn(vars) \ shorts) ELSE << >>
  <2>1. OfNames(<< >>, NamesIn(<< >>) \ shorts) = << >>
    BY ChosenZero, EmptySeq DEF OfNames
  <2> QED
    BY <2>1 DEF vs
<1>11. ASSUME NEW m \in shorts
       PROVE  LET v == saved[LastOf(m)].value
              IN \/ Altered(v)
                 \/ Var(m, v) \in ToSet(vars')
                 \/ m \notin NamesIn(vars') /\ Len(vars') = MaxVars
  <2> DEFINE T == {i \in DOMAIN saved : Short[saved[i].name] = m}
             k == LastOf(m)
             v == saved[k].value
  <2>1. T \in SUBSET (1..n) /\ T # {}
    BY <1>1 DEF shorts
  <2>2. k \in T /\ \A i \in T : i <= k
    BY <1>1, <2>1, LargestElement DEF LastOf
  <2>3. k \in 1..n /\ Short[saved[k].name] = m
    BY <2>1, <2>2
  <2>4. \A j \in 1..n : Short[saved[j].name] = m => j <= k
    BY <1>1, <2>2
  <2> HIDE DEF T, k
  <2>5. \A j \in (k + 1)..n : file[j].name # file[k].name
    BY <1>1, <1>4, <2>3, <2>4
  <2>6. \/ Var(m, Restored(v)) \in ToSet(vars')
        \/ m \notin NamesIn(vars') /\ Len(vars') = MaxVars
    BY <1>4, <1>9, <2>3, <2>5
  <2>7. ~Altered(v) => Restored(v) = v
    BY <1>1, <2>3, RestoredSame
  <2> QED
    BY <2>6, <2>7 DEF k
<1> QED
  BY <1>9, <1>10, <1>11 DEF GivesBack, shorts

\* For every store, every set of names and every way to cut them: what was saved
\* comes back under the short names, the last one under each; nothing else stays
\* but the other variables under ADDITIVE.
THEOREM RestoreIsInverse == Spec => RestoreGivesBack
<1> DEFINE A == \A additive \in BOOLEAN :
                  (Restore(additive) /\ whole /\ \A i \in DOMAIN saved : ~Overlong(saved[i].value)) =>
                     GivesBack(additive)
<1>1. IInv /\ [Next]_state => [A]_state
  BY RestoreGives
<1>2. Spec => [][A]_state
  BY <1>1, Invariance, PTL DEF Spec
<1>3. RestoreGivesBack <=> [][A]_state
  BY DEF RestoreGivesBack
<1> QED
  BY <1>2, <1>3

=============================================================================
