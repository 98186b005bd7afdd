------------------------- MODULE OperatorLemmas -------------------------
(***************************************************************************)
(* What the operators return that several models share: Chosen of          *)
(* Selection, for every sequence and every set of positions, and those of  *)
(* DbfFile, for every record length.                                       *)
(*                                                                         *)
(* Induction is stated for sets of numbers, from the fact that a set of    *)
(* natural numbers has a smallest element.  The function Chosen defines by *)
(* recursion exists because there is one up to each number and any two of  *)
(* them agree.                                                             *)
(***************************************************************************)
EXTENDS DbfFile, SequenceTheorems, WellFoundedInduction, TLAPS

\* Every set of natural numbers has a smallest element.
LEMMA SmallestElement ==
    ASSUME NEW T \in SUBSET Nat, T # {}
    PROVE  \E m \in T : \A n \in T : m <= n
<1> DEFINE R == {ss \in Nat \X Nat : ss[1] < ss[2]}
<1>1. IsWellFoundedOn(R, Nat)
  BY NatLessThanWellFounded DEF OpToRel
<1>2. \A m, n \in Nat : n < m => <<n, m>> \in R
  OBVIOUS
<1> HIDE DEF R
<1>3. PICK m \in T : \A n \in T : ~ (<<n, m>> \in R)
  BY <1>1, WFMin
<1>4. ASSUME NEW n \in T PROVE m <= n
  <2>1. m \in Nat /\ n \in Nat
    OBVIOUS
  <2>2. ~ (n < m)
    BY <1>2, <1>3, <2>1
  <2> QED
    BY <2>1, <2>2
<1> QED
  BY <1>4

\* A set with 0, and with n + 1 for each n in it, has all natural numbers.
LEMMA SetInduction ==
    ASSUME NEW S, 0 \in S, \A n \in Nat : n \in S => n + 1 \in S
    PROVE  \A n \in Nat : n \in S
<1> DEFINE T == Nat \ S
<1> SUFFICES ASSUME T # {} PROVE FALSE
  OBVIOUS
<1>1. T \in SUBSET Nat
  OBVIOUS
<1>2. \A n \in Nat : n \in T <=> n \notin S
  OBVIOUS
<1> HIDE DEF T
<1>3. PICK m \in T : \A n \in T : m <= n
  BY <1>1, SmallestElement
<1>4. m \in Nat /\ m # 0
  BY <1>1, <1>2, <1>3
<1>5. m - 1 \in Nat /\ m - 1 \notin T /\ m - 1 + 1 = m
  BY <1>3, <1>4
<1>6. m \in S
  BY <1>2, <1>5
<1> QED
  BY <1>2, <1>3, <1>4, <1>6

-----------------------------------------------------------------------------
(* The recursion *)

Pick(c, s, S, i) == IF i = 0 THEN << >>
                    ELSE IF i \in S THEN Append(c[i - 1], s[i]) ELSE c[i - 1]

Follows(c, s, S, D) == c = [i \in D |-> Pick(c, s, S, i)]

\* Up to each number there is a function that follows the recursion.
LEMMA FollowsUpTo ==
    ASSUME NEW s, NEW S
    PROVE  \A n \in Nat : \E c : Follows(c, s, S, 0..n)
<1> DEFINE K == {n \in Nat : \E c : Follows(c, s, S, 0..n)}
<1>1. 0 \in K
  <2> DEFINE c == [i \in 0..0 |-> << >>]
  <2>1. c = [i \in 0..0 |-> Pick(c, s, S, i)]
    BY DEF Pick
  <2> QED
    BY <2>1 DEF Follows
<1>2. ASSUME NEW n \in Nat, n \in K PROVE n + 1 \in K
  <2>1. PICK c : Follows(c, s, S, 0..n)
    BY <1>2
  <2> DEFINE d == [i \in 0..(n + 1) |-> IF i = n + 1 THEN Pick(c, s, S, i) ELSE c[i]]
  <2>2. \A i \in 0..n : c[i] = Pick(c, s, S, i) /\ d[i] = c[i]
    <3>1. c = [i \in 0..n |-> Pick(c, s, S, i)]
      BY <2>1 DEF Follows
    <3>2. \A i \in 0..n : c[i] = Pick(c, s, S, i)
      BY <3>1
    <3>3. \A i \in 0..n : d[i] = c[i]
      OBVIOUS
    <3> QED
      BY <3>2, <3>3
  <2>3. ASSUME NEW i \in 0..(n + 1)
        PROVE  d[i] = Pick(d, s, S, i)
    <3>1. i # 0 => i - 1 \in 0..n
      OBVIOUS
    <3>2. Pick(d, s, S, i) = Pick(c, s, S, i)
      BY <2>2, <3>1 DEF Pick
    <3>3. CASE i = n + 1
      BY <3>2, <3>3
    <3>4. CASE i # n + 1
      <4>1. i \in 0..n
        BY <3>4
      <4> QED
        BY <2>2, <3>2, <4>1
    <3> QED
      BY <3>3, <3>4
  <2>4. Follows(d, s, S, 0..(n + 1))
    <3> HIDE DEF d
    <3>1. DOMAIN d = 0..(n + 1) /\ d = [i \in DOMAIN d |-> d[i]]
      BY DEF d
    <3> QED
      BY <2>3, <3>1 DEF Follows
  <2> QED
    BY <2>4
<1> HIDE DEF K
<1>3. \A n \in Nat : n \in K
  BY <1>1, <1>2, SetInduction
<1> QED
  BY <1>3 DEF K

\* Two functions that follow the recursion agree as far as both go.
LEMMA FollowersAgree ==
    ASSUME NEW s, NEW S, NEW c, NEW d, NEW m \in Nat, NEW n \in Nat, m <= n,
           Follows(c, s, S, 0..m), Follows(d, s, S, 0..n)
    PROVE  \A i \in 0..m : c[i] = d[i]
<1>1. \A i \in 0..m : c[i] = Pick(c, s, S, i)
  BY DEF Follows
<1>2. \A i \in 0..n : d[i] = Pick(d, s, S, i)
  BY DEF Follows
<1> DEFINE K == {i \in Nat : i <= m => c[i] = d[i]}
<1>3. 0 \in K
  BY <1>1, <1>2 DEF Pick
<1>4. ASSUME NEW i \in Nat, i \in K PROVE i + 1 \in K
  <2> SUFFICES ASSUME i + 1 <= m PROVE c[i + 1] = d[i + 1]
    OBVIOUS
  <2>1. c[i] = d[i] /\ i + 1 - 1 = i /\ i + 1 # 0
    BY <1>4
  <2>2. c[i + 1] = Pick(c, s, S, i + 1) /\ d[i + 1] = Pick(d, s, S, i + 1)
    BY <1>1, <1>2
  <2> QED
    BY <2>1, <2>2 DEF Pick
<1> HIDE DEF K
<1>5. \A i \in Nat : i \in K
  BY <1>3, <1>4, SetInduction
<1> QED
  BY <1>5 DEF K

\* Chosen is the function its definition describes.
LEMMA ChosenFollows ==
    ASSUME NEW s, NEW S
    PROVE  \A n \in Nat :
              Chosen(s, S, n) = IF n = 0 THEN << >>
                                ELSE IF n \in S THEN Append(Chosen(s, S, n - 1), s[n])
                                ELSE Chosen(s, S, n - 1)
<1> DEFINE UpTo(n) == CHOOSE c : Follows(c, s, S, 0..n)
           f == [n \in Nat |-> UpTo(n)[n]]
           g == CHOOSE c : Follows(c, s, S, Nat)
<1>1. ASSUME NEW n \in Nat PROVE Follows(UpTo(n), s, S, 0..n)
  BY FollowsUpTo
<1> HIDE DEF UpTo
<1>2. ASSUME NEW n \in Nat PROVE f[n] = Pick(f, s, S, n)
  <2>1. UpTo(n)[n] = Pick(UpTo(n), s, S, n)
    <3>1. UpTo(n) = [i \in 0..n |-> Pick(UpTo(n), s, S, i)]
      BY <1>1 DEF Follows
    <3>2. n \in 0..n
      OBVIOUS
    <3> QED
      BY <3>1, <3>2
  <2>2. CASE n = 0
    BY <2>1, <2>2 DEF Pick
  <2>3. CASE n # 0
    <3>1. n - 1 \in Nat /\ n - 1 <= n /\ n - 1 \in 0..(n - 1)
      BY <2>3
    <3>2. UpTo(n - 1)[n - 1] = UpTo(n)[n - 1]
      BY <1>1, <3>1, FollowersAgree
    <3> QED
      BY <2>1, <3>1, <3>2 DEF Pick
  <2> QED
    BY <2>2, <2>3
<1>3. Follows(f, s, S, Nat)
  <2> HIDE DEF f
  <2>1. DOMAIN f = Nat /\ f = [n \in DOMAIN f |-> f[n]]
    BY DEF f
  <2> QED
    BY <1>2, <2>1 DEF Follows
<1> HIDE DEF f
<1>4. Follows(g, s, S, Nat)
  BY <1>3
<1> HIDE DEF g
<1>5. \A n \in Nat : g[n] = Pick(g, s, S, n)
  BY <1>4 DEF Follows
<1>6. \A n \in Nat : Chosen(s, S, n) = g[n]
  BY DEF Chosen, g, Follows, Pick
<1>7. ASSUME NEW n \in Nat
      PROVE  Chosen(s, S, n) = IF n = 0 THEN << >>
                               ELSE IF n \in S THEN Append(Chosen(s, S, n - 1), s[n])
                               ELSE Chosen(s, S, n - 1)
  <2>1. CASE n = 0
    BY <1>5, <1>6, <2>1 DEF Pick
  <2>2. CASE n # 0
    <3>1. n - 1 \in Nat
      BY <2>2
    <3>2. g[n - 1] = Chosen(s, S, n - 1) /\ g[n] = Chosen(s, S, n)
      BY <1>6, <3>1
    <3> QED
      BY <1>5, <2>2, <3>2 DEF Pick
  <2> QED
    BY <2>1, <2>2
<1> QED
  BY <1>7

-----------------------------------------------------------------------------
(* What is chosen *)

\* One element after the other is taken or passed over.
LEMMA ChosenZero == \A s, S : Chosen(s, S, 0) = << >>
  BY ChosenFollows

LEMMA ChosenNext ==
    ASSUME NEW s, NEW S, NEW n \in Nat
    PROVE  Chosen(s, S, n + 1) = IF n + 1 \in S THEN Append(Chosen(s, S, n), s[n + 1])
                                 ELSE Chosen(s, S, n)
<1> DEFINE m == n + 1
<1>1. m \in Nat /\ m # 0 /\ m - 1 = n
  OBVIOUS
<1> HIDE DEF m
<1>2. Chosen(s, S, m) = IF m \in S THEN Append(Chosen(s, S, m - 1), s[m])
                        ELSE Chosen(s, S, m - 1)
  BY <1>1, ChosenFollows, Zenon
<1>3. Chosen(s, S, m) = IF m \in S THEN Append(Chosen(s, S, n), s[m]) ELSE Chosen(s, S, n)
  BY <1>1, <1>2
<1> QED
  BY <1>3 DEF m

\* Only elements at the positions in S are taken, each at most once.
LEMMA ChosenType ==
    ASSUME NEW s, NEW S, NEW T, NEW n \in Nat, \A i \in 1..n : i \in S => s[i] \in T
    PROVE  Chosen(s, S, n) \in Seq(T) /\ Len(Chosen(s, S, n)) <= n
<1> DEFINE K == {m \in Nat : m <= n => /\ Chosen(s, S, m) \in Seq(T)
                                       /\ Len(Chosen(s, S, m)) <= m}
<1>1. 0 \in K
  <2>1. Chosen(s, S, 0) = << >>
    BY ChosenZero
  <2>2. << >> \in Seq(T) /\ Len(<< >>) <= 0
    BY EmptySeq
  <2>3. Chosen(s, S, 0) \in Seq(T) /\ Len(Chosen(s, S, 0)) <= 0
    BY <2>1, <2>2, Zenon
  <2> QED
    BY <2>3
<1>2. ASSUME NEW m \in Nat, m \in K PROVE m + 1 \in K
  <2> SUFFICES ASSUME m + 1 <= n
               PROVE  Chosen(s, S, m + 1) \in Seq(T) /\ Len(Chosen(s, S, m + 1)) <= m + 1
    OBVIOUS
  <2>1. Chosen(s, S, m) \in Seq(T) /\ Len(Chosen(s, S, m)) <= m
        /\ Len(Chosen(s, S, m)) \in Nat
    BY <1>2, LenProperties
  <2>2. CASE m + 1 \in S
    <3>1. s[m + 1] \in T
      BY <2>2
    <3>2. Chosen(s, S, m + 1) = Append(Chosen(s, S, m), s[m + 1])
      BY <2>2, ChosenNext
    <3>3. /\ Append(Chosen(s, S, m), s[m + 1]) \in Seq(T)
          /\ Len(Append(Chosen(s, S, m), s[m + 1])) = Len(Chosen(s, S, m)) + 1
      BY <2>1, <3>1, AppendProperties
    <3> QED
      BY <2>1, <3>2, <3>3
  <2>3. CASE m + 1 \notin S
    <3>1. Chosen(s, S, m + 1) = Chosen(s, S, m)
      BY <2>3, ChosenNext
    <3> QED
      BY <2>1, <3>1
  <2> QED
    BY <2>2, <2>3
<1> HIDE DEF K
<1>3. \A m \in Nat : m \in K
  BY <1>1, <1>2, SetInduction
<1> QED
  BY <1>3 DEF K

\* What is chosen does not depend on the elements that are not.
LEMMA ChosenSame ==
    ASSUME NEW s, NEW t, NEW S, NEW T, NEW n \in Nat,
           \A i \in 1..n : (i \in S <=> i \in T) /\ (i \in S => s[i] = t[i])
    PROVE  Chosen(s, S, n) = Chosen(t, T, n)
<1> DEFINE K == {m \in Nat : m <= n => Chosen(s, S, m) = Chosen(t, T, m)}
<1>1. 0 \in K
  BY ChosenZero
<1>2. ASSUME NEW m \in Nat, m \in K PROVE m + 1 \in K
  <2> SUFFICES ASSUME m + 1 <= n
               PROVE  Chosen(s, S, m + 1) = Chosen(t, T, m + 1)
    OBVIOUS
  <2>1. Chosen(s, S, m) = Chosen(t, T, m) /\ m + 1 \in 1..n
    BY <1>2
  <2>2. (m + 1 \in S <=> m + 1 \in T) /\ (m + 1 \in S => s[m + 1] = t[m + 1])
    BY <2>1
  <2>3. Chosen(s, S, m + 1) = IF m + 1 \in S THEN Append(Chosen(s, S, m), s[m + 1])
                              ELSE Chosen(s, S, m)
    BY ChosenNext
  <2>4. Chosen(t, T, m + 1) = IF m + 1 \in T THEN Append(Chosen(t, T, m), t[m + 1])
                              ELSE Chosen(t, T, m)
    BY ChosenNext
  <2> QED
    BY <2>1, <2>2, <2>3, <2>4
<1> HIDE DEF K
<1>3. \A m \in Nat : m \in K
  BY <1>1, <1>2, SetInduction
<1> QED
  BY <1>3 DEF K

\* If every position is in S, what is chosen is the sequence.
LEMMA ChosenAll ==
    ASSUME NEW U, NEW s \in Seq(U), NEW S, \A i \in 1..Len(s) : i \in S
    PROVE  Chosen(s, S, Len(s)) = s
<1>0. Len(s) \in Nat
  BY LenProperties
<1> DEFINE n == Len(s)
           K == {m \in Nat : m <= n => /\ Len(Chosen(s, S, m)) = m
                                       /\ \A i \in 1..m : Chosen(s, S, m)[i] = s[i]}
<1>1. 0 \in K
  <2>1. Chosen(s, S, 0) = << >>
    BY ChosenZero
  <2> QED
    BY <2>1, EmptySeq
<1>2. ASSUME NEW m \in Nat, m \in K PROVE m + 1 \in K
  <2> SUFFICES ASSUME m + 1 <= n
               PROVE  /\ Len(Chosen(s, S, m + 1)) = m + 1
                      /\ \A i \in 1..(m + 1) : Chosen(s, S, m + 1)[i] = s[i]
    OBVIOUS
  <2>1. Len(Chosen(s, S, m)) = m /\ \A i \in 1..m : Chosen(s, S, m)[i] = s[i]
    BY <1>2
  <2>2. Chosen(s, S, m) \in Seq(U) /\ s[m + 1] \in U
    <3>1. \A i \in 1..n : s[i] \in U
      BY ElementOfSeq
    <3> QED
      BY <1>0, <3>1, ChosenType
  <2>3. Chosen(s, S, m + 1) = Append(Chosen(s, S, m), s[m + 1])
    <3>1. m + 1 \in S
      BY <1>0
    <3> QED
      BY <3>1, ChosenNext
  <2> QED
    BY <2>1, <2>2, <2>3, AppendProperties
<1>3. \A m \in Nat : m \in K
  <2> HIDE DEF K
  <2> QED
    BY <1>1, <1>2, SetInduction
<1>4. Len(Chosen(s, S, n)) = Len(s) /\ \A i \in 1..Len(s) : Chosen(s, S, n)[i] = s[i]
  BY <1>0, <1>3
<1>5. Chosen(s, S, n) \in Seq(U)
  <2>1. \A i \in 1..n : s[i] \in U
    BY ElementOfSeq
  <2> QED
    BY <1>0, <2>1, ChosenType
<1> QED
  BY <1>4, <1>5, SeqEqual

\* The places of the first n elements that are chosen.
Places(S, n) == Chosen([i \in Nat |-> i], S, n)

LEMMA PlacesType ==
    ASSUME NEW S, NEW n \in Nat
    PROVE  /\ Places(S, n) \in Seq(Nat) /\ Len(Places(S, n)) \in 0..n
           /\ \A m \in 1..Len(Places(S, n)) : Places(S, n)[m] \in S \cap (1..n)
<1> DEFINE id == [i \in Nat |-> i]
<1>1. \A i \in 1..n : id[i] \in Nat /\ (i \in S => id[i] \in S \cap (1..n))
  OBVIOUS
<1> HIDE DEF id
<1>2. Chosen(id, S, n) \in Seq(S \cap (1..n)) /\ Len(Chosen(id, S, n)) <= n
  BY <1>1, ChosenType
<1>3. Chosen(id, S, n) \in Seq(Nat)
  BY <1>1, ChosenType
<1>4. Places(S, n) = Chosen(id, S, n)
  BY DEF Places, id
<1> QED
  BY <1>2, <1>3, <1>4, LenProperties, ElementOfSeq

LEMMA PlacesZero == \A S : Places(S, 0) = << >>
  BY ChosenZero DEF Places

LEMMA PlacesNext ==
    ASSUME NEW S, NEW n \in Nat
    PROVE  Places(S, n + 1) = IF n + 1 \in S THEN Append(Places(S, n), n + 1)
                              ELSE Places(S, n)
<1> DEFINE id == [i \in Nat |-> i]
<1>1. Chosen(id, S, n + 1) = IF n + 1 \in S THEN Append(Chosen(id, S, n), id[n + 1])
                             ELSE Chosen(id, S, n)
  BY ChosenNext
<1>2. id[n + 1] = n + 1
  OBVIOUS
<1> HIDE DEF id
<1> QED
  BY <1>1, <1>2 DEF Places, id

\* The places rise: no element is chosen twice.
LEMMA PlacesRise ==
    ASSUME NEW S, NEW n \in Nat
    PROVE  \A i, j \in 1..Len(Places(S, n)) : i < j => Places(S, n)[i] < Places(S, n)[j]
<1> DEFINE K == {k \in Nat : \A i, j \in 1..Len(Places(S, k)) :
                                i < j => Places(S, k)[i] < Places(S, k)[j]}
<1>1. 0 \in K
  <2>1. Len(Places(S, 0)) = 0
    BY PlacesZero, EmptySeq
  <2> QED
    BY <2>1
<1>2. ASSUME NEW k \in Nat, k \in K PROVE k + 1 \in K
  <2> DEFINE p == Places(S, k)
             q == Places(S, k + 1)
  <2>1. \A i, j \in 1..Len(p) : i < j => p[i] < p[j]
    BY <1>2
  <2>2. /\ p \in Seq(Nat) /\ Len(p) \in Nat
        /\ \A i \in 1..Len(p) : p[i] \in 1..k
    BY PlacesType
  <2>3. q = IF k + 1 \in S THEN Append(p, k + 1) ELSE p
    BY PlacesNext
  <2> HIDE DEF p, q
  <2>4. CASE q = Append(p, k + 1)
    <3>1. /\ Len(q) = Len(p) + 1 /\ q[Len(p) + 1] = k + 1
          /\ \A i \in 1..Len(p) : q[i] = p[i]
      BY <2>2, <2>4, AppendProperties
    <3>2. ASSUME NEW i \in 1..Len(q), NEW j \in 1..Len(q), i < j PROVE q[i] < q[j]
      <4>1. i \in 1..Len(p) /\ q[i] = p[i] /\ p[i] \in 1..k
        BY <2>2, <3>1, <3>2
      <4>2. CASE j = Len(p) + 1
        BY <3>1, <4>1, <4>2
      <4>3. CASE j # Len(p) + 1
        <5>1. j \in 1..Len(p) /\ q[j] = p[j]
          BY <2>2, <3>1, <4>3
        <5> QED
          BY <2>1, <3>2, <4>1, <5>1
      <4> QED
        BY <4>2, <4>3
    <3> QED
      BY <3>2 DEF q
  <2>5. CASE q = p
    BY <2>1, <2>5 DEF q
  <2> QED
    BY <2>3, <2>4, <2>5
<1> HIDE DEF K
<1>3. \A k \in Nat : k \in K
  BY <1>1, <1>2, SetInduction
<1> QED
  BY <1>3 DEF K

\* Whatever the sequence, what is chosen are its elements at these places.
LEMMA ChosenAt ==
    ASSUME NEW s, NEW S, NEW n \in Nat
    PROVE  /\ Len(Chosen(s, S, n)) = Len(Places(S, n))
           /\ \A m \in 1..Len(Places(S, n)) : Chosen(s, S, n)[m] = s[Places(S, n)[m]]
<1> DEFINE T == {s[i] : i \in Nat}
           K == {k \in Nat : /\ Len(Chosen(s, S, k)) = Len(Places(S, k))
                             /\ \A m \in 1..Len(Places(S, k)) :
                                   Chosen(s, S, k)[m] = s[Places(S, k)[m]]}
<1>1. 0 \in K
  <2>1. Chosen(s, S, 0) = << >> /\ Places(S, 0) = << >>
    BY ChosenZero, PlacesZero
  <2> QED
    BY <2>1, EmptySeq
<1>2. ASSUME NEW k \in Nat, k \in K PROVE k + 1 \in K
  <2> DEFINE c == Chosen(s, S, k)
             p == Places(S, k)
  <2>1. Len(c) = Len(p) /\ \A m \in 1..Len(p) : c[m] = s[p[m]]
    BY <1>2
  <2>2. c \in Seq(T)
    <3>1. \A i \in 1..k : i \in S => s[i] \in T
      OBVIOUS
    <3> HIDE DEF T
    <3> QED
      BY <3>1, ChosenType
  <2>3. p \in Seq(Nat) /\ Len(p) \in Nat
    BY PlacesType
  <2>4. Chosen(s, S, k + 1) = IF k + 1 \in S THEN Append(c, s[k + 1]) ELSE c
    BY ChosenNext
  <2>5. Places(S, k + 1) = IF k + 1 \in S THEN Append(p, k + 1) ELSE p
    BY PlacesNext
  <2>6. s[k + 1] \in T
    OBVIOUS
  <2> HIDE DEF c, p, T
  <2>7. CASE k + 1 \in S
    <3>1. /\ Len(Append(c, s[k + 1])) = Len(c) + 1 /\ Append(c, s[k + 1])[Len(c) + 1] = s[k + 1]
          /\ \A m \in 1..Len(c) : Append(c, s[k + 1])[m] = c[m]
      BY <2>2, <2>6, AppendProperties
    <3>2. /\ Len(Append(p, k + 1)) = Len(p) + 1 /\ Append(p, k + 1)[Len(p) + 1] = k + 1
          /\ \A m \in 1..Len(p) : Append(p, k + 1)[m] = p[m]
      BY <2>3, AppendProperties
    <3>3. ASSUME NEW m \in 1..(Len(p) + 1)
          PROVE  Append(c, s[k + 1])[m] = s[Append(p, k + 1)[m]]
      BY <2>1, <2>3, <3>1, <3>2
    <3> QED
      BY <2>1, <2>4, <2>5, <2>7, <3>1, <3>2, <3>3
  <2>8. CASE k + 1 \notin S
    BY <2>1, <2>4, <2>5, <2>8
  <2> QED
    BY <2>7, <2>8
<1> HIDE DEF K
<1>3. \A k \in Nat : k \in K
  BY <1>1, <1>2, SetInduction
<1> QED
  BY <1>3 DEF K

-----------------------------------------------------------------------------
(* The cells of a file *)

\* Multiplication by the record length, as the proofs need it: the offset of a
\* record moves by one record length, and grows with the record number.
LEMMA NextRecord ==
  ASSUME NEW n \in Int
  PROVE  /\ RecLen \in Int
         /\ n * RecLen \in Int
         /\ (n + 1) * RecLen = n * RecLen + RecLen
         /\ (n - 1) * RecLen = n * RecLen - RecLen
BY RecLenAssumption

\* The cells of no record and of one.
LEMMA NoRecords == 0 * RecLen = 0 /\ 1 * RecLen = RecLen
BY RecLenAssumption

\* More records take more cells.
LEMMA RecordsMonotone ==
  ASSUME NEW m \in Int, NEW n \in Int, m <= n
  PROVE  m * RecLen <= n * RecLen
<1>1. \E k \in Nat : n = m + k
  <2>1. n - m \in Nat /\ n = m + (n - m)
    OBVIOUS
  <2> QED
    BY <2>1
<1>2. PICK k \in Nat : n = m + k
  BY <1>1
<1>3. (m + k) * RecLen = m * RecLen + k * RecLen
  BY RecLenAssumption
<1>4. k * RecLen >= 0
  BY RecLenAssumption
<1> QED
  BY <1>2, <1>3, <1>4, RecLenAssumption

\* The cells this library writes are cells.
LEMMA CellTypes ==
  /\ Blank \in Cell /\ Star \in Cell /\ EofChar \in Cell /\ Hole \in Cell
  /\ \A v \in Value : v \in Cell
BY DEF Cell

\* The body of an empty file.
LEMMA EmptyBody == << >> \in Body /\ Len(<< >>) = 0
BY DEF Body

\* The length of a body.
LEMMA BodyLen ==
  ASSUME NEW b \in Body
  PROVE  Len(b) \in Nat
BY DEF Body

\* Two bodies, one behind the other.
LEMMA ConcatBody ==
  ASSUME NEW s \in Body, NEW t \in Body
  PROVE  s \o t \in Body /\ Len(s \o t) = Len(s) + Len(t)
BY DEF Body

\* A blank record is as long as a record.
LEMMA BlankRecordType == BlankRecord \in Body /\ Len(BlankRecord) = RecLen
BY RecLenAssumption, CellTypes DEF BlankRecord, Body

\* The cells of a field fill a record but for its flag.
LEMMA FieldCellsType ==
  ASSUME NEW v \in Value
  PROVE  FieldCells(v) \in Body /\ Len(FieldCells(v)) = RecLen - 1
BY RecLenAssumption, CellTypes DEF FieldCells, Body

\* What getc() reads is a cell.
LEMMA CellAtType ==
  ASSUME NEW b \in Body, NEW k \in Int
  PROVE  CellAt(b, k) \in Cell
BY CellTypes DEF CellAt, Body

\* A record as it is read is as long as a record.
LEMMA RecordAtType ==
  ASSUME NEW b \in Body, NEW r \in Int
  PROVE  RecordAt(b, r) \in Body /\ Len(RecordAt(b, r)) = RecLen
<1>1. \A j \in 1..RecLen : CellAt(b, Offset(r) + j) \in Cell
  BY CellAtType, RecLenAssumption DEF Offset
<1> QED
  BY <1>1, RecLenAssumption DEF RecordAt, Body

\* A write never shortens a body; it ends where the write ends or where the
\* body ended.
LEMMA WriteAtType ==
  ASSUME NEW b \in Body, NEW off \in Nat, NEW s \in Body
  PROVE  /\ WriteAt(b, off, s) \in Body
         /\ Len(WriteAt(b, off, s)) = Larger(Len(b), off + Len(s))
<1> DEFINE n == Larger(Len(b), off + Len(s))
<1>1. n \in Nat
  BY DEF Larger, Body
<1>2. \A k \in 1..n : (IF off < k /\ k <= off + Len(s) THEN s[k - off]
                       ELSE IF k <= Len(b) THEN b[k] ELSE Hole) \in Cell
  <2>1. SUFFICES ASSUME NEW k \in 1..n
                 PROVE  (IF off < k /\ k <= off + Len(s) THEN s[k - off]
                         ELSE IF k <= Len(b) THEN b[k] ELSE Hole) \in Cell
    OBVIOUS
  <2>2. CASE off < k /\ k <= off + Len(s)
    <3>1. k - off \in 1..Len(s)
      BY <1>1, <2>2 DEF Body
    <3> QED
      BY <2>2, <3>1 DEF Body
  <2>3. CASE ~(off < k /\ k <= off + Len(s)) /\ k <= Len(b)
    BY <1>1, <2>3 DEF Body
  <2>4. CASE ~(off < k /\ k <= off + Len(s)) /\ ~(k <= Len(b))
    BY <2>4, CellTypes
  <2> QED
    BY <2>2, <2>3, <2>4
<1> QED
  BY <1>1, <1>2 DEF WriteAt, Body

\* A write leaves every cell of the body outside its range as it was.
LEMMA WriteAtFrame ==
  ASSUME NEW b \in Body, NEW off \in Nat, NEW s \in Body,
         NEW k \in 1..Len(b), k <= off \/ off + Len(s) < k
  PROVE  CellAt(WriteAt(b, off, s), k) = CellAt(b, k)
<1>1. Len(b) \in Nat /\ Len(s) \in Nat
  BY DEF Body
<1>2. k \in 1..Larger(Len(b), off + Len(s))
  BY <1>1 DEF Larger
<1>3. Len(WriteAt(b, off, s)) = Larger(Len(b), off + Len(s))
  BY WriteAtType
<1>4. ~(off < k /\ k <= off + Len(s)) /\ k <= Len(b)
  BY <1>1
<1>5. WriteAt(b, off, s)[k] = b[k]
  BY <1>2, <1>4 DEF WriteAt
<1> QED
  BY <1>2, <1>3, <1>5 DEF CellAt

\* What was written is what is read.
LEMMA WriteAtValue ==
  ASSUME NEW b \in Body, NEW off \in Nat, NEW s \in Body,
         NEW k \in 1..Len(s)
  PROVE  CellAt(WriteAt(b, off, s), off + k) = s[k]
<1>1. off + k \in 1..Larger(Len(b), off + Len(s))
  BY DEF Larger, Body
<1>2. Len(WriteAt(b, off, s)) = Larger(Len(b), off + Len(s))
  BY WriteAtType
<1>3. off < off + k /\ off + k <= off + Len(s) /\ (off + k) - off = k
  BY DEF Body
<1> QED
  BY <1>1, <1>2, <1>3 DEF WriteAt, CellAt, Body

\* A write of nothing changes nothing.
LEMMA WriteNothing ==
  ASSUME NEW b \in Body
  PROVE  WriteAt(b, 0, << >>) = b
<1>1. b = [k \in 1..Len(b) |-> b[k]] /\ Len(b) \in Nat
  BY DEF Body
<1>2. Len(<< >>) = 0 /\ Larger(Len(b), 0 + Len(<< >>)) = Len(b)
  BY <1>1 DEF Larger
<1>3. WriteAt(b, 0, << >>) = [k \in 1..Len(b) |-> b[k]]
  BY <1>1, <1>2 DEF WriteAt
<1> QED
  BY <1>1, <1>3

\* A write at any position of the file never shortens the body.
LEMMA BodyAfterType ==
  ASSUME NEW b \in Body, NEW h \in Nat, NEW pos \in Nat, NEW s \in Body
  PROVE  BodyAfter(b, h, pos, s) \in Body /\ Len(b) <= Len(BodyAfter(b, h, pos, s))
<1>1. ASSUME NEW off \in Nat, NEW t \in Body
      PROVE  WriteAt(b, off, t) \in Body /\ Len(b) <= Len(WriteAt(b, off, t))
  BY <1>1, WriteAtType, BodyLen DEF Larger
<1>2. CASE pos >= h
  BY <1>1, <1>2 DEF BodyAfter
<1>3. CASE ~(pos >= h)
  <2>1. Len(s) \in Nat /\ \A k \in (h - pos + 1)..Len(s) : s[k] \in Cell
    BY <1>3 DEF Body
  <2>2. SubSeq(s, h - pos + 1, Len(s)) \in Body
    BY <2>1, SubSeqProperties DEF Body
  <2> QED
    BY <1>1, <1>3, <2>2 DEF BodyAfter
<1> QED
  BY <1>2, <1>3

\* A write that ends in the header leaves the body as it is.
LEMMA BodyAfterHeader ==
  ASSUME NEW b \in Body, NEW h \in Nat, NEW pos \in Nat, NEW s \in Body,
         pos < h, pos + Len(s) <= h
  PROVE  BodyAfter(b, h, pos, s) = b
<1>1. Len(s) \in Nat /\ Len(s) < h - pos + 1
  BY BodyLen
<1>2. SubSeq(s, h - pos + 1, Len(s)) = << >>
  BY <1>1, SubSeqEmpty
<1>3. BodyAfter(b, h, pos, s) = WriteAt(b, 0, << >>)
  <2>1. ~(pos >= h)
    OBVIOUS
  <2> QED
    BY <1>2, <2>1, Zenon DEF BodyAfter
<1> QED
  BY <1>3, WriteNothing

\* The cells of record r end before those of any later record begin.
LEMMA RecordCells ==
  ASSUME NEW r \in Int, NEW q \in Int, NEW j \in 1..RecLen, r # q
  PROVE  \/ Offset(r) + j <= Offset(q)
         \/ Offset(q) + RecLen < Offset(r) + j
<1>1. RecLen \in Int /\ r - 1 \in Int /\ q - 1 \in Int
  BY RecLenAssumption
<1>2. CASE r < q
  <2>1. r * RecLen <= (q - 1) * RecLen
    BY <1>1, <1>2, RecordsMonotone
  <2>2. (r - 1) * RecLen = r * RecLen - RecLen
    BY NextRecord
  <2>3. r * RecLen \in Int /\ (q - 1) * RecLen \in Int
    BY <1>1, NextRecord
  <2> QED
    BY <1>1, <2>1, <2>2, <2>3 DEF Offset
<1>3. CASE q < r
  <2>1. q * RecLen <= (r - 1) * RecLen
    BY <1>1, <1>3, RecordsMonotone
  <2>2. (q - 1) * RecLen = q * RecLen - RecLen
    BY NextRecord
  <2>3. q * RecLen \in Int /\ (r - 1) * RecLen \in Int
    BY <1>1, NextRecord
  <2> QED
    BY <1>1, <2>1, <2>2, <2>3 DEF Offset
<1> QED
  BY <1>2, <1>3

\* An intact record's cells are in the body.
LEMMA IntactCells ==
  ASSUME NEW b \in Body, NEW r \in Int, Intact(b, r), NEW j \in 1..RecLen
  PROVE  Offset(r) + j \in 1..Len(b)
<1>1. (r - 1) * RecLen = r * RecLen - RecLen /\ r * RecLen \in Int
  BY NextRecord
<1>2. 0 * RecLen <= (r - 1) * RecLen
  BY RecordsMonotone DEF Intact
<1> QED
  BY <1>1, <1>2, NoRecords, RecLenAssumption, BodyLen DEF Intact, Offset

\* A record's first cell follows those of the records before it.
LEMMA OffsetType ==
  ASSUME NEW r \in Int, NEW n \in Int, 1 <= r, r <= n
  PROVE  /\ Offset(r) \in Nat /\ n * RecLen \in Nat
         /\ Offset(r) + RecLen = r * RecLen
         /\ Offset(r) + RecLen <= n * RecLen
<1>1. r * RecLen <= n * RecLen /\ 0 * RecLen <= (r - 1) * RecLen
  BY RecordsMonotone
<1>2. (r - 1) * RecLen = r * RecLen - RecLen
  BY NextRecord
<1>3. r * RecLen \in Int /\ n * RecLen \in Int
  BY NextRecord
<1> QED
  BY <1>1, <1>2, <1>3, NoRecords, RecLenAssumption DEF Offset
=============================================================================
