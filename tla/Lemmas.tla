------------------------------- MODULE Lemmas -------------------------------
(***************************************************************************)
(* What the proofs of several modules need: induction over the natural     *)
(* numbers and over sequences, stated with sets (a nonempty set of         *)
(* naturals has a least element, since the intervals 1 .. k are finite     *)
(* sets and strict inclusion is well-founded on those), the elements of a  *)
(* sequence and how many of them are of a kind, and flattened sequences.   *)
(***************************************************************************)
EXTENDS Naturals, SequencesExt, FiniteSetTheorems, SequenceTheorems, WellFoundedInduction, TLAPS

\* A nonempty set of natural numbers has a least element.
LEMMA LeastElement ==
    ASSUME NEW T \in SUBSET Nat, T # {}
    PROVE  \E m \in T : \A k \in T : m <= k
<1> DEFINE U == {1 .. k : k \in T}
           R == StrictSubsetOrdering(Nat)
           S == FiniteSubsetsOf(Nat)
<1>1. IsWellFoundedOn(R, S)
  BY FS_StrictSubsetOrderingWellFounded
<1>2. U \subseteq S
  <2> SUFFICES ASSUME NEW k \in T PROVE 1 .. k \in S
    OBVIOUS
  <2>1. IsFiniteSet(1 .. k)
    BY FS_Interval
  <2> QED
    BY <2>1 DEF FiniteSubsetsOf
<1>3. U # {}
  OBVIOUS
<1>4. \E x \in U : \A y \in U : ~ (<<y, x>> \in R)
  <2> HIDE DEF U, R, S
  <2> QED
    BY <1>1, <1>2, <1>3, WFMin
<1>5. PICK m \in T : \A k \in T : ~ (<<1 .. k, 1 .. m>> \in R)
  BY <1>4
<1>6. SUFFICES ASSUME NEW k \in T, k < m PROVE FALSE
  OBVIOUS
<1>7. 1 .. k \subseteq 1 .. m /\ m \in 1 .. m /\ m \notin 1 .. k
  BY <1>6
<1>8. <<1 .. k, 1 .. m>> \in R
  BY <1>7 DEF StrictSubsetOrdering
<1> QED
  BY <1>5, <1>8

\* Induction: a set that holds 0 and with n its successor holds every number.
LEMMA SetInduction ==
    ASSUME NEW S, 0 \in S, \A n \in Nat : n \in S => n + 1 \in S
    PROVE  Nat \subseteq S
<1> DEFINE T == Nat \ S
<1>1. SUFFICES ASSUME T # {} PROVE FALSE
  OBVIOUS
<1>2. PICK m \in T : \A k \in T : m <= k
  <2> HIDE DEF T
  <2>1. T \in SUBSET Nat
    BY DEF T
  <2> QED
    BY <1>1, <2>1, LeastElement
<1>3. m # 0 /\ m - 1 \in Nat /\ m - 1 \notin T
  BY <1>2
<1> QED
  BY <1>3

\* Min and Max of FiniteSetsExt.
LEMMA LeastIsMin ==
    ASSUME NEW T \in SUBSET Nat, T # {}
    PROVE  Min(T) \in T /\ \A k \in T : Min(T) <= k
<1>1. \E m \in T : \A k \in T : m <= k
  BY LeastElement
<1> QED BY <1>1 DEF Min

LEMMA GreatestIsMax ==
    ASSUME NEW n \in Nat, NEW T \in SUBSET (0 .. n), T # {}
    PROVE  Max(T) \in T /\ \A k \in T : k <= Max(T)
<1> DEFINE U == {u \in 0 .. n : n - u \in T}
<1>1. U \in SUBSET Nat /\ U # {}
  <2>1. PICK k \in T : TRUE
    OBVIOUS
  <2>2. n - k \in 0 .. n /\ n - (n - k) = k
    OBVIOUS
  <2>3. n - k \in U
    BY <2>2
  <2>4. U \subseteq 0 .. n
    OBVIOUS
  <2> HIDE DEF U
  <2> QED BY <2>3, <2>4
<1>2. PICK u \in U : \A v \in U : u <= v
  <2> HIDE DEF U
  <2> QED BY <1>1, LeastElement
<1>3. ASSUME NEW k \in T PROVE n - u >= k
  <2>1. n - k \in 0 .. n /\ n - (n - k) = k
    OBVIOUS
  <2>2. n - k \in U
    BY <2>1
  <2> QED BY <1>2, <2>1, <2>2
<1>4. n - u \in T
  OBVIOUS
<1>5. Max(T) \in T /\ \A k \in T : Max(T) >= k
  BY <1>3, <1>4 DEF Max
<1>6. ASSUME NEW k \in T PROVE k <= Max(T)
  BY <1>5
<1> QED BY <1>5, <1>6

\* Induction over sequences: a set that holds the empty sequence, and with a
\* sequence every one that is longer by an element, holds every sequence.
LEMMA SeqSetInduction ==
    ASSUME NEW S, NEW P, <<>> \in P,
           \A s \in Seq(S), x \in S : s \in P => Append(s, x) \in P
    PROVE  Seq(S) \subseteq P
<1> DEFINE T == {n \in Nat : \A s \in Seq(S) : Len(s) = n => s \in P}
<1>1. 0 \in T
  OBVIOUS
<1>2. ASSUME NEW n \in Nat, n \in T PROVE n + 1 \in T
  <2> SUFFICES ASSUME NEW s \in Seq(S), Len(s) = n + 1 PROVE s \in P
    OBVIOUS
  <2> DEFINE r == [i \in 1 .. n |-> s[i]]
             x == s[n + 1]
  <2>1. r \in Seq(S) /\ x \in S /\ Len(r) = n
    OBVIOUS
  <2>2. Append(r, x) = s
    OBVIOUS
  <2> HIDE DEF r, x
  <2>3. r \in P
    BY <1>2, <2>1
  <2> QED BY <2>1, <2>2, <2>3
<1>3. Nat \subseteq T
  <2> HIDE DEF T
  <2> QED BY <1>1, <1>2, SetInduction
<1> QED BY <1>3

\* Induction up to n.
LEMMA IntervalInduction ==
    ASSUME NEW n \in Nat, NEW P, n = 0 \/ 1 \in P,
           \A i \in 1 .. n - 1 : i \in P => i + 1 \in P
    PROVE  \A i \in 1 .. n : i \in P
<1> DEFINE U == {i \in Nat : i + 1 <= n => i + 1 \in P}
<1>1. 0 \in U
  OBVIOUS
<1>2. ASSUME NEW i \in Nat, i \in U PROVE i + 1 \in U
  <2> SUFFICES ASSUME i + 2 <= n PROVE i + 2 \in P
    OBVIOUS
  <2>1. i + 1 \in P /\ i + 1 \in 1 .. n - 1 /\ (i + 1) + 1 = i + 2
    BY <1>2
  <2> QED BY <2>1
<1>3. Nat \subseteq U
  <2> HIDE DEF U
  <2> QED BY <1>1, <1>2, SetInduction
<1>4. ASSUME NEW i \in 1 .. n PROVE i \in P
  <2>1. i - 1 \in Nat /\ (i - 1) + 1 = i
    OBVIOUS
  <2>2. i - 1 \in U
    <3> HIDE DEF U
    <3> QED BY <1>3, <2>1
  <2> QED BY <2>1, <2>2
<1> QED BY <1>4

LEMMA UptoInduction ==
    ASSUME NEW n \in Nat, NEW P, 0 \in P,
           \A i \in 0 .. n - 1 : i \in P => i + 1 \in P
    PROVE  \A i \in 0 .. n : i \in P
<1> DEFINE U == {i \in Nat : i <= n => i \in P}
<1>1. 0 \in U
  OBVIOUS
<1>2. ASSUME NEW i \in Nat, i \in U PROVE i + 1 \in U
  <2> SUFFICES ASSUME i + 1 <= n PROVE i + 1 \in P
    OBVIOUS
  <2>1. i \in P /\ i \in 0 .. n - 1
    BY <1>2
  <2> QED BY <2>1
<1>3. Nat \subseteq U
  <2> HIDE DEF U
  <2> QED BY <1>1, <1>2, SetInduction
<1> QED BY <1>3

\* Induction downwards: what holds of a number if it holds of those above it.
LEMMA DownInduction ==
    ASSUME NEW n \in Nat, NEW P,
           \A i \in 1 .. n : (\A k \in i + 1 .. n : k \in P) => i \in P
    PROVE  \A i \in 1 .. n : i \in P
<1> DEFINE U == {m \in Nat : \A i \in n - m + 1 .. n : i >= 1 => i \in P}
<1>1. 0 \in U
  OBVIOUS
<1>2. ASSUME NEW m \in 0 .. n - 1, m \in U PROVE m + 1 \in U
  <2>1. n - m \in 1 .. n /\ n - m \in P
    <3>1. n - m \in 1 .. n
      OBVIOUS
    <3>2. \A k \in n - m + 1 .. n : k \in P
      BY <1>2
    <3> QED BY <3>1, <3>2
  <2>2. ASSUME NEW i \in n - (m + 1) + 1 .. n, i >= 1 PROVE i \in P
    <3>1. i = n - m \/ i \in n - m + 1 .. n
      OBVIOUS
    <3> QED BY <1>2, <2>1, <2>2, <3>1
  <2> QED BY <2>2
<1>3. n \in U
  <2> HIDE DEF U
  <2>1. \A m \in 0 .. n : m \in U
    BY <1>1, <1>2, UptoInduction
  <2> QED BY <2>1
<1>4. \A i \in n - n + 1 .. n : i >= 1 => i \in P
  BY <1>3
<1>5. \A i \in 1 .. n : i \in n - n + 1 .. n /\ i >= 1
  OBVIOUS
<1> QED BY <1>4, <1>5

-----------------------------------------------------------------------------
(* The elements of a sequence, and how many of them are in M.              *)

\* Appending to a sequence adds one element to its range.
LEMMA RangeAppend ==
  ASSUME NEW S, NEW q \in Seq(S), NEW x
  PROVE  Range(Append(q, x)) = Range(q) \cup {x}
  <1> DEFINE r == Append(q, x)
  <1>1. /\ DOMAIN q = 1 .. Len(q) /\ Len(q) \in Nat /\ DOMAIN r = 1 .. Len(q) + 1
        /\ \A i \in 1 .. Len(q) : r[i] = q[i]
        /\ r[Len(q) + 1] = x
    OBVIOUS
  <1> HIDE DEF r
  <1>2. \A i \in DOMAIN r : r[i] \in Range(q) \cup {x}
    BY <1>1 DEF Range
  <1>3. \A i \in DOMAIN q : i \in DOMAIN r /\ r[i] = q[i]
    BY <1>1
  <1>4. Len(q) + 1 \in DOMAIN r
    BY <1>1
  <1> QED BY <1>1, <1>2, <1>3, <1>4 DEF Range, r

\* Reading from a queue takes its head out of it.
LEMMA RangeTail ==
  ASSUME NEW S, NEW q \in Seq(S), q # <<>>
  PROVE  /\ Head(q) \in S /\ Tail(q) \in Seq(S)
         /\ Range(q) = {Head(q)} \cup Range(Tail(q))
  <1>1. /\ DOMAIN q = 1 .. Len(q) /\ Len(q) \in Nat /\ Len(q) >= 1
        /\ DOMAIN Tail(q) = 1 .. Len(q) - 1 /\ Tail(q) \in Seq(S)
        /\ \A i \in 1 .. Len(q) - 1 : Tail(q)[i] = q[i + 1]
        /\ Head(q) = q[1] /\ Head(q) \in S
    BY HeadTailProperties, LenProperties
  <1>2. \A i \in DOMAIN q : i = 1 \/ (i - 1 \in DOMAIN Tail(q) /\ q[i] = Tail(q)[i - 1])
    BY <1>1
  <1>3. \A i \in DOMAIN Tail(q) : i + 1 \in DOMAIN q /\ Tail(q)[i] = q[i + 1]
    BY <1>1
  <1> DEFINE t == Tail(q)
             h == Head(q)
  <1>4. 1 \in DOMAIN q /\ q[1] = h
    BY <1>1
  <1>5. \A i \in DOMAIN q : q[i] = h \/ \E k \in DOMAIN t : q[i] = t[k]
    BY <1>2, <1>4
  <1>6. \A k \in DOMAIN t : \E i \in DOMAIN q : t[k] = q[i]
    BY <1>3
  <1> HIDE DEF t, h
  <1>7. Range(q) = {h} \cup Range(t)
    BY <1>4, <1>5, <1>6 DEF Range
  <1> QED BY <1>1, <1>7 DEF t, h

Count(q, M) == Cardinality({i \in DOMAIN q : q[i] \in M})

LEMMA CountType ==
  ASSUME NEW S, NEW q \in Seq(S), NEW M
  PROVE  Count(q, M) \in Nat /\ IsFiniteSet({i \in DOMAIN q : q[i] \in M})
  <1>1. DOMAIN q = 1 .. Len(q) /\ Len(q) \in Nat
    BY LenProperties
  <1>2. IsFiniteSet(DOMAIN q)
    BY <1>1, FS_Interval
  <1>3. {i \in DOMAIN q : q[i] \in M} \in SUBSET DOMAIN q
    OBVIOUS
  <1>4. IsFiniteSet({i \in DOMAIN q : q[i] \in M})
    BY <1>2, <1>3, FS_Subset
  <1> QED BY <1>4, FS_CardinalityType DEF Count

\* What is appended is counted if it is of the kind.
LEMMA CountAppend ==
  ASSUME NEW S, NEW q \in Seq(S), NEW x, NEW M
  PROVE  Count(Append(q, x), M) = Count(q, M) + (IF x \in M THEN 1 ELSE 0)
  <1> DEFINE r == Append(q, x)
             A == {i \in DOMAIN q : q[i] \in M}
             B == {i \in DOMAIN r : r[i] \in M}
             n == Len(q) + 1
  <1>1. /\ DOMAIN q = 1 .. Len(q) /\ Len(q) \in Nat /\ DOMAIN r = 1 .. n
        /\ \A i \in 1 .. Len(q) : r[i] = q[i]
        /\ r[n] = x
    OBVIOUS
  <1>2. IsFiniteSet(A) /\ Cardinality(A) \in Nat
    BY CountType DEF Count
  <1> HIDE DEF r
  <1>3. n \notin A /\ (x \in M => B = A \cup {n}) /\ (x \notin M => B = A)
    BY <1>1
  <1> HIDE DEF A, B, n
  <1>4. Cardinality(B) = Cardinality(A) + (IF x \in M THEN 1 ELSE 0)
    <2>1. CASE x \in M
      <3>1. Cardinality(A \cup {n}) = Cardinality(A) + 1
        BY <1>2, <1>3, FS_AddElement
      <3> QED BY <1>3, <2>1, <3>1
    <2>2. CASE x \notin M
      BY <1>2, <1>3, <2>2
    <2> QED BY <2>1, <2>2
  <1> QED BY <1>4 DEF Count, A, B, r

\* What is read from the head is counted no more.
LEMMA CountTail ==
  ASSUME NEW S, NEW q \in Seq(S), q # <<>>, NEW M
  PROVE  Count(q, M) = Count(Tail(q), M) + (IF Head(q) \in M THEN 1 ELSE 0)
  <1> DEFINE t == Tail(q)
             A == {i \in DOMAIN q : q[i] \in M}
             B == {i \in DOMAIN t : t[i] \in M}
             C == {i \in A : i # 1}
             shift == [i \in B |-> i + 1]
  <1>1. /\ DOMAIN q = 1 .. Len(q) /\ Len(q) \in Nat /\ Len(q) >= 1
        /\ t \in Seq(S) /\ DOMAIN t = 1 .. Len(q) - 1
        /\ \A i \in 1 .. Len(q) - 1 : t[i] = q[i + 1]
        /\ Head(q) = q[1]
    BY HeadTailProperties, LenProperties
  <1>2. IsFiniteSet(B) /\ Cardinality(B) \in Nat
    BY <1>1, CountType DEF Count
  <1> HIDE DEF t
  <1>3. \A i \in B : i + 1 \in C
    BY <1>1
  <1>4. \A j \in C : j - 1 \in B /\ (j - 1) + 1 = j
    BY <1>1
  <1>5. \A i \in B : i \in Nat
    BY <1>1
  <1>6. 1 \notin C /\ (Head(q) \in M => A = C \cup {1}) /\ (Head(q) \notin M => A = C)
    BY <1>1
  <1> HIDE DEF A, B, C
  <1>7. shift \in Bijection(B, C)
    <2>1. shift \in [B -> C]
      BY <1>3
    <2>2. IsInjective(shift)
      BY <1>5 DEF IsInjective
    <2>3. \A j \in C : \E i \in B : shift[i] = j
      BY <1>4
    <2> QED BY <2>1, <2>2, <2>3 DEF Bijection, Injection, Surjection
  <1>8. IsFiniteSet(C) /\ Cardinality(C) = Cardinality(B)
    BY <1>2, <1>7, FS_Bijection DEF ExistsBijection
  <1>9. Cardinality(A) = Cardinality(B) + (IF Head(q) \in M THEN 1 ELSE 0)
    <2>1. CASE Head(q) \in M
      <3>1. A = C \cup {1} /\ 1 \notin C
        BY <1>6, <2>1
      <3>2. Cardinality(C \cup {1}) = Cardinality(C) + 1
        BY <1>8, <3>1, FS_AddElement
      <3> QED BY <1>8, <2>1, <3>1, <3>2
    <2>2. CASE Head(q) \notin M
      <3>1. A = C
        BY <1>6, <2>2
      <3> QED BY <1>2, <1>8, <2>2, <3>1
    <2> QED BY <2>1, <2>2
  <1> QED BY <1>9 DEF Count, A, B, t

\* What is not counted is not there.
LEMMA CountsMember ==
  ASSUME NEW S, NEW q \in Seq(S), NEW M, NEW x \in Range(q), x \in M
  PROVE  Count(q, M) >= 1
  <1> DEFINE A == {i \in DOMAIN q : q[i] \in M}
  <1>1. A # {}
    BY DEF Range
  <1>2. IsFiniteSet(A) /\ Cardinality(A) \in Nat
    BY CountType DEF Count
  <1>3. Cardinality(A) # 0
    BY <1>1, <1>2, FS_EmptySet
  <1> QED BY <1>2, <1>3 DEF Count

\* Nothing is counted where nothing is of the kind.
LEMMA CountsNone ==
  ASSUME NEW q, NEW M, \A x \in Range(q) : x \notin M
  PROVE  Count(q, M) = 0
  <1>1. {i \in DOMAIN q : q[i] \in M} = {}
    BY DEF Range
  <1> QED BY <1>1, FS_EmptySet DEF Count

LEMMA CountConcat ==
  ASSUME NEW S, NEW q \in Seq(S), NEW r \in Seq(S), NEW M
  PROVE  Count(q \o r, M) = Count(q, M) + Count(r, M)
  <1> DEFINE P == {t \in Seq(S) : Count(q \o t, M) = Count(q, M) + Count(t, M)}
  <1>1. <<>> \in P
    <2>1. q \o <<>> = q /\ <<>> \in Seq(S)
      OBVIOUS
    <2>2. Count(<<>>, M) = 0
      <3>1. \A x \in Range(<<>>) : FALSE
        BY DEF Range
      <3> QED BY <3>1, CountsNone
    <2>3. Count(q, M) \in Nat
      BY CountType
    <2>4. Count(q \o <<>>, M) = Count(q, M) + Count(<<>>, M)
      BY <2>1, <2>2, <2>3
    <2> QED BY <2>1, <2>4
  <1>2. ASSUME NEW t \in Seq(S), NEW x \in S, t \in P PROVE Append(t, x) \in P
    <2>1. q \o Append(t, x) = Append(q \o t, x) /\ q \o t \in Seq(S) /\ Append(t, x) \in Seq(S)
      BY SMTT(60)
    <2>2. /\ Count(Append(q \o t, x), M) = Count(q \o t, M) + (IF x \in M THEN 1 ELSE 0)
          /\ Count(Append(t, x), M) = Count(t, M) + (IF x \in M THEN 1 ELSE 0)
      BY <2>1, CountAppend, ZenonT(60)
    <2>3. Count(q, M) \in Nat /\ Count(t, M) \in Nat
      BY CountType
    <2>4. Count(q \o t, M) = Count(q, M) + Count(t, M)
      BY <1>2
    <2>5. Count(q \o Append(t, x), M) = Count(q, M) + Count(Append(t, x), M)
      BY <2>1, <2>2, <2>3, <2>4
    <2> QED BY <2>1, <2>5
  <1>3. Seq(S) \subseteq P
    <2> HIDE DEF P
    <2> QED BY <1>1, <1>2, SeqSetInduction
  <1> QED BY <1>3

\* A sequence is its first m elements and the others.
LEMMA SplitAt ==
    ASSUME NEW S, NEW s \in Seq(S), NEW m \in Nat, m <= Len(s)
    PROVE  /\ SubSeq(s, 1, m) \in Seq(S) /\ SubSeq(s, m + 1, Len(s)) \in Seq(S)
           /\ SubSeq(s, 1, m) \o SubSeq(s, m + 1, Len(s)) = s
<1> DEFINE a == SubSeq(s, 1, m)
           b == SubSeq(s, m + 1, Len(s))
<1>1. a \in Seq(S) /\ Len(a) = m /\ \A i \in 1 .. m : a[i] = s[i]
  OBVIOUS
<1>2. b \in Seq(S) /\ Len(b) = Len(s) - m /\ \A i \in 1 .. Len(s) - m : b[i] = s[m + i]
  OBVIOUS
<1> HIDE DEF a, b
<1>3. /\ a \o b \in Seq(S) /\ Len(a \o b) = Len(s)
      /\ \A i \in 1 .. Len(a) : (a \o b)[i] = a[i]
      /\ \A i \in 1 .. Len(b) : (a \o b)[Len(a) + i] = b[i]
  <2>1. /\ a \o b \in Seq(S) /\ Len(a \o b) = Len(a) + Len(b)
        /\ \A i \in 1 .. Len(a) : (a \o b)[i] = a[i]
        /\ \A i \in 1 .. Len(b) : (a \o b)[Len(a) + i] = b[i]
    BY <1>1, <1>2, SMTT(60)
  <2>2. m + (Len(s) - m) = Len(s)
    OBVIOUS
  <2> QED BY <1>1, <1>2, <2>1, <2>2
<1>4. ASSUME NEW i \in 1 .. Len(s) PROVE (a \o b)[i] = s[i]
  <2>1. CASE i <= m
    BY <1>1, <1>3, <2>1
  <2>2. CASE ~ (i <= m)
    <3>1. i - m \in 1 .. Len(s) - m /\ m + (i - m) = i
      BY <2>2
    <3>2. b[i - m] = s[m + (i - m)] /\ (a \o b)[m + (i - m)] = b[i - m]
      BY <1>1, <1>2, <1>3, <3>1
    <3> QED BY <3>1, <3>2
  <2> QED BY <2>1, <2>2
<1>5. a \o b = s
  <2>1. \A x, y \in Seq(S) : Len(x) = Len(y) /\ (\A i \in 1 .. Len(y) : x[i] = y[i]) => x = y
    OBVIOUS
  <2> QED BY <1>3, <1>4, <2>1
<1> QED BY <1>1, <1>2, <1>5 DEF a, b

\* c is u followed by w.
Joined(S, c, u, w) ==
    /\ c \in Seq(S) /\ Len(c) = Len(u) + Len(w) /\ Len(u) \in Nat /\ Len(w) \in Nat
    /\ \A i \in 1 .. Len(u) : c[i] = u[i]
    /\ \A i \in 1 .. Len(w) : c[Len(u) + i] = w[i]

LEMMA ConcatJoins ==
    ASSUME NEW S, NEW u \in Seq(S), NEW w \in Seq(S), NEW c, c = u \o w
    PROVE  Joined(S, c, u, w)
BY DEF Joined

LEMMA HeadTailJoin ==
    ASSUME NEW S, NEW q \in Seq(S), q # <<>>
    PROVE  Head(q) \in S /\ Tail(q) \in Seq(S) /\ q = <<Head(q)>> \o Tail(q)
<1>1. Head(q) \in S /\ Tail(q) \in Seq(S) /\ Len(q) \in Nat /\ Len(q) >= 1
      /\ Len(Tail(q)) = Len(q) - 1 /\ q[1] = Head(q)
      /\ \A i \in 1 .. Len(q) - 1 : Tail(q)[i] = q[i + 1]
  BY HeadTailProperties
<1>2. <<Head(q)>> \in Seq(S) /\ Len(<<Head(q)>>) = 1 /\ <<Head(q)>>[1] = Head(q)
  BY <1>1
<1>3. PICK o, t, c : o = <<Head(q)>> /\ t = Tail(q) /\ c = o \o t
  OBVIOUS
<1>4. Joined(S, c, o, t)
  BY <1>1, <1>2, <1>3, ConcatJoins
<1>5. c \in Seq(S) /\ Len(c) = Len(q) /\ c[1] = q[1] /\ \A i \in 1 .. Len(q) - 1 : c[1 + i] = q[i + 1]
  BY <1>1, <1>2, <1>3, <1>4 DEF Joined
<1>6. ASSUME NEW i \in 1 .. Len(q) PROVE c[i] = q[i]
  <2>1. i = 1 \/ (i - 1 \in 1 .. Len(q) - 1 /\ 1 + (i - 1) = i /\ (i - 1) + 1 = i)
    BY <1>1
  <2>2. CASE i = 1
    BY <1>5, <2>2
  <2>3. CASE i # 1
    <3>1. c[1 + (i - 1)] = q[(i - 1) + 1]
      BY <1>5, <2>1, <2>3
    <3> QED BY <2>1, <2>3, <3>1
  <2> QED BY <2>2, <2>3
<1>7. \A x, y \in Seq(S) : Len(x) = Len(y) /\ (\A n \in 1 .. Len(y) : x[n] = y[n]) => x = y
  OBVIOUS
<1>8. c = q
  BY <1>5, <1>6, <1>7
<1> QED BY <1>1, <1>3, <1>8

\* The head of what follows may be appended to what precedes.
LEMMA AppendConcat ==
    ASSUME NEW S, NEW u \in Seq(S), NEW z \in S, NEW w \in Seq(S)
    PROVE  u \o (<<z>> \o w) = Append(u, z) \o w
<1>1. <<z>> \in Seq(S)
  OBVIOUS
<1>2. PICK o : o = <<z>> /\ o \in Seq(S)
  BY <1>1
<1>3. (u \o o) \o w = u \o (o \o w)
  BY <1>2, ConcatAssociative
<1>4. Append(u, z) = u \o <<z>>
  BY AppendIsConcat
<1> QED BY <1>2, <1>3, <1>4

-----------------------------------------------------------------------------
(* Flattened sequences.                                                    *)

\* The results that FlattenSeq goes through for the n sequences ss of Q.
Flattened(f, n, ss, Q) ==
    /\ f \in [1 .. n -> Q]
    /\ f[1] = ss[1]
    /\ \A i \in 1 .. n - 1 : f[i + 1] = f[i] \o ss[i + 1]
    /\ FlattenSeq(ss) = f[n]

\* The recursion by which FlattenSeq is defined.
LEMMA FlattenRecursion ==
    ASSUME NEW S, NEW Q, Q = Seq(S), NEW N \in Nat, NEW ss \in Seq(Q), N = Len(ss), N # 0
    PROVE  \E f : Flattened(f, N, ss, Q)
<1> DEFINE Upto(n) == {f \in [1 .. n -> Q] :
                          f[1] = ss[1] /\ \A i \in 1 .. n - 1 : f[i + 1] = f[i] \o ss[i + 1]}
           T == {n \in Nat : Upto(n) # {}}
<1>1. \A i \in 1 .. N : ss[i] \in Q
  OBVIOUS
<1>2. 1 \in T
  <2> DEFINE g == [i \in 1 .. 1 |-> ss[1]]
  <2>1. g \in [1 .. 1 -> Q] /\ g[1] = ss[1] /\ \A i \in 1 .. 1 - 1 : FALSE
    BY <1>1
  <2>2. g \in Upto(1)
    BY <2>1
  <2> QED BY <2>2
<1>3. ASSUME NEW n \in 1 .. N - 1, n \in T PROVE n + 1 \in T
  <2>1. PICK f : f \in Upto(n)
    BY <1>3
  <2> DEFINE g == [i \in 1 .. n + 1 |-> IF i = n + 1 THEN f[n] \o ss[n + 1] ELSE f[i]]
  <2>2. f[n] \in Q /\ ss[n + 1] \in Q
    BY <1>1, <2>1
  <2>3. g \in [1 .. n + 1 -> Q]
    <3>1. f[n] \o ss[n + 1] \in Q
      <4>1. \A x, y \in Seq(S) : x \o y \in Seq(S)
        OBVIOUS
      <4> QED BY <2>2, <4>1
    <3>2. \A i \in 1 .. n : f[i] \in Q
      BY <2>1
    <3> QED BY <3>1, <3>2
  <2>4. g[1] = ss[1]
    BY <2>1, SMTT(60)
  <2>5. ASSUME NEW i \in 1 .. (n + 1) - 1 PROVE g[i + 1] = g[i] \o ss[i + 1]
    <3>1. CASE i = n
      <4>1. i # n + 1 /\ i + 1 = n + 1 /\ i + 1 \in 1 .. n + 1 /\ i \in 1 .. n + 1
        BY <3>1
      <4>2. g[i] = f[n] /\ g[i + 1] = f[n] \o ss[n + 1]
        BY <3>1, <4>1
      <4> QED BY <3>1, <4>2
    <3>2. CASE i # n
      <4>1. i \in 1 .. n - 1 /\ i + 1 # n + 1 /\ i + 1 \in 1 .. n + 1 /\ i \in 1 .. n + 1 /\ i # n + 1
        BY <3>2
      <4>2. f[i + 1] = f[i] \o ss[i + 1]
        BY <2>1, <4>1
      <4> QED BY <4>1, <4>2
    <3> QED BY <3>1, <3>2, ZenonT(60)
  <2> HIDE DEF g
  <2>6. g \in Upto(n + 1)
    BY <2>3, <2>4, <2>5
  <2> HIDE DEF Upto
  <2> QED BY <2>6
<1>4. N \in T
  <2> HIDE DEF T
  <2>1. \A i \in 1 .. N : i \in T
    BY <1>2, <1>3, IntervalInduction
  <2> QED BY <2>1
<1>5. PICK f \in [1 .. N -> Q] :
         /\ f[1] = ss[1]
         /\ \A i \in 1 .. N - 1 : f[i + 1] = f[i] \o ss[i + 1]
  BY <1>4
<1> DEFINE R(g) == g = [i \in 1 .. N |-> IF i = 1 THEN ss[i] ELSE g[i - 1] \o ss[i]]
           c == CHOOSE g : R(g)
<1>6. R(f)
  <2>1. ASSUME NEW i \in 1 .. N
        PROVE  f[i] = IF i = 1 THEN ss[i] ELSE f[i - 1] \o ss[i]
    <3>1. CASE i = 1
      BY <1>5, <3>1
    <3>2. CASE i # 1
      <4>1. i - 1 \in 1 .. N - 1 /\ (i - 1) + 1 = i
        BY <3>2
      <4> QED BY <1>5, <3>2, <4>1
    <3> QED BY <3>1, <3>2
  <2> QED BY <1>5, <2>1
<1>7. R(c)
  <2> HIDE DEF R
  <2> QED BY <1>6
<1>8. FlattenSeq(ss) = c[N]
  BY DEF FlattenSeq
<1> HIDE DEF c
<1>9. c[1] = ss[1] /\ \A i \in 1 .. N - 1 : c[i + 1] = c[i] \o ss[i + 1]
  <2>1. c[1] = ss[1]
    BY <1>7
  <2>2. ASSUME NEW i \in 1 .. N - 1 PROVE c[i + 1] = c[i] \o ss[i + 1]
    <3>1. i + 1 \in 1 .. N /\ i + 1 # 1 /\ (i + 1) - 1 = i
      OBVIOUS
    <3> QED BY <1>7, <3>1
  <2> QED BY <2>1, <2>2
<1> HIDE DEF R
<1>10. c[N] = f[N]
  <2> DEFINE P == {i \in Nat : c[i] = f[i]}
  <2>1. 1 \in P
    BY <1>5, <1>9
  <2>2. ASSUME NEW i \in 1 .. N - 1, i \in P PROVE i + 1 \in P
    <3>1. i + 1 \in Nat /\ c[i] = f[i]
      BY <2>2
    <3>2. c[i + 1] = c[i] \o ss[i + 1] /\ f[i + 1] = f[i] \o ss[i + 1]
      BY <1>5, <1>9
    <3> QED BY <3>1, <3>2
  <2> HIDE DEF P
  <2>3. \A i \in 1 .. N : i \in P
    BY <2>1, <2>2, IntervalInduction
  <2>4. N \in P
    BY <2>3
  <2> QED BY <2>4 DEF P
<1> QED BY <1>5, <1>8, <1>10 DEF Flattened

LEMMA FlattenEmpty == FlattenSeq(<<>>) = <<>>
  BY DEF FlattenSeq

LEMMA FlattenAppend ==
    ASSUME NEW S, NEW ss \in Seq(Seq(S)), NEW s \in Seq(S)
    PROVE  /\ FlattenSeq(ss) \in Seq(S)
           /\ FlattenSeq(Append(ss, s)) = FlattenSeq(ss) \o s
<1>0. PICK Q : Q = Seq(S)
  OBVIOUS
<1>1. PICK N \in Nat : N = Len(ss)
  OBVIOUS
<1> DEFINE tt == Append(ss, s)
<1>2. /\ ss \in Seq(Q) /\ s \in Q /\ tt \in Seq(Q)
  <2>1. ss \in Seq(Q) /\ s \in Q
    BY <1>0
  <2>2. \A q \in Seq(Q), x \in Q : Append(q, x) \in Seq(Q)
    OBVIOUS
  <2> QED BY <2>1, <2>2 DEF Flattened
<1>3. /\ Len(tt) = N + 1 /\ N + 1 \in Nat /\ N + 1 # 0
      /\ \A i \in 1 .. N : tt[i] = ss[i]
      /\ tt[N + 1] = s
  <2>1. \A q \in Seq(Q), x \in Q : /\ Len(Append(q, x)) = Len(q) + 1
                                  /\ \A i \in 1 .. Len(q) : Append(q, x)[i] = q[i]
                                  /\ Append(q, x)[Len(q) + 1] = x
    OBVIOUS
  <2> QED BY <1>1, <1>2, <2>1 DEF Flattened
<1> HIDE DEF tt
<1>4. PICK g : Flattened(g, N + 1, tt, Q)
  BY <1>0, <1>2, <1>3, FlattenRecursion
<1>5. CASE N = 0
  <2>1. ss = <<>>
    <3>1. \A q \in Seq(Q) : Len(q) = 0 => q = <<>>
      OBVIOUS
    <3> QED BY <1>1, <1>2, <1>5, <3>1
  <2>2. FlattenSeq(ss) = <<>> /\ <<>> \o s = s
    BY <2>1, FlattenEmpty
  <2>3. FlattenSeq(tt) = s
    BY <1>3, <1>4, <1>5 DEF Flattened
  <2> QED BY <1>2, <2>2, <2>3 DEF tt
<1>6. CASE N # 0
  <2>1. PICK f : Flattened(f, N, ss, Q)
    BY <1>0, <1>1, <1>2, <1>6, FlattenRecursion
  <2> DEFINE P == {i \in Nat : f[i] = g[i]}
  <2>2. 1 \in P
    BY <1>3, <1>4, <1>6, <2>1 DEF Flattened
  <2>3. ASSUME NEW i \in 1 .. N - 1, i \in P PROVE i + 1 \in P
    <3>1. i \in 1 .. (N + 1) - 1 /\ i + 1 \in 1 .. N /\ i + 1 \in Nat /\ f[i] = g[i]
      BY <2>3
    <3>2. f[i + 1] = f[i] \o ss[i + 1] /\ g[i + 1] = g[i] \o tt[i + 1] /\ tt[i + 1] = ss[i + 1]
      BY <1>3, <1>4, <2>1, <3>1 DEF Flattened
    <3> QED BY <3>1, <3>2
  <2> HIDE DEF P
  <2>4. \A i \in 1 .. N : i \in P
    BY <2>2, <2>3, IntervalInduction
  <2>5. N \in P /\ N \in 1 .. N /\ N \in 1 .. (N + 1) - 1
    BY <1>6, <2>4
  <2>6. f[N] = g[N]
    BY <2>5 DEF P
  <2>7. g[N + 1] = g[N] \o s
    BY <1>3, <1>4, <2>5 DEF Flattened
  <2>8. f[N] \in Seq(S)
    BY <1>0, <2>1, <2>5 DEF Flattened
  <2> QED BY <1>2, <1>4, <2>1, <2>6, <2>7, <2>8 DEF tt, Flattened
<1> QED BY <1>5, <1>6

LEMMA FlattenConcat ==
    ASSUME NEW S, NEW ss \in Seq(Seq(S)), NEW tt \in Seq(Seq(S))
    PROVE  FlattenSeq(ss \o tt) = FlattenSeq(ss) \o FlattenSeq(tt)
<1> DEFINE P == {t \in Seq(Seq(S)) : FlattenSeq(ss \o t) = FlattenSeq(ss) \o FlattenSeq(t)}
<1>1. FlattenSeq(ss) \in Seq(S)
  <2>1. <<>> \in Seq(S)
    OBVIOUS
  <2> QED BY <2>1, FlattenAppend
<1>2. <<>> \in P
  <2>1. ss \o <<>> = ss /\ FlattenSeq(ss) \o <<>> = FlattenSeq(ss)
    BY <1>1
  <2>2. <<>> \in Seq(Seq(S))
    OBVIOUS
  <2>3. FlattenSeq(ss \o <<>>) = FlattenSeq(ss) \o FlattenSeq(<<>>)
    BY <2>1, FlattenEmpty
  <2> QED BY <2>2, <2>3
<1>3. ASSUME NEW t \in Seq(Seq(S)), NEW x \in Seq(S), t \in P PROVE Append(t, x) \in P
  <2>1. ss \o Append(t, x) = Append(ss \o t, x) /\ ss \o t \in Seq(Seq(S))
    BY SMTT(60)
  <2>2. FlattenSeq(Append(ss \o t, x)) = FlattenSeq(ss \o t) \o x
    BY <2>1, FlattenAppend
  <2>3. FlattenSeq(Append(t, x)) = FlattenSeq(t) \o x /\ FlattenSeq(t) \in Seq(S)
    BY FlattenAppend
  <2>4. FlattenSeq(ss \o t) = FlattenSeq(ss) \o FlattenSeq(t)
    BY <1>3
  <2>5. (FlattenSeq(ss) \o FlattenSeq(t)) \o x = FlattenSeq(ss) \o (FlattenSeq(t) \o x)
    <3> HIDE DEF P
    <3>1. \A a, b, c \in Seq(S) : (a \o b) \o c = a \o (b \o c)
      BY SMTT(60)
    <3> QED BY <1>1, <2>3, <3>1, ZenonT(60)
  <2>6. FlattenSeq(ss \o Append(t, x)) = FlattenSeq(ss) \o FlattenSeq(Append(t, x))
    BY <2>1, <2>2, <2>3, <2>4, <2>5
  <2>7. Append(t, x) \in Seq(Seq(S))
    OBVIOUS
  <2> QED BY <2>6, <2>7
<1>4. Seq(Seq(S)) \subseteq P
  <2> HIDE DEF P
  <2> QED BY <1>2, <1>3, SeqSetInduction
<1> QED BY <1>4

\* The first k elements of f.
Firsts(f, k) == [i \in 1 .. k |-> f[i]]

LEMMA FlattenOneMore ==
    ASSUME NEW S, NEW f \in Seq(Seq(S)), NEW k \in Nat, k < Len(f)
    PROVE  /\ FlattenSeq(Firsts(f, k)) \in Seq(S)
           /\ FlattenSeq(Firsts(f, k + 1)) = FlattenSeq(Firsts(f, k)) \o f[k + 1]
<1>1. PICK Q : Q = Seq(S) /\ f \in Seq(Q)
  OBVIOUS
<1> DEFINE a == [i \in 1 .. k |-> f[i]]
<1>2. a \in Seq(Q)
  <2>1. \A i \in 1 .. k : f[i] \in Q
    BY <1>1
  <2> QED BY <2>1
<1>3. f[k + 1] \in Q
  BY <1>1
<1>4. Append(a, f[k + 1]) = [i \in 1 .. k + 1 |-> f[i]]
  BY <1>2, <1>3
<1>5. a \in Seq(Seq(S)) /\ f[k + 1] \in Seq(S)
  BY <1>1, <1>2, <1>3
<1> HIDE DEF a
<1>6. FlattenSeq(a) \in Seq(S) /\ FlattenSeq(Append(a, f[k + 1])) = FlattenSeq(a) \o f[k + 1]
  BY <1>5, FlattenAppend
<1> QED BY <1>4, <1>6 DEF a, Firsts

LEMMA FlattenOne ==
    ASSUME NEW S, NEW a \in Seq(S)
    PROVE  FlattenSeq(<<a>>) = a
<1>1. <<>> \in Seq(Seq(S)) /\ Append(<<>>, a) = <<a>> /\ <<>> \o a = a
  OBVIOUS
<1> QED BY <1>1, FlattenAppend, FlattenEmpty

\* Where f[i + 1] is in the flattened sequence e, a being what is before it.
PartAt(S, f, e, i, a) ==
    /\ a \in Seq(S) /\ e \in Seq(S) /\ f[i + 1] \in Seq(S)
    /\ Len(FlattenSeq(Firsts(f, i + 1))) = Len(a) + Len(f[i + 1])
    /\ Len(a) + Len(f[i + 1]) <= Len(e)
    /\ i + 1 = Len(f) => Len(a) + Len(f[i + 1]) = Len(e)
    /\ \A j \in 1 .. Len(f[i + 1]) : e[Len(a) + j] = f[i + 1][j]

LEMMA FlattenAt ==
    ASSUME NEW S, NEW f \in Seq(Seq(S)), NEW i \in Nat, i < Len(f),
           NEW a, a = FlattenSeq(Firsts(f, i)), NEW e, e = FlattenSeq(f)
    PROVE  PartAt(S, f, e, i, a)
<1>1. PICK Q : Q = Seq(S)
  OBVIOUS
<1>2. f \in Seq(Q) /\ f[i + 1] \in Q
  BY <1>1
<1> DEFINE b == FlattenSeq(Firsts(f, i + 1))
           h == SubSeq(f, 1, i + 1)
           r == SubSeq(f, i + 2, Len(f))
           z == FlattenSeq(r)
<1>3. h \in Seq(Q) /\ r \in Seq(Q) /\ h \o r = f
  <2>1. i + 1 \in Nat /\ i + 1 <= Len(f) /\ (i + 1) + 1 = i + 2
    OBVIOUS
  <2> QED BY <1>2, <2>1, SplitAt
<1>4. h = Firsts(f, i + 1)
  BY <1>2 DEF Firsts
<1>5. i + 1 = Len(f) => r = <<>>
  BY <1>2
<1> HIDE DEF h, r
<1>6. a \in Seq(S) /\ b = a \o f[i + 1]
  BY FlattenOneMore
<1>7. e = b \o z
  BY <1>1, <1>3, <1>4, FlattenConcat, ZenonT(60)
<1>8. z \in Seq(S)
  <2>1. <<>> \in Seq(S)
    OBVIOUS
  <2> QED BY <1>1, <1>3, <2>1, FlattenAppend
<1>9. i + 1 = Len(f) => z = <<>>
  BY <1>5, FlattenEmpty
<1> HIDE DEF b, z
<1>10. PICK d \in Seq(S) : d = f[i + 1]
  BY <1>1, <1>2
<1>11. /\ b \in Seq(S) /\ Len(b) = Len(a) + Len(d) /\ e \in Seq(S) /\ Len(e) = Len(b) + Len(z)
       /\ Len(a) \in Nat /\ Len(d) \in Nat /\ Len(z) \in Nat
       /\ \A j \in 1 .. Len(d) : b[Len(a) + j] = d[j]
       /\ \A j \in 1 .. Len(b) : e[j] = b[j]
  <2>1. \A x, y \in Seq(S) : /\ x \o y \in Seq(S) /\ Len(x \o y) = Len(x) + Len(y)
                             /\ Len(x) \in Nat /\ Len(y) \in Nat
                             /\ \A j \in 1 .. Len(y) : (x \o y)[Len(x) + j] = y[j]
                             /\ \A j \in 1 .. Len(x) : (x \o y)[j] = x[j]
    OBVIOUS
  <2>2. /\ b \in Seq(S) /\ Len(b) = Len(a) + Len(d) /\ Len(a) \in Nat /\ Len(d) \in Nat
        /\ \A j \in 1 .. Len(d) : b[Len(a) + j] = d[j]
    BY <1>6, <1>10, <2>1, SMTT(60)
  <2>3. /\ e \in Seq(S) /\ Len(e) = Len(b) + Len(z) /\ Len(z) \in Nat
        /\ \A j \in 1 .. Len(b) : e[j] = b[j]
    <3>1. PICK x \in Seq(S), y \in Seq(S) : x = b /\ y = z
      BY <1>8, <2>2
    <3>2. e = x \o y
      BY <1>7, <3>1
    <3> QED BY <3>1, <3>2
  <2> QED BY <2>2, <2>3
<1>12. ASSUME NEW j \in 1 .. Len(d) PROVE e[Len(a) + j] = d[j]
  <2>1. Len(a) + j \in 1 .. Len(b)
    BY <1>11
  <2> QED BY <1>11, <2>1
<1>13. i + 1 = Len(f) => Len(a) + Len(d) = Len(e)
  <2>1. z = <<>> => Len(z) = 0
    OBVIOUS
  <2> QED BY <1>9, <1>11, <2>1
<1> QED BY <1>6, <1>10, <1>11, <1>12, <1>13, SMTT(60) DEF b, PartAt

=============================================================================
