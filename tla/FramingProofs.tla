--------------------------- MODULE FramingProofs ----------------------------
(***************************************************************************)
(* Proofs about module Framing, for every size of a PIU and of a screen,   *)
(* any number of LUs, sessions and screens and any capacity of the socket. *)
(***************************************************************************)
EXTENDS Framing, Lemmas

\* Multiplication keeps order; a quotient times its divisor.
LEMMA Times ==
    ASSUME NEW m \in Nat \ {0}, NEW j \in Nat, NEW k \in Nat, j <= k
    PROVE  j * m <= k * m
<1>1. k * m = j * m + (k - j) * m
  OBVIOUS
<1>2. (k - j) * m >= 0
  OBVIOUS
<1>3. j * m \in Int /\ k * m \in Int /\ (k - j) * m \in Int
  OBVIOUS
<1> QED BY <1>1, <1>2, <1>3

LEMMA Quotient ==
    ASSUME NEW m \in Nat \ {0}, NEW a \in Nat
    PROVE  a \div m \in Nat /\ (a \div m) * m <= a /\ a < (a \div m + 1) * m
  OBVIOUS

(***************************************************************************)
(* The pieces of a screen of n bytes: none is empty, none exceeds MaxSeg,  *)
(* the first begins at byte 1, the last ends at byte n, and each begins    *)
(* where the one before it ends.                                           *)
(***************************************************************************)
LEMMA PieceLen ==
    ASSUME NEW n \in Nat \ {0}, NEW k \in DOMAIN Pieces(n)
    PROVE  SegLen(Pieces(n)[k]) \in 1 .. MaxSeg
<1> DEFINE q == (n + MaxSeg - 1) \div MaxSeg
<1>1. MaxSeg \in Nat \ {0}
  BY NumbersAssumption
<1>2. q \in Nat /\ q * MaxSeg <= n + MaxSeg - 1
  <2>1. n + MaxSeg - 1 \in Nat
    BY <1>1
  <2> QED BY <1>1, <2>1, Quotient
<1>3. k \in 1 .. q
  BY DEF Pieces
<1> HIDE DEF q
<1>4. k \in Nat /\ k * MaxSeg <= q * MaxSeg
  BY <1>1, <1>2, <1>3, Times
<1> DEFINE p == k * MaxSeg
<1>5. p \in Nat /\ q * MaxSeg \in Nat /\ (k - 1) * MaxSeg = p - MaxSeg
  BY <1>1, <1>2, <1>3, <1>4
<1>6. p <= n + MaxSeg - 1
  BY <1>1, <1>2, <1>4, <1>5
<1>7. /\ Pieces(n)[k].from = (k - 1) * MaxSeg + 1
      /\ Pieces(n)[k].to = IF p > n THEN n ELSE p
  BY DEF Pieces, LastByte
<1> HIDE DEF p
<1>8. Pieces(n)[k].from = p - MaxSeg + 1
  BY <1>5, <1>7
<1> QED BY <1>1, <1>5, <1>6, <1>7, <1>8 DEF SegLen

\* How many pieces there are.
LEMMA PieceCount ==
    ASSUME NEW n \in Nat \ {0}
    PROVE  \E q \in Nat \ {0} :
              /\ DOMAIN Pieces(n) = 1 .. q
              /\ q * MaxSeg >= n
              /\ (q - 1) * MaxSeg < n
              /\ q = 1 <=> n <= MaxSeg
<1> DEFINE q == (n + MaxSeg - 1) \div MaxSeg
<1>1. MaxSeg \in Nat \ {0} /\ n + MaxSeg - 1 \in Nat
  BY NumbersAssumption
<1>2. /\ q \in Nat /\ q * MaxSeg <= n + MaxSeg - 1
      /\ n + MaxSeg - 1 < (q + 1) * MaxSeg
  BY <1>1, Quotient
<1>3. DOMAIN Pieces(n) = 1 .. q
  BY DEF Pieces
<1> HIDE DEF q
<1>4. /\ (q + 1) * MaxSeg = q * MaxSeg + MaxSeg
      /\ (q - 1) * MaxSeg = q * MaxSeg - MaxSeg
      /\ q * MaxSeg \in Nat
  BY <1>1, <1>2
<1> DEFINE p == q * MaxSeg
<1>5. p \in Nat /\ n <= p /\ p - MaxSeg < n
  BY <1>1, <1>2, <1>4
<1>6. q # 0
  BY <1>1, <1>2, <1>5
<1>7. q = 1 => p = MaxSeg
  BY <1>1
<1>8. q # 1 => p >= 2 * MaxSeg
  BY <1>1, <1>2, <1>6, Times
<1> HIDE DEF p
<1>9. q = 1 <=> n <= MaxSeg
  BY <1>1, <1>5, <1>7, <1>8
<1> QED BY <1>2, <1>3, <1>4, <1>5, <1>6, <1>9 DEF p

(***************************************************************************)
(* However long a screen is, its segments cover it without a gap or an     *)
(* overlap, from byte 1 to its last, none empty and none above the BTU; a  *)
(* screen in one piece is marked whole, of several the first is marked     *)
(* first, the last one last and the others middle.                         *)
(***************************************************************************)
THEOREM PiecesCover ==
    ASSUME NEW n \in Nat \ {0}
    PROVE  \E q \in Nat \ {0} :
              /\ DOMAIN Pieces(n) = 1 .. q
              /\ Pieces(n)[1].from = 1 /\ Pieces(n)[q].to = n
              /\ \A k \in 1 .. q - 1 : Pieces(n)[k + 1].from = Pieces(n)[k].to + 1
              /\ \A k \in 1 .. q :
                    /\ SegLen(Pieces(n)[k]) \in 1 .. MaxSeg
                    /\ Pieces(n)[k].mpf = IF q = 1 THEN "whole" ELSE IF k = 1 THEN "first"
                                          ELSE IF k = q THEN "last" ELSE "middle"
<1>1. MaxSeg \in Nat \ {0}
  BY NumbersAssumption
<1>2. PICK q \in Nat \ {0} :
         /\ DOMAIN Pieces(n) = 1 .. q
         /\ q * MaxSeg >= n
         /\ (q - 1) * MaxSeg < n
         /\ q = 1 <=> n <= MaxSeg
  BY PieceCount
<1>3. ASSUME NEW k \in 1 .. q
      PROVE  /\ Pieces(n)[k].from = (k - 1) * MaxSeg + 1
             /\ Pieces(n)[k].to = IF k * MaxSeg > n THEN n ELSE k * MaxSeg
             /\ Pieces(n)[k].mpf = MpfOf(k, n)
  BY <1>2 DEF Pieces, LastByte
<1>4. ASSUME NEW k \in 1 .. q - 1
      PROVE  k * MaxSeg \in Nat /\ k * MaxSeg < n
  <2>1. k \in Nat /\ q - 1 \in Nat /\ k <= q - 1
    OBVIOUS
  <2>2. k * MaxSeg <= (q - 1) * MaxSeg
    BY <1>1, <2>1, Times
  <2>3. k * MaxSeg \in Nat /\ (q - 1) * MaxSeg \in Nat
    BY <1>1, <2>1
  <2> HIDE DEF Pieces
  <2> QED BY <1>2, <2>2, <2>3
<1>5. Pieces(n)[1].from = 1
  <2>1. (1 - 1) * MaxSeg = 0
    BY <1>1
  <2> QED BY <1>3, <2>1
<1>6. Pieces(n)[q].to = n
  <2>1. q * MaxSeg \in Nat
    BY <1>1
  <2>2. ~ (q * MaxSeg > n) => q * MaxSeg = n
    BY <1>2, <2>1
  <2> QED BY <1>3, <2>2
<1>7. ASSUME NEW k \in 1 .. q - 1 PROVE Pieces(n)[k + 1].from = Pieces(n)[k].to + 1
  <2>1. k \in 1 .. q /\ k + 1 \in 1 .. q /\ (k + 1) - 1 = k
    OBVIOUS
  <2>2. Pieces(n)[k + 1].from = k * MaxSeg + 1
    BY <1>3, <2>1
  <2>3. Pieces(n)[k].to = k * MaxSeg
    BY <1>3, <1>4, <2>1
  <2> QED BY <2>2, <2>3
<1>8. ASSUME NEW k \in 1 .. q
      PROVE  Pieces(n)[k].mpf = IF q = 1 THEN "whole" ELSE IF k = 1 THEN "first"
                                ELSE IF k = q THEN "last" ELSE "middle"
  <2>1. k = q => k * MaxSeg >= n
    BY <1>2
  <2>2. k # q => ~ (k * MaxSeg >= n)
    BY <1>4
  <2> QED BY <1>2, <1>3, <2>1, <2>2 DEF MpfOf
<1>9. \A k \in 1 .. q : SegLen(Pieces(n)[k]) \in 1 .. MaxSeg
  BY <1>2, PieceLen
<1> QED BY <1>2, <1>5, <1>6, <1>7, <1>8, <1>9

-----------------------------------------------------------------------------
(***************************************************************************)
(* PiusFit is inductive once it speaks of the segments still to be written *)
(* too: those of a LU whose screens are segmented are pieces, and which    *)
(* LUs these are does not change.                                          *)
(***************************************************************************)
Seg == [mpf : Mpf, from : Nat, to : Nat]

Fits(L, lu, seg) ==
    SegLen(seg) > 0 /\ (SegLen(seg) > MaxSeg => lu \in L /\ seg.mpf = "whole")

FitInv ==
    /\ pending \in [Session -> Seq(Seg)] /\ snf \in [Session -> Nat]
    /\ \A s \in Session : \A i \in 1 .. Len(pending[s]) : Fits(Unsegmented, s[1], pending[s][i])
    /\ wire \in Seq([lu : LU, snf : Nat, seg : Seg])
    /\ \A i \in 1 .. Len(wire) : Fits(Unsegmented, wire[i].lu, wire[i].seg)

LEMMA SegmentsType ==
    ASSUME NEW n \in Nat \ {0}
    PROVE  Segments(n) \in Seq(Seg) /\ \A i \in 1 .. Len(Segments(n)) : SegLen(Segments(n)[i]) \in 1 .. MaxSeg
<1>1. PICK q \in Nat \ {0} :
         /\ DOMAIN Pieces(n) = 1 .. q
         /\ \A k \in 1 .. q : SegLen(Pieces(n)[k]) \in 1 .. MaxSeg
  BY PiecesCover, ZenonT(60)
<1>2. ASSUME NEW k \in 1 .. q PROVE Pieces(n)[k] \in Seg
  <2>1. MaxSeg \in Nat \ {0} /\ k \in Nat \ {0}
    BY NumbersAssumption
  <2>2. k * MaxSeg \in Nat /\ (k - 1) * MaxSeg + 1 \in Nat
    BY <2>1
  <2>3. Pieces(n)[k] = [mpf |-> MpfOf(k, n), from |-> (k - 1) * MaxSeg + 1, to |-> LastByte(k, n)]
    BY <1>1 DEF Pieces
  <2> QED BY <2>2, <2>3 DEF Seg, LastByte, MpfOf, Mpf
<1>3. Pieces(n) \in [1 .. q -> Seg]
  BY <1>1, <1>2 DEF Pieces
<1> HIDE DEF Seg
<1>4. Pieces(n) \in Seq(Seg) /\ Len(Pieces(n)) = q
  BY <1>3
<1> QED BY <1>1, <1>4 DEF Segments

LEMMA InitFit == Init => FitInv
  BY DEF Init, FitInv

\* A session whose segments change: those it has now fit.
LEMMA PendingStep ==
    ASSUME FitInv, UNCHANGED Unsegmented, NEW s \in Session, NEW p \in Seq(Seg),
           pending' = [pending EXCEPT ![s] = p],
           \A i \in 1 .. Len(p) : Fits(Unsegmented, s[1], p[i]),
           snf' \in [Session -> Nat]
    PROVE  /\ pending' \in [Session -> Seq(Seg)] /\ snf' \in [Session -> Nat]
           /\ \A t \in Session : \A i \in 1 .. Len(pending'[t]) : Fits(Unsegmented', t[1], pending'[t][i])
<1>1. pending' \in [Session -> Seq(Seg)]
  BY DEF FitInv
<1>2. pending'[s] = p /\ \A t \in Session \ {s} : pending'[t] = pending[t]
  BY DEF FitInv
<1>3. ASSUME NEW t \in Session, NEW i \in 1 .. Len(pending'[t]) PROVE Fits(Unsegmented', t[1], pending'[t][i])
  BY <1>2 DEF FitInv, Fits
<1> QED BY <1>1, <1>3

LEMMA SendFits == ASSUME FitInv, NEW s \in Session, SendScreen(s) PROVE FitInv'
<1>1. /\ UNCHANGED <<Unsegmented, wire>>
      /\ snf' = [snf EXCEPT ![s] = @ + 1]
  BY DEF SendScreen, linkVars, Unsegmented
<1>2. snf' \in [Session -> Nat]
  BY <1>1 DEF FitInv
<1>3. PICK n \in BiuLen :
         pending' = [pending EXCEPT ![s] =
                       IF s[1] \in Unsegmented THEN << [mpf |-> "whole", from |-> 1, to |-> n] >>
                       ELSE Segments(n)]
  BY DEF SendScreen
<1>4. n \in Nat \ {0}
  BY NumbersAssumption
<1> DEFINE p == IF s[1] \in Unsegmented THEN << [mpf |-> "whole", from |-> 1, to |-> n] >> ELSE Segments(n)
<1>5. p \in Seq(Seg) /\ \A i \in 1 .. Len(p) : Fits(Unsegmented, s[1], p[i])
  <2>1. CASE s[1] \in Unsegmented
    <3> DEFINE whole == [mpf |-> "whole", from |-> 1, to |-> n]
    <3>1. whole \in Seg /\ whole.mpf = "whole" /\ SegLen(whole) = n
      BY <1>4 DEF Seg, Mpf, SegLen
    <3>2. Fits(Unsegmented, s[1], whole)
      BY <1>4, <2>1, <3>1 DEF Fits
    <3>3. p = <<whole>>
      BY <2>1
    <3> HIDE DEF whole, p, Seg
    <3> QED BY <3>1, <3>2, <3>3
  <2>2. CASE s[1] \notin Unsegmented
    <3>1. Segments(n) \in Seq(Seg) /\ \A i \in 1 .. Len(Segments(n)) : SegLen(Segments(n)[i]) \in 1 .. MaxSeg
      BY <1>4, SegmentsType
    <3>2. ASSUME NEW i \in 1 .. Len(Segments(n)) PROVE Fits(Unsegmented, s[1], Segments(n)[i])
      <4>1. MaxSeg \in Nat /\ SegLen(Segments(n)[i]) \in 1 .. MaxSeg
        BY <3>1, NumbersAssumption
      <4> QED BY <4>1 DEF Fits
    <3>3. p = Segments(n)
      BY <2>2
    <3> QED BY <3>1, <3>2, <3>3
  <2> QED BY <2>1, <2>2
<1>6. pending' = [pending EXCEPT ![s] = p]
  BY <1>3
<1> HIDE DEF p
<1>7. /\ pending' \in [Session -> Seq(Seg)]
      /\ \A t \in Session : \A i \in 1 .. Len(pending'[t]) : Fits(Unsegmented', t[1], pending'[t][i])
  BY <1>1, <1>2, <1>5, <1>6, PendingStep
<1> QED BY <1>1, <1>2, <1>7 DEF FitInv, Fits

LEMMA WriteFits == ASSUME FitInv, NEW s \in Session, Write(s) PROVE FitInv'
<1>1. /\ UNCHANGED <<Unsegmented, snf>> /\ pending[s] # <<>> /\ pending[s] \in Seq(Seg)
      /\ snf' \in [Session -> Nat] /\ s[1] \in LU
  BY DEF Write, linkVars, FitInv, Session, Unsegmented
<1>2. CASE link = "up"
  <2> DEFINE p == Tail(pending[s])
             piu == [lu |-> s[1], snf |-> snf[s], seg |-> Head(pending[s])]
  <2>1. /\ p \in Seq(Seg) /\ Head(pending[s]) \in Seg /\ Head(pending[s]) = pending[s][1]
        /\ Len(p) = Len(pending[s]) - 1 /\ \A i \in 1 .. Len(p) : p[i] = pending[s][i + 1]
        /\ 1 \in 1 .. Len(pending[s]) /\ Len(pending[s]) \in Nat
    <3> HIDE DEF Seg
    <3> QED BY <1>1
  <2>2. /\ \A i \in 1 .. Len(p) : Fits(Unsegmented, s[1], p[i])
        /\ Fits(Unsegmented, s[1], Head(pending[s]))
    <3>1. \A i \in 1 .. Len(pending[s]) : Fits(Unsegmented, s[1], pending[s][i])
      BY DEF FitInv
    <3>2. Fits(Unsegmented, s[1], Head(pending[s]))
      BY <2>1, <3>1
    <3>3. ASSUME NEW i \in 1 .. Len(p) PROVE Fits(Unsegmented, s[1], p[i])
      <4>1. i + 1 \in 1 .. Len(pending[s]) /\ p[i] = pending[s][i + 1]
        BY <2>1
      <4> QED BY <3>1, <4>1
    <3> QED BY <3>2, <3>3
  <2>3. pending' = [pending EXCEPT ![s] = p] /\ wire' = Append(wire, piu)
    BY <1>2 DEF Write
  <2>4. piu \in [lu : LU, snf : Nat, seg : Seg]
    BY <1>1, <2>1 DEF FitInv
  <2>5. /\ wire' \in Seq([lu : LU, snf : Nat, seg : Seg]) /\ Len(wire') = Len(wire) + 1
        /\ \A i \in 1 .. Len(wire) : wire'[i] = wire[i]
        /\ wire'[Len(wire) + 1] = piu /\ Len(wire) \in Nat
    <3> HIDE DEF piu, Seg
    <3> QED BY <2>3, <2>4 DEF FitInv
  <2>6. ASSUME NEW i \in 1 .. Len(wire') PROVE Fits(Unsegmented', wire'[i].lu, wire'[i].seg)
    <3>1. CASE i = Len(wire) + 1
      BY <1>1, <2>2, <2>5, <3>1, SMTT(60) DEF Fits
    <3>2. CASE i # Len(wire) + 1
      <4>1. i \in 1 .. Len(wire)
        BY <2>5, <3>2
      <4> QED BY <1>1, <2>5, <4>1 DEF FitInv, Fits
    <3> QED BY <3>1, <3>2
  <2> HIDE DEF p
  <2>7. /\ pending' \in [Session -> Seq(Seg)]
        /\ \A t \in Session : \A i \in 1 .. Len(pending'[t]) : Fits(Unsegmented', t[1], pending'[t][i])
    BY <1>1, <2>1, <2>2, <2>3, PendingStep
  <2> QED BY <1>1, <2>5, <2>6, <2>7 DEF FitInv
<1>3. CASE link # "up"
  <2>1. pending' = [pending EXCEPT ![s] = <<>>] /\ UNCHANGED wire
    BY <1>3 DEF Write
  <2>2. <<>> \in Seq(Seg) /\ \A i \in 1 .. Len(<<>>) : Fits(Unsegmented, s[1], <<>>[i])
    OBVIOUS
  <2>3. /\ pending' \in [Session -> Seq(Seg)]
        /\ \A t \in Session : \A i \in 1 .. Len(pending'[t]) : Fits(Unsegmented', t[1], pending'[t][i])
    BY <1>1, <2>1, <2>2, PendingStep
  <2> QED BY <1>1, <2>1, <2>3 DEF FitInv, Fits
<1> QED BY <1>2, <1>3

LEMMA ReadFits == ASSUME FitInv, Reassemble \/ Overflow PROVE FitInv'
<1> DEFINE Sent == [lu : LU, snf : Nat, seg : Seg]
<1>1. UNCHANGED <<Unsegmented, pending, snf>> /\ wire # <<>> /\ (wire' = Tail(wire) \/ wire' = <<>>)
  BY DEF Reassemble, Overflow, linkVars, Unsegmented
<1>2. wire \in Seq(Sent)
  BY DEF FitInv
<1>3. /\ wire' \in Seq(Sent)
      /\ \A i \in 1 .. Len(wire') : i + 1 \in 1 .. Len(wire) /\ wire'[i] = wire[i + 1]
  <2> HIDE DEF Sent
  <2>1. CASE wire' = Tail(wire)
    BY <1>1, <1>2, <2>1
  <2>2. CASE wire' = <<>>
    BY <1>1, <1>2, <2>2
  <2> QED BY <1>1, <2>1, <2>2
<1>4. \A i \in 1 .. Len(wire') : Fits(Unsegmented', wire'[i].lu, wire'[i].seg)
  BY <1>1, <1>3, ZenonT(60) DEF FitInv, Fits
<1> QED BY <1>1, <1>3, <1>4, SMTT(60) DEF FitInv, Fits

LEMMA StepFits == FitInv /\ [Next]_vars => FitInv'
<1> SUFFICES ASSUME FitInv, [Next]_vars PROVE FitInv'
  OBVIOUS
<1>1. CASE \E s \in Session : SendScreen(s) \/ Write(s)
  BY <1>1, SendFits, WriteFits
<1>2. CASE Reassemble \/ Overflow
  BY <1>2, ReadFits
<1>3. CASE UNCHANGED <<Unsegmented, pending, snf, wire>>
  BY <1>3 DEF FitInv, Fits
<1>4. CASE \/ \E lu \in LU : NewSession(lu)
           \/ ServerSends \/ Dequeue \/ ReadLink \/ LinkLost \/ UNCHANGED vars
  BY <1>3, <1>4 DEF NewSession, ServerSends, Dequeue, ReadLink, LinkLost, vars, linkVars, outVars,
      Unsegmented
<1> QED BY <1>1, <1>2, <1>4 DEF Next

(***************************************************************************)
(* Whatever the size of the screens and however the sessions' segments     *)
(* interleave, no PIU is empty, and one that exceeds the BTU is a whole    *)
(* screen of a LU-LU session, or of the echo or the USS test.              *)
(***************************************************************************)
THEOREM PiusAlwaysFit == Spec => []PiusFit
<1>1. FitInv => PiusFit
  <2> SUFFICES ASSUME FitInv, NEW i \in DOMAIN wire PROVE Fits(Unsegmented, wire[i].lu, wire[i].seg)
    BY DEF PiusFit, Fits
  <2>1. DOMAIN wire = 1 .. Len(wire)
    BY DEF FitInv
  <2> QED BY <2>1 DEF FitInv
<1> QED BY <1>1, InitFit, StepFits, PTL DEF Spec

-----------------------------------------------------------------------------
(* SplitPIUs cuts where a FID2 header may begin, behind the header of the  *)
(* PIU before.                                                             *)

\* Where the PIU behind the one at s may begin, and what is cut off there.
NextPius(buf, s) == {j \in s + HdrLen .. Len(buf) - 1 : StartsPiu(buf, j)}

CutAt(c, buf, s) ==
    IF NextPius(buf, s) = {}
    THEN << SubSeq(buf, s, Len(buf)) >>
    ELSE << SubSeq(buf, s, Min(NextPius(buf, s)) - 1) >> \o c[Min(NextPius(buf, s))]

\* c[s] is what the bytes from s on are cut into.
IsCut(c, buf) ==
    /\ c \in [1 .. Len(buf) -> Seq(Seq(Byte))]
    /\ \A s \in 1 .. Len(buf) : c[s] = CutAt(c, buf, s)
    /\ SplitPIUs(buf) = c[1]

\* The next PIU begins at the first place where one may begin.
LEMMA NextPiu ==
    ASSUME NEW buf \in Seq(Byte), NEW s \in 1 .. Len(buf), NextPius(buf, s) # {}
    PROVE  /\ Min(NextPius(buf, s)) \in NextPius(buf, s)
           /\ \A j \in NextPius(buf, s) : Min(NextPius(buf, s)) <= j
           /\ Min(NextPius(buf, s)) \in s + 1 .. Len(buf)
           /\ Min(NextPius(buf, s)) \in s + HdrLen .. Len(buf) - 1
<1> DEFINE N == NextPius(buf, s)
<1>1. HdrLen \in Nat /\ HdrLen >= 2 /\ Len(buf) \in Nat /\ s \in Nat
  <2>1. HdrLen \in Nat \ {0, 1}
    BY NumbersAssumption
  <2> QED BY <2>1
<1>2. N \subseteq s + HdrLen .. Len(buf) - 1
  BY DEF NextPius
<1>3. N \in SUBSET Nat
  BY <1>1, <1>2
<1> HIDE DEF N
<1>4. Min(N) \in N /\ \A j \in N : Min(N) <= j
  BY <1>3, LeastIsMin DEF N
<1>5. Min(N) \in s + HdrLen .. Len(buf) - 1
  BY <1>2, <1>4
<1>6. Min(N) \in s + 1 .. Len(buf)
  BY <1>1, <1>5
<1> QED BY <1>4, <1>5, <1>6 DEF N

\* What is cut at s depends on what is cut behind it only.
LEMMA CutType ==
    ASSUME NEW buf \in Seq(Byte), NEW s \in 1 .. Len(buf), NEW c,
           \A t \in s + 1 .. Len(buf) : c[t] \in Seq(Seq(Byte))
    PROVE  CutAt(c, buf, s) \in Seq(Seq(Byte))
<1>1. PICK Q : Q = Seq(Byte)
  OBVIOUS
<1>2. \A x \in Q, q \in Seq(Q) : <<x>> \in Seq(Q) /\ <<x>> \o q \in Seq(Q)
  OBVIOUS
<1>3. CASE NextPius(buf, s) = {}
  <2>1. SubSeq(buf, s, Len(buf)) \in Seq(Byte)
    OBVIOUS
  <2>2. << SubSeq(buf, s, Len(buf)) >> \in Seq(Q)
    BY <1>1, <1>2, <2>1
  <2> QED BY <1>1, <1>3, <2>2 DEF CutAt
<1>4. CASE NextPius(buf, s) # {}
  <2>1. PICK m \in s + 1 .. Len(buf) : m = Min(NextPius(buf, s))
    BY <1>4, NextPiu
  <2>2. SubSeq(buf, s, m - 1) \in Seq(Byte)
    OBVIOUS
  <2>3. c[m] \in Seq(Q)
    BY <1>1
  <2>4. << SubSeq(buf, s, m - 1) >> \o c[m] \in Seq(Q)
    BY <1>1, <1>2, <2>2, <2>3
  <2> QED BY <1>1, <1>4, <2>1, <2>4 DEF CutAt
<1> QED BY <1>3, <1>4

LEMMA CutSame ==
    ASSUME NEW buf \in Seq(Byte), NEW s \in 1 .. Len(buf), NEW c, NEW d,
           \A t \in s + 1 .. Len(buf) : c[t] = d[t]
    PROVE  CutAt(c, buf, s) = CutAt(d, buf, s)
<1>1. CASE NextPius(buf, s) = {}
  BY <1>1 DEF CutAt
<1>2. CASE NextPius(buf, s) # {}
  <2>1. PICK m \in s + 1 .. Len(buf) : m = Min(NextPius(buf, s))
    BY <1>2, NextPiu
  <2>2. c[m] = d[m]
    OBVIOUS
  <2> QED BY <1>2, <2>1, <2>2 DEF CutAt
<1> QED BY <1>1, <1>2

\* The recursion by which SplitPIUs is defined has a result.
LEMMA CutRecursion ==
    ASSUME NEW buf \in Seq(Byte), buf # <<>>
    PROVE  \E c : IsCut(c, buf)
<1>1. PICK L \in Nat : L = Len(buf) /\ L >= 1
  OBVIOUS
<1>2. PICK Q : Q = Seq(Seq(Byte))
  OBVIOUS
<1> DEFINE Down(n) == {c \in [L - n + 1 .. L -> Q] : \A s \in L - n + 1 .. L : c[s] = CutAt(c, buf, s)}
           T == {n \in Nat : Down(n) # {}}
<1>3. 0 \in T
  <2> DEFINE c == [s \in L - 0 + 1 .. L |-> CHOOSE q \in Q : TRUE]
  <2>1. \A s \in L - 0 + 1 .. L : FALSE
    OBVIOUS
  <2>2. c \in Down(0)
    BY <2>1
  <2> QED BY <2>2
<1>4. ASSUME NEW n \in 0 .. L - 1, n \in T PROVE n + 1 \in T
  <2>1. PICK c : c \in Down(n)
    BY <1>4
  <2> DEFINE first == L - n
             d == [s \in L - (n + 1) + 1 .. L |-> IF s = first THEN CutAt(c, buf, first) ELSE c[s]]
  <2>2. /\ first \in 1 .. Len(buf) /\ L - (n + 1) + 1 = first /\ L - n + 1 = first + 1
        /\ \A s \in first .. L : s = first \/ s \in first + 1 .. L
        /\ \A s \in first + 1 .. L : s # first /\ s \in first .. L /\ s \in 1 .. Len(buf)
        /\ first \in first .. L
    BY <1>1
  <2>3. c \in [first + 1 .. L -> Q] /\ \A s \in first + 1 .. L : c[s] = CutAt(c, buf, s)
    BY <2>1, <2>2
  <2>4. d = [s \in first .. L |-> IF s = first THEN CutAt(c, buf, first) ELSE c[s]]
    BY <2>2
  <2> HIDE DEF d, first
  <2>5. CutAt(c, buf, first) \in Q
    <3>1. \A t \in first + 1 .. Len(buf) : c[t] \in Seq(Seq(Byte))
      BY <1>1, <1>2, <2>3
    <3> QED BY <1>2, <2>2, <3>1, CutType
  <2>6. d \in [first .. L -> Q] /\ d[first] = CutAt(c, buf, first) /\ \A s \in first + 1 .. L : d[s] = c[s]
    BY <2>2, <2>3, <2>4, <2>5
  <2>7. ASSUME NEW s \in first .. L PROVE d[s] = CutAt(d, buf, s)
    <3>1. s \in 1 .. Len(buf)
      BY <2>2
    <3>2. \A t \in s + 1 .. Len(buf) : c[t] = d[t]
      <4>1. \A t \in s + 1 .. L : t \in first + 1 .. L
        BY <2>2
      <4> QED BY <1>1, <2>6, <4>1
    <3>3. CutAt(c, buf, s) = CutAt(d, buf, s)
      BY <3>1, <3>2, CutSame
    <3>4. d[s] = CutAt(c, buf, s)
      BY <2>2, <2>3, <2>6
    <3> QED BY <3>3, <3>4
  <2>8. d \in Down(n + 1)
    BY <2>2, <2>6, <2>7
  <2> QED BY <2>8
<1>5. L \in T
  <2> HIDE DEF T
  <2>1. \A n \in 0 .. L : n \in T
    BY <1>3, <1>4, UptoInduction
  <2> QED BY <2>1
<1>6. PICK f : f \in [1 .. L -> Q] /\ \A s \in 1 .. L : f[s] = CutAt(f, buf, s)
  <2>1. L - L + 1 = 1
    OBVIOUS
  <2> QED BY <1>5, <2>1
<1> DEFINE R(g) == g = [start \in 1 .. Len(buf) |->
                          LET next == {j \in start + HdrLen .. Len(buf) - 1 : StartsPiu(buf, j)}
                          IN  IF next = {}
                              THEN << SubSeq(buf, start, Len(buf)) >>
                              ELSE << SubSeq(buf, start, Min(next) - 1) >> \o g[Min(next)]]
           c == CHOOSE g : R(g)
<1>7. \A g : R(g) <=> g = [s \in 1 .. Len(buf) |-> CutAt(g, buf, s)]
  BY DEF CutAt, NextPius
<1>8. SplitPIUs(buf) = c[1]
  BY DEF SplitPIUs
<1> HIDE DEF R
<1>9. R(f)
  BY <1>1, <1>6, <1>7
<1>10. R(c)
  BY <1>9
<1> HIDE DEF c
<1>11. c = [s \in 1 .. Len(buf) |-> CutAt(c, buf, s)]
  BY <1>7, <1>10
<1>12. \A s \in 1 .. L : c[s] \in Q
  <2> DEFINE P == {s \in 1 .. L : c[s] \in Q}
  <2>1. ASSUME NEW s \in 1 .. L, \A t \in s + 1 .. L : t \in P PROVE s \in P
    <3>1. \A t \in s + 1 .. Len(buf) : c[t] \in Seq(Seq(Byte))
      BY <1>1, <1>2, <2>1
    <3>2. CutAt(c, buf, s) \in Seq(Seq(Byte))
      BY <1>1, <3>1, CutType
    <3>3. c[s] = CutAt(c, buf, s)
      BY <1>1, <1>11
    <3> QED BY <1>2, <3>2, <3>3
  <2> HIDE DEF P
  <2>2. \A s \in 1 .. L : s \in P
    BY <2>1, DownInduction
  <2> QED BY <2>2 DEF P
<1>13. IsCut(c, buf)
  BY <1>1, <1>2, <1>8, <1>11, <1>12 DEF IsCut
<1> QED BY <1>13

\* From every byte on, no byte is lost or added.
LEMMA CutWhole ==
    ASSUME NEW buf \in Seq(Byte), NEW c, IsCut(c, buf)
    PROVE  \A s \in 1 .. Len(buf) : FlattenSeq(c[s]) = SubSeq(buf, s, Len(buf)) /\ c[s] # <<>>
<1> DEFINE P == {s \in 1 .. Len(buf) : FlattenSeq(c[s]) = SubSeq(buf, s, Len(buf)) /\ c[s] # <<>>}
<1>1. PICK Q : Q = Seq(Byte)
  OBVIOUS
<1>2. PICK L \in Nat : L = Len(buf)
  OBVIOUS
<1>3. \A x \in Q, q \in Seq(Q) : /\ <<x>> \in Seq(Q) /\ <<x>> \o q \in Seq(Q)
                                 /\ <<x>> # <<>> /\ <<x>> \o q # <<>>
  OBVIOUS
<1>4. ASSUME NEW s \in 1 .. L, \A t \in s + 1 .. L : t \in P PROVE s \in P
  <2>1. c[s] = CutAt(c, buf, s)
    BY <1>2 DEF IsCut
  <2>2. CASE NextPius(buf, s) = {}
    <3>1. PICK x \in Seq(Byte) : x = SubSeq(buf, s, L)
      <4>1. \A z \in Seq(Byte), a, b \in Nat : 1 <= a /\ b <= Len(z) => SubSeq(z, a, b) \in Seq(Byte)
        OBVIOUS
      <4>2. s \in Nat /\ 1 <= s /\ L <= Len(buf)
        BY <1>2
      <4> QED BY <4>1, <4>2
    <3>2. c[s] = <<x>>
      BY <1>2, <2>1, <2>2, <3>1 DEF CutAt
    <3>3. FlattenSeq(<<x>>) = x
      BY FlattenOne
    <3>4. FlattenSeq(c[s]) = SubSeq(buf, s, Len(buf))
      BY <1>2, <3>1, <3>2, <3>3
    <3>5. c[s] # <<>>
      BY <3>2
    <3> QED BY <1>2, <3>4, <3>5
  <2>3. CASE NextPius(buf, s) # {}
    <3>1. PICK m \in s + 1 .. L : m = Min(NextPius(buf, s))
      BY <1>2, <2>3, NextPiu
    <3>2. PICK x \in Seq(Byte) : x = SubSeq(buf, s, m - 1)
      <4>1. \A z \in Seq(Byte), a, b \in Nat : 1 <= a /\ b <= Len(z) => SubSeq(z, a, b) \in Seq(Byte)
        OBVIOUS
      <4>2. s \in Nat /\ 1 <= s /\ m - 1 \in Nat /\ m - 1 <= Len(buf)
        BY <1>2
      <4> QED BY <4>1, <4>2
    <3>3. PICK q \in Seq(Q) : q = c[m]
      BY <1>1, <1>2 DEF IsCut
    <3>4. c[s] = <<x>> \o q
      BY <2>1, <2>3, <3>1, <3>2, <3>3 DEF CutAt
    <3>5. FlattenSeq(<<x>> \o q) = FlattenSeq(<<x>>) \o FlattenSeq(q)
      BY <1>1, <1>3, FlattenConcat, ZenonT(60)
    <3>6. FlattenSeq(<<x>>) = x
      BY FlattenOne
    <3>7. FlattenSeq(q) = SubSeq(buf, m, L)
      BY <1>2, <1>4, <3>3
    <3>8. SubSeq(buf, s, m - 1) \o SubSeq(buf, m, L) = SubSeq(buf, s, L)
      <4>1. PICK k : k = m - 1
        OBVIOUS
      <4>2. s \in 1 .. Len(buf) + 1 /\ k \in s - 1 .. Len(buf) /\ L \in k .. Len(buf) /\ k + 1 = m
        BY <1>2, <4>1
      <4> QED BY <4>1, <4>2, ConcatAdjacentSubSeq
    <3>9. FlattenSeq(c[s]) = SubSeq(buf, s, L)
      BY <3>2, <3>4, <3>5, <3>6, <3>7, <3>8
    <3>10. c[s] # <<>>
      BY <1>1, <1>3, <3>2, <3>4
    <3> QED BY <1>2, <3>9, <3>10
  <2> QED BY <2>2, <2>3
<1> HIDE DEF P
<1>5. \A s \in 1 .. L : s \in P
  BY <1>4, DownInduction
<1> QED BY <1>2, <1>5 DEF P

\* No byte is lost or added.
LEMMA SplitWhole ==
    ASSUME NEW buf \in Seq(Byte), buf # <<>>
    PROVE  /\ SplitPIUs(buf) \in Seq(Seq(Byte)) /\ SplitPIUs(buf) # <<>>
           /\ FlattenSeq(SplitPIUs(buf)) = buf
<1>1. PICK c : IsCut(c, buf)
  BY CutRecursion
<1>2. 1 \in 1 .. Len(buf) /\ SubSeq(buf, 1, Len(buf)) = buf
  OBVIOUS
<1>3. FlattenSeq(c[1]) = SubSeq(buf, 1, Len(buf)) /\ c[1] # <<>>
  BY <1>1, <1>2, CutWhole
<1>4. SplitPIUs(buf) = c[1] /\ c[1] \in Seq(Seq(Byte))
  BY <1>1, <1>2 DEF IsCut
<1> QED BY <1>2, <1>3, <1>4

LEMMA PiuType ==
    ASSUME NEW p \in Piu
    PROVE  p \in Seq(Byte) /\ Len(p) \in Nat /\ Len(p) >= HdrLen /\ HdrLen >= 2 /\ HdrLen \in Nat
           /\ p[1] = "2x" /\ p[2] = "00"
<1>1. p \in Seq(Byte) /\ Len(p) >= HdrLen /\ StartsPiu(p, 1)
  BY PiuAssumption
<1>2. HdrLen \in Nat \ {0, 1}
  BY NumbersAssumption
<1> QED BY <1>1, <1>2 DEF StartsPiu

\* fs[i + 1] is cut off at a + 1, and nothing more.
CutOff(c, buf, fs, i, a) ==
    /\ a \in Nat /\ a + 1 \in 1 .. Len(buf)
    /\ i + 1 = Len(fs) => c[a + 1] = << fs[i + 1] >>
    /\ i + 1 < Len(fs) => c[a + 1] = << fs[i + 1] >> \o c[Len(FlattenSeq(Firsts(fs, i + 1))) + 1]

\* From where the i-th of some PIUs begins, a clean one is cut off whole.
LEMMA CutClean ==
    ASSUME NEW fs \in Seq(Piu), NEW buf, buf = FlattenSeq(fs), NEW c, IsCut(c, buf),
           NEW i \in Nat, i < Len(fs), Clean(fs[i + 1]),
           NEW a, a = Len(FlattenSeq(Firsts(fs, i)))
    PROVE  CutOff(c, buf, fs, i, a)
<1>1. PICK p \in Piu : p = fs[i + 1]
  OBVIOUS
<1>2. fs \in Seq(Seq(Byte))
  <2>1. PICK Q : Q = Seq(Byte)
    OBVIOUS
  <2>2. Piu \subseteq Q
    BY <2>1, PiuAssumption
  <2>3. fs \in Seq(Q)
    BY <2>2
  <2> QED BY <2>1, <2>3
<1>0. ASSUME NEW k \in Nat, k < Len(fs), NEW h, h = FlattenSeq(Firsts(fs, k)) PROVE PartAt(Byte, fs, buf, k, h)
  BY <1>0, <1>2, FlattenAt
<1>3. /\ a \in Nat /\ buf \in Seq(Byte) /\ Len(buf) \in Nat /\ a + Len(p) <= Len(buf)
      /\ Len(FlattenSeq(Firsts(fs, i + 1))) = a + Len(p)
      /\ i + 1 = Len(fs) => a + Len(p) = Len(buf)
      /\ \A j \in 1 .. Len(p) : buf[a + j] = p[j]
  <2>1. PICK h : h = FlattenSeq(Firsts(fs, i))
    OBVIOUS
  <2>2. /\ h \in Seq(Byte) /\ buf \in Seq(Byte)
        /\ Len(FlattenSeq(Firsts(fs, i + 1))) = Len(h) + Len(p)
        /\ Len(h) + Len(p) <= Len(buf)
        /\ i + 1 = Len(fs) => Len(h) + Len(p) = Len(buf)
        /\ \A j \in 1 .. Len(p) : buf[Len(h) + j] = p[j]
    <3>1. PartAt(Byte, fs, buf, i, h)
      BY <1>0, <2>1
    <3> QED BY <1>1, <3>1 DEF PartAt
  <2>3. a = Len(h) /\ Len(h) \in Nat /\ Len(buf) \in Nat
    BY <2>1, <2>2
  <2> QED BY <2>2, <2>3
<1>4. /\ p \in Seq(Byte) /\ Len(p) \in Nat /\ Len(p) >= HdrLen /\ HdrLen >= 2 /\ HdrLen \in Nat
      /\ p[1] = "2x" /\ p[2] = "00"
  BY PiuType
<1>5. PICK s \in 1 .. Len(buf) : s = a + 1
  BY <1>3, <1>4, SMTT(60)
<1>6. c[s] = CutAt(c, buf, s)
  BY DEF IsCut
\* The pattern does not begin within the PIU behind its header.
<1>7. ASSUME NEW j \in s + HdrLen .. Len(buf) - 1, j < a + Len(p) PROVE ~ StartsPiu(buf, j)
  <2>1. j - a \in HdrLen + 1 .. Len(p) - 1 /\ j - a \in 1 .. Len(p) /\ (j - a) + 1 \in 1 .. Len(p)
        /\ a + (j - a) = j /\ a + ((j - a) + 1) = j + 1
    BY <1>3, <1>4, <1>5, <1>7, SMTT(60)
  <2>2. ~ StartsPiu(p, j - a)
    BY <1>1, <2>1 DEF Clean
  <2>3. buf[j] = p[j - a] /\ buf[j + 1] = p[(j - a) + 1]
    BY <1>3, <2>1
  <2> QED BY <2>2, <2>3 DEF StartsPiu
<1>8. SubSeq(buf, s, a + Len(p)) = p
  <2>1. \A j \in 1 .. Len(p) : buf[s + j - 1] = p[j]
    BY <1>3, <1>5, SMTT(60)
  <2>2. SubSeq(buf, s, a + Len(p)) \in Seq(Byte) /\ Len(SubSeq(buf, s, a + Len(p))) = Len(p)
    BY <1>3, <1>4, <1>5, SMTT(60)
  <2>3. \A j \in 1 .. Len(p) : SubSeq(buf, s, a + Len(p))[j] = buf[s + j - 1]
    BY <1>3, <1>4, <1>5
  <2>4. \A x, y \in Seq(Byte) : Len(x) = Len(y) /\ (\A j \in 1 .. Len(y) : x[j] = y[j]) => x = y
    BY SMTT(60)
  <2> QED BY <1>4, <2>1, <2>2, <2>3, <2>4, SMTT(60)
<1>9. CASE i + 1 = Len(fs)
  <2>1. \A j \in s + HdrLen .. Len(buf) - 1 : ~ StartsPiu(buf, j)
    <3>1. \A j \in s + HdrLen .. Len(buf) - 1 : j < a + Len(p)
      BY <1>3, <1>4, <1>5, <1>9, SMTT(60)
    <3> QED BY <1>7, <3>1
  <2>2. NextPius(buf, s) = {}
    BY <2>1 DEF NextPius
  <2>3. c[s] = << p >>
    BY <1>3, <1>6, <1>8, <1>9, <2>2 DEF CutAt
  <2> QED BY <1>1, <1>3, <1>5, <1>9, <2>3 DEF CutOff
<1>10. CASE i + 1 < Len(fs)
  <2>1. PICK q \in Piu : q = fs[(i + 1) + 1]
    BY <1>10
  <2>2. PICK e \in Nat : e = a + Len(p) + 1
    BY <1>3, <1>4
  <2>3. /\ a + Len(p) + Len(q) <= Len(buf)
        /\ \A j \in 1 .. Len(q) : buf[(a + Len(p)) + j] = q[j]
    <3>1. PICK h : h = FlattenSeq(Firsts(fs, i + 1))
      OBVIOUS
    <3>2. /\ Len(h) + Len(q) <= Len(buf)
          /\ \A j \in 1 .. Len(q) : buf[Len(h) + j] = q[j]
      <4>1. PICK k \in Nat : k = i + 1
        OBVIOUS
      <4>2. k < Len(fs) /\ h = FlattenSeq(Firsts(fs, k)) /\ q = fs[k + 1]
        BY <1>10, <2>1, <3>1, <4>1
      <4>3. PartAt(Byte, fs, buf, k, h)
        BY <1>0, <4>2
      <4> QED BY <4>2, <4>3 DEF PartAt
    <3> QED BY <1>3, <3>1, <3>2
  <2>4. Len(q) \in Nat /\ Len(q) >= 2 /\ q[1] = "2x" /\ q[2] = "00"
    BY PiuType
  <2>5. e \in s + HdrLen .. Len(buf) - 1 /\ StartsPiu(buf, e)
    <3>1. e \in s + HdrLen .. Len(buf) - 1
      <4>1. \A x, n, o, h, b \in Nat : n >= h /\ o >= 2 /\ x + n + o <= b
                                        => x + n + 1 \in (x + 1) + h .. b - 1
        OBVIOUS
      <4> QED BY <1>3, <1>4, <1>5, <2>2, <2>3, <2>4, <4>1
    <3>2. 1 \in 1 .. Len(q) /\ 2 \in 1 .. Len(q) /\ (a + Len(p)) + 1 = e /\ (a + Len(p)) + 2 = e + 1
      BY <1>3, <1>4, <2>2, <2>4
    <3>3. buf[e] = "2x" /\ buf[e + 1] = "00"
      BY <2>3, <2>4, <3>2
    <3> QED BY <3>1, <3>3 DEF StartsPiu
  \* Nor does it begin in its last byte, for the next byte begins a PIU.
  <2>6. ASSUME NEW j \in NextPius(buf, s) PROVE j >= e
    <3>1. j \in s + HdrLen .. Len(buf) - 1 /\ StartsPiu(buf, j)
      BY DEF NextPius
    <3>2. j # a + Len(p)
      BY <2>2, <2>5, <3>1 DEF StartsPiu
    <3>3. ~ (j < a + Len(p))
      BY <1>7, <3>1
    <3>4. \A x, n, k \in Nat : k # x + n /\ ~ (k < x + n) => k >= x + n + 1
      OBVIOUS
    <3>5. j \in Nat
      BY <1>4, <1>5, <3>1
    <3> QED BY <1>3, <1>4, <2>2, <3>2, <3>3, <3>4, <3>5
  <2>7. e \in NextPius(buf, s)
    BY <2>5 DEF NextPius
  <2>8. Min(NextPius(buf, s)) = e
    <3>1. PICK m \in s + 1 .. Len(buf) : m = Min(NextPius(buf, s)) /\ m \in NextPius(buf, s) /\ m <= e
      BY <1>3, <2>7, NextPiu
    <3> QED BY <2>2, <2>6, <3>1
  <2>9. c[s] = << p >> \o c[e]
    <3>1. e - 1 = a + Len(p) /\ NextPius(buf, s) # {}
      BY <1>3, <1>4, <2>2, <2>7
    <3> QED BY <1>6, <1>8, <2>8, <3>1 DEF CutAt
  <2>10. Len(FlattenSeq(Firsts(fs, i + 1))) + 1 = e
    BY <1>3, <2>2
  <2> QED BY <1>1, <1>3, <1>5, <1>10, <2>9, <2>10, SMTT(60) DEF CutOff
<1> QED BY <1>1, <1>9, <1>10

\* pius begins with the first n of ps.
Begins(pius, ps, n) == Len(pius) >= n /\ \A i \in 1 .. n : pius[i] = ps[i]

\* The clean PIUs that a read begins with are cut off whole.
LEMMA SplitClean ==
    ASSUME NEW fs \in Seq(Piu), Len(fs) >= 1, NEW m \in 0 .. Len(fs), \A i \in 1 .. m : Clean(fs[i]),
           NEW p, p = SplitPIUs(FlattenSeq(fs))
    PROVE  /\ p \in Seq(Seq(Byte)) /\ p # <<>> /\ FlattenSeq(p) = FlattenSeq(fs)
           /\ Begins(p, fs, m)
           /\ m = Len(fs) => p = fs
<1>1. PICK Q : Q = Seq(Byte) /\ Piu \subseteq Q
  BY PiuAssumption
<1>2. fs \in Seq(Q) /\ fs \in Seq(Seq(Byte))
  <2>1. fs \in Seq(Q)
    BY <1>1
  <2> QED BY <1>1, <2>1
<1>3. PICK buf : buf = FlattenSeq(fs)
  OBVIOUS
<1>4. buf \in Seq(Byte) /\ buf # <<>>
  <2>1. 0 \in Nat /\ 0 < Len(fs)
    OBVIOUS
  <2>2. PICK h : h = FlattenSeq(Firsts(fs, 0))
    OBVIOUS
  <2>3. PartAt(Byte, fs, buf, 0, h)
    BY <1>2, <1>3, <2>1, <2>2, FlattenAt
  <2>4. PICK q \in Piu : q = fs[0 + 1]
    BY <2>1
  <2>5. Len(q) \in Nat /\ Len(q) >= 2
    BY PiuType
  <2>6. h \in Seq(Byte) /\ buf \in Seq(Byte) /\ Len(h) + Len(q) <= Len(buf)
    BY <2>3, <2>4 DEF PartAt
  <2>7. Len(buf) # 0
    BY <2>5, <2>6
  <2> QED BY <2>6, <2>7
<1>5. PICK c : IsCut(c, buf)
  BY <1>4, CutRecursion
<1>6. p = c[1] /\ (\A s \in 1 .. Len(buf) : c[s] \in Seq(Q)) /\ 1 \in 1 .. Len(buf)
  <2>1. 1 \in 1 .. Len(buf)
    BY <1>4
  <2>2. p = SplitPIUs(buf)
    BY <1>3
  <2>3. c \in [1 .. Len(buf) -> Seq(Q)] /\ SplitPIUs(buf) = c[1]
    BY <1>1, <1>5 DEF IsCut
  <2> QED BY <2>1, <2>2, <2>3
<1> DEFINE After(k) == c[Len(FlattenSeq(Firsts(fs, k))) + 1]
           Good(k) == /\ k < Len(fs) => After(k) \in Seq(Q) /\ p = Firsts(fs, k) \o After(k)
                      /\ k = Len(fs) => p = fs
           P == {k \in 0 .. m : Good(k)}
<1>7. Good(0)
  <2>1. Firsts(fs, 0) = <<>>
    BY DEF Firsts
  <2>2. Len(FlattenSeq(Firsts(fs, 0))) + 1 = 1
    BY <2>1, FlattenEmpty
  <2>3. \A q \in Seq(Q) : <<>> \o q = q
    OBVIOUS
  <2> QED BY <1>6, <2>1, <2>2, <2>3, SMTT(60)
<1>8. ASSUME NEW k \in 0 .. m - 1, k \in P PROVE k + 1 \in P
  <2>1. k \in Nat /\ k < Len(fs) /\ k + 1 \in 1 .. m /\ k + 1 \in 1 .. Len(fs) /\ k + 1 \in 0 .. m
    OBVIOUS
  <2>2. Clean(fs[k + 1])
    BY <2>1
  <2>3. PICK a : a = Len(FlattenSeq(Firsts(fs, k)))
    OBVIOUS
  <2>4. /\ a \in Nat /\ a + 1 \in 1 .. Len(buf)
        /\ k + 1 = Len(fs) => c[a + 1] = << fs[k + 1] >>
        /\ k + 1 < Len(fs) => c[a + 1] = << fs[k + 1] >> \o After(k + 1)
    <3>1. CutOff(c, buf, fs, k, a)
      BY <1>3, <1>5, <2>1, <2>2, <2>3, CutClean
    <3> QED BY <3>1 DEF CutOff
  <2>5. PICK f \in Seq(Q) : f = Firsts(fs, k) /\ Len(f) = k /\ \A i \in 1 .. k : f[i] = fs[i]
    <3>1. [i \in 1 .. k |-> fs[i]] \in Seq(Q) /\ Len([i \in 1 .. k |-> fs[i]]) = k
      BY <1>2, <2>1
    <3> QED BY <3>1 DEF Firsts
  <2>6. PICK x \in Q : x = fs[k + 1]
    BY <1>2, <2>1
  <2>7. p = f \o c[a + 1]
    BY <1>8, <2>1, <2>3, <2>5
  <2>8. ASSUME k + 1 = Len(fs) PROVE p = fs
    <3>1. p = f \o <<x>>
      BY <2>4, <2>6, <2>7, <2>8
    <3>2. f \o <<x>> = fs
      <4>1. f \o <<x>> \in Seq(Q) /\ Len(f \o <<x>>) = k + 1 /\ (f \o <<x>>)[k + 1] = x
            /\ \A i \in 1 .. k : (f \o <<x>>)[i] = f[i]
        BY <2>1, <2>5
      <4>2. \A i \in 1 .. k + 1 : i = k + 1 \/ i \in 1 .. k
        BY <2>1
      <4>3. \A i \in 1 .. k + 1 : (f \o <<x>>)[i] = fs[i]
        BY <2>5, <2>6, <4>1, <4>2
      <4>4. \A y, z \in Seq(Q) : Len(y) = Len(z) /\ (\A i \in 1 .. Len(z) : y[i] = z[i]) => y = z
        OBVIOUS
      <4> QED BY <1>2, <2>8, <4>1, <4>3, <4>4
    <3> QED BY <3>1, <3>2
  <2>9. ASSUME k + 1 < Len(fs) PROVE After(k + 1) \in Seq(Q) /\ p = Firsts(fs, k + 1) \o After(k + 1)
    <3>1. PICK j \in Nat : j = k + 1
      BY <2>1
    <3>2. PICK b : b = FlattenSeq(Firsts(fs, j))
      OBVIOUS
    <3>3. PartAt(Byte, fs, buf, j, b)
      BY <1>2, <1>3, <2>9, <3>1, <3>2, FlattenAt
    <3>4. PICK y \in Piu : y = fs[j + 1]
      BY <2>9, <3>1
    <3>5. Len(y) \in Nat /\ Len(y) >= 2 /\ b \in Seq(Byte) /\ Len(b) + Len(y) <= Len(buf)
      BY <3>3, <3>4, PiuType DEF PartAt
    <3>6. Len(b) + 1 \in 1 .. Len(buf)
      BY <1>4, <3>5
    <3>7. PICK q \in Seq(Q) : q = After(k + 1)
      BY <1>6, <3>1, <3>2, <3>6
    <3>8. p = f \o (<<x>> \o q)
      BY <2>4, <2>6, <2>7, <2>9, <3>7
    <3>9. f \o (<<x>> \o q) = Append(f, x) \o q
      <4>1. \A u, w \in Seq(Q), z \in Q : u \o (<<z>> \o w) = Append(u, z) \o w
        BY AppendConcat, SMTT(60)
      <4> QED BY <4>1
    <3>10. Append(f, x) = Firsts(fs, k + 1)
      <4>1. Append(f, x) = [i \in 1 .. k + 1 |-> fs[i]]
        BY <2>1, <2>5, <2>6
      <4> QED BY <4>1 DEF Firsts
    <3> QED BY <3>7, <3>8, <3>9, <3>10
  <2>10. Good(k + 1)
    BY <2>8, <2>9
  <2> QED BY <2>1, <2>10
<1>9. Good(m)
  <2> HIDE DEF Good
  <2>1. 0 \in P
    BY <1>7
  <2> HIDE DEF P
  <2>2. \A i \in 0 .. m : i \in P
    BY <1>8, <2>1, UptoInduction, SMTT(60)
  <2> QED BY <2>2 DEF P
<1>10. p \in Seq(Seq(Byte)) /\ p # <<>> /\ FlattenSeq(p) = FlattenSeq(fs)
  BY <1>3, <1>4, SplitWhole
<1>11. Begins(p, fs, m)
  <2>1. CASE m = Len(fs)
    BY <1>9, <2>1 DEF Begins
  <2>2. CASE m < Len(fs)
    <3>1. PICK f \in Seq(Q) : f = Firsts(fs, m) /\ Len(f) = m /\ \A i \in 1 .. m : f[i] = fs[i]
      <4>1. [i \in 1 .. m |-> fs[i]] \in Seq(Q) /\ Len([i \in 1 .. m |-> fs[i]]) = m
        BY <1>2, <2>2
      <4> QED BY <4>1 DEF Firsts
    <3>2. PICK q \in Seq(Q) : p = f \o q
      BY <1>9, <2>2, <3>1
    <3>3. Len(f \o q) >= m /\ \A i \in 1 .. m : (f \o q)[i] = f[i]
      BY <3>1
    <3> QED BY <3>1, <3>2, <3>3 DEF Begins
  <2> QED BY <2>1, <2>2
<1> QED BY <1>9, <1>10, <1>11

-----------------------------------------------------------------------------
(* What has been sent is read, queued or in the kernel.                    *)

\* The PIUs a have become b.
Intact(a, b) ==
    /\ FlattenSeq(b) = FlattenSeq(a)
    /\ \A n \in 0 .. Len(a) : (\A i \in 1 .. n : Clean(a[i])) => Begins(b, a, n)
    /\ (\A i \in 1 .. Len(a) : Clean(a[i])) => b = a

CutRead(x, fs, y, p) ==
    p \in Seq(Seq(Byte)) /\ p # <<>> /\ Intact(x \o (fs \o y), x \o (p \o y))

\* A read takes the frames fs, whose bytes are cut into p.
LEMMA ReadCuts ==
    ASSUME NEW x \in Seq(Seq(Byte)), NEW fs \in Seq(Piu), Len(fs) >= 1, NEW y \in Seq(Seq(Byte))
    PROVE  CutRead(x, fs, y, SplitPIUs(FlattenSeq(fs)))
<1>0. PICK p, a, b : p = SplitPIUs(FlattenSeq(fs)) /\ a = x \o (fs \o y) /\ b = x \o (p \o y)
  OBVIOUS
<1>1. PICK Q : Q = Seq(Byte) /\ Piu \subseteq Q
  BY PiuAssumption
<1>2. x \in Seq(Q) /\ y \in Seq(Q) /\ fs \in Seq(Q)
  BY <1>1
<1>3. ASSUME NEW m \in 0 .. Len(fs), \A i \in 1 .. m : Clean(fs[i])
      PROVE  Begins(p, fs, m) /\ (m = Len(fs) => p = fs)
  BY <1>0, <1>3, SplitClean
<1>4. p \in Seq(Q) /\ p # <<>> /\ FlattenSeq(p) = FlattenSeq(fs)
  <2>1. 0 \in 0 .. Len(fs) /\ \A i \in 1 .. 0 : FALSE
    OBVIOUS
  <2>2. p \in Seq(Seq(Byte)) /\ p # <<>> /\ FlattenSeq(p) = FlattenSeq(fs)
    BY <1>0, <2>1, SplitClean
  <2> QED BY <1>1, <2>2
<1>5. PICK u : u = fs \o y
  OBVIOUS
<1>6. PICK w : w = p \o y
  OBVIOUS
<1>7. PICK k \in Nat, l \in Nat : k = Len(x) /\ l = Len(fs)
  OBVIOUS
<1>8. /\ Len(a) \in Nat /\ Len(a) >= k + l
      /\ \A i \in 1 .. k : a[i] = x[i] /\ b[i] = x[i]
      /\ \A i \in 1 .. l : a[k + i] = fs[i]
      /\ \A i \in 1 .. Len(p) : b[k + i] = p[i]
      /\ Len(b) \in Nat /\ Len(b) >= k + Len(p)
  <2>1. Joined(Q, u, fs, y) /\ Joined(Q, w, p, y)
    BY <1>2, <1>4, <1>5, <1>6, ConcatJoins
  <2>2. u \in Seq(Q) /\ w \in Seq(Q)
    BY <2>1 DEF Joined
  <2>3. Joined(Q, a, x, u) /\ Joined(Q, b, x, w)
    BY <1>0, <1>2, <1>5, <1>6, <2>2, ConcatJoins
  <2>4. /\ Len(a) \in Nat /\ Len(a) >= k + l
        /\ \A i \in 1 .. k : a[i] = x[i]
        /\ \A i \in 1 .. l : a[k + i] = fs[i]
    BY <1>7, <2>1, <2>3, SMTT(60) DEF Joined
  <2>5. /\ Len(b) \in Nat /\ Len(b) >= k + Len(p)
        /\ \A i \in 1 .. k : b[i] = x[i]
        /\ \A i \in 1 .. Len(p) : b[k + i] = p[i]
    BY <1>7, <2>1, <2>3, SMTT(60) DEF Joined
  <2> QED BY <2>4, <2>5
<1>13. FlattenSeq(b) = FlattenSeq(a)
  <2>1. u \in Seq(Q) /\ w \in Seq(Q)
    <3>1. Joined(Q, u, fs, y) /\ Joined(Q, w, p, y)
      BY <1>2, <1>4, <1>5, <1>6, ConcatJoins
    <3> QED BY <3>1 DEF Joined
  <2>2. FlattenSeq(fs \o y) = FlattenSeq(fs) \o FlattenSeq(y) /\ FlattenSeq(p \o y) = FlattenSeq(p) \o FlattenSeq(y)
    BY <1>1, <1>2, <1>4, FlattenConcat
  <2>3. FlattenSeq(x \o u) = FlattenSeq(x) \o FlattenSeq(u) /\ FlattenSeq(x \o w) = FlattenSeq(x) \o FlattenSeq(w)
    BY <1>1, <1>2, <2>1, FlattenConcat, ZenonT(60)
  <2> QED BY <1>0, <1>4, <1>5, <1>6, <2>2, <2>3
<1>9. Len(p) \in Nat /\ Len(a) \in Nat /\ Len(b) \in Nat
  BY <1>4, <1>8
<1>10. ASSUME \A i \in 1 .. l : Clean(a[k + i]) PROVE b = a
  <2>1. \A i \in 1 .. Len(fs) : Clean(fs[i])
    BY <1>7, <1>8, <1>10
  <2>2. Len(fs) \in 0 .. Len(fs)
    BY <1>7
  <2>3. p = fs
    BY <1>3, <2>1, <2>2
  <2> QED BY <1>0, <2>3
<1>11. ASSUME NEW n \in 0 .. Len(a), \A i \in 1 .. n : Clean(a[i]) PROVE Begins(b, a, n)
  <2>1. CASE n <= k
    <3>1. \A i \in 1 .. n : i \in 1 .. k
      BY <2>1
    <3>2. Len(b) >= n
      BY <1>8, <1>9, <2>1
    <3> QED BY <1>8, <3>1, <3>2 DEF Begins
  <2>2. CASE n > k /\ n < k + l
    <3>1. PICK m \in 0 .. Len(fs) : m = n - k
      <4>1. n - k \in 0 .. Len(fs)
        BY <1>7, <1>9, <2>2
      <4> QED BY <4>1
    <3>2. \A i \in 1 .. m : Clean(fs[i])
      <4>1. \A i \in 1 .. m : k + i \in 1 .. n /\ i \in 1 .. l
        BY <1>7, <3>1
      <4> QED BY <1>8, <1>11, <4>1
    <3>3. Len(p) >= m /\ \A i \in 1 .. m : p[i] = fs[i]
      BY <1>3, <3>2 DEF Begins
    <3>4. ASSUME NEW i \in 1 .. n PROVE b[i] = a[i]
      <4>1. i \in 1 .. k \/ (i - k \in 1 .. m /\ i - k \in 1 .. l /\ i - k \in 1 .. Len(p) /\ k + (i - k) = i)
        BY <1>7, <1>9, <3>1, <3>3
      <4>2. CASE i \in 1 .. k
        BY <1>8, <4>2
      <4>3. CASE ~ (i \in 1 .. k)
        <5>1. b[k + (i - k)] = p[i - k] /\ a[k + (i - k)] = fs[i - k] /\ p[i - k] = fs[i - k]
          BY <1>8, <3>3, <4>1, <4>3
        <5> QED BY <4>1, <4>3, <5>1
      <4> QED BY <4>2, <4>3
    <3>5. Len(b) >= n
      BY <1>8, <1>9, <3>1, <3>3
    <3> QED BY <3>4, <3>5 DEF Begins
  <2>3. CASE n >= k + l
    <3>1. \A i \in 1 .. l : k + i \in 1 .. n
      BY <2>3
    <3>2. b = a
      BY <1>10, <1>11, <3>1
    <3> QED BY <1>9, <3>2 DEF Begins
  <2>4. n <= k \/ (n > k /\ n < k + l) \/ n >= k + l
    BY <1>9
  <2> QED BY <2>1, <2>2, <2>3, <2>4
<1>12. (\A i \in 1 .. Len(a) : Clean(a[i])) => b = a
  <2>1. \A i \in 1 .. l : k + i \in 1 .. Len(a)
    BY <1>8, <1>9, SMTT(60)
  <2> QED BY <1>10, <2>1
<1>14. Intact(a, b)
  BY <1>11, <1>12, <1>13 DEF Intact
<1> QED BY <1>0, <1>1, <1>4, <1>14 DEF CutRead

\* All there is of what has been sent.
Pius == read \o (queue \o frames)
\* PiusIntact, and that nothing has changed while every PIU has been clean.
QueueInv ==
    /\ frames \in Seq(Piu) /\ sent \in Seq(Piu)
    /\ queue \in Seq(Seq(Byte)) /\ read \in Seq(Seq(Byte))
    /\ FlattenSeq(Pius) = FlattenSeq(sent)
    /\ \A n \in 0 .. Len(sent) : (\A i \in 1 .. n : Clean(sent[i])) => Begins(Pius, sent, n)
    /\ (\A i \in 1 .. Len(sent) : Clean(sent[i])) => Pius = sent

LEMMA QueueImplies ==
    ASSUME QueueInv
    PROVE  PiusIntact
<1>1. PICK Q : Q = Seq(Byte) /\ Piu \subseteq Q
  BY PiuAssumption
<1>2. frames \in Seq(Q) /\ queue \in Seq(Q) /\ read \in Seq(Q) /\ sent \in Seq(Q)
  BY <1>1 DEF QueueInv
<1>3. PICK a \in Seq(Q) : a = Pius /\ a = read \o queue \o frames
  <2>1. read \o (queue \o frames) = read \o queue \o frames
    BY <1>2, ConcatAssociative, SMTT(60)
  <2>2. \A u, w \in Seq(Q) : u \o w \in Seq(Q)
    OBVIOUS
  <2> QED BY <1>2, <2>1, <2>2 DEF Pius
<1>4. ASSUME NEW n \in 0 .. Len(sent), \A i \in 1 .. n : Clean(sent[i])
      PROVE  SubSeq(a, 1, n) = SubSeq(sent, 1, n)
  <2>1. Len(a) >= n /\ \A i \in 1 .. n : a[i] = sent[i]
    BY <1>3, <1>4 DEF QueueInv, Begins
  <2> QED BY <1>2, <1>3, <2>1
<1>5. FlattenSeq(a) = FlattenSeq(sent)
  BY <1>3 DEF QueueInv
<1> QED BY <1>3, <1>4, <1>5 DEF PiusIntact

LEMMA QueueInit ==
    ASSUME Init
    PROVE  QueueInv
<1>1. frames = <<>> /\ queue = <<>> /\ sent = <<>> /\ read = <<>>
  BY DEF Init
<1>2. Pius = <<>>
  BY <1>1 DEF Pius
<1>3. \A n \in 0 .. Len(sent) : Len(Pius) >= n /\ \A i \in 1 .. n : FALSE
  BY <1>1, <1>2
<1> QED BY <1>1, <1>2, <1>3 DEF QueueInv, Begins

LEMMA QueueNext ==
    ASSUME QueueInv, [Next]_vars
    PROVE  QueueInv'
<1>1. PICK Q : Q = Seq(Byte) /\ Piu \subseteq Q
  BY PiuAssumption
<1>2. frames \in Seq(Q) /\ queue \in Seq(Q) /\ read \in Seq(Q) /\ sent \in Seq(Q)
  BY <1>1 DEF QueueInv
<1>3. \A u, w \in Seq(Q) : u \o w \in Seq(Q)
  OBVIOUS
<1>9. \A u, w \in Seq(Q), z \in Q : u \o (<<z>> \o w) = Append(u, z) \o w
  BY AppendConcat
<1>4. CASE ServerSends
  <2>1. PICK p \in Piu : /\ frames' = Append(frames, p) /\ sent' = Append(sent, p)
                         /\ queue' = queue /\ read' = read
    BY <1>4 DEF ServerSends
  <2>2. PICK a \in Seq(Q) : a = Pius
    BY <1>2, <1>3 DEF Pius
  <2>3. Pius' = Append(a, p)
    <3>1. p \in Q
      BY <1>1
    <3>2. \A u, w \in Seq(Q), z \in Q : u \o Append(w, z) = Append(u \o w, z)
      OBVIOUS
    <3>3. queue \o Append(frames, p) = Append(queue \o frames, p)
      BY <1>2, <3>1, <3>2
    <3>4. queue \o frames \in Seq(Q)
      BY <1>2, <1>3
    <3>5. read \o Append(queue \o frames, p) = Append(read \o (queue \o frames), p)
      BY <1>2, <3>1, <3>2, <3>4, SMTT(60)
    <3> QED BY <2>1, <2>2, <3>3, <3>5 DEF Pius
  <2>4. frames' \in Seq(Piu) /\ sent' \in Seq(Piu) /\ queue' \in Seq(Seq(Byte)) /\ read' \in Seq(Seq(Byte))
    BY <2>1 DEF QueueInv
  <2>5. FlattenSeq(Pius') = FlattenSeq(sent')
    <3>1. PICK o \in Seq(Byte) : o = p
      BY <1>1
    <3>2. FlattenSeq(Append(a, o)) = FlattenSeq(a) \o o
      BY <1>1, FlattenAppend
    <3>3. FlattenSeq(Append(sent, o)) = FlattenSeq(sent) \o o
      BY <1>1, <1>2, FlattenAppend
    <3>4. FlattenSeq(a) = FlattenSeq(sent)
      BY <2>2 DEF QueueInv
    <3> QED BY <2>1, <2>3, <3>1, <3>2, <3>3, <3>4
  <2>6. PICK k \in Nat : k = Len(sent) /\ Len(sent') = k + 1 /\ (\A i \in 1 .. k : sent'[i] = sent[i])
    BY <1>2, <2>1
  <2>7. Len(Pius') = Len(a) + 1 /\ Len(a) \in Nat /\ \A i \in 1 .. Len(a) : Pius'[i] = a[i]
    BY <1>1, <2>2, <2>3
  <2>8. ASSUME \A i \in 1 .. Len(sent') : Clean(sent'[i]) PROVE Pius' = sent'
    <3>1. \A i \in 1 .. Len(sent) : i \in 1 .. Len(sent') /\ sent'[i] = sent[i]
      BY <2>6
    <3>2. \A i \in 1 .. Len(sent) : Clean(sent[i])
      BY <2>8, <3>1
    <3>3. a = sent
      BY <2>2, <3>2 DEF QueueInv
    <3> QED BY <2>1, <2>3, <3>3
  <2>9. ASSUME NEW n \in 0 .. Len(sent'), \A i \in 1 .. n : Clean(sent'[i]) PROVE Begins(Pius', sent', n)
    <3>1. CASE n = k + 1
      <4>1. Pius' = sent'
        BY <2>6, <2>8, <2>9, <3>1
      <4> QED BY <2>6, <3>1, <4>1 DEF Begins
    <3>2. CASE n <= k
      <4>1. n \in 0 .. Len(sent) /\ \A i \in 1 .. n : i \in 1 .. k
        BY <2>6, <3>2
      <4>2. \A i \in 1 .. n : Clean(sent[i])
        BY <2>6, <2>9, <4>1
      <4>3. Len(a) >= n /\ \A i \in 1 .. n : a[i] = sent[i]
        BY <2>2, <4>1, <4>2 DEF QueueInv, Begins
      <4>4. Len(Pius') >= n /\ \A i \in 1 .. n : i \in 1 .. Len(a)
        BY <2>7, <4>3
      <4> QED BY <2>6, <2>7, <4>1, <4>3, <4>4 DEF Begins
    <3> QED BY <2>6, <3>1, <3>2
  <2> QED BY <2>4, <2>5, <2>8, <2>9 DEF QueueInv
<1>5. CASE Dequeue
  <2>1. /\ queue # <<>> /\ queue' = Tail(queue) /\ read' = Append(read, Head(queue))
        /\ frames' = frames /\ sent' = sent
    BY <1>5 DEF Dequeue
  <2>2. PICK h \in Q, t \in Seq(Q) : h = Head(queue) /\ t = Tail(queue) /\ queue = <<h>> \o t
    BY <1>2, <2>1, HeadTailJoin
  <2>3. PICK r \in Seq(Q) : r = Append(read, h)
    BY <1>2, AppendProperties
  <2>4. r \in Seq(Seq(Byte)) /\ t \in Seq(Seq(Byte))
    BY <1>1
  <2>5. Pius' = Pius
    <3>1. PICK v \in Seq(Q) : v = t \o frames
      BY <1>2, <1>3
    <3>2. (<<h>> \o t) \o frames = <<h>> \o v
      <4>1. <<h>> \in Seq(Q)
        OBVIOUS
      <4> QED BY <1>2, <3>1, <4>1, ConcatAssociative, SMTT(60)
    <3>3. read \o (<<h>> \o v) = Append(read, h) \o v
      BY <1>2, <1>9, ZenonT(60)
    <3> QED BY <2>1, <2>2, <3>1, <3>2, <3>3 DEF Pius
  <2> QED BY <2>1, <2>2, <2>3, <2>4, <2>5 DEF QueueInv
<1>6. CASE ReadLink
  <2>1. queue = <<>> /\ sent' = sent
    BY <1>6 DEF ReadLink
  <2>2. PICK k \in 1 .. Len(frames) :
            /\ read' = Append(read, Head(SplitPIUs(FlattenSeq(SubSeq(frames, 1, k)))))
            /\ queue' = Tail(SplitPIUs(FlattenSeq(SubSeq(frames, 1, k))))
            /\ frames' = SubSeq(frames, k + 1, Len(frames))
    BY <1>6 DEF ReadLink
  <2>3. PICK fs \in Seq(Piu), y \in Seq(Piu) :
            /\ fs = SubSeq(frames, 1, k) /\ y = SubSeq(frames, k + 1, Len(frames))
            /\ Len(fs) >= 1 /\ frames = fs \o y
    <3>1. frames \in Seq(Piu) /\ k \in Nat /\ k <= Len(frames) /\ k >= 1
      BY DEF QueueInv
    <3>2. SubSeq(frames, 1, k) \o SubSeq(frames, k + 1, Len(frames)) = frames
      BY <3>1, SplitAt
    <3>3. /\ SubSeq(frames, 1, k) \in Seq(Piu) /\ SubSeq(frames, k + 1, Len(frames)) \in Seq(Piu)
          /\ Len(SubSeq(frames, 1, k)) = k
      BY <3>1
    <3> QED BY <3>1, <3>2, <3>3
  <2>4. fs \in Seq(Q) /\ y \in Seq(Q)
    BY <1>1
  <2>5. PICK p : p = SplitPIUs(FlattenSeq(fs))
    OBVIOUS
  <2>6. PICK a \in Seq(Q) : a = read \o (fs \o y)
    BY <1>2, <1>3, <2>4
  <2>7. PICK b : b = read \o (p \o y)
    OBVIOUS
  <2>8. /\ p \in Seq(Seq(Byte)) /\ p # <<>>
        /\ FlattenSeq(b) = FlattenSeq(a)
        /\ \A n \in 0 .. Len(a) : (\A i \in 1 .. n : Clean(a[i])) => Begins(b, a, n)
        /\ (\A i \in 1 .. Len(a) : Clean(a[i])) => b = a
    <3>1. read \in Seq(Seq(Byte)) /\ y \in Seq(Seq(Byte))
      BY <1>1, <1>2, <2>4
    <3>2. p \in Seq(Seq(Byte)) /\ p # <<>> /\ Intact(a, b)
      <4>1. Len(fs) >= 1
        BY <2>3
      <4>2. CutRead(read, fs, y, SplitPIUs(FlattenSeq(fs)))
        BY <3>1, <4>1, ReadCuts
      <4> QED BY <2>5, <2>6, <2>7, <4>2 DEF CutRead
    <3> QED BY <3>2 DEF Intact
  <2>9. a = Pius
    <3>1. <<>> \o frames = frames
      BY <1>2
    <3> QED BY <2>1, <2>3, <2>6, <3>1 DEF Pius
  <2>10. PICK h \in Q, t \in Seq(Q) : h = Head(p) /\ t = Tail(p) /\ p = <<h>> \o t
    <3>1. p \in Seq(Q) /\ p # <<>>
      BY <1>1, <2>8
    <3> QED BY <3>1, HeadTailJoin
  <2>11. read' = Append(read, h) /\ queue' = t /\ frames' = y
    BY <2>2, <2>3, <2>5, <2>10
  <2>12. b = Pius'
    <3>1. PICK v \in Seq(Q) : v = t \o y
      BY <1>3, <2>4
    <3>2. (<<h>> \o t) \o y = <<h>> \o v
      <4>1. <<h>> \in Seq(Q)
        OBVIOUS
      <4> QED BY <2>4, <3>1, <4>1, ConcatAssociative
    <3>3. read \o (<<h>> \o v) = Append(read, h) \o v
      BY <1>2, <1>9, ZenonT(60)
    <3> QED BY <2>7, <2>10, <2>11, <3>1, <3>2, <3>3 DEF Pius
  <2>13. frames' \in Seq(Piu) /\ sent' \in Seq(Piu) /\ queue' \in Seq(Seq(Byte)) /\ read' \in Seq(Seq(Byte))
    <3>1. Append(read, h) \in Seq(Q)
      BY <1>2
    <3> QED BY <1>1, <2>1, <2>11, <3>1 DEF QueueInv
  <2>14. FlattenSeq(Pius') = FlattenSeq(sent')
    BY <2>1, <2>8, <2>9, <2>12 DEF QueueInv
  <2>15. ASSUME NEW n \in 0 .. Len(sent), \A i \in 1 .. n : Clean(sent[i]) PROVE Begins(b, sent, n)
    <3>1. Len(a) >= n /\ \A i \in 1 .. n : a[i] = sent[i]
      BY <2>9, <2>15 DEF QueueInv, Begins
    <3>2. n \in 0 .. Len(a) /\ \A i \in 1 .. n : Clean(a[i])
      <4>1. Len(a) \in Nat /\ n \in Nat
        BY <1>2
      <4> QED BY <2>15, <3>1, <4>1
    <3>3. Len(b) >= n /\ \A i \in 1 .. n : b[i] = a[i]
      BY <2>8, <3>2 DEF Begins
    <3> QED BY <3>1, <3>3 DEF Begins
  <2>16. ASSUME \A i \in 1 .. Len(sent) : Clean(sent[i]) PROVE b = sent
    <3>1. a = sent
      BY <2>9, <2>16 DEF QueueInv
    <3> QED BY <2>8, <2>16, <3>1
  <2> QED BY <2>1, <2>12, <2>13, <2>14, <2>15, <2>16 DEF QueueInv
<1>7. CASE UNCHANGED inVars
  BY <1>7 DEF QueueInv, Pius, inVars
<1>8. ServerSends \/ Dequeue \/ ReadLink \/ UNCHANGED inVars
  BY DEF Next, vars, NewSession, SendScreen, Write, Reassemble, Overflow, LinkLost, outVars
<1> QED BY <1>4, <1>5, <1>6, <1>7, <1>8

(***************************************************************************)
(* However the kernel coalesces frames and the reader cuts them, no byte   *)
(* that SNA Server sent is lost, added or moved, and the PIUs that precede *)
(* the first one whose RU holds the pattern are read as they were sent     *)
(* (piuReader and SplitPIUs), for PIUs of any length and number.           *)
(***************************************************************************)
THEOREM PiusStayIntact == Spec => []PiusIntact
<1>1. Spec => []QueueInv
  <2>1. Init => QueueInv
    BY QueueInit
  <2>2. QueueInv /\ [Next]_vars => QueueInv'
    BY QueueNext
  <2> QED BY <2>1, <2>2, PTL DEF Spec
<1>2. QueueInv => PiusIntact
  BY QueueImplies
<1> QED BY <1>1, <1>2, PTL

-----------------------------------------------------------------------------
(***************************************************************************)
(* ScreensReassembled.  For an LU whose sessions have not been sending at  *)
(* once, what is on the wire takes SNA Server from where it is, screens    *)
(* shown and bytes of the next one put together, to where the gateway is,  *)
(* one piece after the other.                                              *)
(***************************************************************************)
Mark(first, to, n) ==
    IF first THEN IF to = n THEN "whole" ELSE "first" ELSE IF to = n THEN "last" ELSE "middle"

\* seg comes after the first b bytes of a screen of n.
Goes(n, b, seg) ==
    seg.from = b + 1 /\ seg.to \in b + 1 .. n /\ seg.mpf = Mark(b = 0, seg.to, n)

\* It leads from b bytes of screen k + 1 to b2 bytes of screen k2 + 1.
Step(scr, k, b, seg, k2, b2) ==
    /\ k < Len(scr) /\ Goes(scr[k + 1], b, seg)
    /\ (seg.to = scr[k + 1] => k2 = k + 1 /\ b2 = 0)
    /\ (seg.to # scr[k + 1] => k2 = k /\ b2 = seg.to)

Moves(lu, scr, x, k, b, k2, b2) ==
    IF x.lu = lu THEN Step(scr, k, b, x.seg, k2, b2) ELSE k2 = k /\ b2 = b

Chain(w, lu, scr, K, B) ==
    /\ K \in [0 .. Len(w) -> Nat] /\ B \in [0 .. Len(w) -> Nat]
    /\ \A i \in 1 .. Len(w) : Moves(lu, scr, w[i], K[i - 1], B[i - 1], K[i], B[i])

\* w leads from (k, b) to (k2, b2).
Leads(w, lu, scr, k, b, k2, b2) ==
    \E K, B : Chain(w, lu, scr, K, B) /\ K[0] = k /\ B[0] = b /\ K[Len(w)] = k2 /\ B[Len(w)] = b2

Wired == [lu : LU, snf : Nat, seg : Seg]
Lengths == Nat \ {0}

LEMMA LeadsNowhere ==
    ASSUME NEW lu, NEW scr, NEW k \in Nat, NEW b \in Nat
    PROVE  Leads(<<>>, lu, scr, k, b, k, b)
<1> DEFINE K == [i \in 0 .. 0 |-> k]
           B == [i \in 0 .. 0 |-> b]
<1>1. Len(<<>>) = 0 /\ \A i \in 1 .. 0 : FALSE
  OBVIOUS
<1>2. Chain(<<>>, lu, scr, K, B) /\ K[0] = k /\ B[0] = b
  BY <1>1 DEF Chain
<1> QED BY <1>1, <1>2 DEF Leads

LEMMA LeadsOn ==
    ASSUME NEW w \in Seq(Wired), NEW x \in Wired, NEW lu, NEW scr,
           NEW k0, NEW b0, NEW k, NEW b, NEW k2 \in Nat, NEW b2 \in Nat,
           Leads(w, lu, scr, k0, b0, k, b), Moves(lu, scr, x, k, b, k2, b2)
    PROVE  Leads(Append(w, x), lu, scr, k0, b0, k2, b2)
<1>1. PICK K, B : Chain(w, lu, scr, K, B) /\ K[0] = k0 /\ B[0] = b0 /\ K[Len(w)] = k /\ B[Len(w)] = b
  BY DEF Leads
<1>2. PICK n \in Nat : n = Len(w)
  OBVIOUS
<1>3. PICK v : v = Append(w, x) /\ Len(v) = n + 1 /\ v[n + 1] = x /\ \A i \in 1 .. n : v[i] = w[i]
  <2>1. /\ Len(Append(w, x)) = n + 1 /\ Append(w, x)[n + 1] = x
        /\ \A i \in 1 .. n : Append(w, x)[i] = w[i]
    BY <1>2, AppendProperties
  <2> QED BY <2>1
<1> DEFINE C == [i \in 0 .. n + 1 |-> IF i = n + 1 THEN k2 ELSE K[i]]
           D == [i \in 0 .. n + 1 |-> IF i = n + 1 THEN b2 ELSE B[i]]
<1>4. K \in [0 .. n -> Nat] /\ B \in [0 .. n -> Nat]
  BY <1>1, <1>2 DEF Chain
<1>5. C \in [0 .. n + 1 -> Nat] /\ D \in [0 .. n + 1 -> Nat]
  BY <1>4
<1>6. /\ C[n + 1] = k2 /\ D[n + 1] = b2
      /\ \A i \in 0 .. n : C[i] = K[i] /\ D[i] = B[i]
  OBVIOUS
<1> HIDE DEF C, D
<1>7. ASSUME NEW i \in 1 .. n + 1 PROVE Moves(lu, scr, v[i], C[i - 1], D[i - 1], C[i], D[i])
  <2>1. CASE i = n + 1
    <3>1. i - 1 = n /\ n \in 0 .. n
      BY <2>1
    <3>2. C[i - 1] = k /\ D[i - 1] = b /\ C[i] = k2 /\ D[i] = b2 /\ v[i] = x
      BY <1>1, <1>2, <1>3, <1>6, <2>1, <3>1
    <3> QED BY <3>2
  <2>2. CASE i # n + 1
    <3>1. i \in 1 .. n /\ i \in 0 .. n /\ i - 1 \in 0 .. n
      BY <2>2
    <3>2. Moves(lu, scr, w[i], K[i - 1], B[i - 1], K[i], B[i])
      BY <1>1, <1>2, <3>1 DEF Chain
    <3> QED BY <1>3, <1>6, <3>1, <3>2
  <2> QED BY <2>1, <2>2
<1>8. Chain(v, lu, scr, C, D)
  BY <1>3, <1>5, <1>7 DEF Chain
<1>9. C[0] = k0 /\ D[0] = b0 /\ C[Len(v)] = k2 /\ D[Len(v)] = b2
  BY <1>1, <1>3, <1>6
<1> QED BY <1>3, <1>8, <1>9 DEF Leads

LEMMA LeadsFrom ==
    ASSUME NEW w \in Seq(Wired), w # <<>>, NEW lu, NEW scr,
           NEW k0, NEW b0, NEW k, NEW b,
           Leads(w, lu, scr, k0, b0, k, b)
    PROVE  \E k1, b1 \in Nat : /\ Moves(lu, scr, Head(w), k0, b0, k1, b1)
                               /\ Leads(Tail(w), lu, scr, k1, b1, k, b)
<1>1. PICK K, B : Chain(w, lu, scr, K, B) /\ K[0] = k0 /\ B[0] = b0 /\ K[Len(w)] = k /\ B[Len(w)] = b
  BY SMTT(60) DEF Leads
<1>2. PICK n \in Nat : n + 1 = Len(w)
  <2>1. Len(w) - 1 \in Nat /\ (Len(w) - 1) + 1 = Len(w)
    OBVIOUS
  <2> QED BY <2>1
<1>3. PICK v, x : /\ v = Tail(w) /\ x = Head(w) /\ Len(v) = n /\ x = w[1]
                  /\ \A i \in 1 .. n : v[i] = w[i + 1]
  <2>1. Len(w) - 1 = n /\ Len(w) \in Nat
    BY <1>2
  <2>2. /\ Len(Tail(w)) = n /\ Head(w) = w[1]
        /\ \A i \in 1 .. n : Tail(w)[i] = w[i + 1]
    BY <2>1, HeadTailProperties
  <2> QED BY <2>2
<1> DEFINE C == [i \in 0 .. n |-> K[i + 1]]
           D == [i \in 0 .. n |-> B[i + 1]]
<1>4. K \in [0 .. n + 1 -> Nat] /\ B \in [0 .. n + 1 -> Nat]
  BY <1>1, <1>2 DEF Chain
<1>5. /\ C \in [0 .. n -> Nat] /\ D \in [0 .. n -> Nat]
      /\ \A i \in 0 .. n : C[i] = K[i + 1] /\ D[i] = B[i + 1]
  BY <1>4
<1> HIDE DEF C, D
<1>6. ASSUME NEW i \in 1 .. n PROVE Moves(lu, scr, v[i], C[i - 1], D[i - 1], C[i], D[i])
  <2>1. i + 1 \in 1 .. n + 1 /\ (i + 1) - 1 = i /\ i - 1 \in 0 .. n /\ i \in 0 .. n /\ (i - 1) + 1 = i
    OBVIOUS
  <2>2. Moves(lu, scr, w[i + 1], K[(i + 1) - 1], B[(i + 1) - 1], K[i + 1], B[i + 1])
    BY <1>1, <1>2, <2>1 DEF Chain
  <2>3. C[i - 1] = K[i] /\ D[i - 1] = B[i] /\ C[i] = K[i + 1] /\ D[i] = B[i + 1]
    BY <1>5, <2>1
  <2> QED BY <1>3, <2>1, <2>2, <2>3
<1>7. Chain(v, lu, scr, C, D)
  BY <1>3, <1>5, <1>6 DEF Chain
<1>8. C[0] = K[1] /\ D[0] = B[1] /\ C[Len(v)] = k /\ D[Len(v)] = b
  <2>1. 0 \in 0 .. n /\ n \in 0 .. n
    OBVIOUS
  <2> QED BY <1>1, <1>2, <1>3, <1>5, <2>1
<1>9. Leads(v, lu, scr, K[1], B[1], k, b)
  BY <1>7, <1>8 DEF Leads
<1>10. Moves(lu, scr, x, k0, b0, K[1], B[1]) /\ K[1] \in Nat /\ B[1] \in Nat
  <2>1. 1 \in 1 .. Len(w) /\ 1 - 1 = 0 /\ 1 \in 0 .. n + 1
    BY <1>2
  <2>2. Moves(lu, scr, w[1], K[1 - 1], B[1 - 1], K[1], B[1])
    BY <1>1, <2>1 DEF Chain
  <2> QED BY <1>1, <1>3, <1>4, <2>1, <2>2
<1> QED BY <1>3, <1>9, <1>10

\* Another screen changes nothing about those before it.
LEMMA LeadsStill ==
    ASSUME NEW w \in Seq(Wired), NEW lu, NEW scr \in Seq(Lengths), NEW n \in Lengths,
           NEW k0, NEW b0, NEW k, NEW b,
           Leads(w, lu, scr, k0, b0, k, b)
    PROVE  Leads(w, lu, Append(scr, n), k0, b0, k, b)
<1>1. PICK K, B : Chain(w, lu, scr, K, B) /\ K[0] = k0 /\ B[0] = b0 /\ K[Len(w)] = k /\ B[Len(w)] = b
  BY DEF Leads
<1>2. PICK t : /\ t = Append(scr, n) /\ Len(t) = Len(scr) + 1 /\ Len(scr) \in Nat
               /\ \A i \in 1 .. Len(scr) : t[i] = scr[i]
  <2>1. /\ Len(Append(scr, n)) = Len(scr) + 1 /\ Len(scr) \in Nat
        /\ \A i \in 1 .. Len(scr) : Append(scr, n)[i] = scr[i]
    BY AppendProperties, LenProperties
  <2> QED BY <2>1
<1>3. ASSUME NEW i \in 1 .. Len(w) PROVE Moves(lu, t, w[i], K[i - 1], B[i - 1], K[i], B[i])
  <2>1. Moves(lu, scr, w[i], K[i - 1], B[i - 1], K[i], B[i])
    BY <1>1 DEF Chain
  <2>2. K[i - 1] \in Nat
    <3>1. i - 1 \in 0 .. Len(w)
      OBVIOUS
    <3> QED BY <1>1, <3>1 DEF Chain
  <2>3. CASE w[i].lu = lu
    <3>1. Step(scr, K[i - 1], B[i - 1], w[i].seg, K[i], B[i])
      BY <2>1, <2>3 DEF Moves
    <3>2. K[i - 1] < Len(scr)
      BY <3>1 DEF Step
    <3>3. K[i - 1] + 1 \in 1 .. Len(scr) /\ K[i - 1] < Len(t)
      BY <1>2, <2>2, <3>2
    <3>4. t[K[i - 1] + 1] = scr[K[i - 1] + 1]
      BY <1>2, <3>3
    <3>5. Step(t, K[i - 1], B[i - 1], w[i].seg, K[i], B[i])
      BY <3>1, <3>3, <3>4 DEF Step
    <3> QED BY <2>3, <3>5 DEF Moves
  <2>4. CASE w[i].lu # lu
    BY <2>1, <2>4 DEF Moves
  <2> QED BY <2>3, <2>4
<1>4. Chain(w, lu, t, K, B)
  BY <1>1, <1>3 DEF Chain
<1> QED BY <1>1, <1>2, <1>4 DEF Leads

-----------------------------------------------------------------------------
\* q is what is still to be written of a screen of n bytes, b having been.
Rest(q, n, b) ==
    /\ q # <<>>
    /\ \A j \in 1 .. Len(q) : /\ Goes(n, IF j = 1 THEN b ELSE q[j - 1].to, q[j])
                              /\ q[j].to = n <=> j = Len(q)

\* A whole screen is.
LEMMA WholeRest ==
    ASSUME NEW n \in Lengths
    PROVE  Rest(<< [mpf |-> "whole", from |-> 1, to |-> n] >>, n, 0)
BY DEF Rest, Goes, Mark, Lengths

LEMMA SegmentsRest ==
    ASSUME NEW n \in Lengths
    PROVE  Rest(Segments(n), n, 0)
<1>1. MaxSeg \in Nat \ {0} /\ n \in Nat \ {0}
  BY NumbersAssumption DEF Lengths
<1>2. PICK q \in Nat \ {0} :
         /\ DOMAIN Pieces(n) = 1 .. q
         /\ q * MaxSeg >= n
         /\ (q - 1) * MaxSeg < n
         /\ q = 1 <=> n <= MaxSeg
  BY <1>1, PieceCount
<1>3. PICK p : p = Pieces(n) /\ p \in Seq(Seg) /\ Len(p) = q
  <2>1. Pieces(n) \in Seq(Seg)
    BY <1>1, SegmentsType DEF Segments
  <2>2. Len(Pieces(n)) = q
    BY <1>2, <2>1, LenProperties
  <2> QED BY <2>1, <2>2
<1>4. ASSUME NEW k \in 1 .. q
      PROVE  /\ p[k].from = (k - 1) * MaxSeg + 1
             /\ p[k].to = IF k * MaxSeg > n THEN n ELSE k * MaxSeg
             /\ p[k].mpf = MpfOf(k, n)
  BY <1>2, <1>3 DEF Pieces, LastByte
\* The ends of the pieces.
<1> DEFINE E(k) == k * MaxSeg
<1>5. E(0) = 0 /\ \A k \in Nat : E(k) \in Nat /\ E(k + 1) = E(k) + MaxSeg
  BY <1>1
<1>6. ASSUME NEW k \in 1 .. q - 1 PROVE E(k) < n /\ E(k) >= 1
  <2>1. k \in Nat /\ q - 1 \in Nat /\ k <= q - 1 /\ 1 \in Nat /\ 1 <= k
    OBVIOUS
  <2>2. k * MaxSeg <= (q - 1) * MaxSeg
    BY <1>1, <2>1, Times
  <2>3. 1 * MaxSeg <= k * MaxSeg
    BY <1>1, <2>1, Times
  <2>4. k * MaxSeg \in Nat /\ (q - 1) * MaxSeg \in Nat /\ 1 * MaxSeg = MaxSeg
    BY <1>1, <2>1
  <2> QED BY <1>1, <1>2, <2>2, <2>3, <2>4
<1>7. E(q) >= n /\ E(q - 1) < n
  BY <1>2
<1>8. \A k \in 1 .. q : /\ p[k].from = E(k - 1) + 1
                        /\ p[k].to = (IF E(k) > n THEN n ELSE E(k))
                        /\ p[k].mpf = (IF n <= MaxSeg THEN "whole" ELSE IF k = 1 THEN "first"
                                       ELSE IF E(k) >= n THEN "last" ELSE "middle")
  BY <1>4 DEF MpfOf
<1> HIDE DEF E
<1>9. ASSUME NEW j \in 1 .. q
      PROVE  /\ p[j].to = n <=> j = q
             /\ p[j].to = IF j = q THEN n ELSE E(j)
  <2>1. CASE j = q
    <3>1. E(q) \in Nat
      BY <1>5
    <3> QED BY <1>1, <1>7, <1>8, <2>1, <3>1
  <2>2. CASE j # q
    <3>1. j \in 1 .. q - 1
      BY <2>2
    <3>2. E(j) < n /\ E(j) \in Nat
      BY <1>5, <1>6, <3>1
    <3> QED BY <1>1, <1>8, <2>2, <3>2
  <2> QED BY <2>1, <2>2
<1>10. ASSUME NEW j \in 1 .. q
       PROVE  Goes(n, IF j = 1 THEN 0 ELSE p[j - 1].to, p[j])
  <2>1. PICK b \in Nat : b = E(j - 1) /\ b < n /\ (b = 0 <=> j = 1)
    <3>1. CASE j = 1
      BY <1>1, <1>5, <3>1
    <3>2. CASE j # 1
      <4>1. j - 1 \in 1 .. q - 1 /\ j - 1 \in Nat
        BY <3>2
      <4> QED BY <1>5, <1>6, <3>2, <4>1
    <3> QED BY <3>1, <3>2
  <2>2. (IF j = 1 THEN 0 ELSE p[j - 1].to) = b
    <3>1. CASE j = 1
      BY <2>1, <3>1
    <3>2. CASE j # 1
      <4>1. j - 1 \in 1 .. q /\ j - 1 # q
        BY <3>2
      <4> QED BY <1>9, <2>1, <3>2, <4>1
    <3> QED BY <3>1, <3>2
  <2>3. E(j) = b + MaxSeg
    <3>1. j - 1 \in Nat /\ (j - 1) + 1 = j
      OBVIOUS
    <3> QED BY <1>5, <2>1, <3>1
  <2>4. p[j].from = b + 1 /\ p[j].to \in b + 1 .. n
    BY <1>1, <1>8, <2>1, <2>3
  <2>5. p[j].mpf = Mark(b = 0, p[j].to, n)
    <3>1. CASE q = 1
      BY <1>2, <1>8, <1>9, <2>1, <3>1 DEF Mark
    <3>2. CASE q # 1
      <4>1. j # q => ~ (E(j) >= n)
        <5>1. j # q => j \in 1 .. q - 1
          OBVIOUS
        <5>2. E(j) \in Nat
          BY <1>1, <2>1, <2>3
        <5> QED BY <1>1, <1>6, <5>1, <5>2
      <4>2. j = q => E(j) >= n
        BY <1>7
      <4> QED BY <1>2, <1>8, <1>9, <2>1, <3>2, <4>1, <4>2 DEF Mark
    <3> QED BY <3>1, <3>2
  <2> QED BY <2>2, <2>4, <2>5 DEF Goes
<1>11. p # <<>>
  BY <1>3
<1> QED BY <1>3, <1>9, <1>10, <1>11 DEF Rest, Segments

\* Writing one more of them.
LEMMA RestStep ==
    ASSUME NEW q \in Seq(Seg), NEW n \in Lengths, NEW b \in Nat, Rest(q, n, b)
    PROVE  /\ Head(q) \in Seg /\ Goes(n, b, Head(q))
           /\ Head(q).to = n => Tail(q) = <<>>
           /\ Head(q).to # n => Rest(Tail(q), n, Head(q).to)
<1>1. q # <<>>
  BY DEF Rest
<1>2. PICK t, h, l : /\ t = Tail(q) /\ h = Head(q) /\ l = Len(q) /\ l \in Nat /\ l >= 1 /\ h = q[1]
                     /\ h \in Seg /\ t \in Seq(Seg) /\ Len(t) = l - 1
                     /\ \A i \in 1 .. l - 1 : t[i] = q[i + 1]
  <2>1. /\ Len(q) \in Nat /\ Len(q) >= 1 /\ Head(q) = q[1]
        /\ Head(q) \in Seg /\ Tail(q) \in Seq(Seg) /\ Len(Tail(q)) = Len(q) - 1
        /\ \A i \in 1 .. Len(q) - 1 : Tail(q)[i] = q[i + 1]
    BY <1>1, HeadTailProperties, LenProperties
  <2> QED BY <2>1
<1>3. \A j \in 1 .. l : /\ Goes(n, IF j = 1 THEN b ELSE q[j - 1].to, q[j])
                        /\ q[j].to = n <=> j = l
  BY <1>2 DEF Rest
<1>4. Goes(n, b, h) /\ (h.to = n <=> 1 = l)
  BY <1>2, <1>3
<1>5. h.to = n => t = <<>>
  BY <1>2, <1>4
<1>6. ASSUME h.to # n PROVE Rest(t, n, h.to)
  <2>1. l > 1
    BY <1>2, <1>4, <1>6
  <2>2. t # <<>>
    <3>1. Len(t) # 0
      BY <1>2, <2>1
    <3> QED BY <3>1
  <2>3. ASSUME NEW j \in 1 .. l - 1
        PROVE  /\ Goes(n, IF j = 1 THEN h.to ELSE t[j - 1].to, t[j])
               /\ t[j].to = n <=> j = l - 1
    <3>1. PICK i \in 1 .. l : i = j + 1
      BY <1>2
    <3>2. i # 1 /\ i - 1 = j /\ (i = l <=> j = l - 1) /\ t[j] = q[i]
      BY <1>2, <3>1
    <3>3. Goes(n, q[j].to, q[i]) /\ (q[i].to = n <=> i = l)
      BY <1>3, <3>2
    <3>4. q[j].to = IF j = 1 THEN h.to ELSE t[j - 1].to
      <4>1. CASE j = 1
        BY <1>2, <4>1
      <4>2. CASE j # 1
        <5>1. j - 1 \in 1 .. l - 1 /\ (j - 1) + 1 = j
          BY <1>2, <4>2
        <5> QED BY <1>2, <4>2, <5>1
      <4> QED BY <4>1, <4>2
    <3> QED BY <3>2, <3>3, <3>4
  <2> QED BY <1>2, <2>2, <2>3 DEF Rest
<1> QED BY <1>2, <1>4, <1>5, <1>6

-----------------------------------------------------------------------------
\* What SNA Server puts together.
Piece(seg) == [k \in 1 .. SegLen(seg) |-> seg.from + k - 1]
PutOn(part, seg) == IF seg.mpf \in {"whole", "first"} THEN Piece(seg) ELSE part \o Piece(seg)
Text == Seq(Nat)

LEMMA PutOnType ==
    ASSUME NEW part \in Text, NEW seg \in Seg
    PROVE  PutOn(part, seg) \in Text
<1>1. SegLen(seg) \in Int /\ seg.from \in Nat
  BY DEF Seg, SegLen
<1>2. PICK m \in Nat : 1 .. SegLen(seg) = 1 .. m
  <2>1. CASE SegLen(seg) \in Nat
    BY <2>1
  <2>2. CASE SegLen(seg) \notin Nat
    <3>1. 1 .. SegLen(seg) = 1 .. 0
      BY <1>1, <2>2
    <3> QED BY <3>1
  <2> QED BY <2>1, <2>2
<1>3. Piece(seg) \in Seq(Nat)
  <2>1. \A i \in 1 .. m : seg.from + i - 1 \in Nat
    BY <1>1
  <2>2. [i \in 1 .. m |-> seg.from + i - 1] \in Seq(Nat)
    BY <2>1
  <2> QED BY <1>2, <2>2 DEF Piece
<1> QED BY <1>3, ConcatProperties DEF PutOn, Text

LEMMA PutsOn ==
    ASSUME NEW n \in Lengths, NEW part \in Text, NEW seg \in Seg, Goes(n, Len(part), seg),
           \A i \in 1 .. Len(part) : part[i] = i
    PROVE  /\ PutOn(part, seg) \in Text /\ Len(PutOn(part, seg)) = seg.to
           /\ \A i \in 1 .. seg.to : PutOn(part, seg)[i] = i
           /\ seg.mpf \in {"whole", "last"} <=> seg.to = n
<1>1. PICK b \in Nat : b = Len(part)
  BY DEF Text
<1>2. seg.from = b + 1 /\ seg.to \in b + 1 .. n /\ seg.mpf = Mark(b = 0, seg.to, n) /\ n \in Nat
  BY <1>1 DEF Goes, Lengths
<1>3. PICK p : /\ p = Piece(seg) /\ p \in Seq(Nat) /\ Len(p) = seg.to - b
               /\ \A i \in 1 .. seg.to - b : p[i] = b + i
  <2>1. SegLen(seg) = seg.to - b /\ seg.to - b \in Nat
    BY <1>2 DEF SegLen
  <2>2. Piece(seg) = [i \in 1 .. seg.to - b |-> b + i]
    <3>1. \A i \in 1 .. seg.to - b : seg.from + i - 1 = b + i
      BY <1>2
    <3> QED BY <2>1, <3>1 DEF Piece
  <2>3. [i \in 1 .. seg.to - b |-> b + i] \in Seq(Nat)
    BY <2>1
  <2>4. Len([i \in 1 .. seg.to - b |-> b + i]) = seg.to - b
    BY <2>1
  <2> QED BY <2>2, <2>3, <2>4
<1>4. CASE b = 0
  <2>1. seg.mpf \in {"whole", "first"} /\ (seg.mpf \in {"whole", "last"} <=> seg.to = n)
    BY <1>2, <1>4 DEF Mark
  <2>2. PutOn(part, seg) = p
    BY <1>3, <2>1 DEF PutOn
  <2>3. seg.to - b = seg.to /\ \A i \in 1 .. seg.to : b + i = i
    BY <1>2, <1>4
  <2> QED BY <1>3, <2>1, <2>2, <2>3 DEF Text
<1>5. CASE b # 0
  <2>1. seg.mpf \notin {"whole", "first"} /\ (seg.mpf \in {"whole", "last"} <=> seg.to = n)
    BY <1>2, <1>5 DEF Mark
  <2>2. PICK c : c = PutOn(part, seg) /\ c = part \o p
    BY <1>3, <2>1 DEF PutOn
  <2>3. Joined(Nat, c, part, p)
    BY <1>3, <2>2, ConcatJoins DEF Text
  <2>4. c \in Seq(Nat) /\ Len(c) = seg.to
    BY <1>1, <1>2, <1>3, <2>3 DEF Joined
  <2>5. ASSUME NEW i \in 1 .. seg.to PROVE c[i] = i
    <3>1. CASE i <= b
      <4>1. i \in 1 .. b
        BY <3>1
      <4> QED BY <1>1, <2>3, <4>1 DEF Joined
    <3>2. CASE ~ (i <= b)
      <4>1. i - b \in 1 .. seg.to - b /\ b + (i - b) = i
        BY <1>2, <3>2
      <4>2. c[b + (i - b)] = p[i - b]
        BY <1>1, <1>3, <2>3, <4>1 DEF Joined
      <4> QED BY <1>3, <4>1, <4>2
    <3> QED BY <3>1, <3>2
  <2> QED BY <2>1, <2>2, <2>4, <2>5 DEF Text
<1> QED BY <1>4, <1>5

-----------------------------------------------------------------------------
\* No session of lu has more to write than the rest of the last screen,
\* which is at b bytes of screen k + 1.
Sends(lu, scr, pend, k, b) ==
    \/ k = Len(scr) /\ b = 0 /\ \A t \in Session : t[1] = lu => pend[t] = <<>>
    \/ \E s \in Session : /\ s[1] = lu /\ k + 1 = Len(scr) /\ Rest(pend[s], scr[k + 1], b)
                          /\ \A t \in Session : t[1] = lu /\ t # s => pend[t] = <<>>

LuAt(lu, scr, shn, part, w, lnk, pend) ==
    /\ Len(shn) <= Len(scr)
    /\ \A i \in 1 .. Len(shn) : shn[i] = [k \in 1 .. scr[i] |-> k]
    /\ \A i \in 1 .. Len(part) : part[i] = i
    /\ \E k, b \in Nat : /\ Leads(w, lu, scr, Len(shn), Len(part), k, b)
                         /\ (lnk = "up" => Sends(lu, scr, pend, k, b))

ScreensInv ==
    /\ FitInv
    /\ screens \in [LU -> Seq(Lengths)] /\ shown \in [LU -> Seq(Text)] /\ partial \in [LU -> Text]
    /\ \A lu \in LU : lu \notin mixed => LuAt(lu, screens[lu], shown[lu], partial[lu], wire, link, pending)

\* What another LU's session has to write, and a link that is lost, do not matter.
LEMMA LuStill ==
    ASSUME NEW lu, NEW scr, NEW shn, NEW part, NEW w, NEW lnk, NEW pend,
           LuAt(lu, scr, shn, part, w, lnk, pend), NEW lnk2, lnk2 = "up" => lnk = "up",
           NEW pend2, lnk2 = "up" => \A t \in Session : t[1] = lu => pend2[t] = pend[t]
    PROVE  LuAt(lu, scr, shn, part, w, lnk2, pend2)
<1>1. PICK k \in Nat, b \in Nat : /\ Leads(w, lu, scr, Len(shn), Len(part), k, b)
                                 /\ (lnk = "up" => Sends(lu, scr, pend, k, b))
  BY DEF LuAt
<1>2. lnk2 = "up" => Sends(lu, scr, pend2, k, b)
  BY <1>1 DEF Sends
<1> QED BY <1>1, <1>2 DEF LuAt

\* SendScreen.
LEMMA LuSends ==
    ASSUME NEW lu, NEW scr \in Seq(Lengths), NEW shn \in Seq(Text), NEW part, NEW w \in Seq(Wired),
           NEW lnk, NEW pend, LuAt(lu, scr, shn, part, w, lnk, pend),
           NEW s \in Session, s[1] = lu, \A t \in Session : t[1] = lu => pend[t] = <<>>,
           NEW n \in Lengths, NEW pend2, Rest(pend2[s], n, 0),
           \A t \in Session : t # s => pend2[t] = pend[t]
    PROVE  LuAt(lu, Append(scr, n), shn, part, w, lnk, pend2)
<1>1. PICK k \in Nat, b \in Nat : /\ Leads(w, lu, scr, Len(shn), Len(part), k, b)
                                 /\ (lnk = "up" => Sends(lu, scr, pend, k, b))
  BY DEF LuAt
<1>2. Leads(w, lu, Append(scr, n), Len(shn), Len(part), k, b)
  BY <1>1, LeadsStill
<1>3. PICK l, t : /\ l \in Nat /\ l = Len(scr) /\ t = Append(scr, n) /\ Len(t) = l + 1 /\ t[l + 1] = n
                    /\ \A i \in 1 .. l : t[i] = scr[i]
  <2>1. /\ Len(scr) \in Nat /\ Len(Append(scr, n)) = Len(scr) + 1 /\ Append(scr, n)[Len(scr) + 1] = n
        /\ \A i \in 1 .. Len(scr) : Append(scr, n)[i] = scr[i]
    BY AppendProperties, LenProperties
  <2> QED BY <2>1
<1>4. ASSUME lnk = "up" PROVE Sends(lu, t, pend2, k, b)
  <2>1. k = l /\ b = 0
    <3>1. \A q \in Session : q[1] = lu => ~ Rest(pend[q], scr[k + 1], b)
      BY DEF Rest
    <3> QED BY <1>1, <1>3, <1>4, <3>1 DEF Sends
  <2>2. k + 1 = Len(t) /\ Rest(pend2[s], t[k + 1], b)
    BY <1>3, <2>1
  <2>3. \A q \in Session : q[1] = lu /\ q # s => pend2[q] = <<>>
    OBVIOUS
  <2> QED BY <2>2, <2>3 DEF Sends
<1>5. Len(shn) <= Len(t) /\ \A i \in 1 .. Len(shn) : shn[i] = [j \in 1 .. t[i] |-> j]
  <2>1. Len(shn) \in Nat /\ Len(shn) <= l /\ \A i \in 1 .. Len(shn) : shn[i] = [j \in 1 .. scr[i] |-> j]
    BY <1>3, LenProperties DEF LuAt
  <2>2. \A i \in 1 .. Len(shn) : t[i] = scr[i]
    BY <1>3, <2>1
  <2> QED BY <1>3, <2>1, <2>2
<1>6. LuAt(lu, t, shn, part, w, lnk, pend2)
  BY <1>1, <1>2, <1>3, <1>4, <1>5 DEF LuAt
<1> QED BY <1>3, <1>6

\* Write, the link being up: the session of this LU, and of another.
LEMMA LuWrites ==
    ASSUME NEW lu, NEW scr \in Seq(Lengths), NEW shn, NEW part, NEW w \in Seq(Wired),
           NEW pend, LuAt(lu, scr, shn, part, w, "up", pend),
           NEW s \in Session, s[1] = lu, pend[s] # <<>>, pend[s] \in Seq(Seg),
           NEW x \in Wired, x.lu = lu, x.seg = Head(pend[s]),
           NEW pend2, pend2[s] = Tail(pend[s]), \A t \in Session : t # s => pend2[t] = pend[t]
    PROVE  LuAt(lu, scr, shn, part, Append(w, x), "up", pend2)
<1>1. PICK k \in Nat, b \in Nat : /\ Leads(w, lu, scr, Len(shn), Len(part), k, b)
                                 /\ Sends(lu, scr, pend, k, b)
  BY DEF LuAt
<1>2. /\ k + 1 = Len(scr) /\ Rest(pend[s], scr[k + 1], b)
      /\ \A t \in Session : t[1] = lu /\ t # s => pend[t] = <<>>
  BY <1>1 DEF Sends
<1>3. PICK n \in Lengths, seg \in Seg : n = scr[k + 1] /\ seg = Head(pend[s])
  <2>1. k + 1 \in 1 .. Len(scr)
    BY <1>2
  <2> QED BY <1>2, <2>1, RestStep
<1>4. /\ Goes(n, b, seg)
      /\ seg.to = n => Tail(pend[s]) = <<>>
      /\ seg.to # n => Rest(Tail(pend[s]), n, seg.to)
  BY <1>2, <1>3, RestStep
<1>5. seg.to \in Nat
  BY <1>3 DEF Seg
<1>6. CASE seg.to = n
  <2>1. Step(scr, k, b, seg, k + 1, 0)
    BY <1>2, <1>3, <1>4, <1>6 DEF Step
  <2>2. Moves(lu, scr, x, k, b, k + 1, 0)
    BY <1>3, <2>1 DEF Moves
  <2>3. PICK j \in Nat : j = k + 1
    OBVIOUS
  <2>4. Leads(Append(w, x), lu, scr, Len(shn), Len(part), j, 0)
    BY <1>1, <2>2, <2>3, LeadsOn
  <2>5. Sends(lu, scr, pend2, j, 0)
    <3>1. \A t \in Session : t[1] = lu => pend2[t] = <<>>
      BY <1>2, <1>4, <1>6
    <3> QED BY <1>2, <2>3, <3>1 DEF Sends
  <2> QED BY <2>4, <2>5 DEF LuAt
<1>7. CASE seg.to # n
  <2>1. Step(scr, k, b, seg, k, seg.to)
    BY <1>2, <1>3, <1>4, <1>7 DEF Step
  <2>2. Moves(lu, scr, x, k, b, k, seg.to)
    BY <1>3, <2>1 DEF Moves
  <2>3. Leads(Append(w, x), lu, scr, Len(shn), Len(part), k, seg.to)
    BY <1>1, <1>5, <2>2, LeadsOn
  <2>4. Sends(lu, scr, pend2, k, seg.to)
    BY <1>2, <1>3, <1>4, <1>7, SMTT(60) DEF Sends
  <2> QED BY <1>5, <2>3, <2>4 DEF LuAt
<1> QED BY <1>6, <1>7

LEMMA LuOthers ==
    ASSUME NEW lu, NEW scr, NEW shn, NEW part, NEW w \in Seq(Wired), NEW lnk,
           NEW pend, LuAt(lu, scr, shn, part, w, lnk, pend),
           NEW x \in Wired, x.lu # lu,
           NEW pend2, \A t \in Session : t[1] = lu => pend2[t] = pend[t]
    PROVE  LuAt(lu, scr, shn, part, Append(w, x), lnk, pend2)
<1>1. PICK k \in Nat, b \in Nat : /\ Leads(w, lu, scr, Len(shn), Len(part), k, b)
                                 /\ (lnk = "up" => Sends(lu, scr, pend, k, b))
  BY DEF LuAt
<1>2. Moves(lu, scr, x, k, b, k, b)
  BY DEF Moves
<1>3. Leads(Append(w, x), lu, scr, Len(shn), Len(part), k, b)
  BY <1>1, <1>2, LeadsOn
<1>4. lnk = "up" => Sends(lu, scr, pend2, k, b)
  BY <1>1 DEF Sends
<1> QED BY <1>1, <1>3, <1>4 DEF LuAt

\* Reassemble, of a PIU for this LU, and for another.
LEMMA LuTakes ==
    ASSUME NEW lu, NEW scr \in Seq(Lengths), NEW shn \in Seq(Text), NEW part \in Text, NEW w \in Seq(Wired),
           NEW lnk, NEW pend, LuAt(lu, scr, shn, part, w, lnk, pend),
           w # <<>>, Head(w).lu = lu,
           NEW seg \in Seg, seg = Head(w).seg, NEW biu, biu = PutOn(part, seg),
           NEW shn2, NEW part2,
           seg.mpf \in {"whole", "last"} => shn2 = Append(shn, biu) /\ part2 = <<>>,
           seg.mpf \notin {"whole", "last"} => shn2 = shn /\ part2 = biu
    PROVE  LuAt(lu, scr, shn2, part2, Tail(w), lnk, pend) /\ biu \in Text
<1>1. PICK l \in Nat, m \in Nat : l = Len(shn) /\ m = Len(part)
  BY LenProperties DEF Text
<1>2. PICK k \in Nat, b \in Nat : /\ Leads(w, lu, scr, l, m, k, b)
                                 /\ (lnk = "up" => Sends(lu, scr, pend, k, b))
  BY <1>1 DEF LuAt
<1>3. PICK k1 \in Nat, b1 \in Nat : /\ Moves(lu, scr, Head(w), l, m, k1, b1)
                                   /\ Leads(Tail(w), lu, scr, k1, b1, k, b)
  BY <1>2, LeadsFrom
<1>4. Step(scr, l, m, seg, k1, b1)
  BY <1>3 DEF Moves
<1>5. PICK n \in Lengths : n = scr[l + 1]
  <2>1. l + 1 \in 1 .. Len(scr)
    BY <1>4, LenProperties DEF Step
  <2> QED BY <2>1
<1>6. /\ l < Len(scr) /\ Goes(n, m, seg)
      /\ (seg.to = n => k1 = l + 1 /\ b1 = 0)
      /\ (seg.to # n => k1 = l /\ b1 = seg.to)
  BY <1>4, <1>5 DEF Step
<1>7. /\ biu \in Text /\ Len(biu) = seg.to
      /\ \A i \in 1 .. seg.to : biu[i] = i
      /\ seg.mpf \in {"whole", "last"} <=> seg.to = n
  <2>1. \A i \in 1 .. Len(part) : part[i] = i
    BY DEF LuAt
  <2> QED BY <1>1, <1>5, <1>6, <2>1, PutsOn, SMTT(60)
<1>8. /\ l <= Len(scr)
      /\ \A i \in 1 .. l : shn[i] = [j \in 1 .. scr[i] |-> j]
  BY <1>1 DEF LuAt
<1>9. CASE seg.to = n
  <2>1. shn2 = Append(shn, biu) /\ part2 = <<>> /\ k1 = l + 1 /\ b1 = 0
    BY <1>6, <1>7, <1>9
  <2>2. Len(shn2) = l + 1 /\ shn2[l + 1] = biu /\ \A i \in 1 .. l : shn2[i] = shn[i]
    BY <1>1, <1>7, <2>1, AppendProperties
  <2>3. biu = [j \in 1 .. n |-> j]
    <3>1. biu \in [1 .. n -> Nat]
      BY <1>7, <1>9 DEF Text
    <3> QED BY <1>7, <1>9, <3>1
  <2>4. Len(shn2) <= Len(scr)
    <3>1. Len(scr) \in Nat
      BY LenProperties
    <3> QED BY <1>6, <2>2, <3>1
  <2>5. ASSUME NEW i \in 1 .. Len(shn2) PROVE shn2[i] = [j \in 1 .. scr[i] |-> j]
    <3>1. i = l + 1 \/ i \in 1 .. l
      BY <2>2
    <3> QED BY <1>5, <1>8, <2>2, <2>3, <3>1
  <2>6. Len(part2) = 0 /\ \A i \in 1 .. Len(part2) : part2[i] = i
    BY <2>1
  <2> QED BY <1>2, <1>3, <1>7, <2>1, <2>2, <2>4, <2>5, <2>6, ZenonT(60) DEF LuAt
<1>10. CASE seg.to # n
  <2>1. shn2 = shn /\ part2 = biu /\ k1 = l /\ b1 = seg.to
    BY <1>6, <1>7, <1>10
  <2> QED BY <1>1, <1>2, <1>3, <1>7, <1>8, <2>1 DEF LuAt
<1> QED BY <1>7, <1>9, <1>10

LEMMA LuPasses ==
    ASSUME NEW lu, NEW scr, NEW shn, NEW part, NEW w \in Seq(Wired), NEW lnk,
           NEW pend, LuAt(lu, scr, shn, part, w, lnk, pend), w # <<>>, Head(w).lu # lu
    PROVE  LuAt(lu, scr, shn, part, Tail(w), lnk, pend)
<1>1. PICK k \in Nat, b \in Nat : /\ Leads(w, lu, scr, Len(shn), Len(part), k, b)
                                 /\ (lnk = "up" => Sends(lu, scr, pend, k, b))
  BY DEF LuAt
<1>2. PICK k1 \in Nat, b1 \in Nat : /\ Moves(lu, scr, Head(w), Len(shn), Len(part), k1, b1)
                                   /\ Leads(Tail(w), lu, scr, k1, b1, k, b)
  BY <1>1, LeadsFrom
<1>3. k1 = Len(shn) /\ b1 = Len(part)
  BY <1>2 DEF Moves
<1> QED BY <1>1, <1>2, <1>3 DEF LuAt

\* Overflow: nothing is left on the way, and nothing follows.
LEMMA LuCut ==
    ASSUME NEW lu, NEW scr, NEW shn \in Seq(Text), NEW part \in Text, NEW w, NEW lnk,
           NEW pend, LuAt(lu, scr, shn, part, w, lnk, pend)
    PROVE  LuAt(lu, scr, shn, part, <<>>, "down", pend)
<1>1. Len(shn) \in Nat /\ Len(part) \in Nat
  BY LenProperties DEF Text
<1>2. Leads(<<>>, lu, scr, Len(shn), Len(part), Len(shn), Len(part))
  BY <1>1, LeadsNowhere
<1> QED BY <1>1, <1>2 DEF LuAt

LEMMA ReassembleInit == Init => ScreensInv
<1> SUFFICES ASSUME Init PROVE ScreensInv
  OBVIOUS
<1>1. /\ wire = <<>> /\ link = "up" /\ pending = [s \in Session |-> <<>>]
      /\ screens = [lu \in LU |-> <<>>] /\ shown = [lu \in LU |-> <<>>] /\ partial = [lu \in LU |-> <<>>]
  BY DEF Init
<1>2. FitInv
  BY InitFit
<1>3. ASSUME NEW lu \in LU
      PROVE  LuAt(lu, <<>>, <<>>, <<>>, <<>>, "up", pending)
  <2>1. Leads(<<>>, lu, <<>>, Len(<<>>), Len(<<>>), 0, 0)
    <3>1. Len(<<>>) = 0 /\ 0 \in Nat
      OBVIOUS
    <3> QED BY <3>1, LeadsNowhere
  <2>2. Sends(lu, <<>>, pending, 0, 0)
    BY <1>1 DEF Sends
  <2>3. Len(<<>>) = 0 /\ \A i \in 1 .. 0 : FALSE
    OBVIOUS
  <2> QED BY <2>1, <2>2, <2>3 DEF LuAt
<1>4. <<>> \in Seq(Lengths) /\ <<>> \in Seq(Text) /\ <<>> \in Text
  BY DEF Text
<1> QED BY <1>1, <1>2, <1>3, <1>4 DEF ScreensInv

LEMMA ReassembleNext == ScreensInv /\ [Next]_vars => ScreensInv'
<1> SUFFICES ASSUME ScreensInv, [Next]_vars PROVE ScreensInv'
  OBVIOUS
<1>1. FitInv'
  BY StepFits DEF ScreensInv
<1>2. /\ wire \in Seq(Wired) /\ pending \in [Session -> Seq(Seg)] /\ snf \in [Session -> Nat]
      /\ wire' \in Seq(Wired) /\ pending' \in [Session -> Seq(Seg)]
  BY <1>1 DEF ScreensInv, FitInv, Wired
<1>3. /\ screens \in [LU -> Seq(Lengths)] /\ shown \in [LU -> Seq(Text)] /\ partial \in [LU -> Text]
      /\ \A lu \in LU : lu \notin mixed => LuAt(lu, screens[lu], shown[lu], partial[lu], wire, link, pending)
  BY DEF ScreensInv
<1>4. ASSUME NEW s \in Session, SendScreen(s) PROVE ScreensInv'
  <2>1. PICK lu \in LU : lu = s[1]
    BY DEF Session
  <2>2. /\ pending[s] = <<>> /\ UNCHANGED <<link, wire, partial, shown>>
        /\ mixed' = IF {t \in Session \ {s} : t[1] = lu /\ pending[t] # <<>>} = {} THEN mixed ELSE mixed \cup {lu}
    BY <1>4, <2>1 DEF SendScreen, linkVars
  <2>3. PICK n \in BiuLen :
           /\ pending' = [pending EXCEPT ![s] =
                 IF lu \in Unsegmented THEN << [mpf |-> "whole", from |-> 1, to |-> n] >> ELSE Segments(n)]
           /\ screens' = [screens EXCEPT ![lu] = Append(@, n)]
    BY <1>4, <2>1 DEF SendScreen
  <2>4. n \in Lengths
    BY NumbersAssumption DEF Lengths
  <2>5. Rest(pending'[s], n, 0) /\ \A t \in Session : t # s => pending'[t] = pending[t]
    <3>1. pending'[s] = (IF lu \in Unsegmented THEN << [mpf |-> "whole", from |-> 1, to |-> n] >> ELSE Segments(n))
          /\ \A t \in Session : t # s => pending'[t] = pending[t]
      BY <1>2, <2>3
    <3> QED BY <2>4, <3>1, WholeRest, SegmentsRest
  <2>6. /\ screens'[lu] = Append(screens[lu], n)
        /\ \A o \in LU : o # lu => screens'[o] = screens[o]
        /\ screens' \in [LU -> Seq(Lengths)]
    <3>1. Append(screens[lu], n) \in Seq(Lengths)
      BY <1>3, <2>4
    <3> QED BY <1>3, <2>3, <3>1
  <2>7. ASSUME NEW o \in LU, o \notin mixed'
        PROVE  LuAt(o, screens'[o], shown'[o], partial'[o], wire', link', pending')
    <3>1. o \notin mixed
      BY <2>2, <2>7
    <3>2. LuAt(o, screens[o], shown[o], partial[o], wire, link, pending)
      BY <1>3, <3>1
    <3>3. CASE o = lu
      <4>1. \A t \in Session : t[1] = lu => pending[t] = <<>>
        BY <2>2, <2>7, <3>3
      <4>2. PICK scr, shn, part, p2 :
               scr = screens[lu] /\ shn = shown[lu] /\ part = partial[lu] /\ p2 = pending'
        OBVIOUS
      <4>3. LuAt(lu, scr, shn, part, wire, link, pending)
        BY <3>2, <3>3, <4>2
      <4>4. Rest(p2[s], n, 0) /\ \A t \in Session : t # s => p2[t] = pending[t]
        BY <2>5, <4>2
      <4>5. LuAt(lu, Append(scr, n), shn, part, wire, link, p2)
        <5>1. wire \in Seq(Wired) /\ s[1] = lu /\ scr \in Seq(Lengths) /\ shn \in Seq(Text)
          BY <1>2, <1>3, <2>1, <4>2
        <5> QED BY <2>4, <4>1, <4>3, <4>4, <5>1, LuSends
      <4>6. LuAt(lu, Append(screens[lu], n), shown[lu], partial[lu], wire, link, pending')
        BY <4>2, <4>5
      <4> QED BY <2>2, <2>6, <3>3, <4>6
    <3>4. CASE o # lu
      <4>1. \A t \in Session : t[1] = o => pending'[t] = pending[t]
        BY <2>1, <2>5, <3>4
      <4>2. LuAt(o, screens[o], shown[o], partial[o], wire, link, pending')
        BY <3>2, <4>1, LuStill
      <4> QED BY <2>2, <2>6, <3>4, <4>2
    <3> QED BY <3>3, <3>4
  <2> QED BY <1>1, <1>3, <2>2, <2>6, <2>7 DEF ScreensInv
<1>5. ASSUME NEW s \in Session, Write(s), link = "up" PROVE ScreensInv'
  <2>1. PICK lu \in LU : lu = s[1]
    BY DEF Session
  <2>2. pending[s] # <<>> /\ pending[s] \in Seq(Seg) /\ UNCHANGED <<link, mixed, partial, screens, shown>>
    BY <1>2, <1>5 DEF Write, linkVars, sessionVars
  <2>3. PICK x : x = [lu |-> s[1], snf |-> snf[s], seg |-> Head(pending[s])]
    OBVIOUS
  <2>4. wire' = Append(wire, x) /\ pending' = [pending EXCEPT ![s] = Tail(@)]
    BY <1>5, <2>3 DEF Write
  <2>5. x \in Wired /\ x.lu = lu /\ x.seg = Head(pending[s])
    <3>1. Head(pending[s]) \in Seg
      BY <2>2, HeadTailProperties
    <3> QED BY <1>2, <2>1, <2>3, <3>1 DEF Wired
  <2>6. pending'[s] = Tail(pending[s]) /\ \A t \in Session : t # s => pending'[t] = pending[t]
    BY <1>2, <2>4
  <2>7. ASSUME NEW o \in LU, o \notin mixed'
        PROVE  LuAt(o, screens'[o], shown'[o], partial'[o], wire', link', pending')
    <3>1. LuAt(o, screens[o], shown[o], partial[o], wire, "up", pending)
      BY <1>3, <1>5, <2>2, <2>7
    <3>2. CASE o = lu
      <4>1. screens[lu] \in Seq(Lengths)
        BY <1>3
      <4>2. LuAt(lu, screens[lu], shown[lu], partial[lu], Append(wire, x), "up", pending')
        BY <1>2, <2>1, <2>2, <2>5, <2>6, <3>1, <3>2, <4>1, LuWrites, ZenonT(60)
      <4> QED BY <1>5, <2>2, <2>4, <3>2, <4>2
    <3>3. CASE o # lu
      <4>1. \A t \in Session : t[1] = o => pending'[t] = pending[t]
        BY <2>1, <2>6, <3>3
      <4>2. LuAt(o, screens[o], shown[o], partial[o], Append(wire, x), "up", pending')
        BY <1>2, <2>5, <3>1, <3>3, <4>1, LuOthers
      <4> QED BY <1>5, <2>2, <2>4, <4>2
    <3> QED BY <3>2, <3>3
  <2> QED BY <1>1, <1>3, <2>2, <2>7 DEF ScreensInv
<1>6. ASSUME link' # "up", UNCHANGED <<mixed, wire, partial, screens, shown>> PROVE ScreensInv'
  <2>1. ASSUME NEW o \in LU, o \notin mixed'
        PROVE  LuAt(o, screens'[o], shown'[o], partial'[o], wire', link', pending')
    <3>1. LuAt(o, screens[o], shown[o], partial[o], wire, link, pending)
      BY <1>3, <1>6, <2>1
    <3>2. LuAt(o, screens[o], shown[o], partial[o], wire, link', pending')
      BY <1>6, <3>1, LuStill
    <3> QED BY <1>6, <3>2
  <2> QED BY <1>1, <1>3, <1>6, <2>1 DEF ScreensInv
<1>7. ASSUME Reassemble PROVE ScreensInv'
  <2>1. wire # <<>> /\ wire' = Tail(wire) /\ UNCHANGED <<link, mixed, pending, screens>>
    BY <1>7 DEF Reassemble, linkVars, sessionVars
  <2>2. PICK x \in Wired : x = Head(wire)
    BY <1>2, <2>1, HeadTailProperties
  <2>3. PICK lu \in LU, seg \in Seg : lu = x.lu /\ seg = x.seg
    BY DEF Wired
  <2>4. PICK biu : biu = PutOn(partial[lu], seg)
    OBVIOUS
  <2>5. /\ seg.mpf \in {"whole", "last"} =>
              /\ shown' = [shown EXCEPT ![lu] = Append(@, biu)]
              /\ partial' = [partial EXCEPT ![lu] = <<>>]
        /\ seg.mpf \notin {"whole", "last"} =>
              partial' = [partial EXCEPT ![lu] = biu] /\ shown' = shown
    BY <1>7, <2>2, <2>3, <2>4 DEF Reassemble, PutOn, Piece
  <2>6. biu \in Text /\ partial[lu] \in Text /\ shown[lu] \in Seq(Text)
    BY <1>3, <2>4, PutOnType
  <2>7. shown' \in [LU -> Seq(Text)] /\ partial' \in [LU -> Text]
    <3>1. Append(shown[lu], biu) \in Seq(Text) /\ <<>> \in Text
      BY <2>6 DEF Text
    <3> QED BY <1>3, <2>5, <2>6, <3>1
  <2>8. ASSUME NEW o \in LU, o \notin mixed'
        PROVE  LuAt(o, screens'[o], shown'[o], partial'[o], wire', link', pending')
    <3>1. LuAt(o, screens[o], shown[o], partial[o], wire, link, pending)
      BY <1>3, <2>1, <2>8
    <3>2. CASE o = lu
      <4>1. PICK scr, shn, part, shn2, part2 :
               /\ scr = screens[lu] /\ shn = shown[lu] /\ part = partial[lu]
               /\ shn2 = shown'[lu] /\ part2 = partial'[lu]
        OBVIOUS
      <4>2. LuAt(lu, scr, shn, part, wire, link, pending)
        BY <3>1, <3>2, <4>1
      <4>3. /\ seg.mpf \in {"whole", "last"} => shn2 = Append(shn, biu) /\ part2 = <<>>
            /\ seg.mpf \notin {"whole", "last"} => shn2 = shn /\ part2 = biu
        BY <1>3, <2>5, <4>1
      <4>4. Head(wire).lu = lu /\ seg = Head(wire).seg /\ biu = PutOn(part, seg)
        BY <2>2, <2>3, <2>4, <4>1
      <4>5. LuAt(lu, scr, shn2, part2, Tail(wire), link, pending)
        <5>1. /\ wire \in Seq(Wired) /\ wire # <<>>
              /\ scr \in Seq(Lengths) /\ shn \in Seq(Text) /\ part \in Text
          BY <1>2, <1>3, <2>1, <4>1
        <5> QED BY <4>2, <4>3, <4>4, <5>1, LuTakes
      <4> QED BY <2>1, <3>2, <4>1, <4>5
    <3>3. CASE o # lu
      <4>1. shown'[o] = shown[o] /\ partial'[o] = partial[o]
        BY <1>3, <2>5, <3>3
      <4>2. Head(wire).lu # o
        BY <2>2, <2>3, <3>3
      <4>3. LuAt(o, screens[o], shown[o], partial[o], Tail(wire), link, pending)
        BY <1>2, <2>1, <3>1, <4>2, LuPasses
      <4> QED BY <2>1, <4>1, <4>3
    <3> QED BY <3>2, <3>3
  <2> QED BY <1>1, <1>3, <2>1, <2>7, <2>8 DEF ScreensInv
<1>8. ASSUME Overflow PROVE ScreensInv'
  <2>1. wire' = <<>> /\ link' = "down" /\ UNCHANGED <<mixed, pending, screens, shown, partial>>
    BY <1>8 DEF Overflow, sessionVars
  <2>2. ASSUME NEW o \in LU, o \notin mixed'
        PROVE  LuAt(o, screens'[o], shown'[o], partial'[o], wire', link', pending')
    <3>1. LuAt(o, screens[o], shown[o], partial[o], wire, link, pending)
      BY <1>3, <2>1, <2>2
    <3>2. shown[o] \in Seq(Text) /\ partial[o] \in Text
      BY <1>3
    <3>3. LuAt(o, screens[o], shown[o], partial[o], <<>>, "down", pending)
      BY <3>1, <3>2, LuCut
    <3> QED BY <2>1, <3>3
  <2> QED BY <1>1, <1>3, <2>1, <2>2 DEF ScreensInv
<1>9. CASE UNCHANGED <<link, mixed, pending, wire, partial, screens, shown>>
  BY <1>1, <1>3, <1>9 DEF ScreensInv
<1>10. ASSUME NEW s \in Session, Write(s), link # "up" PROVE ScreensInv'
  BY <1>6, <1>10 DEF Write, linkVars, sessionVars
<1>11. CASE LinkLost
  BY <1>6, <1>11 DEF LinkLost, outVars, sessionVars
<1>12. CASE \/ \E lu \in LU : NewSession(lu)
            \/ ServerSends \/ Dequeue \/ ReadLink \/ UNCHANGED vars
  BY <1>9, <1>12 DEF NewSession, ServerSends, Dequeue, ReadLink, vars, linkVars, outVars, sessionVars
<1> QED BY <1>4, <1>5, <1>7, <1>8, <1>10, <1>11, <1>12 DEF Next

LEMMA ScreensImply == ScreensInv => ScreensReassembled
<1> SUFFICES ASSUME ScreensInv, NEW lu \in LU, lu \notin mixed
             PROVE  /\ Len(shown[lu]) <= Len(screens[lu])
                    /\ \A i \in DOMAIN shown[lu] : shown[lu][i] = [k \in 1 .. screens[lu][i] |-> k]
  BY DEF ScreensReassembled
<1>1. LuAt(lu, screens[lu], shown[lu], partial[lu], wire, link, pending)
  BY DEF ScreensInv
<1>2. DOMAIN shown[lu] = 1 .. Len(shown[lu])
  <2>1. shown[lu] \in Seq(Text)
    BY DEF ScreensInv
  <2> QED BY <2>1, LenProperties
<1> QED BY <1>1, <1>2 DEF LuAt

(***************************************************************************)
(* SNA Server puts together, for every LU, the screens that were sent to   *)
(* it, byte for byte and in order, however the goroutines that write PIUs  *)
(* (sendSSCPLU, SendToTerminal) take turns on the link, for every number   *)
(* of LUs and sessions, length of the screens and size of the segments -   *)
(* unless two sessions of that LU were sending at once.                    *)
(***************************************************************************)
THEOREM ScreensAreReassembled == Spec => []ScreensReassembled
<1> QED BY ReassembleInit, ReassembleNext, ScreensImply, PTL DEF Spec

-----------------------------------------------------------------------------
(***************************************************************************)
(* The types of what goes out: a session that has segments to write has    *)
(* counted their screen, so that no PIU has sequence number 0.             *)
(***************************************************************************)
OnWire == [lu : LU, snf : Nat \ {0}, seg : Segment]
SessionTypes ==
    /\ way \in {"out", "in"} /\ link \in {"up", "down"}
    /\ diag \in BOOLEAN /\ luLu \subseteq LuLu
    /\ latest \in [LU -> 1 .. MaxSessions] /\ mixed \subseteq LU
SenderTypes ==
    /\ pending \in [Session -> Seq(Segment)] /\ snf \in [Session -> Nat]
    /\ \A s \in Session : pending[s] # <<>> => snf[s] # 0
    /\ screens \in [LU -> Seq(BiuLen)]
ServerTypes ==
    /\ wire \in Seq(OnWire)
    /\ partial \in [LU -> Biu] /\ shown \in [LU -> Seq(Biu)]

LEMMA SegmentBytes ==
    ASSUME NEW n \in BiuLen
    PROVE  /\ Segments(n) \in Seq(Segment)
           /\ << [mpf |-> "whole", from |-> 1, to |-> n] >> \in Seq(Segment)
<1>1. n \in Nat \ {0} /\ \A b \in 1 .. n : b \in ByteNo
  BY NumbersAssumption DEF ByteNo
<1>2. PICK q \in Nat \ {0} :
         /\ DOMAIN Pieces(n) = 1 .. q
         /\ \A k \in 1 .. q : SegLen(Pieces(n)[k]) \in 1 .. MaxSeg
  BY <1>1, PiecesCover, ZenonT(60)
<1>3. ASSUME NEW k \in 1 .. q PROVE Pieces(n)[k] \in Segment
  <2>1. MaxSeg \in Nat \ {0} /\ k \in Nat \ {0}
    BY NumbersAssumption
  <2>2. PICK a, b \in Nat : a = (k - 1) * MaxSeg + 1 /\ b = k * MaxSeg /\ a # 0
    <3>1. (k - 1) * MaxSeg \in Nat /\ k * MaxSeg \in Nat
      BY <2>1
    <3> QED BY <3>1
  <2>3. Pieces(n)[k] = [mpf |-> MpfOf(k, n), from |-> a, to |-> IF b > n THEN n ELSE b]
    BY <1>2, <2>2 DEF Pieces, LastByte
  <2>4. (IF b > n THEN n ELSE b) - a + 1 \in 1 .. MaxSeg
    BY <1>2, <2>3 DEF SegLen
  <2>5. a \in 1 .. n /\ (IF b > n THEN n ELSE b) \in 1 .. n
    BY <1>1, <2>1, <2>2, <2>4
  <2>6. MpfOf(k, n) \in Mpf
    BY DEF MpfOf, Mpf
  <2> QED BY <1>1, <2>3, <2>5, <2>6 DEF Segment
<1>4. Pieces(n) \in [1 .. q -> Segment]
  BY <1>2, <1>3 DEF Pieces
<1>5. Pieces(n) \in Seq(Segment)
  <2> HIDE DEF Segment
  <2> QED BY <1>4
<1>6. [mpf |-> "whole", from |-> 1, to |-> n] \in Segment
  <2>1. 1 \in 1 .. n /\ n \in 1 .. n
    BY <1>1
  <2> QED BY <1>1, <2>1 DEF Segment, Mpf
<1>7. << [mpf |-> "whole", from |-> 1, to |-> n] >> \in Seq(Segment)
  <2> HIDE DEF Segment
  <2> QED BY <1>6
<1> QED BY <1>5, <1>7 DEF Segments

LEMMA PieceBytes ==
    ASSUME NEW seg \in Segment
    PROVE  [k \in 1 .. SegLen(seg) |-> seg.from + k - 1] \in Biu
<1>1. PICK n \in BiuLen : seg.to \in 1 .. n
  BY DEF Segment, ByteNo
<1>2. n \in Nat /\ \A b \in 1 .. n : b \in ByteNo
  BY <1>1, NumbersAssumption DEF ByteNo
<1>3. PICK a \in Nat \ {0} : a = seg.from
  BY NumbersAssumption DEF Segment, ByteNo
<1>4. PICK m \in Int : m = SegLen(seg) /\ m = seg.to - a + 1
  BY <1>1, <1>2, <1>3 DEF SegLen
<1>5. ASSUME NEW k \in 1 .. m PROVE a + k - 1 \in ByteNo
  <2>1. a + k - 1 \in 1 .. n
    BY <1>1, <1>2, <1>3, <1>4
  <2> QED BY <1>2, <2>1
<1>6. CASE m \in Nat
  <2>1. [k \in 1 .. m |-> a + k - 1] \in Seq(ByteNo)
    BY <1>5, <1>6
  <2> QED BY <1>3, <1>4, <2>1 DEF Biu
<1>7. CASE m \notin Nat
  <2>1. 1 .. m = 1 .. 0
    BY <1>4, <1>7
  <2>2. [k \in 1 .. 0 |-> a + k - 1] \in Seq(ByteNo)
    OBVIOUS
  <2> QED BY <1>3, <1>4, <2>1, <2>2 DEF Biu
<1> QED BY <1>6, <1>7

LEMMA InitSenders == Init => SessionTypes /\ SenderTypes /\ ServerTypes
<1> SUFFICES ASSUME Init PROVE SessionTypes /\ SenderTypes /\ ServerTypes
  OBVIOUS
<1>1. SessionTypes
  <2>1. 1 \in 1 .. MaxSessions
    BY SessionAssumption
  <2> QED BY <2>1 DEF Init, SessionTypes
<1>2. SenderTypes
  BY DEF Init, SenderTypes
<1>3. ServerTypes
  <2>1. <<>> \in Seq(OnWire) /\ <<>> \in Biu /\ <<>> \in Seq(Biu)
    BY DEF Biu
  <2> QED BY <2>1 DEF Init, ServerTypes
<1> QED BY <1>1, <1>2, <1>3

LEMMA StepSession == SessionTypes /\ [Next]_vars => SessionTypes'
<1> SUFFICES ASSUME SessionTypes, [Next]_vars PROVE SessionTypes'
  OBVIOUS
<1> USE DEF SessionTypes, linkVars, sessionVars
<1>1. ASSUME NEW lu \in LU, NewSession(lu) PROVE SessionTypes'
  <2>1. latest[lu] \in 1 .. MaxSessions /\ latest[lu] < MaxSessions /\ MaxSessions \in Nat
    BY <1>1, SessionAssumption DEF NewSession
  <2>2. latest[lu] + 1 \in 1 .. MaxSessions
    BY <2>1
  <2> QED BY <1>1, <2>2 DEF NewSession
<1>2. ASSUME NEW s \in Session, SendScreen(s) PROVE SessionTypes'
  BY <1>2 DEF SendScreen, Session
<1>3. ASSUME NEW s \in Session, Write(s) PROVE SessionTypes'
  BY <1>3 DEF Write
<1>4. CASE Reassemble
  BY <1>4 DEF Reassemble
<1>5. CASE Overflow \/ LinkLost
  BY <1>5 DEF Overflow, LinkLost, outVars
<1>6. CASE ServerSends \/ Dequeue \/ ReadLink
  BY <1>6 DEF ServerSends, Dequeue, ReadLink, outVars
<1>7. CASE UNCHANGED vars
  BY <1>7 DEF vars, outVars
<1> QED BY <1>1, <1>2, <1>3, <1>4, <1>5, <1>6, <1>7 DEF Next

LEMMA StepSender == SenderTypes /\ [Next]_vars => SenderTypes'
<1> SUFFICES ASSUME SenderTypes, [Next]_vars PROVE SenderTypes'
  OBVIOUS
<1> DEFINE S == Seq(Segment)
<1>0. pending \in [Session -> S] /\ snf \in [Session -> Nat] /\ screens \in [LU -> Seq(BiuLen)]
  BY DEF SenderTypes
<1>1. ASSUME NEW s \in Session, SendScreen(s) PROVE SenderTypes'
  <2>1. PICK n \in BiuLen : \E p \in S :
           /\ pending' = [pending EXCEPT ![s] = p]
           /\ screens' = [screens EXCEPT ![s[1]] = Append(@, n)]
    <3>1. PICK n \in BiuLen :
             /\ pending' = [pending EXCEPT ![s] =
                              IF s[1] \in Unsegmented THEN << [mpf |-> "whole", from |-> 1, to |-> n] >>
                              ELSE Segments(n)]
             /\ screens' = [screens EXCEPT ![s[1]] = Append(@, n)]
      BY <1>1 DEF SendScreen
    <3>2. (IF s[1] \in Unsegmented THEN << [mpf |-> "whole", from |-> 1, to |-> n] >> ELSE Segments(n)) \in S
      BY SegmentBytes
    <3> QED BY <3>1, <3>2
  <2>2. PICK p \in S : pending' = [pending EXCEPT ![s] = p]
    BY <2>1
  <2>3. snf' = [snf EXCEPT ![s] = @ + 1]
    BY <1>1 DEF SendScreen
  <2> HIDE DEF S
  <2>4. pending' \in [Session -> S] /\ \A t \in Session \ {s} : pending'[t] = pending[t]
    BY <1>0, <2>2
  <2>5. /\ snf' \in [Session -> Nat] /\ snf'[s] # 0
        /\ \A t \in Session \ {s} : snf'[t] = snf[t]
    BY <1>0, <2>3
  <2>6. screens' \in [LU -> Seq(BiuLen)]
    <3>1. s[1] \in LU
      BY DEF Session
    <3>2. Append(screens[s[1]], n) \in Seq(BiuLen)
      BY <1>0, <3>1
    <3> QED BY <1>0, <2>1, <3>2
  <2>7. \A t \in Session : pending'[t] # <<>> => snf'[t] # 0
    BY <2>4, <2>5 DEF SenderTypes
  <2> QED BY <2>4, <2>5, <2>6, <2>7 DEF SenderTypes, S
<1>2. ASSUME NEW s \in Session, Write(s) PROVE SenderTypes'
  <2>1. PICK p \in S : pending' = [pending EXCEPT ![s] = p]
    <3>1. pending[s] \in S /\ pending[s] # <<>>
      BY <1>0, <1>2 DEF Write
    <3>2. Tail(pending[s]) \in S /\ <<>> \in S
      <4> HIDE DEF Segment
      <4> QED BY <3>1
    <3> QED BY <1>2, <3>2 DEF Write
  <2>2. pending[s] # <<>> /\ UNCHANGED <<snf, screens>>
    BY <1>2 DEF Write
  <2> HIDE DEF S
  <2>3. pending' \in [Session -> S] /\ \A t \in Session \ {s} : pending'[t] = pending[t]
    BY <1>0, <2>1
  <2>4. \A t \in Session : pending'[t] # <<>> => snf'[t] # 0
    BY <2>2, <2>3 DEF SenderTypes
  <2> QED BY <1>0, <2>2, <2>3, <2>4 DEF SenderTypes, S
<1>3. CASE UNCHANGED <<pending, snf, screens>>
  BY <1>3 DEF SenderTypes
<1>4. CASE \/ \E lu \in LU : NewSession(lu)
           \/ Reassemble \/ Overflow \/ ServerSends \/ Dequeue \/ ReadLink \/ LinkLost \/ UNCHANGED vars
  BY <1>3, <1>4 DEF NewSession, Reassemble, Overflow, ServerSends, Dequeue, ReadLink, LinkLost, vars, outVars
<1> QED BY <1>1, <1>2, <1>4 DEF Next

LEMMA StepServer == SenderTypes /\ ServerTypes /\ [Next]_vars => ServerTypes'
<1> SUFFICES ASSUME SenderTypes, ServerTypes, [Next]_vars PROVE ServerTypes'
  OBVIOUS
<1>0. wire \in Seq(OnWire) /\ partial \in [LU -> Biu] /\ shown \in [LU -> Seq(Biu)]
  BY DEF ServerTypes
<1>1. ASSUME NEW s \in Session, Write(s) PROVE ServerTypes'
  <2>1. pending[s] # <<>> /\ pending[s] \in Seq(Segment) /\ snf[s] \in Nat \ {0}
    BY <1>1 DEF Write, SenderTypes
  <2>2. Head(pending[s]) \in Segment
    <3> HIDE DEF Segment
    <3> QED BY <2>1
  <2>3. s[1] \in LU
    BY DEF Session
  <2>4. PICK piu \in OnWire : piu = [lu |-> s[1], snf |-> snf[s], seg |-> Head(pending[s])]
    BY <2>1, <2>2, <2>3 DEF OnWire
  <2>5. UNCHANGED <<partial, shown>> /\ (wire' = Append(wire, piu) \/ wire' = wire)
    BY <1>1, <2>4 DEF Write
  <2>6. wire' \in Seq(OnWire)
    <3>1. Append(wire, piu) \in Seq(OnWire)
      BY <1>0, <2>4, AppendProperties
    <3> QED BY <1>0, <2>5, <3>1
  <2> QED BY <1>0, <2>5, <2>6 DEF ServerTypes
<1>2. CASE Reassemble
  <2>1. PICK piu \in OnWire : piu = Head(wire) /\ wire' = Tail(wire) /\ Tail(wire) \in Seq(OnWire)
    BY <1>0, <1>2 DEF Reassemble
  <2>2. PICK lu \in LU, seg \in Segment : lu = piu.lu /\ seg = piu.seg
    BY DEF OnWire
  <2>3. PICK piece \in Biu : piece = [k \in 1 .. SegLen(seg) |-> seg.from + k - 1]
    BY PieceBytes
  <2>4. PICK biu \in Biu : biu = IF seg.mpf \in {"whole", "first"} THEN piece ELSE partial[lu] \o piece
    <3>1. partial[lu] \o piece \in Biu
      BY <1>0 DEF Biu
    <3> QED BY <3>1
  <2>5. IF seg.mpf \in {"whole", "last"}
        THEN /\ shown' = [shown EXCEPT ![lu] = Append(@, biu)]
             /\ partial' = [partial EXCEPT ![lu] = <<>>]
        ELSE /\ partial' = [partial EXCEPT ![lu] = biu]
             /\ UNCHANGED shown
    BY <1>2, <2>1, <2>2, <2>3, <2>4 DEF Reassemble
  <2>6. <<>> \in Biu /\ Append(shown[lu], biu) \in Seq(Biu)
    <3>1. <<>> \in Biu
      BY DEF Biu
    <3>2. shown[lu] \in Seq(Biu)
      BY <1>0
    <3>3. Append(shown[lu], biu) \in Seq(Biu)
      BY <3>2
    <3> QED BY <3>1, <3>3
  <2>7. shown' \in [LU -> Seq(Biu)] /\ partial' \in [LU -> Biu]
    BY <1>0, <2>5, <2>6
  <2> QED BY <2>1, <2>7 DEF ServerTypes
<1>3. CASE Overflow
  BY <1>3 DEF Overflow, ServerTypes
<1>4. CASE UNCHANGED <<wire, partial, shown>>
  BY <1>4 DEF ServerTypes
<1>5. CASE \/ \E lu \in LU : NewSession(lu)
           \/ \E s \in Session : SendScreen(s)
           \/ ServerSends \/ Dequeue \/ ReadLink \/ LinkLost \/ UNCHANGED vars
  BY <1>4, <1>5 DEF NewSession, SendScreen, ServerSends, Dequeue, ReadLink, LinkLost, vars, outVars
<1> QED BY <1>1, <1>2, <1>3, <1>5 DEF Next

(***************************************************************************)
(* No PIU goes out with sequence number 0 or with bytes its screen does    *)
(* not have, SNA Server puts together bytes of screens only, and what the  *)
(* reader returns is made of what was sent.                                *)
(***************************************************************************)
THEOREM TypeCorrect == Spec => []TypeOK
<1>1. SessionTypes /\ SenderTypes /\ ServerTypes /\ QueueInv => TypeOK
  BY DEF SessionTypes, SenderTypes, ServerTypes, QueueInv, TypeOK, OnWire
<1>2. QueueInv /\ [Next]_vars => QueueInv'
  BY QueueNext
<1>3. Init => QueueInv
  BY QueueInit
<1> QED BY <1>1, <1>2, <1>3, InitSenders, StepSession, StepSender, StepServer, PTL DEF Spec

=============================================================================
