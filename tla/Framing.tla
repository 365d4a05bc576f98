------------------------------ MODULE Framing -------------------------------
(***************************************************************************)
(* PIUs on the LLC2 link, in both directions.                              *)
(*                                                                         *)
(* Outbound: on the SSCP-LU path a screen larger than the BTU is segmented *)
(* (sendSSCPLU and BuildSSCPLUSegments of internal/sna/lusession.go), on   *)
(* the LU-LU path it is one PIU whatever its size (BuildFMD), and so it is *)
(* on the SSCP-LU path with -echo-test and -uss-test (BuildSSCPLUData).    *)
(* Goroutines of several sessions write to one link, a PIU at a time, and  *)
(* SNA Server puts each LU's segments together again.  When a user         *)
(* disconnects and another one attaches, his LU has a new session while    *)
(* the bridge of the old one may still be sending (it does until its host  *)
(* is closed).                                                             *)
(*                                                                         *)
(* Inbound: the kernel coalesces frames, and piuReader (snaprobe.go) cuts  *)
(* what a read returns into PIUs again with SplitPIUs (internal/sna),      *)
(* which looks for the two bytes that begin a FID2 header.                 *)
(***************************************************************************)
EXTENDS Naturals, SequencesExt, FiniteSetsExt

CONSTANTS
    LU,         \* LUs whose terminals are sent screens
    LuLu,       \* those of them that may have a LU-LU session (BIND)
    MaxSessions,\* bound: sessions of one LU, one after the other
    MaxSeg,     \* maxSegPayload (1480 in the code)
    BiuLen,     \* how many bytes a screen with its RH may have
    Window,     \* PIUs the socket takes before a write blocks
    MaxScreens, \* bound: screens sent in all
    HdrLen,     \* length of TH and RH (9 in the code)
    Piu,        \* what SNA Server may send
    MaxPius     \* bound: PIUs that SNA Server sends

\* What the splitter tells apart: 0x2x, 0x00, other bytes.
Byte == {"2x", "00", "other"}
StartsPiu(buf, j) == buf[j] = "2x" /\ buf[j + 1] = "00"

ASSUME NumbersAssumption ==
    /\ MaxSeg \in Nat \ {0} /\ HdrLen \in Nat \ {0, 1}
    /\ BiuLen \subseteq Nat \ {0}
    /\ Window \in Nat \ {0} /\ MaxScreens \in Nat /\ MaxPius \in Nat

ASSUME PiuAssumption ==
    /\ Piu \subseteq Seq(Byte)
    /\ \A p \in Piu : Len(p) >= HdrLen /\ StartsPiu(p, 1)

ASSUME SessionAssumption == LuLu \subseteq LU /\ MaxSessions \in Nat \ {0}

VARIABLES
    way,       \* "out" or "in": see Init
    link,      \* "up" or "down"
    diag,      \* main itself sends the screens: -echo-test, or -uss-test without -target
    luLu,      \* the LUs with a LU-LU session, the others are served over SSCP-LU
    latest,    \* per LU: number of its latest session
    pending,   \* per session: segments of its screen that are still to be written
    snf,       \* LU2Session.snf
    mixed,     \* history: LUs two of whose sessions were sending at once
    wire,      \* PIUs on their way to SNA Server
    partial,   \* per LU: bytes of the screen SNA Server is putting together
    screens,   \* history, per LU: lengths of the screens sent
    shown,     \* history, per LU: the screens SNA Server has put together
    frames,    \* frames the kernel holds for the gateway
    queue,     \* piuReader.queue
    sent,      \* history: what SNA Server has sent
    read       \* history: what Read and ReadTimeout have returned

sessionVars == <<latest, mixed>>
outVars == <<sessionVars, pending, snf, wire, partial, screens, shown>>
inVars == <<frames, queue, sent, read>>
linkVars == <<way, link, diag, luLu>>
vars == <<linkVars, outVars, inVars>>

Mpf == {"whole", "first", "middle", "last"}
ByteNo == UNION {1 .. n : n \in BiuLen}
Segment == [mpf : Mpf, from : ByteNo, to : ByteNo]
Biu == Seq(ByteNo)
Session == LU \X (1 .. MaxSessions)

TypeOK ==
    /\ way \in {"out", "in"}
    /\ link \in {"up", "down"} /\ diag \in BOOLEAN /\ luLu \subseteq LuLu
    /\ latest \in [LU -> 1 .. MaxSessions] /\ mixed \subseteq LU
    /\ pending \in [Session -> Seq(Segment)]
    /\ snf \in [Session -> Nat]
    /\ wire \in Seq([lu : LU, snf : Nat \ {0}, seg : Segment])
    /\ partial \in [LU -> Biu]
    /\ screens \in [LU -> Seq(BiuLen)] /\ shown \in [LU -> Seq(Biu)]
    /\ frames \in Seq(Piu) /\ sent \in Seq(Piu)
    /\ queue \in Seq(Seq(Byte)) /\ read \in Seq(Seq(Byte))

\* The two directions have nothing in common but the loss of the link, so
\* that a behaviour has traffic in one of them.
Init ==
    /\ way \in {"out", "in"}
    /\ link = "up"
    /\ diag \in IF way = "out" THEN BOOLEAN ELSE {FALSE}
    /\ luLu \in IF way = "out" /\ ~diag THEN SUBSET LuLu ELSE {{}}
    /\ latest = [lu \in LU |-> 1] /\ mixed = {}
    /\ pending = [s \in Session |-> <<>>] /\ snf = [s \in Session |-> 0]
    /\ wire = <<>> /\ partial = [lu \in LU |-> <<>>]
    /\ screens = [lu \in LU |-> <<>>] /\ shown = [lu \in LU |-> <<>>]
    /\ frames = <<>> /\ queue = <<>> /\ sent = <<>> /\ read = <<>>

-----------------------------------------------------------------------------
(* Outbound.                                                               *)

\* The k-th piece of a BIU of n bytes ends at this byte.
LastByte(k, n) == IF k * MaxSeg > n THEN n ELSE k * MaxSeg

\* Mutants of MpfOf: a full last piece is a middle one; there are no middle ones.
MpfOfShortLast(k, n) ==
    IF n <= MaxSeg THEN "whole" ELSE IF k = 1 THEN "first"
    ELSE IF k * MaxSeg > n THEN "last" ELSE "middle"

MpfOfNoMiddle(k, n) ==
    IF n <= MaxSeg THEN "whole" ELSE IF k * MaxSeg >= n THEN "last" ELSE "first"

MpfOf(k, n) ==
    IF n <= MaxSeg THEN "whole" ELSE IF k = 1 THEN "first"
    ELSE IF k * MaxSeg >= n THEN "last" ELSE "middle"

Pieces(n) ==
    [k \in 1 .. (n + MaxSeg - 1) \div MaxSeg |->
        [mpf |-> MpfOf(k, n), from |-> (k - 1) * MaxSeg + 1, to |-> LastByte(k, n)]]

\* Mutant of Segments: the limit is compared with the text without its header.
SegmentsLate(n) ==
    IF n <= MaxSeg + HdrLen THEN << [mpf |-> "whole", from |-> 1, to |-> n] >> ELSE Pieces(n)

\* A BIU (RH and text) of n bytes, cut into pieces of at most MaxSeg.
Segments(n) == Pieces(n)

\* The LUs whose screens are one PIU each: BuildFMD and BuildSSCPLUData.
Unsegmented == IF diag THEN LU ELSE luLu

\* Teardown and the next attach: a new session, whose number starts anew.
\* The main goroutine does not wait for the bridge of the old one, which goes
\* on until it has closed its host.
NewSession(lu) ==
    /\ way = "out" /\ ~diag
    /\ latest[lu] < MaxSessions
    /\ latest' = [latest EXCEPT ![lu] = @ + 1]
    /\ UNCHANGED <<linkVars, mixed, pending, snf, wire, partial, screens, shown, inVars>>

\* SendToTerminal, which does not look at closed.  One screen of a session at
\* a time: it holds the session's mutex.  With diag there are no sessions: the
\* main goroutine sends the screen of any LU, one at a time (echoSend, which
\* echoes what it was sent, up to a whole screen buffer, and the USS screen).
SendScreen(s) ==
    LET lu == s[1]
        others == {t \in Session \ {s} : t[1] = lu /\ pending[t] # <<>>}
    IN  /\ way = "out"
        /\ s[2] <= latest[lu] /\ pending[s] = <<>>
        /\ diag => \A t \in Session : pending[t] = <<>>
        /\ MapThenSumSet(LAMBDA l : Len(screens[l]), LU) < MaxScreens
        /\ \E n \in BiuLen :
              /\ pending' = [pending EXCEPT ![s] =
                    IF lu \in Unsegmented THEN << [mpf |-> "whole", from |-> 1, to |-> n] >>
                    ELSE Segments(n)]
              /\ screens' = [screens EXCEPT ![lu] = Append(@, n)]
        /\ mixed' = IF others = {} THEN mixed ELSE mixed \cup {lu}
        /\ snf' = [snf EXCEPT ![s] = @ + 1]
        /\ UNCHANGED <<linkVars, latest, wire, partial, shown, inVars>>

\* llcConn.Write, one PIU; on an error the rest of the screen is given up.
Write(s) ==
    /\ pending[s] # <<>>
    /\ link = "up" => Len(wire) < Window
    /\ IF link = "up"
       THEN /\ wire' = Append(wire, [lu |-> s[1], snf |-> snf[s], seg |-> Head(pending[s])])
            /\ pending' = [pending EXCEPT ![s] = Tail(@)]
       ELSE /\ pending' = [pending EXCEPT ![s] = <<>>]
            /\ UNCHANGED wire
    /\ UNCHANGED <<linkVars, sessionVars, snf, partial, screens, shown, inVars>>

SegLen(seg) == seg.to - seg.from + 1

\* SNA Server takes a PIU: it begins with a whole or first segment, goes on
\* with the others, and shows the screen after a whole or last one.
Reassemble ==
    /\ wire # <<>>
    /\ SegLen(Head(wire).seg) <= MaxSeg
    /\ wire' = Tail(wire)
    /\ LET lu  == Head(wire).lu
           seg == Head(wire).seg
           piece == [k \in 1 .. SegLen(seg) |-> seg.from + k - 1]
           biu == IF seg.mpf \in {"whole", "first"} THEN piece ELSE partial[lu] \o piece
       IN  IF seg.mpf \in {"whole", "last"}
           THEN /\ shown' = [shown EXCEPT ![lu] = Append(@, biu)]
                /\ partial' = [partial EXCEPT ![lu] = <<>>]
           ELSE /\ partial' = [partial EXCEPT ![lu] = biu]
                /\ UNCHANGED shown
    /\ UNCHANGED <<linkVars, sessionVars, pending, snf, screens, inVars>>

\* "an oversized single PIU overflows the BTU and drops the whole link".
Overflow ==
    /\ wire # <<>> /\ SegLen(Head(wire).seg) > MaxSeg
    /\ link' = "down"
    /\ wire' = <<>>
    /\ UNCHANGED <<way, diag, luLu, sessionVars, pending, snf, partial, screens, shown, inVars>>

-----------------------------------------------------------------------------
(* Inbound.                                                                *)

ServerSends ==
    /\ way = "in"
    /\ link = "up"
    /\ Len(sent) < MaxPius
    /\ \E p \in Piu : frames' = Append(frames, p) /\ sent' = Append(sent, p)
    /\ UNCHANGED <<linkVars, outVars, queue, read>>

\* Mutant of SplitPIUs: the search begins within the header.
SplitPIUsEarly(buf) ==
    LET Cut[start \in 1 .. Len(buf)] ==
            LET next == {j \in start + HdrLen - 1 .. Len(buf) - 1 : StartsPiu(buf, j)}
            IN  IF next = {}
                THEN << SubSeq(buf, start, Len(buf)) >>
                ELSE << SubSeq(buf, start, Min(next) - 1) >> \o Cut[Min(next)]
    IN  Cut[1]

SplitPIUs(buf) ==
    LET Cut[start \in 1 .. Len(buf)] ==
            LET next == {j \in start + HdrLen .. Len(buf) - 1 : StartsPiu(buf, j)}
            IN  IF next = {}
                THEN << SubSeq(buf, start, Len(buf)) >>
                ELSE << SubSeq(buf, start, Min(next) - 1) >> \o Cut[Min(next)]
    IN  Cut[1]

Dequeue ==
    /\ queue # <<>>
    /\ queue' = Tail(queue)
    /\ read' = Append(read, Head(queue))
    /\ UNCHANGED <<linkVars, outVars, frames, sent>>

\* Read and ReadTimeout: with an empty queue, one read of the link, which
\* returns any number of the frames there are.
ReadLink ==
    /\ queue = <<>>
    /\ \E k \in 1 .. Len(frames) :
          LET pius == SplitPIUs(FlattenSeq(SubSeq(frames, 1, k)))
          IN  /\ read' = Append(read, Head(pius))
              /\ queue' = Tail(pius)
              /\ frames' = SubSeq(frames, k + 1, Len(frames))
    /\ UNCHANGED <<linkVars, outVars, sent>>

LinkLost ==
    /\ link = "up"
    /\ link' = "down"
    /\ UNCHANGED <<way, diag, luLu, outVars, inVars>>

Next ==
    \/ \E lu \in LU : NewSession(lu)
    \/ \E s \in Session : SendScreen(s) \/ Write(s)
    \/ Reassemble \/ Overflow
    \/ ServerSends \/ Dequeue \/ ReadLink
    \/ LinkLost

Spec == Init /\ [][Next]_vars

(***************************************************************************)
(* Fairness: the gateway's goroutines run and SNA Server reads the link.   *)
(***************************************************************************)
FairSpec ==
    /\ Spec
    /\ \A s \in Session : WF_vars(Write(s))
    /\ WF_vars(Reassemble \/ Overflow)
    /\ WF_vars(Dequeue \/ ReadLink)

-----------------------------------------------------------------------------
(* Properties.                                                             *)

(***************************************************************************)
(* However the segments for different LUs interleave on the link, SNA      *)
(* Server puts together for each LU the screens that were sent to it, byte *)
(* for byte and in order ("SNA Server reassembles the segments into a      *)
(* single message", lusession.go), across a change of sessions as well, as *)
(* long as the old session of that LU has no screen under way when the new *)
(* one sends, which nothing in the code ensures.                           *)
(***************************************************************************)
ScreensReassembled ==
    \A lu \in LU \ mixed :
        /\ Len(shown[lu]) <= Len(screens[lu])
        /\ \A i \in DOMAIN shown[lu] : shown[lu][i] = [k \in 1 .. screens[lu][i] |-> k]

(***************************************************************************)
(* No PIU is empty, and what sendSSCPLU and BuildSSCPLUSegments cut does   *)
(* not exceed the BTU ("an oversized single PIU overflows the BTU and      *)
(* drops the whole link", lusession.go): what drops the link is a screen   *)
(* on the LU-LU path, or one that BuildSSCPLUData makes a PIU of, as the   *)
(* echo of a whole screen buffer is.                                       *)
(***************************************************************************)
PiusFit ==
    \A i \in DOMAIN wire :
        /\ SegLen(wire[i].seg) > 0
        /\ SegLen(wire[i].seg) > MaxSeg => wire[i].lu \in Unsegmented /\ wire[i].seg.mpf = "whole"

\* "SNA control flows, whose RUs don't contain that 2-byte pattern".
Clean(p) == \A j \in HdrLen + 1 .. Len(p) - 1 : ~StartsPiu(p, j)

(***************************************************************************)
(* However the kernel coalesces frames, the reader returns every byte SNA  *)
(* Server sent, in order, and the PIUs whole, what it has not returned     *)
(* being queued or in the kernel - until a PIU comes whose RU holds the    *)
(* pattern: it is cut in two, and what follows it may be swallowed, for    *)
(* the second half may be shorter than a header.                           *)
(***************************************************************************)
PiusIntact ==
    LET pius == read \o queue \o frames
        clean == {n \in 0 .. Len(sent) : \A i \in 1 .. n : Clean(sent[i])}
    IN  /\ FlattenSeq(pius) = FlattenSeq(sent)
        /\ \A n \in clean : SubSeq(pius, 1, n) = SubSeq(sent, 1, n)

(***************************************************************************)
(* A screen is shown in full, or the link is lost.                         *)
(***************************************************************************)
ScreenArrives ==
    \A lu \in LU :
        Len(screens[lu]) > Len(shown[lu]) ~> Len(screens[lu]) = Len(shown[lu]) \/ link = "down"

=============================================================================
