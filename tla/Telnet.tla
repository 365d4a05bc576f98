------------------------------- MODULE Telnet -------------------------------
(***************************************************************************)
(* The TN3270 client of src/internal/tn3270/tn3270.go at the end of a      *)
(* bridge: one goroutine reads records and negotiates telnet options on    *)
(* the way, another one writes records, with a header once tn3270e is set; *)
(* nothing synchronises the second one's look at tn3270e with the first    *)
(* one's setting it. The host is a TN3270 server: it offers TN3270E first  *)
(* if it knows it, else TERMINAL-TYPE, EOR and BINARY, and exchanges       *)
(* records once all of it is agreed. A host that knows TN3270E may have no *)
(* device of the type the client asks for: it rejects the request,         *)
(* withdraws TN3270E and goes on without.                                  *)
(*                                                                         *)
(* The TCP streams are sequences of bytes; a byte has the name of its      *)
(* telnet meaning, and means it only after IAC.                            *)
(***************************************************************************)
EXTENDS Naturals, SequencesExt

CONSTANTS
    Data,        \* bytes without a meaning to telnet
    Payload,     \* contents of a record
    MaxRecords,  \* bound: records the host sends
    MaxInputs    \* bound: records the client writes

Command == {"DO", "DONT", "WILL", "WONT"}
Option == {"TTYPE", "EOR", "BINARY", "TN3270E", "OTHER"}
DataType == {"data", "sscp", "bind"}
SubByte == {"SB", "SE", "SEND", "IS", "REJECT", "REQUEST", "FUNCTIONS", "DEVICE_TYPE"}
Byte == Data \cup Command \cup Option \cup DataType \cup SubByte \cup {"IAC", "0"}

\* A record begins with a 3270 command or an AID: neither has the code of a
\* TN3270E data type, 0x00 or 0x07.
ASSUME PayloadAssumption ==
    /\ Payload \subseteq Seq(Byte) /\ MaxRecords \in Nat /\ MaxInputs \in Nat
    /\ \A p \in Payload : p = <<>> \/ p[1] \notin {"data", "sscp"}

VARIABLES
    useE,       \* Options.TN3270E
    tn3270e,    \* Client.tn3270e
    agreed,     \* Client.binIn, binOut, eorIn and eorOut
    mode3270,   \* Client.mode3270
    rec,        \* the record readRawRecord is assembling
    got,        \* history: what ReadRecord has returned
    writing,    \* the record between WriteRecord's look at tn3270e and conn.Write
    typed,      \* history: what WriteRecord was given and the header it wrote
    toClient,   \* bytes from the host
    toHost,     \* bytes to the host
    host,       \* "basic"; "e": knows TN3270E; "rejects": but not the device type
    offered,    \* offers the host has made, in order
    replies,    \* replies it has read, in order
    asked,      \* subnegotiations it has begun
    answered,   \* subnegotiation answers it has read
    hostRec,    \* the record it is reading
    hostGot,    \* records it has read
    ignored,    \* records it has read too early
    hostSent    \* records it has sent, each with its header

clientVars == <<useE, tn3270e, agreed, mode3270, rec, got, writing, typed>>
hostVars == <<host, offered, replies, asked, answered, hostRec, hostGot, ignored, hostSent>>
vars == <<clientVars, hostVars, toClient, toHost>>

HeaderType == DataType \cup {"none"}
Record == HeaderType \X Payload
Flag == {"binIn", "binOut", "eorIn", "eorOut"}
Sub == {"ttype_send", "e_send", "e_is", "e_reject"}
Answer == {"ttype_is", "e_request", "e_functions"}
TypeOK ==
    /\ useE \in BOOLEAN /\ tn3270e \in BOOLEAN /\ mode3270 \in BOOLEAN
    /\ host \in {"basic", "e", "rejects"}
    /\ agreed \subseteq Flag
    /\ \A s \in {rec, hostRec, toClient, toHost} : s \in Seq(Byte)
    /\ \A i \in DOMAIN got : got[i] \in Payload
    /\ writing = <<>> \/ \E r \in Record : writing = <<r>>
    /\ typed \in Seq(Record) /\ hostSent \in Seq(Record)
    /\ offered \in Seq(Command \X Option) /\ replies \in Seq(Command \X Option)
    /\ asked \subseteq Sub /\ answered \subseteq Answer
    /\ ignored \in Nat

Init ==
    /\ useE \in BOOLEAN /\ host \in {"basic", "e", "rejects"}
    /\ tn3270e = FALSE /\ mode3270 = FALSE /\ agreed = {}
    /\ rec = <<>> /\ got = <<>> /\ writing = <<>> /\ typed = <<>> /\ toClient = <<>> /\ toHost = <<>>
    /\ offered = <<>> /\ replies = <<>> /\ asked = {} /\ answered = {}
    /\ hostRec = <<>> /\ hostGot = <<>> /\ ignored = 0 /\ hostSent = <<>>

-----------------------------------------------------------------------------
(* The telnet stream.                                                      *)

\* Length of the byte, command or subnegotiation at the head of a stream.
UnitLen(s) ==
    IF s[1] # "IAC" THEN 1
    ELSE IF s[2] \in Command THEN 3
    ELSE IF s[2] = "SB"
         THEN Min({j \in 4 .. Len(s) : s[j - 1] = "IAC" /\ s[j] = "SE"})
    ELSE 2

Unit(s) == SubSeq(s, 1, UnitLen(s))
AfterUnit(s) == SubSeq(s, UnitLen(s) + 1, Len(s))

\* Mutant of Escape: IAC in the data is not doubled.
EscapeNot(s) == s

Escape(s) == FlattenSeq([i \in DOMAIN s |-> IF s[i] = "IAC" THEN <<"IAC", "IAC">> ELSE << s[i] >>])

EndOfRecord == <<"IAC", "EOR">>
Header(type) == IF type = "none" THEN <<>> ELSE <<type, "0", "0", "0", "0">>
Subneg(bytes) == <<"IAC", "SB">> \o bytes \o <<"IAC", "SE">>

-----------------------------------------------------------------------------
(* The client.                                                             *)

NextUnit == IF toClient = <<>> THEN <<>> ELSE Unit(toClient)

DataByte ==
    /\ toClient # <<>>
    /\ \/ Len(NextUnit) = 1
       \/ NextUnit = <<"IAC", "IAC">>
    /\ rec' = Append(rec, NextUnit[Len(NextUnit)])
    /\ toClient' = AfterUnit(toClient)
    /\ UNCHANGED <<useE, tn3270e, agreed, mode3270, got, writing, typed, toHost, hostVars>>

\* Mutant of ReadRecord: the type of a TN3270E record is not looked at.
ReadRecordAny ==
    /\ NextUnit = EndOfRecord
    /\ IF tn3270e
       THEN got' = Append(got, SubSeq(rec, 6, Len(rec)))
       ELSE got' = Append(got, rec)
    /\ rec' = <<>>
    /\ toClient' = AfterUnit(toClient)
    /\ UNCHANGED <<useE, tn3270e, agreed, mode3270, writing, typed, toHost, hostVars>>

\* ReadRecord: in TN3270E mode the header is stripped and a record without
\* 3270 data is skipped.
ReadRecord ==
    /\ NextUnit = EndOfRecord
    /\ IF ~tn3270e
       THEN got' = Append(got, rec)
       ELSE IF Len(rec) >= 5 /\ rec[1] \in {"data", "sscp"}
       THEN got' = Append(got, SubSeq(rec, 6, Len(rec)))
       ELSE UNCHANGED got
    /\ rec' = <<>>
    /\ toClient' = AfterUnit(toClient)
    /\ UNCHANGED <<useE, tn3270e, agreed, mode3270, writing, typed, toHost, hostVars>>

\* The reply to an offer, <<>> for none.
Reply(cmd, opt) ==
    CASE cmd \notin {"DO", "WILL"} -> <<>>
      [] opt = "TTYPE" -> IF cmd = "DO" THEN <<"IAC", "WILL", opt>> ELSE <<>>
      [] cmd = "DO" /\ opt # "TTYPE" ->
            <<"IAC", IF opt = "OTHER" \/ (opt = "TN3270E" /\ ~useE) THEN "WONT" ELSE "WILL", opt>>
      [] OTHER ->
            <<"IAC", IF opt = "OTHER" \/ (opt = "TN3270E" /\ ~useE) THEN "DONT" ELSE "DO", opt>>

\* Mutant of Agrees: what is agreed for one direction counts for both.
AgreesBoth(cmd, opt) ==
    CASE opt = "EOR"    /\ cmd \in {"DO", "WILL"} -> {"eorOut", "eorIn"}
      [] opt = "BINARY" /\ cmd \in {"DO", "WILL"} -> {"binOut", "binIn"}
      [] OTHER -> {}

\* The flags an offer sets.
Agrees(cmd, opt) ==
    CASE opt = "EOR"    /\ cmd = "DO"   -> {"eorOut"}
      [] opt = "EOR"    /\ cmd = "WILL" -> {"eorIn"}
      [] opt = "BINARY" /\ cmd = "DO"   -> {"binOut"}
      [] opt = "BINARY" /\ cmd = "WILL" -> {"binIn"}
      [] OTHER -> {}

\* The options whose offer sets tn3270e.
SetsTn3270e(cmd, opt) == useE /\ opt = "TN3270E" /\ cmd \in {"DO", "WILL"}

\* handleNegotiation sets tn3270e before it writes its reply, and the other
\* goroutine may look at it in between.
AcceptTn3270e ==
    /\ Len(NextUnit) = 3 /\ SetsTn3270e(NextUnit[2], NextUnit[3])
    /\ ~tn3270e
    /\ tn3270e' = TRUE
    /\ UNCHANGED <<useE, agreed, mode3270, rec, got, writing, typed, toClient, toHost, hostVars>>

\* Mutant of HandleNegotiation: a refusal is answered as well.
HandleNegotiationAll ==
    /\ Len(NextUnit) = 3 /\ NextUnit[2] \in Command
    /\ LET cmd == NextUnit[2]
           opt == NextUnit[3]
       IN  /\ SetsTn3270e(cmd, opt) => tn3270e
           /\ toHost' = toHost \o (IF cmd = "DONT" THEN <<"IAC", "WONT", opt>> ELSE Reply(cmd, opt))
           /\ agreed' = agreed \cup Agrees(cmd, opt)
    /\ mode3270' = (mode3270 \/ agreed' = Flag)
    /\ toClient' = AfterUnit(toClient)
    /\ UNCHANGED <<useE, tn3270e, rec, got, writing, typed, hostVars>>

HandleNegotiation ==
    /\ Len(NextUnit) = 3 /\ NextUnit[2] \in Command
    /\ LET cmd == NextUnit[2]
           opt == NextUnit[3]
       IN  /\ SetsTn3270e(cmd, opt) => tn3270e
           /\ toHost' = toHost \o Reply(cmd, opt)
           /\ agreed' = agreed \cup Agrees(cmd, opt)
    /\ mode3270' = (mode3270 \/ agreed' = Flag)
    /\ toClient' = AfterUnit(toClient)
    /\ UNCHANGED <<useE, tn3270e, rec, got, writing, typed, hostVars>>

\* Mutant of SubAnswer: FUNCTIONS is not requested.
SubAnswerNoFunctions(sub) ==
    CASE sub = <<"TTYPE", "SEND">>   -> Subneg(<<"TTYPE", "IS">>)
      [] sub = <<"TN3270E", "SEND">> -> Subneg(<<"TN3270E", "REQUEST">>)
      [] OTHER -> <<>>

\* The answer to a subnegotiation: TERMINAL-TYPE SEND, TN3270E SEND
\* DEVICE-TYPE, TN3270E DEVICE-TYPE, be it IS or REJECT.
SubAnswer(sub) ==
    CASE sub = <<"TTYPE", "SEND">>   -> Subneg(<<"TTYPE", "IS">>)
      [] sub = <<"TN3270E", "SEND">> -> Subneg(<<"TN3270E", "REQUEST">>)
      [] SubSeq(sub, 1, 2) = <<"TN3270E", "DEVICE_TYPE">> -> Subneg(<<"TN3270E", "FUNCTIONS">>)
      [] OTHER -> <<>>

HandleSubnegotiation ==
    /\ Len(NextUnit) > 4 /\ NextUnit[2] = "SB"
    /\ toHost' = toHost \o SubAnswer(SubSeq(NextUnit, 3, Len(NextUnit) - 2))
    /\ toClient' = AfterUnit(toClient)
    /\ UNCHANGED <<clientVars, hostVars>>

\* The goroutine terminal -> host writes whenever the terminal has typed: it
\* looks at tn3270e, and puts the record on the stream later.
WriteRecord ==
    /\ writing = <<>>
    /\ Len(typed) < MaxInputs
    /\ \E p \in Payload : writing' = << <<IF tn3270e THEN "data" ELSE "none", p>> >>
    /\ UNCHANGED <<useE, tn3270e, agreed, mode3270, rec, got, typed, hostVars, toClient, toHost>>

SendRecord ==
    /\ writing # <<>>
    /\ LET w == writing[1]
       IN  /\ typed' = Append(typed, w)
           /\ toHost' = toHost \o Header(w[1]) \o Escape(w[2]) \o EndOfRecord
    /\ writing' = <<>>
    /\ UNCHANGED <<useE, tn3270e, agreed, mode3270, rec, got, hostVars, toClient>>

-----------------------------------------------------------------------------
(* The host.                                                               *)

BasicOffers ==
    << <<"WILL", "OTHER">>, <<"DONT", "OTHER">>, <<"DO", "TTYPE">>, <<"DO", "EOR">>,
       <<"WILL", "EOR">>, <<"DO", "BINARY">>, <<"WILL", "BINARY">> >>

Rejected == "e_reject" \in asked

Offers ==
    CASE host = "basic" -> BasicOffers
      [] Rejected       -> << <<"DO", "TN3270E">>, <<"DONT", "TN3270E">> >> \o BasicOffers
      [] OTHER          -> << <<"DO", "TN3270E">> >> \o BasicOffers

Replied(cmd, opt) == <<cmd, opt>> \in ToSet(replies)

\* Without TN3270E; with it once the client has refused it or the host the
\* device type.
HostOffers ==
    /\ Len(offered) < Len(Offers)
    /\ host # "basic" /\ offered # <<>> => Replied("WONT", "TN3270E") \/ Rejected
    /\ LET offer == Offers[Len(offered) + 1]
       IN  /\ offered' = Append(offered, offer)
           /\ toClient' = toClient \o << "IAC", offer[1], offer[2] >>
    /\ UNCHANGED <<clientVars, toHost, host, replies, asked, answered, hostRec, hostGot,
                   ignored, hostSent>>

SubRequest(sub) ==
    CASE sub = "ttype_send" -> <<"TTYPE", "SEND">>
      [] sub = "e_send"     -> <<"TN3270E", "SEND">>
      [] sub = "e_is"       -> <<"TN3270E", "DEVICE_TYPE", "IS">>
      [] sub = "e_reject"   -> <<"TN3270E", "DEVICE_TYPE", "REJECT">>

HostAsks ==
    /\ \E sub \in Sub \ asked :
          /\ CASE sub = "ttype_send" -> Replied("WILL", "TTYPE")
               [] sub = "e_send"     -> Replied("WILL", "TN3270E")
               [] sub = "e_is"       -> host = "e" /\ "e_request" \in answered
               [] sub = "e_reject"   -> host = "rejects" /\ "e_request" \in answered
          /\ asked' = asked \cup {sub}
          /\ toClient' = toClient \o Subneg(SubRequest(sub))
    /\ UNCHANGED <<clientVars, toHost, host, offered, replies, answered, hostRec, hostGot,
                   ignored, hostSent>>

EMode == host = "e" /\ "e_functions" \in answered
BasicMode ==
    /\ "ttype_is" \in answered
    /\ \A opt \in {"EOR", "BINARY"} : Replied("WILL", opt) /\ Replied("DO", opt)
DataMode == EMode \/ BasicMode

HostSends ==
    /\ DataMode
    /\ Len(hostSent) < MaxRecords
    /\ \E p \in Payload, type \in IF EMode THEN DataType ELSE {"none"} :
          /\ hostSent' = Append(hostSent, <<type, p>>)
          /\ toClient' = toClient \o Header(type) \o Escape(p) \o EndOfRecord
    /\ UNCHANGED <<clientVars, toHost, host, offered, replies, asked, answered, hostRec,
                   hostGot, ignored>>

HostUnit == IF toHost = <<>> THEN <<>> ELSE Unit(toHost)

SubOf(unit) ==
    CASE unit = Subneg(<<"TTYPE", "IS">>)          -> {"ttype_is"}
      [] unit = Subneg(<<"TN3270E", "REQUEST">>)   -> {"e_request"}
      [] unit = Subneg(<<"TN3270E", "FUNCTIONS">>) -> {"e_functions"}
      [] OTHER -> {}

HostReads ==
    /\ toHost # <<>>
    /\ toHost' = AfterUnit(toHost)
    /\ answered' = answered \cup SubOf(HostUnit)
    /\ replies' = IF Len(HostUnit) = 3
                  THEN Append(replies, <<HostUnit[2], HostUnit[3]>>) ELSE replies
    /\ hostRec' = IF Len(HostUnit) = 1 \/ HostUnit = <<"IAC", "IAC">>
                  THEN Append(hostRec, HostUnit[Len(HostUnit)])
                  ELSE IF HostUnit = EndOfRecord THEN <<>> ELSE hostRec
    /\ IF HostUnit = EndOfRecord /\ DataMode
       THEN hostGot' = Append(hostGot, IF EMode THEN SubSeq(hostRec, 6, Len(hostRec)) ELSE hostRec)
       ELSE UNCHANGED hostGot
    /\ ignored' = IF HostUnit = EndOfRecord /\ ~DataMode THEN ignored + 1 ELSE ignored
    /\ UNCHANGED <<clientVars, toClient, host, offered, asked, hostSent>>

ClientReads ==
    DataByte \/ ReadRecord \/ AcceptTn3270e \/ HandleNegotiation \/ HandleSubnegotiation

Next == ClientReads \/ WriteRecord \/ SendRecord \/ HostOffers \/ HostAsks \/ HostSends \/ HostReads

Spec == Init /\ [][Next]_vars

(***************************************************************************)
(* Fairness: the reading goroutine runs; the host reads and goes through   *)
(* its part of the negotiation.                                            *)
(***************************************************************************)
FairSpec ==
    /\ Spec
    /\ WF_vars(ClientReads)
    /\ WF_vars(HostReads)
    /\ WF_vars(HostOffers)
    /\ WF_vars(HostAsks)

-----------------------------------------------------------------------------
(* Properties.                                                             *)

\* The elements of s that are in S, in order.
Chosen(s, S) == FlattenSeq([i \in DOMAIN s |-> IF s[i] \in S THEN <<s[i]>> ELSE <<>>])

(***************************************************************************)
(* Every offer is answered once and in order, accepted or refused, and a   *)
(* refusal is not answered: client and host never answer each other's      *)
(* answers for ever.                                                       *)
(***************************************************************************)
Opposite(cmd) == IF cmd = "DO" THEN {"WILL", "WONT"} ELSE {"DO", "DONT"}
Open == {"DO", "WILL"} \X Option

OffersAnswered ==
    LET open == Chosen(offered, Open)
    IN  /\ Len(replies) <= Len(open)
        /\ \A i \in DOMAIN replies :
               replies[i][1] \in Opposite(open[i][1]) /\ replies[i][2] = open[i][2]
        /\ toClient = <<>> /\ toHost = <<>> => Len(replies) = Len(open)

(***************************************************************************)
(* Client and host agree: when the host begins to exchange records the     *)
(* client has noted EOR and BINARY in both directions, or TN3270E, and     *)
(* only what the host offered for a direction counts for it.  The one      *)
(* disagreement is with a host that rejected the device type, since        *)
(* nothing resets tn3270e (tn3270.go:177, and DONT is not looked at).      *)
(***************************************************************************)
Noted(flag, offer) == flag \in agreed => offer \in ToSet(offered)

Agreement ==
    /\ EMode => tn3270e
    /\ BasicMode => mode3270 /\ tn3270e = Rejected
    /\ Noted("eorOut", <<"DO", "EOR">>) /\ Noted("eorIn", <<"WILL", "EOR">>)
    /\ Noted("binOut", <<"DO", "BINARY">>) /\ Noted("binIn", <<"WILL", "BINARY">>)

(***************************************************************************)
(* The terminal is sent the contents of the host's 3270 records, IAC bytes *)
(* and all, in order, none is lost, and nothing of TN3270E's header and    *)
(* control records is sent - save that of a host that rejected the device  *)
(* type it is sent nothing, and no part of a record either.                *)
(***************************************************************************)
Is3270 == {"none", "data", "sscp"} \X Payload

RecordsRead ==
    LET data == IF Rejected THEN <<>> ELSE Chosen(hostSent, Is3270)
    IN  /\ Len(got) <= Len(data) /\ \A i \in DOMAIN got : got[i] = data[i][2]
        /\ toClient = <<>> => Len(got) = Len(data)

(***************************************************************************)
(* The host gets what the terminal typed, in order, and only what it typed *)
(* before the host was ready is lost - save that the first record the host *)
(* takes may have been begun before tn3270e was set and written after it:  *)
(* it has no header, and a host in TN3270E mode takes its first five bytes *)
(* for one (WriteRecord says "In TN3270E mode it prepends a 3270-DATA      *)
(* message header").  A host that rejected the device type gets every      *)
(* record but such a one behind a header it does not expect.               *)
(***************************************************************************)
Late(k) == tn3270e /\ typed[k][1] = "none"

RecordsWritten ==
    /\ ignored + Len(hostGot) <= Len(typed)
    /\ \A i \in DOMAIN hostGot :
          LET p == typed[ignored + i][2]
          IN  IF Late(ignored + i)
              THEN i = 1 /\ hostGot[i] = IF Rejected THEN p ELSE SubSeq(p, 6, Len(p))
              ELSE hostGot[i] = Header(IF Rejected THEN "data" ELSE "none") \o p
    /\ toHost = <<>> => ignored + Len(hostGot) = Len(typed)

(***************************************************************************)
(* The negotiation comes to its end, whether each side knows TN3270E.      *)
(***************************************************************************)
NegotiationEnds == <>DataMode

=============================================================================
