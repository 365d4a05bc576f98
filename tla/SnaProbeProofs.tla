--------------------------- MODULE SnaProbeProofs ---------------------------
(***************************************************************************)
(* Proofs about the main goroutine of sna-probe, for every set of LUs,     *)
(* every -lus list, every set of mode flags and every bound.               *)
(***************************************************************************)
EXTENDS SnaProbe, SequenceTheorems, Lemmas, TLAPS

-----------------------------------------------------------------------------
(* Type correctness.                                                       *)

\* While a request is being served, cur is the terminal it came from.
Serving == {"deliver", "bind_wait", "sweep_wait", "sdt_wait"}

\* The part of the invariant that is about the gateway's own variables.
ProbeTypeOK ==
    /\ pc \in Location /\ idx \in Nat \ {0} /\ snf \in Snf /\ bound \in BOOLEAN
    /\ cur \in Terminal \cup {NoTerminal} /\ sweepLeft \in Nat
    /\ sessions \in Seq(LU2Session) /\ session \in 0 .. Len(sessions)
    /\ menu \in [LU -> Nat] /\ fileSnf \in [LU -> Snf]
    /\ pc \in Serving => cur \in Terminal

TypeInv == ServerTypeOK /\ ProbeTypeOK

Inbound == Request \cup Response

\* Incrementing keeps a sequence number in its range.
LEMMA IncType == \A n \in Snf : Inc(n) \in Snf
  BY SnfAssumption DEF Inc, Snf

\* A function keeps its type when one value changes within its range, also
\* when the change is at a point outside its domain.
LEMMA ExceptType ==
  ASSUME NEW D, NEW R, NEW f \in [D -> R], NEW x, NEW e, x \in D => e \in R
  PROVE  [f EXCEPT ![x] = e] \in [D -> R]
  OBVIOUS

\* The link carries outbound PIUs, whether the write succeeds or not.
LEMMA SentType ==
  ASSUME NEW pius \in Seq(Outbound), NEW piu \in Outbound
  PROVE  Sent(pius, piu) \in Seq(Outbound)
  BY DEF Sent

\* A PIU built with a legal type, address and number is a legal one.
LEMMA PiuType ==
  ASSUME NEW type \in {"ACTPU", "ACTLU", "BIND", "SDT", "DATA", "RSP"},
         NEW lu \in LU \cup {PU}, NEW n \in Snf
  PROVE  Piu(type, lu, n) \in Outbound
  BY DEF Piu, Outbound, Snf

\* What is read from the link is a request or a response.
LEMMA HeadType ==
  ASSUME ServerTypeOK, toGw # <<>>
  PROVE  /\ Head(toGw) \in Inbound
         /\ Tail(toGw) \in Seq(Inbound)
         /\ IsRequest(Head(toGw)) =>
               /\ Head(toGw) \in Request
               /\ PositiveRsp(Head(toGw)) \in Outbound
  <1>1. Head(toGw) \in Inbound /\ Tail(toGw) \in Seq(Inbound)
    BY HeadTailProperties DEF ServerTypeOK, Inbound
  <1>2. ASSUME IsRequest(Head(toGw)) PROVE Head(toGw) \in Request
    BY <1>1, <1>2 DEF Inbound, Request, Response, IsRequest
  <1>3. ASSUME Head(toGw) \in Request PROVE PositiveRsp(Head(toGw)) \in Outbound
    BY <1>3, SnfAssumption DEF Request, PositiveRsp, Piu, Outbound
  <1> QED BY <1>1, <1>2, <1>3

\* A step of the gateway that writes legal PIUs keeps the server's types.
LEMMA GatewayStepType ==
  ASSUME ServerTypeOK,
         Recv \/ UNCHANGED <<toGw, link, serverVars>>,
         toSrv' \in Seq(Outbound)
  PROVE  ServerTypeOK'
  BY HeadType DEF ServerTypeOK, Recv, serverVars, Inbound

\* The initial state has the types the invariant claims.
LEMMA InitType == Init => TypeInv
  <1> SUFFICES ASSUME Init PROVE TypeInv
    OBVIOUS
  <1>1. ServerTypeOK
    BY SnfAssumption, MaxRequestsAssumption DEF Init, ServerInit, ServerTypeOK
  <1>2. pc \in Location /\ bound \in BOOLEAN /\ cur \in Terminal \cup {NoTerminal}
    BY DEF Init, Location, Waiting
  <1>6. idx \in Nat \ {0} /\ sweepLeft \in Nat /\ menu \in [LU -> Nat]
    BY DEF Init
  <1>3. snf \in Snf /\ fileSnf \in [LU -> Snf]
    BY SnfAssumption DEF Init, Snf
  <1>4. sessions \in Seq(LU2Session) /\ session \in 0 .. Len(sessions)
    BY EmptySeq DEF Init
  <1>5. pc \notin Serving
    BY DEF Init, Serving
  <1> QED BY <1>1, <1>2, <1>3, <1>4, <1>5, <1>6 DEF TypeInv, ProbeTypeOK

\* Every step of SNA Server and of the link keeps its types.
LEMMA ServerStepType == ServerTypeOK /\ ServerNext => ServerTypeOK'
  <1> SUFFICES ASSUME ServerTypeOK, ServerNext PROVE ServerTypeOK'
    OBVIOUS
  <1> USE DEF ServerTypeOK
  <1>1. ASSUME NEW lu \in LU, NEW type \in RequestType, NEW att \in Nat, Originate(lu, type, att)
        PROVE  /\ toGw' \in Seq(Request \cup Response)
               /\ owed' \in [LU -> RequestType \cup {"none"}]
               /\ requests' \in 0 .. MaxRequests
               /\ toSrv' = toSrv /\ link' = link /\ lastSnf' = lastSnf
    <2>1. [rri |-> "request", type |-> type, lu |-> lu, att |-> att] \in Request
      BY DEF Request
    <2> QED BY <1>1, <2>1, MaxRequestsAssumption DEF Originate
  <1>2. ASSUME NEW lu \in LU, NotifyIdle(lu) PROVE ServerTypeOK'
    <2>1. attachNo[lu] \in Nat /\ "NOTIFY01" \in RequestType
      BY DEF RequestType
    <2> QED BY <1>1, <1>2, <2>1 DEF NotifyIdle
  <1>3. ASSUME NEW lu \in LU, NotifyReady(lu) PROVE ServerTypeOK'
    <2>1. attachNo[lu] + 1 \in Nat /\ due[lu] + 1 \in Nat /\ "NOTIFY03" \in RequestType
      BY DEF RequestType
    <2> QED BY <1>1, <1>3, <2>1 DEF NotifyReady
  <1>4. ASSUME NEW lu \in LU, TypeLine(lu) PROVE ServerTypeOK'
    <2>1. attachNo[lu] \in Nat /\ due[lu] + 1 \in Nat /\ "LINE" \in RequestType
      BY DEF RequestType
    <2> QED BY <1>1, <1>4, <2>1 DEF TypeLine
  <1>5. ASSUME NEW lu \in LU, SendUnbind(lu) PROVE ServerTypeOK'
    <2>1. attachNo[lu] \in Nat /\ "UNBIND" \in RequestType
      BY DEF RequestType
    <2> QED BY <1>1, <1>5, <2>1 DEF SendUnbind
  <1>6. ASSUME NEW type, Receive(type)
        PROVE  /\ Head(toSrv) \in Outbound /\ toSrv' \in Seq(Outbound)
               /\ link' = link /\ requests' = requests
    BY <1>6, HeadTailProperties DEF Receive
  <1>7. ASSUME NEW type \in {"ACTPU", "ACTLU", "BIND", "SDT", "FMD"},
               NEW lu \in LU \cup {PU}, NEW pos \in BOOLEAN
        PROVE  Append(toGw, Rsp(type, lu, pos)) \in Seq(Request \cup Response)
    BY DEF Rsp, Response
  <1>8. CASE ReceiveActPU
    BY <1>6, <1>7, <1>8, ZenonT(60) DEF ReceiveActPU
  <1>9. CASE ReceiveActLU
    <2>1. Receive("ACTLU") /\ Head(toSrv).lu \in LU \cup {PU}
      BY <1>6, <1>9 DEF ReceiveActLU, Outbound
    <2>2. toGw' \in Seq(Request \cup Response)
      BY <1>7, <1>9, <2>1, ZenonT(60) DEF ReceiveActLU
    <2>3. luState' \in [LU -> {"inactive", "starting", "idle", "attached"}]
      BY <1>9 DEF ReceiveActLU
    <2>4. attachNo' = attachNo \/ attachNo' = [attachNo EXCEPT ![Head(toSrv).lu] = @ + 1]
      BY <1>9 DEF ReceiveActLU
    <2>5. [attachNo EXCEPT ![Head(toSrv).lu] = @ + 1] \in [LU -> Nat]
      <3> DEFINE lu == Head(toSrv).lu
      <3>1. lu \in LU => attachNo[lu] + 1 \in Nat
        OBVIOUS
      <3>2. attachNo \in [LU -> Nat]
        OBVIOUS
      <3> HIDE DEF lu
      <3>3. [attachNo EXCEPT ![lu] = attachNo[lu] + 1] \in [LU -> Nat]
        BY ONLY <3>1, <3>2, ExceptType
      <3> QED BY <3>3 DEF lu
    <2> QED BY <1>6, <1>9, <2>1, <2>2, <2>3, <2>4, <2>5 DEF ReceiveActLU
  <1>10. CASE ReceiveRsp
    BY <1>6, <1>10 DEF ReceiveRsp
  <1>11. CASE ReceiveData
    <2>1. /\ Receive("DATA") /\ Head(toSrv).lu \in LU \cup {PU}
          /\ Head(toSrv).snf \in 0 .. SnfMod - 1
      BY <1>6, <1>11 DEF ReceiveData, Outbound
    <2>2. lastSnf' \in [LU -> 0 .. SnfMod - 1]
      BY <1>11, <2>1 DEF ReceiveData
    <2>3. due' = [due EXCEPT ![Head(toSrv).lu] = IF @ > 0 THEN @ - 1 ELSE 0]
      BY <1>11 DEF ReceiveData
    <2>4. due' \in [LU -> Nat]
      <3> DEFINE lu == Head(toSrv).lu
                 left == IF due[lu] > 0 THEN due[lu] - 1 ELSE 0
      <3>1. lu \in LU => left \in Nat
        OBVIOUS
      <3>2. due \in [LU -> Nat]
        OBVIOUS
      <3> HIDE DEF lu, left
      <3>3. [due EXCEPT ![lu] = left] \in [LU -> Nat]
        BY ONLY <3>1, <3>2, ExceptType
      <3> QED BY <2>3, <3>3 DEF lu, left
    <2> QED BY <1>6, <1>7, <1>11, <2>1, <2>2, <2>4 DEF ReceiveData
  <1>12. CASE ReceiveBind
    <2>1. Receive("BIND") /\ Head(toSrv).lu \in LU \cup {PU}
      BY <1>6, <1>12 DEF ReceiveBind, Outbound
    <2> QED BY <1>6, <1>7, <1>12, <2>1, ZenonT(60) DEF ReceiveBind
  <1>13. CASE ReceiveSdt
    <2>1. Receive("SDT") /\ Head(toSrv).lu \in LU \cup {PU}
      BY <1>6, <1>13 DEF ReceiveSdt, Outbound
    <2>2. (lulu[Head(toSrv).lu] = "bound") \in BOOLEAN
      OBVIOUS
    <2> QED BY <1>6, <1>7, <1>13, <2>1, <2>2 DEF ReceiveSdt
  <1>14. CASE LinkLost
    BY <1>14 DEF LinkLost, serverVars
  <1> QED BY <1>2, <1>3, <1>4, <1>5, <1>8, <1>9, <1>10, <1>11, <1>12, <1>13, <1>14
          DEF ServerNext, ServerReceives, ServerOriginates

\* The steps that activate the PU and the LUs keep the types.
LEMMA ActivationType == TypeInv /\ Activation => TypeInv'
  <1> SUFFICES ASSUME ServerTypeOK, ProbeTypeOK, Activation PROVE ServerTypeOK' /\ ProbeTypeOK'
    BY DEF TypeInv
  <1> USE DEF Location, Waiting, Serving
  <1>1. Inc(snf) \in Snf /\ toSrv \in Seq(Outbound)
    BY IncType DEF ProbeTypeOK, ServerTypeOK
  <1>2. CASE SendActPU
    <2>1. Piu("ACTPU", PU, snf) \in Outbound
      BY PiuType DEF ProbeTypeOK
    <2>2. toSrv' \in Seq(Outbound)
      BY <1>1, <1>2, <2>1, SentType DEF SendActPU
    <2> QED BY <1>2, <2>2, GatewayStepType DEF SendActPU, ProbeTypeOK
  <1>3. CASE RecvActPU
    BY <1>1, <1>3, GatewayStepType DEF RecvActPU, ProbeTypeOK
  <1>4. CASE ActPUTimeout
    <2>1. ServerTypeOK'
      BY <1>4 DEF ActPUTimeout, Exit, ServerTypeOK, serverVars
    <2> QED BY <1>4, <2>1 DEF ActPUTimeout, Exit, ProbeTypeOK
  <1>5. CASE SendActLU
    <2>1. LuList[idx] \in LU
      BY <1>5, LuListAssumption, ElementOfSeq DEF SendActLU, ProbeTypeOK
    <2>2. Piu("ACTLU", LuList[idx], Inc(snf)) \in Outbound
      BY <1>1, <2>1, PiuType
    <2>3. toSrv' \in Seq(Outbound)
      BY <1>1, <1>5, <2>2, SentType DEF SendActLU
    <2> QED BY <1>1, <1>5, <2>3, GatewayStepType DEF SendActLU, ProbeTypeOK
  <1>6. CASE ActivationDone
    <2>1. ServerTypeOK'
      BY <1>6 DEF ActivationDone, ServerTypeOK, serverVars, linkVars
    <2> QED BY <1>6, <2>1 DEF ActivationDone, ProbeTypeOK
  <1>7. CASE RecvAck
    <2>1. IsRequest(Head(toGw)) => PositiveRsp(Head(toGw)) \in Outbound
      BY <1>7, HeadType DEF RecvAck, Recv
    <2>2. toSrv' \in Seq(Outbound)
      BY <1>1, <1>7, <2>1, SentType DEF RecvAck
    <2> QED BY <1>7, <2>2, GatewayStepType DEF RecvAck, ProbeTypeOK
  <1>8. CASE AckTimeout
    <2>1. ServerTypeOK'
      BY <1>8 DEF AckTimeout, RecvTimeout, ServerTypeOK, serverVars
    <2> QED BY <1>8, <2>1 DEF AckTimeout, ProbeTypeOK
  <1> QED BY <1>2, <1>3, <1>4, <1>5, <1>6, <1>7, <1>8 DEF Activation

\* Appending a new bridge session, or failing to dial, keeps the types.
LEMMA StartBridgeType ==
  ASSUME ProbeTypeOK, NEW lu \in LU, NEW att \in Nat, NEW sscp \in BOOLEAN,
         StartBridge(lu, att, sscp)
  PROVE  sessions' \in Seq(LU2Session) /\ session' \in 0 .. Len(sessions')
  <1>1. NewSession(lu, att, sscp) \in LU2Session
    <2>1. 0 \in Snf
      BY SnfAssumption DEF Snf
    <2>2. <<>> \in Seq(Terminal)
      BY EmptySeq
    <2> QED BY <2>1, <2>2 DEF NewSession, LU2Session
  <1>2. CASE sessions' = Append(sessions, NewSession(lu, att, sscp)) /\ session' = Len(sessions) + 1
    BY <1>1, <1>2, AppendProperties, LenProperties DEF ProbeTypeOK
  <1>3. CASE session' = 0 /\ UNCHANGED sessions
    BY <1>3, LenProperties DEF ProbeTypeOK
  <1> QED BY <1>2, <1>3 DEF StartBridge

\* The steps that wait inside the observe loop keep the types.
LEMMA InnerWaitType == TypeInv /\ InnerWait => TypeInv'
  <1> SUFFICES ASSUME ServerTypeOK, ProbeTypeOK, InnerWait PROVE ServerTypeOK' /\ ProbeTypeOK'
    BY DEF TypeInv
  <1> USE DEF Location, Waiting, Serving
  <1>1. Inc(snf) \in Snf /\ toSrv \in Seq(Outbound)
    BY IncType DEF ProbeTypeOK, ServerTypeOK
  <1>2. pc \in Serving => cur.lu \in LU /\ cur.att \in Nat
    BY DEF ProbeTypeOK, Terminal
  <1>3. ASSUME pc \in Serving PROVE Piu("SDT", cur.lu, Inc(snf)) \in Outbound
                                    /\ Piu("BIND", cur.lu, Inc(snf)) \in Outbound
    BY <1>1, <1>2, <1>3, PiuType
  <1>4. CASE Deliver
    <2>1. ServerTypeOK'
      BY <1>4 DEF Deliver, ServerTypeOK, serverVars, linkVars
    <2>2. sessions' \in Seq(LU2Session) /\ Len(sessions') = Len(sessions)
      <3> DEFINE s == sessions[session]
                 t == [s EXCEPT !.inbound = Append(@, cur)]
      <3>1. CASE UNCHANGED sessions
        BY <3>1 DEF ProbeTypeOK
      <3>2. CASE sessions' = [sessions EXCEPT ![session] = t]
        <4>1. CASE session = 0
          <5>1. sessions' = sessions
            BY <3>2, <4>1, LenProperties DEF ProbeTypeOK
          <5> QED BY <5>1 DEF ProbeTypeOK
        <4>2. CASE session \in 1 .. Len(sessions)
          <5>1. s \in LU2Session
            BY <4>2, ElementOfSeq DEF ProbeTypeOK
          <5>2. t \in LU2Session
            BY <1>2, <1>4, <5>1, AppendProperties DEF LU2Session, Deliver, ProbeTypeOK
          <5> HIDE DEF t
          <5> QED BY <3>2, <4>2, <5>2, ExceptSeq DEF ProbeTypeOK
        <4> QED BY <4>1, <4>2, LenProperties DEF ProbeTypeOK
      <3> QED BY <1>4, <3>1, <3>2 DEF Deliver
    <2> QED BY <1>4, <2>1, <2>2 DEF Deliver, ProbeTypeOK
  <1>5. CASE RecvBindRsp
    <2>1. toSrv' \in Seq(Outbound)
      BY <1>1, <1>3, <1>5, SentType DEF RecvBindRsp
    <2> QED BY <1>1, <1>5, <2>1, GatewayStepType DEF RecvBindRsp, ProbeTypeOK
  <1>6. CASE BindTimeout
    <2>1. ServerTypeOK'
      BY <1>6 DEF BindTimeout, RecvTimeout, ServerTypeOK, serverVars
    <2> QED BY <1>6, <2>1 DEF BindTimeout, ProbeTypeOK
  <1>7. CASE SdtDone
    <2>1. ServerTypeOK'
      BY <1>1, <1>7, GatewayStepType DEF SdtDone, RecvTimeout, Recv
    <2>2. sessions' \in Seq(LU2Session) /\ session' \in 0 .. Len(sessions')
      BY <1>2, <1>7, StartBridgeType DEF SdtDone, ProbeTypeOK
    <2> QED BY <1>7, <2>1, <2>2 DEF SdtDone, ProbeTypeOK
  <1>8. CASE SweepAccepted
    BY <1>1, <1>8, GatewayStepType DEF SweepAccepted, ProbeTypeOK
  <1>9. CASE SweepNext
    <2>1. toSrv' \in Seq(Outbound)
      BY <1>1, <1>3, <1>9, SentType DEF SweepNext
    <2>2. ServerTypeOK'
      BY <1>9, <2>1, GatewayStepType DEF SweepNext, RecvTimeout, Recv
    <2> QED BY <1>1, <1>9, <2>2 DEF SweepNext, ProbeTypeOK
  <1> QED BY <1>4, <1>5, <1>6, <1>7, <1>8, <1>9 DEF InnerWait

\* What a step of the observe loop reads and writes is well typed.
LEMMA ObserveReads ==
  ASSUME ServerTypeOK, ProbeTypeOK, NEW type, Observe(type)
  PROVE  /\ Head(toGw).lu \in LU /\ Head(toGw).att \in Nat
         /\ Acked \in Seq(Outbound)
         /\ \A n \in Snf : SendData(n) => toSrv' \in Seq(Outbound)
         /\ Recv
  <1>1. Head(toGw) \in Request /\ PositiveRsp(Head(toGw)) \in Outbound /\ Recv
    BY HeadType DEF Observe, Recv
  <1>2. Acked \in Seq(Outbound)
    BY <1>1, SentType DEF Acked, ServerTypeOK
  <1>3. Head(toGw).lu \in LU /\ Head(toGw).att \in Nat
    BY <1>1 DEF Request
  <1>4. \A n \in Snf : Piu("DATA", Head(toGw).lu, n) \in Outbound
    BY <1>3, PiuType
  <1> QED BY <1>1, <1>2, <1>3, <1>4, SentType DEF SendData

\* The observe loop keeps the types.
LEMMA ObserveLoopType == TypeInv /\ ObserveLoop => TypeInv'
  <1> SUFFICES ASSUME ServerTypeOK, ProbeTypeOK, ObserveLoop PROVE ServerTypeOK' /\ ProbeTypeOK'
    BY DEF TypeInv
  <1> USE DEF Location, Waiting, Serving
  <1>1. Inc(snf) \in Snf /\ toSrv \in Seq(Outbound)
    BY IncType DEF ProbeTypeOK, ServerTypeOK
  <1>2. CASE Discard
    <2>1. ServerTypeOK'
      BY <1>1, <1>2, GatewayStepType DEF Discard
    <2> QED BY <1>2, <2>1 DEF Discard, ProbeTypeOK, probeVars, loopVars
  <1>3. CASE TearDown
    <2>1. ServerTypeOK'
      BY <1>3, ObserveReads, GatewayStepType DEF TearDown
    <2>2. session \in 1 .. Len(sessions)
      BY <1>3, LenProperties DEF TearDown, ProbeTypeOK
    <2>3. [sessions[session] EXCEPT !.closed = TRUE] \in LU2Session
      <3>1. sessions[session] \in LU2Session
        BY <2>2, ElementOfSeq DEF ProbeTypeOK
      <3> QED BY <3>1 DEF LU2Session
    <2>4. sessions' \in Seq(LU2Session)
      BY <1>3, <2>2, <2>3, ExceptSeq DEF TearDown, ProbeTypeOK
    <2>5. session' \in 0 .. Len(sessions')
      BY <1>3, <2>4, LenProperties DEF TearDown
    <2> QED BY <1>3, <2>1, <2>4, <2>5 DEF TearDown, ProbeTypeOK, loopVars
  <1>4. CASE MenuIdle
    <2>1. ServerTypeOK' /\ Head(toGw).lu \in LU
      BY <1>4, ObserveReads, GatewayStepType DEF MenuIdle
    <2>2. menu' \in [LU -> Nat]
      BY <1>4, <2>1 DEF MenuIdle, ProbeTypeOK
    <2> QED BY <1>4, <2>1, <2>2 DEF MenuIdle, ProbeTypeOK, loopVars
  <1>5. CASE MenuReady
    <2>1. ServerTypeOK' /\ Head(toGw).lu \in LU /\ Head(toGw).att \in Nat
      BY <1>1, <1>5, ObserveReads, GatewayStepType DEF MenuReady
    <2>2. menu' \in [LU -> Nat]
      BY <1>5, <2>1 DEF MenuReady, ProbeTypeOK
    <2> QED BY <1>1, <1>5, <2>1, <2>2 DEF MenuReady, ProbeTypeOK
  <1>6. CASE MenuLine
    <2>1. ServerTypeOK' /\ Head(toGw).lu \in LU /\ Head(toGw).att \in Nat
      BY <1>1, <1>6, ObserveReads, GatewayStepType DEF MenuLine
    <2>2. menu' \in [LU -> Nat]
      BY <1>6, <2>1 DEF MenuLine, ProbeTypeOK
    <2> QED BY <1>1, <1>6, <2>1, <2>2 DEF MenuLine, ProbeTypeOK
  <1>7. CASE EchoReply
    <2>1. ServerTypeOK'
      BY <1>1, <1>7, ObserveReads, GatewayStepType DEF EchoReply
    <2> QED BY <1>1, <1>7, <2>1 DEF EchoReply, ProbeTypeOK
  <1>8. CASE ShowFile
    <2>1. Head(toGw).lu \in LU /\ Inc(fileSnf[Head(toGw).lu]) \in Snf
      BY <1>8, ObserveReads, IncType DEF ShowFile, ProbeTypeOK
    <2>2. ServerTypeOK'
      BY <1>8, <2>1, ObserveReads, GatewayStepType DEF ShowFile
    <2>3. fileSnf' \in [LU -> Snf]
      BY <1>8, <2>1 DEF ShowFile, ProbeTypeOK
    <2> QED BY <1>8, <2>2, <2>3 DEF ShowFile, ProbeTypeOK, loopVars
  <1>9. CASE UssBridge
    <2>1. ServerTypeOK' /\ Head(toGw).lu \in LU /\ Head(toGw).att \in Nat
      BY <1>9, ObserveReads, GatewayStepType DEF UssBridge
    <2>2. sessions' \in Seq(LU2Session) /\ session' \in 0 .. Len(sessions')
      BY <1>9, <2>1, StartBridgeType DEF UssBridge
    <2> QED BY <1>9, <2>1, <2>2 DEF UssBridge, ProbeTypeOK, loopVars
  <1>10. CASE UssScreen
    <2>1. ServerTypeOK'
      BY <1>1, <1>10, ObserveReads, GatewayStepType DEF UssScreen
    <2> QED BY <1>1, <1>10, <2>1 DEF UssScreen, ProbeTypeOK
  <1>11. CASE DeliverInput
    <2>1. ServerTypeOK' /\ Head(toGw).lu \in LU /\ Head(toGw).att \in Nat
      BY <1>11, ObserveReads, GatewayStepType DEF DeliverInput
    <2>2. cur' \in Terminal
      BY <1>11, <2>1 DEF DeliverInput, Terminal
    <2> QED BY <1>11, <2>1, <2>2 DEF DeliverInput, ProbeTypeOK
  <1>12. CASE SendBind
    <2>1. Head(toGw).lu \in LU /\ Head(toGw).att \in Nat /\ Acked \in Seq(Outbound) /\ Recv
      BY <1>12, ObserveReads DEF SendBind
    <2>2. Piu("BIND", Head(toGw).lu, Inc(snf)) \in Outbound
      BY <1>1, <2>1, PiuType
    <2>3. ServerTypeOK'
      BY <1>12, <2>1, <2>2, SentType, GatewayStepType DEF SendBind
    <2>4. cur' \in Terminal
      BY <1>12, <2>1 DEF SendBind, Terminal
    <2>5. sweepLeft' \in Nat
      BY <1>12, SweepLenAssumption DEF SendBind, ProbeTypeOK
    <2> QED BY <1>1, <1>12, <2>3, <2>4, <2>5 DEF SendBind, ProbeTypeOK
  <1>13. CASE Ignore
    <2>1. ServerTypeOK'
      BY <1>13, ObserveReads, GatewayStepType DEF Ignore
    <2> QED BY <1>13, <2>1 DEF Ignore, ProbeTypeOK, probeVars, loopVars
  <1>14. CASE ReadEnds
    <2>1. ServerTypeOK'
      BY <1>14 DEF ReadEnds, Exit, ServerTypeOK, serverVars
    <2> QED BY <1>14, <2>1 DEF ReadEnds, Exit, ProbeTypeOK
  <1> QED BY <1>2, <1>3, <1>4, <1>5, <1>6, <1>7, <1>8, <1>9, <1>10, <1>11, <1>12, <1>13, <1>14
          DEF ObserveLoop

\* The goroutines of a bridge keep the types.
LEMMA BridgeType == TypeInv /\ BridgeNext => TypeInv'
  <1> SUFFICES ASSUME ServerTypeOK, ProbeTypeOK, NEW i \in DOMAIN sessions,
                      BridgeForward(i) \/ BridgeScreen(i) \/ BridgeClose(i) \/ BridgeEnd(i)
               PROVE  ServerTypeOK' /\ ProbeTypeOK'
    BY DEF TypeInv, BridgeNext
  <1>1. i \in 1 .. Len(sessions) /\ sessions[i] \in LU2Session
    BY ElementOfSeq, LenProperties DEF ProbeTypeOK
  <1>2. Inc(sessions[i].snf) \in Snf /\ sessions[i].lu \in LU
    BY <1>1, IncType DEF LU2Session
  <1>3. ASSUME NEW t \in LU2Session, sessions' = [sessions EXCEPT ![i] = t], Bridge(i)
        PROVE  ProbeTypeOK'
    <2>1. sessions' \in Seq(LU2Session) /\ Len(sessions') = Len(sessions)
      BY <1>1, <1>3, ExceptSeq DEF ProbeTypeOK
    <2> QED BY <1>3, <2>1 DEF Bridge, ProbeTypeOK, loopVars
  <1>4. CASE BridgeForward(i)
    <2>1. ServerTypeOK'
      BY <1>4 DEF BridgeForward, Bridge, ServerTypeOK, serverVars
    <2>2. [sessions[i] EXCEPT !.inbound = Tail(@)] \in LU2Session
      BY <1>1, <1>4, HeadTailProperties DEF BridgeForward, LU2Session
    <2> QED BY <1>3, <1>4, <2>1, <2>2 DEF BridgeForward
  <1>5. CASE BridgeScreen(i)
    <2>1. Piu("DATA", sessions[i].lu, Inc(sessions[i].snf)) \in Outbound
      BY <1>2, PiuType
    <2>2. ServerTypeOK'
      BY <1>5, <2>1, AppendProperties DEF BridgeScreen, Bridge, ServerTypeOK, serverVars
    <2>3. [sessions[i] EXCEPT !.snf = Inc(@)] \in LU2Session
      BY <1>1, <1>2 DEF LU2Session
    <2> QED BY <1>3, <1>5, <2>2, <2>3 DEF BridgeScreen
  <1>6. CASE BridgeEnd(i)
    <2>1. ServerTypeOK'
      BY <1>6 DEF BridgeEnd, Bridge, ServerTypeOK, serverVars
    <2>2. [sessions[i] EXCEPT !.relaying = FALSE, !.closed = TRUE] \in LU2Session
      BY <1>1 DEF LU2Session
    <2>3. sessions' = [sessions EXCEPT ![i] = [sessions[i] EXCEPT !.relaying = FALSE, !.closed = TRUE]]
      BY <1>1, <1>6 DEF BridgeEnd, ProbeTypeOK, LU2Session
    <2> QED BY <1>3, <1>6, <2>1, <2>2, <2>3 DEF BridgeEnd
  <1>7. CASE BridgeClose(i)
    <2>1. ServerTypeOK'
      BY <1>7 DEF BridgeClose, Bridge, ServerTypeOK, serverVars
    <2>2. [sessions[i] EXCEPT !.closed = TRUE] \in LU2Session
      BY <1>1 DEF LU2Session
    <2> QED BY <1>3, <1>7, <2>1, <2>2 DEF BridgeClose
  <1> QED BY <1>4, <1>5, <1>6, <1>7

\* Every step of the system keeps the type invariant.
LEMMA StepType == TypeInv /\ [Next]_vars => TypeInv'
  <1> SUFFICES ASSUME TypeInv, [Next]_vars PROVE TypeInv'
    OBVIOUS
  <1>1. CASE ProbeNext
    BY <1>1, ActivationType, ObserveLoopType, InnerWaitType DEF ProbeNext
  <1>2. CASE BridgeNext
    BY <1>2, BridgeType
  <1>3. CASE ServerNext /\ UNCHANGED probeVars
    BY <1>3, ServerStepType DEF TypeInv, ProbeTypeOK, probeVars, loopVars
  <1>4. CASE UNCHANGED vars
    BY <1>4 DEF TypeInv, ProbeTypeOK, ServerTypeOK, vars, serverVars, linkVars, probeVars, loopVars
  <1> QED BY <1>1, <1>2, <1>3, <1>4 DEF Next, Finished

HistoryTypeOK == unserved \in [LU -> Nat] /\ unanswered \subseteq LU

\* What a wait reads in place of a response is a request of an LU.
LEMMA HistoryType == TypeInv /\ HistoryTypeOK /\ [Next]_vars => HistoryTypeOK'
  <1> SUFFICES ASSUME TypeInv, HistoryTypeOK, [Next]_vars PROVE HistoryTypeOK'
    OBVIOUS
  <1>1. Misreads => Head(toGw).lu \in LU
    BY HeadType DEF Misreads, TypeInv, Request
  <1>2. CASE History
    <2>1. unserved' \in [LU -> Nat]
      BY <1>1, <1>2 DEF History, HistoryTypeOK
    <2>2. unanswered' \subseteq LU
      BY <1>1, <1>2 DEF History, HistoryTypeOK
    <2> QED BY <2>1, <2>2 DEF HistoryTypeOK
  <1>3. CASE UNCHANGED vars
    BY <1>3 DEF vars, historyVars, HistoryTypeOK
  <1> QED BY <1>2, <1>3 DEF Next

(***************************************************************************)
(* Every variable of the main goroutine, of the bridges and of the link    *)
(* keeps its type, for every mode, and while a request is being served     *)
(* the gateway remembers a real terminal.                                  *)
(***************************************************************************)
THEOREM TypeCorrect == Spec => []TypeOK
  <1> DEFINE Inv == TypeInv /\ HistoryTypeOK /\ flags \in CommandLines
  <1>1. Init => Inv
    BY InitType DEF Init, HistoryTypeOK
  <1>2. Inv /\ [Next]_vars => Inv'
    BY StepType, HistoryType DEF Next, vars
  <1>3. Inv => TypeOK
    BY DEF TypeInv, ProbeTypeOK, HistoryTypeOK, TypeOK
  <1> QED BY <1>1, <1>2, <1>3, PTL DEF Spec

-----------------------------------------------------------------------------
(* Every request is answered, once.  The argument is about one LU and the  *)
(* two directions of the link: what the lemmas call gw and srv are toGw    *)
(* and toSrv before a step.                                                *)

\* Reading a PIU that is not a request changes nothing.
LEMMA ReadOther ==
  ASSUME NEW lu, NEW gw \in Seq(Inbound), NEW srv \in Seq(Outbound), NEW waits \in BOOLEAN,
         AnsweredOnce(lu, gw, srv, waits), gw # <<>>, ~IsRequest(Head(gw))
  PROVE  AnsweredOnce(lu, Tail(gw), srv, waits)
  <1>1. /\ Len(gw) \in Nat /\ DOMAIN gw = 1 .. Len(gw) /\ Len(gw) >= 1
        /\ DOMAIN Tail(gw) = 1 .. Len(gw) - 1
        /\ \A i \in 1 .. Len(gw) - 1 : Tail(gw)[i] = gw[i + 1]
        /\ Head(gw) = gw[1]
    BY HeadTailProperties, LenProperties
  <1>2. \A i \in DOMAIN Tail(gw) : i + 1 \in DOMAIN gw /\ Tail(gw)[i] = gw[i + 1]
    BY <1>1
  <1>3. \A i \in DOMAIN gw : Asks(gw[i], lu) => i - 1 \in DOMAIN Tail(gw) /\ gw[i] = Tail(gw)[i - 1]
    BY <1>1 DEF Asks
  <1>4. (\E i \in DOMAIN gw : Asks(gw[i], lu)) <=> \E i \in DOMAIN Tail(gw) : Asks(Tail(gw)[i], lu)
    BY <1>2, <1>3
  <1>5. \A i, k \in DOMAIN Tail(gw) :
           Asks(Tail(gw)[i], lu) /\ Asks(Tail(gw)[k], lu) => i = k
    BY <1>1, <1>2 DEF AnsweredOnce
  <1> QED BY <1>2, <1>4, <1>5 DEF AnsweredOnce

\* Reading a request and writing its response: the response takes the
\* place of the request.
LEMMA ReadAndAnswer ==
  ASSUME NEW lu, NEW gw \in Seq(Inbound), NEW srv \in Seq(Outbound), NEW waits \in BOOLEAN,
         AnsweredOnce(lu, gw, srv, waits), gw # <<>>, IsRequest(Head(gw)),
         NEW rsp, rsp.type = "RSP", rsp.lu = Head(gw).lu
  PROVE  AnsweredOnce(lu, Tail(gw), Append(srv, rsp), waits)
  <1> DEFINE srv2 == Append(srv, rsp)
  <1>1. /\ Len(gw) \in Nat /\ DOMAIN gw = 1 .. Len(gw) /\ Len(gw) >= 1
        /\ DOMAIN Tail(gw) = 1 .. Len(gw) - 1
        /\ \A i \in 1 .. Len(gw) - 1 : Tail(gw)[i] = gw[i + 1]
        /\ Head(gw) = gw[1]
    BY HeadTailProperties, LenProperties
  <1>2. /\ Len(srv) \in Nat /\ DOMAIN srv = 1 .. Len(srv)
        /\ DOMAIN srv2 = 1 .. Len(srv) + 1
        /\ \A j \in 1 .. Len(srv) : srv2[j] = srv[j]
        /\ srv2[Len(srv) + 1] = rsp
    OBVIOUS
  <1> HIDE DEF srv2
  <1>3. \A i \in DOMAIN Tail(gw) : i + 1 \in DOMAIN gw /\ Tail(gw)[i] = gw[i + 1]
    BY <1>1
  <1>4. \A i \in DOMAIN gw : i = 1 \/ (i - 1 \in DOMAIN Tail(gw) /\ gw[i] = Tail(gw)[i - 1])
    BY <1>1
  <1>5. \A j \in DOMAIN srv2 : j = Len(srv) + 1 \/ (j \in DOMAIN srv /\ srv2[j] = srv[j])
    BY <1>2
  <1>6. \A j \in DOMAIN srv : j \in DOMAIN srv2 /\ srv2[j] = srv[j]
    BY <1>2
  <1>7. \A i, k \in DOMAIN Tail(gw) :
           Asks(Tail(gw)[i], lu) /\ Asks(Tail(gw)[k], lu) => i = k
    BY <1>1, <1>3 DEF AnsweredOnce
  <1>8. CASE rsp.lu = lu
    <2>1. Asks(gw[1], lu) /\ 1 \in DOMAIN gw
      BY <1>1, <1>8 DEF Asks
    <2>2. Answers(srv2[Len(srv) + 1], lu) /\ Len(srv) + 1 \in DOMAIN srv2
      BY <1>2, <1>8 DEF Answers
    <2>3. \A i \in DOMAIN Tail(gw) : ~Asks(Tail(gw)[i], lu)
      BY <1>1, <1>3, <2>1 DEF AnsweredOnce
    <2>4. \A j \in DOMAIN srv : ~Answers(srv[j], lu)
      BY <2>1 DEF AnsweredOnce
    <2>5. waits
      BY <2>1 DEF AnsweredOnce
    <2>6. \A j, k \in DOMAIN srv2 : Answers(srv2[j], lu) /\ Answers(srv2[k], lu) => j = k
      BY <1>5, <2>4
    <2> QED BY <2>2, <2>3, <2>5, <2>6 DEF AnsweredOnce, srv2
  <1>9. CASE rsp.lu # lu
    <2>1. ~Asks(gw[1], lu) /\ ~Answers(srv2[Len(srv) + 1], lu)
      BY <1>1, <1>2, <1>9 DEF Asks, Answers
    <2>2. (\E i \in DOMAIN gw : Asks(gw[i], lu)) <=> \E i \in DOMAIN Tail(gw) : Asks(Tail(gw)[i], lu)
      BY <1>3, <1>4, <2>1
    <2>3. (\E j \in DOMAIN srv : Answers(srv[j], lu)) <=> \E j \in DOMAIN srv2 : Answers(srv2[j], lu)
      BY <1>5, <1>6, <2>1
    <2>4. \A i \in DOMAIN Tail(gw), j \in DOMAIN srv2 :
             ~(Asks(Tail(gw)[i], lu) /\ Answers(srv2[j], lu))
      BY <1>3, <1>5, <2>1 DEF AnsweredOnce
    <2>5. \A j, k \in DOMAIN srv2 : Answers(srv2[j], lu) /\ Answers(srv2[k], lu) => j = k
      BY <1>5, <2>1 DEF AnsweredOnce
    <2> QED BY <1>7, <2>2, <2>3, <2>4, <2>5 DEF AnsweredOnce, srv2
  <1> QED BY <1>8, <1>9

\* Writing a PIU that is not a response changes nothing.
LEMMA WriteOther ==
  ASSUME NEW lu, NEW gw, NEW srv \in Seq(Outbound), NEW waits \in BOOLEAN,
         AnsweredOnce(lu, gw, srv, waits), NEW piu, piu.type # "RSP"
  PROVE  AnsweredOnce(lu, gw, Append(srv, piu), waits)
  <1> DEFINE srv2 == Append(srv, piu)
  <1>1. /\ Len(srv) \in Nat /\ DOMAIN srv = 1 .. Len(srv)
        /\ DOMAIN srv2 = 1 .. Len(srv) + 1
        /\ \A j \in 1 .. Len(srv) : srv2[j] = srv[j]
        /\ srv2[Len(srv) + 1] = piu
    OBVIOUS
  <1> HIDE DEF srv2
  <1>2. \A j \in DOMAIN srv2 : Answers(srv2[j], lu) => j \in DOMAIN srv /\ srv2[j] = srv[j]
    BY <1>1 DEF Answers
  <1>3. \A j \in DOMAIN srv : j \in DOMAIN srv2 /\ srv2[j] = srv[j]
    BY <1>1
  <1> QED BY <1>2, <1>3 DEF AnsweredOnce, srv2

\* SNA Server sends a PIU: a request of an LU that waited for nothing, or
\* anything but a request of this LU.
LEMMA ServerSends ==
  ASSUME NEW lu, NEW gw \in Seq(Inbound), NEW srv, NEW waits \in BOOLEAN,
         AnsweredOnce(lu, gw, srv, waits), NEW piu
  PROVE  /\ ~Asks(piu, lu) => AnsweredOnce(lu, Append(gw, piu), srv, waits)
         /\ Asks(piu, lu) /\ ~waits => AnsweredOnce(lu, Append(gw, piu), srv, TRUE)
  <1> DEFINE gw2 == Append(gw, piu)
  <1>1. /\ Len(gw) \in Nat /\ DOMAIN gw = 1 .. Len(gw)
        /\ DOMAIN gw2 = 1 .. Len(gw) + 1
        /\ \A i \in 1 .. Len(gw) : gw2[i] = gw[i]
        /\ gw2[Len(gw) + 1] = piu
    OBVIOUS
  <1> HIDE DEF gw2
  <1>2. \A i \in DOMAIN gw2 : i = Len(gw) + 1 \/ (i \in DOMAIN gw /\ gw2[i] = gw[i])
    BY <1>1
  <1>3. \A i \in DOMAIN gw : i \in DOMAIN gw2 /\ gw2[i] = gw[i]
    BY <1>1
  <1>4. ASSUME ~Asks(piu, lu) PROVE AnsweredOnce(lu, gw2, srv, waits)
    <2>1. \A i \in DOMAIN gw2 : Asks(gw2[i], lu) => i \in DOMAIN gw /\ gw2[i] = gw[i]
      BY <1>1, <1>2, <1>4
    <2> QED BY <1>3, <2>1 DEF AnsweredOnce
  <1>5. ASSUME Asks(piu, lu), ~waits PROVE AnsweredOnce(lu, gw2, srv, TRUE)
    <2>1. /\ \A i \in DOMAIN gw : ~Asks(gw[i], lu)
          /\ \A j \in DOMAIN srv : ~Answers(srv[j], lu)
      BY <1>5 DEF AnsweredOnce
    <2>2. Len(gw) + 1 \in DOMAIN gw2 /\ Asks(gw2[Len(gw) + 1], lu)
      BY <1>1, <1>5
    <2>3. \A i, k \in DOMAIN gw2 : Asks(gw2[i], lu) /\ Asks(gw2[k], lu) => i = k
      BY <1>2, <2>1
    <2> QED BY <2>1, <2>2, <2>3 DEF AnsweredOnce
  <1> QED BY <1>4, <1>5 DEF gw2

\* SNA Server reads a PIU: after the response of this LU it waits for
\* nothing, anything else changes nothing.
LEMMA ServerReads ==
  ASSUME NEW lu, NEW gw, NEW srv \in Seq(Outbound), NEW waits \in BOOLEAN,
         AnsweredOnce(lu, gw, srv, waits), srv # <<>>
  PROVE  /\ ~Answers(Head(srv), lu) => AnsweredOnce(lu, gw, Tail(srv), waits)
         /\ Answers(Head(srv), lu) => AnsweredOnce(lu, gw, Tail(srv), FALSE)
  <1>1. /\ Len(srv) \in Nat /\ DOMAIN srv = 1 .. Len(srv) /\ Len(srv) >= 1
        /\ DOMAIN Tail(srv) = 1 .. Len(srv) - 1
        /\ \A j \in 1 .. Len(srv) - 1 : Tail(srv)[j] = srv[j + 1]
        /\ Head(srv) = srv[1]
    BY HeadTailProperties, LenProperties
  <1>2. \A j \in DOMAIN Tail(srv) : j + 1 \in DOMAIN srv /\ Tail(srv)[j] = srv[j + 1]
    BY <1>1
  <1>3. \A j \in DOMAIN srv : j = 1 \/ (j - 1 \in DOMAIN Tail(srv) /\ srv[j] = Tail(srv)[j - 1])
    BY <1>1
  <1>4. \A j, k \in DOMAIN Tail(srv) :
           Answers(Tail(srv)[j], lu) /\ Answers(Tail(srv)[k], lu) => j = k
    BY <1>1, <1>2 DEF AnsweredOnce
  <1>5. ASSUME ~Answers(Head(srv), lu) PROVE AnsweredOnce(lu, gw, Tail(srv), waits)
    <2>1. (\E j \in DOMAIN srv : Answers(srv[j], lu))
             <=> \E j \in DOMAIN Tail(srv) : Answers(Tail(srv)[j], lu)
      BY <1>1, <1>2, <1>3, <1>5
    <2> QED BY <1>2, <1>4, <2>1 DEF AnsweredOnce
  <1>6. ASSUME Answers(Head(srv), lu) PROVE AnsweredOnce(lu, gw, Tail(srv), FALSE)
    <2>1. 1 \in DOMAIN srv /\ Answers(srv[1], lu)
      BY <1>1, <1>6
    <2>2. \A i \in DOMAIN gw : ~Asks(gw[i], lu)
      BY <2>1 DEF AnsweredOnce
    <2>3. \A j \in DOMAIN Tail(srv) : ~Answers(Tail(srv)[j], lu)
      BY <1>1, <1>2, <2>1 DEF AnsweredOnce
    <2> QED BY <2>2, <2>3 DEF AnsweredOnce
  <1> QED BY <1>5, <1>6

(***************************************************************************)
(* The inductive invariant.  Until ACTPU is answered nothing but ACTPU has *)
(* been sent and SNA Server has nothing to request: that is why the        *)
(* gateway may read any PIU as the answer to ACTPU.  Without -bind it      *)
(* never waits for BIND or SDT, where a request would be dropped.          *)
(***************************************************************************)
Quiet ==
    /\ luState = [lu \in LU |-> "inactive"]
    /\ lulu = [lu \in LU |-> "none"]
    /\ owed = [lu \in LU |-> "none"]
    /\ sessions = <<>>
    /\ \A j \in DOMAIN toSrv : toSrv[j].type = "ACTPU"

AnswerInv ==
    /\ TypeInv
    /\ EveryRequestAnswered
    /\ pc \in {"start", "actpu_wait"} => Quiet
    /\ pc \notin {"bind_wait", "sweep_wait", "sdt_wait"}

\* A step of the gateway that reads a request and acknowledges it, and may
\* write one other PIU after the response.
LEMMA AckStep ==
  ASSUME TypeInv, EveryRequestAnswered, Recv, IsRequest(Head(toGw)),
         \/ toSrv' = Acked
         \/ \E piu \in Outbound : piu.type # "RSP" /\ toSrv' = Sent(Acked, piu)
  PROVE  EveryRequestAnswered'
  <1> SUFFICES ASSUME link = "up", NEW lu \in LU
               PROVE  AnsweredOnce(lu, toGw', toSrv', owed[lu] # "none")
    BY DEF EveryRequestAnswered, Recv, serverVars
  <1>1. /\ toGw \in Seq(Inbound) /\ toSrv \in Seq(Outbound) /\ toGw # <<>> /\ toGw' = Tail(toGw)
        /\ PositiveRsp(Head(toGw)) \in Outbound
    BY HeadType DEF TypeInv, ServerTypeOK, Inbound, Recv
  <1>2. AnsweredOnce(lu, toGw, toSrv, owed[lu] # "none")
    BY DEF EveryRequestAnswered
  <1>3. PositiveRsp(Head(toGw)).type = "RSP" /\ PositiveRsp(Head(toGw)).lu = Head(toGw).lu
    BY DEF PositiveRsp, Piu
  <1>4. Acked = Append(toSrv, PositiveRsp(Head(toGw))) /\ Acked \in Seq(Outbound)
    BY <1>1, SentType DEF Acked, Sent
  <1>5. AnsweredOnce(lu, toGw', Acked, owed[lu] # "none")
    BY <1>1, <1>2, <1>3, <1>4, ReadAndAnswer
  <1>6. CASE toSrv' = Acked
    BY <1>5, <1>6
  <1>7. ASSUME NEW piu \in Outbound, piu.type # "RSP", toSrv' = Sent(Acked, piu)
        PROVE  AnsweredOnce(lu, toGw', toSrv', owed[lu] # "none")
    BY <1>4, <1>5, <1>7, WriteOther DEF Sent
  <1> QED BY <1>6, <1>7

\* A step of the gateway that reads a response, and writes nothing.
LEMMA ReadStep ==
  ASSUME TypeInv, EveryRequestAnswered, Recv, ~IsRequest(Head(toGw)), toSrv' = toSrv
  PROVE  EveryRequestAnswered'
  <1> SUFFICES ASSUME link = "up", NEW lu \in LU
               PROVE  AnsweredOnce(lu, toGw', toSrv, owed[lu] # "none")
    BY DEF EveryRequestAnswered, Recv, serverVars
  <1>1. toGw \in Seq(Inbound) /\ toSrv \in Seq(Outbound) /\ toGw # <<>> /\ toGw' = Tail(toGw)
    BY DEF TypeInv, ServerTypeOK, Inbound, Recv
  <1>2. AnsweredOnce(lu, toGw, toSrv, owed[lu] # "none")
    BY DEF EveryRequestAnswered
  <1> QED BY <1>1, <1>2, ReadOther

\* A step of the gateway that reads nothing, and writes no response.
LEMMA WriteStep ==
  ASSUME TypeInv, EveryRequestAnswered, UNCHANGED <<toGw, link, serverVars>>,
         \/ toSrv' = toSrv
         \/ \E piu : piu.type # "RSP" /\ toSrv' = Sent(toSrv, piu)
  PROVE  EveryRequestAnswered'
  <1> SUFFICES ASSUME link = "up", NEW lu \in LU
               PROVE  AnsweredOnce(lu, toGw, toSrv', owed[lu] # "none")
    BY DEF EveryRequestAnswered, serverVars
  <1>1. toSrv \in Seq(Outbound) /\ AnsweredOnce(lu, toGw, toSrv, owed[lu] # "none")
    BY DEF TypeInv, ServerTypeOK, EveryRequestAnswered
  <1>2. CASE toSrv' = toSrv
    BY <1>1, <1>2
  <1>3. ASSUME NEW piu, piu.type # "RSP", toSrv' = Sent(toSrv, piu)
        PROVE  AnsweredOnce(lu, toGw, toSrv', owed[lu] # "none")
    BY <1>1, <1>3, WriteOther DEF Sent
  <1> QED BY <1>2, <1>3

\* A step of SNA Server keeps requests and responses matched.
LEMMA ServerStepAnswers ==
  ASSUME TypeInv, EveryRequestAnswered, ServerNext
  PROVE  EveryRequestAnswered'
  <1> SUFFICES ASSUME link' = "up", NEW lu \in LU
               PROVE  AnsweredOnce(lu, toGw', toSrv', owed'[lu] # "none")
    BY DEF EveryRequestAnswered
  <1> DEFINE Kept == AnsweredOnce(lu, toGw', toSrv', owed'[lu] # "none")
  <1>1. /\ toGw \in Seq(Inbound) /\ toSrv \in Seq(Outbound)
        /\ owed \in [LU -> RequestType \cup {"none"}]
    BY DEF TypeInv, ServerTypeOK, Inbound
  <1>2. ASSUME link = "up" PROVE AnsweredOnce(lu, toGw, toSrv, owed[lu] # "none")
    BY <1>2 DEF EveryRequestAnswered
  <1>3. ASSUME NEW x \in LU, NEW type \in RequestType, NEW att, Originate(x, type, att)
        PROVE  Kept
    <2> DEFINE piu == [rri |-> "request", type |-> type, lu |-> x, att |-> att]
    <2>1. /\ link = "up" /\ owed[x] = "none" /\ toSrv' = toSrv
          /\ toGw' = Append(toGw, piu) /\ owed' = [owed EXCEPT ![x] = type]
      BY <1>3 DEF Originate
    <2>2. Asks(piu, lu) <=> lu = x
      BY DEF Asks, IsRequest
    <2>3. type # "none"
      BY DEF RequestType
    <2> HIDE DEF piu
    <2>4. CASE lu = x
      BY <1>1, <1>2, <2>1, <2>2, <2>3, <2>4, ServerSends
    <2>5. CASE lu # x
      BY <1>1, <1>2, <2>1, <2>2, <2>5, ServerSends
    <2> QED BY <2>4, <2>5
  <1>4. ASSUME ServerOriginates PROVE Kept
    <2>1. PICK x \in LU : NotifyIdle(x) \/ NotifyReady(x) \/ TypeLine(x) \/ SendUnbind(x)
      BY <1>4 DEF ServerOriginates
    <2> HIDE DEF Kept
    <2>2. {"NOTIFY01", "NOTIFY03", "LINE", "UNBIND"} = RequestType
      BY DEF RequestType
    <2>3. CASE NotifyIdle(x)
      BY <1>3, <2>2, <2>3 DEF NotifyIdle
    <2>4. CASE NotifyReady(x)
      BY <1>3, <2>2, <2>4 DEF NotifyReady
    <2>5. CASE TypeLine(x)
      BY <1>3, <2>2, <2>5 DEF TypeLine
    <2>6. CASE SendUnbind(x)
      BY <1>3, <2>2, <2>6 DEF SendUnbind
    <2> QED BY <2>1, <2>3, <2>4, <2>5, <2>6
  <1>5. ASSUME NEW type, Receive(type), type # "RSP", owed' = owed,
               \/ toGw' = toGw
               \/ \E t, x, pos : toGw' = Append(toGw, Rsp(t, x, pos))
        PROVE  Kept
    <2>1. link = "up" /\ toSrv # <<>> /\ toSrv' = Tail(toSrv) /\ Head(toSrv).type # "RSP"
      BY <1>5 DEF Receive
    <2>2. /\ AnsweredOnce(lu, toGw, toSrv', owed[lu] # "none")
          /\ toSrv' \in Seq(Outbound)
      BY <1>1, <1>2, <2>1, ServerReads, HeadTailProperties DEF Answers
    <2>3. ASSUME NEW t, NEW x, NEW pos, toGw' = Append(toGw, Rsp(t, x, pos)) PROVE Kept
      <3>1. ~Asks(Rsp(t, x, pos), lu)
        BY DEF Rsp, Asks, IsRequest
      <3> QED BY <1>1, <1>5, <2>2, <2>3, <3>1, ServerSends
    <2> QED BY <1>5, <2>2, <2>3
  <1>6. ASSUME ReceiveRsp PROVE Kept
    <2>1. /\ link = "up" /\ toSrv # <<>> /\ toSrv' = Tail(toSrv) /\ Head(toSrv).type = "RSP"
          /\ toGw' = toGw /\ owed' = [owed EXCEPT ![Head(toSrv).lu] = "none"]
      BY <1>6 DEF ReceiveRsp, Receive
    <2>2. CASE Head(toSrv).lu = lu
      BY <1>1, <1>2, <2>1, <2>2, ServerReads DEF Answers
    <2>3. CASE Head(toSrv).lu # lu
      BY <1>1, <1>2, <2>1, <2>3, ServerReads DEF Answers
    <2> QED BY <2>2, <2>3
  <1> SUFFICES Kept
    OBVIOUS
  <1> HIDE DEF Kept
  <1>7. CASE ReceiveActPU
    BY <1>5, <1>7 DEF ReceiveActPU
  <1>8. CASE ReceiveActLU
    BY <1>5, <1>8 DEF ReceiveActLU
  <1>9. CASE ReceiveData
    BY <1>5, <1>9 DEF ReceiveData
  <1>10. CASE ReceiveBind
    BY <1>5, <1>10 DEF ReceiveBind
  <1>11. CASE ReceiveSdt
    BY <1>5, <1>11 DEF ReceiveSdt
  <1>12. ~LinkLost
    BY DEF LinkLost
  <1> QED BY <1>4, <1>6, <1>7, <1>8, <1>9, <1>10, <1>11, <1>12
          DEF ServerNext, ServerReceives

\* Before ACTPU is answered SNA Server can only read it.
LEMMA QuietStep ==
  ASSUME TypeInv, Quiet, ServerNext
  PROVE  /\ luState' = luState /\ lulu' = lulu /\ owed' = owed
         /\ \A j \in DOMAIN toSrv' : toSrv'[j].type = "ACTPU"
  <1>1. ~ServerOriginates
    BY DEF Quiet, ServerOriginates, NotifyIdle, NotifyReady, TypeLine, SendUnbind
  <1>2. toSrv \in Seq(Outbound)
    BY DEF TypeInv, ServerTypeOK
  <1>3. toSrv # <<>> => Head(toSrv).type = "ACTPU"
    BY <1>2, HeadTailProperties, LenProperties DEF Quiet
  <1>4. CASE LinkLost
    BY <1>4 DEF LinkLost, serverVars, Quiet
  <1>5. CASE ReceiveActPU
    <2>1. toSrv # <<>> /\ toSrv' = Tail(toSrv)
      BY <1>5 DEF ReceiveActPU, Receive
    <2>2. \A j \in DOMAIN Tail(toSrv) : j + 1 \in DOMAIN toSrv /\ Tail(toSrv)[j] = toSrv[j + 1]
      BY <1>2, <2>1, HeadTailProperties, LenProperties
    <2> QED BY <1>5, <2>1, <2>2 DEF ReceiveActPU, Quiet
  <1>6. ~(ReceiveActLU \/ ReceiveRsp \/ ReceiveData \/ ReceiveBind \/ ReceiveSdt)
    BY <1>3 DEF ReceiveActLU, ReceiveRsp, ReceiveData, ReceiveBind, ReceiveSdt, Receive
  <1> QED BY <1>1, <1>4, <1>5, <1>6 DEF ServerNext, ServerReceives

\* The steps that activate the PU and the LUs keep the invariant.
LEMMA ActivationAnswers == AnswerInv /\ Activation => AnswerInv'
  <1> SUFFICES ASSUME AnswerInv, Activation PROVE AnswerInv'
    OBVIOUS
  <1>1. TypeInv /\ EveryRequestAnswered /\ TypeInv' /\ toSrv \in Seq(Outbound)
    BY ActivationType DEF AnswerInv, TypeInv, ServerTypeOK
  <1>2. CASE SendActPU
    <2>1. Quiet /\ toSrv' = Sent(toSrv, Piu("ACTPU", PU, snf))
          /\ UNCHANGED <<toGw, link, serverVars, sessions>>
      BY <1>2 DEF SendActPU, AnswerInv
    <2>2. Piu("ACTPU", PU, snf).type = "ACTPU"
      BY DEF Piu
    <2>3. EveryRequestAnswered'
      BY <1>1, <2>1, <2>2, WriteStep
    <2>4. \A j \in DOMAIN toSrv' : toSrv'[j].type = "ACTPU"
      <3> DEFINE piu == Piu("ACTPU", PU, snf)
      <3>1. piu.type = "ACTPU" /\ (toSrv' = toSrv \/ toSrv' = Append(toSrv, piu))
        BY <2>1, <2>2 DEF Sent
      <3> HIDE DEF piu
      <3>2. \A j \in DOMAIN Append(toSrv, piu) :
               Append(toSrv, piu)[j] = piu \/ (j \in DOMAIN toSrv /\ Append(toSrv, piu)[j] = toSrv[j])
        BY <1>1
      <3> QED BY <2>1, <3>1, <3>2 DEF Quiet
    <2>5. Quiet'
      BY <2>1, <2>4 DEF Quiet, serverVars
    <2> QED BY <1>1, <1>2, <2>3, <2>5 DEF AnswerInv, SendActPU
  <1>3. CASE RecvActPU
    <2>1. Quiet
      BY <1>3 DEF RecvActPU, AnswerInv
    <2>2. EveryRequestAnswered'
      <3>1. CASE link = "up"
        <4>1. toGw # <<>> /\ toGw \in Seq(Inbound)
          BY <1>1, <1>3 DEF RecvActPU, Recv, TypeInv, ServerTypeOK, Inbound
        <4>2. 1 \in DOMAIN toGw /\ Head(toGw) = toGw[1] /\ Head(toGw) \in Inbound
          BY <4>1, HeadTailProperties, LenProperties
        <4>3. \A lu \in LU : ~Asks(Head(toGw), lu)
          BY <1>1, <2>1, <3>1, <4>2 DEF EveryRequestAnswered, AnsweredOnce, Quiet
        <4>4. ~IsRequest(Head(toGw))
          BY <4>2, <4>3 DEF Asks, Inbound, Request, Response, IsRequest
        <4> QED BY <1>1, <1>3, <4>4, ReadStep DEF RecvActPU
      <3>2. CASE link # "up"
        BY <1>3, <3>2 DEF RecvActPU, Recv, EveryRequestAnswered
      <3> QED BY <3>1, <3>2
    <2> QED BY <1>1, <1>3, <2>2 DEF AnswerInv, RecvActPU
  <1>4. CASE ActPUTimeout
    BY <1>1, <1>4 DEF ActPUTimeout, Exit, AnswerInv, EveryRequestAnswered
  <1>5. CASE SendActLU
    <2>1. Piu("ACTLU", LuList[idx], Inc(snf)).type # "RSP"
      BY DEF Piu
    <2>2. EveryRequestAnswered'
      BY <1>1, <1>5, <2>1, WriteStep DEF SendActLU
    <2> QED BY <1>1, <1>5, <2>2 DEF AnswerInv, SendActLU
  <1>6. CASE ActivationDone
    <2>1. EveryRequestAnswered'
      BY <1>1, <1>6, WriteStep DEF ActivationDone, linkVars
    <2> QED BY <1>1, <1>6, <2>1 DEF AnswerInv, ActivationDone
  <1>7. CASE RecvAck
    <2>1. EveryRequestAnswered'
      <3>1. CASE IsRequest(Head(toGw))
        BY <1>1, <1>7, <3>1, AckStep DEF RecvAck, Acked
      <3>2. CASE ~IsRequest(Head(toGw))
        BY <1>1, <1>7, <3>2, ReadStep DEF RecvAck
      <3> QED BY <3>1, <3>2
    <2> QED BY <1>1, <1>7, <2>1 DEF AnswerInv, RecvAck
  <1>8. CASE AckTimeout
    <2>1. EveryRequestAnswered'
      BY <1>1, <1>8, WriteStep DEF AckTimeout, RecvTimeout
    <2> QED BY <1>1, <1>8, <2>1 DEF AnswerInv, AckTimeout
  <1> QED BY <1>2, <1>3, <1>4, <1>5, <1>6, <1>7, <1>8 DEF Activation

\* The observe loop without -bind keeps the invariant: every request it
\* reads is acknowledged before anything else is done with it.
LEMMA ObserveLoopAnswers == ~BindMode /\ AnswerInv /\ ObserveLoop => AnswerInv'
  <1> SUFFICES ASSUME ~BindMode, AnswerInv, ObserveLoop PROVE AnswerInv'
    OBVIOUS
  <1>1. TypeInv /\ EveryRequestAnswered /\ TypeInv' /\ ServerTypeOK /\ ProbeTypeOK
    BY ObserveLoopType DEF AnswerInv, TypeInv
  <1>2. ASSUME NEW type, Observe(type),
               toSrv' = Acked \/ \E n \in Snf : SendData(n)
        PROVE  EveryRequestAnswered'
    <2>1. Recv /\ IsRequest(Head(toGw)) /\ Head(toGw).lu \in LU
      BY <1>1, <1>2, ObserveReads DEF Observe
    <2>2. \A n \in Snf : /\ Piu("DATA", Head(toGw).lu, n) \in Outbound
                         /\ Piu("DATA", Head(toGw).lu, n).type # "RSP"
      BY <2>1, PiuType DEF Piu
    <2> QED BY <1>1, <1>2, <2>1, <2>2, AckStep DEF SendData
  <1>3. pc = "observe"
    BY DEF ObserveLoop, Discard, TearDown, MenuIdle, MenuReady, MenuLine, EchoReply, ShowFile,
           UssBridge, UssScreen, DeliverInput, SendBind, Ignore, ReadEnds, Observe
  <1>4. EveryRequestAnswered' /\ pc' \in {"observe", "deliver", "exited"}
    <2>1. Inc(snf) \in Snf
      BY <1>1, IncType DEF ProbeTypeOK
    <2>2. CASE Discard
      BY <1>1, <1>3, <2>2, ReadStep DEF Discard, probeVars, loopVars
    <2>3. CASE TearDown
      BY <1>2, <1>3, <2>3 DEF TearDown, loopVars
    <2>4. CASE MenuIdle
      BY <1>2, <1>3, <2>4 DEF MenuIdle, loopVars
    <2>5. CASE MenuReady
      BY <1>2, <1>3, <2>1, <2>5 DEF MenuReady
    <2>6. CASE MenuLine
      BY <1>2, <1>3, <2>1, <2>6 DEF MenuLine
    <2>7. CASE EchoReply
      BY <1>2, <1>3, <2>1, <2>7 DEF EchoReply
    <2>8. CASE ShowFile
      <3>1. Inc(fileSnf[Head(toGw).lu]) \in Snf
        BY <1>1, <2>8, ObserveReads, IncType DEF ShowFile, ProbeTypeOK
      <3> QED BY <1>2, <1>3, <2>8, <3>1 DEF ShowFile, loopVars
    <2>9. CASE UssBridge
      BY <1>2, <1>3, <2>9 DEF UssBridge, loopVars
    <2>10. CASE UssScreen
      BY <1>2, <1>3, <2>1, <2>10 DEF UssScreen
    <2>11. CASE DeliverInput
      BY <1>2, <2>11 DEF DeliverInput
    <2>12. ~SendBind
      BY DEF SendBind
    <2>13. CASE Ignore
      BY <1>2, <1>3, <2>13 DEF Ignore, probeVars, loopVars
    <2>14. CASE ReadEnds
      BY <2>14 DEF ReadEnds, Exit, EveryRequestAnswered
    <2> QED BY <2>2, <2>3, <2>4, <2>5, <2>6, <2>7, <2>8, <2>9, <2>10, <2>11, <2>12, <2>13, <2>14
            DEF ObserveLoop
  <1> QED BY <1>1, <1>4 DEF AnswerInv

\* Every step keeps the invariant, unless the gateway drives BIND.
LEMMA StepAnswers == ~BindMode /\ AnswerInv /\ [Next]_vars => AnswerInv'
  <1> SUFFICES ASSUME ~BindMode, AnswerInv, [Next]_vars PROVE AnswerInv'
    OBVIOUS
  <1>1. TypeInv /\ EveryRequestAnswered /\ TypeInv'
    BY StepType DEF AnswerInv
  <1>2. CASE Activation
    BY <1>2, ActivationAnswers
  <1>3. CASE ObserveLoop
    BY <1>3, ObserveLoopAnswers
  <1>4. CASE InnerWait
    <2>1. Deliver
      BY <1>4 DEF InnerWait, RecvBindRsp, BindTimeout, SdtDone, SweepAccepted, SweepNext, AnswerInv
    <2>2. EveryRequestAnswered'
      BY <1>1, <2>1, WriteStep DEF Deliver, linkVars
    <2> QED BY <1>1, <2>1, <2>2 DEF AnswerInv, Deliver
  <1>5. CASE BridgeNext
    <2>1. PICK i \in DOMAIN sessions : BridgeForward(i) \/ BridgeScreen(i) \/ BridgeClose(i) \/ BridgeEnd(i)
      BY <1>5 DEF BridgeNext
    <2>2. Bridge(i)
      BY <2>1 DEF BridgeForward, BridgeScreen, BridgeClose, BridgeEnd
    <2>3. Piu("DATA", sessions[i].lu, Inc(sessions[i].snf)).type # "RSP"
      BY DEF Piu
    <2>4. EveryRequestAnswered'
      BY <1>1, <2>1, <2>2, <2>3, WriteStep DEF Bridge, BridgeForward, BridgeScreen, BridgeClose, BridgeEnd, Sent
    <2>5. ~Quiet
      <3>1. sessions # <<>>
        BY <2>1, EmptySeq
      <3> QED BY <3>1 DEF Quiet
    <2> QED BY <1>1, <2>2, <2>4, <2>5 DEF AnswerInv, Bridge, loopVars
  <1>6. CASE ServerNext /\ UNCHANGED probeVars
    <2>1. EveryRequestAnswered'
      BY <1>1, <1>6, ServerStepAnswers
    <2>2. Quiet => Quiet'
      BY <1>1, <1>6, QuietStep DEF Quiet, probeVars
    <2> QED BY <1>1, <1>6, <2>1, <2>2 DEF AnswerInv, probeVars, loopVars
  <1>7. CASE UNCHANGED vars
    BY <1>1, <1>7 DEF AnswerInv, EveryRequestAnswered, Quiet, vars, serverVars, linkVars,
                      probeVars, loopVars
  <1> QED BY <1>2, <1>3, <1>4, <1>5, <1>6, <1>7 DEF Next, ProbeNext, Finished

\* Nothing has been asked at the start.
LEMMA InitAnswers == Init => AnswerInv
  <1> SUFFICES ASSUME Init PROVE AnswerInv
    OBVIOUS
  <1>1. toGw = <<>> /\ toSrv = <<>> /\ owed = [lu \in LU |-> "none"]
    BY DEF Init, ServerInit
  <1>2. DOMAIN toGw = {} /\ DOMAIN toSrv = {}
    BY <1>1, EmptySeq
  <1>3. EveryRequestAnswered /\ Quiet
    BY <1>1, <1>2 DEF EveryRequestAnswered, AnsweredOnce, Quiet, Init, ServerInit
  <1> QED BY <1>3, InitType DEF AnswerInv, Init

(***************************************************************************)
(* Unless the gateway drives BIND itself, every request of every LU is     *)
(* acknowledged exactly once: in the menu, echo, file and USS modes, for   *)
(* any number of LUs, whichever LUs are activated and in whatever order    *)
(* the PIUs interleave, no LU is left waiting for a response.              *)
(***************************************************************************)
THEOREM NoRequestLost == Spec => [](~BindMode => EveryRequestAnswered)
  <1>1. Init => AnswerInv
    BY InitAnswers
  <1>2. (~BindMode => AnswerInv) /\ [Next]_vars => (~BindMode => AnswerInv)'
    <2>1. [Next]_vars => flags' = flags
      BY DEF Next, vars
    <2>2. flags' = flags => (BindMode <=> BindMode')
      BY DEF BindMode, HostMode, Set
    <2> QED BY <2>1, <2>2, StepAnswers
  <1>3. AnswerInv => EveryRequestAnswered
    BY DEF AnswerInv
  <1> QED BY <1>1, <1>2, <1>3, PTL DEF Spec

-----------------------------------------------------------------------------
(* One open session.  The strengthening: a bridge is started only where    *)
(* the goroutine knows of none, so it has none while it waits for BIND.    *)

OneInv ==
    /\ TypeInv
    /\ OneOpenSession
    /\ pc \in {"bind_wait", "sweep_wait", "sdt_wait"} => session = 0

\* Starting a bridge where there is none leaves at most that one open.
LEMMA StartBridgeOpen ==
  ASSUME ProbeTypeOK, OneOpenSession, session = 0, NEW lu, NEW att, NEW sscp,
         StartBridge(lu, att, sscp)
  PROVE  OneOpenSession'
  <1>1. DOMAIN sessions = 1 .. Len(sessions) /\ Len(sessions) \in Nat
    BY LenProperties DEF ProbeTypeOK
  <1>2. \A i \in DOMAIN sessions : sessions[i].closed
    BY <1>1 DEF OneOpenSession
  <1>3. CASE session' = 0 /\ UNCHANGED sessions
    BY <1>2, <1>3 DEF OneOpenSession
  <1>4. CASE sessions' = Append(sessions, NewSession(lu, att, sscp)) /\ session' = Len(sessions) + 1
    <2> DEFINE new == NewSession(lu, att, sscp)
    <2> HIDE DEF new
    <2>1. \A i \in DOMAIN Append(sessions, new) :
             i = Len(sessions) + 1 \/ (i \in DOMAIN sessions /\ Append(sessions, new)[i] = sessions[i])
      BY <1>1 DEF ProbeTypeOK
    <2> QED BY <1>2, <1>4, <2>1 DEF OneOpenSession, new
  <1> QED BY <1>3, <1>4 DEF StartBridge

\* Changing a session that exists, without reopening it, opens none.
LEMMA SameOpen ==
  ASSUME ProbeTypeOK, OneOpenSession, session' = session, NEW i, NEW t,
         sessions' = [sessions EXCEPT ![i] = t],
         i \in DOMAIN sessions => (sessions[i].closed => t.closed)
  PROVE  OneOpenSession'
  BY LenProperties DEF ProbeTypeOK, OneOpenSession

\* Every step keeps the invariant.
LEMMA StepOneOpen == OneInv /\ [Next]_vars => OneInv'
  <1> SUFFICES ASSUME OneInv, [Next]_vars PROVE OneInv'
    OBVIOUS
  <1>1. TypeInv' /\ ProbeTypeOK /\ OneOpenSession
    BY StepType DEF OneInv, TypeInv
  <1>2. ASSUME UNCHANGED <<session, sessions>> PROVE OneOpenSession'
    BY <1>1, <1>2 DEF OneOpenSession
  <1>3. CASE TearDown
    <2>1. session \in 1 .. Len(sessions) /\ DOMAIN sessions = 1 .. Len(sessions)
      BY <1>1, <1>3, LenProperties DEF TearDown, ProbeTypeOK
    <2>2. sessions[session] \in LU2Session
      BY <1>1, <2>1, ElementOfSeq DEF ProbeTypeOK
    <2>3. DOMAIN sessions' = DOMAIN sessions /\ sessions'[session].closed
          /\ \A i \in DOMAIN sessions : i # session => sessions'[i] = sessions[i]
      BY <1>1, <1>3, <2>1, <2>2 DEF TearDown, ProbeTypeOK, LU2Session
    <2> QED BY <1>1, <1>3, <2>3 DEF TearDown, Observe, OneInv, OneOpenSession, loopVars
  <1>4. CASE UssBridge
    BY <1>1, <1>4, StartBridgeOpen DEF UssBridge, UssAttach, Observe, OneInv, loopVars
  <1>5. CASE SdtDone
    BY <1>1, <1>2, <1>5, StartBridgeOpen DEF SdtDone, OneInv
  <1>6. CASE Deliver
    <2>1. OneOpenSession'
      <3>1. CASE UNCHANGED sessions
        BY <1>2, <1>6, <3>1 DEF Deliver
      <3>2. CASE sessions' = [sessions EXCEPT ![session] =
                                [sessions[session] EXCEPT !.inbound = Append(@, cur)]]
        <4>1. session \in DOMAIN sessions => sessions[session] \in LU2Session
          BY <1>1, ElementOfSeq, LenProperties DEF ProbeTypeOK
        <4>2. session \in DOMAIN sessions =>
                 [sessions[session] EXCEPT !.inbound = Append(@, cur)].closed = sessions[session].closed
          BY <4>1 DEF LU2Session
        <4> QED BY <1>1, <1>6, <3>2, <4>2, SameOpen DEF Deliver
      <3> QED BY <1>6, <3>1, <3>2 DEF Deliver
    <2> QED BY <1>1, <1>6, <2>1 DEF Deliver, OneInv
  <1>7. CASE BridgeNext
    <2>1. PICK i \in DOMAIN sessions : BridgeForward(i) \/ BridgeScreen(i) \/ BridgeClose(i) \/ BridgeEnd(i)
      BY <1>7 DEF BridgeNext
    <2>2. sessions[i] \in LU2Session
      BY <1>1, ElementOfSeq, LenProperties DEF ProbeTypeOK
    <2>3. PICK t : /\ sessions' = [sessions EXCEPT ![i] = t]
                   /\ sessions[i].closed => t.closed
      <3>1. CASE BridgeForward(i)
        <4>1. [sessions[i] EXCEPT !.inbound = Tail(@)].closed = sessions[i].closed
          BY <2>2 DEF LU2Session
        <4> QED BY <3>1, <4>1 DEF BridgeForward
      <3>2. CASE BridgeScreen(i)
        <4>1. [sessions[i] EXCEPT !.snf = Inc(@)].closed = sessions[i].closed
          BY <2>2 DEF LU2Session
        <4> QED BY <3>2, <4>1 DEF BridgeScreen
      <3>3. CASE BridgeEnd(i)
        <4> DEFINE t == [sessions[i] EXCEPT !.relaying = FALSE, !.closed = TRUE]
        <4>1. t.closed
          BY <2>2 DEF LU2Session
        <4>2. sessions' = [sessions EXCEPT ![i] = t]
          BY <1>1, <3>3 DEF BridgeEnd, ProbeTypeOK
        <4> QED BY <4>1, <4>2
      <3>4. CASE BridgeClose(i)
        <4>1. [sessions[i] EXCEPT !.closed = TRUE].closed
          BY <2>2 DEF LU2Session
        <4> QED BY <3>4, <4>1 DEF BridgeClose
      <3> QED BY <2>1, <3>1, <3>2, <3>3, <3>4
    <2>4. session' = session /\ pc' = pc
      BY <2>1 DEF BridgeForward, BridgeScreen, BridgeClose, BridgeEnd, Bridge, loopVars
    <2> QED BY <1>1, <2>3, <2>4, SameOpen DEF OneInv
  <1>8. CASE Activation
    BY <1>1, <1>2, <1>8 DEF Activation, SendActPU, RecvActPU, ActPUTimeout, Exit, SendActLU,
       ActivationDone, RecvAck, AckTimeout, OneInv
  <1>9. CASE ObserveLoop /\ ~TearDown /\ ~UssBridge
    BY <1>1, <1>2, <1>9 DEF ObserveLoop, Discard, MenuIdle, MenuReady, MenuLine, EchoReply, ShowFile,
       UssScreen, DeliverInput, SendBind, Ignore, ReadEnds, Exit, Observe, OneInv, probeVars, loopVars
  <1>10. CASE InnerWait /\ ~SdtDone /\ ~Deliver
    BY <1>1, <1>2, <1>10 DEF InnerWait, RecvBindRsp, BindTimeout, SweepAccepted, SweepNext, OneInv
  <1>11. CASE (ServerNext /\ UNCHANGED probeVars) \/ UNCHANGED vars
    BY <1>1, <1>2, <1>11 DEF OneInv, vars, probeVars, loopVars
  <1> QED BY <1>3, <1>4, <1>5, <1>6, <1>7, <1>8, <1>9, <1>10, <1>11 DEF Next, ProbeNext, Finished

(***************************************************************************)
(* In every mode at most one session is open, the one the main goroutine   *)
(* would tear down: no bridge to a host is ever left without an owner.     *)
(***************************************************************************)
THEOREM OneBridge == Spec => []OneOpenSession
  <1>1. Init => OneInv
    <2>1. Init => OneOpenSession /\ session = 0
      BY EmptySeq DEF Init, OneOpenSession
    <2> QED BY <2>1, InitType DEF OneInv
  <1>2. OneInv => OneOpenSession
    BY DEF OneInv
  <1> QED BY <1>1, <1>2, StepOneOpen, PTL DEF Spec

-----------------------------------------------------------------------------
(***************************************************************************)
(* Proofs about what the terminals of sna-probe see: the menu session a    *)
(* line goes to, the screens that answer it and their sequence numbers,    *)
(* and the session its input is delivered to.                              *)
(***************************************************************************)

(* The two directions of the link as sets of PIUs.                         *)

\* What the gateway writes is on the link, unless the link is gone.
LEMMA RangeSent ==
  ASSUME NEW pius \in Seq(Outbound), NEW piu
  PROVE  Range(Sent(pius, piu)) \subseteq Range(pius) \cup {piu}
  BY RangeAppend DEF Sent

\* An LU with a request on the link, or a response to it, has one
\* outstanding, and after reading the request none is left.
LEMMA AskedOnce ==
  ASSUME NEW lu, NEW gw \in Seq(Inbound), NEW srv, NEW waits, AnsweredOnce(lu, gw, srv, waits)
  PROVE  /\ \A p \in Range(gw) : Asks(p, lu) => waits
         /\ gw # <<>> /\ Asks(Head(gw), lu) => \A p \in Range(Tail(gw)) : ~Asks(p, lu)
  <1>1. \A p \in Range(gw) : Asks(p, lu) => waits
    BY DEF Range, AnsweredOnce
  <1>2. ASSUME gw # <<>>, Asks(Head(gw), lu), NEW p \in Range(Tail(gw)), Asks(p, lu)
        PROVE  FALSE
    <2>1. /\ Len(gw) \in Nat /\ DOMAIN gw = 1 .. Len(gw) /\ Len(gw) >= 1
          /\ DOMAIN Tail(gw) = 1 .. Len(gw) - 1
          /\ \A i \in 1 .. Len(gw) - 1 : Tail(gw)[i] = gw[i + 1]
          /\ Head(gw) = gw[1]
      BY <1>2, HeadTailProperties, LenProperties
    <2>2. PICK i \in DOMAIN Tail(gw) : p = Tail(gw)[i]
      BY DEF Range
    <2>3. i + 1 \in DOMAIN gw /\ p = gw[i + 1] /\ 1 \in DOMAIN gw /\ i + 1 # 1
      BY <2>1, <2>2
    <2> QED BY <1>2, <2>1, <2>3 DEF AnsweredOnce
  <1> QED BY <1>1, <1>2

\* ACTLU of one LU, and a queue that holds at most one of it.
IsActLU(q, lu) == q.type = "ACTLU" /\ q.lu = lu

OneActLU(srv, lu) ==
    \A j, k \in DOMAIN srv : IsActLU(srv[j], lu) /\ IsActLU(srv[k], lu) => j = k

\* A queue keeps at most one ACTLU of an LU when what is appended is none, or
\* when it held none.
LEMMA ActLUAppend ==
  ASSUME NEW lu, NEW srv \in Seq(Outbound), NEW q, OneActLU(srv, lu),
         IsActLU(q, lu) => \A r \in Range(srv) : ~IsActLU(r, lu)
  PROVE  OneActLU(Append(srv, q), lu)
  <1> DEFINE srv2 == Append(srv, q)
  <1>1. /\ Len(srv) \in Nat /\ DOMAIN srv = 1 .. Len(srv)
        /\ DOMAIN srv2 = 1 .. Len(srv) + 1
        /\ \A j \in 1 .. Len(srv) : srv2[j] = srv[j]
        /\ srv2[Len(srv) + 1] = q
    OBVIOUS
  <1> HIDE DEF srv2
  <1>2. \A j \in DOMAIN srv2 :
           IsActLU(srv2[j], lu) => \/ j \in DOMAIN srv /\ srv2[j] = srv[j]
                                   \/ j = Len(srv) + 1 /\ IsActLU(q, lu)
    BY <1>1
  <1>3. IsActLU(q, lu) => \A j \in DOMAIN srv : ~IsActLU(srv[j], lu)
    BY DEF Range
  <1>4. OneActLU(srv2, lu)
    BY <1>2, <1>3 DEF OneActLU
  <1> QED BY <1>4 DEF srv2

\* The same for reading from it, and after an ACTLU there is no other.
LEMMA ActLUTail ==
  ASSUME NEW lu, NEW srv \in Seq(Outbound), OneActLU(srv, lu), srv # <<>>
  PROVE  /\ OneActLU(Tail(srv), lu)
         /\ IsActLU(Head(srv), lu) => \A q \in Range(Tail(srv)) : ~IsActLU(q, lu)
  <1> DEFINE t == Tail(srv)
  <1>1. /\ Len(srv) \in Nat /\ DOMAIN srv = 1 .. Len(srv) /\ Len(srv) >= 1
        /\ DOMAIN t = 1 .. Len(srv) - 1
        /\ \A j \in 1 .. Len(srv) - 1 : t[j] = srv[j + 1]
        /\ Head(srv) = srv[1]
    BY HeadTailProperties, LenProperties
  <1> HIDE DEF t
  <1>2. \A j \in DOMAIN t : j + 1 \in DOMAIN srv /\ t[j] = srv[j + 1] /\ j \in Nat /\ j + 1 # 1
    BY <1>1
  <1>3. OneActLU(t, lu)
    BY <1>2 DEF OneActLU
  <1>4. 1 \in DOMAIN srv
    BY <1>1
  <1>5. IsActLU(Head(srv), lu) => \A q \in Range(t) : ~IsActLU(q, lu)
    BY <1>1, <1>2, <1>4 DEF OneActLU, Range
  <1> QED BY <1>3, <1>5 DEF t

(***************************************************************************)
(* The weaker half of AnsweredOnce, which a lost link and a dropped        *)
(* request leave true: an LU that waits for nothing has no request and no  *)
(* response on the link, and one that waits has at most one of them.       *)
(***************************************************************************)
AtMostOnce(lu, gw, srv, request) ==
    \E w \in BOOLEAN : (w => request # "none") /\ AnsweredOnce(lu, gw, srv, w)

\* Reading a PIU, whether it is answered, ignored or lost.
LEMMA ReadAtMostOnce ==
  ASSUME NEW lu, NEW gw \in Seq(Inbound), NEW srv \in Seq(Outbound), NEW request,
         AtMostOnce(lu, gw, srv, request), gw # <<>>
  PROVE  /\ AtMostOnce(lu, Tail(gw), srv, request)
         /\ IsRequest(Head(gw)) =>
               AtMostOnce(lu, Tail(gw), Append(srv, PositiveRsp(Head(gw))), request)
  <1> DEFINE rsp == PositiveRsp(Head(gw))
  <1>1. PICK w \in BOOLEAN : (w => request # "none") /\ AnsweredOnce(lu, gw, srv, w)
    BY DEF AtMostOnce
  <1>2. rsp.type = "RSP" /\ rsp.lu = Head(gw).lu
    BY DEF PositiveRsp, Piu
  <1> HIDE DEF rsp
  <1>3. IsRequest(Head(gw)) => AtMostOnce(lu, Tail(gw), Append(srv, rsp), request)
    BY <1>1, <1>2, ReadAndAnswer DEF AtMostOnce
  <1>4. CASE ~IsRequest(Head(gw))
    BY <1>1, <1>3, <1>4, ReadOther DEF AtMostOnce, rsp
  <1>5. CASE IsRequest(Head(gw))
    <2>1. /\ Len(gw) \in Nat /\ DOMAIN gw = 1 .. Len(gw) /\ Len(gw) >= 1
          /\ DOMAIN Tail(gw) = 1 .. Len(gw) - 1
          /\ \A i \in 1 .. Len(gw) - 1 : Tail(gw)[i] = gw[i + 1]
          /\ Head(gw) = gw[1]
      BY HeadTailProperties, LenProperties
    <2>2. \A i \in DOMAIN Tail(gw) : i + 1 \in DOMAIN gw /\ Tail(gw)[i] = gw[i + 1] /\ i + 1 # 1
      BY <2>1
    <2>3. \A i, k \in DOMAIN Tail(gw) :
             Asks(Tail(gw)[i], lu) /\ Asks(Tail(gw)[k], lu) => i = k
      BY <1>1, <2>1, <2>2 DEF AnsweredOnce
    <2>4. CASE Head(gw).lu = lu
      <3>1. Asks(gw[1], lu) /\ 1 \in DOMAIN gw
        BY <1>5, <2>1, <2>4 DEF Asks
      <3>2. \A i \in DOMAIN Tail(gw) : ~Asks(Tail(gw)[i], lu)
        BY <1>1, <2>2, <3>1 DEF AnsweredOnce
      <3>3. \A j \in DOMAIN srv : ~Answers(srv[j], lu)
        BY <1>1, <3>1 DEF AnsweredOnce
      <3>4. AnsweredOnce(lu, Tail(gw), srv, FALSE)
        BY <3>2, <3>3 DEF AnsweredOnce
      <3> QED BY <1>3, <1>5, <3>4 DEF AtMostOnce, rsp
    <2>5. CASE Head(gw).lu # lu
      <3>1. ~Asks(gw[1], lu)
        BY <2>1, <2>5 DEF Asks
      <3>2. \A i \in DOMAIN gw : i = 1 \/ (i - 1 \in DOMAIN Tail(gw) /\ gw[i] = Tail(gw)[i - 1])
        BY <2>1
      <3>3. (\E i \in DOMAIN gw : Asks(gw[i], lu)) <=> \E i \in DOMAIN Tail(gw) : Asks(Tail(gw)[i], lu)
        BY <2>2, <3>1, <3>2
      <3>4. AnsweredOnce(lu, Tail(gw), srv, w)
        BY <1>1, <2>2, <2>3, <3>3 DEF AnsweredOnce
      <3> QED BY <1>1, <1>3, <1>5, <3>4 DEF AtMostOnce, rsp
    <2> QED BY <2>4, <2>5
  <1> QED BY <1>4, <1>5

\* Writing anything but a response, on a link that may be gone.
LEMMA WriteAtMostOnce ==
  ASSUME NEW lu, NEW gw, NEW srv \in Seq(Outbound), NEW request, AtMostOnce(lu, gw, srv, request),
         NEW q, q.type # "RSP"
  PROVE  /\ AtMostOnce(lu, gw, Append(srv, q), request)
         /\ AtMostOnce(lu, gw, Sent(srv, q), request)
  <1>1. PICK w \in BOOLEAN : (w => request # "none") /\ AnsweredOnce(lu, gw, srv, w)
    BY DEF AtMostOnce
  <1>2. AnsweredOnce(lu, gw, Append(srv, q), w)
    BY <1>1, WriteOther
  <1> QED BY <1>1, <1>2 DEF AtMostOnce, Sent

\* SNA Server sends a request of an LU that waits for nothing, or another PIU.
LEMMA SendAtMostOnce ==
  ASSUME NEW lu, NEW gw \in Seq(Inbound), NEW srv, NEW request,
         AtMostOnce(lu, gw, srv, request), NEW piu
  PROVE  /\ ~Asks(piu, lu) => AtMostOnce(lu, Append(gw, piu), srv, request)
         /\ Asks(piu, lu) /\ request = "none" =>
               \A next : next # "none" => AtMostOnce(lu, Append(gw, piu), srv, next)
  <1>1. PICK w \in BOOLEAN : (w => request # "none") /\ AnsweredOnce(lu, gw, srv, w)
    BY DEF AtMostOnce
  <1>2. ASSUME ~Asks(piu, lu) PROVE AtMostOnce(lu, Append(gw, piu), srv, request)
    BY <1>1, <1>2, ServerSends DEF AtMostOnce
  <1>3. ASSUME Asks(piu, lu), request = "none", NEW next, next # "none"
        PROVE  AtMostOnce(lu, Append(gw, piu), srv, next)
    <2>1. AnsweredOnce(lu, Append(gw, piu), srv, TRUE)
      BY <1>1, <1>3, ServerSends
    <2> QED BY <1>3, <2>1 DEF AtMostOnce
  <1> QED BY <1>2, <1>3

\* SNA Server reads a PIU: after the response of this LU it waits for nothing.
LEMMA ReceiveAtMostOnce ==
  ASSUME NEW lu, NEW gw, NEW srv \in Seq(Outbound), NEW request,
         AtMostOnce(lu, gw, srv, request), srv # <<>>
  PROVE  /\ AtMostOnce(lu, gw, Tail(srv), request)
         /\ Answers(Head(srv), lu) => AtMostOnce(lu, gw, Tail(srv), "none")
  <1>1. PICK w \in BOOLEAN : (w => request # "none") /\ AnsweredOnce(lu, gw, srv, w)
    BY DEF AtMostOnce
  <1>2. /\ ~Answers(Head(srv), lu) => AnsweredOnce(lu, gw, Tail(srv), w)
        /\ Answers(Head(srv), lu) => AnsweredOnce(lu, gw, Tail(srv), FALSE)
    BY <1>1, ServerReads
  <1>3. CASE Answers(Head(srv), lu)
    BY <1>2, <1>3 DEF AtMostOnce
  <1>4. CASE ~Answers(Head(srv), lu)
    BY <1>1, <1>2, <1>4 DEF AtMostOnce
  <1> QED BY <1>3, <1>4

\* An LU that waits for nothing has nothing on the link.
LEMMA NothingAsked ==
  ASSUME NEW lu, NEW gw, NEW srv, AtMostOnce(lu, gw, srv, "none")
  PROVE  /\ \A p \in Range(gw) : ~Asks(p, lu)
         /\ \A q \in Range(srv) : ~Answers(q, lu)
  <1>1. AnsweredOnce(lu, gw, srv, FALSE)
    BY DEF AtMostOnce
  <1> QED BY <1>1 DEF AnsweredOnce, Range

-----------------------------------------------------------------------------
(* What any step of the gateway reads and writes.  Several invariants need *)
(* no more of the thirty actions than this.                                *)

\* A PIU the gateway may write: BIND and SDT to the LU it is serving.
Written(q) ==
    \/ q.type \in {"ACTPU", "DATA"}
    \/ /\ q.type = "RSP" /\ pc \in {"observe", "actlu_wait"}
       /\ Recv /\ IsRequest(Head(toGw)) /\ q.lu = Head(toGw).lu
    \/ q.type = "ACTLU" /\ SendActLU /\ q.lu = LuList[idx]
    \/ q.type \in {"BIND", "SDT"} /\ q.lu = cur'.lu

\* What comes from the link only gets less, what goes to it is an old PIU or
\* one of those above.
Flows ==
    /\ UNCHANGED serverVars
    /\ Range(toGw') \subseteq Range(toGw)
    /\ \A q \in Range(toSrv') : q \in Range(toSrv) \/ Written(q)
    /\ \/ cur' = cur
       \/ \E p \in Range(toGw) :
             IsRequest(p) /\ p.type = "LINE" /\ cur' = [lu |-> p.lu, att |-> p.att]
    /\ \A lu : /\ OneActLU(toSrv, lu)
               /\ SendActLU /\ lu = LuList[idx] => \A q \in Range(toSrv) : ~IsActLU(q, lu)
               => OneActLU(toSrv', lu)
    /\ \A lu, request :
          AtMostOnce(lu, toGw, toSrv, request) => AtMostOnce(lu, toGw', toSrv', request)

\* Reading one PIU, or none, and writing none, or one, is such a flow.
LEMMA FlowsIf ==
  ASSUME TypeInv, Recv \/ UNCHANGED <<toGw, serverVars>>,
         \/ toSrv' = toSrv
         \/ \E q : /\ Written(q) /\ q.type # "RSP"
                 /\ toSrv' \in {Sent(toSrv, q), Append(toSrv, q)}
         \/ pc \in {"observe", "actlu_wait"} /\ IsRequest(Head(toGw)) /\ Recv /\
            (toSrv' = Acked \/ \E q : Written(q) /\ q.type # "RSP" /\ toSrv' = Sent(Acked, q)),
         \/ cur' = cur
         \/ /\ Recv /\ IsRequest(Head(toGw)) /\ Head(toGw).type = "LINE"
            /\ cur' = [lu |-> Head(toGw).lu, att |-> Head(toGw).att]
  PROVE  Flows
  <1>1. toGw \in Seq(Inbound) /\ toSrv \in Seq(Outbound)
    BY DEF TypeInv, ServerTypeOK, Inbound
  <1>2. Range(toGw') \subseteq Range(toGw) /\ UNCHANGED serverVars
    BY <1>1, RangeTail DEF Recv
  <1>3. Recv => Head(toGw) \in Range(toGw)
    BY <1>1, RangeTail DEF Recv
  <1>4. ASSUME NEW q, toSrv' \in {Sent(toSrv, q), Append(toSrv, q)}
        PROVE  Range(toSrv') \subseteq Range(toSrv) \cup {q}
    BY <1>1, <1>4, RangeSent, RangeAppend, ZenonT(60)
  <1>5. ASSUME pc \in {"observe", "actlu_wait"}, IsRequest(Head(toGw)), Recv
        PROVE  /\ Acked \in Seq(Outbound) /\ Written(PositiveRsp(Head(toGw)))
               /\ Range(Acked) \subseteq Range(toSrv) \cup {PositiveRsp(Head(toGw))}
    <2>1. PositiveRsp(Head(toGw)) \in Outbound
      BY <1>5, HeadType DEF TypeInv, Recv
    <2> QED BY <1>1, <1>5, <2>1, SentType, RangeSent DEF Acked, Written, PositiveRsp, Piu
  <1>6. \A q \in Range(toSrv') : q \in Range(toSrv) \/ Written(q)
    <2>1. CASE toSrv' = toSrv
      BY <2>1
    <2>2. CASE \E q : Written(q) /\ toSrv' \in {Sent(toSrv, q), Append(toSrv, q)}
      BY <1>4, <2>2
    <2>3. CASE pc \in {"observe", "actlu_wait"} /\ IsRequest(Head(toGw)) /\ Recv /\ toSrv' = Acked
      BY <1>5, <2>3
    <2>4. ASSUME pc \in {"observe", "actlu_wait"}, IsRequest(Head(toGw)), Recv, NEW q, Written(q), toSrv' = Sent(Acked, q)
          PROVE  \A r \in Range(toSrv') : r \in Range(toSrv) \/ Written(r)
      <3>1. Range(toSrv') \subseteq Range(Acked) \cup {q}
        BY <1>5, <2>4, RangeSent
      <3> QED BY <1>5, <2>4, <3>1
    <2> QED BY <2>1, <2>2, <2>3, <2>4
  <1>7. ASSUME NEW lu, OneActLU(toSrv, lu),
               SendActLU /\ lu = LuList[idx] => \A q \in Range(toSrv) : ~IsActLU(q, lu)
        PROVE  OneActLU(toSrv', lu)
    <2>1. ASSUME NEW q, Written(q) PROVE IsActLU(q, lu) => \A r \in Range(toSrv) : ~IsActLU(r, lu)
      BY <1>7, <2>1 DEF Written, IsActLU
    <2>2. CASE toSrv' = toSrv
      BY <1>7, <2>2
    <2>3. CASE \E q : Written(q) /\ toSrv' \in {Sent(toSrv, q), Append(toSrv, q)}
      BY <1>1, <1>7, <2>1, <2>3, ActLUAppend DEF Sent
    <2>4. ASSUME IsRequest(Head(toGw)), Recv
          PROVE  OneActLU(Acked, lu)
      <3>1. ~IsActLU(PositiveRsp(Head(toGw)), lu)
        BY DEF PositiveRsp, Piu, IsActLU
      <3> QED BY <1>1, <1>7, <3>1, ActLUAppend DEF Acked, Sent
    <2>5. ASSUME pc \in {"observe", "actlu_wait"}, IsRequest(Head(toGw)), Recv, NEW q, Written(q),
                 toSrv' = Sent(Acked, q)
          PROVE  OneActLU(toSrv', lu)
      <3>1. IsActLU(q, lu) => \A r \in Range(Acked) : ~IsActLU(r, lu)
        BY <1>5, <2>1, <2>5 DEF PositiveRsp, Piu, IsActLU
      <3> QED BY <1>5, <2>4, <2>5, <3>1, ActLUAppend DEF Sent
    <2> QED BY <2>2, <2>3, <2>4, <2>5
  <1>8. ASSUME NEW lu, NEW request, AtMostOnce(lu, toGw, toSrv, request)
        PROVE  AtMostOnce(lu, toGw', toSrv', request)
    <2>1. AtMostOnce(lu, toGw', toSrv, request)
      BY <1>1, <1>8, ReadAtMostOnce DEF Recv
    <2>2. CASE toSrv' = toSrv
      BY <2>1, <2>2
    <2>3. CASE \E q : q.type # "RSP" /\ toSrv' \in {Sent(toSrv, q), Append(toSrv, q)}
      BY <1>1, <2>1, <2>3, WriteAtMostOnce
    <2>4. ASSUME IsRequest(Head(toGw)), Recv PROVE AtMostOnce(lu, toGw', Acked, request)
      <3>1. toGw # <<>> /\ toGw' = Tail(toGw)
        BY <2>4 DEF Recv
      <3>2. AtMostOnce(lu, Tail(toGw), Append(toSrv, PositiveRsp(Head(toGw))), request)
        BY <1>1, <1>8, <2>4, <3>1, ReadAtMostOnce
      <3> QED BY <2>1, <3>1, <3>2 DEF Acked, Sent
    <2>5. CASE IsRequest(Head(toGw)) /\ Recv /\ toSrv' = Acked
      BY <2>4, <2>5
    <2>6. CASE /\ pc \in {"observe", "actlu_wait"} /\ IsRequest(Head(toGw)) /\ Recv
               /\ \E q : q.type # "RSP" /\ toSrv' = Sent(Acked, q)
      BY <1>5, <2>4, <2>6, WriteAtMostOnce
    <2> QED BY <2>2, <2>3, <2>5, <2>6
  <1> QED BY <1>2, <1>3, <1>6, <1>7, <1>8 DEF Flows

\* Every step of the gateway is such a flow.
LEMMA GatewayFlows == TypeInv /\ (ProbeNext \/ BridgeNext) => Flows
  <1> SUFFICES ASSUME TypeInv, ProbeNext \/ BridgeNext PROVE Flows
    OBVIOUS
  <1>1. \A type, lu, n : type # "RSP" => Piu(type, lu, n).type # "RSP"
    BY DEF Piu
  <1>2. \A lu, n : Written(Piu("DATA", lu, n)) /\ Written(Piu("ACTPU", lu, n))
    BY DEF Written, Piu
  <1>3. \A lu, n : lu = cur'.lu => Written(Piu("BIND", lu, n)) /\ Written(Piu("SDT", lu, n))
    BY DEF Written, Piu
  <1>4. CASE Activation
    <2>1. CASE SendActPU
      BY <1>1, <1>2, <2>1, FlowsIf DEF SendActPU
    <2>2. CASE RecvActPU
      BY <2>2, FlowsIf DEF RecvActPU
    <2>3. CASE ActPUTimeout
      BY <2>3, FlowsIf DEF ActPUTimeout, Exit
    <2>4. CASE SendActLU
      <3>1. Written(Piu("ACTLU", LuList[idx], Inc(snf)))
        BY <2>4 DEF Written, Piu
      <3> QED BY <1>1, <2>4, <3>1, FlowsIf DEF SendActLU
    <2>5. CASE ActivationDone
      BY <2>5, FlowsIf DEF ActivationDone, linkVars
    <2>6. CASE RecvAck
      BY <2>6, FlowsIf DEF RecvAck, Acked
    <2>7. CASE AckTimeout
      BY <2>7, FlowsIf DEF AckTimeout, RecvTimeout
    <2> QED BY <1>4, <2>1, <2>2, <2>3, <2>4, <2>5, <2>6, <2>7 DEF Activation
  <1>5. CASE ObserveLoop
    <2>1. ASSUME NEW type, Observe(type), cur' = cur,
                 toSrv' = Acked \/ \E n : SendData(n)
          PROVE  Flows
      BY <1>1, <1>2, <2>1, FlowsIf DEF Observe, SendData
    <2>2. CASE Discard
      BY <2>2, FlowsIf DEF Discard, probeVars, loopVars
    <2>3. CASE TearDown \/ MenuIdle
      BY <2>1, <2>3 DEF TearDown, MenuIdle, loopVars
    <2>4. CASE MenuReady \/ MenuLine \/ EchoReply
      BY <2>1, <2>4 DEF MenuReady, MenuLine, EchoReply
    <2>5. CASE ShowFile \/ UssScreen
      BY <2>1, <2>5 DEF ShowFile, UssScreen, loopVars
    <2>6. CASE UssBridge \/ Ignore
      BY <2>1, <2>6 DEF UssBridge, Ignore, loopVars, probeVars
    <2>7. CASE DeliverInput
      BY <2>7, FlowsIf DEF DeliverInput, Observe
    <2>8. CASE SendBind
      <3>1. Written(Piu("BIND", Head(toGw).lu, Inc(snf)))
        BY <1>1, <1>3, <2>8 DEF SendBind
      <3> QED BY <1>1, <2>8, <3>1, FlowsIf DEF SendBind, Observe
    <2>9. CASE ReadEnds
      BY <2>9, FlowsIf DEF ReadEnds, Exit
    <2> QED BY <1>5, <2>2, <2>3, <2>4, <2>5, <2>6, <2>7, <2>8, <2>9 DEF ObserveLoop
  <1>6. CASE InnerWait
    <2>1. CASE Deliver
      BY <2>1, FlowsIf DEF Deliver, linkVars
    <2>2. CASE RecvBindRsp
      BY <1>1, <1>3, <2>2, FlowsIf DEF RecvBindRsp
    <2>3. CASE BindTimeout
      BY <2>3, FlowsIf DEF BindTimeout, RecvTimeout
    <2>4. CASE SdtDone
      BY <2>4, FlowsIf DEF SdtDone, RecvTimeout
    <2>5. CASE SweepAccepted
      BY <2>5, FlowsIf DEF SweepAccepted
    <2>6. CASE SweepNext
      BY <1>1, <1>3, <2>6, FlowsIf, SMTT(60) DEF SweepNext, RecvTimeout
    <2> QED BY <1>6, <2>1, <2>2, <2>3, <2>4, <2>5, <2>6 DEF InnerWait
  <1>7. CASE BridgeNext
    BY <1>1, <1>2, <1>7, FlowsIf
       DEF BridgeNext, BridgeForward, BridgeScreen, BridgeClose, BridgeEnd, Bridge, loopVars
  <1> QED BY <1>4, <1>5, <1>6, <1>7 DEF ProbeNext

\* SNA Server reads one PIU and may answer it with a response.
LEMMA ServerAnswers ==
  ASSUME ServerReceives
  PROVE  /\ link = "up" /\ link' = link /\ toSrv # <<>> /\ toSrv' = Tail(toSrv)
         /\ \/ toGw' = toGw
            \/ \E r : r.rri = "response" /\ toGw' = Append(toGw, r)
  <1>1. ASSUME NEW t, NEW x, NEW pos, toGw' = Append(toGw, Rsp(t, x, pos))
        PROVE  \E r : r.rri = "response" /\ toGw' = Append(toGw, r)
    BY <1>1 DEF Rsp
  <1>2. CASE ReceiveActPU
    BY <1>1, <1>2 DEF ReceiveActPU, Receive
  <1>3. CASE ReceiveActLU
    BY <1>1, <1>3 DEF ReceiveActLU, Receive
  <1>4. CASE ReceiveRsp
    BY <1>4 DEF ReceiveRsp, Receive
  <1>5. CASE ReceiveData
    BY <1>1, <1>5 DEF ReceiveData, Receive
  <1>6. CASE ReceiveBind
    BY <1>1, <1>6 DEF ReceiveBind, Receive
  <1>7. CASE ReceiveSdt
    BY <1>1, <1>7 DEF ReceiveSdt, Receive
  <1> QED BY <1>2, <1>3, <1>4, <1>5, <1>6, <1>7 DEF ServerReceives

-----------------------------------------------------------------------------
(* Activation.  An LU that SNA Server has not been told to activate takes  *)
(* no part in anything, and with different LUs on the -lus list each is    *)
(* told once.                                                              *)

DistinctLus == \A i, k \in DOMAIN LuList : LuList[i] = LuList[k] => i = k

Dormant(lu) ==
    /\ owed[lu] = "none" /\ lulu[lu] = "none" /\ cur.lu # lu
    /\ \A p \in Range(toGw) : ~Asks(p, lu)
    /\ \A q \in Range(toSrv) : q.type \in {"BIND", "SDT"} => q.lu # lu

DormantInv == \A lu \in LU : luState[lu] = "inactive" => Dormant(lu)

Unsent == {k \in DOMAIN LuList : k > idx \/ (k = idx /\ pc # "actlu_wait")}

ActInv ==
    /\ pc = "actlu_wait" => idx <= Len(LuList)
    /\ \A k \in Unsent : /\ luState[LuList[k]] = "inactive"
                         /\ \A q \in Range(toSrv) : ~IsActLU(q, LuList[k])
    /\ \A lu \in LU : /\ OneActLU(toSrv, lu)
                      /\ \A q \in Range(toSrv) : IsActLU(q, lu) => luState[lu] = "inactive"

\* A dormant LU stays dormant under every step of the gateway ...
LEMMA GatewayDormant ==
  ASSUME TypeInv, DormantInv, Flows
  PROVE  DormantInv'
  <1> SUFFICES ASSUME NEW lu \in LU, luState[lu] = "inactive" PROVE Dormant(lu)'
    BY DEF DormantInv, Flows, serverVars
  <1>1. Dormant(lu)
    BY DEF DormantInv
  <1>2. cur'.lu # lu
    BY <1>1 DEF Flows, Dormant, Asks
  <1> QED BY <1>1, <1>2 DEF Flows, Written, Dormant, serverVars

\* ... and of SNA Server, until it is activated.
LEMMA ServerDormant ==
  ASSUME TypeInv, DormantInv, ServerNext, UNCHANGED cur
  PROVE  DormantInv'
  <1> SUFFICES ASSUME NEW lu \in LU, luState'[lu] = "inactive" PROVE Dormant(lu)'
    BY DEF DormantInv
  <1>1. /\ toGw \in Seq(Inbound) /\ toSrv \in Seq(Outbound)
        /\ owed \in [LU -> RequestType \cup {"none"}]
        /\ luState \in [LU -> {"inactive", "starting", "idle", "attached"}]
        /\ lulu \in [LU -> {"none", "bound", "active"}]
    BY DEF TypeInv, ServerTypeOK, Inbound
  <1>2. ASSUME luState[lu] = "inactive" PROVE Dormant(lu)
    BY <1>2 DEF DormantInv
  <1>3. ASSUME ServerOriginates PROVE Dormant(lu)'
    <2>1. PICK x \in LU : NotifyIdle(x) \/ NotifyReady(x) \/ TypeLine(x) \/ SendUnbind(x)
      BY <1>3 DEF ServerOriginates
    <2>2. PICK type, att : Originate(x, type, att)
      BY <2>1 DEF NotifyIdle, NotifyReady, TypeLine, SendUnbind
    <2>3. luState[lu] = "inactive" /\ lu # x
      <3>1. luState[x] # "inactive"
        BY <2>1 DEF NotifyIdle, NotifyReady, TypeLine, SendUnbind, DormantInv, Dormant
      <3> QED BY <1>1, <2>1, <3>1 DEF NotifyIdle, NotifyReady, TypeLine, SendUnbind
    <2>4. Dormant(lu) /\ lulu'[lu] = lulu[lu]
      BY <1>1, <1>2, <2>1, <2>3 DEF NotifyIdle, NotifyReady, TypeLine, SendUnbind
    <2>5. /\ owed'[lu] = owed[lu] /\ toSrv' = toSrv
          /\ Range(toGw') = Range(toGw) \cup
                {[rri |-> "request", type |-> type, lu |-> x, att |-> att]}
      BY <1>1, <2>2, <2>3, RangeAppend DEF Originate
    <2>6. \A p \in Range(toGw') : ~Asks(p, lu)
      BY <2>3, <2>4, <2>5 DEF Dormant, Asks
    <2> QED BY <2>4, <2>5, <2>6 DEF Dormant
  <1>4. ASSUME ServerReceives PROVE Dormant(lu)'
    <2> DEFINE h == Head(toSrv)
    <2>1. /\ toSrv # <<>> /\ toSrv' = Tail(toSrv)
          /\ toGw' = toGw \/ \E r : r.rri = "response" /\ toGw' = Append(toGw, r)
      BY <1>4, ServerAnswers
    <2>2. Range(toSrv) = {h} \cup Range(toSrv')
      BY <1>1, <2>1, RangeTail
    <2>3. luState[lu] = "inactive"
      BY <1>1, <1>4 DEF ServerReceives, ReceiveActPU, ReceiveActLU, ReceiveRsp, ReceiveData,
                  ReceiveBind, ReceiveSdt
    <2>4. Dormant(lu)
      BY <1>2, <2>3
    <2>5. \A p \in Range(toGw') : ~Asks(p, lu)
      <3>1. ASSUME NEW r, r.rri = "response", toGw' = Append(toGw, r)
            PROVE  \A p \in Range(toGw') : ~Asks(p, lu)
        <4>1. ~Asks(r, lu) /\ Range(toGw') = Range(toGw) \cup {r}
          BY <1>1, <3>1, RangeAppend, SMTT(60) DEF Asks, IsRequest
        <4> QED BY <2>4, <4>1 DEF Dormant
      <3> QED BY <2>1, <2>4, <3>1 DEF Dormant
    <2>6. owed'[lu] = "none"
      BY <1>1, <1>4, <2>4 DEF ServerReceives, ReceiveActPU, ReceiveActLU, ReceiveRsp, ReceiveData,
                  ReceiveBind, ReceiveSdt, Dormant
    <2>7. lulu'[lu] = "none"
      <3>1. h.type \in {"BIND", "SDT"} => h.lu # lu
        BY <2>2, <2>4 DEF Dormant
      <3> QED BY <1>1, <1>4, <2>4, <3>1 DEF ServerReceives, ReceiveActPU, ReceiveActLU, ReceiveRsp,
                  ReceiveData, ReceiveBind, ReceiveSdt, Receive, Dormant
    <2> QED BY <2>2, <2>4, <2>5, <2>6, <2>7 DEF Dormant
  <1>5. ASSUME LinkLost PROVE Dormant(lu)'
    BY <1>2, <1>5 DEF LinkLost, Dormant, serverVars
  <1> QED BY <1>3, <1>4, <1>5 DEF ServerNext

\* The main goroutine goes down the list: it marks one LU as sent, or none.
LEMMA ListProgress ==
  ASSUME TypeInv, ActInv, ProbeNext \/ BridgeNext
  PROVE  /\ pc' = "actlu_wait" => idx' <= Len(LuList)
         /\ Unsent' \subseteq Unsent
         /\ SendActLU => idx \in Unsent /\ idx \notin Unsent' /\ LuList[idx] \in LU
  <1>1. idx \in Nat /\ Len(LuList) \in Nat /\ DOMAIN LuList = 1 .. Len(LuList)
    BY LuListAssumption, LenProperties DEF TypeInv, ProbeTypeOK
  <1>2. CASE SendActLU
    <2>1. idx \in Unsent /\ idx \notin Unsent' /\ Unsent' \subseteq Unsent
      BY <1>1, <1>2 DEF SendActLU, Unsent, TypeInv, ProbeTypeOK
    <2> QED BY <1>1, <1>2, <2>1, LuListAssumption, ElementOfSeq DEF SendActLU, Unsent
  <1>3. CASE RecvAck \/ AckTimeout
    BY <1>1, <1>3 DEF RecvAck, AckTimeout, SendActLU, Unsent
  <1>4. CASE Activation /\ ~SendActLU /\ ~RecvAck /\ ~AckTimeout
    BY <1>1, <1>4 DEF Activation, SendActPU, RecvActPU, ActPUTimeout, Exit, ActivationDone, Unsent
  <1>5. CASE ObserveLoop
    <2>1. pc = "observe" /\ idx' = idx /\ pc' # "actlu_wait"
      BY <1>5 DEF ObserveLoop, Discard, TearDown, MenuIdle, MenuReady, MenuLine, EchoReply,
         ShowFile, UssBridge, UssScreen, DeliverInput, SendBind, Ignore, ReadEnds, Exit, Observe,
         probeVars, loopVars
    <2> QED BY <1>1, <2>1 DEF Unsent, SendActLU
  <1>6. CASE InnerWait
    <2>1. pc \notin {"actlu", "actlu_wait"} /\ idx' = idx /\ pc' # "actlu_wait"
      BY <1>6 DEF InnerWait, Deliver, RecvBindRsp, BindTimeout, SdtDone, SweepAccepted, SweepNext
    <2> QED BY <1>1, <2>1 DEF Unsent, SendActLU
  <1>7. CASE BridgeNext
    <2>1. pc' = pc /\ idx' = idx
      BY <1>7 DEF BridgeNext, BridgeForward, BridgeScreen, BridgeClose, BridgeEnd, Bridge, loopVars
    <2> QED BY <2>1 DEF Unsent, SendActLU, ActInv
  <1> QED BY <1>2, <1>3, <1>4, <1>5, <1>6, <1>7 DEF ProbeNext

\* The gateway sends an ACTLU only to an LU that has not been sent one.
LEMMA GatewayActivates ==
  ASSUME DistinctLus, TypeInv, ActInv, ProbeNext \/ BridgeNext
  PROVE  ActInv'
  <1>1. Flows /\ UNCHANGED luState
    BY GatewayFlows DEF Flows, serverVars
  <1>2. /\ pc' = "actlu_wait" => idx' <= Len(LuList)
        /\ Unsent' \subseteq Unsent /\ Unsent \subseteq DOMAIN LuList
        /\ SendActLU => idx \in Unsent /\ idx \notin Unsent' /\ LuList[idx] \in LU
    BY ListProgress DEF Unsent
  <1>3. \A q \in Range(toSrv') : q.type = "ACTLU" =>
           q \in Range(toSrv) \/ (SendActLU /\ q.lu = LuList[idx])
    BY <1>1 DEF Flows, Written
  <1>4. \A k \in Unsent' : \A q \in Range(toSrv') : ~IsActLU(q, LuList[k])
    BY <1>2, <1>3 DEF ActInv, IsActLU, DistinctLus
  <1>5. ASSUME NEW lu \in LU PROVE OneActLU(toSrv', lu)
    BY <1>1, <1>2 DEF ActInv, Flows
  <1>6. \A lu \in LU : \A q \in Range(toSrv') : IsActLU(q, lu) => luState[lu] = "inactive"
    BY <1>2, <1>3 DEF ActInv, IsActLU
  <1>7. \A k \in Unsent' : luState[LuList[k]] = "inactive"
    BY <1>2 DEF ActInv
  <1> QED BY <1>1, <1>2, <1>4, <1>5, <1>6, <1>7 DEF ActInv

\* An ACTLU that SNA Server reads was the only one on its way to the LU.
LEMMA ServerActivates ==
  ASSUME TypeInv, DormantInv, ActInv, ServerNext, UNCHANGED <<pc, idx>>
  PROVE  ActInv'
  <1>1. /\ toSrv \in Seq(Outbound)
        /\ luState \in [LU -> {"inactive", "starting", "idle", "attached"}]
    BY DEF TypeInv, ServerTypeOK
  <1>2. Unsent' = Unsent /\ \A k \in Unsent : LuList[k] \in LU
    BY LuListAssumption, LenProperties, ElementOfSeq DEF Unsent
  <1>3. SUFFICES ASSUME NEW lu \in LU
                 PROVE  /\ OneActLU(toSrv', lu)
                        /\ \A q \in Range(toSrv') : q \in Range(toSrv)
                        /\ luState[lu] = "inactive" =>
                              \/ luState'[lu] = "inactive"
                              \/ /\ \E q \in Range(toSrv) : IsActLU(q, lu)
                                 /\ \A q \in Range(toSrv') : ~IsActLU(q, lu)
    BY <1>2, <1>3 DEF ActInv
  <1>4. CASE ServerOriginates
    <2>1. PICK x \in LU : NotifyIdle(x) \/ NotifyReady(x) \/ TypeLine(x) \/ SendUnbind(x)
      BY <1>4 DEF ServerOriginates
    <2>2. toSrv' = toSrv
      BY <2>1 DEF NotifyIdle, NotifyReady, TypeLine, SendUnbind, Originate
    <2>3. luState[lu] = "inactive" => luState'[lu] = "inactive"
      BY <1>1, <2>1 DEF NotifyIdle, NotifyReady, TypeLine, SendUnbind
    <2> QED BY <2>2, <2>3 DEF ActInv
  <1>5. CASE ServerReceives
    <2>1. toSrv # <<>> /\ toSrv' = Tail(toSrv)
      BY <1>5, ServerAnswers
    <2>2. Range(toSrv) = {Head(toSrv)} \cup Range(toSrv')
      BY <1>1, <2>1, RangeTail
    <2>3. /\ OneActLU(toSrv', lu)
          /\ IsActLU(Head(toSrv), lu) => \A q \in Range(toSrv') : ~IsActLU(q, lu)
      BY <1>1, <2>1, ActLUTail DEF ActInv
    <2>4. luState'[lu] # luState[lu] => IsActLU(Head(toSrv), lu)
      BY <1>1, <1>5 DEF ServerReceives, ReceiveActPU, ReceiveActLU, ReceiveRsp, ReceiveData,
                  ReceiveBind, ReceiveSdt, Receive, IsActLU
    <2> QED BY <2>2, <2>3, <2>4
  <1>6. CASE LinkLost
    BY <1>6 DEF LinkLost, ActInv, serverVars
  <1> QED BY <1>4, <1>5, <1>6 DEF ServerNext

\* The initial state, and every step.
LEMMA InitActivation == Init => DormantInv /\ ActInv
  <1> SUFFICES ASSUME Init PROVE DormantInv /\ ActInv
    OBVIOUS
  <1>1. /\ toGw = <<>> /\ toSrv = <<>> /\ cur = NoTerminal /\ pc = "start"
        /\ owed = [lu \in LU |-> "none"] /\ lulu = [lu \in LU |-> "none"]
        /\ luState = [lu \in LU |-> "inactive"]
    BY DEF Init, ServerInit
  <1>2. Range(toGw) = {} /\ Range(toSrv) = {} /\ DOMAIN toSrv = {}
    BY <1>1, EmptySeq DEF Range
  <1>3. \A lu \in LU : cur.lu # lu
    <2>1. cur.lu = 0
      BY <1>1 DEF NoTerminal, PU
    <2>2. \A lu \in LU : lu \in 1 .. 255
      BY LUAssumption
    <2>3. 0 \notin 1 .. 255
      OBVIOUS
    <2> QED BY <2>1, <2>2, <2>3, ZenonT(60)
  <1>4. \A k \in Unsent : LuList[k] \in LU
    BY LuListAssumption, LenProperties, ElementOfSeq DEF Unsent
  <1> QED BY <1>1, <1>2, <1>3, <1>4 DEF DormantInv, Dormant, ActInv, OneActLU

LEMMA StepDormant == TypeInv /\ DormantInv /\ [Next]_vars => DormantInv'
  <1> SUFFICES ASSUME TypeInv, DormantInv, [Next]_vars PROVE DormantInv'
    OBVIOUS
  <1>1. CASE ProbeNext \/ BridgeNext
    BY <1>1, GatewayFlows, GatewayDormant
  <1>2. CASE ServerNext /\ UNCHANGED probeVars
    BY <1>2, ServerDormant DEF probeVars, loopVars
  <1>3. CASE UNCHANGED vars
    BY <1>3 DEF vars, serverVars, linkVars, probeVars, loopVars, DormantInv, Dormant
  <1> QED BY <1>1, <1>2, <1>3 DEF Next, Finished

LEMMA StepActivation ==
  ASSUME DistinctLus, TypeInv, DormantInv, ActInv, [Next]_vars
  PROVE  ActInv'
  <1>1. CASE ProbeNext \/ BridgeNext
    BY <1>1, GatewayActivates
  <1>2. CASE ServerNext /\ UNCHANGED probeVars
    BY <1>2, ServerActivates DEF probeVars, loopVars
  <1>3. CASE UNCHANGED vars
    BY <1>3 DEF vars, serverVars, linkVars, probeVars, loopVars, ActInv, Unsent, OneActLU
  <1> QED BY <1>1, <1>2, <1>3 DEF Next, Finished

-----------------------------------------------------------------------------
(* Menu sessions and their owners.                                         *)

Activating == {"start", "actpu_wait", "actlu", "actlu_wait"}

(***************************************************************************)
(* One LU with menu session m, of whose attachments att is the last, in    *)
(* state st.  What it asks is asked by the terminal attached now, and once *)
(* the gateway has read that the LU is idle the session is gone.           *)
(***************************************************************************)
MenuLu(lu, gw, m, att, st) ==
    /\ m \in {0, att}
    /\ \A p \in Range(gw) :
          Asks(p, lu) /\ p.type \in {"NOTIFY03", "LINE"} => p.att = att /\ st = "attached"
    /\ st = "idle" /\ (\A p \in Range(gw) : Asks(p, lu) => p.type # "NOTIFY01") => m = 0
    /\ st = "inactive" => m = 0

MenuInv ==
    /\ sessions = <<>> /\ session = 0
    /\ pc \in Activating => \A lu \in LU : menu[lu] = 0
    /\ link = "up" => \A lu \in LU : MenuLu(lu, toGw, menu[lu], attachNo[lu], luState[lu])

\* A step of the gateway that leaves the sessions alone reads no NOTIFY of an
\* idle terminal, unless the LU has no session.
LEMMA MenuKept ==
  ASSUME TypeInv, NEW lu, NEW m, NEW att, NEW st, MenuLu(lu, toGw, m, att, st),
         \/ toGw' = toGw
         \/ Recv /\ (~IsRequest(Head(toGw)) \/ Head(toGw).type # "NOTIFY01" \/ m = 0)
  PROVE  MenuLu(lu, toGw', m, att, st)
  <1>1. toGw \in Seq(Inbound)
    BY DEF TypeInv, ServerTypeOK, Inbound
  <1>2. CASE toGw' = toGw
    BY <1>2
  <1>3. CASE Recv /\ (~IsRequest(Head(toGw)) \/ Head(toGw).type # "NOTIFY01" \/ m = 0)
    <2>1. toGw' = Tail(toGw) /\ Range(toGw) = {Head(toGw)} \cup Range(toGw')
      BY <1>1, <1>3, RangeTail DEF Recv
    <2> QED BY <1>3, <2>1 DEF MenuLu, Asks
  <1> QED BY <1>2, <1>3

\* In menu mode the gateway keeps every session with its owner.
LEMMA GatewayMenu ==
  ASSUME Set("menu"), AnswerInv, MenuInv, ProbeNext \/ BridgeNext
  PROVE  MenuInv'
  <1>1. TypeInv /\ toGw \in Seq(Inbound) /\ menu \in [LU -> Nat] /\ UNCHANGED <<luState, attachNo>>
    BY GatewayFlows DEF AnswerInv, TypeInv, ServerTypeOK, ProbeTypeOK, Inbound, Flows, serverVars
  <1>2. ~HostMode /\ ~BindMode
    BY DEF HostMode, BindMode
  <1>3. ASSUME NEW lu \in LU, link = "up" PROVE MenuLu(lu, toGw, menu[lu], attachNo[lu], luState[lu])
    BY <1>3 DEF MenuInv
  <1>4. CASE Activation
    <2>1. UNCHANGED <<menu, session, sessions>> /\ pc \in Activating /\ (link' = "up" => link = "up")
          /\ (toGw' = toGw \/ Recv)
      BY <1>4 DEF Activation, SendActPU, RecvActPU, ActPUTimeout, Exit, SendActLU, ActivationDone,
                  RecvAck, AckTimeout, RecvTimeout, Recv, linkVars, Activating
    <2> QED BY <1>1, <1>3, <2>1, MenuKept DEF MenuInv
  <1>5. CASE Discard \/ EchoReply \/ ShowFile \/ UssScreen \/ Ignore
    <2>1. Recv /\ (~IsRequest(Head(toGw)) \/ Head(toGw).type # "NOTIFY01")
          /\ UNCHANGED <<menu, session, sessions, pc>> /\ pc = "observe"
      BY <1>2, <1>5 DEF Discard, EchoReply, ShowFile, UssScreen, Ignore, Ignored, Observe,
                         UssAttach, MenuInv, probeVars, loopVars
    <2> QED BY <1>1, <1>3, <2>1, MenuKept DEF MenuInv, Recv, Activating
  <1>6. CASE MenuIdle \/ MenuReady \/ MenuLine
    <2> DEFINE p == Head(toGw)
    <2>1. /\ Recv /\ IsRequest(p) /\ p \in Request /\ p \in Range(toGw)
          /\ Range(toGw') \subseteq Range(toGw) /\ toGw' = Tail(toGw)
          /\ UNCHANGED <<session, sessions, pc, link>> /\ pc = "observe"
      <3>1. Observe("NOTIFY01") \/ Observe("NOTIFY03") \/ Observe("LINE")
        BY <1>6 DEF MenuIdle, MenuReady, MenuLine
      <3>2. Recv /\ IsRequest(p) /\ pc = "observe"
        BY <3>1 DEF Observe
      <3>3. p \in Request /\ p \in Range(toGw) /\ Range(toGw') \subseteq Range(toGw)
            /\ toGw' = Tail(toGw) /\ UNCHANGED link
        BY <1>1, <3>2, HeadType, RangeTail DEF Recv, TypeInv
      <3>4. UNCHANGED <<session, sessions, pc>>
        BY <1>6 DEF MenuIdle, MenuReady, MenuLine, loopVars
      <3> QED BY <3>2, <3>3, <3>4
    <2>2. ASSUME NEW lu \in LU, link = "up", lu # p.lu
          PROVE  MenuLu(lu, toGw', menu'[lu], attachNo[lu], luState[lu])
      <3>1. menu'[lu] = menu[lu]
        BY <1>1, <1>6, <2>2 DEF MenuIdle, MenuReady, MenuLine
      <3>2. \A q \in Range(toGw) : Asks(q, lu) => q \in Range(toGw')
        BY <1>1, <2>1, <2>2, RangeTail DEF Asks, Recv
      <3>3. MenuLu(lu, toGw, menu[lu], attachNo[lu], luState[lu])
        BY <1>3, <2>2
      <3> QED BY <2>1, <3>1, <3>2, <3>3 DEF MenuLu
    <2>3. ASSUME link = "up"
          PROVE  MenuLu(p.lu, toGw', menu'[p.lu], attachNo[p.lu], luState[p.lu])
      <3> DEFINE lu == p.lu
      <3>1. lu \in LU /\ Asks(p, lu)
        BY <2>1 DEF Request, Asks
      <3>2. MenuLu(lu, toGw, menu[lu], attachNo[lu], luState[lu])
        BY <1>3, <2>3, <3>1
      <3>3. CASE MenuIdle
        <4>1. menu'[lu] = 0
          BY <1>1, <3>1, <3>3 DEF MenuIdle
        <4> QED BY <2>1, <3>2, <4>1 DEF MenuLu
      <3>4. CASE MenuReady \/ MenuLine
        <4>1. p.type \in {"NOTIFY03", "LINE"}
          BY <3>4 DEF MenuReady, MenuLine, Observe
        <4>2. p.att = attachNo[lu] /\ luState[lu] = "attached"
          BY <2>1, <3>1, <3>2, <4>1 DEF MenuLu
        <4>3. menu'[lu] \in {menu[lu], p.att}
          BY <1>1, <3>1, <3>4 DEF MenuReady, MenuLine
        <4> QED BY <2>1, <3>2, <4>2, <4>3 DEF MenuLu
      <3> QED BY <1>6, <3>3, <3>4
    <2> HIDE DEF p
    <2> QED BY <1>1, <2>1, <2>2, <2>3 DEF MenuInv, Activating
  <1>7. CASE ReadEnds
    BY <1>7 DEF ReadEnds, Exit, MenuInv, Activating
  <1>8. ~TearDown /\ ~UssBridge /\ ~DeliverInput /\ ~SendBind
    BY <1>2 DEF TearDown, UssBridge, UssAttach, DeliverInput, SendBind, MenuInv
  <1>9. CASE InnerWait
    <2>1. Deliver
      BY <1>9 DEF InnerWait, RecvBindRsp, BindTimeout, SdtDone, SweepAccepted, SweepNext, AnswerInv
    <2>2. UNCHANGED <<linkVars, session, menu>> /\ pc' = "observe" /\ sessions' = <<>>
      <3>1. sessions' = [sessions EXCEPT ![session].inbound = Append(@, cur)] \/ UNCHANGED sessions
        BY <2>1 DEF Deliver
      <3>2. sessions = <<>> /\ DOMAIN sessions = {}
        BY EmptySeq DEF MenuInv
      <3>3. sessions' = sessions
        BY <3>1, <3>2
      <3> QED BY <2>1, <3>2, <3>3 DEF Deliver
    <2> QED BY <1>1, <2>2 DEF MenuInv, Activating, linkVars
  <1>10. ~BridgeNext
    BY EmptySeq DEF BridgeNext, MenuInv
  <1> QED BY <1>4, <1>5, <1>6, <1>7, <1>8, <1>9, <1>10 DEF ProbeNext, ObserveLoop

\* SNA Server and the terminals do too.
LEMMA ServerMenu ==
  ASSUME AnswerInv, DormantInv, ActInv, MenuInv, ServerNext, UNCHANGED probeVars
  PROVE  MenuInv'
  <1> SUFFICES ASSUME link' = "up", NEW lu \in LU
               PROVE  MenuLu(lu, toGw', menu[lu], attachNo'[lu], luState'[lu])
    BY DEF MenuInv, probeVars, loopVars
  <1>1. /\ toGw \in Seq(Inbound) /\ toSrv \in Seq(Outbound)
        /\ attachNo \in [LU -> Nat] /\ luState \in [LU -> {"inactive", "starting", "idle", "attached"}]
    BY DEF AnswerInv, TypeInv, ServerTypeOK, Inbound
  <1>2. link = "up"
    BY ServerAnswers DEF ServerNext, ServerOriginates, NotifyIdle, NotifyReady, TypeLine, SendUnbind,
                         Originate, LinkLost
  <1>3. /\ MenuLu(lu, toGw, menu[lu], attachNo[lu], luState[lu])
        /\ \A p \in Range(toGw) : Asks(p, lu) => owed[lu] # "none"
    BY <1>1, <1>2, AskedOnce DEF MenuInv, AnswerInv, EveryRequestAnswered
  <1>4. CASE ServerOriginates
    <2>1. PICK x \in LU : NotifyIdle(x) \/ NotifyReady(x) \/ TypeLine(x) \/ SendUnbind(x)
      BY <1>4 DEF ServerOriginates
    <2> DEFINE req(type, att) == [rri |-> "request", type |-> type, lu |-> x, att |-> att]
    <2>2. ASSUME NEW type, NEW att, Originate(x, type, att)
          PROVE  Range(toGw') = Range(toGw) \cup {req(type, att)} /\ owed[x] = "none"
      BY <1>1, <2>2, RangeAppend DEF Originate
    <2>3. \A type, att : /\ Asks(req(type, att), x) /\ (x # lu => ~Asks(req(type, att), lu))
                         /\ req(type, att).type = type /\ req(type, att).att = att
      BY DEF Asks, IsRequest
    <2> HIDE DEF req
    <2>4. CASE x # lu
      <3>1. PICK type, att : Originate(x, type, att)
        BY <2>1 DEF NotifyIdle, NotifyReady, TypeLine, SendUnbind
      <3>2. attachNo'[lu] = attachNo[lu] /\ luState'[lu] = luState[lu]
        BY <1>1, <2>1, <2>4 DEF NotifyIdle, NotifyReady, TypeLine, SendUnbind
      <3>3. \A p \in Range(toGw') : Asks(p, lu) => p \in Range(toGw)
        BY <2>2, <2>3, <2>4, <3>1
      <3>4. \A p \in Range(toGw) : p \in Range(toGw')
        BY <2>2, <3>1
      <3> QED BY <1>3, <3>2, <3>3, <3>4 DEF MenuLu
    <2>5. CASE x = lu /\ NotifyIdle(x)
      <3>1. Range(toGw') = Range(toGw) \cup {req("NOTIFY01", attachNo[lu])} /\ owed[lu] = "none"
        BY <2>2, <2>5 DEF NotifyIdle
      <3>2. luState'[lu] = "idle" /\ attachNo'[lu] = attachNo[lu]
        BY <1>1, <2>5 DEF NotifyIdle
      <3> QED BY <1>3, <2>3, <2>5, <3>1, <3>2 DEF MenuLu
    <2>6. CASE x = lu /\ NotifyReady(x)
      <3>1. Range(toGw') = Range(toGw) \cup {req("NOTIFY03", attachNo[lu] + 1)} /\ owed[lu] = "none"
        BY <2>2, <2>6 DEF NotifyReady
      <3>2. luState'[lu] = "attached" /\ attachNo'[lu] = attachNo[lu] + 1 /\ luState[lu] = "idle"
        BY <1>1, <2>6 DEF NotifyReady
      <3>3. menu[lu] = 0
        BY <1>3, <3>1, <3>2 DEF MenuLu
      <3> QED BY <1>3, <2>3, <2>6, <3>1, <3>2, <3>3 DEF MenuLu
    <2>7. CASE x = lu /\ (TypeLine(x) \/ SendUnbind(x))
      <3>1. \E type \in {"LINE", "UNBIND"} :
               /\ Range(toGw') = Range(toGw) \cup {req(type, attachNo[lu])}
               /\ type = "LINE" => luState[lu] = "attached"
        BY <2>2, <2>7 DEF TypeLine, SendUnbind
      <3>2. luState'[lu] = luState[lu] /\ attachNo'[lu] = attachNo[lu]
        BY <2>7 DEF TypeLine, SendUnbind
      <3> QED BY <1>3, <2>3, <2>7, <3>1, <3>2 DEF MenuLu
    <2> QED BY <2>1, <2>4, <2>5, <2>6, <2>7
  <1>5. CASE ServerReceives
    <2>1. toSrv # <<>> /\ (toGw' = toGw \/ \E r : r.rri = "response" /\ toGw' = Append(toGw, r))
      BY <1>5, ServerAnswers
    <2>2. \A p : Asks(p, lu) => (p \in Range(toGw') <=> p \in Range(toGw))
      <3>1. ASSUME NEW r, r.rri = "response", toGw' = Append(toGw, r)
            PROVE  Range(toGw') = Range(toGw) \cup {r} /\ ~Asks(r, lu)
        BY <1>1, <3>1, RangeAppend DEF Asks, IsRequest
      <3> QED BY <2>1, <3>1
    <2>3. CASE attachNo'[lu] = attachNo[lu] /\ luState'[lu] = luState[lu]
      BY <1>3, <2>2, <2>3 DEF MenuLu
    <2>4. CASE ~(attachNo'[lu] = attachNo[lu] /\ luState'[lu] = luState[lu])
      <3>1. IsActLU(Head(toSrv), lu) /\ luState'[lu] # "idle"
        BY <1>1, <1>5, <2>4 DEF ServerReceives, ReceiveActPU, ReceiveActLU, ReceiveRsp, ReceiveData,
                    ReceiveBind, ReceiveSdt, Receive, IsActLU
      <3>2. luState[lu] = "inactive"
        BY <1>1, <2>1, <3>1, RangeTail DEF ActInv
      <3>3. menu[lu] = 0 /\ \A p \in Range(toGw) : ~Asks(p, lu)
        BY <1>3, <3>2 DEF MenuLu, DormantInv, Dormant
      <3> QED BY <2>2, <3>1, <3>3 DEF MenuLu
    <2> QED BY <2>3, <2>4
  <1>6. CASE LinkLost
    BY <1>6 DEF LinkLost
  <1> QED BY <1>4, <1>5, <1>6 DEF ServerNext

\* Outside menu mode there are no menu sessions.
LEMMA NoMenu ==
  ASSUME ~Set("menu"), TypeInv, \A lu \in LU : menu[lu] = 0, [Next]_vars
  PROVE  \A lu \in LU : menu'[lu] = 0
  <1>1. menu' = menu
    <2>1. CASE Activation
      BY <2>1 DEF Activation, SendActPU, RecvActPU, ActPUTimeout, Exit, SendActLU, ActivationDone,
                  RecvAck, AckTimeout
    <2>2. CASE ObserveLoop
      BY <2>2 DEF ObserveLoop, Discard, TearDown, MenuIdle, MenuReady, MenuLine, EchoReply,
         ShowFile, UssBridge, UssScreen, DeliverInput, SendBind, Ignore, ReadEnds, Exit, probeVars
    <2>3. CASE InnerWait
      BY <2>3 DEF InnerWait, Deliver, RecvBindRsp, BindTimeout, SdtDone, SweepAccepted, SweepNext
    <2>4. CASE BridgeNext
      BY <2>4 DEF BridgeNext, BridgeForward, BridgeScreen, BridgeClose, BridgeEnd, Bridge
    <2>5. CASE UNCHANGED probeVars
      BY <2>5 DEF probeVars
    <2> QED BY <2>1, <2>2, <2>3, <2>4, <2>5 DEF Next, ProbeNext, Finished, vars
  <1> QED BY <1>1

(***************************************************************************)
(* With each LU listed once, a line typed at a terminal never reaches the  *)
(* menu session of the user who was there before: in every mode, for every *)
(* number of LUs, and when terminals were attached before the gateway      *)
(* started.  The argument: an LU that detaches waits for the response to   *)
(* its NOTIFY, so the gateway has dropped the session before the next      *)
(* terminal can attach.                                                    *)
(***************************************************************************)
THEOREM MenusHaveOwners == Spec => [](DistinctLus => MenuOwner)
  <1> DEFINE Inv == IF Set("menu")
                    THEN DistinctLus => AnswerInv /\ DormantInv /\ ActInv /\ MenuInv
                    ELSE TypeInv /\ \A lu \in LU : menu[lu] = 0
  <1>1. Init => Inv
    <2> SUFFICES ASSUME Init PROVE Inv
      OBVIOUS
    <2>1. /\ toGw = <<>> /\ sessions = <<>> /\ session = 0 /\ \A lu \in LU : menu[lu] = 0
          /\ attachNo = [lu \in LU |-> 0] /\ luState = [lu \in LU |-> "inactive"]
      BY DEF Init, ServerInit
    <2>2. Range(toGw) = {}
      BY <2>1, EmptySeq DEF Range
    <2>3. MenuInv
      BY <2>1, <2>2 DEF MenuInv, MenuLu
    <2> QED BY <2>1, <2>3, InitType, InitAnswers, InitActivation
  <1>2. Inv /\ [Next]_vars => Inv'
    <2> SUFFICES ASSUME Inv, [Next]_vars PROVE Inv'
      OBVIOUS
    <2>1. UNCHANGED flags
      BY DEF Next, vars
    <2>2. CASE ~Set("menu")
      BY <2>1, <2>2, NoMenu, StepType DEF Set
    <2>3. CASE Set("menu") /\ ~DistinctLus
      BY <2>1, <2>3 DEF Set, DistinctLus
    <2>4. CASE Set("menu") /\ DistinctLus
      <3>1. ~BindMode /\ TypeInv /\ AnswerInv /\ DormantInv /\ ActInv /\ MenuInv
        BY <2>4 DEF BindMode, HostMode, AnswerInv
      <3>2. AnswerInv' /\ DormantInv' /\ ActInv'
        BY <2>4, <3>1, StepAnswers, StepDormant, StepActivation
      <3>3. MenuInv'
        <4>1. CASE ProbeNext \/ BridgeNext
          BY <2>4, <3>1, <4>1, GatewayMenu
        <4>2. CASE ServerNext /\ UNCHANGED probeVars
          BY <3>1, <4>2, ServerMenu
        <4>3. CASE UNCHANGED vars
          BY <3>1, <4>3 DEF vars, serverVars, linkVars, probeVars, loopVars, MenuInv
        <4> QED BY <4>1, <4>2, <4>3 DEF Next, Finished
      <3> QED BY <2>1, <2>4, <3>2, <3>3 DEF Set
    <2> QED BY <2>2, <2>3, <2>4
  <1>3. Inv => (DistinctLus => MenuOwner)
    <2> SUFFICES ASSUME Inv, DistinctLus, link = "up", NEW i \in DOMAIN toGw,
                        IsRequest(toGw[i]), toGw[i].type = "LINE"
                 PROVE  menu[toGw[i].lu] \in {0, toGw[i].att}
      BY DEF MenuOwner
    <2> DEFINE lu == toGw[i].lu
    <2>1. TypeInv /\ toGw[i] \in Range(toGw)
      BY DEF AnswerInv, Range
    <2>2. lu \in LU /\ Asks(toGw[i], lu)
      <3>1. toGw \in Seq(Inbound)
        BY <2>1 DEF TypeInv, ServerTypeOK, Inbound
      <3>2. toGw[i] \in Inbound
        BY <3>1, ElementOfSeq, LenProperties
      <3> QED BY <3>2 DEF Inbound, Request, Response, IsRequest, Asks
    <2>3. CASE Set("menu")
      BY <2>1, <2>2, <2>3 DEF MenuInv, MenuLu
    <2>4. CASE ~Set("menu")
      BY <2>2, <2>4
    <2> QED BY <2>3, <2>4
  <1> HIDE DEF Inv
  <1> QED BY <1>1, <1>2, <1>3, PTL DEF Spec

-----------------------------------------------------------------------------
(* Screens and what asks for them.                                         *)

PromptOf(lu) == {p \in Inbound : Asks(p, lu) /\ p.type \in PromptType}
ScreenOf(lu) == {q \in Outbound : q.type = "DATA" /\ q.lu = lu}

\* The prompts that the gateway has not read and the screens on their way.
UnderWay(lu, gw, srv) == Count(gw, PromptOf(lu)) + Count(srv, ScreenOf(lu))

LEMMA UnderWayIs ==
  ASSUME TypeInv, NEW lu \in LU
  PROVE  /\ UnderWay(lu, toGw, toSrv) = Cardinality(Prompts(lu)) + Cardinality(Screens(lu))
         /\ UnderWay(lu, toGw, toSrv) \in Nat
  <1>1. toGw \in Seq(Inbound) /\ toSrv \in Seq(Outbound)
    BY DEF TypeInv, ServerTypeOK, Inbound
  <1>2. /\ \A i \in DOMAIN toGw : toGw[i] \in Inbound
        /\ \A j \in DOMAIN toSrv : toSrv[j] \in Outbound
    BY <1>1, ElementOfSeq, LenProperties
  <1>3. Prompts(lu) = {i \in DOMAIN toGw : toGw[i] \in PromptOf(lu)}
    BY <1>2 DEF Prompts, PromptOf
  <1>4. Screens(lu) = {j \in DOMAIN toSrv : toSrv[j] \in ScreenOf(lu)}
    BY <1>2 DEF Screens, ScreenOf
  <1>5. Count(toGw, PromptOf(lu)) \in Nat /\ Count(toSrv, ScreenOf(lu)) \in Nat
    BY <1>1, CountType
  <1> QED BY <1>3, <1>4, <1>5 DEF UnderWay, Count

\* While the link is up, reading a PIU that is no prompt and writing one that
\* is no screen changes nothing, and a screen in place of a prompt neither.
LEMMA SameUnderWay ==
  ASSUME TypeInv, NEW lu \in LU, link = "up",
         \/ toGw' = toGw
         \/ Recv /\ Head(toGw) \notin PromptOf(lu),
         \/ toSrv' = toSrv
         \/ \E q : q.type # "DATA" /\ toSrv' = Sent(toSrv, q)
  PROVE  UnderWay(lu, toGw', toSrv') = UnderWay(lu, toGw, toSrv)
  <1>1. toGw \in Seq(Inbound) /\ toSrv \in Seq(Outbound)
    BY DEF TypeInv, ServerTypeOK, Inbound
  <1>2. Count(toGw', PromptOf(lu)) = Count(toGw, PromptOf(lu))
    <2>1. CASE Recv /\ Head(toGw) \notin PromptOf(lu)
      <3>1. Tail(toGw) \in Seq(Inbound) /\ toGw # <<>> /\ toGw' = Tail(toGw)
        BY <1>1, <2>1, HeadTailProperties DEF Recv
      <3>2. Count(Tail(toGw), PromptOf(lu)) \in Nat
        BY <3>1, CountType
      <3> QED BY <1>1, <2>1, <3>1, <3>2, CountTail
    <2> QED BY <2>1
  <1>3. Count(toSrv', ScreenOf(lu)) = Count(toSrv, ScreenOf(lu))
    <2>1. ASSUME NEW q, q.type # "DATA", toSrv' = Sent(toSrv, q)
          PROVE  Count(toSrv', ScreenOf(lu)) = Count(toSrv, ScreenOf(lu))
      <3>1. q \notin ScreenOf(lu) /\ toSrv' = Append(toSrv, q) /\ Count(toSrv, ScreenOf(lu)) \in Nat
        BY <1>1, <2>1, CountType DEF ScreenOf, Sent
      <3> QED BY <1>1, <3>1, CountAppend
    <2> QED BY <2>1
  <1> QED BY <1>2, <1>3 DEF UnderWay

\* The observe loop reads a request, acknowledges it, and sends a screen if
\* and only if it was a prompt.
LEMMA PromptToScreen ==
  ASSUME TypeInv, NEW lu \in LU, link = "up", Recv, IsRequest(Head(toGw)), NEW n \in Snf,
         \/ Head(toGw).type \in PromptType /\ SendData(n)
         \/ Head(toGw).type \notin PromptType /\ toSrv' = Acked
  PROVE  UnderWay(lu, toGw', toSrv') = UnderWay(lu, toGw, toSrv)
  <1> DEFINE p == Head(toGw)
             P == PromptOf(lu)
             S == ScreenOf(lu)
             screen == Piu("DATA", p.lu, n)
  <1>1. toGw \in Seq(Inbound) /\ toSrv \in Seq(Outbound) /\ toGw # <<>> /\ toGw' = Tail(toGw)
    BY DEF TypeInv, ServerTypeOK, Inbound, Recv
  <1>2. p \in Request /\ p \in Inbound /\ PositiveRsp(p) \in Outbound
        /\ Tail(toGw) \in Seq(Inbound)
    BY <1>1, HeadType DEF TypeInv
  <1>3. /\ p \in P <=> p.lu = lu /\ p.type \in PromptType
        /\ PositiveRsp(p) \notin S
    BY <1>2 DEF PromptOf, ScreenOf, Asks, PositiveRsp, Piu
  <1>4. screen \in Outbound /\ (screen \in S <=> p.lu = lu)
    <2>1. p.lu \in LU
      BY <1>2 DEF Request
    <2>2. screen \in Outbound /\ screen.type = "DATA" /\ screen.lu = p.lu
      BY <2>1, PiuType DEF Piu
    <2> QED BY <2>2 DEF ScreenOf
  <1>5. Acked = Append(toSrv, PositiveRsp(p)) /\ Acked \in Seq(Outbound)
    BY <1>1, <1>2, SentType DEF Acked, Sent
  <1>6. /\ Count(toGw, P) \in Nat /\ Count(toSrv, S) \in Nat /\ Count(toGw', P) \in Nat
        /\ Count(Acked, S) \in Nat
    BY <1>1, <1>2, <1>5, CountType
  <1>7. Count(toGw, P) = Count(toGw', P) + (IF p \in P THEN 1 ELSE 0)
    BY <1>1, CountTail
  <1>8. Count(Acked, S) = Count(toSrv, S)
    BY <1>1, <1>3, <1>5, <1>6, CountAppend
  <1>9. SendData(n) => Count(toSrv', S) = Count(Acked, S) + (IF screen \in S THEN 1 ELSE 0)
    <2>1. SendData(n) => toSrv' = Append(Acked, screen)
      BY DEF SendData, Sent
    <2> DEFINE acks == Acked
    <2>2. acks \in Seq(Outbound)
      BY <1>5
    <2> HIDE DEF S, screen, acks
    <2>3. Count(Append(acks, screen), S) = Count(acks, S) + (IF screen \in S THEN 1 ELSE 0)
      BY <2>2, CountAppend
    <2> QED BY <2>1, <2>3 DEF acks
  <1> HIDE DEF P, S, screen, p
  <1>10. CASE Head(toGw).type \in PromptType /\ SendData(n)
    BY <1>3, <1>4, <1>6, <1>7, <1>8, <1>9, <1>10 DEF UnderWay, P, S, p
  <1>11. CASE Head(toGw).type \notin PromptType /\ toSrv' = Acked
    BY <1>3, <1>6, <1>7, <1>8, <1>11 DEF UnderWay, P, S, p
  <1> QED BY <1>10, <1>11

\* In the interactive modes the gateway starts no bridge.
Unbridged == sessions = <<>> /\ session = 0

LEMMA StaysUnbridged ==
  ASSUME Interactive, TypeInv, Unbridged, pc \notin {"bind_wait", "sweep_wait", "sdt_wait"},
         [Next]_vars
  PROVE  Unbridged' /\ ~BridgeNext /\ pc' \notin {"bind_wait", "sweep_wait", "sdt_wait"}
  <1>1. ~HostMode /\ DOMAIN sessions = {}
    BY EmptySeq DEF HostMode, Interactive, Unbridged
  <1>2. ~BridgeNext
    BY <1>1 DEF BridgeNext
  <1>3. ASSUME Activation PROVE Unbridged' /\ pc' \notin {"bind_wait", "sweep_wait", "sdt_wait"}
    BY <1>3 DEF Activation, SendActPU, RecvActPU, ActPUTimeout, Exit, SendActLU, ActivationDone,
                RecvAck, AckTimeout, Unbridged
  <1>4. ASSUME ObserveLoop PROVE Unbridged' /\ pc' \notin {"bind_wait", "sweep_wait", "sdt_wait"}
    BY <1>1, <1>4 DEF ObserveLoop, Discard, TearDown, MenuIdle, MenuReady, MenuLine, EchoReply,
         ShowFile, UssBridge, UssAttach, UssScreen, DeliverInput, SendBind, BindMode, Ignore,
         ReadEnds, Exit, probeVars, loopVars, Observe, Unbridged
  <1>5. ASSUME InnerWait PROVE Unbridged' /\ pc' \notin {"bind_wait", "sweep_wait", "sdt_wait"}
    <2>1. Deliver
      BY <1>5 DEF InnerWait, RecvBindRsp, BindTimeout, SdtDone, SweepAccepted, SweepNext
    <2>2. sessions' = [sessions EXCEPT ![session].inbound = Append(@, cur)] \/ UNCHANGED sessions
      BY <2>1 DEF Deliver
    <2>3. sessions' = sessions
      BY <2>2 DEF Unbridged
    <2> QED BY <2>1, <2>3 DEF Deliver, Unbridged
  <1>6. ASSUME UNCHANGED probeVars PROVE Unbridged' /\ pc' \notin {"bind_wait", "sweep_wait", "sdt_wait"}
    BY <1>6 DEF probeVars, loopVars, Unbridged
  <1> QED BY <1>2, <1>3, <1>4, <1>5, <1>6 DEF Next, ProbeNext, Finished, vars

\* Reading a request and at most acknowledging it adds nothing, and takes
\* away its prompt, if it is one.
LEMMA OnlyAcked ==
  ASSUME TypeInv, NEW lu \in LU, link = "up", Recv, IsRequest(Head(toGw)),
         toSrv' \in {toSrv, Acked}
  PROVE  UnderWay(lu, toGw, toSrv) =
            UnderWay(lu, toGw', toSrv') + (IF Head(toGw) \in PromptOf(lu) THEN 1 ELSE 0)
  <1> DEFINE P == PromptOf(lu)
             S == ScreenOf(lu)
             rsp == PositiveRsp(Head(toGw))
  <1>1. toGw \in Seq(Inbound) /\ toSrv \in Seq(Outbound) /\ toGw # <<>> /\ toGw' = Tail(toGw)
    BY DEF TypeInv, ServerTypeOK, Inbound, Recv
  <1>2. Tail(toGw) \in Seq(Inbound)
    BY <1>1, HeadTailProperties
  <1>3. rsp \notin S /\ Acked = Append(toSrv, rsp)
    BY DEF Acked, Sent, PositiveRsp, Piu, ScreenOf
  <1> HIDE DEF P, S, rsp
  <1>4. Count(toGw, P) \in Nat /\ Count(toGw', P) \in Nat /\ Count(toSrv, S) \in Nat
    BY <1>1, <1>2, CountType
  <1>5. Count(toGw, P) = Count(toGw', P) + (IF Head(toGw) \in P THEN 1 ELSE 0)
    BY <1>1, CountTail
  <1>6. Count(toSrv', S) = Count(toSrv, S)
    <2>1. Count(Append(toSrv, rsp), S) = Count(toSrv, S)
      BY <1>1, <1>3, <1>4, CountAppend
    <2> QED BY <1>3, <2>1
  <1> QED BY <1>4, <1>5, <1>6 DEF UnderWay, P, S

\* A prompt of an LU is lost when a wait reads it, and then it is unserved.
Lost(lu) == IF Misreads /\ Head(toGw) \in PromptOf(lu) THEN 1 ELSE 0

LEMMA LostIsUnserved ==
  ASSUME TypeInv, HistoryTypeOK, History, NEW lu \in LU
  PROVE  unserved'[lu] = unserved[lu] + Lost(lu)
  <1>1. Misreads => Head(toGw) \in Request
    BY HeadType DEF Misreads, TypeInv
  <1>2. Misreads => (Head(toGw) \in PromptOf(lu) <=>
                        Head(toGw).lu = lu /\ Head(toGw).type \in PromptType)
    BY <1>1 DEF PromptOf, Asks, Inbound, Request, Misreads
  <1>3. CASE Misreads
    <2> DEFINE x == Head(toGw).lu
    <2>1. CASE Head(toGw).type \in PromptType
      <3>1. unserved' = [unserved EXCEPT ![x] = unserved[x] + 1]
        BY <1>3, <2>1 DEF History
      <3> HIDE DEF x
      <3>2. unserved'[lu] = unserved[lu] + (IF x = lu THEN 1 ELSE 0)
        BY <3>1 DEF HistoryTypeOK
      <3> QED BY <1>2, <1>3, <2>1, <3>2 DEF Lost, x
    <2>2. CASE Head(toGw).type \notin PromptType
      BY <1>2, <1>3, <2>2 DEF History, Lost, HistoryTypeOK
    <2> QED BY <2>1, <2>2
  <1>4. CASE ~Misreads
    BY <1>4 DEF History, Lost, HistoryTypeOK
  <1> QED BY <1>3, <1>4

\* The gateway loses a prompt only when it reads one while it activates LUs.
LEMMA GatewayBalance ==
  ASSUME Interactive, TypeInv, Unbridged, pc \notin {"bind_wait", "sweep_wait", "sdt_wait"},
         ProbeNext, link' = "up", NEW lu \in LU
  PROVE  /\ link = "up"
         /\ UnderWay(lu, toGw, toSrv) = UnderWay(lu, toGw', toSrv') + Lost(lu)
  <1> DEFINE Same == UnderWay(lu, toGw', toSrv') = UnderWay(lu, toGw, toSrv)
  <1>0. UnderWay(lu, toGw, toSrv) \in Nat /\ (~Misreads => Lost(lu) = 0)
    BY UnderWayIs DEF Lost
  <1>1. /\ toGw \in Seq(Inbound) /\ toSrv \in Seq(Outbound)
        /\ snf \in Snf /\ Inc(snf) \in Snf
    BY IncType DEF TypeInv, ServerTypeOK, ProbeTypeOK, Inbound
  <1>2. \A p : ~IsRequest(p) => p \notin PromptOf(lu)
    BY DEF PromptOf, Asks
  <1>3. ~HostMode /\ ~BindMode /\ session = 0
    BY DEF HostMode, BindMode, Interactive, Unbridged
  <1>4. CASE SendActPU
    <2>1. Piu("ACTPU", PU, snf).type # "DATA"
      BY DEF Piu
    <2> QED BY <1>0, <1>4, <2>1, SameUnderWay DEF SendActPU, Misreads, Waiting
  <1>5. CASE RecvActPU
    <2>1. Recv /\ toSrv' = toSrv /\ link = "up"
      BY <1>5 DEF RecvActPU, Recv
    <2>2. CASE IsRequest(Head(toGw))
      <3>1. Misreads
        BY <1>5, <2>1, <2>2 DEF RecvActPU, Recv, Misreads, Waiting
      <3> QED BY <2>1, <2>2, <3>1, OnlyAcked DEF Lost
    <2>3. CASE ~IsRequest(Head(toGw))
      BY <1>0, <1>2, <2>1, <2>3, SameUnderWay DEF Misreads
    <2> QED BY <2>2, <2>3
  <1>6. CASE SendActLU
    <2>1. Piu("ACTLU", LuList[idx], Inc(snf)).type # "DATA"
      BY DEF Piu
    <2> QED BY <1>0, <1>6, <2>1, SameUnderWay DEF SendActLU, Misreads, Waiting
  <1>7. CASE ActivationDone \/ AckTimeout \/ Deliver
    <2>1. ~Misreads
      BY <1>7 DEF ActivationDone, AckTimeout, RecvTimeout, Deliver, Misreads, Waiting
    <2> QED BY <1>0, <1>7, <2>1, SameUnderWay
            DEF ActivationDone, AckTimeout, RecvTimeout, Deliver, linkVars
  <1>8. CASE RecvAck
    <2>1. Recv /\ link = "up"
          /\ (IsRequest(Head(toGw)) => toSrv' = Acked)
          /\ (~IsRequest(Head(toGw)) => toSrv' = toSrv)
      BY <1>8 DEF RecvAck, Recv, Acked
    <2>2. CASE IsRequest(Head(toGw))
      <3>1. Misreads
        BY <1>8, <2>1, <2>2 DEF RecvAck, Recv, Misreads, Waiting
      <3> QED BY <2>1, <2>2, <3>1, OnlyAcked DEF Lost
    <2>3. CASE ~IsRequest(Head(toGw))
      BY <1>0, <1>2, <2>1, <2>3, SameUnderWay DEF Misreads
    <2> QED BY <2>2, <2>3
  <1>9. CASE Discard
    BY <1>0, <1>2, <1>9, SameUnderWay DEF Discard, Recv, Misreads
  <1>10. CASE MenuIdle \/ Ignore
    <2>1. PICK type \in {"NOTIFY01", "UNBIND"} : Observe(type)
      BY <1>3, <1>10 DEF MenuIdle, Ignore, Ignored, RequestType
    <2>2. toSrv' = Acked /\ link = "up" /\ Recv
      BY <1>10, <2>1 DEF MenuIdle, Ignore, Observe, Recv
    <2>3. Same
      BY <1>1, <2>1, <2>2, PromptToScreen DEF Observe, PromptType
    <2> QED BY <1>0, <2>1, <2>2, <2>3 DEF Observe, Misreads, Waiting
  <1>11. CASE MenuReady \/ MenuLine \/ EchoReply
    <2>1. PICK type \in {"NOTIFY03", "LINE"} : Observe(type)
      BY <1>11 DEF MenuReady, MenuLine, EchoReply
    <2>2. SendData(Inc(snf)) /\ link = "up" /\ Recv
      BY <1>11, <2>1 DEF MenuReady, MenuLine, EchoReply, Observe, Recv
    <2>3. Same
      BY <1>1, <2>1, <2>2, PromptToScreen DEF Observe, PromptType
    <2> QED BY <1>0, <2>1, <2>2, <2>3 DEF Observe, Misreads, Waiting
  <1>12. ~TearDown /\ ~ShowFile /\ ~UssBridge /\ ~UssScreen /\ ~DeliverInput /\ ~SendBind
    BY <1>3 DEF TearDown, ShowFile, UssBridge, UssScreen, UssAttach, DeliverInput, SendBind
  <1>13. ~ActPUTimeout /\ ~ReadEnds
    BY DEF ActPUTimeout, ReadEnds, Exit
  <1>14. InnerWait => Deliver
    BY DEF InnerWait, RecvBindRsp, BindTimeout, SdtDone, SweepAccepted, SweepNext
  <1> QED BY <1>4, <1>5, <1>6, <1>7, <1>8, <1>9, <1>10, <1>11, <1>12, <1>13, <1>14
          DEF ProbeNext, Activation, ObserveLoop

\* SNA Server: an attach or a typed line adds one prompt and asks for one
\* screen, and a screen that arrives is one less of both.
LEMMA ServerBalance ==
  ASSUME TypeInv, ServerNext, link' = "up", NEW lu \in LU,
         due[lu] >= UnderWay(lu, toGw, toSrv)
  PROVE  /\ link = "up"
         /\ due'[lu] + UnderWay(lu, toGw, toSrv) = due[lu] + UnderWay(lu, toGw', toSrv')
  <1> DEFINE P == PromptOf(lu)
             S == ScreenOf(lu)
             gw == Count(toGw, P)
             srv == Count(toSrv, S)
             gw2 == Count(toGw', P)
             srv2 == Count(toSrv', S)
  <1>1. /\ toGw \in Seq(Inbound) /\ toSrv \in Seq(Outbound) /\ due \in [LU -> Nat]
        /\ attachNo \in [LU -> Nat]
    BY DEF TypeInv, ServerTypeOK, Inbound
  <1>2. TypeInv' => toGw' \in Seq(Inbound) /\ toSrv' \in Seq(Outbound)
    BY DEF TypeInv, ServerTypeOK, Inbound
  <1>3. ServerTypeOK'
    BY ServerStepType DEF TypeInv
  <1>4. toGw' \in Seq(Inbound) /\ toSrv' \in Seq(Outbound)
    BY <1>3 DEF ServerTypeOK, Inbound
  <1>5. gw \in Nat /\ srv \in Nat /\ gw2 \in Nat /\ srv2 \in Nat
    BY <1>1, <1>4, CountType
  <1>6. /\ UnderWay(lu, toGw, toSrv) = gw + srv
        /\ UnderWay(lu, toGw', toSrv') = gw2 + srv2
    BY DEF UnderWay
  <1>7. ASSUME NEW x \in LU, NEW type \in RequestType, NEW att \in Nat, Originate(x, type, att)
        PROVE  /\ srv2 = srv
               /\ gw2 = gw + (IF x = lu /\ type \in {"NOTIFY03", "LINE"} THEN 1 ELSE 0)
    <2> DEFINE p == [rri |-> "request", type |-> type, lu |-> x, att |-> att]
    <2>1. p \in P <=> x = lu /\ type \in {"NOTIFY03", "LINE"}
      BY DEF PromptOf, PromptType, Asks, IsRequest, Inbound, Request
    <2>2. toGw' = Append(toGw, p) /\ toSrv' = toSrv
      BY <1>7 DEF Originate
    <2> HIDE DEF P, p
    <2> QED BY <1>1, <2>1, <2>2, CountAppend
  <1>8. CASE ServerOriginates
    <2>1. link = "up"
      BY <1>8 DEF ServerOriginates, NotifyIdle, NotifyReady, TypeLine, SendUnbind, Originate
    <2>2. PICK x \in LU : NotifyIdle(x) \/ NotifyReady(x) \/ TypeLine(x) \/ SendUnbind(x)
      BY <1>8 DEF ServerOriginates
    <2>3. attachNo[x] \in Nat /\ attachNo[x] + 1 \in Nat /\ due[lu] \in Nat /\ due[x] \in Nat
      BY <1>1
    <2> HIDE DEF gw, srv, gw2, srv2
    <2>4. CASE NotifyIdle(x) \/ SendUnbind(x)
      <3>1. gw2 = gw /\ srv2 = srv
        BY <1>5, <1>7, <2>3, <2>4 DEF NotifyIdle, SendUnbind, RequestType
      <3>2. due' = due
        BY <2>4 DEF NotifyIdle, SendUnbind
      <3> QED BY <1>6, <2>1, <3>1, <3>2
    <2>5. CASE NotifyReady(x) \/ TypeLine(x)
      <3>1. gw2 = gw + (IF x = lu THEN 1 ELSE 0) /\ srv2 = srv
        BY <1>7, <2>3, <2>5 DEF NotifyReady, TypeLine, RequestType
      <3>2. due' = [due EXCEPT ![x] = due[x] + 1]
        BY <2>5 DEF NotifyReady, TypeLine
      <3>3. due'[lu] = due[lu] + (IF x = lu THEN 1 ELSE 0)
        BY <1>1, <2>3, <3>2
      <3> QED BY <1>5, <1>6, <2>1, <2>3, <3>1, <3>3
    <2> QED BY <2>2, <2>4, <2>5
  <1>9. CASE ServerReceives
    <2> DEFINE h == Head(toSrv)
    <2>1. link = "up" /\ toSrv # <<>> /\ toSrv' = Tail(toSrv)
      BY <1>9, ServerAnswers
    <2>2. h \in Outbound
      BY <1>1, <2>1, RangeTail
    <2>3. gw2 = gw
      <3>1. CASE toGw' = toGw
        BY <3>1
      <3>2. ASSUME NEW r, r.rri = "response", toGw' = Append(toGw, r) PROVE gw2 = gw
        <4>1. r \notin P
          BY <3>2 DEF PromptOf, Asks, IsRequest
        <4> HIDE DEF P
        <4> QED BY <1>1, <1>5, <3>2, <4>1, CountAppend
      <3> QED BY <1>9, <3>1, <3>2, ServerAnswers
    <2>4. srv = srv2 + (IF h \in S THEN 1 ELSE 0)
      BY <1>1, <2>1, CountTail
    <2>5. h \in S <=> h.type = "DATA" /\ h.lu = lu
      BY <2>2 DEF ScreenOf
    <2>6. due[lu] \in Nat
      BY <1>1
    <2> HIDE DEF gw, srv, gw2, srv2, S
    <2>7. CASE h.type = "DATA"
      <3>1. ReceiveData
        BY <1>9, <2>7 DEF ServerReceives, Receive, ReceiveActPU, ReceiveActLU, ReceiveRsp,
                          ReceiveBind, ReceiveSdt
      <3>2. due' = [due EXCEPT ![h.lu] = IF due[h.lu] > 0 THEN due[h.lu] - 1 ELSE 0]
        BY <3>1 DEF ReceiveData
      <3>3. CASE h.lu = lu
        <4>1. due'[lu] = IF due[lu] > 0 THEN due[lu] - 1 ELSE 0
          BY <1>1, <3>2, <3>3
        <4> QED BY <1>5, <1>6, <2>1, <2>3, <2>4, <2>5, <2>6, <2>7, <3>3, <4>1
      <3>4. CASE h.lu # lu
        <4>1. due'[lu] = due[lu]
          BY <1>1, <3>2, <3>4
        <4> QED BY <1>5, <1>6, <2>1, <2>3, <2>4, <2>5, <2>6, <3>4, <4>1
      <3> QED BY <3>3, <3>4
    <2>8. CASE h.type # "DATA"
      <3>1. due' = due
        BY <1>9, <2>8 DEF ServerReceives, Receive, ReceiveActPU, ReceiveActLU, ReceiveRsp,
                          ReceiveData, ReceiveBind, ReceiveSdt
      <3> QED BY <1>5, <1>6, <2>1, <2>3, <2>4, <2>5, <2>6, <2>8, <3>1
    <2> QED BY <2>7, <2>8
  <1>10. ~LinkLost
    BY DEF LinkLost
  <1> QED BY <1>8, <1>9, <1>10 DEF ServerNext

\* SNA Server reads from the other end: what it does loses no prompt.
LEMMA ServerLosesNone ==
  ASSUME TypeInv, ServerNext
  PROVE  ~Misreads
  <1>1. toGw \in Seq(Inbound)
    BY DEF TypeInv, ServerTypeOK, Inbound
  <1>2. toGw' = toGw \/ \E r : toGw' = Append(toGw, r)
    BY ServerAnswers DEF ServerNext, ServerOriginates, NotifyIdle, NotifyReady, TypeLine,
       SendUnbind, Originate, LinkLost
  <1>3. toGw # <<>> => Len(Tail(toGw)) = Len(toGw) - 1 /\ Len(toGw) \in Nat
    BY <1>1, HeadTailProperties, LenProperties
  <1>4. \A r : Len(Append(toGw, r)) = Len(toGw) + 1
    BY <1>1
  <1> QED BY <1>2, <1>3, <1>4 DEF Misreads

(***************************************************************************)
(* What is due to a terminal is what has been asked and not been read, the *)
(* screens on their way, and the prompts that were lost.                   *)
(***************************************************************************)
Balanced ==
    /\ TypeInv /\ HistoryTypeOK
    /\ Unbridged /\ pc \notin {"bind_wait", "sweep_wait", "sdt_wait"}
    /\ link = "up" => \A lu \in LU : due[lu] = UnderWay(lu, toGw, toSrv) + unserved[lu]

LEMMA StepBalanced == Interactive /\ Balanced /\ [Next]_vars => Balanced'
  <1> SUFFICES ASSUME Interactive, Balanced, [Next]_vars PROVE Balanced'
    OBVIOUS
  <1>1. TypeInv /\ TypeInv' /\ HistoryTypeOK /\ HistoryTypeOK' /\ Unbridged
    BY StepType, HistoryType DEF Balanced
  <1>2. Unbridged' /\ ~BridgeNext /\ pc' \notin {"bind_wait", "sweep_wait", "sdt_wait"}
    BY <1>1, StaysUnbridged DEF Balanced
  <1>3. ASSUME link' = "up", NEW lu \in LU
        PROVE  due'[lu] = UnderWay(lu, toGw', toSrv') + unserved'[lu]
    <2>1. UnderWay(lu, toGw, toSrv) \in Nat /\ UnderWay(lu, toGw', toSrv') \in Nat
      <3>1. toGw' \in Seq(Inbound) /\ toSrv' \in Seq(Outbound)
        BY <1>1 DEF TypeInv, ServerTypeOK, Inbound
      <3>2. Count(toGw', PromptOf(lu)) \in Nat /\ Count(toSrv', ScreenOf(lu)) \in Nat
        BY <3>1, CountType
      <3> QED BY <1>1, <3>2, UnderWayIs DEF UnderWay
    <2>2. /\ due[lu] \in Nat /\ due'[lu] \in Nat
          /\ unserved[lu] \in Nat /\ unserved'[lu] \in Nat
      BY <1>1 DEF TypeInv, ServerTypeOK, HistoryTypeOK
    <2>3. CASE ProbeNext /\ History
      <3>1. due' = due
        BY <1>1, <2>3, GatewayFlows DEF Flows, serverVars
      <3>2. link = "up" /\ UnderWay(lu, toGw, toSrv) = UnderWay(lu, toGw', toSrv') + Lost(lu)
        BY <1>1, <1>3, <2>3, GatewayBalance DEF Balanced
      <3>3. unserved'[lu] = unserved[lu] + Lost(lu) /\ Lost(lu) \in {0, 1}
        BY <1>1, <2>3, LostIsUnserved DEF Lost
      <3>4. due[lu] = UnderWay(lu, toGw, toSrv) + unserved[lu]
        BY <3>2 DEF Balanced
      <3> HIDE DEF Lost
      <3> QED BY <2>1, <2>2, <3>1, <3>2, <3>3, <3>4
    <2>4. CASE ServerNext /\ History
      <3>1. link = "up"
        BY <1>3, <2>4, ServerAnswers DEF ServerNext, ServerOriginates, NotifyIdle, NotifyReady,
              TypeLine, SendUnbind, Originate, LinkLost
      <3>2. due[lu] = UnderWay(lu, toGw, toSrv) + unserved[lu]
        BY <3>1 DEF Balanced
      <3>3. due'[lu] + UnderWay(lu, toGw, toSrv) = due[lu] + UnderWay(lu, toGw', toSrv')
        BY <1>1, <1>3, <2>1, <2>2, <2>4, <3>2, ServerBalance
      <3>4. unserved' = unserved
        BY <1>1, <2>4, ServerLosesNone DEF History
      <3> QED BY <2>1, <2>2, <3>2, <3>3, <3>4
    <2>5. CASE UNCHANGED vars
      BY <1>3, <2>5 DEF vars, serverVars, linkVars, historyVars, Balanced
    <2> QED BY <1>2, <2>3, <2>4, <2>5 DEF Next, Finished
  <1> QED BY <1>1, <1>2, <1>3 DEF Balanced

\* What the invariant says of the initial states.
LEMMA InitBalanced == Init => Balanced
  <1> SUFFICES ASSUME Init PROVE Balanced
    OBVIOUS
  <1>1. /\ toGw = <<>> /\ toSrv = <<>> /\ sessions = <<>> /\ session = 0 /\ pc = "start"
        /\ due = [lu \in LU |-> 0] /\ unserved = [lu \in LU |-> 0] /\ unanswered = {}
    BY DEF Init, ServerInit
  <1>2. \A M : {i \in DOMAIN <<>> : <<>>[i] \in M} = {}
    BY EmptySeq
  <1>3. \A M : Count(<<>>, M) = 0
    BY <1>2, FS_EmptySet DEF Count
  <1> QED BY <1>1, <1>3, InitType DEF Balanced, HistoryTypeOK, Unbridged, UnderWay

(***************************************************************************)
(* For every number of LUs, every attach and every typed line of the       *)
(* interactive modes is answered by exactly one screen, except those that  *)
(* a wait of the activation reads.                                         *)
(***************************************************************************)
THEOREM OneScreenEach == Spec => []OneScreenPerPrompt
  <1> DEFINE Inv == TypeInv /\ (Interactive => Balanced)
  <1>1. Init => Inv
    BY InitType, InitBalanced
  <1>2. Inv /\ [Next]_vars => Inv'
    <2> SUFFICES ASSUME Inv, [Next]_vars PROVE Inv'
      OBVIOUS
    <2>1. Interactive' <=> Interactive
      BY DEF Next, vars, Interactive, Set, Finished
    <2> QED BY <2>1, StepType, StepBalanced
  <1>3. Inv => OneScreenPerPrompt
    BY UnderWayIs DEF Balanced, OneScreenPerPrompt
  <1> QED BY <1>1, <1>2, <1>3, PTL DEF Spec

-----------------------------------------------------------------------------
(* With one LU on the list the activation reads no request.                *)

OneLu == Len(LuList) <= 1

AllInactive == \A lu \in LU : luState[lu] = "inactive"

(***************************************************************************)
(* Until ACTLU is sent no LU is active, and once it is the first PIU that  *)
(* the gateway finds is a response, its own or an older one.               *)
(***************************************************************************)
FirstInv ==
    /\ pc \in {"start", "actpu_wait"} => idx = 1
    /\ pc \in {"start", "actpu_wait"} \/ (pc = "actlu" /\ idx = 1) =>
          AllInactive /\ \A q \in Range(toSrv) : q.type # "ACTLU"
    /\ pc = "actlu_wait" =>
          /\ idx = 1
          /\ AllInactive \/ (toGw # <<>> /\ ~IsRequest(Head(toGw)))

\* While no LU is active, no request is on the link.
LEMMA InactiveReads ==
  ASSUME TypeInv, DormantInv, AllInactive
  PROVE  toGw # <<>> => ~IsRequest(Head(toGw))
  <1> SUFFICES ASSUME toGw # <<>>, IsRequest(Head(toGw)) PROVE FALSE
    OBVIOUS
  <1>1. Head(toGw) \in Request /\ toGw \in Seq(Inbound)
    BY HeadType DEF TypeInv, ServerTypeOK, Inbound
  <1>2. Head(toGw) \in Range(toGw) /\ Head(toGw).lu \in LU
    BY <1>1, RangeTail DEF Request
  <1> QED BY <1>2 DEF AllInactive, DormantInv, Dormant, Asks

LEMMA StepFirst ==
  ASSUME OneLu, TypeInv, DormantInv, FirstInv, [Next]_vars
  PROVE  FirstInv'
  <1>1. idx \in Nat \ {0} /\ Len(LuList) \in Nat
    BY LuListAssumption, LenProperties DEF TypeInv, ProbeTypeOK
  <1>2. CASE ProbeNext \/ BridgeNext
    <2>1. Flows /\ (AllInactive' <=> AllInactive)
      BY <1>2, GatewayFlows DEF Flows, serverVars, AllInactive
    <2>2. CASE Activation
      <3>1. CASE SendActPU
        <4>1. ~SendActLU
          BY <3>1 DEF SendActPU, SendActLU
        <4> QED BY <2>1, <3>1, <4>1 DEF SendActPU, FirstInv, Flows, Written
      <3>2. CASE RecvActPU
        BY <3>2 DEF RecvActPU, FirstInv, AllInactive, Recv, serverVars
      <3>3. CASE SendActLU
        BY <1>1, <2>1, <3>3 DEF SendActLU, FirstInv, OneLu
      <3>4. CASE ActPUTimeout \/ ActivationDone \/ RecvAck \/ AckTimeout
        BY <1>1, <3>4 DEF ActPUTimeout, Exit, ActivationDone, RecvAck, AckTimeout, FirstInv
      <3> QED BY <2>2, <3>1, <3>2, <3>3, <3>4 DEF Activation
    <2>3. CASE ObserveLoop
      BY <2>3 DEF ObserveLoop, Discard, TearDown, MenuIdle, MenuReady, MenuLine, EchoReply,
         ShowFile, UssBridge, UssAttach, UssScreen, DeliverInput, SendBind, Ignore,
         ReadEnds, Exit, probeVars, loopVars, Observe, FirstInv
    <2>4. CASE InnerWait
      BY <2>4 DEF InnerWait, Deliver, RecvBindRsp, BindTimeout, SdtDone, SweepAccepted, SweepNext,
         FirstInv
    <2>5. CASE BridgeNext
      <3>1. UNCHANGED <<pc, idx, toGw>> /\ ~SendActLU
        <4>1. PICK i \in DOMAIN sessions :
                 BridgeForward(i) \/ BridgeScreen(i) \/ BridgeClose(i) \/ BridgeEnd(i)
          BY <2>5 DEF BridgeNext
        <4> QED BY <4>1 DEF BridgeForward, BridgeScreen, BridgeClose, BridgeEnd, Bridge, loopVars,
                            SendActLU
      <3> QED BY <2>1, <3>1 DEF FirstInv, Flows, Written
    <2> QED BY <1>2, <2>2, <2>3, <2>4, <2>5 DEF ProbeNext
  <1>3. CASE ServerNext /\ UNCHANGED probeVars
    <2>1. UNCHANGED <<pc, idx>>
      BY <1>3 DEF probeVars, loopVars
    <2>2. toGw \in Seq(Inbound) /\ toSrv \in Seq(Outbound)
      BY DEF TypeInv, ServerTypeOK, Inbound
    <2>3. ASSUME AllInactive PROVE ~ServerOriginates
      <3>1. \A lu \in LU : luState[lu] = "inactive" /\ lulu[lu] = "none"
        BY <2>3 DEF AllInactive, DormantInv, Dormant
      <3> QED BY <3>1 DEF ServerOriginates, NotifyIdle, NotifyReady, TypeLine, SendUnbind
    <2>4. ASSUME ServerOriginates PROVE toGw # <<>> => toGw' # <<>> /\ Head(toGw') = Head(toGw)
      <3>1. PICK r : toGw' = Append(toGw, r)
        BY <2>4 DEF ServerOriginates, NotifyIdle, NotifyReady, TypeLine, SendUnbind, Originate
      <3> QED BY <2>2, <3>1, AppendProperties
    <2>5. ASSUME ServerReceives
          PROVE  /\ toSrv # <<>> /\ Head(toSrv) \in Range(toSrv) /\ Range(toSrv') \subseteq Range(toSrv)
                 /\ \/ toGw' = toGw /\ luState' = luState
                    \/ /\ \E r : r.rri = "response" /\ toGw' = Append(toGw, r)
                       /\ luState' = luState \/ Head(toSrv).type = "ACTLU"
      <3>1. toSrv # <<>> /\ toSrv' = Tail(toSrv)
        BY <2>5, ServerAnswers
      <3>2. Range(toSrv) = {Head(toSrv)} \cup Range(toSrv')
        BY <2>2, <3>1, RangeTail
      <3>3. luState' = luState \/ (Head(toSrv).type = "ACTLU" /\ ReceiveActLU)
        BY <2>5 DEF ServerReceives, ReceiveActPU, ReceiveActLU, ReceiveRsp, ReceiveData,
                    ReceiveBind, ReceiveSdt, Receive
      <3>4. ASSUME ReceiveActLU PROVE toGw' # toGw
        <4>1. PICK r : toGw' = Append(toGw, r)
          BY <3>4 DEF ReceiveActLU
        <4> QED BY <2>2, <4>1, AppendProperties
      <3> QED BY <2>5, <3>1, <3>2, <3>3, <3>4, ServerAnswers
    <2>6. CASE pc \in {"start", "actpu_wait"} \/ (pc = "actlu" /\ idx = 1)
      <3>1. AllInactive /\ \A q \in Range(toSrv) : q.type # "ACTLU"
        BY <2>6 DEF FirstInv
      <3>2. CASE ServerReceives
        <4>1. luState' = luState /\ Range(toSrv') \subseteq Range(toSrv)
          BY <2>5, <3>1, <3>2
        <4> QED BY <2>1, <2>6, <3>1, <4>1 DEF FirstInv, AllInactive
      <3>3. CASE LinkLost
        BY <2>1, <2>6, <3>1, <3>3 DEF FirstInv, AllInactive, LinkLost, serverVars
      <3> QED BY <1>3, <2>3, <3>1, <3>2, <3>3 DEF ServerNext
    <2>7. CASE pc = "actlu_wait"
      <3>1. toGw # <<>> => ~IsRequest(Head(toGw))
        BY <2>7, InactiveReads DEF FirstInv
      <3>2. CASE ServerReceives
        <4>1. CASE toGw' = toGw /\ luState' = luState
          BY <2>1, <2>7, <4>1 DEF FirstInv, AllInactive
        <4>2. ASSUME NEW r, r.rri = "response", toGw' = Append(toGw, r)
              PROVE  toGw' # <<>> /\ ~IsRequest(Head(toGw'))
          <5>1. /\ toGw' # <<>>
                /\ Head(toGw') = IF toGw = <<>> THEN r ELSE Head(toGw)
            BY <2>2, <4>2, AppendProperties
          <5> QED BY <3>1, <4>2, <5>1 DEF IsRequest
        <4> QED BY <2>1, <2>5, <2>7, <3>2, <4>1, <4>2 DEF FirstInv
      <3>3. CASE ServerOriginates
        BY <2>1, <2>3, <2>4, <2>7, <3>3 DEF FirstInv
      <3>4. CASE LinkLost
        BY <2>1, <2>7, <3>4 DEF FirstInv, AllInactive, LinkLost, serverVars
      <3> QED BY <1>3, <3>2, <3>3, <3>4 DEF ServerNext
    <2>8. CASE ~(pc \in {"start", "actpu_wait", "actlu_wait"} \/ (pc = "actlu" /\ idx = 1))
      BY <2>1, <2>8 DEF FirstInv
    <2> QED BY <2>6, <2>7, <2>8
  <1>4. CASE UNCHANGED vars
    BY <1>4 DEF vars, serverVars, linkVars, probeVars, loopVars, FirstInv, AllInactive
  <1> QED BY <1>2, <1>3, <1>4 DEF Next, Finished

LEMMA InitFirst == Init => FirstInv
  <1> SUFFICES ASSUME Init PROVE FirstInv
    OBVIOUS
  <1>1. toSrv = <<>> /\ pc = "start" /\ idx = 1 /\ luState = [lu \in LU |-> "inactive"]
    BY DEF Init, ServerInit
  <1>2. Range(toSrv) = {}
    BY <1>1, EmptySeq DEF Range
  <1> QED BY <1>1, <1>2 DEF FirstInv, AllInactive

(***************************************************************************)
(* With one LU on the -lus list nothing is lost in the activation, so that *)
(* in the interactive modes every prompt gets its screen.  Several LUs may *)
(* lose one: it takes four, or a terminal attached before a restart.       *)
(***************************************************************************)
AllServed == OneLu /\ Interactive => \A lu \in LU : unserved[lu] = 0

THEOREM OneLuIsServed == Spec => []AllServed
  <1> DEFINE Served == \A lu \in LU : unserved[lu] = 0
             Inv == OneLu /\ Interactive => DormantInv /\ FirstInv /\ Balanced /\ Served
  <1>1. Init => Inv
    BY InitActivation, InitFirst, InitBalanced DEF Init
  <1>2. Inv /\ [Next]_vars => Inv'
    <2> SUFFICES ASSUME Inv, [Next]_vars, OneLu, Interactive'
                 PROVE  DormantInv' /\ FirstInv' /\ Balanced' /\ Served'
      BY DEF OneLu
    <2>1. Interactive
      BY DEF Next, vars, Interactive, Set, Finished
    <2>2. TypeInv /\ HistoryTypeOK /\ DormantInv /\ FirstInv /\ Balanced /\ Served
      BY <2>1 DEF Balanced
    <2>3. DormantInv' /\ FirstInv' /\ Balanced'
      BY <2>1, <2>2, StepDormant, StepFirst, StepBalanced
    <2>4. ~Misreads
      <3> SUFFICES ASSUME Misreads PROVE FALSE
        OBVIOUS
      <3>1. pc \in {"actpu_wait", "actlu_wait"} /\ toGw # <<>> /\ IsRequest(Head(toGw))
        BY <2>2 DEF Misreads, Waiting, Balanced
      <3> QED BY <2>2, <3>1, InactiveReads DEF FirstInv
    <2>5. unserved' = unserved
      BY <2>4 DEF Next, History, vars, historyVars
    <2> QED BY <2>2, <2>3, <2>5
  <1>3. Inv => AllServed
    BY DEF AllServed
  <1> HIDE DEF Inv
  <1> QED BY <1>1, <1>2, <1>3, PTL DEF Spec

-----------------------------------------------------------------------------
(* The bridged sessions and the input they are given.                      *)

(***************************************************************************)
(* What may happen to session i in one step, leaving t: the main goroutine *)
(* delivers the input it is serving, a bridge forwards one or numbers a    *)
(* screen, or it is closed, by a bridge that goes on or one that ends.     *)
(***************************************************************************)
Relays(i, t) ==
    LET s == sessions[i]
    IN  /\ t.lu = s.lu /\ t.att = s.att
        /\ \/ /\ pc = "deliver" /\ i = session /\ Len(s.inbound) < InboundCap
              /\ t.inbound = Append(s.inbound, cur)
              /\ t.closed = s.closed /\ t.relaying = s.relaying /\ t.snf = s.snf
           \/ /\ s.relaying /\ s.inbound # <<>> /\ t.inbound = Tail(s.inbound)
              /\ t.closed = s.closed /\ t.relaying = s.relaying /\ t.snf = s.snf
           \/ /\ s.relaying /\ t.snf = s.snf + 1 /\ t.snf <= MaxScreens
              /\ t.closed = s.closed /\ t.relaying = s.relaying /\ t.inbound = s.inbound
           \/ /\ t.closed /\ t.relaying = s.relaying
              /\ t.snf = s.snf /\ t.inbound = s.inbound
           \/ /\ s.relaying /\ ~t.relaying /\ t.closed
              /\ t.snf = s.snf /\ t.inbound = s.inbound

\* A number below the last one is followed by the next.
LEMMA IncNext ==
  ASSUME NEW n \in Nat, n + 1 < SnfMod
  PROVE  Inc(n) = n + 1
  <1>1. SnfMod \in Nat /\ SnfMod > 0
    BY SnfAssumption
  <1> DEFINE m == SnfMod
  <1> HIDE DEF m
  <1>2. m \in Nat /\ m > 0 /\ n + 1 \in Nat /\ n + 1 < m
    BY <1>1 DEF m
  <1>3. (n + 1) % m = n + 1
    BY <1>2
  <1> QED BY <1>3 DEF Inc, m

\* A step changes one session in one of these ways, adds one for the terminal
\* that is being served, or leaves all of them alone.
Starts(lu, att) ==
    \/ Observe("NOTIFY03") /\ lu = Head(toGw).lu /\ att = Head(toGw).att
    \/ pc = "sdt_wait" /\ lu = cur.lu /\ att = cur.att

SessionStep ==
    \/ UNCHANGED sessions
    \/ \E i \in DOMAIN sessions, t \in LU2Session :
          sessions' = [sessions EXCEPT ![i] = t] /\ Relays(i, t)
    \/ \E lu, att, sscp :
          /\ sessions' = Append(sessions, NewSession(lu, att, sscp))
          /\ session' = Len(sessions) + 1
          /\ Starts(lu, att)

LEMMA SessionSteps == TypeInv /\ [Next]_vars => SessionStep
  <1> SUFFICES ASSUME TypeInv, [Next]_vars PROVE SessionStep
    OBVIOUS
  <1>1. /\ sessions \in Seq(LU2Session) /\ sessions' \in Seq(LU2Session)
        /\ DOMAIN sessions = 1 .. Len(sessions) /\ Len(sessions) \in Nat
        /\ session \in 0 .. Len(sessions)
        /\ \A i \in DOMAIN sessions : sessions[i] \in LU2Session
    <2>1. TypeInv'
      BY StepType
    <2> QED BY <2>1, LenProperties, ElementOfSeq DEF TypeInv, ProbeTypeOK
  <1>2. ASSUME NEW i \in DOMAIN sessions, NEW t, sessions' = [sessions EXCEPT ![i] = t],
               t \in LU2Session => Relays(i, t)
        PROVE  SessionStep
    <2>1. i \in DOMAIN sessions' /\ sessions'[i] = t
      BY <1>2
    <2>2. t \in LU2Session
      BY <1>1, <2>1, LenProperties, ElementOfSeq
    <2> QED BY <1>2, <2>2 DEF SessionStep
  <1>3. CASE TearDown
    <2>1. session \in DOMAIN sessions
      BY <1>1, <1>3 DEF TearDown
    <2> DEFINE t == [sessions[session] EXCEPT !.closed = TRUE]
    <2>2. Relays(session, t)
      BY <1>1, <2>1 DEF Relays, LU2Session
    <2>3. sessions' = [sessions EXCEPT ![session] = t]
      BY <1>3 DEF TearDown
    <2> HIDE DEF t
    <2> QED BY <1>2, <2>1, <2>2, <2>3
  <1>4. CASE UssBridge
    <2> DEFINE lu == Head(toGw).lu
               att == Head(toGw).att
    <2>1. Starts(lu, att) /\ StartBridge(lu, att, TRUE)
      BY <1>4 DEF UssBridge, Starts
    <2> QED BY <2>1 DEF StartBridge, SessionStep
  <1>5. CASE SdtDone
    <2>1. Starts(cur.lu, cur.att) /\ (StartBridge(cur.lu, cur.att, FALSE) \/ UNCHANGED sessions)
      BY <1>5 DEF SdtDone, Starts
    <2> QED BY <2>1 DEF StartBridge, SessionStep
  <1>6. CASE Deliver
    <2> DEFINE t == [sessions[session] EXCEPT !.inbound = Append(@, cur)]
    <2>1. CASE UNCHANGED sessions
      BY <2>1 DEF SessionStep
    <2>2. CASE /\ Len(sessions[session].inbound) < InboundCap
               /\ sessions' = [sessions EXCEPT ![session] = t]
      <3>1. CASE session \in DOMAIN sessions
        <4>1. Relays(session, t)
          BY <1>1, <1>6, <2>2, <3>1 DEF Relays, LU2Session, Deliver
        <4> HIDE DEF t
        <4> QED BY <1>2, <2>2, <3>1, <4>1
      <3>2. CASE session \notin DOMAIN sessions
        <4> HIDE DEF t
        <4>1. sessions' = sessions
          BY <1>1, <2>2, <3>2
        <4> QED BY <4>1 DEF SessionStep
      <3> QED BY <3>1, <3>2
    <2> QED BY <1>6, <2>1, <2>2 DEF Deliver
  <1>7. CASE BridgeNext
    <2>1. PICK i \in DOMAIN sessions :
             BridgeForward(i) \/ BridgeScreen(i) \/ BridgeClose(i) \/ BridgeEnd(i)
      BY <1>7 DEF BridgeNext
    <2>2. sessions[i] \in LU2Session /\ sessions[i].relaying
      BY <1>1, <2>1 DEF BridgeForward, BridgeScreen, BridgeClose, BridgeEnd, Bridge
    <2>3. CASE BridgeForward(i)
      <3> DEFINE t == [sessions[i] EXCEPT !.inbound = Tail(@)]
      <3>1. Relays(i, t)
        BY <2>2, <2>3 DEF Relays, LU2Session, BridgeForward
      <3>2. sessions' = [sessions EXCEPT ![i] = t]
        BY <2>3 DEF BridgeForward
      <3> HIDE DEF t
      <3> QED BY <1>2, <3>1, <3>2
    <2>4. CASE BridgeScreen(i)
      <3> DEFINE t == [sessions[i] EXCEPT !.snf = Inc(@)]
      <3>1. sessions[i].snf \in Nat /\ Inc(sessions[i].snf) = sessions[i].snf + 1
            /\ sessions[i].snf + 1 <= MaxScreens
        <4>1. /\ sessions[i].snf \in Nat /\ sessions[i].snf < MaxScreens
              /\ MaxScreens \in Nat /\ MaxScreens < SnfMod
          BY <2>2, <2>4, SnfAssumption, MaxScreensAssumption DEF LU2Session, BridgeScreen, Snf
        <4>2. SnfMod \in Nat
          BY SnfAssumption
        <4> QED BY <4>1, <4>2, IncNext
      <3>2. Relays(i, t)
        BY <2>2, <3>1 DEF Relays, LU2Session
      <3>3. sessions' = [sessions EXCEPT ![i] = t]
        BY <2>4 DEF BridgeScreen
      <3> HIDE DEF t
      <3> QED BY <1>2, <3>2, <3>3
    <2>5. CASE BridgeClose(i)
      <3> DEFINE t == [sessions[i] EXCEPT !.closed = TRUE]
      <3>1. Relays(i, t)
        BY <2>2 DEF Relays, LU2Session
      <3>2. sessions' = [sessions EXCEPT ![i] = t]
        BY <2>5 DEF BridgeClose
      <3> HIDE DEF t
      <3> QED BY <1>2, <3>1, <3>2
    <2>6. CASE BridgeEnd(i)
      <3> DEFINE t == [sessions[i] EXCEPT !.relaying = FALSE, !.closed = TRUE]
      <3>1. Relays(i, t)
        BY <2>2 DEF Relays, LU2Session
      <3>2. sessions' = [sessions EXCEPT ![i] = t]
        BY <1>1, <2>6 DEF BridgeEnd
      <3> HIDE DEF t
      <3> QED BY <1>2, <3>1, <3>2
    <2> QED BY <2>1, <2>3, <2>4, <2>5, <2>6
  <1>8. CASE Activation
    BY <1>8 DEF Activation, SendActPU, RecvActPU, ActPUTimeout, Exit, SendActLU,
       ActivationDone, RecvAck, AckTimeout, SessionStep
  <1>9. CASE ObserveLoop /\ ~TearDown /\ ~UssBridge
    BY <1>9 DEF ObserveLoop, Discard, MenuIdle, MenuReady, MenuLine, EchoReply, ShowFile,
       UssScreen, DeliverInput, SendBind, Ignore, ReadEnds, Exit, probeVars, SessionStep
  <1>10. CASE InnerWait /\ ~SdtDone /\ ~Deliver
    BY <1>10 DEF InnerWait, RecvBindRsp, BindTimeout, SweepAccepted, SweepNext, SessionStep
  <1>11. CASE UNCHANGED probeVars
    BY <1>11 DEF probeVars, SessionStep
  <1> QED BY <1>3, <1>4, <1>5, <1>6, <1>7, <1>8, <1>9, <1>10, <1>11
          DEF Next, ProbeNext, Finished, vars

-----------------------------------------------------------------------------
(* Whose input it is.                                                      *)

\* Only LUs of the -lus list are ever activated.
Listed(lu) == \E k \in DOMAIN LuList : LuList[k] = lu

ListedInv ==
    /\ \A q \in Range(toSrv) : q.type = "ACTLU" => Listed(q.lu)
    /\ \A lu \in LU : luState[lu] # "inactive" => Listed(lu)

LEMMA StepListed ==
  ASSUME TypeInv, ListedInv, [Next]_vars
  PROVE  ListedInv'
  <1>1. toSrv \in Seq(Outbound)
    BY DEF TypeInv, ServerTypeOK
  <1>2. CASE ProbeNext \/ BridgeNext
    <2>1. Flows
      BY <1>2, GatewayFlows
    <2>2. SendActLU => Listed(LuList[idx])
      <3>1. SendActLU => idx \in DOMAIN LuList
        BY LuListAssumption, LenProperties DEF SendActLU, TypeInv, ProbeTypeOK
      <3> QED BY <3>1 DEF Listed
    <2>3. luState' = luState
      BY <2>1 DEF Flows, serverVars
    <2>4. \A q \in Range(toSrv') : q.type = "ACTLU" => Listed(q.lu)
      BY <2>1, <2>2 DEF Flows, Written, ListedInv
    <2> QED BY <2>3, <2>4 DEF ListedInv, Listed
  <1>3. CASE ServerReceives
    <2>1. toSrv # <<>> /\ toSrv' = Tail(toSrv)
      BY <1>3, ServerAnswers
    <2>2. Head(toSrv) \in Range(toSrv) /\ Range(toSrv') \subseteq Range(toSrv)
      BY <1>1, <2>1, RangeTail
    <2>3. luState' = luState \/ (ReceiveActLU /\ Head(toSrv).type = "ACTLU")
      BY <1>3 DEF ServerReceives, ReceiveActPU, ReceiveActLU, ReceiveRsp, ReceiveData,
                  ReceiveBind, ReceiveSdt, Receive
    <2>4. ASSUME NEW lu \in LU, luState'[lu] # luState[lu] PROVE Listed(lu)
      <3>1. lu = Head(toSrv).lu /\ Head(toSrv).type = "ACTLU"
        BY <2>3, <2>4 DEF ReceiveActLU, TypeInv, ServerTypeOK
      <3> QED BY <2>2, <3>1 DEF ListedInv
    <2> QED BY <2>2, <2>4 DEF ListedInv, Listed
  <1>4. CASE ServerOriginates
    <2>1. toSrv' = toSrv
      BY <1>4 DEF ServerOriginates, NotifyIdle, NotifyReady, TypeLine, SendUnbind, Originate
    <2>2. ASSUME NEW lu \in LU, luState'[lu] # luState[lu] PROVE luState[lu] # "inactive"
      BY <1>4, <2>2 DEF ServerOriginates, NotifyIdle, NotifyReady, TypeLine, SendUnbind,
                        TypeInv, ServerTypeOK
    <2> QED BY <2>1, <2>2 DEF ListedInv, Listed
  <1>5. CASE LinkLost \/ UNCHANGED vars
    BY <1>5 DEF LinkLost, vars, serverVars, linkVars, ListedInv, Listed
  <1> QED BY <1>2, <1>3, <1>4, <1>5 DEF Next, ServerNext, Finished

(***************************************************************************)
(* What an LU asks is what SNA Server thinks it waits for, and it asks as  *)
(* the attachment it has now.                                              *)
(***************************************************************************)
AskedLu(lu, gw, srv, ow, att, state) ==
    /\ AtMostOnce(lu, gw, srv, ow[lu])
    /\ \A p \in Range(gw) : Asks(p, lu) =>
          /\ p.type = ow[lu] /\ p.att = att[lu]
          /\ p.type \in {"NOTIFY03", "LINE"} => state[lu] = "attached"

AskedInv == \A lu \in LU : AskedLu(lu, toGw, toSrv, owed, attachNo, luState)

LEMMA StepAsked ==
  ASSUME TypeInv, DormantInv, ActInv, AskedInv, [Next]_vars
  PROVE  AskedInv'
  <1>1. /\ toGw \in Seq(Inbound) /\ toSrv \in Seq(Outbound)
        /\ owed \in [LU -> RequestType \cup {"none"}] /\ attachNo \in [LU -> Nat]
        /\ luState \in [LU -> {"inactive", "starting", "idle", "attached"}]
    BY DEF TypeInv, ServerTypeOK, Inbound
  <1>2. CASE ProbeNext \/ BridgeNext
    <2>1. Flows
      BY <1>2, GatewayFlows
    <2> QED BY <2>1 DEF AskedInv, AskedLu, Flows, serverVars
  <1>3. ASSUME NEW x \in LU, NEW type \in RequestType, NEW att, Originate(x, type, att),
               attachNo'[x] = att, type \in {"NOTIFY03", "LINE"} => luState'[x] = "attached",
               \A lu \in LU : lu # x => attachNo'[lu] = attachNo[lu] /\ luState'[lu] = luState[lu]
        PROVE  \A lu \in LU : AskedLu(lu, toGw', toSrv', owed', attachNo', luState')
    <2> DEFINE piu == [rri |-> "request", type |-> type, lu |-> x, att |-> att]
    <2>1. /\ toGw' = Append(toGw, piu) /\ toSrv' = toSrv /\ owed[x] = "none"
          /\ owed' = [owed EXCEPT ![x] = type]
      BY <1>3 DEF Originate
    <2>2. \A lu : Asks(piu, lu) <=> lu = x
      BY DEF Asks, IsRequest
    <2>3. Range(toGw') = Range(toGw) \cup {piu}
      BY <1>1, <2>1, RangeAppend
    <2>4. piu.type = type /\ piu.att = att
      OBVIOUS
    <2> HIDE DEF piu
    <2>5. ASSUME NEW lu \in LU, lu # x PROVE AskedLu(lu, toGw', toSrv', owed', attachNo', luState')
      <3>1. AtMostOnce(lu, toGw', toSrv', owed[lu])
        BY <1>1, <2>1, <2>2, <2>5, SendAtMostOnce DEF AskedInv, AskedLu
      <3>2. owed'[lu] = owed[lu]
        BY <1>1, <2>1, <2>5
      <3> QED BY <1>3, <2>2, <2>3, <2>5, <3>1, <3>2 DEF AskedInv, AskedLu
    <2>6. AskedLu(x, toGw', toSrv', owed', attachNo', luState')
      <3>1. AtMostOnce(x, toGw, toSrv, "none")
        BY <2>1 DEF AskedInv, AskedLu
      <3>2. \A p \in Range(toGw) : ~Asks(p, x)
        BY <3>1, NothingAsked
      <3>3. owed'[x] = type /\ type # "none"
        BY <1>1, <2>1 DEF RequestType
      <3>4. AtMostOnce(x, toGw', toSrv', type)
        BY <1>1, <2>1, <2>2, <3>1, <3>3, SendAtMostOnce
      <3> QED BY <1>3, <2>3, <2>4, <3>2, <3>3, <3>4 DEF AskedLu
    <2> QED BY <2>5, <2>6
  <1>4. CASE ServerOriginates
    <2>1. PICK x \in LU : NotifyIdle(x) \/ NotifyReady(x) \/ TypeLine(x) \/ SendUnbind(x)
      BY <1>4 DEF ServerOriginates
    <2>2. CASE NotifyIdle(x) \/ SendUnbind(x)
      <3>1. PICK type \in {"NOTIFY01", "UNBIND"} : Originate(x, type, attachNo[x])
        BY <2>2 DEF NotifyIdle, SendUnbind
      <3>2. attachNo' = attachNo /\ \A lu \in LU : lu # x => luState'[lu] = luState[lu]
        BY <1>1, <2>2 DEF NotifyIdle, SendUnbind
      <3> QED BY <1>3, <3>1, <3>2 DEF RequestType, AskedInv
    <2>3. CASE NotifyReady(x) \/ TypeLine(x)
      <3>1. PICK type \in {"NOTIFY03", "LINE"} : Originate(x, type, attachNo'[x])
        BY <1>1, <2>3 DEF NotifyReady, TypeLine
      <3>2. /\ luState'[x] = "attached"
            /\ \A lu \in LU : lu # x => luState'[lu] = luState[lu] /\ attachNo'[lu] = attachNo[lu]
        BY <1>1, <2>3 DEF NotifyReady, TypeLine
      <3> QED BY <1>3, <3>1, <3>2 DEF RequestType, AskedInv
    <2> QED BY <2>1, <2>2, <2>3
  <1>5. CASE ServerReceives
    <2>1. toSrv # <<>> /\ toSrv' = Tail(toSrv)
      BY <1>5, ServerAnswers
    <2>2. Head(toSrv) \in Range(toSrv) /\ Range(toSrv') \subseteq Range(toSrv) /\ Head(toSrv) \in Outbound
      BY <1>1, <2>1, RangeTail
    <2> SUFFICES ASSUME NEW lu \in LU PROVE AskedLu(lu, toGw', toSrv', owed', attachNo', luState')
      BY DEF AskedInv
    <2>3. /\ AtMostOnce(lu, toGw, toSrv', owed[lu])
          /\ Answers(Head(toSrv), lu) => AtMostOnce(lu, toGw, toSrv', "none")
      BY <1>1, <2>1, ReceiveAtMostOnce DEF AskedInv, AskedLu
    <2>4. \A request : AtMostOnce(lu, toGw, toSrv', request) => AtMostOnce(lu, toGw', toSrv', request)
      <3>1. ASSUME NEW r, r.rri = "response", toGw' = Append(toGw, r), NEW request,
                   AtMostOnce(lu, toGw, toSrv', request)
            PROVE  AtMostOnce(lu, toGw', toSrv', request)
        <4>1. ~Asks(r, lu)
          BY <3>1 DEF Asks, IsRequest
        <4> QED BY <1>1, <3>1, <4>1, SendAtMostOnce
      <3> QED BY <1>5, <3>1, ServerAnswers
    <2>5. \A p \in Range(toGw') : Asks(p, lu) => p \in Range(toGw)
      <3>1. ASSUME NEW r, r.rri = "response", toGw' = Append(toGw, r)
            PROVE  \A p \in Range(toGw') : Asks(p, lu) => p \in Range(toGw)
        <4>1. ~Asks(r, lu) /\ Range(toGw') = Range(toGw) \cup {r}
          BY <1>1, <3>1, RangeAppend DEF Asks, IsRequest
        <4> QED BY <4>1
      <3> QED BY <1>5, <3>1, ServerAnswers
    <2>6. owed'[lu] = owed[lu] \/ (Answers(Head(toSrv), lu) /\ owed'[lu] = "none")
      BY <1>1, <1>5 DEF ServerReceives, ReceiveActPU, ReceiveActLU, ReceiveRsp, ReceiveData,
                  ReceiveBind, ReceiveSdt, Receive, Answers
    <2>7. AtMostOnce(lu, toGw', toSrv', owed'[lu])
      BY <2>3, <2>4, <2>6
    <2>8. ASSUME NEW p \in Range(toGw'), Asks(p, lu)
          PROVE  /\ p.type = owed'[lu] /\ p.att = attachNo'[lu]
                 /\ p.type \in {"NOTIFY03", "LINE"} => luState'[lu] = "attached"
      <3>1. owed'[lu] # "none"
        BY <2>7, <2>8, NothingAsked
      <3>2. owed'[lu] = owed[lu]
        BY <2>6, <3>1
      <3>3. luState[lu] # "inactive"
        BY <2>5, <2>8 DEF DormantInv, Dormant
      <3>4. ~IsActLU(Head(toSrv), lu)
        BY <2>2, <3>3 DEF ActInv
      <3>5. luState'[lu] = luState[lu] /\ attachNo'[lu] = attachNo[lu]
        BY <1>1, <1>5, <3>4 DEF ServerReceives, ReceiveActPU, ReceiveActLU, ReceiveRsp, ReceiveData,
                  ReceiveBind, ReceiveSdt, Receive, IsActLU
      <3> QED BY <2>5, <2>8, <3>2, <3>5 DEF AskedInv, AskedLu
    <2> QED BY <2>7, <2>8 DEF AskedLu
  <1>6. CASE LinkLost \/ UNCHANGED vars
    BY <1>6 DEF LinkLost, vars, serverVars, linkVars, AskedInv
  <1> QED BY <1>2, <1>4, <1>5, <1>6 DEF Next, ServerNext, Finished

(***************************************************************************)
(* Attachment att of the LU is there, or has left and the gateway has not  *)
(* taken notice of it yet.                                                 *)
(***************************************************************************)
Present(lu, att, srv, ow, an, state) ==
    /\ lu \in LU /\ att = an[lu]
    /\ \/ state[lu] = "attached"
       \/ /\ state[lu] = "idle" /\ ow[lu] = "NOTIFY01"
          /\ \A q \in Range(srv) : ~Answers(q, lu)

\* The gateway takes notice when it acknowledges the NOTIFY.
LEMMA GatewayPresent ==
  ASSUME TypeInv, AskedInv, Flows, NEW lu, NEW att, Present(lu, att, toSrv, owed, attachNo, luState)
  PROVE  \/ Present(lu, att, toSrv', owed', attachNo', luState')
         \/ /\ pc \in {"observe", "actlu_wait"} /\ Recv
            /\ Asks(Head(toGw), lu) /\ Head(toGw).type = "NOTIFY01"
  <1>1. UNCHANGED <<owed, attachNo, luState>> /\ toGw \in Seq(Inbound) /\ lu \in LU
    BY DEF Flows, serverVars, TypeInv, ServerTypeOK, Inbound, Present
  <1>2. CASE luState[lu] = "attached"
    BY <1>1, <1>2 DEF Present
  <1>3. CASE \A q \in Range(toSrv') : ~Answers(q, lu)
    BY <1>1, <1>3 DEF Present
  <1>4. ASSUME luState[lu] # "attached", NEW q \in Range(toSrv'), Answers(q, lu)
        PROVE  /\ pc \in {"observe", "actlu_wait"} /\ Recv
               /\ Asks(Head(toGw), lu) /\ Head(toGw).type = "NOTIFY01"
    <2>1. Written(q)
      BY <1>4 DEF Flows, Present
    <2>2. pc \in {"observe", "actlu_wait"} /\ Recv /\ Asks(Head(toGw), lu)
      BY <1>4, <2>1 DEF Written, Answers, Asks
    <2>3. Head(toGw) \in Range(toGw)
      BY <1>1, <2>2, RangeTail DEF Recv
    <2>4. Head(toGw).type = owed[lu]
      BY <1>1, <2>2, <2>3 DEF AskedInv, AskedLu
    <2> QED BY <1>4, <2>2, <2>4 DEF Present
  <1> QED BY <1>2, <1>3, <1>4

\* SNA Server notifies the gateway before another terminal attaches.
LEMMA ServerPresent ==
  ASSUME TypeInv, ActInv, AskedInv, ServerNext, NEW lu, NEW att,
         Present(lu, att, toSrv, owed, attachNo, luState)
  PROVE  Present(lu, att, toSrv', owed', attachNo', luState')
  <1>1. /\ toGw \in Seq(Inbound) /\ toSrv \in Seq(Outbound) /\ lu \in LU
        /\ owed \in [LU -> RequestType \cup {"none"}] /\ attachNo \in [LU -> Nat]
        /\ luState \in [LU -> {"inactive", "starting", "idle", "attached"}]
    BY DEF TypeInv, ServerTypeOK, Inbound, Present
  <1>2. CASE ServerOriginates
    <2>1. PICK x \in LU : NotifyIdle(x) \/ NotifyReady(x) \/ TypeLine(x) \/ SendUnbind(x)
      BY <1>2 DEF ServerOriginates
    <2>2. owed[x] = "none" /\ toSrv' = toSrv
      BY <2>1 DEF NotifyIdle, NotifyReady, TypeLine, SendUnbind, Originate
    <2>3. CASE x # lu
      <3>1. owed'[lu] = owed[lu] /\ attachNo'[lu] = attachNo[lu] /\ luState'[lu] = luState[lu]
        BY <1>1, <2>1, <2>3 DEF NotifyIdle, NotifyReady, TypeLine, SendUnbind, Originate
      <3> QED BY <2>2, <3>1 DEF Present
    <2>4. CASE x = lu
      <3>1. luState[lu] = "attached"
        BY <2>2, <2>4 DEF Present
      <3>2. CASE NotifyIdle(x)
        <4>1. AtMostOnce(lu, toGw, toSrv, "none")
          BY <1>1, <2>2, <2>4 DEF AskedInv, AskedLu
        <4>2. luState'[lu] = "idle" /\ owed'[lu] = "NOTIFY01" /\ attachNo' = attachNo
          BY <1>1, <2>4, <3>2 DEF NotifyIdle, Originate
        <4>3. \A q \in Range(toSrv) : ~Answers(q, lu)
          BY <4>1, NothingAsked
        <4> QED BY <2>2, <4>2, <4>3 DEF Present
      <3>3. CASE TypeLine(x) \/ SendUnbind(x)
        BY <3>1, <3>3 DEF Present, TypeLine, SendUnbind
      <3>4. ~NotifyReady(x)
        BY <2>4, <3>1 DEF NotifyReady
      <3> QED BY <2>1, <3>2, <3>3, <3>4
    <2> QED BY <2>3, <2>4
  <1>3. CASE ServerReceives
    <2>1. toSrv # <<>> /\ toSrv' = Tail(toSrv)
      BY <1>3, ServerAnswers
    <2>2. Head(toSrv) \in Range(toSrv) /\ Range(toSrv') \subseteq Range(toSrv)
      BY <1>1, <2>1, RangeTail
    <2>3. ~IsActLU(Head(toSrv), lu)
      BY <1>1, <2>2 DEF ActInv, Present
    <2>4. attachNo'[lu] = attachNo[lu] /\ luState'[lu] = luState[lu]
      BY <1>1, <1>3, <2>3 DEF ServerReceives, ReceiveActPU, ReceiveActLU, ReceiveRsp, ReceiveData,
                ReceiveBind, ReceiveSdt, Receive, IsActLU
    <2>5. owed'[lu] = owed[lu] \/ Answers(Head(toSrv), lu)
      BY <1>1, <1>3 DEF ServerReceives, ReceiveActPU, ReceiveActLU, ReceiveRsp, ReceiveData,
                ReceiveBind, ReceiveSdt, Receive, Answers
    <2> QED BY <2>2, <2>4, <2>5 DEF Present
  <1>4. CASE LinkLost
    BY <1>4 DEF LinkLost, serverVars, Present
  <1> QED BY <1>2, <1>3, <1>4 DEF ServerNext

\* What a session has been given was typed at an LU of the list, and if that
\* is the session's own LU, at the session's attachment.
OwnSession(s) ==
    /\ Listed(s.lu)
    /\ \A input \in Range(s.inbound) :
          Listed(input.lu) /\ (input.lu = s.lu => input.att = s.att)

(***************************************************************************)
(* The terminal being served and the terminal of the bridge are the ones   *)
(* that are attached to their LUs now.                                     *)
(***************************************************************************)
OwnInv ==
    /\ pc \in Activating => session = 0
    /\ pc \in Serving => Present(cur.lu, cur.att, toSrv, owed, attachNo, luState)
    /\ session # 0 => Present(sessions[session].lu, sessions[session].att,
                              toSrv, owed, attachNo, luState)
    /\ \A i \in DOMAIN sessions : OwnSession(sessions[i])

\* The terminal that the gateway reads an attach or a line from is attached.
LEMMA ReadAttached ==
  ASSUME TypeInv, AskedInv, NEW type \in {"NOTIFY03", "LINE"}, Observe(type)
  PROVE  /\ Head(toGw).lu \in LU /\ Head(toGw).att = attachNo[Head(toGw).lu]
         /\ luState[Head(toGw).lu] = "attached"
  <1>1. Head(toGw) \in Range(toGw) /\ toGw # <<>>
    BY RangeTail DEF Observe, Recv, TypeInv, ServerTypeOK, Inbound
  <1>2. Head(toGw).lu \in LU
    BY ObserveReads DEF TypeInv
  <1>3. Asks(Head(toGw), Head(toGw).lu) /\ Head(toGw).type = type
    BY DEF Asks, Observe
  <1> QED BY <1>1, <1>2, <1>3 DEF AskedInv, AskedLu

\* Whatever happens to a session, its input stays its own.
LEMMA StepInput ==
  ASSUME TypeInv, ListedInv, AskedInv, OwnInv, [Next]_vars
  PROVE  \A i \in DOMAIN sessions' : OwnSession(sessions'[i])
  <1>1. /\ sessions \in Seq(LU2Session)
        /\ DOMAIN sessions = 1 .. Len(sessions) /\ Len(sessions) \in Nat
    BY LenProperties DEF TypeInv, ProbeTypeOK
  <1>2. CASE UNCHANGED sessions
    BY <1>2 DEF OwnInv
  <1>3. ASSUME NEW i \in DOMAIN sessions, NEW t \in LU2Session,
               sessions' = [sessions EXCEPT ![i] = t], Relays(i, t)
        PROVE  \A k \in DOMAIN sessions' : OwnSession(sessions'[k])
    <2> DEFINE s == sessions[i]
    <2>1. s \in LU2Session /\ s.inbound \in Seq(Terminal) /\ OwnSession(s)
      <3>1. s \in LU2Session
        BY <1>1, ElementOfSeq
      <3> QED BY <3>1 DEF LU2Session, OwnInv
    <2>2. t.lu = s.lu /\ t.att = s.att
      BY <1>3 DEF Relays
    <2>3. \/ t.inbound = s.inbound
          \/ s.inbound # <<>> /\ t.inbound = Tail(s.inbound)
          \/ pc = "deliver" /\ i = session /\ t.inbound = Append(s.inbound, cur)
      BY <1>3 DEF Relays
    <2> HIDE DEF s
    <2>4. ASSUME t.inbound = s.inbound PROVE OwnSession(t)
      BY <2>1, <2>2, <2>4 DEF OwnSession
    <2>5. ASSUME s.inbound # <<>>, t.inbound = Tail(s.inbound) PROVE OwnSession(t)
      <3>1. Range(t.inbound) \subseteq Range(s.inbound)
        BY <2>1, <2>5, RangeTail
      <3> QED BY <2>1, <2>2, <3>1 DEF OwnSession
    <2>6. ASSUME pc = "deliver", i = session, t.inbound = Append(s.inbound, cur)
          PROVE  OwnSession(t)
      <3>1. Range(t.inbound) = Range(s.inbound) \cup {cur}
        BY <2>1, <2>6, RangeAppend
      <3>2. session # 0 /\ pc \in Serving
        BY <1>1, <2>6 DEF Serving
      <3>3. /\ Present(cur.lu, cur.att, toSrv, owed, attachNo, luState)
            /\ Present(s.lu, s.att, toSrv, owed, attachNo, luState)
        BY <2>6, <3>2 DEF OwnInv, s
      <3>4. Listed(cur.lu) /\ (cur.lu = s.lu => cur.att = s.att)
        BY <3>3 DEF Present, ListedInv
      <3> QED BY <2>1, <2>2, <3>1, <3>4 DEF OwnSession
    <2>7. OwnSession(t)
      BY <2>3, <2>4, <2>5, <2>6
    <2> QED BY <1>3, <2>7 DEF OwnInv
  <1>4. ASSUME NEW lu, NEW att, NEW sscp, Starts(lu, att),
               sessions' = Append(sessions, NewSession(lu, att, sscp))
        PROVE  \A k \in DOMAIN sessions' : OwnSession(sessions'[k])
    <2>1. Listed(lu)
      <3>1. CASE Observe("NOTIFY03") /\ lu = Head(toGw).lu
        BY <3>1, ReadAttached DEF ListedInv
      <3>2. CASE pc = "sdt_wait" /\ lu = cur.lu
        BY <3>2 DEF OwnInv, Serving, Present, ListedInv
      <3> QED BY <1>4, <3>1, <3>2 DEF Starts
    <2> DEFINE new == NewSession(lu, att, sscp)
    <2>2. new.lu = lu /\ new.inbound = <<>>
      BY DEF NewSession
    <2>3. Range(<<>>) = {}
      BY EmptySeq DEF Range
    <2>4. OwnSession(new)
      BY <2>1, <2>2, <2>3 DEF OwnSession
    <2> HIDE DEF new
    <2>5. \A k \in DOMAIN Append(sessions, new) :
             \/ k \in DOMAIN sessions /\ Append(sessions, new)[k] = sessions[k]
             \/ Append(sessions, new)[k] = new
      BY <1>1
    <2> QED BY <1>4, <2>4, <2>5 DEF OwnInv, new
  <1> QED BY <1>2, <1>3, <1>4, SessionSteps DEF SessionStep

\* What is read is not read again.
LEMMA TailTwice ==
  ASSUME NEW S, NEW q \in Seq(S), q # <<>>
  PROVE  Tail(q) # q
  OBVIOUS

\* The terminals being served stay there while the gateway takes its steps.
LEMMA GatewayOwn ==
  ASSUME TypeInv, ListedInv, AskedInv, OwnInv, [Next]_vars, ProbeNext \/ BridgeNext
  PROVE  /\ pc' \in Activating => session' = 0
         /\ pc' \in Serving => Present(cur'.lu, cur'.att, toSrv', owed', attachNo', luState')
         /\ session' # 0 => Present(sessions'[session'].lu, sessions'[session'].att,
                                    toSrv', owed', attachNo', luState')
  <1> DEFINE Here(lu, att) == Present(lu, att, toSrv', owed', attachNo', luState')
             Owned == session # 0 => Here(sessions[session].lu, sessions[session].att)
  <1>1. Flows
    BY GatewayFlows
  <1>2. /\ sessions \in Seq(LU2Session) /\ session \in 0 .. Len(sessions)
        /\ DOMAIN sessions = 1 .. Len(sessions) /\ Len(sessions) \in Nat
        /\ \A i \in DOMAIN sessions : sessions[i] \in LU2Session
    BY LenProperties, ElementOfSeq DEF TypeInv, ProbeTypeOK
  <1>3. ASSUME session # 0, ~(/\ pc \in {"observe", "actlu_wait"} /\ Recv
                              /\ IsRequest(Head(toGw)) /\ Head(toGw).type = "NOTIFY01")
        PROVE  Here(sessions[session].lu, sessions[session].att)
    BY <1>1, <1>3, GatewayPresent DEF OwnInv, Asks
  <1>4. ASSUME pc \in Serving PROVE Here(cur.lu, cur.att)
    BY <1>1, <1>4, GatewayPresent DEF OwnInv, Serving
  <1>5. ASSUME NEW type \in {"NOTIFY03", "LINE"}, Observe(type)
        PROVE  Here(Head(toGw).lu, Head(toGw).att)
    BY <1>1, <1>5, ReadAttached DEF Present, Flows, serverVars
  <1>6. ASSUME NEW lu, NEW att, NEW sscp, StartBridge(lu, att, sscp), Here(lu, att)
        PROVE  session' # 0 => Here(sessions'[session'].lu, sessions'[session'].att)
    <2> DEFINE new == NewSession(lu, att, sscp)
    <2>1. new.lu = lu /\ new.att = att
      BY DEF NewSession
    <2> HIDE DEF new
    <2>2. Append(sessions, new)[Len(sessions) + 1] = new
      BY <1>2
    <2> QED BY <1>6, <2>1, <2>2 DEF StartBridge, new
  <1>7. ASSUME session' = session, session # 0
        PROVE  /\ sessions'[session'].lu = sessions[session].lu
               /\ sessions'[session'].att = sessions[session].att
    <2>1. session \in DOMAIN sessions
      BY <1>2, <1>7
    <2>2. ASSUME NEW i \in DOMAIN sessions, NEW t \in LU2Session,
                 sessions' = [sessions EXCEPT ![i] = t], Relays(i, t)
          PROVE  /\ sessions'[session].lu = sessions[session].lu
                 /\ sessions'[session].att = sessions[session].att
      BY <1>2, <2>1, <2>2 DEF Relays
    <2>3. session' # Len(sessions) + 1
      BY <1>2, <1>7
    <2>4. CASE UNCHANGED sessions
      BY <1>7, <2>4
    <2> QED BY <1>7, <2>2, <2>3, <2>4, SessionSteps DEF SessionStep
  <1>8. CASE Activation
    <2>1. pc \in Activating /\ pc' \notin Serving /\ session' = session
      BY <1>8 DEF Activation, SendActPU, RecvActPU, ActPUTimeout, Exit, SendActLU, ActivationDone,
                  RecvAck, AckTimeout, Activating, Serving
    <2> QED BY <2>1 DEF OwnInv
  <1>9. CASE TearDown
    BY <1>9 DEF TearDown, Observe, Serving, loopVars
  <1>10. CASE UssBridge
    <2>1. StartBridge(Head(toGw).lu, Head(toGw).att, TRUE) /\ Observe("NOTIFY03") /\ pc' = "observe"
      BY <1>10 DEF UssBridge, Observe, loopVars
    <2> QED BY <1>5, <1>6, <2>1 DEF Serving, Activating
  <1>11. CASE ObserveLoop /\ ~TearDown /\ ~UssBridge
    <2>1. UNCHANGED <<session, sessions>> /\ pc = "observe" /\ pc' \notin Activating
      BY <1>11 DEF ObserveLoop, Discard, MenuIdle, MenuReady, MenuLine, EchoReply, ShowFile,
         UssScreen, DeliverInput, SendBind, Ignore, ReadEnds, Exit, probeVars, loopVars, Observe,
         Activating
    <2>2. session # 0 => ~(/\ Recv /\ IsRequest(Head(toGw)) /\ Head(toGw).type = "NOTIFY01")
      <3>1. ASSUME session # 0, Recv, IsRequest(Head(toGw)), Head(toGw).type = "NOTIFY01" PROVE FALSE
        <4>1. ~ReadEnds
          BY <3>1 DEF ReadEnds, Recv
        <4> QED BY <1>11, <3>1, <4>1 DEF ObserveLoop, Discard, MenuIdle, MenuReady, MenuLine,
               EchoReply, ShowFile, UssScreen, DeliverInput, SendBind, Ignore, Ignored, Observe
      <3> QED BY <3>1
    <2>3. ASSUME pc' \in Serving PROVE Here(cur'.lu, cur'.att)
      <3>1. DeliverInput \/ SendBind
        BY <1>11, <2>1, <2>3 DEF ObserveLoop, Discard, MenuIdle, MenuReady, MenuLine, EchoReply,
           ShowFile, UssScreen, Ignore, ReadEnds, Exit, probeVars, loopVars, Serving
      <3>2. cur'.lu = Head(toGw).lu /\ cur'.att = Head(toGw).att /\ Observe("LINE")
        BY <3>1 DEF DeliverInput, SendBind
      <3> QED BY <1>5, <3>2
    <2> QED BY <1>3, <2>1, <2>2, <2>3
  <1>12. CASE SdtDone
    <2>1. pc \in Serving /\ pc' = "observe"
      BY <1>12 DEF SdtDone, Serving
    <2>2. CASE StartBridge(cur.lu, cur.att, FALSE)
      BY <1>4, <1>6, <2>1, <2>2 DEF Serving, Activating
    <2>3. CASE UNCHANGED <<session, sessions>>
      BY <1>3, <2>1, <2>3 DEF Serving, Activating
    <2> QED BY <1>12, <2>2, <2>3 DEF SdtDone
  <1>13. CASE InnerWait /\ ~SdtDone
    <2>1. pc \in Serving /\ pc' \notin Activating /\ session' = session /\ cur' = cur
      BY <1>13 DEF InnerWait, Deliver, RecvBindRsp, BindTimeout, SweepAccepted, SweepNext, Serving,
         Activating
    <2>2. pc # "observe" /\ pc # "actlu_wait"
      BY <1>13 DEF InnerWait, Deliver, RecvBindRsp, BindTimeout, SweepAccepted, SweepNext
    <2> QED BY <1>3, <1>4, <1>7, <2>1, <2>2
  <1>14. CASE BridgeNext
    <2>1. pc' = pc /\ session' = session /\ cur' = cur /\ toGw' = toGw
      <3>1. PICK i \in DOMAIN sessions : BridgeForward(i) \/ BridgeScreen(i) \/ BridgeClose(i) \/ BridgeEnd(i)
        BY <1>14 DEF BridgeNext
      <3>2. Bridge(i)
        BY <3>1 DEF BridgeForward, BridgeScreen, BridgeClose, BridgeEnd
      <3> QED BY <3>2 DEF Bridge, loopVars
    <2>2. ~Recv
      BY <2>1, TailTwice DEF Recv, TypeInv, ServerTypeOK, Inbound
    <2>4. pc \in Activating => session' = 0
      BY <2>1 DEF OwnInv
    <2>5. pc \in Serving => Here(cur.lu, cur.att)
      BY <1>4
    <2>6. session # 0 => Here(sessions'[session'].lu, sessions'[session'].att)
      BY <1>3, <1>7, <2>1, <2>2
    <2> QED BY <2>1, <2>4, <2>5, <2>6
  <1> QED BY <1>8, <1>9, <1>10, <1>11, <1>12, <1>13, <1>14 DEF ProbeNext, InnerWait

LEMMA StepOwn ==
  ASSUME TypeInv, ListedInv, ActInv, AskedInv, OwnInv, [Next]_vars
  PROVE  OwnInv'
  <1>1. \A i \in DOMAIN sessions' : OwnSession(sessions'[i])
    BY StepInput
  <1>2. CASE ProbeNext \/ BridgeNext
    BY <1>1, <1>2, GatewayOwn DEF OwnInv, OwnSession, Listed
  <1>3. CASE ServerNext /\ UNCHANGED probeVars
    BY <1>1, <1>3, ServerPresent DEF OwnInv, OwnSession, Listed, probeVars, loopVars
  <1>4. CASE UNCHANGED vars
    BY <1>4 DEF OwnInv, OwnSession, Listed, vars, serverVars, linkVars, probeVars, loopVars
  <1> QED BY <1>2, <1>3, <1>4 DEF Next, Finished

\* The link, the sessions and the attachments together.
SessionInv == TypeInv /\ ListedInv /\ DormantInv /\ ActInv /\ AskedInv /\ OwnInv

LEMMA InitSession == Init => SessionInv
  <1> SUFFICES ASSUME Init PROVE SessionInv
    OBVIOUS
  <1>1. /\ toGw = <<>> /\ toSrv = <<>> /\ sessions = <<>> /\ session = 0 /\ pc = "start"
        /\ luState = [lu \in LU |-> "inactive"] /\ owed = [lu \in LU |-> "none"]
    BY DEF Init, ServerInit
  <1>2. Range(<<>>) = {} /\ DOMAIN <<>> = {}
    BY EmptySeq DEF Range
  <1>3. ListedInv
    BY <1>1, <1>2 DEF ListedInv
  <1>4. AskedInv
    <2>1. \A lu : AnsweredOnce(lu, <<>>, <<>>, FALSE)
      BY <1>2 DEF AnsweredOnce
    <2>2. ASSUME NEW lu \in LU PROVE AskedLu(lu, toGw, toSrv, owed, attachNo, luState)
      <3>1. AtMostOnce(lu, <<>>, <<>>, owed[lu])
        BY <1>1, <2>1 DEF AtMostOnce
      <3> QED BY <1>1, <1>2, <3>1 DEF AskedLu
    <2> QED BY <2>2 DEF AskedInv
  <1>5. OwnInv
    BY <1>1, <1>2 DEF OwnInv, Serving
  <1> QED BY <1>3, <1>4, <1>5, InitType, InitActivation DEF SessionInv

LEMMA StepSession ==
  ASSUME DistinctLus, SessionInv, [Next]_vars
  PROVE  SessionInv'
  BY StepType, StepListed, StepDormant, StepActivation, StepAsked, StepOwn DEF SessionInv

(***************************************************************************)
(* With each LU listed once, what a bridge forwards was never typed by an  *)
(* earlier or a later user of its own LU: the session is closed when that  *)
(* user leaves.  Lines of other LUs do reach it: run cross_input.          *)
(***************************************************************************)
OwnLuInput ==
    \A i \in DOMAIN sessions : \A k \in DOMAIN sessions[i].inbound :
        sessions[i].inbound[k].lu = sessions[i].lu
            => sessions[i].inbound[k].att = sessions[i].att

THEOREM InputOfOneUser == Spec => [](DistinctLus => OwnLuInput)
  <1> DEFINE Inv == DistinctLus => SessionInv
  <1>1. Init => Inv
    BY InitSession
  <1>2. Inv /\ [Next]_vars => Inv'
    BY StepSession DEF DistinctLus
  <1>3. Inv => (DistinctLus => OwnLuInput)
    BY DEF SessionInv, OwnInv, OwnSession, OwnLuInput, Range
  <1> HIDE DEF Inv
  <1> QED BY <1>1, <1>2, <1>3, PTL DEF Spec

(***************************************************************************)
(* With one LU on the -lus list, what a bridge forwards to its host was    *)
(* typed at the terminal the bridge was started for, by the user who was   *)
(* there then.                                                             *)
(***************************************************************************)
THEOREM InputIsOwn == Spec => [](OneLu => OwnInput)
  <1> DEFINE Inv == OneLu => SessionInv
  <1>1. Init => Inv
    BY InitSession
  <1>2. OneLu => \A i, k \in DOMAIN LuList : i = k
    BY LuListAssumption, LenProperties DEF OneLu
  <1>3. Inv /\ [Next]_vars => Inv'
    BY <1>2, StepSession DEF OneLu, DistinctLus
  <1>4. Inv => (OneLu => OwnInput)
    <2> SUFFICES ASSUME SessionInv, OneLu, NEW i \in DOMAIN sessions,
                        NEW k \in DOMAIN sessions[i].inbound
                 PROVE  sessions[i].inbound[k] = [lu |-> sessions[i].lu, att |-> sessions[i].att]
      BY DEF OwnInput
    <2> DEFINE s == sessions[i]
               input == s.inbound[k]
    <2>1. s \in LU2Session /\ s.inbound \in Seq(Terminal)
      <3>1. s \in LU2Session
        BY ElementOfSeq, LenProperties DEF SessionInv, TypeInv, ProbeTypeOK
      <3> QED BY <3>1 DEF LU2Session
    <2>2. input \in Terminal
      BY <2>1, ElementOfSeq, LenProperties
    <2>3. Listed(s.lu) /\ Listed(input.lu) /\ (input.lu = s.lu => input.att = s.att)
      BY DEF SessionInv, OwnInv, OwnSession, Range
    <2> HIDE DEF s, input
    <2>4. input.lu = s.lu
      BY <1>2, <2>3 DEF Listed
    <2>5. input = [lu |-> s.lu, att |-> s.att]
      BY <2>2, <2>3, <2>4 DEF Terminal
    <2> QED BY <2>5 DEF s, input
  <1> HIDE DEF Inv
  <1> QED BY <1>1, <1>3, <1>4, PTL DEF Spec

-----------------------------------------------------------------------------
(* The sessions keep the contract with their bridges.                      *)

\* A terminal attaches by a request, but for the first one of an LU.
AttachInv ==
    \A lu \in LU : /\ attachNo[lu] <= requests + 1
                   /\ luState[lu] = "inactive" => attachNo[lu] = 0

LEMMA StepAttach ==
  ASSUME TypeInv, ActInv, AttachInv, [Next]_vars
  PROVE  AttachInv'
  <1>1. /\ requests \in Nat /\ attachNo \in [LU -> Nat] /\ toSrv \in Seq(Outbound)
        /\ luState \in [LU -> {"inactive", "starting", "idle", "attached"}]
    BY MaxRequestsAssumption DEF TypeInv, ServerTypeOK
  <1>2. CASE ServerOriginates
    <2>1. PICK x \in LU : NotifyIdle(x) \/ NotifyReady(x) \/ TypeLine(x) \/ SendUnbind(x)
      BY <1>2 DEF ServerOriginates
    <2>2. /\ requests' = requests + 1
          /\ attachNo' = attachNo \/ attachNo' = [attachNo EXCEPT ![x] = @ + 1]
      BY <2>1 DEF NotifyIdle, NotifyReady, TypeLine, SendUnbind, Originate
    <2>3. ASSUME NEW lu \in LU, luState'[lu] = "inactive"
          PROVE  luState[lu] = "inactive" /\ attachNo'[lu] = attachNo[lu]
      <3>1. CASE x = lu
        BY <1>1, <2>1, <2>3, <3>1 DEF NotifyIdle, NotifyReady, TypeLine, SendUnbind
      <3>2. CASE x # lu
        BY <1>1, <2>1, <2>3, <3>2 DEF NotifyIdle, NotifyReady, TypeLine, SendUnbind
      <3> QED BY <3>1, <3>2
    <2>4. ASSUME NEW lu \in LU PROVE attachNo'[lu] <= attachNo[lu] + 1
      BY <1>1, <2>2, SMTT(60)
    <2>5. ASSUME NEW lu \in LU
          PROVE  /\ attachNo'[lu] <= requests' + 1
                 /\ luState'[lu] = "inactive" => attachNo'[lu] = 0
      <3>1. attachNo[lu] \in Nat /\ attachNo'[lu] \in Nat
        BY <1>1, <2>2, SMTT(60)
      <3>2. attachNo[lu] <= requests + 1 /\ (luState[lu] = "inactive" => attachNo[lu] = 0)
        BY DEF AttachInv
      <3> QED BY <1>1, <2>2, <2>3, <2>4, <3>1, <3>2
    <2> QED BY <2>5 DEF AttachInv
  <1>3. CASE ReceiveActLU
    <2>1. Head(toSrv) \in Range(toSrv) /\ Head(toSrv).type = "ACTLU" /\ requests' = requests
      BY <1>1, <1>3, RangeTail DEF ReceiveActLU, Receive
    <2>2. ASSUME NEW lu \in LU, lu = Head(toSrv).lu PROVE attachNo[lu] = 0
      <3>1. IsActLU(Head(toSrv), lu)
        BY <2>1, <2>2 DEF IsActLU
      <3> QED BY <2>1, <3>1 DEF ActInv, AttachInv
    <2>3. ASSUME NEW lu \in LU
          PROVE  /\ attachNo'[lu] <= requests + 1
                 /\ luState'[lu] = "inactive" => attachNo'[lu] = 0
      <3>1. CASE lu = Head(toSrv).lu
        <4>1. attachNo'[lu] \in {0, 1} /\ (luState'[lu] = "inactive" => attachNo'[lu] = 0)
          <5>1. attachNo'[lu] = attachNo[lu]
                \/ (attachNo'[lu] = attachNo[lu] + 1 /\ luState'[lu] = "attached")
            BY <1>1, <1>3, <3>1 DEF ReceiveActLU
          <5> QED BY <2>2, <3>1, <5>1
        <4> QED BY <1>1, <4>1
      <3>2. CASE lu # Head(toSrv).lu
        BY <1>1, <1>3, <3>2 DEF ReceiveActLU, AttachInv
      <3> QED BY <3>1, <3>2
    <2> QED BY <2>1, <2>3 DEF AttachInv
  <1>4. CASE ServerReceives /\ ~ReceiveActLU
    BY <1>4 DEF ServerReceives, ReceiveActPU, ReceiveRsp, ReceiveData, ReceiveBind, ReceiveSdt,
                Receive, AttachInv
  <1>5. CASE ProbeNext \/ BridgeNext \/ LinkLost \/ UNCHANGED vars
    <2>1. UNCHANGED serverVars
      BY <1>5, GatewayFlows DEF Flows, LinkLost, vars
    <2> QED BY <2>1 DEF serverVars, AttachInv
  <1> QED BY <1>2, <1>3, <1>4, <1>5 DEF Next, ServerNext, Finished

\* What the main goroutine delivers is something a terminal may type.
LEMMA Delivered ==
  ASSUME SessionInv, AttachInv, pc = "deliver"
  PROVE  cur \in [lu : LU, att : 0 .. MaxRequests + 1]
  <1>1. Present(cur.lu, cur.att, toSrv, owed, attachNo, luState)
    BY DEF SessionInv, OwnInv, Serving
  <1>2. /\ requests \in 0 .. MaxRequests /\ attachNo \in [LU -> Nat] /\ PU \notin LU
        /\ cur \in Terminal \cup {NoTerminal}
    BY LUAssumption DEF SessionInv, TypeInv, ServerTypeOK, ProbeTypeOK, PU
  <1>3. cur.lu \in LU /\ cur.att = attachNo[cur.lu]
    BY <1>1 DEF Present
  <1>4. cur.att \in Nat /\ cur.att <= MaxRequests + 1
    BY <1>2, <1>3, MaxRequestsAssumption DEF AttachInv
  <1>5. cur.att \in 0 .. MaxRequests + 1
    BY <1>4, MaxRequestsAssumption
  <1> QED BY <1>2, <1>3, <1>5 DEF Terminal, NoTerminal

LEMMA StepRelay ==
  ASSUME SessionInv, AttachInv, [Next]_vars, NEW i \in Nat
  PROVE  Contract(i)!Next \/ UNCHANGED Contract(i)!relayVars
  <1> USE DEF Contract!Next, Contract!relayVars
  <1>1. /\ sessions \in Seq(LU2Session)
        /\ DOMAIN sessions = 1 .. Len(sessions) /\ Len(sessions) \in Nat
        /\ \A k \in DOMAIN sessions : sessions[k] \in LU2Session
    BY LenProperties, ElementOfSeq DEF SessionInv, TypeInv, ProbeTypeOK
  <1>2. CASE UNCHANGED sessions
    BY <1>2 DEF Created
  <1>3. ASSUME NEW k \in DOMAIN sessions, NEW t \in LU2Session,
               sessions' = [sessions EXCEPT ![k] = t], Relays(k, t)
        PROVE  Contract(i)!Next \/ UNCHANGED Contract(i)!relayVars
    <2>1. DOMAIN sessions' = DOMAIN sessions
      BY <1>1, <1>3
    <2>2. CASE k # i
      <3>1. i \in DOMAIN sessions => sessions'[i] = sessions[i]
        BY <1>3, <2>2
      <3> QED BY <2>1, <3>1 DEF Created
    <2>3. CASE k = i
      <3> DEFINE s == sessions[i]
      <3>1. Created(i) /\ Created(i)' /\ s \in LU2Session /\ sessions'[i] = t
        BY <1>1, <1>3, <2>1, <2>3 DEF Created
      <3>2. /\ s.closed \in BOOLEAN /\ s.relaying \in BOOLEAN
            /\ t.closed \in BOOLEAN /\ t.relaying \in BOOLEAN
        BY <3>1 DEF LU2Session
      <3>3. CASE /\ pc = "deliver" /\ Len(s.inbound) < InboundCap
                 /\ t.inbound = Append(s.inbound, cur)
                 /\ t.closed = s.closed /\ t.relaying = s.relaying /\ t.snf = s.snf
        BY <3>1, <3>2, <3>3, Delivered DEF Contract!Deliver
      <3>4. CASE /\ s.relaying /\ s.inbound # <<>> /\ t.inbound = Tail(s.inbound)
                 /\ t.closed = s.closed /\ t.relaying = s.relaying /\ t.snf = s.snf
        BY <3>1, <3>2, <3>4 DEF Contract!Forward
      <3>5. CASE /\ s.relaying /\ t.snf = s.snf + 1
                 /\ t.closed = s.closed /\ t.relaying = s.relaying /\ t.inbound = s.inbound
        BY <3>1, <3>2, <3>5 DEF Contract!Screen
      <3>6. CASE /\ t.closed /\ t.relaying = s.relaying
                 /\ t.snf = s.snf /\ t.inbound = s.inbound
        BY <3>1, <3>2, <3>6 DEF Contract!Close
      <3>7. CASE /\ s.relaying /\ ~t.relaying /\ t.closed
                 /\ t.snf = s.snf /\ t.inbound = s.inbound
        BY <3>1, <3>2, <3>7 DEF Contract!End
      <3> QED BY <1>3, <2>3, <3>3, <3>4, <3>5, <3>6, <3>7 DEF Relays
    <2> QED BY <2>2, <2>3
  <1>4. ASSUME NEW lu, NEW att, NEW sscp, sessions' = Append(sessions, NewSession(lu, att, sscp))
        PROVE  UNCHANGED Contract(i)!relayVars
    <2> DEFINE new == NewSession(lu, att, sscp)
    <2>1. new.inbound = <<>> /\ ~new.closed /\ new.relaying /\ new.snf = 0
      BY DEF NewSession
    <2> HIDE DEF new
    <2>2. /\ DOMAIN sessions' = 1 .. Len(sessions) + 1
          /\ sessions'[Len(sessions) + 1] = new
          /\ \A k \in DOMAIN sessions : sessions'[k] = sessions[k]
      BY <1>1, <1>4 DEF new
    <2>3. CASE i = Len(sessions) + 1
      <3>1. ~Created(i) /\ Created(i)' /\ sessions'[i] = new
        BY <1>1, <2>2, <2>3 DEF Created
      <3> QED BY <2>1, <3>1
    <2>4. CASE i # Len(sessions) + 1
      <3>1. (Created(i)' <=> Created(i)) /\ (Created(i) => sessions'[i] = sessions[i])
        BY <1>1, <2>2, <2>4 DEF Created
      <3> QED BY <3>1
    <2> QED BY <2>3, <2>4
  <1>5. SessionStep
    BY SessionSteps DEF SessionInv
  <1> QED BY <1>2, <1>3, <1>4, <1>5 DEF SessionStep

(***************************************************************************)
(* With each LU listed once, the main goroutine and the bridges do with    *)
(* every session only what the contract between them allows.  Module       *)
(* Bridge is proved to implement the same contract.                        *)
(***************************************************************************)
THEOREM SessionsUseRelay == DistinctLus /\ Spec => UsesRelay
  <1> SUFFICES ASSUME DistinctLus PROVE Spec => UsesRelay
    OBVIOUS
  <1> DEFINE Inv == SessionInv /\ AttachInv
             Kept == \A i \in 1 .. MaxRequests :
                        Contract(i)!Next \/ UNCHANGED Contract(i)!relayVars
  <1>1. Init => Inv
    BY InitSession DEF Init, ServerInit, AttachInv
  <1>2. Inv /\ [Next]_vars => Inv'
    BY StepSession, StepAttach DEF SessionInv
  <1>3. Inv /\ [Next]_vars => [Kept]_vars
    BY StepRelay, MaxRequestsAssumption
  <1>4. ([][Kept]_vars) => UsesRelay
    BY DEF UsesRelay
  <1> HIDE DEF Inv, Kept
  <1> QED BY <1>1, <1>2, <1>3, <1>4, PTL DEF Spec

-----------------------------------------------------------------------------
(* Sequence numbers.  Without a bridge, every screen is numbered by the    *)
(* main goroutine's counter or by the LU's -show-file session.             *)

NoTarget == ~(HostMode /\ Set("target"))

\* No counter wraps: it advances once per ACTLU and once per request.
NoWrap == SnfMod > 1 + Len(LuList) + MaxRequests

FileMode == Set("show-file") /\ HostMode
ScreenSnf(lu) == IF FileMode THEN fileSnf[lu] ELSE snf

IsScreen(q, lu) == q.type = "DATA" /\ q.lu = lu

\* The LU's screens in srv are numbered upwards from last to at most top.
Ordered(lu, srv, last, top) ==
    /\ last <= top
    /\ \A j \in DOMAIN srv : IsScreen(srv[j], lu) =>
          /\ last < srv[j].snf /\ srv[j].snf <= top
          /\ \A k \in DOMAIN srv : IsScreen(srv[k], lu) /\ j < k => srv[j].snf < srv[k].snf

LEMMA SnfType ==
  ASSUME NEW srv \in Seq(Outbound)
  PROVE  \A j \in DOMAIN srv : srv[j].snf \in Nat
  <1>1. \A q \in Outbound : q.snf \in Nat
    BY SnfAssumption DEF Outbound
  <1>2. \A j \in DOMAIN srv : srv[j] \in Outbound
    BY ElementOfSeq, LenProperties
  <1> QED BY <1>1, <1>2

LEMMA OrderedTop ==
  ASSUME NEW lu, NEW srv \in Seq(Outbound), NEW last \in Nat, NEW top \in Nat, NEW higher \in Nat,
         Ordered(lu, srv, last, top), top <= higher
  PROVE  Ordered(lu, srv, last, higher)
  <1>1. \A j \in DOMAIN srv : srv[j].snf \in Nat
    BY SnfType
  <1> QED BY <1>1 DEF Ordered

LEMMA OrderedOther ==
  ASSUME NEW lu, NEW srv \in Seq(Outbound), NEW last \in Nat, NEW top \in Nat,
         NEW q \in Outbound, ~IsScreen(q, lu), Ordered(lu, srv, last, top)
  PROVE  Ordered(lu, Append(srv, q), last, top)
  <1> DEFINE r == Append(srv, q)
  <1>1. /\ DOMAIN srv = 1 .. Len(srv) /\ Len(srv) \in Nat /\ DOMAIN r = 1 .. Len(srv) + 1
        /\ \A i \in 1 .. Len(srv) : r[i] = srv[i]
        /\ r[Len(srv) + 1] = q
    OBVIOUS
  <1> HIDE DEF r
  <1>2. \A i \in DOMAIN r : IsScreen(r[i], lu) => i \in DOMAIN srv /\ r[i] = srv[i]
    BY <1>1
  <1>3. Ordered(lu, r, last, top)
    BY <1>2 DEF Ordered
  <1> QED BY <1>3 DEF r

LEMMA OrderedScreen ==
  ASSUME NEW lu, NEW srv \in Seq(Outbound), NEW last \in Nat, NEW top \in Nat,
         NEW q \in Outbound, IsScreen(q, lu), top < q.snf, Ordered(lu, srv, last, top)
  PROVE  Ordered(lu, Append(srv, q), last, q.snf)
  <1> DEFINE r == Append(srv, q)
             n == Len(srv) + 1
  <1>1. /\ DOMAIN srv = 1 .. Len(srv) /\ Len(srv) \in Nat /\ DOMAIN r = 1 .. n
        /\ \A i \in 1 .. Len(srv) : r[i] = srv[i]
        /\ r[n] = q
    OBVIOUS
  <1> HIDE DEF r
  <1>2. /\ \A i \in DOMAIN srv : srv[i].snf \in Nat
        /\ q.snf \in Nat
    <2>1. q.snf \in Nat
      BY SnfAssumption DEF Outbound
    <2> QED BY <2>1, SnfType
  <1>3. last <= q.snf /\ last < q.snf
    BY <1>2 DEF Ordered
  <1>4. ASSUME NEW j \in DOMAIN r, IsScreen(r[j], lu)
        PROVE  /\ last < r[j].snf /\ r[j].snf <= q.snf
               /\ \A k \in DOMAIN r : IsScreen(r[k], lu) /\ j < k => r[j].snf < r[k].snf
    <2>1. CASE j = n
      <3>1. \A k \in DOMAIN r : ~(j < k)
        BY <1>1, <2>1
      <3> QED BY <1>1, <1>2, <1>3, <2>1, <3>1
    <2>2. CASE j # n
      <3>1. j \in DOMAIN srv /\ r[j] = srv[j]
        BY <1>1, <2>2
      <3>2. last < srv[j].snf /\ srv[j].snf <= top
        BY <1>4, <3>1 DEF Ordered
      <3>3. srv[j].snf < q.snf
        BY <1>2, <3>1, <3>2
      <3>4. ASSUME NEW k \in DOMAIN r, IsScreen(r[k], lu), j < k PROVE r[j].snf < r[k].snf
        <4>1. CASE k = n
          BY <1>1, <3>1, <3>3, <4>1
        <4>2. CASE k # n
          <5>1. k \in DOMAIN srv /\ r[k] = srv[k]
            BY <1>1, <4>2
          <5> QED BY <1>4, <3>1, <3>4, <5>1 DEF Ordered
        <4> QED BY <4>1, <4>2
      <3> QED BY <1>2, <3>1, <3>2, <3>3, <3>4
    <2> QED BY <2>1, <2>2
  <1>5. Ordered(lu, r, last, q.snf)
    BY <1>3, <1>4 DEF Ordered
  <1> QED BY <1>5 DEF r

LEMMA OrderedTail ==
  ASSUME NEW lu, NEW srv \in Seq(Outbound), srv # <<>>, NEW last \in Nat, NEW top \in Nat,
         Ordered(lu, srv, last, top)
  PROVE  Ordered(lu, Tail(srv), IF IsScreen(Head(srv), lu) THEN Head(srv).snf ELSE last, top)
  <1> DEFINE t == Tail(srv)
             read == IF IsScreen(Head(srv), lu) THEN Head(srv).snf ELSE last
  <1>1. /\ DOMAIN srv = 1 .. Len(srv) /\ Len(srv) \in Nat /\ Len(srv) >= 1
        /\ DOMAIN t = 1 .. Len(srv) - 1
        /\ \A i \in 1 .. Len(srv) - 1 : t[i] = srv[i + 1]
        /\ Head(srv) = srv[1]
    BY HeadTailProperties, LenProperties
  <1> HIDE DEF t
  <1>2. read <= top
    BY <1>1 DEF Ordered
  <1>3. ASSUME NEW j \in DOMAIN t, IsScreen(t[j], lu)
        PROVE  /\ read < t[j].snf /\ t[j].snf <= top
               /\ \A k \in DOMAIN t : IsScreen(t[k], lu) /\ j < k => t[j].snf < t[k].snf
    <2>1. j + 1 \in DOMAIN srv /\ t[j] = srv[j + 1] /\ 1 \in DOMAIN srv /\ 1 < j + 1
      BY <1>1
    <2>2. read < t[j].snf
      BY <1>1, <1>3, <2>1 DEF Ordered
    <2>3. ASSUME NEW k \in DOMAIN t, IsScreen(t[k], lu), j < k PROVE t[j].snf < t[k].snf
      <3>1. k + 1 \in DOMAIN srv /\ t[k] = srv[k + 1] /\ j + 1 < k + 1
        BY <1>1, <2>3
      <3> QED BY <1>3, <2>1, <2>3, <3>1 DEF Ordered
    <2> QED BY <1>3, <2>1, <2>2, <2>3 DEF Ordered
  <1>4. Ordered(lu, t, read, top)
    BY <1>2, <1>3 DEF Ordered
  <1> QED BY <1>4 DEF t

\* Where the main goroutine waits for SNA Server's answer to BIND or to SDT.
BindWaits == {"bind_wait", "sweep_wait", "sdt_wait"}

\* Requests that the gateway has not read yet, and ACTLUs it has sent.
Unread(gw) == Count(gw, {p \in Inbound : IsRequest(p)})
ActSent == IF pc = "actlu_wait" THEN idx ELSE idx - 1

(***************************************************************************)
(* The counters stay below their limits: the main goroutine's by the       *)
(* ACTLUs sent and the requests read, a file session's by the requests.    *)
(***************************************************************************)
NumberInv ==
    /\ Unbridged
    /\ idx <= Len(LuList) + 1 /\ ActSent <= Len(LuList)
    /\ BindMode => \A q \in Range(toSrv) : q.type # "DATA"
    /\ pc \in BindWaits => BindMode
    /\ ~BindMode =>
          /\ snf + Unread(toGw) <= requests + 1 + ActSent
          /\ \A lu \in LU : /\ fileSnf[lu] + Unread(toGw) <= requests
                            /\ Ordered(lu, toSrv, lastSnf[lu], ScreenSnf(lu))

\* A step of the gateway that numbers no screen.
Unnumbered ==
    /\ UNCHANGED <<snf, fileSnf>>
    /\ \/ toSrv' = toSrv
       \/ \E q \in Outbound : q.type # "DATA" /\ toSrv' = Append(toSrv, q)

\* A screen in response to the request that is read.
Numbered ==
    /\ Recv /\ IsRequest(Head(toGw))
    /\ LET lu == Head(toGw).lu
           n == Inc(ScreenSnf(lu))
       IN  /\ SendData(n)
           /\ IF FileMode THEN fileSnf' = [fileSnf EXCEPT ![lu] = n] /\ snf' = snf
                          ELSE fileSnf' = fileSnf /\ snf' = n

LEMMA AckedType ==
  ASSUME TypeInv, toGw # <<>>
  PROVE  /\ PositiveRsp(Head(toGw)) \in Outbound /\ PositiveRsp(Head(toGw)).type = "RSP"
         /\ Acked \in {toSrv, Append(toSrv, PositiveRsp(Head(toGw)))} /\ Acked \in Seq(Outbound)
  <1>1. PositiveRsp(Head(toGw)) \in Outbound
    BY HeadType, SnfAssumption DEF PositiveRsp, Piu, Outbound, TypeInv, ServerTypeOK, Inbound,
       Request, Response
  <1> QED BY <1>1, SentType DEF Acked, Sent, PositiveRsp, Piu, TypeInv, ServerTypeOK

\* What the gateway does in the modes that neither drive BIND nor bridge.
LEMMA GatewayNumbers ==
  ASSUME TypeInv, NoTarget, Unbridged, ~BindMode, ProbeNext,
         pc \notin BindWaits
  PROVE  /\ UNCHANGED serverVars
         /\ \/ /\ Unnumbered
               /\ toGw' = toGw \/ Recv
            \/ SendActLU
            \/ Numbered
  <1>1. TypeInv /\ SnfMod \in Nat /\ SnfMod > 0 /\ snf \in Snf /\ Inc(snf) \in Snf
    BY SnfAssumption, IncType DEF TypeInv, ProbeTypeOK
  <1>2. CASE SendActPU
    <2>1. Piu("ACTPU", PU, snf) \in Outbound /\ Piu("ACTPU", PU, snf).type = "ACTPU"
      BY <1>1 DEF Piu, Outbound, Snf
    <2> QED BY <1>2, <2>1 DEF SendActPU, Sent, Unnumbered
  <1>3. CASE RecvActPU \/ ActPUTimeout \/ ActivationDone \/ AckTimeout
    BY <1>3 DEF RecvActPU, ActPUTimeout, ActivationDone, AckTimeout, Exit, RecvTimeout, Recv,
                Unnumbered, linkVars
  <1>4. CASE SendActLU
    BY <1>4 DEF SendActLU
  <1>5. CASE RecvAck
    <2>1. Recv /\ toSrv' \in {toSrv, Acked}
      BY <1>5 DEF RecvAck, Acked
    <2>2. UNCHANGED <<snf, fileSnf, serverVars>> /\ pc' = "actlu"
      BY <1>5 DEF RecvAck, Recv
    <2> QED BY <1>5, <2>1, <2>2, AckedType DEF Unnumbered, Recv
  <1>6. CASE Discard
    BY <1>6 DEF Discard, Recv, probeVars, loopVars, Unnumbered
  <1>7. CASE MenuIdle \/ Ignore \/ (ShowFile /\ toSrv' = Acked /\ UNCHANGED fileSnf)
    <2>1. Recv /\ toSrv' = Acked /\ pc = "observe"
      BY <1>7 DEF MenuIdle, Ignore, ShowFile, Observe
    <2>2. UNCHANGED <<snf, fileSnf, pc, serverVars>>
      BY <1>7, <2>1 DEF MenuIdle, Ignore, ShowFile, Recv, probeVars, loopVars
    <2> QED BY <2>1, <2>2, AckedType DEF Unnumbered, Recv
  <1>8. CASE MenuReady \/ MenuLine \/ EchoReply \/ UssScreen
    <2>1. Recv /\ IsRequest(Head(toGw)) /\ pc = "observe"
      BY <1>8 DEF MenuReady, MenuLine, EchoReply, UssScreen, Observe
    <2>2. ~FileMode
      BY <1>8 DEF MenuReady, MenuLine, EchoReply, UssScreen, UssAttach, HostMode, FileMode
    <2>3. SendData(Inc(snf)) /\ snf' = Inc(snf) /\ UNCHANGED <<pc, fileSnf, serverVars>>
      BY <1>8, <2>1 DEF MenuReady, MenuLine, EchoReply, UssScreen, Recv
    <2> QED BY <2>1, <2>2, <2>3 DEF Numbered, ScreenSnf
  <1>9. CASE ShowFile /\ ~(toSrv' = Acked /\ UNCHANGED fileSnf)
    <2>1. Recv /\ IsRequest(Head(toGw)) /\ pc = "observe" /\ FileMode
      BY <1>9 DEF ShowFile, Observe, FileMode
    <2>2. /\ SendData(Inc(fileSnf[Head(toGw).lu])) /\ UNCHANGED <<pc, snf, serverVars>>
          /\ fileSnf' = [fileSnf EXCEPT ![Head(toGw).lu] = Inc(@)]
      BY <1>9, <2>1 DEF ShowFile, Recv, loopVars
    <2> QED BY <2>1, <2>2 DEF Numbered, ScreenSnf
  <1>10. CASE ReadEnds \/ Deliver
    BY <1>10 DEF ReadEnds, Exit, Deliver, linkVars, Unnumbered
  <1>11. ~TearDown /\ ~UssBridge /\ ~DeliverInput /\ ~SendBind
    BY DEF TearDown, UssBridge, UssAttach, DeliverInput, SendBind, Unbridged, NoTarget
  <1>12. InnerWait => Deliver
    BY DEF BindWaits, InnerWait, RecvBindRsp, BindTimeout, SdtDone, SweepAccepted, SweepNext
  <1> QED BY <1>2, <1>3, <1>4, <1>5, <1>6, <1>7, <1>8, <1>9, <1>10, <1>11, <1>12
          DEF ProbeNext, Activation, ObserveLoop

\* Without a bridge and with -target not in use, none appears.
LEMMA NoTargetUnbridged ==
  ASSUME TypeInv, NoTarget, Unbridged, [Next]_vars, pc \in BindWaits => BindMode
  PROVE  Unbridged' /\ ~BridgeNext /\ (pc' \in BindWaits => BindMode)
  <1>1. DOMAIN sessions = {}
    BY EmptySeq DEF Unbridged
  <1>2. ~BridgeNext
    BY <1>1 DEF BridgeNext
  <1>3. CASE Activation
    BY <1>2, <1>3 DEF Activation, SendActPU, RecvActPU, ActPUTimeout, Exit, SendActLU, ActivationDone,
                RecvAck, AckTimeout, Unbridged, BindWaits
  <1>4. CASE ObserveLoop
    BY <1>2, <1>4 DEF ObserveLoop, Discard, TearDown, MenuIdle, MenuReady, MenuLine, EchoReply, ShowFile,
         UssBridge, UssAttach, UssScreen, DeliverInput, SendBind, Ignore, ReadEnds, Exit,
         probeVars, loopVars, Observe, Unbridged, NoTarget, BindWaits
  <1>5. CASE Deliver
    <2>1. sessions' = [sessions EXCEPT ![session].inbound = Append(@, cur)] \/ UNCHANGED sessions
      BY <1>5 DEF Deliver
    <2>2. sessions' = sessions
      BY <2>1 DEF Unbridged
    <2> QED BY <1>2, <1>5, <2>2 DEF Deliver, Unbridged, BindWaits
  <1>6. CASE SdtDone
    <2>1. BindMode /\ ~Set("target")
      BY <1>6 DEF SdtDone, BindWaits, BindMode, NoTarget
    <2> QED BY <1>2, <1>6, <2>1 DEF SdtDone, Unbridged
  <1>7. CASE InnerWait /\ ~Deliver /\ ~SdtDone
    BY <1>2, <1>7 DEF InnerWait, RecvBindRsp, BindTimeout, SweepAccepted, SweepNext, Unbridged, BindWaits
  <1>8. CASE UNCHANGED probeVars
    BY <1>2, <1>8 DEF probeVars, loopVars, Unbridged
  <1> QED BY <1>2, <1>3, <1>4, <1>5, <1>6, <1>7, <1>8 DEF Next, ProbeNext, Finished, vars

\* The main goroutine goes down the list and not past its end.
LEMMA ListEnd ==
  ASSUME TypeInv, ProbeNext \/ BridgeNext, idx <= Len(LuList) + 1, ActSent <= Len(LuList)
  PROVE  /\ idx' <= Len(LuList) + 1 /\ ActSent' <= Len(LuList)
         /\ ActSent <= ActSent' /\ (SendActLU => ActSent' = ActSent + 1)
         /\ ActSent \in Nat /\ ActSent' \in Nat
  <1>1. idx \in Nat /\ idx >= 1 /\ Len(LuList) \in Nat
    BY LuListAssumption, LenProperties DEF TypeInv, ProbeTypeOK
  <1>2. CASE Activation
    BY <1>1, <1>2 DEF Activation, SendActPU, RecvActPU, ActPUTimeout, Exit, SendActLU,
       ActivationDone, RecvAck, AckTimeout, ActSent
  <1>3. CASE ObserveLoop
    <2>1. pc = "observe" /\ idx' = idx /\ pc' # "actlu_wait"
      BY <1>3 DEF ObserveLoop, Discard, TearDown, MenuIdle, MenuReady, MenuLine, EchoReply,
         ShowFile, UssBridge, UssScreen, DeliverInput, SendBind, Ignore, ReadEnds, Exit, Observe,
         probeVars, loopVars
    <2> QED BY <1>1, <2>1 DEF ActSent, SendActLU
  <1>4. CASE InnerWait
    <2>1. pc \notin {"actlu", "actlu_wait"} /\ idx' = idx /\ pc' # "actlu_wait"
      BY <1>4 DEF InnerWait, Deliver, RecvBindRsp, BindTimeout, SdtDone, SweepAccepted, SweepNext
    <2> QED BY <1>1, <2>1 DEF ActSent, SendActLU
  <1>5. CASE BridgeNext
    <2>1. PICK i \in DOMAIN sessions :
             BridgeForward(i) \/ BridgeScreen(i) \/ BridgeClose(i) \/ BridgeEnd(i)
      BY <1>5 DEF BridgeNext
    <2>2. Bridge(i)
      BY <2>1 DEF BridgeForward, BridgeScreen, BridgeClose, BridgeEnd
    <2>3. pc' = pc /\ idx' = idx
      BY <2>2 DEF Bridge, loopVars
    <2> QED BY <1>1, <1>5, <2>3 DEF ActSent, SendActLU
  <1> QED BY <1>2, <1>3, <1>4, <1>5 DEF ProbeNext

LEMMA UnreadRead ==
  ASSUME TypeInv, Recv
  PROVE  /\ Unread(toGw) \in Nat /\ Unread(toGw') \in Nat
         /\ Unread(toGw) = Unread(toGw') + (IF IsRequest(Head(toGw)) THEN 1 ELSE 0)
  <1> DEFINE R == {p \in Inbound : IsRequest(p)}
  <1>1. toGw \in Seq(Inbound) /\ toGw # <<>> /\ toGw' = Tail(toGw) /\ Head(toGw) \in Inbound
    BY HeadType DEF TypeInv, ServerTypeOK, Inbound, Recv
  <1>2. Head(toGw) \in R <=> IsRequest(Head(toGw))
    BY <1>1
  <1>3. Tail(toGw) \in Seq(Inbound)
    BY <1>1, HeadTailProperties
  <1> HIDE DEF R
  <1>4. Count(toGw, R) \in Nat /\ Count(Tail(toGw), R) \in Nat
    BY <1>1, <1>3, CountType
  <1>5. Count(toGw, R) = Count(Tail(toGw), R) + (IF Head(toGw) \in R THEN 1 ELSE 0)
    BY <1>1, CountTail
  <1> QED BY <1>1, <1>2, <1>4, <1>5 DEF Unread, R

\* What NumberInv says in the modes that number screens.
Counted ==
    /\ snf + Unread(toGw) <= requests + 1 + ActSent
    /\ \A lu \in LU : /\ fileSnf[lu] + Unread(toGw) <= requests
                      /\ Ordered(lu, toSrv, lastSnf[lu], ScreenSnf(lu))

LEMMA NumberTypes ==
  ASSUME TypeInv
  PROVE  /\ toGw \in Seq(Inbound) /\ toSrv \in Seq(Outbound)
         /\ snf \in Nat /\ requests \in Nat /\ requests <= MaxRequests /\ Unread(toGw) \in Nat
         /\ MaxRequests \in Nat /\ Len(LuList) \in Nat /\ SnfMod \in Nat
         /\ fileSnf \in [LU -> Snf] /\ lastSnf \in [LU -> Snf] /\ PU \notin LU
         /\ \A lu \in LU : fileSnf[lu] \in Nat /\ lastSnf[lu] \in Nat /\ ScreenSnf(lu) \in Nat
  <1>1. /\ toGw \in Seq(Inbound) /\ toSrv \in Seq(Outbound) /\ requests \in 0 .. MaxRequests
        /\ snf \in Snf /\ fileSnf \in [LU -> Snf] /\ lastSnf \in [LU -> Snf]
    BY DEF TypeInv, ServerTypeOK, ProbeTypeOK, Inbound, Snf
  <1>2. \A n \in Snf : n \in Nat
    BY SnfAssumption DEF Snf
  <1>3. Unread(toGw) \in Nat
    BY <1>1, CountType DEF Unread
  <1>4. MaxRequests \in Nat /\ Len(LuList) \in Nat /\ SnfMod \in Nat /\ PU \notin LU
    BY LuListAssumption, LenProperties, MaxRequestsAssumption, SnfAssumption, LUAssumption DEF PU
  <1>5. \A lu \in LU : fileSnf[lu] \in Nat /\ lastSnf[lu] \in Nat /\ ScreenSnf(lu) \in Nat
    BY <1>1, <1>2 DEF ScreenSnf
  <1> QED BY <1>1, <1>2, <1>3, <1>4, <1>5

\* A screen goes out under the next number of its session.
LEMMA ScreenNumbered ==
  ASSUME TypeInv, TypeInv', UNCHANGED flags, NoWrap, Counted, Numbered, UNCHANGED serverVars,
         ActSent \in Nat, ActSent <= Len(LuList), ActSent' \in Nat, ActSent <= ActSent'
  PROVE  Counted'
  <1> DEFINE x == Head(toGw).lu
             n == Inc(ScreenSnf(x))
             rsp == PositiveRsp(Head(toGw))
             screen == Piu("DATA", x, n)
  <1>1. /\ Unread(toGw) \in Nat /\ Unread(toGw') \in Nat /\ Unread(toGw) = Unread(toGw') + 1
        /\ toGw # <<>>
    BY UnreadRead DEF Numbered, Recv
  <1>2. x \in LU
    <2>1. Head(toGw) \in Inbound
      BY <1>1, NumberTypes, HeadType
    <2> QED BY <2>1 DEF Numbered, IsRequest, Inbound, Request, Response
  <1>3. ScreenSnf(x) \in Nat /\ ScreenSnf(x) + 1 < SnfMod
    <2>1. CASE FileMode
      <3>1. ScreenSnf(x) = fileSnf[x] /\ fileSnf[x] + Unread(toGw) <= requests
            /\ fileSnf[x] \in Nat
        BY <1>2, <2>1, NumberTypes DEF Counted, ScreenSnf
      <3>2. /\ requests \in Nat /\ requests <= MaxRequests /\ MaxRequests \in Nat
            /\ Len(LuList) \in Nat /\ SnfMod \in Nat
        BY NumberTypes
      <3>3. SnfMod > 1 + Len(LuList) + MaxRequests
        BY DEF NoWrap
      <3>4. \A a, u, v, r, m, l, s \in Nat :
               /\ u = v + 1 /\ a + u <= r /\ r <= m /\ s > 1 + l + m
               => a + 1 < s
        OBVIOUS
      <3>5. fileSnf[x] + 1 < SnfMod
        BY <1>1, <3>1, <3>2, <3>3, <3>4
      <3> QED BY <3>1, <3>5
    <2>2. CASE ~FileMode
      <3>1. ScreenSnf(x) = snf
        BY <2>2 DEF ScreenSnf
      <3>2. /\ requests \in Nat /\ requests <= MaxRequests /\ MaxRequests \in Nat
            /\ Len(LuList) \in Nat /\ SnfMod \in Nat /\ snf \in Nat
        BY NumberTypes
      <3>3. SnfMod > 1 + Len(LuList) + MaxRequests
        BY DEF NoWrap
      <3>4. snf + Unread(toGw) <= requests + 1 + ActSent
        BY DEF Counted
      <3>5. \A a, u, v, r, m, l, s, c \in Nat :
               /\ u = v + 1 /\ a + u <= r + 1 + c /\ c <= l /\ r <= m /\ s > 1 + l + m
               => a + 1 < s
        OBVIOUS
      <3>6. snf + 1 < SnfMod
        BY <1>1, <3>2, <3>3, <3>4, <3>5
      <3> QED BY <3>1, <3>2, <3>6
    <2> QED BY <2>1, <2>2
  <1>4. n = ScreenSnf(x) + 1
    BY <1>3, IncNext
  <1>5. FileMode' <=> FileMode
    BY DEF FileMode, Set, HostMode
  <1>6. \A lu : /\ FileMode => ScreenSnf(lu)' = fileSnf'[lu]
                /\ ~FileMode => ScreenSnf(lu)' = snf'
    BY <1>5 DEF ScreenSnf
  <1>7. screen \in Outbound /\ IsScreen(screen, x) /\ screen.snf = n
        /\ \A lu : IsScreen(screen, lu) => lu = x
    <2>1. n \in 0 .. SnfMod - 1
      BY <1>3, <1>4, NumberTypes
    <2> QED BY <1>2, <2>1 DEF Piu, Outbound, IsScreen
  <1>8. rsp \in Outbound /\ \A lu : ~IsScreen(rsp, lu)
    BY <1>1, AckedType DEF IsScreen
  <1>9. \/ toSrv' = toSrv
        \/ toSrv' = Append(Append(toSrv, rsp), screen)
    BY DEF Numbered, SendData, Acked, Sent
  <1>10. ASSUME NEW lu \in LU
         PROVE  Ordered(lu, toSrv', lastSnf[lu], IF lu = x THEN n ELSE ScreenSnf(lu))
    <2>1. Ordered(lu, toSrv, lastSnf[lu], ScreenSnf(lu)) /\ toSrv \in Seq(Outbound)
          /\ lastSnf[lu] \in Nat /\ ScreenSnf(lu) \in Nat /\ n \in Nat
      <3>1. n \in Nat
        BY <1>3, <1>4
      <3> QED BY <3>1, NumberTypes DEF Counted
    <2> DEFINE mid == Append(toSrv, rsp)
    <2>2. mid \in Seq(Outbound) /\ Ordered(lu, mid, lastSnf[lu], ScreenSnf(lu))
      BY <1>8, <2>1, OrderedOther
    <2> HIDE DEF n, screen, rsp, x, mid
    <2>3. CASE toSrv' = toSrv
      BY <1>4, <2>1, <2>3, OrderedTop
    <2>4. CASE toSrv' = Append(mid, screen)
      <3>1. CASE lu = x
        BY <1>3, <1>4, <1>7, <2>1, <2>2, <2>4, <3>1, OrderedScreen
      <3>2. CASE lu # x
        BY <1>7, <2>1, <2>2, <2>4, <3>2, OrderedOther
      <3> QED BY <3>1, <3>2
    <2> QED BY <1>9, <2>3, <2>4 DEF mid
  <1>11. snf' + Unread(toGw') <= requests' + 1 + ActSent'
    <2>1. snf' <= snf + 1 /\ snf' \in Nat /\ requests' = requests
      <3>1. CASE FileMode
        BY <3>1, NumberTypes DEF Numbered, serverVars
      <3>2. CASE ~FileMode
        BY <1>3, <1>4, <3>2, NumberTypes DEF Numbered, serverVars, ScreenSnf
      <3> QED BY <3>1, <3>2
    <2>2. snf + Unread(toGw) <= requests + 1 + ActSent
      BY DEF Counted
    <2>3. /\ snf \in Nat /\ requests \in Nat /\ Unread(toGw) = Unread(toGw') + 1
          /\ Unread(toGw') \in Nat
      BY <1>1, NumberTypes
    <2>4. \A a, b, c, d, e, f \in Nat :
             a <= b + 1 /\ b + (c + 1) <= d + 1 + e /\ e <= f => a + c <= d + 1 + f
      OBVIOUS
    <2> QED BY <2>1, <2>2, <2>3, <2>4
  <1>12. ASSUME NEW lu \in LU
         PROVE  /\ fileSnf'[lu] + Unread(toGw') <= requests'
                /\ Ordered(lu, toSrv', lastSnf'[lu], ScreenSnf(lu)')
    <2>1. lastSnf' = lastSnf /\ requests' = requests
      BY DEF serverVars
    <2>2. fileSnf[lu] \in Nat /\ fileSnf[lu] + Unread(toGw) <= requests /\ fileSnf \in [LU -> Snf]
      BY NumberTypes DEF Counted
    <2>3. CASE FileMode
      <3>1. fileSnf' = [fileSnf EXCEPT ![x] = n] /\ ScreenSnf(x) = fileSnf[x]
        BY <2>3 DEF Numbered, ScreenSnf
      <3>2. fileSnf'[lu] = IF lu = x THEN fileSnf[lu] + 1 ELSE fileSnf[lu]
        BY <1>4, <2>2, <3>1
      <3>3. ScreenSnf(lu)' = IF lu = x THEN n ELSE ScreenSnf(lu)
        BY <1>4, <1>6, <2>3, <3>1, <3>2 DEF ScreenSnf
      <3> QED BY <1>1, <1>10, <2>1, <2>2, <3>2, <3>3, NumberTypes, SMTT(60)
    <2>4. CASE ~FileMode
      <3>1. fileSnf' = fileSnf /\ snf' = n /\ \A y : ScreenSnf(y) = snf
        BY <2>4 DEF Numbered, ScreenSnf
      <3>2. ScreenSnf(lu)' = n
        BY <1>6, <2>4, <3>1
      <3>3. Ordered(lu, toSrv', lastSnf[lu], n)
        <4>1. toSrv' \in Seq(Outbound) /\ lastSnf[lu] \in Nat /\ snf \in Nat /\ n \in Nat /\ snf <= n
          <5>1. toSrv' \in Seq(Outbound)
            BY DEF TypeInv, ServerTypeOK
          <5>2. ScreenSnf(x) = snf /\ n = snf + 1
            BY <1>4, <3>1
          <5>3. lastSnf[lu] \in Nat /\ snf \in Nat
            BY NumberTypes
          <5>4. n \in Nat /\ snf <= n
            <6> HIDE DEF n
            <6> QED BY <5>2, <5>3
          <5> QED BY <5>1, <5>3, <5>4
        <4> HIDE DEF n
        <4>2. CASE lu = x
          BY <1>10, <4>2
        <4>3. CASE lu # x
          BY <1>10, <3>1, <4>1, <4>3, OrderedTop
        <4> QED BY <4>2, <4>3
      <3> QED BY <1>1, <2>1, <2>2, <3>1, <3>2, <3>3, NumberTypes, SMTT(60)
    <2> QED BY <2>3, <2>4
  <1> QED BY <1>11, <1>12 DEF Counted

\* A step that sends no screen.
LEMMA NothingNumbered ==
  ASSUME TypeInv, UNCHANGED <<flags, requests, lastSnf, fileSnf>>, Counted, snf' \in Nat,
         \/ toSrv' = toSrv
         \/ \E q \in Outbound : q.type # "DATA" /\ toSrv' = Append(toSrv, q),
         toGw' = toGw \/ Recv, ActSent \in Nat, ActSent' \in Nat,
         snf <= snf', snf' + ActSent <= snf + ActSent'
  PROVE  Counted'
  <1>1. Unread(toGw') \in Nat /\ Unread(toGw') <= Unread(toGw)
    BY UnreadRead, NumberTypes, SMTT(60)
  <1>2. snf' + Unread(toGw') <= requests + 1 + ActSent'
    <2>1. snf + Unread(toGw) <= requests + 1 + ActSent
      BY DEF Counted
    <2>2. snf \in Nat /\ requests \in Nat /\ Unread(toGw) \in Nat
      BY NumberTypes
    <2>3. \A t, u, n, w, b, e, f \in Nat :
             t + e <= n + f /\ u <= w /\ n + w <= b + 1 + e => t + u <= b + 1 + f
      OBVIOUS
    <2> QED BY <1>1, <2>1, <2>2, <2>3
  <1>3. ASSUME NEW lu \in LU
        PROVE  /\ fileSnf'[lu] + Unread(toGw') <= requests'
               /\ Ordered(lu, toSrv', lastSnf'[lu], ScreenSnf(lu)')
    <2>1. /\ fileSnf[lu] + Unread(toGw) <= requests
          /\ Ordered(lu, toSrv, lastSnf[lu], ScreenSnf(lu))
          /\ fileSnf[lu] \in Nat /\ lastSnf[lu] \in Nat /\ ScreenSnf(lu) \in Nat
          /\ toSrv \in Seq(Outbound)
      BY NumberTypes DEF Counted
    <2>2. ScreenSnf(lu)' \in Nat /\ ScreenSnf(lu) <= ScreenSnf(lu)'
      BY <2>1, NumberTypes DEF ScreenSnf, FileMode, Set, HostMode
    <2>3. Ordered(lu, toSrv', lastSnf[lu], ScreenSnf(lu))
      BY <2>1, OrderedOther DEF IsScreen
    <2>4. toSrv' \in Seq(Outbound)
      BY <2>1, SMTT(60)
    <2>5. Ordered(lu, toSrv', lastSnf[lu], ScreenSnf(lu)')
      BY <2>1, <2>2, <2>3, <2>4, OrderedTop
    <2>6. requests \in Nat /\ Unread(toGw) \in Nat
      BY NumberTypes
    <2>7. fileSnf[lu] + Unread(toGw') <= requests
      BY <1>1, <2>1, <2>6, SMTT(60)
    <2> QED BY <2>5, <2>7
  <1> QED BY <1>2, <1>3 DEF Counted

LEMMA GatewayCounted ==
  ASSUME TypeInv, TypeInv', NoTarget, NoWrap, NumberInv, ~BindMode, ProbeNext, UNCHANGED flags
  PROVE  Counted'
  <1>1. Counted /\ Unbridged /\ pc \notin BindWaits
    BY DEF NumberInv, Counted
  <1>2. /\ ActSent \in Nat /\ ActSent' \in Nat /\ ActSent <= ActSent'
        /\ ActSent <= Len(LuList) /\ ActSent' <= Len(LuList)
        /\ SendActLU => ActSent' = ActSent + 1
    BY ListEnd DEF NumberInv
  <1>3. CASE Unnumbered /\ (toGw' = toGw \/ Recv)
    <2>1. UNCHANGED serverVars
      BY <1>1, GatewayNumbers
    <2> QED BY <1>1, <1>2, <1>3, <2>1, NothingNumbered, NumberTypes DEF Unnumbered, serverVars
  <1>4. CASE SendActLU
    <2> DEFINE actlu == Piu("ACTLU", LuList[idx], Inc(snf))
    <2>1. snf + 1 < SnfMod
      <3>1. snf + Unread(toGw) <= requests + 1 + ActSent /\ ActSent + 1 <= Len(LuList)
        BY <1>1, <1>2, <1>4 DEF Counted
      <3> QED BY <1>2, <3>1, NumberTypes, SMTT(60) DEF NoWrap
    <2>2. snf' = snf + 1 /\ Inc(snf) = snf + 1
      BY <1>4, <2>1, IncNext, NumberTypes DEF SendActLU
    <2>3. actlu \in Outbound /\ actlu.type = "ACTLU"
      <3>1. LuList[idx] \in LU
        BY <1>4, LuListAssumption, ElementOfSeq DEF SendActLU, TypeInv, ProbeTypeOK
      <3>2. Inc(snf) \in 0 .. SnfMod - 1
        BY <2>1, <2>2, NumberTypes
      <3> QED BY <3>1, <3>2 DEF Piu, Outbound
    <2>4. \/ toSrv' = toSrv
          \/ \E q \in Outbound : q.type # "DATA" /\ toSrv' = Append(toSrv, q)
      BY <1>4, <2>3 DEF SendActLU, Sent
    <2>5. UNCHANGED <<requests, lastSnf, fileSnf, toGw>>
      BY <1>4 DEF SendActLU, serverVars
    <2>6. snf' \in Nat /\ snf <= snf' /\ snf' + ActSent <= snf + ActSent'
      BY <1>2, <1>4, <2>2, NumberTypes, SMTT(60)
    <2> QED BY <1>1, <1>2, <2>4, <2>5, <2>6, NothingNumbered
  <1>5. CASE Numbered
    <2>1. UNCHANGED serverVars
      BY <1>1, GatewayNumbers
    <2> QED BY <1>1, <1>2, <1>5, <2>1, ScreenNumbered
  <1> QED BY <1>1, <1>3, <1>4, <1>5, GatewayNumbers

\* SNA Server reads the screens in order, and what it asks it counts.
LEMMA ServerCounted ==
  ASSUME TypeInv, Counted, ServerNext, UNCHANGED <<flags, probeVars>>
  PROVE  Counted'
  <1>1. /\ UNCHANGED <<snf, fileSnf>> /\ ActSent' = ActSent
        /\ \A lu : ScreenSnf(lu)' = ScreenSnf(lu)
    BY DEF probeVars, loopVars, ActSent, ScreenSnf, FileMode, Set, HostMode
  <1>2. ActSent \in Int /\ \A p : p.rri = "response" => ~IsRequest(p)
    BY DEF ActSent, TypeInv, ProbeTypeOK, IsRequest
  <1>3. CASE ServerOriginates
    <2>1. PICK x \in LU : NotifyIdle(x) \/ NotifyReady(x) \/ TypeLine(x) \/ SendUnbind(x)
      BY <1>3 DEF ServerOriginates
    <2>2. /\ requests' = requests + 1 /\ UNCHANGED <<toSrv, lastSnf>>
          /\ \E p : toGw' = Append(toGw, p)
      BY <2>1 DEF NotifyIdle, NotifyReady, TypeLine, SendUnbind, Originate
    <2>3. Unread(toGw') \in Nat /\ Unread(toGw') <= Unread(toGw) + 1
      <3>1. PICK p : toGw' = Append(toGw, p)
        BY <2>2
      <3>2. Unread(toGw') = Unread(toGw) + (IF p \in {r \in Inbound : IsRequest(r)} THEN 1 ELSE 0)
        BY <3>1, CountAppend, NumberTypes DEF Unread
      <3> QED BY <3>2, NumberTypes
    <2>4. snf' + Unread(toGw') <= requests' + 1 + ActSent'
      <3>1. snf + Unread(toGw) <= requests + 1 + ActSent
        BY DEF Counted
      <3>2. snf \in Nat /\ requests \in Nat /\ Unread(toGw) \in Nat
        BY NumberTypes
      <3>3. \A u, n, w, b \in Nat, e \in Int :
               u <= w + 1 /\ n + w <= b + 1 + e => n + u <= b + 1 + 1 + e
        OBVIOUS
      <3> QED BY <1>1, <1>2, <2>2, <2>3, <3>1, <3>2, <3>3
    <2>5. ASSUME NEW lu \in LU PROVE fileSnf'[lu] + Unread(toGw') <= requests'
      <3>1. fileSnf[lu] + Unread(toGw) <= requests
        BY DEF Counted
      <3>2. fileSnf[lu] \in Nat /\ requests \in Nat /\ Unread(toGw) \in Nat
        BY NumberTypes
      <3>3. \A u, n, w, b \in Nat : u <= w + 1 /\ n + w <= b => n + u <= b + 1
        OBVIOUS
      <3> QED BY <1>1, <2>2, <2>3, <3>1, <3>2, <3>3
    <2> QED BY <1>1, <2>2, <2>4, <2>5 DEF Counted
  <1>4. CASE ServerReceives
    <2>1. requests' = requests /\ toSrv # <<>> /\ toSrv' = Tail(toSrv)
      BY <1>4, ServerAnswers DEF ServerReceives, ReceiveActPU, ReceiveActLU, ReceiveRsp,
         ReceiveData, ReceiveBind, ReceiveSdt, Receive
    <2>2. Unread(toGw') = Unread(toGw)
      <3>1. CASE toGw' = toGw
        BY <3>1
      <3>2. ASSUME NEW r, r.rri = "response", toGw' = Append(toGw, r) PROVE Unread(toGw') = Unread(toGw)
        <4>1. Unread(Append(toGw, r))
                 = Unread(toGw) + (IF r \in {p \in Inbound : IsRequest(p)} THEN 1 ELSE 0)
          BY CountAppend, NumberTypes DEF Unread
        <4>2. r \notin {p \in Inbound : IsRequest(p)}
          BY <1>2, <3>2
        <4> QED BY <3>2, <4>1, <4>2, NumberTypes
      <3> QED BY <1>4, <3>1, <3>2, ServerAnswers
    <2>3. lastSnf' = IF Head(toSrv).type = "DATA"
                     THEN [lastSnf EXCEPT ![Head(toSrv).lu] = Head(toSrv).snf] ELSE lastSnf
      BY <1>4 DEF ServerReceives, ReceiveActPU, ReceiveActLU, ReceiveRsp,
         ReceiveData, ReceiveBind, ReceiveSdt, Receive
    <2>4. ASSUME NEW lu \in LU
          PROVE  lastSnf'[lu] = IF IsScreen(Head(toSrv), lu) THEN Head(toSrv).snf ELSE lastSnf[lu]
      BY <2>3, NumberTypes DEF IsScreen
    <2>5. \A lu \in LU : Ordered(lu, toSrv', lastSnf'[lu], ScreenSnf(lu)')
      BY <1>1, <2>1, <2>4, OrderedTail, NumberTypes DEF Counted
    <2> QED BY <1>1, <2>1, <2>2, <2>5, SMTT(60) DEF Counted
  <1>5. CASE LinkLost
    BY <1>1, <1>5 DEF LinkLost, serverVars, Counted
  <1> QED BY <1>3, <1>4, <1>5 DEF ServerNext

\* In the modes that drive BIND only the bridge sends data.
LEMMA BindSendsNoData ==
  ASSUME TypeInv, BindMode, ProbeNext, \A q \in Range(toSrv) : q.type # "DATA"
  PROVE  \A q \in Range(toSrv') : q.type # "DATA"
  <1>1. toSrv \in Seq(Outbound)
    BY NumberTypes
  <1>2. ASSUME NEW srv \in Seq(Outbound), NEW srv2, NEW type, NEW x, NEW n, type # "DATA",
               \A q \in Range(srv) : q.type # "DATA", srv2 = Sent(srv, Piu(type, x, n))
        PROVE  \A q \in Range(srv2) : q.type # "DATA"
    <2>1. Piu(type, x, n).type # "DATA"
      BY <1>2 DEF Piu
    <2> QED BY <1>2, <2>1, RangeSent DEF Sent
  <1>3. CASE toSrv' = toSrv
    BY <1>3
  <1>4. ASSUME toSrv' = Acked PROVE \A q \in Range(toSrv') : q.type # "DATA"
    BY <1>1, <1>2, <1>4 DEF Acked, PositiveRsp
  <1>5. CASE Activation
    <2>1. CASE SendActPU \/ SendActLU
      BY <1>1, <1>2, <2>1 DEF SendActPU, SendActLU
    <2>2. CASE RecvAck
      BY <1>3, <1>4, <2>2 DEF RecvAck, Acked
    <2>3. CASE ~SendActPU /\ ~SendActLU /\ ~RecvAck
      BY <1>3, <1>5, <2>3 DEF Activation, RecvActPU, ActPUTimeout, ActivationDone, AckTimeout,
         Exit, linkVars
    <2> QED BY <2>1, <2>2, <2>3
  <1>6. CASE SendBind
    <2>1. Acked \in Seq(Outbound) /\ \A q \in Range(Acked) : q.type # "DATA"
      <3>1. toGw # <<>>
        BY <1>6 DEF SendBind, Observe, Recv
      <3>2. Acked \in Seq(Outbound)
        BY <3>1, AckedType
      <3> QED BY <1>1, <1>2, <3>2 DEF Acked, PositiveRsp
    <2> QED BY <1>2, <1>6, <2>1 DEF SendBind
  <1>7. CASE ObserveLoop /\ ~SendBind
    <2>1. toSrv' = toSrv \/ toSrv' = Acked
      BY <1>7 DEF BindMode, HostMode, ObserveLoop, Discard, TearDown, MenuIdle, MenuReady, MenuLine,
         EchoReply, ShowFile, UssBridge, UssAttach, UssScreen, DeliverInput, Ignore, ReadEnds, Exit
    <2> QED BY <1>3, <1>4, <2>1
  <1>8. CASE InnerWait
    <2>1. \/ toSrv' = toSrv
          \/ \E type \in {"SDT", "BIND"} : toSrv' = Sent(toSrv, Piu(type, cur.lu, Inc(snf)))
      BY <1>8 DEF InnerWait, Deliver, RecvBindRsp, BindTimeout, SdtDone, SweepAccepted, SweepNext,
         linkVars
    <2> QED BY <1>1, <1>2, <1>3, <2>1
  <1> QED BY <1>5, <1>6, <1>7, <1>8 DEF ProbeNext

LEMMA StepNumbers ==
  ASSUME TypeInv, TypeInv', NoTarget, NoWrap, NumberInv, [Next]_vars
  PROVE  NumberInv'
  <1>1. UNCHANGED flags /\ (BindMode' <=> BindMode)
    BY DEF Next, vars, BindMode, Set, HostMode
  <1>2. Unbridged' /\ ~BridgeNext /\ (pc' \in BindWaits => BindMode)
    BY NoTargetUnbridged DEF NumberInv
  <1>3. idx' <= Len(LuList) + 1 /\ ActSent' <= Len(LuList)
    <2>1. CASE ProbeNext
      BY <2>1, ListEnd DEF NumberInv
    <2>2. CASE UNCHANGED probeVars
      BY <2>2 DEF NumberInv, probeVars, loopVars, ActSent
    <2> QED BY <1>2, <2>1, <2>2 DEF Next, Finished, vars
  <1>4. ASSUME BindMode PROVE \A q \in Range(toSrv') : q.type # "DATA"
    <2>1. \A q \in Range(toSrv) : q.type # "DATA"
      BY <1>4 DEF NumberInv
    <2>2. CASE ProbeNext
      BY <1>4, <2>1, <2>2, BindSendsNoData
    <2>3. CASE ServerReceives
      <3>1. Range(toSrv') \subseteq Range(toSrv)
        BY <2>3, ServerAnswers, RangeTail, NumberTypes
      <3> QED BY <2>1, <3>1
    <2>4. CASE ServerOriginates \/ LinkLost \/ UNCHANGED vars
      <3>1. toSrv' = toSrv
        BY <2>4 DEF ServerOriginates, NotifyIdle, NotifyReady, TypeLine, SendUnbind, Originate,
           LinkLost, vars, linkVars
      <3> QED BY <2>1, <3>1
    <2> QED BY <1>2, <2>2, <2>3, <2>4 DEF Next, ServerNext, Finished
  <1>5. ASSUME ~BindMode PROVE Counted'
    <2>1. Counted
      BY <1>5 DEF NumberInv, Counted
    <2>2. CASE ProbeNext
      BY <1>1, <1>5, <2>2, GatewayCounted
    <2>3. CASE ServerNext /\ UNCHANGED probeVars
      BY <1>1, <2>1, <2>3, ServerCounted
    <2>4. CASE UNCHANGED vars
      BY <2>1, <2>4 DEF vars, serverVars, linkVars, probeVars, loopVars, Counted, ActSent,
         ScreenSnf, FileMode, Set, HostMode
    <2> QED BY <1>2, <2>2, <2>3, <2>4 DEF Next, Finished
  <1> QED BY <1>1, <1>2, <1>3, <1>4, <1>5 DEF NumberInv, Counted

LEMMA InitNumbers == Init => NumberInv
  <1> SUFFICES ASSUME Init PROVE NumberInv
    OBVIOUS
  <1>1. /\ toGw = <<>> /\ toSrv = <<>> /\ sessions = <<>> /\ session = 0 /\ pc = "start"
        /\ idx = 1 /\ snf = 1 /\ requests = 0
        /\ fileSnf = [lu \in LU |-> 0] /\ lastSnf = [lu \in LU |-> 0]
    BY DEF Init, ServerInit
  <1>2. Range(<<>>) = {} /\ DOMAIN <<>> = {}
    BY EmptySeq DEF Range
  <1>3. Unread(toGw) = 0
    <2>1. \A M : {i \in DOMAIN <<>> : <<>>[i] \in M} = {}
      BY <1>2
    <2>2. \A M : Count(<<>>, M) = 0
      BY <2>1, FS_EmptySet DEF Count
    <2> QED BY <1>1, <2>2 DEF Unread
  <1>4. idx <= Len(LuList) + 1 /\ ActSent <= Len(LuList) /\ ActSent = 0
    BY <1>1, LuListAssumption, LenProperties DEF ActSent
  <1>5. snf + Unread(toGw) <= requests + 1 + ActSent
    BY <1>1, <1>3, <1>4
  <1>6. ASSUME NEW lu \in LU
        PROVE  /\ fileSnf[lu] + Unread(toGw) <= requests
               /\ Ordered(lu, toSrv, lastSnf[lu], ScreenSnf(lu))
    BY <1>1, <1>2, <1>3 DEF Ordered, ScreenSnf
  <1> QED BY <1>1, <1>2, <1>4, <1>5, <1>6 DEF NumberInv, Unbridged, BindWaits

(***************************************************************************)
(* In every mode without a host to bridge to, an LU sees the numbers of    *)
(* its screens grow, across its terminals' reconnects, as long as the      *)
(* 16-bit counters have room for the ACTLUs and requests of the behaviour. *)
(***************************************************************************)
THEOREM NumbersGrow == NoWrap /\ Spec => [](NoTarget => SnfOrder)
  <1> SUFFICES ASSUME NoWrap PROVE Spec => [](NoTarget => SnfOrder)
    OBVIOUS
  <1> DEFINE Inv == TypeInv /\ (NoTarget => NumberInv)
  <1>1. Init => Inv
    BY InitType, InitNumbers
  <1>2. Inv /\ [Next]_vars => Inv'
    <2> SUFFICES ASSUME Inv, [Next]_vars PROVE Inv'
      OBVIOUS
    <2>1. TypeInv /\ TypeInv'
      BY StepType
    <2>2. NoTarget' <=> NoTarget
      BY DEF Next, vars, NoTarget, Set, HostMode
    <2> QED BY <2>1, <2>2, StepNumbers
  <1>3. Inv => (NoTarget => SnfOrder)
    <2> SUFFICES ASSUME TypeInv, NumberInv, NEW lu \in LU, NEW j \in Screens(lu)
                 PROVE  /\ toSrv[j].snf > lastSnf[lu]
                        /\ \A k \in Screens(lu) : j < k => toSrv[j].snf < toSrv[k].snf
      BY DEF SnfOrder
    <2>1. j \in DOMAIN toSrv /\ IsScreen(toSrv[j], lu)
      BY DEF Screens, IsScreen
    <2>2. ~BindMode
      BY <2>1 DEF NumberInv, IsScreen, Range
    <2>3. Ordered(lu, toSrv, lastSnf[lu], ScreenSnf(lu))
      BY <2>2 DEF NumberInv
    <2>4. lastSnf[lu] \in Nat /\ toSrv[j].snf \in Nat
      BY <2>1, NumberTypes, SnfType
    <2> QED BY <2>1, <2>3, <2>4 DEF Ordered, Screens, IsScreen
  <1> HIDE DEF Inv
  <1> QED BY <1>1, <1>2, <1>3, PTL DEF Spec

-----------------------------------------------------------------------------
(* BIND and SDT, with one LU on the list.                                  *)

\* What the gateway writes in a step: an acknowledgement, a PIU of its own,
\* or the one after the other.
Sends(type, x) ==
    \/ type = "ACTPU" /\ SendActPU
    \/ type = "ACTLU" /\ SendActLU
    \/ type = "DATA"
    \/ type = "BIND" /\ x = cur'.lu /\ pc' \in Serving
    \/ type = "SDT" /\ RecvBindRsp

Writes ==
    \/ toSrv' = toSrv
    \/ Recv /\ toSrv' = Acked
    \/ \E type, x, n :
          /\ Sends(type, x)
          /\ \/ toSrv' = Sent(toSrv, Piu(type, x, n))
             \/ Recv /\ toSrv' = Sent(Acked, Piu(type, x, n))

LEMMA GatewayWrites == ProbeNext \/ BridgeNext => Writes
  <1> SUFFICES ASSUME ProbeNext \/ BridgeNext PROVE Writes
    OBVIOUS
  <1>1. CASE SendActPU
    <2>1. Sends("ACTPU", PU) /\ toSrv' = Sent(toSrv, Piu("ACTPU", PU, snf))
      BY <1>1 DEF SendActPU, Sends
    <2> QED BY <2>1 DEF Writes
  <1>2. CASE SendActLU
    <2>1. Sends("ACTLU", LuList[idx]) /\ toSrv' = Sent(toSrv, Piu("ACTLU", LuList[idx], Inc(snf)))
      BY <1>2 DEF SendActLU, Sends
    <2> QED BY <2>1 DEF Writes
  <1>3. CASE RecvAck
    BY <1>3 DEF RecvAck, Writes, Acked
  <1>4. CASE RecvActPU \/ ActPUTimeout \/ ActivationDone \/ AckTimeout
    BY <1>4 DEF RecvActPU, ActPUTimeout, ActivationDone, AckTimeout, Exit, linkVars, Writes
  <1>5. ASSUME NEW n, Recv, SendData(n) PROVE Writes
    <2>1. Sends("DATA", Head(toGw).lu) /\ toSrv' = Sent(Acked, Piu("DATA", Head(toGw).lu, n))
      BY <1>5 DEF SendData, Sends
    <2> QED BY <1>5, <2>1 DEF Writes
  <1>6. CASE MenuReady \/ MenuLine \/ EchoReply \/ UssScreen \/ ShowFile
    BY <1>5, <1>6 DEF MenuReady, MenuLine, EchoReply, UssScreen, ShowFile, Observe, Writes
  <1>7. CASE SendBind
    <2>1. /\ Recv /\ cur'.lu = Head(toGw).lu /\ pc' \in Serving
          /\ toSrv' = Sent(Acked, Piu("BIND", Head(toGw).lu, Inc(snf)))
      BY <1>7 DEF SendBind, Observe, Serving
    <2>2. Sends("BIND", Head(toGw).lu)
      BY <2>1 DEF Sends
    <2> QED BY <2>1, <2>2 DEF Writes
  <1>8. CASE Discard \/ TearDown \/ MenuIdle \/ UssBridge \/ DeliverInput \/ Ignore \/ ReadEnds
    BY <1>8 DEF Discard, TearDown, MenuIdle, UssBridge, DeliverInput, Ignore, ReadEnds, Exit,
                Observe, Writes
  <1>9. CASE RecvBindRsp
    <2>1. toSrv' = toSrv \/ toSrv' = Sent(toSrv, Piu("SDT", cur.lu, Inc(snf)))
      BY <1>9 DEF RecvBindRsp
    <2>2. Sends("SDT", cur.lu)
      BY <1>9 DEF Sends
    <2> QED BY <2>1, <2>2 DEF Writes
  <1>10. CASE SweepNext
    <2>1. \/ toSrv' = toSrv
          \/ /\ cur' = cur /\ pc' \in Serving
             /\ toSrv' = Sent(toSrv, Piu("BIND", cur.lu, Inc(snf)))
      BY <1>10 DEF SweepNext, Serving
    <2> QED BY <2>1 DEF Writes, Sends
  <1>11. CASE Deliver \/ BindTimeout \/ SdtDone \/ SweepAccepted
    BY <1>11 DEF Deliver, BindTimeout, SdtDone, SweepAccepted, linkVars, Writes
  <1>12. CASE BridgeNext
    <2>1. PICK i \in DOMAIN sessions :
             BridgeForward(i) \/ BridgeScreen(i) \/ BridgeClose(i) \/ BridgeEnd(i)
      BY <1>12 DEF BridgeNext
    <2>2. CASE BridgeScreen(i)
      <3>1. toSrv' = Sent(toSrv, Piu("DATA", sessions[i].lu, Inc(sessions[i].snf)))
        BY <2>2 DEF BridgeScreen, Sent
      <3>2. Sends("DATA", sessions[i].lu)
        BY DEF Sends
      <3> QED BY <3>1, <3>2 DEF Writes
    <2> QED BY <2>1, <2>2 DEF BridgeForward, BridgeClose, BridgeEnd, Writes
  <1> QED BY <1>1, <1>2, <1>3, <1>4, <1>6, <1>7, <1>8, <1>9, <1>10, <1>11, <1>12
          DEF ProbeNext, Activation, ObserveLoop, InnerWait

\* The gateway reads the first PIU, or none.
LEMMA GatewayReads == ProbeNext \/ BridgeNext => toGw' = toGw \/ Recv
  <1> SUFFICES ASSUME ProbeNext \/ BridgeNext PROVE toGw' = toGw \/ Recv
    OBVIOUS
  <1>1. CASE Activation
    BY <1>1 DEF Activation, SendActPU, RecvActPU, ActPUTimeout, Exit, SendActLU, ActivationDone,
                RecvAck, AckTimeout, RecvTimeout, linkVars
  <1>2. CASE ObserveLoop
    BY <1>2 DEF ObserveLoop, Discard, TearDown, MenuIdle, MenuReady, MenuLine, EchoReply, ShowFile,
         UssBridge, UssScreen, DeliverInput, SendBind, Ignore, ReadEnds, Exit, Observe
  <1>3. CASE InnerWait
    BY <1>3 DEF InnerWait, Deliver, RecvBindRsp, BindTimeout, SdtDone, SweepAccepted, SweepNext,
         RecvTimeout, linkVars
  <1>4. CASE BridgeNext
    <2>1. PICK i \in DOMAIN sessions :
             BridgeForward(i) \/ BridgeScreen(i) \/ BridgeClose(i) \/ BridgeEnd(i)
      BY <1>4 DEF BridgeNext
    <2> QED BY <2>1 DEF BridgeForward, BridgeScreen, BridgeClose, BridgeEnd, Bridge
  <1> QED BY <1>1, <1>2, <1>3, <1>4 DEF ProbeNext

\* A sequence gets longer by the types that are sent.
LEMMA SentRange ==
  ASSUME TypeInv, Writes
  PROVE  \A q \in Range(toSrv') : q \in Range(toSrv) \/ q.type = "RSP" \/ Sends(q.type, q.lu)
  <1>1. toSrv \in Seq(Outbound)
    BY NumberTypes
  <1>2. ASSUME NEW srv \in Seq(Outbound), NEW type, NEW x, NEW n, Sends(type, x),
               NEW q \in Range(Sent(srv, Piu(type, x, n)))
        PROVE  q \in Range(srv) \/ Sends(q.type, q.lu)
    <2>1. q \in Range(srv) \/ q = Piu(type, x, n)
      BY <1>2, RangeSent
    <2> QED BY <1>2, <2>1 DEF Piu
  <1>3. \A q \in Range(Acked) : q \in Range(toSrv) \/ q.type = "RSP"
    BY <1>1, RangeSent DEF Acked, PositiveRsp, Piu
  <1>4. Recv => Acked \in Seq(Outbound)
    BY AckedType DEF Recv
  <1> QED BY <1>1, <1>2, <1>3, <1>4 DEF Writes

IsAct(q) == q.type \in {"ACTPU", "ACTLU"}
IsActRsp(p) == ~IsRequest(p) /\ p.type \in {"ACTPU", "ACTLU"}

(***************************************************************************)
(* An activation request is alone on the link, and the response to it the  *)
(* first PIU that the gateway will read: it cannot be mistaken for the     *)
(* answer to a later BIND.                                                 *)
(***************************************************************************)
StartInv ==
    /\ pc \in Activating => sessions = <<>>
    /\ pc = "start" \/ (pc = "actlu" /\ idx = 1) => toSrv = <<>> /\ toGw = <<>>
    /\ pc = "actpu_wait" => Len(toSrv) + Len(toGw) <= 1
    /\ \A q \in Range(toSrv) : IsAct(q) =>
          /\ Len(toSrv) = 1 /\ toGw = <<>> /\ sessions = <<>>
          /\ AllInactive /\ pc \notin Serving
    /\ \A k \in DOMAIN toGw : IsActRsp(toGw[k]) => k = 1
    /\ pc \in Serving => \A p \in Range(toGw) : ~IsActRsp(p)

\* A response to ACTPU or ACTLU is behind the gateway once it reads on.
LEMMA ReadsActRsp ==
  ASSUME TypeInv, Recv, \A k \in DOMAIN toGw : IsActRsp(toGw[k]) => k = 1
  PROVE  \A p \in Range(toGw') : ~IsActRsp(p)
  <1> DEFINE t == Tail(toGw)
  <1>1. /\ DOMAIN toGw = 1 .. Len(toGw) /\ Len(toGw) \in Nat /\ DOMAIN t = 1 .. Len(toGw) - 1
        /\ \A i \in 1 .. Len(toGw) - 1 : t[i] = toGw[i + 1]
    BY HeadTailProperties, LenProperties, NumberTypes DEF Recv
  <1> HIDE DEF t
  <1>2. \A i \in DOMAIN t : i + 1 \in DOMAIN toGw /\ i + 1 # 1 /\ t[i] = toGw[i + 1]
    BY <1>1
  <1>3. \A p \in Range(t) : ~IsActRsp(p)
    BY <1>2 DEF Range
  <1> QED BY <1>3 DEF Recv, t

LEMMA GatewayStart ==
  ASSUME OneLu, TypeInv, FirstInv, StartInv, [Next]_vars, ProbeNext \/ BridgeNext
  PROVE  StartInv'
  <1>1. /\ toGw \in Seq(Inbound) /\ toSrv \in Seq(Outbound) /\ idx \in Nat \ {0}
        /\ Len(LuList) \in Nat /\ Len(LuList) <= 1
    BY NumberTypes DEF OneLu, TypeInv, ProbeTypeOK
  <1>2. (AllInactive' <=> AllInactive) /\ UNCHANGED serverVars
    BY GatewayFlows DEF Flows, AllInactive, serverVars
  <1>3. pc \in Activating => sessions' = sessions
    <2>1. pc \in Activating => ~BridgeNext
      <3> SUFFICES ASSUME sessions = <<>> PROVE ~BridgeNext
        BY DEF StartInv
      <3>1. DOMAIN sessions = {}
        BY EmptySeq
      <3> QED BY <3>1 DEF BridgeNext
    <2>2. CASE Activation
      BY <2>2 DEF Activation, SendActPU, RecvActPU, ActPUTimeout, Exit, SendActLU, ActivationDone,
                  RecvAck, AckTimeout
    <2>3. CASE ObserveLoop \/ InnerWait
      <3>1. pc \notin Activating
        BY <2>3 DEF ObserveLoop, Discard, TearDown, MenuIdle, MenuReady, MenuLine, EchoReply,
           ShowFile, UssBridge, UssScreen, DeliverInput, SendBind, Ignore, ReadEnds, Observe,
           InnerWait, Deliver, RecvBindRsp, BindTimeout, SdtDone, SweepAccepted, SweepNext, Activating
      <3> QED BY <3>1
    <2> QED BY <2>1, <2>2, <2>3 DEF ProbeNext
  <1>4. CASE SendActPU
    <2>1. /\ toSrv = <<>> /\ toGw = <<>> /\ toGw' = <<>> /\ pc' = "actpu_wait" /\ sessions' = <<>>
          /\ AllInactive
      BY <1>4 DEF SendActPU, StartInv, FirstInv, Activating
    <2>2. Len(toSrv') <= 1 /\ Len(toSrv') \in Nat /\ (toSrv' # <<>> => Len(toSrv') = 1)
      BY <1>4, <2>1 DEF SendActPU, Sent
    <2>3. Range(<<>>) = {} /\ DOMAIN <<>> = {} /\ Len(<<>>) = 0
      BY EmptySeq DEF Range
    <2> QED BY <1>2, <2>1, <2>2, <2>3 DEF StartInv, Serving
  <1>5. CASE RecvActPU
    <2>1. toSrv = <<>> /\ toSrv' = <<>> /\ toGw' = <<>> /\ pc' = "actlu" /\ sessions' = <<>>
      <3>1. toGw # <<>> /\ toGw' = Tail(toGw) /\ toSrv' = toSrv /\ pc = "actpu_wait" /\ pc' = "actlu"
        BY <1>5 DEF RecvActPU, Recv
      <3>2. Len(toGw) \in Nat /\ Len(toSrv) \in Nat /\ Len(toGw) >= 1 /\ Len(toSrv) + Len(toGw) <= 1
        BY <1>1, <3>1, LenProperties, EmptySeq DEF StartInv
      <3>3. Len(toSrv) = 0 /\ Len(toGw) = 1
        BY <3>2
      <3> QED BY <1>1, <1>3, <3>1, <3>3 DEF StartInv, Activating
    <2>2. Range(<<>>) = {} /\ DOMAIN <<>> = {}
      BY EmptySeq DEF Range
    <2> QED BY <2>1, <2>2 DEF StartInv, Serving
  <1>6. CASE SendActLU
    <2>1. idx = 1 /\ pc = "actlu" /\ pc' = "actlu_wait" /\ toGw' = toGw
      BY <1>1, <1>6 DEF SendActLU
    <2>2. toSrv = <<>> /\ toGw = <<>> /\ toGw' = <<>> /\ sessions' = <<>> /\ AllInactive
      BY <1>3, <2>1 DEF StartInv, FirstInv, Activating
    <2>3. toSrv' # <<>> => Len(toSrv') = 1
      BY <1>6, <2>2 DEF SendActLU, Sent
    <2>4. Range(<<>>) = {} /\ DOMAIN <<>> = {}
      BY EmptySeq DEF Range
    <2> QED BY <1>2, <2>1, <2>2, <2>3, <2>4 DEF StartInv, Serving
  <1>7. CASE ~SendActPU /\ ~RecvActPU /\ ~SendActLU
    <2>2. \/ BridgeNext /\ pc' = pc /\ toGw' = toGw /\ pc \notin Activating
          \/ pc' \notin Activating
          \/ pc = "actlu_wait" /\ pc' = "actlu" /\ idx' = idx + 1
      <3>1. CASE BridgeNext
        <4>1. PICK i \in DOMAIN sessions :
                 BridgeForward(i) \/ BridgeScreen(i) \/ BridgeClose(i) \/ BridgeEnd(i)
          BY <3>1 DEF BridgeNext
        <4>2. pc' = pc /\ toGw' = toGw
          BY <4>1 DEF BridgeForward, BridgeScreen, BridgeClose, BridgeEnd, Bridge, loopVars
        <4>3. sessions # <<>>
          BY EmptySeq
        <4> QED BY <3>1, <4>2, <4>3 DEF StartInv
      <3>2. CASE Activation
        BY <1>7, <3>2 DEF Activation, ActPUTimeout, Exit, ActivationDone, RecvAck, AckTimeout,
           Activating
      <3>3. CASE ObserveLoop
        BY <3>3 DEF ObserveLoop, Discard, TearDown, MenuIdle, MenuReady, MenuLine, EchoReply,
           ShowFile, UssBridge, UssScreen, DeliverInput, SendBind, Ignore, ReadEnds, Exit, Observe,
           probeVars, loopVars, Activating
      <3>4. CASE InnerWait
        BY <3>4 DEF InnerWait, Deliver, RecvBindRsp, BindTimeout, SdtDone, SweepAccepted, SweepNext,
           Activating
      <3> QED BY <3>1, <3>2, <3>3, <3>4 DEF ProbeNext
    <2>3. pc' \in Activating => pc \in Activating /\ sessions' = <<>>
      BY <1>3, <2>2 DEF StartInv, Activating
    <2>4. pc' \in Serving => pc \in Serving \/ Recv
      <3>1. CASE ObserveLoop
        BY <3>1 DEF ObserveLoop, Discard, TearDown, MenuIdle, MenuReady, MenuLine, EchoReply,
           ShowFile, UssBridge, UssScreen, DeliverInput, SendBind, Ignore, ReadEnds, Exit, Observe,
           Serving
      <3>2. CASE Activation
        BY <1>7, <3>2 DEF Activation, ActPUTimeout, Exit, ActivationDone, RecvAck, AckTimeout, Serving
      <3>3. CASE InnerWait
        BY <3>3 DEF InnerWait, Deliver, RecvBindRsp, BindTimeout, SdtDone, SweepAccepted, SweepNext,
           Serving
      <3>4. CASE BridgeNext
        <4>1. PICK i \in DOMAIN sessions :
                 BridgeForward(i) \/ BridgeScreen(i) \/ BridgeClose(i) \/ BridgeEnd(i)
          BY <3>4 DEF BridgeNext
        <4> QED BY <4>1 DEF BridgeForward, BridgeScreen, BridgeClose, BridgeEnd, Bridge, loopVars
      <3> QED BY <3>1, <3>2, <3>3, <3>4 DEF ProbeNext
    <2>6. ~(pc' = "start" \/ (pc' = "actlu" /\ idx' = 1)) /\ pc' # "actpu_wait"
      BY <1>1, <2>2 DEF Activating
    <2>7. ASSUME NEW q \in Range(toSrv'), IsAct(q)
          PROVE  /\ Len(toSrv') = 1 /\ toGw' = <<>> /\ sessions' = <<>>
                 /\ AllInactive' /\ pc' \notin Serving
      <3>1. q \in Range(toSrv)
        BY <1>7, <2>7, GatewayWrites, SentRange DEF IsAct, Sends
      <3>2. Len(toSrv) = 1 /\ toGw = <<>> /\ sessions = <<>> /\ AllInactive /\ pc \notin Serving
        BY <2>7, <3>1 DEF StartInv
      <3>3. ~Recv /\ ~BridgeNext
        <4>1. DOMAIN sessions = {}
          BY <3>2, EmptySeq
        <4> QED BY <3>2, <4>1 DEF Recv, BridgeNext
      <3>4. ActPUTimeout \/ ActivationDone \/ AckTimeout \/ ReadEnds
        BY <1>7, <3>2, <3>3 DEF ProbeNext, Activation, RecvAck,
         ObserveLoop, Discard, TearDown, MenuIdle, MenuReady, MenuLine, EchoReply,
         ShowFile, UssBridge, UssScreen, DeliverInput, SendBind, Ignore, Observe,
         InnerWait, Deliver, RecvBindRsp, BindTimeout, SdtDone, SweepAccepted, SweepNext, Serving
      <3>5. UNCHANGED <<toSrv, toGw, sessions>> /\ pc' \notin Serving
        BY <3>4 DEF ActPUTimeout, ActivationDone, AckTimeout, ReadEnds, Exit, RecvTimeout, linkVars,
           Serving
      <3> QED BY <1>2, <3>2, <3>5
    <2>8. ASSUME Recv PROVE \A p \in Range(toGw') : ~IsActRsp(p)
      BY <2>8, ReadsActRsp DEF StartInv
    <2>9. \A k \in DOMAIN toGw' : IsActRsp(toGw'[k]) => k = 1
      <3>1. CASE toGw' = toGw
        BY <3>1 DEF StartInv
      <3>2. CASE Recv
        BY <2>8, <3>2 DEF Range
      <3> QED BY <3>1, <3>2, GatewayReads
    <2>10. pc' \in Serving => \A p \in Range(toGw') : ~IsActRsp(p)
      <3>1. CASE toGw' = toGw /\ ~Recv
        BY <2>4, <3>1 DEF StartInv
      <3> QED BY <2>8, <3>1, GatewayReads
    <2> QED BY <2>3, <2>6, <2>7, <2>9, <2>10 DEF StartInv
  <1> QED BY <1>4, <1>5, <1>6, <1>7

LEMMA AppendShape ==
  ASSUME NEW S, NEW q \in Seq(S), NEW x
  PROVE  /\ DOMAIN q = 1 .. Len(q) /\ DOMAIN Append(q, x) = 1 .. Len(q) + 1
         /\ Len(Append(q, x)) = Len(q) + 1 /\ Append(q, x)[Len(q) + 1] = x
         /\ \A k \in DOMAIN q : Append(q, x)[k] = q[k]
  OBVIOUS

\* While no LU is active, SNA Server originates nothing.
LEMMA InactiveServer ==
  ASSUME DormantInv, AllInactive
  PROVE  ~ServerOriginates
  <1>1. \A lu \in LU : luState[lu] = "inactive" /\ lulu[lu] = "none"
    BY DEF AllInactive, DormantInv, Dormant
  <1> QED BY <1>1 DEF ServerOriginates, NotifyIdle, NotifyReady, TypeLine, SendUnbind

\* SNA Server reads one PIU and answers it, if at all, in kind.
LEMMA ServerAnswersInKind ==
  ASSUME ServerReceives
  PROVE  \/ toGw' = toGw
         \/ \E r : /\ toGw' = Append(toGw, r)
                   /\ r = Rsp(r.type, r.lu, r.pos)
                   /\ r.type = IF Head(toSrv).type = "DATA" THEN "FMD" ELSE Head(toSrv).type
                   /\ r.type # "ACTPU" => r.lu = Head(toSrv).lu
  <1>1. \A type, x, pos : LET r == Rsp(type, x, pos) IN r.type = type /\ r.lu = x /\ r.pos = pos
    BY DEF Rsp
  <1>2. CASE ReceiveActPU
    <2>1. PICK pos \in BOOLEAN : toGw' = Append(toGw, Rsp("ACTPU", PU, pos))
      BY <1>2 DEF ReceiveActPU
    <2> QED BY <1>1, <1>2, <2>1 DEF ReceiveActPU, Receive
  <1>3. CASE ReceiveActLU
    <2>1. PICK pos \in BOOLEAN : toGw' = Append(toGw, Rsp("ACTLU", Head(toSrv).lu, pos))
      BY <1>3 DEF ReceiveActLU
    <2> QED BY <1>1, <1>3, <2>1 DEF ReceiveActLU, Receive
  <1>4. CASE ReceiveBind
    <2>1. PICK pos \in BOOLEAN : toGw' = Append(toGw, Rsp("BIND", Head(toSrv).lu, pos))
      BY <1>4 DEF ReceiveBind
    <2> QED BY <1>1, <1>4, <2>1 DEF ReceiveBind, Receive
  <1>5. CASE ReceiveSdt
    <2>1. PICK pos : toGw' = Append(toGw, Rsp("SDT", Head(toSrv).lu, pos))
      BY <1>5 DEF ReceiveSdt
    <2> QED BY <1>1, <1>5, <2>1 DEF ReceiveSdt, Receive
  <1>6. CASE ReceiveData
    <2>1. PICK pos : toGw' = Append(toGw, Rsp("FMD", Head(toSrv).lu, pos))
      BY <1>6 DEF ReceiveData
    <2>2. Head(toSrv).type = "DATA"
      BY <1>6 DEF ReceiveData, Receive
    <2> DEFINE r == Rsp("FMD", Head(toSrv).lu, pos)
    <2>3. r = Rsp(r.type, r.lu, r.pos) /\ r.type = "FMD" /\ r.lu = Head(toSrv).lu
      BY <1>1
    <2> HIDE DEF r
    <2> QED BY <2>1, <2>2, <2>3 DEF r
  <1>7. CASE ReceiveRsp
    BY <1>7 DEF ReceiveRsp
  <1> QED BY <1>2, <1>3, <1>4, <1>5, <1>6, <1>7 DEF ServerReceives

LEMMA ServerStart ==
  ASSUME TypeInv, DormantInv, FirstInv, StartInv, ServerNext, UNCHANGED probeVars
  PROVE  StartInv'
  <1>1. toGw \in Seq(Inbound) /\ toSrv \in Seq(Outbound) /\ UNCHANGED <<pc, idx, sessions>>
    BY NumberTypes DEF probeVars, loopVars
  <1>2. CASE ServerOriginates
    <2>1. ~AllInactive /\ toSrv' = toSrv
      BY <1>2, InactiveServer DEF ServerOriginates, NotifyIdle, NotifyReady, TypeLine, SendUnbind,
         Originate
    <2>2. PICK p : toGw' = Append(toGw, p) /\ IsRequest(p)
      BY <1>2 DEF ServerOriginates, NotifyIdle, NotifyReady, TypeLine, SendUnbind, Originate,
         IsRequest
    <2>3. /\ ~(pc = "start" \/ (pc = "actlu" /\ idx = 1)) /\ pc # "actpu_wait"
          /\ \A q \in Range(toSrv) : ~IsAct(q)
      BY <2>1 DEF StartInv, FirstInv
    <2>4. /\ Range(toGw') = Range(toGw) \cup {p} /\ DOMAIN toGw' = 1 .. Len(toGw) + 1
          /\ toGw'[Len(toGw) + 1] = p /\ DOMAIN toGw = 1 .. Len(toGw)
          /\ \A k \in DOMAIN toGw : toGw'[k] = toGw[k]
      BY <1>1, <2>2, RangeAppend
    <2>5. \A k \in DOMAIN toGw' : IsActRsp(toGw'[k]) => k \in DOMAIN toGw /\ IsActRsp(toGw[k])
      BY <1>1, <2>2, <2>4 DEF IsActRsp
    <2>6. \A q \in Range(toGw') : IsActRsp(q) => q \in Range(toGw)
      BY <2>2, <2>4 DEF IsActRsp
    <2> QED BY <1>1, <2>1, <2>3, <2>5, <2>6 DEF StartInv
  <1>3. CASE ServerReceives
    <2>1. toSrv # <<>> /\ toSrv' = Tail(toSrv)
      BY <1>3, ServerAnswers
    <2>2. /\ Len(toSrv') = Len(toSrv) - 1 /\ Range(toSrv') \subseteq Range(toSrv)
          /\ Head(toSrv) \in Range(toSrv) /\ Len(toSrv) \in Nat /\ Len(toGw) \in Nat
      BY <1>1, <2>1, RangeTail, LenProperties, HeadTailProperties
    <2>3. ~(pc = "start" \/ (pc = "actlu" /\ idx = 1))
      BY <2>1 DEF StartInv
    <2>4. \A q \in Range(toSrv') : ~IsAct(q)
      <3> SUFFICES ASSUME NEW q \in Range(toSrv'), IsAct(q) PROVE FALSE
        OBVIOUS
      <3>1. Len(toSrv) = 1
        BY <2>2 DEF StartInv
      <3>2. toSrv' = <<>>
        BY <1>1, <2>1, <2>2, <3>1
      <3> QED BY <3>2, EmptySeq DEF Range
    <2>5. CASE toGw' = toGw
      BY <1>1, <2>2, <2>3, <2>4, <2>5 DEF StartInv
    <2>6. CASE toGw' # toGw
      <3>1. PICK r : toGw' = Append(toGw, r) /\ (IsActRsp(r) => IsAct(Head(toSrv)))
        BY <1>3, <2>6, ServerAnswersInKind DEF IsActRsp, IsAct
      <3>2. /\ Range(toGw') = Range(toGw) \cup {r} /\ DOMAIN toGw' = 1 .. Len(toGw) + 1
            /\ toGw'[Len(toGw) + 1] = r /\ DOMAIN toGw = 1 .. Len(toGw)
            /\ \A k \in DOMAIN toGw : toGw'[k] = toGw[k]
            /\ Len(toGw') = Len(toGw) + 1
        BY <1>1, <3>1, RangeAppend, AppendShape
      <3>3. IsActRsp(r) => toGw = <<>> /\ pc \notin Serving
        BY <1>1, <2>2, <3>1, EmptySeq DEF StartInv
      <3>4. \A k \in DOMAIN toGw' : IsActRsp(toGw'[k]) => k = 1
        <4>1. CASE IsActRsp(r)
          <5>1. DOMAIN toGw' = 1 .. 1
            BY <3>2, <3>3, <4>1, EmptySeq
          <5> QED BY <5>1
        <4>2. CASE ~IsActRsp(r)
          <5>1. \A k \in DOMAIN toGw' : IsActRsp(toGw'[k]) => k \in DOMAIN toGw /\ IsActRsp(toGw[k])
            BY <2>2, <3>2, <4>2
          <5> QED BY <5>1 DEF StartInv
        <4> QED BY <4>1, <4>2
      <3>5. pc \in Serving => \A p \in Range(toGw') : ~IsActRsp(p)
        BY <3>2, <3>3 DEF StartInv
      <3>6. pc = "actpu_wait" => Len(toSrv') + Len(toGw') <= 1
        BY <2>2, <3>2 DEF StartInv
      <3> QED BY <1>1, <2>3, <2>4, <3>4, <3>5, <3>6 DEF StartInv
    <2> QED BY <2>5, <2>6
  <1>4. CASE LinkLost
    BY <1>1, <1>4 DEF LinkLost, serverVars, StartInv, AllInactive
  <1> QED BY <1>2, <1>3, <1>4 DEF ServerNext

LEMMA StepStart ==
  ASSUME OneLu, TypeInv, DormantInv, FirstInv, StartInv, [Next]_vars
  PROVE  StartInv'
  <1>1. CASE UNCHANGED vars
    BY <1>1 DEF vars, serverVars, linkVars, probeVars, loopVars, StartInv, AllInactive
  <1> QED BY <1>1, GatewayStart, ServerStart DEF Next, Finished

LEMMA InitStart == Init => StartInv
  <1> SUFFICES ASSUME Init PROVE StartInv
    OBVIOUS
  <1>1. toGw = <<>> /\ toSrv = <<>> /\ sessions = <<>> /\ pc = "start"
    BY DEF Init, ServerInit
  <1>2. Range(<<>>) = {} /\ DOMAIN <<>> = {}
    BY EmptySeq DEF Range
  <1> QED BY <1>1, <1>2 DEF StartInv, Serving

SdtPius == {q \in Outbound : q.type = "SDT"}

\* The gateway may still be the first to send SDT.
NoSdtYet == ~bound \/ pc \in {"bind_wait", "sweep_wait"}

(***************************************************************************)
(* SDT is sent once, after which bound stays set.  Until then the only     *)
(* responses on the link are to an activation and to BIND, so a positive   *)
(* one that is read while the gateway waits is the LU's own acceptance.    *)
(***************************************************************************)
BindInv ==
    /\ bound => BindMode
    /\ pc \in BindWaits => bound
    /\ Count(toSrv, SdtPius) <= 1
    /\ \A q \in Range(toSrv) : q.type = "SDT" =>
          Listed(q.lu) /\ lulu[q.lu] = "bound" /\ ~NoSdtYet
    /\ BindMode /\ NoSdtYet =>
          /\ sessions = <<>>
          /\ \A q \in Range(toSrv) : q.type # "DATA" /\ (q.type = "BIND" => Listed(q.lu))
          /\ \A p \in Range(toGw) : ~IsRequest(p) =>
                /\ p.type \in {"ACTPU", "ACTLU", "BIND"}
                /\ p.type = "BIND" => Listed(p.lu)
                /\ p.type = "BIND" /\ p.pos => lulu[p.lu] = "bound"

LEMMA SentCount ==
  ASSUME NEW srv \in Seq(Outbound), NEW piu
  PROVE  Count(Sent(srv, piu), SdtPius) <= Count(srv, SdtPius) + (IF piu.type = "SDT" THEN 1 ELSE 0)
  <1>1. Count(srv, SdtPius) \in Nat
    BY CountType
  <1>2. piu \in SdtPius => piu.type = "SDT"
    BY DEF SdtPius
  <1>3. Count(Append(srv, piu), SdtPius) = Count(srv, SdtPius) + (IF piu \in SdtPius THEN 1 ELSE 0)
    BY CountAppend
  <1> QED BY <1>1, <1>2, <1>3 DEF Sent

\* Where bound changes, and where the waits for BIND are entered.
LEMMA BoundSteps ==
  ASSUME ProbeNext \/ BridgeNext
  PROVE  \/ SendBind
         \/ RecvBindRsp
         \/ bound' = FALSE /\ pc = "bind_wait" /\ pc' = "observe"
         \/ bound' = bound /\ (pc' \in BindWaits => pc' = pc)
  <1>1. CASE Activation
    BY <1>1 DEF Activation, SendActPU, RecvActPU, ActPUTimeout, Exit, SendActLU, ActivationDone,
                RecvAck, AckTimeout, BindWaits
  <1>2. CASE ObserveLoop
    BY <1>2 DEF ObserveLoop, Discard, TearDown, MenuIdle, MenuReady, MenuLine, EchoReply, ShowFile,
         UssBridge, UssScreen, DeliverInput, Ignore, ReadEnds, Exit, probeVars, loopVars, BindWaits
  <1>3. CASE InnerWait
    BY <1>3 DEF InnerWait, Deliver, BindTimeout, SdtDone, SweepAccepted, SweepNext, BindWaits
  <1>4. CASE BridgeNext
    <2>1. PICK i \in DOMAIN sessions :
             BridgeForward(i) \/ BridgeScreen(i) \/ BridgeClose(i) \/ BridgeEnd(i)
      BY <1>4 DEF BridgeNext
    <2> QED BY <2>1 DEF BridgeForward, BridgeScreen, BridgeClose, BridgeEnd, Bridge, loopVars
  <1> QED BY <1>1, <1>2, <1>3, <1>4 DEF ProbeNext

\* No bridge is started before SDT.
LEMMA NoSdtNoBridge ==
  ASSUME TypeInv, BindMode, NoSdtYet, sessions = <<>>, pc \in BindWaits => bound,
         ProbeNext \/ BridgeNext
  PROVE  sessions' = <<>> /\ ~BridgeNext
  <1>1. session = 0 /\ DOMAIN sessions = {}
    BY EmptySeq DEF TypeInv, ProbeTypeOK
  <1>2. ~BridgeNext
    BY <1>1 DEF BridgeNext
  <1>3. CASE Activation
    BY <1>2, <1>3 DEF Activation, SendActPU, RecvActPU, ActPUTimeout, Exit, SendActLU, ActivationDone,
                RecvAck, AckTimeout
  <1>4. CASE ObserveLoop
    BY <1>1, <1>2, <1>4 DEF ObserveLoop, Discard, TearDown, MenuIdle, MenuReady, MenuLine, EchoReply,
       ShowFile, UssBridge, UssAttach, UssScreen, DeliverInput, SendBind, BindMode, Ignore, ReadEnds,
       Exit, probeVars
  <1>5. CASE Deliver
    <2>1. sessions' = [sessions EXCEPT ![session].inbound = Append(@, cur)] \/ UNCHANGED sessions
      BY <1>5 DEF Deliver
    <2> QED BY <1>2, <2>1
  <1>6. ~SdtDone
    BY DEF SdtDone, NoSdtYet, BindWaits
  <1>7. CASE RecvBindRsp \/ BindTimeout \/ SweepAccepted \/ SweepNext
    BY <1>2, <1>7 DEF RecvBindRsp, BindTimeout, SweepAccepted, SweepNext
  <1> QED BY <1>2, <1>3, <1>4, <1>5, <1>6, <1>7 DEF ProbeNext, InnerWait

LEMMA ListedLu == \A lu : Listed(lu) => lu \in LU
  BY LuListAssumption, ElementOfSeq, LenProperties DEF Listed

\* One terminal is served, and it is at the one LU of the list.
LEMMA ServedLu ==
  ASSUME SessionInv, pc \in Serving
  PROVE  Listed(cur.lu)
  <1>1. cur.lu \in LU /\ luState[cur.lu] # "inactive"
    BY DEF SessionInv, OwnInv, Present
  <1> QED BY <1>1 DEF SessionInv, ListedInv

\* The gateway sends SDT only when it has read that LU's acceptance of BIND.
LEMMA SendsSdt ==
  ASSUME OneLu, SessionInv, StartInv, BindInv, RecvBindRsp, Positive(Head(toGw))
  PROVE  /\ \A q \in Range(toSrv') : q.type = "SDT" => Listed(q.lu) /\ lulu[q.lu] = "bound"
         /\ Count(toSrv', SdtPius) <= 1
         /\ bound /\ bound' = bound /\ pc' = "sdt_wait"
  <1>1. /\ toGw \in Seq(Inbound) /\ toSrv \in Seq(Outbound) /\ pc = "bind_wait" /\ toGw # <<>>
        /\ bound' = bound /\ pc' = "sdt_wait" /\ toSrv' = Sent(toSrv, Piu("SDT", cur.lu, Inc(snf)))
    BY NumberTypes DEF SessionInv, RecvBindRsp, Recv
  <1>2. bound /\ BindMode /\ NoSdtYet /\ pc \in Serving
    BY <1>1 DEF BindInv, BindWaits, NoSdtYet, Serving
  <1>3. \A q \in Range(toSrv) : q.type # "SDT"
    BY <1>2 DEF BindInv
  <1> DEFINE h == Head(toGw)
             lu == cur.lu
  <1>4. h \in Range(toGw)
    BY <1>1, RangeTail
  <1>5. ~IsRequest(h) /\ h.pos
    BY <1>1, HeadType DEF Positive, IsRequest
  <1>6. h.type = "BIND" /\ Listed(h.lu) /\ lulu[h.lu] = "bound"
    BY <1>2, <1>4, <1>5 DEF BindInv, StartInv, IsActRsp
  <1>7. Listed(lu)
    BY <1>2, ServedLu
  <1>8. lulu[lu] = "bound"
    <2>1. \A i, k \in DOMAIN LuList : i = k
      BY LuListAssumption, LenProperties DEF OneLu
    <2> QED BY <1>6, <1>7, <2>1 DEF Listed
  <1>9. Count(toSrv, SdtPius) = 0
    BY <1>3, CountsNone DEF SdtPius
  <1>10. Count(toSrv', SdtPius) <= 1
    <2>1. Count(toSrv', SdtPius) <= Count(toSrv, SdtPius) + 1
      BY <1>1, SentCount DEF Piu
    <2> QED BY <1>9, <2>1
  <1>11. \A q \in Range(toSrv') : q.type = "SDT" => q.lu = lu
    BY <1>1, <1>3, RangeSent DEF Piu
  <1> QED BY <1>1, <1>2, <1>7, <1>8, <1>10, <1>11

\* In every other step it sends none.
LEMMA SendsNoSdt ==
  ASSUME TypeInv, TypeInv', ProbeNext \/ BridgeNext, ~(RecvBindRsp /\ Positive(Head(toGw)))
  PROVE  /\ \A q \in Range(toSrv') : q.type = "SDT" => q \in Range(toSrv)
         /\ Count(toSrv', SdtPius) <= Count(toSrv, SdtPius)
  <1>1. toSrv \in Seq(Outbound) /\ Count(toSrv, SdtPius) \in Nat
    BY NumberTypes, CountType
  <1>2. CASE RecvBindRsp
    BY <1>1, <1>2 DEF RecvBindRsp
  <1>3. ASSUME ~RecvBindRsp, NEW srv \in Seq(Outbound), NEW type, NEW x, NEW n, Sends(type, x)
        PROVE  /\ \A q \in Range(Sent(srv, Piu(type, x, n))) : q.type = "SDT" => q \in Range(srv)
               /\ Count(Sent(srv, Piu(type, x, n)), SdtPius) <= Count(srv, SdtPius)
    <2>1. Piu(type, x, n).type # "SDT"
      BY <1>3 DEF Sends, Piu
    <2>2. Count(Sent(srv, Piu(type, x, n)), SdtPius) <= Count(srv, SdtPius) + 0
      BY <2>1, SentCount
    <2>3. Count(srv, SdtPius) \in Nat
      BY CountType
    <2> QED BY <2>1, <2>2, <2>3, RangeSent
  <1>4. ASSUME Recv
        PROVE  /\ Acked \in Seq(Outbound)
               /\ \A q \in Range(Acked) : q.type = "SDT" => q \in Range(toSrv)
               /\ Count(Acked, SdtPius) <= Count(toSrv, SdtPius)
    <2>1. Acked \in Seq(Outbound) /\ PositiveRsp(Head(toGw)).type = "RSP"
      BY <1>4, AckedType DEF Recv
    <2>2. Count(Acked, SdtPius) <= Count(toSrv, SdtPius) + 0
      BY <1>1, <2>1, SentCount DEF Acked
    <2> QED BY <1>1, <2>1, <2>2, RangeSent DEF Acked
  <1>5. CASE ~RecvBindRsp
    <2>1. Writes
      BY GatewayWrites
    <2>2. CASE toSrv' = toSrv
      BY <1>1, <2>2
    <2>3. CASE Recv /\ toSrv' = Acked
      BY <1>4, <2>3
    <2>4. ASSUME NEW type, NEW x, NEW n, Sends(type, x),
                 \/ toSrv' = Sent(toSrv, Piu(type, x, n))
                 \/ Recv /\ toSrv' = Sent(Acked, Piu(type, x, n))
          PROVE  /\ \A q \in Range(toSrv') : q.type = "SDT" => q \in Range(toSrv)
                 /\ Count(toSrv', SdtPius) <= Count(toSrv, SdtPius)
      <3>1. CASE toSrv' = Sent(toSrv, Piu(type, x, n))
        BY <1>1, <1>3, <1>5, <2>4, <3>1
      <3>2. CASE Recv /\ toSrv' = Sent(Acked, Piu(type, x, n))
        <4>1. /\ \A q \in Range(toSrv') : q.type = "SDT" => q \in Range(Acked)
              /\ Count(toSrv', SdtPius) <= Count(Acked, SdtPius)
          BY <1>3, <1>4, <1>5, <2>4, <3>2
        <4>2. Count(Acked, SdtPius) \in Nat /\ Count(toSrv', SdtPius) \in Nat
          <5>1. toSrv' \in Seq(Outbound)
            BY DEF TypeInv, ServerTypeOK
          <5> QED BY <1>4, <3>2, <5>1, CountType
        <4> QED BY <1>1, <1>4, <3>2, <4>1, <4>2
      <3> QED BY <2>4, <3>1, <3>2
    <2> QED BY <2>1, <2>2, <2>3, <2>4 DEF Writes
  <1> QED BY <1>2, <1>5

LEMMA GatewayBind ==
  ASSUME OneLu, SessionInv, SessionInv', StartInv, BindInv, [Next]_vars, ProbeNext \/ BridgeNext
  PROVE  BindInv'
  <1>1. TypeInv /\ toGw \in Seq(Inbound) /\ toSrv \in Seq(Outbound)
    BY NumberTypes DEF SessionInv
  <1>2. lulu' = lulu /\ Range(toGw') \subseteq Range(toGw)
    BY <1>1, GatewayFlows DEF Flows, serverVars
  <1>3. BindMode' <=> BindMode
    BY DEF Next, vars, BindMode, Set, HostMode, Finished
  <1>4. NoSdtYet' => NoSdtYet
    <2>1. CASE SendBind
      BY <2>1 DEF SendBind, NoSdtYet
    <2>2. CASE RecvBindRsp
      BY <2>2 DEF RecvBindRsp, NoSdtYet
    <2> QED BY <2>1, <2>2, BoundSteps DEF NoSdtYet, BindWaits
  <1>5. (bound' => BindMode) /\ (pc' \in BindWaits => bound')
    <2>1. CASE SendBind
      BY <2>1 DEF SendBind
    <2>2. CASE RecvBindRsp
      BY <2>2 DEF RecvBindRsp, BindInv, BindWaits
    <2>3. CASE bound' = FALSE /\ pc' = "observe"
      BY <2>3 DEF BindWaits
    <2>4. CASE bound' = bound /\ (pc' \in BindWaits => pc' = pc)
      BY <2>4 DEF BindInv
    <2> QED BY <2>1, <2>2, <2>3, <2>4, BoundSteps
  <1>6. ASSUME BindMode, NoSdtYet'
        PROVE  /\ sessions' = <<>>
               /\ \A q \in Range(toSrv') : q.type # "DATA" /\ (q.type = "BIND" => Listed(q.lu))
    <2>1. /\ NoSdtYet /\ sessions = <<>>
          /\ \A q \in Range(toSrv) : q.type # "DATA" /\ (q.type = "BIND" => Listed(q.lu))
      BY <1>4, <1>6 DEF BindInv
    <2>2. sessions' = <<>> /\ ProbeNext
      BY <1>1, <1>6, <2>1, NoSdtNoBridge DEF BindInv
    <2>3. \A q \in Range(toSrv') : q.type # "DATA"
      BY <1>1, <1>6, <2>1, <2>2, BindSendsNoData
    <2>4. ASSUME NEW q \in Range(toSrv'), q.type = "BIND" PROVE Listed(q.lu)
      <3>1. CASE q \in Range(toSrv)
        BY <2>1, <2>4, <3>1
      <3>2. CASE q.lu = cur'.lu /\ pc' \in Serving
        <4>1. Listed(cur'.lu)
          <5>1. cur'.lu \in LU /\ luState'[cur'.lu] # "inactive"
            BY <3>2 DEF SessionInv, OwnInv, Present
          <5> QED BY <5>1 DEF SessionInv, ListedInv, Listed
        <4> QED BY <3>2, <4>1
      <3> QED BY <1>1, <2>4, <3>1, <3>2, GatewayWrites, SentRange DEF Sends
    <2> QED BY <2>2, <2>3, <2>4
  <1>7. ASSUME BindMode, NoSdtYet', NEW p \in Range(toGw'), ~IsRequest(p)
        PROVE  /\ p.type \in {"ACTPU", "ACTLU", "BIND"}
               /\ p.type = "BIND" => Listed(p.lu)
               /\ p.type = "BIND" /\ p.pos => lulu'[p.lu] = "bound"
    BY <1>2, <1>4, <1>7 DEF BindInv
  <1>8. /\ Count(toSrv', SdtPius) <= 1
        /\ \A q \in Range(toSrv') : q.type = "SDT" =>
              Listed(q.lu) /\ lulu'[q.lu] = "bound" /\ ~NoSdtYet'
    <2>1. CASE RecvBindRsp /\ Positive(Head(toGw))
      <3>1. ~NoSdtYet'
        BY <2>1, SendsSdt DEF NoSdtYet
      <3> QED BY <1>2, <2>1, <3>1, SendsSdt
    <2>2. CASE ~(RecvBindRsp /\ Positive(Head(toGw)))
      <3>1. /\ \A q \in Range(toSrv') : q.type = "SDT" => q \in Range(toSrv)
            /\ Count(toSrv', SdtPius) <= Count(toSrv, SdtPius)
        BY <1>1, <2>2, SendsNoSdt DEF SessionInv
      <3>2. Count(toSrv, SdtPius) \in Nat /\ Count(toSrv', SdtPius) \in Nat
        <4>1. toSrv' \in Seq(Outbound)
          BY DEF SessionInv, TypeInv, ServerTypeOK
        <4> QED BY <1>1, <4>1, CountType
      <3> QED BY <1>2, <1>4, <3>1, <3>2 DEF BindInv
    <2> QED BY <2>1, <2>2
  <1> QED BY <1>3, <1>5, <1>6, <1>7, <1>8 DEF BindInv, Listed

\* SNA Server accepts one BIND and is sent one SDT.
LEMMA ServerBinds ==
  ASSUME TypeInv, BindInv, ServerNext
  PROVE  \A lu : Listed(lu) /\ lulu[lu] = "bound"
                    => lulu'[lu] = "bound" \/ (ServerReceives /\ Head(toSrv).type = "SDT")
  <1> SUFFICES ASSUME NEW lu, Listed(lu), lulu[lu] = "bound",
                      ~(ServerReceives /\ Head(toSrv).type = "SDT")
               PROVE  lulu'[lu] = "bound"
    OBVIOUS
  <1>1. lu \in LU /\ lulu \in [LU -> {"none", "bound", "active"}]
    BY ListedLu DEF TypeInv, ServerTypeOK
  <1>2. CASE ServerOriginates
    BY <1>1, <1>2, SMTT(60) DEF ServerOriginates, NotifyIdle, NotifyReady, TypeLine, SendUnbind
  <1>3. CASE ServerReceives
    BY <1>1, <1>3 DEF ServerReceives, ReceiveActPU, ReceiveActLU, ReceiveRsp, ReceiveData,
                  ReceiveBind, ReceiveSdt, Receive
  <1>4. CASE LinkLost
    BY <1>4 DEF LinkLost, serverVars
  <1> QED BY <1>2, <1>3, <1>4 DEF ServerNext

LEMMA ServerBind ==
  ASSUME TypeInv, BindInv, ServerNext, UNCHANGED <<probeVars, flags>>
  PROVE  BindInv'
  <1>1. toGw \in Seq(Inbound) /\ toSrv \in Seq(Outbound) /\ UNCHANGED <<pc, bound, sessions, flags>>
    BY NumberTypes DEF probeVars, loopVars
  <1>2. (BindMode' <=> BindMode) /\ (NoSdtYet' <=> NoSdtYet)
    BY <1>1 DEF BindMode, Set, HostMode, NoSdtYet
  <1>3. CASE ServerOriginates
    <2>1. PICK p : toGw' = Append(toGw, p) /\ IsRequest(p)
      BY <1>3 DEF ServerOriginates, NotifyIdle, NotifyReady, TypeLine, SendUnbind, Originate,
         IsRequest
    <2>2. toSrv' = toSrv /\ Range(toGw') = Range(toGw) \cup {p}
      BY <1>1, <1>3, <2>1, RangeAppend DEF ServerOriginates, NotifyIdle, NotifyReady, TypeLine,
         SendUnbind, Originate
    <2>3. \A lu : Listed(lu) /\ lulu[lu] = "bound" => lulu'[lu] = "bound"
      <3>1. ~ServerReceives
        BY <1>1, <2>1, <2>2, ServerAnswers, HeadTailProperties, LenProperties
      <3> QED BY <3>1, ServerBinds
    <2> QED BY <1>1, <1>2, <2>1, <2>2, <2>3 DEF BindInv, Listed
  <1>4. CASE ServerReceives
    <2> DEFINE h == Head(toSrv)
    <2>1. /\ toSrv # <<>> /\ toSrv' = Tail(toSrv) /\ toSrv' \in Seq(Outbound)
          /\ h \in Outbound /\ Range(toSrv) = {h} \cup Range(toSrv')
      BY <1>1, <1>4, ServerAnswers, RangeTail
    <2>2. /\ Count(toSrv, SdtPius) = Count(toSrv', SdtPius) + (IF h \in SdtPius THEN 1 ELSE 0)
          /\ Count(toSrv', SdtPius) \in Nat /\ Count(toSrv, SdtPius) \in Nat
      BY <1>1, <2>1, CountTail, CountType
    <2>3. h.type = "SDT" => \A q \in Range(toSrv') : q.type # "SDT"
      <3> SUFFICES ASSUME h.type = "SDT", NEW q \in Range(toSrv'), q.type = "SDT" PROVE FALSE
        OBVIOUS
      <3>1. q \in Outbound
        BY <2>1 DEF Range
      <3>2. q \in SdtPius /\ h \in SdtPius
        BY <2>1, <3>1 DEF SdtPius
      <3>3. Count(toSrv', SdtPius) >= 1
        BY <2>1, <3>2, CountsMember
      <3> QED BY <2>2, <3>2, <3>3 DEF BindInv
    <2>4. /\ Count(toSrv', SdtPius) <= 1
          /\ \A q \in Range(toSrv') : q.type = "SDT" =>
                Listed(q.lu) /\ lulu'[q.lu] = "bound" /\ ~NoSdtYet
      BY <2>1, <2>2, <2>3, ServerBinds DEF BindInv
    <2>5. ASSUME BindMode, NoSdtYet, NEW p \in Range(toGw'), ~IsRequest(p)
          PROVE  /\ p.type \in {"ACTPU", "ACTLU", "BIND"}
                 /\ p.type = "BIND" => Listed(p.lu)
                 /\ p.type = "BIND" /\ p.pos => lulu'[p.lu] = "bound"
      <3>1. h.type \notin {"SDT", "DATA"} /\ (h.type = "BIND" => Listed(h.lu))
        BY <2>1, <2>5 DEF BindInv
      <3>2. CASE p \in Range(toGw)
        BY <2>5, <3>1, <3>2, ServerBinds DEF BindInv
      <3>3. CASE p \notin Range(toGw)
        <4>1. toGw' # toGw
          BY <2>5, <3>3
        <4>2. PICK r : /\ toGw' = Append(toGw, r) /\ r = Rsp(r.type, r.lu, r.pos)
                       /\ r.type = IF h.type = "DATA" THEN "FMD" ELSE h.type
                       /\ (r.type # "ACTPU" => r.lu = h.lu)
          BY <1>4, <4>1, ServerAnswersInKind
        <4>3. p = r
          BY <1>1, <2>5, <3>3, <4>2, RangeAppend
        <4>4. p.type = h.type /\ h.type # "RSP"
          BY <1>4, <3>1, <4>1, <4>2, <4>3 DEF ServerReceives, ReceiveActPU, ReceiveActLU, ReceiveRsp,
             ReceiveData, ReceiveBind, ReceiveSdt, Receive
        <4>5. p.type = "BIND" => Listed(p.lu)
          BY <3>1, <4>2, <4>3, <4>4
        <4>6. ASSUME p.type = "BIND", p.pos PROVE lulu'[p.lu] = "bound"
          <5>1. ReceiveBind /\ p.lu = h.lu /\ p.lu \in LU
            BY <1>4, <4>2, <4>3, <4>4, <4>5, <4>6, ListedLu DEF ServerReceives, ReceiveActPU,
               ReceiveActLU, ReceiveRsp, ReceiveData, ReceiveBind, ReceiveSdt, Receive
          <5>2. \/ lulu' = [lulu EXCEPT ![h.lu] = "bound"]
                \/ toGw' = Append(toGw, Rsp("BIND", h.lu, FALSE))
            BY <5>1 DEF ReceiveBind
          <5>3. toGw' # Append(toGw, Rsp("BIND", h.lu, FALSE))
            <6>1. Rsp("BIND", h.lu, FALSE) # r
              BY <4>3, <4>6 DEF Rsp
            <6>2. \A x : Append(toGw, x)[Len(toGw) + 1] = x
              BY <1>1, AppendShape
            <6>3. toGw'[Len(toGw) + 1] = r
              BY <4>2, <6>2
            <6> QED BY <6>1, <6>2, <6>3
          <5> QED BY <5>1, <5>2, <5>3 DEF TypeInv, ServerTypeOK
        <4>7. p.type \in {"ACTPU", "ACTLU", "BIND"}
          BY <2>1, <3>1, <4>4 DEF Outbound
        <4> QED BY <4>5, <4>6, <4>7
      <3> QED BY <3>2, <3>3
    <2> HIDE DEF h
    <2> QED BY <1>1, <1>2, <2>1, <2>4, <2>5 DEF BindInv, Listed
  <1>5. CASE LinkLost
    BY <1>1, <1>2, <1>5 DEF LinkLost, serverVars, BindInv, Listed
  <1> QED BY <1>3, <1>4, <1>5 DEF ServerNext

LEMMA StepBind ==
  ASSUME OneLu, SessionInv, SessionInv', StartInv, BindInv, [Next]_vars
  PROVE  BindInv'
  <1>1. CASE UNCHANGED vars
    BY <1>1 DEF vars, serverVars, linkVars, probeVars, loopVars, BindInv, BindMode, Set, HostMode,
                NoSdtYet, Listed
  <1>2. CASE ServerNext /\ UNCHANGED <<probeVars, flags>>
    BY <1>2, ServerBind DEF SessionInv
  <1>3. CASE ProbeNext \/ BridgeNext
    BY <1>3, GatewayBind
  <1> QED BY <1>1, <1>2, <1>3 DEF Next, Finished

LEMMA InitBind == Init => BindInv
  <1> SUFFICES ASSUME Init PROVE BindInv
    OBVIOUS
  <1>1. toGw = <<>> /\ toSrv = <<>> /\ sessions = <<>> /\ pc = "start" /\ bound = FALSE
    BY DEF Init, ServerInit
  <1>2. \A x \in Range(<<>>) : FALSE
    BY EmptySeq DEF Range
  <1>3. Count(<<>>, SdtPius) = 0
    BY <1>2, CountsNone
  <1> QED BY <1>1, <1>2, <1>3 DEF BindInv, BindWaits

(***************************************************************************)
(* With one LU on the list, SDT follows that LU's acceptance of BIND: what *)
(* the gateway reads while it waits, and takes for the answer whatever it  *)
(* is, can only be positive if it is the answer.                           *)
(***************************************************************************)
THEOREM SdtFollowsBind == Spec => [](OneLu => SdtAfterBind)
  <1> DEFINE Inv == OneLu => SessionInv /\ FirstInv /\ StartInv /\ BindInv
  <1>1. Init => Inv
    BY InitSession, InitFirst, InitStart, InitBind
  <1>2. OneLu => DistinctLus
    BY LuListAssumption, LenProperties DEF OneLu, DistinctLus
  <1>3. Inv /\ [Next]_vars => Inv'
    <2> SUFFICES ASSUME Inv, [Next]_vars, OneLu
                 PROVE  SessionInv' /\ FirstInv' /\ StartInv' /\ BindInv'
      BY DEF OneLu
    <2>1. SessionInv'
      BY <1>2, StepSession
    <2>2. FirstInv' /\ StartInv'
      BY StepFirst, StepStart DEF SessionInv
    <2> QED BY <2>1, <2>2, StepBind
  <1>4. Inv => (OneLu => SdtAfterBind)
    BY DEF BindInv, SdtAfterBind, Range
  <1> HIDE DEF Inv
  <1> QED BY <1>1, <1>3, <1>4, PTL DEF Spec

=============================================================================
