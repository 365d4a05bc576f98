---------------------------- MODULE BridgeProofs ----------------------------
(***************************************************************************)
(* Proofs about module Bridge, for every capacity of the channel and of    *)
(* the socket and every number of inputs and records.                      *)
(***************************************************************************)
EXTENDS Bridge, TLAPS

(***************************************************************************)
(* Type correctness needs to know what the goroutines hold: an input that  *)
(* is being delivered or written is one of the user's, a record that is    *)
(* being sent one of the host's.                                           *)
(***************************************************************************)
Held ==
    /\ main = "deliver" => accepted < MaxInputs
    /\ down = "write" => downRec \in Input
    /\ up = "send" => upRec \in Record

TypeInv == TypeOK /\ Held

LEMMA AppendType ==
    ASSUME NEW S, NEW s \in Seq(S), NEW e \in S
    PROVE  Append(s, e) \in Seq(S) /\ Len(Append(s, e)) = Len(s) + 1
  OBVIOUS

LEMMA TailType ==
    ASSUME NEW S, NEW s \in Seq(S), s # <<>>
    PROVE  Head(s) \in S /\ Tail(s) \in Seq(S) /\ Len(Tail(s)) = Len(s) - 1
  OBVIOUS

\* A step that leaves a part of the state alone leaves its type alone.
LEMMA SameSession == SessionTypeOK /\ UNCHANGED sessionVars => SessionTypeOK'
  BY DEF SessionTypeOK, sessionVars

LEMMA SameGoroutines == GoroutineTypeOK /\ UNCHANGED goroutineVars => GoroutineTypeOK'
  BY DEF GoroutineTypeOK, goroutineVars

LEMMA SameHost == HostTypeOK /\ UNCHANGED hostVars => HostTypeOK'
  BY DEF HostTypeOK, hostVars

LEMMA InitType == Init => TypeInv
<1> SUFFICES ASSUME Init PROVE TypeInv
  OBVIOUS
<1>1. SessionTypeOK
  <2>1. inbound \in Seq(Input) /\ Len(inbound) <= InboundCap
    BY InboundCapAssumption DEF Init
  <2> QED BY <2>1 DEF Init, SessionTypeOK
<1>2. GoroutineTypeOK
  BY DEF Init, GoroutineTypeOK
<1>3. HostTypeOK
  BY DEF Init, HostTypeOK
<1> QED BY <1>1, <1>2, <1>3, BoundsAssumption DEF Init, TypeInv, TypeOK, Held

LEMMA CloseType == SessionTypeOK /\ Close => SessionTypeOK'
  BY DEF SessionTypeOK, Close

LEMMA MainType == TypeInv /\ (TakeInput \/ Deliver \/ ClientDisconnects) => TypeInv'
<1> SUFFICES ASSUME TypeInv, TakeInput \/ Deliver \/ ClientDisconnects PROVE TypeInv'
  OBVIOUS
<1>1. GoroutineTypeOK' /\ HostTypeOK'
  BY SameGoroutines, SameHost DEF TakeInput, Deliver, ClientDisconnects, TypeInv, TypeOK
<1>2. CASE TakeInput
  <2>1. SessionTypeOK'
    BY <1>2, SameSession DEF TakeInput, TypeInv, TypeOK
  <2> QED BY <1>1, <1>2, <2>1, BoundsAssumption DEF TakeInput, TypeInv, TypeOK, Held, goroutineVars
<1>3. CASE Deliver
  <2>1. accepted + 1 \in Input
    BY <1>3, BoundsAssumption DEF Deliver, TypeInv, TypeOK, Held, Input
  <2>2. SessionTypeOK'
    BY <1>3, <2>1, AppendType, InboundCapAssumption, SMTT(60) DEF Deliver, SessionTypeOK, TypeInv, TypeOK
  <2>3. accepted' \in 0 .. MaxInputs
    BY <1>3, <2>1, BoundsAssumption DEF Deliver, TypeInv, TypeOK, Input
  <2> QED BY <1>1, <1>3, <2>2, <2>3 DEF Deliver, TypeInv, TypeOK, Held, goroutineVars
<1>4. CASE ClientDisconnects
  <2>1. SessionTypeOK'
    BY <1>4, CloseType DEF ClientDisconnects, TypeInv, TypeOK
  <2> QED BY <1>1, <1>4, <2>1 DEF ClientDisconnects, TypeInv, TypeOK, Held, goroutineVars
<1> QED BY <1>2, <1>3, <1>4

LEMMA UpType == TypeInv /\ Up => TypeInv'
<1> SUFFICES ASSUME TypeInv, Up PROVE TypeInv'
  OBVIOUS
<1>1. SessionTypeOK'
  BY SameSession DEF Up, ReadRecord, ReadFails, SendToTerminal, ReportUp, TypeInv, TypeOK
<1>2. CASE ReadRecord
  <2>1. Head(fromHost) \in Record /\ fromHost' \in Seq(Record)
    BY <1>2, TailType DEF ReadRecord, TypeInv, TypeOK, HostTypeOK
  <2>2. HostTypeOK'
    BY <1>2, <2>1 DEF ReadRecord, TypeInv, TypeOK, HostTypeOK
  <2>3. GoroutineTypeOK'
    BY <1>2, <2>1 DEF ReadRecord, TypeInv, TypeOK, GoroutineTypeOK
  <2> QED BY <1>1, <1>2, <2>1, <2>2, <2>3 DEF ReadRecord, TypeInv, TypeOK, Held
<1>3. CASE ReadFails \/ ReportUp
  <2>1. HostTypeOK'
    BY <1>3, SameHost DEF ReadFails, ReportUp, TypeInv, TypeOK
  <2>2. GoroutineTypeOK'
    BY <1>3, AppendType DEF ReadFails, ReportUp, TypeInv, TypeOK, GoroutineTypeOK
  <2> QED BY <1>1, <1>3, <2>1, <2>2 DEF ReadFails, ReportUp, TypeInv, TypeOK, Held
<1>4. CASE SendToTerminal
  <2>1. HostTypeOK'
    BY <1>4, SameHost DEF SendToTerminal, TypeInv, TypeOK
  <2>2. GoroutineTypeOK'
    BY <1>4 DEF SendToTerminal, TypeInv, TypeOK, GoroutineTypeOK
  <2>3. shown' \in Seq(Record)
    BY <1>4, AppendType DEF SendToTerminal, TypeInv, TypeOK, Held
  <2> QED BY <1>1, <1>4, <2>1, <2>2, <2>3 DEF SendToTerminal, TypeInv, TypeOK, Held
<1> QED BY <1>2, <1>3, <1>4 DEF Up

LEMMA DownType == TypeInv /\ Down => TypeInv'
<1> SUFFICES ASSUME TypeInv, Down PROVE TypeInv'
  OBVIOUS
<1>1. CASE SelectInput
  <2>1. Head(inbound) \in Input /\ Tail(inbound) \in Seq(Input) /\ Len(Tail(inbound)) <= InboundCap
    BY <1>1, TailType, InboundCapAssumption DEF SelectInput, TypeInv, TypeOK, SessionTypeOK
  <2>2. SessionTypeOK'
    BY <1>1, <2>1 DEF SelectInput, TypeInv, TypeOK, SessionTypeOK
  <2>3. GoroutineTypeOK'
    BY <1>1, <2>1 DEF SelectInput, TypeInv, TypeOK, GoroutineTypeOK
  <2>4. HostTypeOK'
    BY <1>1, SameHost DEF SelectInput, TypeInv, TypeOK
  <2> QED BY <1>1, <2>1, <2>2, <2>3, <2>4 DEF SelectInput, TypeInv, TypeOK, Held
<1>2. CASE SelectClosed \/ ReportDown
  <2>1. SessionTypeOK' /\ HostTypeOK'
    BY <1>2, SameSession, SameHost DEF SelectClosed, ReportDown, TypeInv, TypeOK
  <2>2. GoroutineTypeOK'
    BY <1>2, AppendType DEF SelectClosed, ReportDown, TypeInv, TypeOK, GoroutineTypeOK
  <2> QED BY <1>2, <2>1, <2>2 DEF SelectClosed, ReportDown, TypeInv, TypeOK, Held
<1>3. CASE WriteRecord
  <2>1. SessionTypeOK'
    BY <1>3, SameSession DEF WriteRecord, TypeInv, TypeOK
  <2>2. GoroutineTypeOK'
    BY <1>3 DEF WriteRecord, TypeInv, TypeOK, GoroutineTypeOK
  <2>3. toHost' \in Seq(Input)
    BY <1>3, AppendType DEF WriteRecord, TypeInv, TypeOK, HostTypeOK, Held
  <2>4. HostTypeOK'
    BY <1>3, <2>3 DEF WriteRecord, TypeInv, TypeOK, HostTypeOK
  <2> QED BY <1>3, <2>1, <2>2, <2>4 DEF WriteRecord, TypeInv, TypeOK, Held
<1> QED BY <1>1, <1>2, <1>3 DEF Down

LEMMA RunnerType == TypeInv /\ Runner => TypeInv'
<1> SUFFICES ASSUME TypeInv, Runner PROVE TypeInv'
  OBVIOUS
<1>1. SessionTypeOK'
  BY SameSession, CloseType DEF Runner, RunReturns, CloseHost, CloseSession, TypeInv, TypeOK
<1>2. GoroutineTypeOK'
  BY TailType DEF Runner, RunReturns, CloseHost, CloseSession, TypeInv, TypeOK, GoroutineTypeOK
<1>3. HostTypeOK'
  BY SameHost DEF Runner, RunReturns, CloseHost, CloseSession, TypeInv, TypeOK, HostTypeOK, hostVars
<1> QED BY <1>1, <1>2, <1>3 DEF Runner, RunReturns, CloseHost, CloseSession, TypeInv, TypeOK, Held

LEMMA HostType == TypeInv /\ (HostSends \/ HostReads \/ HostResets) => TypeInv'
<1> SUFFICES ASSUME TypeInv, HostSends \/ HostReads \/ HostResets PROVE TypeInv'
  OBVIOUS
<1>1. SessionTypeOK' /\ GoroutineTypeOK'
  BY SameSession, SameGoroutines DEF HostSends, HostReads, HostResets, TypeInv, TypeOK
<1>2. CASE HostSends
  <2>1. PICK empty \in BOOLEAN :
            /\ fromHost' = Append(fromHost, [n |-> Len(hostSent) + 1, empty |-> empty])
            /\ hostSent' = Append(hostSent, [n |-> Len(hostSent) + 1, empty |-> empty])
    BY <1>2 DEF HostSends
  <2>2. [n |-> Len(hostSent) + 1, empty |-> empty] \in Record
    BY <1>2, BoundsAssumption DEF HostSends, Record, TypeInv, TypeOK, HostTypeOK
  <2>3. fromHost' \in Seq(Record) /\ hostSent' \in Seq(Record)
    BY <2>1, <2>2, AppendType DEF TypeInv, TypeOK, HostTypeOK
  <2>4. HostTypeOK'
    BY <1>2, <2>3 DEF HostSends, TypeInv, TypeOK, HostTypeOK
  <2> QED BY <1>1, <1>2, <2>4 DEF HostSends, TypeInv, TypeOK, Held, goroutineVars
<1>3. CASE HostReads
  <2>1. HostTypeOK'
    BY <1>3, AppendType, TailType DEF HostReads, TypeInv, TypeOK, HostTypeOK
  <2> QED BY <1>1, <1>3, <2>1 DEF HostReads, TypeInv, TypeOK, Held, goroutineVars
<1>4. CASE HostResets
  <2>1. HostTypeOK'
    BY <1>4 DEF HostResets, TypeInv, TypeOK, HostTypeOK
  <2> QED BY <1>1, <1>4, <2>1 DEF HostResets, TypeInv, TypeOK, Held, goroutineVars
<1> QED BY <1>2, <1>3, <1>4

LEMMA StepType == TypeInv /\ [Next]_vars => TypeInv'
<1>1. TypeInv /\ UNCHANGED vars => TypeInv'
  <2> SUFFICES ASSUME TypeInv, UNCHANGED vars PROVE TypeInv'
    OBVIOUS
  <2>1. SessionTypeOK' /\ GoroutineTypeOK' /\ HostTypeOK'
    BY SameSession, SameGoroutines, SameHost DEF TypeInv, TypeOK, vars
  <2> QED BY <2>1 DEF TypeInv, TypeOK, Held, vars, goroutineVars
<1> QED BY <1>1, MainType, UpType, DownType, RunnerType, HostType DEF Next, Ended

(***************************************************************************)
(* The bridge's channels, records and history keep their types, and the    *)
(* inbound channel its capacity, however the goroutines interleave.        *)
(***************************************************************************)
THEOREM TypeCorrect == Spec => []TypeOK
<1>1. TypeInv => TypeOK
  BY DEF TypeInv
<1> QED BY InitType, StepType, <1>1, PTL DEF Spec

-----------------------------------------------------------------------------
(***************************************************************************)
(* The order of the inputs.  What the host has read, the socket, the input *)
(* in the goroutine's hand and the channel hold consecutive numbers.  That *)
(* stops being so once the connection is gone or the goroutine has ended,  *)
(* when inputs are lost, but then nothing is written any more: the first   *)
(* two stay as they are.                                                   *)
(***************************************************************************)
Writing == conn = "open" /\ down \in {"select", "write"}
Written == Len(hostGot) + Len(toHost)
Taken == Written + (IF down = "write" THEN 1 ELSE 0)

HostInOrder ==
    /\ \A i \in 1 .. Len(hostGot) : hostGot[i] = i
    /\ \A i \in 1 .. Len(toHost) : toHost[i] = Len(hostGot) + i
    /\ Written <= accepted

NothingLost ==
    /\ down = "write" => downRec = Written + 1
    /\ \A i \in 1 .. Len(inbound) : inbound[i] = Taken + i
    /\ accepted = Taken + Len(inbound)

OrderInv == TypeInv /\ HostInOrder /\ (Writing => NothingLost)

LEMMA InitOrder == Init => OrderInv
  BY InitType DEF Init, OrderInv, HostInOrder, NothingLost, Writing, Written, Taken

\* Steps that touch neither the inputs nor the goroutine that writes them.
LEMMA QuietOrder ==
    OrderInv /\ TypeInv' /\ UNCHANGED <<inbound, down, downRec, toHost, hostGot, accepted>>
        /\ (conn' = "open" => conn = "open") => OrderInv'
  BY DEF OrderInv, HostInOrder, NothingLost, Writing, Written, Taken

LEMMA StepOrder == OrderInv /\ [Next]_vars => OrderInv'
<1> SUFFICES ASSUME OrderInv, [Next]_vars PROVE OrderInv'
  OBVIOUS
<1>1. TypeInv'
  BY StepType DEF OrderInv
<1>2. /\ inbound \in Seq(Input) /\ toHost \in Seq(Input) /\ hostGot \in Seq(Input)
      /\ accepted \in Nat
  BY BoundsAssumption DEF OrderInv, TypeInv, TypeOK, SessionTypeOK, HostTypeOK
<1>3. CASE Deliver
  <2>1. CASE UNCHANGED <<inbound, accepted>>
    BY <1>1, <1>3, <2>1, QuietOrder DEF Deliver, goroutineVars, hostVars
  <2>2. CASE inbound' = Append(inbound, accepted + 1) /\ accepted' = accepted + 1
    <3>1. UNCHANGED <<down, downRec, conn, toHost, hostGot>>
      BY <1>3 DEF Deliver, goroutineVars, hostVars
    <3>2. HostInOrder'
      BY <1>2, <2>2, <3>1 DEF OrderInv, HostInOrder, Written
    <3>3. Len(inbound') = Len(inbound) + 1 /\ \A i \in 1 .. Len(inbound') :
              inbound'[i] = IF i = Len(inbound) + 1 THEN accepted + 1 ELSE inbound[i]
      BY <1>2, <2>2
    <3>4. Written' = Written /\ Taken' = Taken /\ Taken \in Nat
      BY <1>2, <3>1 DEF Written, Taken
    <3>5. ASSUME Writing PROVE NothingLost'
      <4>1. NothingLost
        BY <3>5 DEF OrderInv
      <4>2. \A i \in 1 .. Len(inbound') : inbound'[i] = Taken' + i
        <5> SUFFICES ASSUME NEW i \in 1 .. Len(inbound') PROVE inbound'[i] = Taken' + i
          OBVIOUS
        <5>1. CASE i = Len(inbound) + 1
          BY <1>2, <3>3, <3>4, <4>1, <5>1 DEF NothingLost
        <5>2. CASE i \in 1 .. Len(inbound)
          BY <1>2, <3>3, <3>4, <4>1, <5>2 DEF NothingLost
        <5> QED BY <1>2, <3>3, <5>1, <5>2
      <4>3. accepted' = Taken' + Len(inbound')
        BY <1>2, <2>2, <3>3, <3>4, <4>1 DEF NothingLost
      <4> QED BY <3>1, <3>4, <4>1, <4>2, <4>3 DEF NothingLost
    <3> QED BY <1>1, <3>1, <3>2, <3>5 DEF OrderInv, Writing
  <2> QED BY <1>3, <2>1, <2>2 DEF Deliver
<1>4. CASE SelectInput
  <2>1. /\ inbound # <<>>
        /\ inbound' = Tail(inbound)
        /\ down = "select" /\ down' = "write" /\ downRec' = Head(inbound)
        /\ UNCHANGED <<conn, toHost, hostGot, accepted>>
    BY <1>4 DEF SelectInput, hostVars
  <2>2. HostInOrder'
    BY <2>1 DEF OrderInv, HostInOrder, Written
  <2>3. Writing => NothingLost'
    <3>1. SUFFICES ASSUME Writing PROVE NothingLost'
      OBVIOUS
    <3>2. Head(inbound) = Written + 1
      BY <1>2, <2>1, <3>1 DEF OrderInv, NothingLost, Taken, Written
    <3>3. \A i \in 1 .. Len(Tail(inbound)) : Tail(inbound)[i] = inbound[i + 1] /\ i + 1 \in 1 .. Len(inbound)
      BY <1>2, <2>1
    <3>4. Taken' = Taken + 1
      BY <1>2, <2>1 DEF Taken, Written
    <3>5. \A i \in 1 .. Len(inbound') : inbound'[i] = Taken' + i
      BY <1>2, <2>1, <3>1, <3>3, <3>4 DEF OrderInv, NothingLost, Taken, Written
    <3>6. accepted' = Taken' + Len(inbound')
      BY <1>2, <2>1, <3>1, <3>4 DEF OrderInv, NothingLost, Taken, Written
    <3>7. downRec' = Written' + 1
      BY <2>1, <3>2 DEF Written
    <3> QED BY <3>5, <3>6, <3>7 DEF NothingLost
  <2> QED BY <1>1, <2>1, <2>2, <2>3 DEF OrderInv, Writing
<1>5. CASE WriteRecord
  <2>1. CASE conn = "open" /\ toHost' = Append(toHost, downRec) /\ down' = "select"
    <3>1. UNCHANGED <<inbound, conn, hostGot, accepted>> /\ down = "write"
      BY <1>5 DEF WriteRecord, sessionVars
    <3>2. NothingLost /\ downRec = Written + 1
      BY <2>1, <3>1 DEF OrderInv, Writing, NothingLost
    <3>3. Len(toHost') = Len(toHost) + 1 /\ \A i \in 1 .. Len(toHost') :
              toHost'[i] = IF i = Len(toHost) + 1 THEN downRec ELSE toHost[i]
      BY <1>2, <2>1, SMTT(60)
    <3>4. Written' = Written + 1 /\ Taken' = Taken
      BY <1>2, <2>1, <3>1, <3>3 DEF Written, Taken
    <3>5. \A i \in 1 .. Len(toHost') : toHost'[i] = Len(hostGot') + i
      <4> SUFFICES ASSUME NEW i \in 1 .. Len(toHost') PROVE toHost'[i] = Len(hostGot') + i
        OBVIOUS
      <4>1. CASE i = Len(toHost) + 1
        BY <1>2, <3>1, <3>2, <3>3, <4>1 DEF Written
      <4>2. CASE i \in 1 .. Len(toHost)
        BY <1>2, <3>1, <3>3, <4>2 DEF OrderInv, HostInOrder
      <4> QED BY <1>2, <3>3, <4>1, <4>2
    <3>6. Written' <= accepted'
      BY <1>2, <3>1, <3>2, <3>4 DEF NothingLost, Taken, Written
    <3>7. HostInOrder'
      BY <3>1, <3>5, <3>6 DEF OrderInv, HostInOrder
    <3>8. NothingLost'
      BY <2>1, <3>1, <3>2, <3>4 DEF NothingLost
    <3> QED BY <1>1, <3>7, <3>8 DEF OrderInv
  <2>2. CASE conn # "open" /\ UNCHANGED toHost
    BY <1>1, <1>5, <2>2 DEF WriteRecord, OrderInv, HostInOrder, Written, Writing
  <2> QED BY <1>5, <2>1, <2>2 DEF WriteRecord
<1>6. CASE SelectClosed \/ ReportDown
  BY <1>1, <1>6 DEF SelectClosed, ReportDown, OrderInv, HostInOrder, Written, Writing, hostVars
<1>7. CASE HostReads
  <2>1. /\ toHost # <<>>
        /\ toHost' = Tail(toHost) /\ hostGot' = Append(hostGot, Head(toHost))
        /\ UNCHANGED <<inbound, down, downRec, conn, accepted>>
    BY <1>7 DEF HostReads, sessionVars, goroutineVars
  <2>2. Len(toHost') = Len(toHost) - 1 /\ Len(hostGot') = Len(hostGot) + 1
    BY <1>2, <2>1
  <2>3. Written' = Written /\ Taken' = Taken
    BY <1>2, <2>1, <2>2 DEF Written, Taken
  <2>4. \A i \in 1 .. Len(hostGot') : hostGot'[i] = i
    BY <1>2, <2>1, <2>2 DEF OrderInv, HostInOrder
  <2>5. \A i \in 1 .. Len(toHost') : toHost'[i] = Len(hostGot') + i
    <3>1. \A i \in 1 .. Len(toHost') : toHost'[i] = toHost[i + 1] /\ i + 1 \in 1 .. Len(toHost)
      BY <1>2, <2>1, <2>2
    <3> QED BY <1>2, <2>2, <3>1 DEF OrderInv, HostInOrder
  <2> QED BY <1>1, <2>1, <2>3, <2>4, <2>5 DEF OrderInv, HostInOrder, NothingLost, Writing
<1>8. CASE TakeInput \/ ClientDisconnects \/ Up \/ Runner \/ HostSends \/ HostResets \/ UNCHANGED vars
  <2>1. UNCHANGED <<inbound, down, downRec, toHost, hostGot, accepted>>
    BY <1>8 DEF TakeInput, ClientDisconnects, Close, Up, ReadRecord, ReadFails, SendToTerminal, ReportUp,
       Runner, RunReturns, CloseHost, CloseSession, HostSends, HostResets, vars, sessionVars,
       goroutineVars, hostVars
  <2>2. conn' = "open" => conn = "open"
    BY <1>8 DEF TakeInput, ClientDisconnects, Up, ReadRecord, ReadFails, SendToTerminal, ReportUp,
       Runner, RunReturns, CloseHost, CloseSession, HostSends, HostResets, vars, hostVars
  <2> QED BY <1>1, <2>1, <2>2, QuietOrder
<1> QED BY <1>3, <1>4, <1>5, <1>6, <1>7, <1>8 DEF Next, Down, Ended

(***************************************************************************)
(* The host gets the user's inputs in order, none twice and none skipped,  *)
(* whatever ends the bridge and at whatever moment.                        *)
(***************************************************************************)
THEOREM InputsStayInOrder == Spec => []InputInOrder
<1>1. OrderInv => InputInOrder
  BY DEF OrderInv, HostInOrder, Written, InputInOrder, TypeInv, TypeOK, HostTypeOK
<1> QED BY InitOrder, StepOrder, <1>1, PTL DEF Spec

-----------------------------------------------------------------------------
(***************************************************************************)
(* The order of the screens.  The host numbers its records; those it has   *)
(* sent and the goroutine has not read are the last ones.  As long as the  *)
(* goroutine is not about to end, every screen among those it has read is  *)
(* shown or in its hand, and then the latest of them.                      *)
(***************************************************************************)
ReadSoFar == Len(hostSent) - Len(fromHost)

RecordsInOrder ==
    /\ Len(fromHost) <= Len(hostSent)
    /\ \A i \in 1 .. Len(hostSent) : hostSent[i].n = i
    /\ \A i \in 1 .. Len(fromHost) : fromHost[i] = hostSent[ReadSoFar + i]

IsShown(i) == \E j \in DOMAIN shown : shown[j] = hostSent[i]

Shows ==
    /\ \A k \in DOMAIN shown :
          /\ shown[k].n <= ReadSoFar /\ ~shown[k].empty
          /\ shown[k] = hostSent[shown[k].n]
    /\ \A j, k \in DOMAIN shown : j < k => shown[j].n < shown[k].n
    /\ \A k \in DOMAIN shown : \A i \in 1 .. shown[k].n : ~hostSent[i].empty => IsShown(i)

HoldsScreen ==
    /\ upRec.n <= ReadSoFar /\ ~upRec.empty /\ upRec = hostSent[upRec.n]
    /\ \A k \in DOMAIN shown : shown[k].n < upRec.n

NoneSkipped ==
    \A i \in 1 .. ReadSoFar :
        ~hostSent[i].empty => IsShown(i) \/ (up = "send" /\ upRec.n = i)

ScreenInv ==
    /\ TypeInv /\ RecordsInOrder /\ Shows
    /\ up = "send" => HoldsScreen
    /\ up \in {"read", "send"} => NoneSkipped

LEMMA InitScreens == Init => ScreenInv
  BY InitType DEF Init, ScreenInv, RecordsInOrder, Shows, HoldsScreen, NoneSkipped, ReadSoFar

LEMMA StepScreens == ScreenInv /\ [Next]_vars => ScreenInv'
<1> SUFFICES ASSUME ScreenInv, [Next]_vars PROVE ScreenInv'
  OBVIOUS
<1>1. /\ TypeInv' /\ shown \in Seq(Record) /\ fromHost \in Seq(Record) /\ hostSent \in Seq(Record)
      /\ \A r \in Record : r.n \in Nat
  BY StepType, BoundsAssumption, SMTT(60) DEF ScreenInv, TypeInv, TypeOK, HostTypeOK, Record
<1>2. ReadSoFar \in Nat /\ ReadSoFar <= Len(hostSent)
  BY <1>1 DEF ScreenInv, RecordsInOrder, ReadSoFar
<1>3. CASE ReadRecord
  <2> DEFINE m == ReadSoFar + 1
  <2>1. /\ up = "read" /\ fromHost # <<>> /\ fromHost' = Tail(fromHost)
        /\ UNCHANGED <<hostSent, shown>>
    BY <1>3 DEF ReadRecord
  <2>2. /\ Len(fromHost') = Len(fromHost) - 1 /\ Len(fromHost) >= 1
        /\ Head(fromHost) = fromHost[1]
        /\ \A i \in 1 .. Len(fromHost') : fromHost'[i] = fromHost[i + 1]
    BY <1>1, <2>1
  <2>3. ReadSoFar' = m /\ m \in 1 .. Len(hostSent)
    BY <1>1, <1>2, <2>1, <2>2 DEF ReadSoFar
  <2>4. Head(fromHost) = hostSent[m] /\ hostSent[m].n = m
    BY <1>1, <2>2, <2>3 DEF ScreenInv, RecordsInOrder
  <2>5. RecordsInOrder'
    <3>1. \A i \in 1 .. Len(fromHost') : i + 1 \in 1 .. Len(fromHost) /\ ReadSoFar + (i + 1) = ReadSoFar' + i
      BY <1>1, <1>2, <2>2, <2>3
    <3> QED BY <1>1, <2>1, <2>2, <3>1 DEF ScreenInv, RecordsInOrder
  <2>6. \A k \in DOMAIN shown : shown[k].n \in Nat /\ shown[k].n < m
    <3>1. \A k \in DOMAIN shown : shown[k] \in Record
      BY <1>1
    <3> QED BY <1>1, <1>2, <3>1 DEF ScreenInv, Shows
  <2>7. Shows'
    BY <1>2, <2>1, <2>3, <2>6 DEF ScreenInv, Shows, IsShown
  <2>8. \A i \in 1 .. m - 1 : ~hostSent[i].empty => IsShown(i)
    BY <1>2, <2>1 DEF ScreenInv, NoneSkipped
  <2>9. CASE Head(fromHost).empty
    <3>1. up' = up /\ upRec' = upRec
      BY <1>3, <2>9 DEF ReadRecord
    <3>2. NoneSkipped'
      BY <1>2, <2>1, <2>3, <2>4, <2>8, <2>9 DEF NoneSkipped, IsShown
    <3> QED BY <1>1, <2>1, <2>5, <2>7, <3>1, <3>2 DEF ScreenInv
  <2>10. CASE ~Head(fromHost).empty
    <3>1. up' = "send" /\ upRec' = hostSent[m]
      BY <1>3, <2>4, <2>10 DEF ReadRecord
    <3>2. NoneSkipped'
      BY <1>2, <2>1, <2>3, <2>4, <2>8, <3>1 DEF NoneSkipped, IsShown
    <3>3. HoldsScreen'
      BY <1>2, <2>1, <2>3, <2>4, <2>6, <2>10, <3>1 DEF HoldsScreen
    <3> QED BY <1>1, <2>5, <2>7, <3>1, <3>2, <3>3 DEF ScreenInv
  <2> QED BY <2>9, <2>10
<1>4. CASE SendToTerminal
  <2>1. up = "send" /\ UNCHANGED <<fromHost, hostSent>>
    BY <1>4 DEF SendToTerminal, hostVars
  <2>2. RecordsInOrder' /\ ReadSoFar' = ReadSoFar
    BY <2>1 DEF ScreenInv, RecordsInOrder, ReadSoFar
  <2>3. CASE up' = "read" /\ shown' = Append(shown, upRec)
    <3> DEFINE m == Len(shown) + 1
    <3>1. /\ DOMAIN shown = 1 .. Len(shown) /\ DOMAIN shown' = 1 .. m /\ shown'[m] = upRec
          /\ \A k \in DOMAIN shown : shown'[k] = shown[k]
      BY <1>1, <2>3
    <3>2. HoldsScreen /\ NoneSkipped /\ Shows /\ upRec.n \in Nat
      BY <1>1, <2>1 DEF ScreenInv, TypeInv, Held
    <3>3. \A i : IsShown(i) => IsShown(i)'
      BY <1>1, <2>1, <3>1 DEF IsShown
    <3>4. \A i \in 1 .. ReadSoFar : ~hostSent[i].empty => IsShown(i)'
      <4>1. m \in DOMAIN shown' /\ shown'[m] = hostSent'[upRec.n]
        BY <1>1, <2>1, <3>1, <3>2 DEF HoldsScreen
      <4>2. \A i : i = upRec.n => IsShown(i)'
        BY <4>1 DEF IsShown
      <4> QED BY <3>2, <3>3, <4>2 DEF NoneSkipped
    <3>5. \A k \in DOMAIN shown' : k \in DOMAIN shown \/ k = m
      BY <1>1, <3>1, SMTT(60)
    <3>6. \A k \in DOMAIN shown' :
             /\ shown'[k].n <= ReadSoFar /\ ~shown'[k].empty
             /\ shown'[k] = hostSent[shown'[k].n]
      BY <3>1, <3>2, <3>5 DEF Shows, HoldsScreen
    <3>7. \A j, k \in DOMAIN shown' : j < k => shown'[j].n < shown'[k].n
      <4> SUFFICES ASSUME NEW j \in DOMAIN shown', NEW k \in DOMAIN shown', j < k
                   PROVE  shown'[j].n < shown'[k].n
        OBVIOUS
      <4>1. j \in DOMAIN shown
        BY <1>1, <3>1
      <4> QED BY <3>1, <3>2, <3>5, <4>1 DEF Shows, HoldsScreen
    <3>8. \A k \in DOMAIN shown' : \A i \in 1 .. shown'[k].n : ~hostSent[i].empty => IsShown(i)'
      <4> SUFFICES ASSUME NEW k \in DOMAIN shown', NEW i \in 1 .. shown'[k].n, ~hostSent[i].empty
                   PROVE  IsShown(i)'
        OBVIOUS
      <4>1. CASE k \in DOMAIN shown
        BY <3>1, <3>2, <3>3, <4>1 DEF Shows
      <4>2. CASE k = m
        <5>1. i \in 1 .. ReadSoFar
          BY <1>2, <3>1, <3>2, <4>2 DEF HoldsScreen
        <5> QED BY <3>4, <5>1
      <4> QED BY <3>5, <4>1, <4>2
    <3>9. Shows'
      BY <2>1, <2>2, <3>6, <3>7, <3>8 DEF Shows
    <3>10. NoneSkipped'
      BY <2>1, <2>2, <3>4 DEF NoneSkipped
    <3> QED BY <1>1, <2>2, <2>3, <3>9, <3>10 DEF ScreenInv
  <2>4. CASE up' = "report" /\ UNCHANGED shown
    <3>1. Shows'
      BY <2>1, <2>2, <2>4 DEF ScreenInv, Shows, IsShown
    <3> QED BY <1>1, <2>2, <2>4, <3>1 DEF ScreenInv
  <2> QED BY <1>4, <2>3, <2>4 DEF SendToTerminal
<1>5. CASE HostSends
  <2>1. PICK r : fromHost' = Append(fromHost, r) /\ hostSent' = Append(hostSent, r) /\ r.n = Len(hostSent) + 1
    BY <1>5 DEF HostSends
  <2>2. UNCHANGED <<up, upRec, shown>>
    BY <1>5 DEF HostSends, goroutineVars
  <2>3. /\ Len(hostSent') = Len(hostSent) + 1 /\ Len(fromHost') = Len(fromHost) + 1
        /\ \A i \in 1 .. Len(hostSent) : hostSent'[i] = hostSent[i]
        /\ \A i \in 1 .. Len(fromHost) : fromHost'[i] = fromHost[i]
        /\ hostSent'[Len(hostSent) + 1] = r /\ fromHost'[Len(fromHost) + 1] = r
    BY <1>1, <2>1
  <2>4. ReadSoFar' = ReadSoFar
    BY <1>1, <2>3 DEF ReadSoFar
  <2>5. RecordsInOrder'
    <3>1. \A i \in 1 .. Len(hostSent') : hostSent'[i].n = i
      BY <1>1, <2>1, <2>3 DEF ScreenInv, RecordsInOrder
    <3>2. \A i \in 1 .. Len(fromHost') : fromHost'[i] = hostSent'[ReadSoFar + i]
      <4> SUFFICES ASSUME NEW i \in 1 .. Len(fromHost') PROVE fromHost'[i] = hostSent'[ReadSoFar + i]
        OBVIOUS
      <4>1. CASE i = Len(fromHost) + 1
        BY <1>1, <2>3, <4>1 DEF ReadSoFar
      <4>2. CASE i \in 1 .. Len(fromHost)
        <5>1. ReadSoFar + i \in 1 .. Len(hostSent)
          BY <1>1, <1>2, <4>2 DEF ReadSoFar
        <5> QED BY <2>3, <4>2, <5>1 DEF ScreenInv, RecordsInOrder
      <4> QED BY <1>1, <2>3, <4>1, <4>2
    <3> QED BY <1>1, <2>3, <2>4, <3>1, <3>2 DEF ScreenInv, RecordsInOrder
  <2>6. \A i \in 1 .. ReadSoFar : hostSent'[i] = hostSent[i]
    BY <1>1, <1>2, <2>3
  <2>7. \A k \in DOMAIN shown : shown[k].n \in 1 .. ReadSoFar
    <3>1. \A k \in DOMAIN shown : shown[k] \in Record
      BY <1>1
    <3> QED BY <1>1, <1>2, <3>1, BoundsAssumption DEF ScreenInv, Shows, Record
  <2>8. Shows'
    <3>1. \A k \in DOMAIN shown : \A i \in 1 .. shown[k].n : i \in 1 .. ReadSoFar
      BY <1>2, <2>7
    <3> QED BY <2>2, <2>4, <2>6, <2>7, <3>1 DEF ScreenInv, Shows, IsShown
  <2>9. up = "send" => HoldsScreen'
    <3>1. up = "send" => upRec.n \in 1 .. ReadSoFar
      BY <1>1, <1>2, BoundsAssumption DEF ScreenInv, TypeInv, Held, HoldsScreen, Record
    <3> QED BY <2>2, <2>4, <2>6, <3>1 DEF ScreenInv, HoldsScreen
  <2>10. up \in {"read", "send"} => NoneSkipped'
    BY <2>2, <2>4, <2>6 DEF ScreenInv, NoneSkipped, IsShown
  <2> QED BY <1>1, <2>2, <2>5, <2>8, <2>9, <2>10 DEF ScreenInv
<1>6. CASE ReadFails \/ ReportUp
  BY <1>1, <1>6, ZenonT(60) DEF ReadFails, ReportUp, hostVars, ScreenInv, RecordsInOrder, Shows, IsShown, ReadSoFar
<1>7. CASE TakeInput \/ Deliver \/ ClientDisconnects \/ Down \/ Runner \/ HostReads \/ HostResets
           \/ UNCHANGED vars
  <2>1. UNCHANGED <<up, upRec, shown, fromHost, hostSent>>
    BY <1>7 DEF TakeInput, Deliver, ClientDisconnects, Down, SelectInput, SelectClosed, WriteRecord,
       ReportDown, Runner, RunReturns, CloseHost, CloseSession, HostReads, HostResets, vars,
       goroutineVars, hostVars
  <2>2. ReadSoFar' = ReadSoFar /\ \A i : IsShown(i)' <=> IsShown(i)
    BY <2>1 DEF ReadSoFar, IsShown
  <2>3. RecordsInOrder' /\ Shows'
    BY <2>1, <2>2 DEF ScreenInv, RecordsInOrder, Shows
  <2>4. (up = "send" => HoldsScreen') /\ (up \in {"read", "send"} => NoneSkipped')
    BY <2>1, <2>2 DEF ScreenInv, HoldsScreen, NoneSkipped
  <2> QED BY <1>1, <2>1, <2>3, <2>4 DEF ScreenInv
<1> QED BY <1>3, <1>4, <1>5, <1>6, <1>7 DEF Next, Up, Ended

(***************************************************************************)
(* The terminal gets the host's screens in order, none twice, none skipped *)
(* and no empty record, whatever ends the bridge and at whatever moment.   *)
(***************************************************************************)
THEOREM ScreensStayInOrder == Spec => []ScreensInOrder
<1>1. ScreenInv => ScreensInOrder
  <2> SUFFICES ASSUME ScreenInv PROVE ScreensInOrder
    OBVIOUS
  <2>1. \A k \in DOMAIN shown : shown[k].n \in Nat
    <3>1. \A k \in DOMAIN shown : shown[k] \in Record
      BY DEF ScreenInv, TypeInv, TypeOK
    <3> QED BY <3>1, BoundsAssumption DEF Record
  <2>2. Len(hostSent) \in Nat /\ Len(fromHost) \in Nat
    BY DEF ScreenInv, TypeInv, TypeOK, HostTypeOK
  <2> QED BY <2>1, <2>2 DEF ScreenInv, Shows, ReadSoFar, IsShown, ScreensInOrder
<1> QED BY InitScreens, StepScreens, <1>1, PTL DEF Spec

-----------------------------------------------------------------------------
\* Close is used once, whoever calls it first, and always by the runner.
CloseInv == (closed <=> once) /\ ~panicked /\ (runner = "done" => closed)

LEMMA InitClose == Init => CloseInv
  BY DEF Init, CloseInv

LEMMA StepClose == CloseInv /\ [Next]_vars => CloseInv'
<1> SUFFICES ASSUME CloseInv, [Next]_vars PROVE CloseInv'
  OBVIOUS
<1>1. CASE ClientDisconnects \/ CloseSession
  BY <1>1 DEF CloseInv, ClientDisconnects, CloseSession, Close, goroutineVars
<1>2. CASE RunReturns \/ CloseHost
  BY <1>2 DEF CloseInv, RunReturns, CloseHost, sessionVars
<1>3. CASE TakeInput \/ Deliver \/ Up \/ Down \/ HostSends \/ HostReads \/ HostResets \/ UNCHANGED vars
  <2>1. UNCHANGED <<once, closed, panicked, runner>>
    BY <1>3 DEF TakeInput, Deliver, Up, ReadRecord, ReadFails, SendToTerminal, ReportUp, Down,
       SelectInput, SelectClosed, WriteRecord, ReportDown, HostSends, HostReads, HostResets,
       vars, sessionVars, goroutineVars
  <2> QED BY <2>1 DEF CloseInv
<1> QED BY <1>1, <1>2, <1>3 DEF Next, Runner, Ended

(***************************************************************************)
(* Two goroutines may call Session.Close, in either order or not at all,   *)
(* and the channel is closed once: no call panics.                         *)
(***************************************************************************)
THEOREM ClosedOnce == Spec => []NoDoubleClose
<1>1. CloseInv => NoDoubleClose
  BY DEF CloseInv, NoDoubleClose
<1> QED BY InitClose, StepClose, <1>1, PTL DEF Spec

-----------------------------------------------------------------------------
(***************************************************************************)
(* The errors in the channel are those of goroutines that have reported,   *)
(* so that there is room for the one that has not.                         *)
(***************************************************************************)
Reported == (IF up = "done" THEN 1 ELSE 0) + (IF down = "done" THEN 1 ELSE 0)
RoomInv == TypeInv /\ Len(errc) <= Reported

NeverBlocked == up = "report" \/ down = "report" => ErrorRoom

LEMMA InitRoom == Init => RoomInv
  BY InitType DEF Init, RoomInv, Reported

LEMMA StepRoom == RoomInv /\ [Next]_vars => RoomInv'
<1> SUFFICES ASSUME RoomInv, [Next]_vars PROVE RoomInv'
  OBVIOUS
<1>1. TypeInv' /\ errc \in Seq({"up", "down"})
  BY StepType DEF RoomInv, TypeInv, TypeOK, GoroutineTypeOK
<1>2. CASE ReportUp
  <2>1. up = "report" /\ up' = "done" /\ down' = down /\ Len(errc') = Len(errc) + 1
    BY <1>1, <1>2 DEF ReportUp
  <2> QED BY <1>1, <2>1 DEF RoomInv, Reported
<1>3. CASE ReportDown
  <2>1. down = "report" /\ down' = "done" /\ up' = up /\ Len(errc') = Len(errc) + 1
    BY <1>1, <1>3 DEF ReportDown
  <2> QED BY <1>1, <2>1 DEF RoomInv, Reported
<1>4. CASE RunReturns
  <2>1. up' = up /\ down' = down /\ Len(errc') = Len(errc) - 1
    BY <1>1, <1>4 DEF RunReturns
  <2> QED BY <1>1, <2>1 DEF RoomInv, Reported
<1>5. CASE ReadRecord \/ ReadFails \/ SendToTerminal
  <2>1. up # "done" /\ up' # "done" /\ UNCHANGED <<down, errc>>
    BY <1>5 DEF ReadRecord, ReadFails, SendToTerminal
  <2> QED BY <1>1, <2>1 DEF RoomInv, Reported
<1>6. CASE SelectInput \/ SelectClosed \/ WriteRecord
  <2>1. down # "done" /\ down' # "done" /\ UNCHANGED <<up, errc>>
    BY <1>6 DEF SelectInput, SelectClosed, WriteRecord
  <2> QED BY <1>1, <2>1 DEF RoomInv, Reported
<1>7. CASE TakeInput \/ Deliver \/ ClientDisconnects \/ CloseHost \/ CloseSession
           \/ HostSends \/ HostReads \/ HostResets \/ UNCHANGED vars
  <2>1. UNCHANGED <<up, down, errc>>
    BY <1>7 DEF TakeInput, Deliver, ClientDisconnects, CloseHost, CloseSession, HostSends,
       HostReads, HostResets, vars, goroutineVars
  <2> QED BY <1>1, <2>1 DEF RoomInv, Reported
<1> QED BY <1>2, <1>3, <1>4, <1>5, <1>6, <1>7 DEF Next, Up, Down, Runner, Ended

(***************************************************************************)
(* A goroutine that has an error to report never waits for Run to take it, *)
(* which Run does only once: the channel of two is large enough.           *)
(***************************************************************************)
THEOREM ReportsNeverBlock == Spec => []NeverBlocked
<1>1. RoomInv => NeverBlocked
  BY DEF RoomInv, TypeInv, TypeOK, GoroutineTypeOK, Reported, NeverBlocked, ErrorRoom
<1> QED BY InitRoom, StepRoom, <1>1, PTL DEF Spec

-----------------------------------------------------------------------------
\* When the last of the three goroutines ends the session is closed.
Relaying == ~(up = "done" /\ down = "done" /\ runner = "done")

LEMMA InitRelay == Init => R!Init
  BY DEF Init, R!Init

LEMMA StepRelay == TypeInv /\ CloseInv /\ CloseInv' /\ [Next]_vars => [R!Next]_(R!relayVars)
<1> SUFFICES ASSUME TypeInv, CloseInv, CloseInv', [Next]_vars PROVE [R!Next]_(R!relayVars)
  OBVIOUS
<1> USE DEF R!Next, R!relayVars
<1>1. CASE Deliver
  <2>1. CASE UNCHANGED <<inbound, accepted>>
    BY <1>1, <2>1 DEF Deliver, goroutineVars
  <2>2. CASE Len(inbound) < InboundCap /\ inbound' = Append(inbound, accepted + 1)
    <3>1. accepted + 1 \in Input
      BY <1>1, BoundsAssumption DEF Deliver, TypeInv, TypeOK, Held, Input
    <3> QED BY <1>1, <2>2, <3>1 DEF Deliver, goroutineVars, R!Deliver
  <2> QED BY <1>1, <2>1, <2>2 DEF Deliver
<1>2. CASE ClientDisconnects
  <2>1. closed'
    BY <1>2 DEF ClientDisconnects, Close, CloseInv
  <2> QED BY <1>2, <2>1 DEF ClientDisconnects, Close, CloseInv, goroutineVars, R!Close
<1>3. CASE SelectInput
  BY <1>3 DEF SelectInput, R!Forward
<1>4. CASE SendToTerminal
  <2>1. CASE up' = "read" /\ shown' = Append(shown, upRec)
    <3>1. Len(shown') = Len(shown) + 1
      BY <2>1 DEF TypeInv, TypeOK
    <3> QED BY <1>4, <2>1, <3>1 DEF SendToTerminal, sessionVars, R!Screen
  <2>2. CASE up' = "report" /\ UNCHANGED shown
    BY <1>4, <2>2 DEF SendToTerminal, sessionVars
  <2> QED BY <1>4, <2>1, <2>2 DEF SendToTerminal
<1>5. CASE ReportUp \/ ReportDown
  <2>1. UNCHANGED <<inbound, closed, runner, shown>> /\ Relaying
    BY <1>5 DEF ReportUp, ReportDown, sessionVars, Relaying
  <2>2. CASE Relaying'
    BY <2>1, <2>2 DEF Relaying
  <2>3. CASE ~Relaying'
    BY <2>1, <2>3 DEF Relaying, CloseInv, R!End
  <2> QED BY <2>2, <2>3
<1>6. CASE CloseSession
  <2>1. closed' = TRUE /\ UNCHANGED <<inbound, up, down, shown>> /\ Relaying
    BY <1>6 DEF CloseSession, Close, CloseInv, Relaying
  <2>2. CASE Relaying'
    BY <2>1, <2>2 DEF Relaying, R!Close
  <2>3. CASE ~Relaying'
    BY <2>1, <2>3 DEF Relaying, R!End
  <2> QED BY <2>2, <2>3
<1>7. CASE ReadRecord \/ ReadFails \/ SelectClosed \/ WriteRecord \/ RunReturns \/ CloseHost
  <2>1. UNCHANGED <<inbound, closed, shown>>
    BY <1>7 DEF ReadRecord, ReadFails, SelectClosed, WriteRecord, RunReturns, CloseHost, sessionVars
  <2>2. Relaying /\ Relaying'
    BY <1>7 DEF ReadRecord, ReadFails, SelectClosed, WriteRecord, RunReturns, CloseHost, Relaying
  <2> QED BY <2>1, <2>2 DEF Relaying
<1>8. CASE TakeInput \/ HostSends \/ HostReads \/ HostResets \/ UNCHANGED vars
  BY <1>8 DEF TakeInput, HostSends, HostReads, HostResets, vars, sessionVars, goroutineVars
<1> QED BY <1>1, <1>2, <1>3, <1>4, <1>5, <1>6, <1>7, <1>8 DEF Next, Up, Down, Runner, Ended

(***************************************************************************)
(* The safety part of KeepsRelay: what the goroutines do is what the main  *)
(* goroutine is promised.  The channel takes no more than its capacity,    *)
(* only a running bridge empties it, and the bridge is over only once the  *)
(* session is closed.                                                      *)
(***************************************************************************)
THEOREM ImplementsRelay == Spec => R!Spec
<1>1. TypeInv /\ CloseInv /\ [Next]_vars => TypeInv' /\ CloseInv'
  BY StepType, StepClose
<1>2. TypeInv /\ CloseInv /\ CloseInv' /\ [Next]_vars => [R!Next]_(R!relayVars)
  BY StepRelay
<1> QED BY InitType, InitClose, InitRelay, <1>1, <1>2, PTL DEF Spec, R!Spec

=============================================================================
