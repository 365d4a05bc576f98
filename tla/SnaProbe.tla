------------------------------ MODULE SnaProbe ------------------------------
(***************************************************************************)
(* The main goroutine of "snagateway sna-probe"                            *)
(* (src/cmd/snagateway/snaprobe.go): the host side of an SNA link.  It     *)
(* activates the PU and the LUs, then observes the link for ever,          *)
(* acknowledging what SNA Server requests and serving each LU as the       *)
(* command line says: the menu, the echo test, a text file, a bridge to a  *)
(* TN3270 host over the SSCP-LU session, or BIND, SDT and a bridge.        *)
(*                                                                         *)
(* Each bridge (its two goroutines) is a queue with a reader: BridgeNext.  *)
(* SNA Server and the link are module SnaServer.                           *)
(***************************************************************************)
EXTENDS SnaServer, FiniteSets

CONSTANTS
    LuList,        \* -lus: the LUs to activate, in this order
    CommandLines,  \* sets of mode flags the program may be started with
    InboundCap,    \* capacity of a session's inbound channel
    SweepLen,      \* how many session addresses a BIND sweep tries
    MaxScreens     \* bound: host screens relayed on one bridge

ModeFlag == {"menu", "echo-test", "show-file", "uss-test", "bind", "bind-sweep", "target"}

ASSUME LuListAssumption == LuList \in Seq(LU)
ASSUME CommandLinesAssumption == CommandLines \subseteq SUBSET ModeFlag
ASSUME InboundCapAssumption == InboundCap \in Nat \ {0}
ASSUME SweepLenAssumption == SweepLen \in Nat \ {0}
ASSUME MaxScreensAssumption == MaxScreens \in 0 .. SnfMod - 1

VARIABLES
    flags,      \* the mode flags of the command line, fixed for a behaviour
    pc,         \* where the main goroutine is
    idx,        \* index in LuList of the LU being activated
    snf,        \* the goroutine's outbound sequence number
    bound,      \* a BIND has been tried and not given up
    cur,        \* the LU and attachment of the request being served
    sweepLeft,  \* addresses the running BIND sweep has not tried
    session,    \* index of the bridged session in sessions, 0 for nil
    sessions,   \* every LU2Session created for a bridge
    menu,       \* attachment each LU's menu session was made in, 0 for none
    fileSnf,    \* sequence number of each LU's -show-file session
    unserved,   \* history: prompts of each LU read in place of a response
    unanswered  \* history: LUs a request of which was read and not acknowledged

loopVars == <<pc, idx, snf, bound, cur, sweepLeft>>
probeVars == <<loopVars, session, sessions, menu, fileSnf>>
historyVars == <<unserved, unanswered>>
vars == <<flags, serverVars, linkVars, probeVars, historyVars>>

Snf == 0 .. SnfMod - 1

\* Mutant of Inc: the number does not wrap at 16 bits.
IncUnbounded(n) == n + 1

Inc(n) == (n + 1) % SnfMod

Terminal == [lu : LU, att : Nat]
NoTerminal == [lu |-> PU, att |-> 0]

LU2Session ==
    [lu : LU, att : Nat, sscp : BOOLEAN, snf : Snf, closed : BOOLEAN,
     relaying : BOOLEAN, inbound : Seq(Terminal)]

\* NewLUSession and NewSSCPLUSession, with the bridge started on it.
NewSession(lu, att, sscp) ==
    [lu |-> lu, att |-> att, sscp |-> sscp, snf |-> 0, closed |-> FALSE,
     relaying |-> TRUE, inbound |-> <<>>]

Waiting == {"actpu_wait", "actlu_wait", "bind_wait", "sweep_wait", "sdt_wait"}

Location == Waiting \cup {"start", "actlu", "observe", "deliver", "exited"}

TypeOK ==
    /\ ServerTypeOK
    /\ flags \in CommandLines
    /\ pc \in Location
    /\ idx \in Nat \ {0}
    /\ snf \in Snf
    /\ bound \in BOOLEAN
    /\ cur \in Terminal \cup {NoTerminal}
    /\ sweepLeft \in Nat
    /\ sessions \in Seq(LU2Session)
    /\ session \in 0 .. Len(sessions)
    /\ menu \in [LU -> Nat]
    /\ fileSnf \in [LU -> Snf]
    /\ unserved \in [LU -> Nat]
    /\ unanswered \subseteq LU

Init ==
    /\ ServerInit
    /\ flags \in CommandLines
    /\ pc = "start"
    /\ idx = 1
    /\ snf = 1
    /\ bound = FALSE
    /\ cur = NoTerminal
    /\ sweepLeft = 0
    /\ session = 0
    /\ sessions = <<>>
    /\ menu = [lu \in LU |-> 0]
    /\ fileSnf = [lu \in LU |-> 0]
    /\ unserved = [lu \in LU |-> 0]
    /\ unanswered = {}

-----------------------------------------------------------------------------
(* Reading and writing the link.                                           *)

\* conn.Write on a link that is gone fails; the caller logs it and goes on.
Sent(pius, piu) == IF link = "up" THEN Append(pius, piu) ELSE pius

Piu(type, lu, n) == [type |-> type, lu |-> lu, snf |-> n]

\* BuildPositiveResponse: the addresses swapped, the request's number kept.
PositiveRsp(p) == Piu("RSP", p.lu, 0)

\* One call of recv returns the next PIU, whatever it is ...
Recv ==
    /\ toGw # <<>>
    /\ toGw' = Tail(toGw)
    /\ UNCHANGED <<link, serverVars>>

\* ... or gives up: the wait is over, or the link is gone.
RecvTimeout ==
    /\ toGw = <<>>
    /\ UNCHANGED <<toGw, link, serverVars>>

IsRequest(p) == p.rri = "request"
Positive(p) == p.rri = "response" /\ p.pos

(***************************************************************************)
(* What becomes of a request that one of the waits reads in place of the   *)
(* response it waits for.  None serves it, and only recvAck acknowledges   *)
(* it.  Nothing the program does depends on these two variables.           *)
(***************************************************************************)
PromptType == {"NOTIFY03", "LINE"}

Misreads == pc \in Waiting /\ toGw # <<>> /\ toGw' = Tail(toGw) /\ IsRequest(Head(toGw))

History ==
    /\ unserved' = IF Misreads /\ Head(toGw).type \in PromptType
                   THEN [unserved EXCEPT ![Head(toGw).lu] = @ + 1] ELSE unserved
    /\ unanswered' = IF Misreads /\ pc # "actlu_wait"
                     THEN unanswered \cup {Head(toGw).lu} ELSE unanswered

-----------------------------------------------------------------------------
(* Activation of the PU and of the LUs.                                    *)

SendActPU ==
    /\ pc = "start"
    /\ toSrv' = Sent(toSrv, Piu("ACTPU", PU, snf))
    /\ pc' = "actpu_wait"
    /\ UNCHANGED <<toGw, link, serverVars, idx, snf, bound, cur, sweepLeft,
                   session, sessions, menu, fileSnf>>

RecvActPU ==
    /\ pc = "actpu_wait"
    /\ Recv
    /\ pc' = "actlu"
    /\ UNCHANGED <<toSrv, idx, snf, bound, cur, sweepLeft, session, sessions, menu, fileSnf>>

\* The process returns from cmdSNAProbe: its deferred Close drops the link.
Exit ==
    /\ pc' = "exited"
    /\ link' = "down"
    /\ UNCHANGED <<toGw, toSrv, serverVars, idx, snf, bound, cur, sweepLeft,
                   session, sessions, menu, fileSnf>>

ActPUTimeout ==
    /\ pc = "actpu_wait"
    /\ toGw = <<>>
    /\ Exit

SendActLU ==
    /\ pc = "actlu"
    /\ idx <= Len(LuList)
    /\ snf' = Inc(snf)
    /\ toSrv' = Sent(toSrv, Piu("ACTLU", LuList[idx], Inc(snf)))
    /\ pc' = "actlu_wait"
    /\ UNCHANGED <<toGw, link, serverVars, idx, bound, cur, sweepLeft,
                   session, sessions, menu, fileSnf>>

ActivationDone ==
    /\ pc = "actlu"
    /\ idx > Len(LuList)
    /\ pc' = "observe"
    /\ UNCHANGED <<linkVars, serverVars, idx, snf, bound, cur, sweepLeft,
                   session, sessions, menu, fileSnf>>

\* Mutant of RecvAck: the request is not acknowledged, as before it was written.
RecvAckDrops ==
    /\ pc = "actlu_wait"
    /\ Recv
    /\ pc' = "actlu"
    /\ idx' = idx + 1
    /\ UNCHANGED <<toSrv, snf, bound, cur, sweepLeft, session, sessions, menu, fileSnf>>

\* recvAck: a request read in place of the ACTLU response is acknowledged
\* and otherwise ignored.
RecvAck ==
    /\ pc = "actlu_wait"
    /\ Recv
    /\ toSrv' = IF IsRequest(Head(toGw)) THEN Sent(toSrv, PositiveRsp(Head(toGw))) ELSE toSrv
    /\ pc' = "actlu"
    /\ idx' = idx + 1
    /\ UNCHANGED <<snf, bound, cur, sweepLeft, session, sessions, menu, fileSnf>>

AckTimeout ==
    /\ pc = "actlu_wait"
    /\ RecvTimeout
    /\ pc' = "actlu"
    /\ idx' = idx + 1
    /\ UNCHANGED <<toSrv, snf, bound, cur, sweepLeft, session, sessions, menu, fileSnf>>

-----------------------------------------------------------------------------
(* The observe loop.  Every request is acknowledged first; the action that *)
(* serves it is the first one in the order of the code whose test holds.   *)

Set(flag) == flag \in flags

Observe(type) ==
    /\ pc = "observe"
    /\ Recv
    /\ IsRequest(Head(toGw))
    /\ Head(toGw).type = type

Acked == Sent(toSrv, PositiveRsp(Head(toGw)))

\* Mutant of SendData: the screen is not written.
SendDataNever(n) == toSrv' = Acked

SendData(n) == toSrv' = Sent(Acked, Piu("DATA", Head(toGw).lu, n))

Discard ==
    /\ pc = "observe"
    /\ Recv
    /\ ~IsRequest(Head(toGw))
    /\ UNCHANGED <<toSrv, probeVars>>

\* Mutants of TearDown: session.Close, or session = nil, is missing.
TearDownUnclosed ==
    /\ Observe("NOTIFY01")
    /\ session # 0
    /\ toSrv' = Acked
    /\ session' = 0
    /\ UNCHANGED <<loopVars, sessions, menu, fileSnf>>

TearDownKept ==
    /\ Observe("NOTIFY01")
    /\ session # 0
    /\ toSrv' = Acked
    /\ sessions' = [sessions EXCEPT ![session].closed = TRUE]
    /\ UNCHANGED <<loopVars, session, menu, fileSnf>>

\* The client disconnected: close the bridge so that a reconnect starts anew.
TearDown ==
    /\ Observe("NOTIFY01")
    /\ session # 0
    /\ toSrv' = Acked
    /\ sessions' = [sessions EXCEPT ![session].closed = TRUE]
    /\ session' = 0
    /\ UNCHANGED <<loopVars, menu, fileSnf>>

MenuIdle ==
    /\ Set("menu")
    /\ Observe("NOTIFY01")
    /\ session = 0
    /\ toSrv' = Acked
    /\ menu' = [menu EXCEPT ![Head(toGw).lu] = 0]
    /\ UNCHANGED <<loopVars, session, sessions, fileSnf>>

\* Mutant of MenuReady: one session for all LUs instead of one for each.
MenuReadyShared ==
    /\ Set("menu")
    /\ Observe("NOTIFY03")
    /\ menu' = [lu \in LU |-> Head(toGw).att]
    /\ snf' = Inc(snf)
    /\ SendData(Inc(snf))
    /\ UNCHANGED <<pc, idx, bound, cur, sweepLeft, session, sessions, fileSnf>>

MenuReady ==
    /\ Set("menu")
    /\ Observe("NOTIFY03")
    /\ menu' = [menu EXCEPT ![Head(toGw).lu] = Head(toGw).att]
    /\ snf' = Inc(snf)
    /\ SendData(Inc(snf))
    /\ UNCHANGED <<pc, idx, bound, cur, sweepLeft, session, sessions, fileSnf>>

\* Mutant of MenuLine: no greeting for a new session.
MenuLineSilent ==
    /\ Set("menu")
    /\ Observe("LINE")
    /\ menu' = [menu EXCEPT ![Head(toGw).lu] = IF @ = 0 THEN Head(toGw).att ELSE @]
    /\ IF menu[Head(toGw).lu] = 0
       THEN toSrv' = Acked /\ UNCHANGED snf
       ELSE snf' = Inc(snf) /\ SendData(Inc(snf))
    /\ UNCHANGED <<pc, idx, bound, cur, sweepLeft, session, sessions, fileSnf>>

\* A session that is not there starts again at the login screen.
MenuLine ==
    /\ Set("menu")
    /\ Observe("LINE")
    /\ menu' = [menu EXCEPT ![Head(toGw).lu] = IF @ = 0 THEN Head(toGw).att ELSE @]
    /\ snf' = Inc(snf)
    /\ SendData(Inc(snf))
    /\ UNCHANGED <<pc, idx, bound, cur, sweepLeft, session, sessions, fileSnf>>

EchoReply ==
    /\ Set("echo-test") /\ ~Set("menu")
    /\ Observe("NOTIFY03") \/ Observe("LINE")
    /\ snf' = Inc(snf)
    /\ SendData(Inc(snf))
    /\ UNCHANGED <<pc, idx, bound, cur, sweepLeft, session, sessions, menu, fileSnf>>

\* Modes in which the loop goes on to the tests below the echo test.
HostMode == ~Set("menu") /\ ~Set("echo-test")

\* Mutant of ShowFile: a new session, numbered from 1, for every attach.
ShowFileAnew ==
    /\ Set("show-file") /\ HostMode
    /\ Observe("NOTIFY03")
    /\ SendData(1) \/ toSrv' = Acked
    /\ UNCHANGED probeVars

\* The file is read again on every attach; when that fails nothing is sent.
ShowFile ==
    /\ Set("show-file") /\ HostMode
    /\ Observe("NOTIFY03")
    /\ \/ /\ fileSnf' = [fileSnf EXCEPT ![Head(toGw).lu] = Inc(@)]
          /\ SendData(Inc(fileSnf[Head(toGw).lu]))
       \/ /\ toSrv' = Acked
          /\ UNCHANGED fileSnf
    /\ UNCHANGED <<loopVars, session, sessions, menu>>

\* startBridge, startSSCPLUBridge: dial the host and start the bridge, or nil.
StartBridge(lu, att, sscp) ==
    \/ /\ sessions' = Append(sessions, NewSession(lu, att, sscp))
       /\ session' = Len(sessions) + 1
    \/ /\ session' = 0
       /\ UNCHANGED sessions

UssAttach == Set("uss-test") /\ ~Set("show-file") /\ HostMode /\ session = 0

UssBridge ==
    /\ UssAttach /\ Set("target")
    /\ Observe("NOTIFY03")
    /\ toSrv' = Acked
    /\ StartBridge(Head(toGw).lu, Head(toGw).att, TRUE)
    /\ UNCHANGED <<loopVars, menu, fileSnf>>

UssScreen ==
    /\ UssAttach /\ ~Set("target")
    /\ Observe("NOTIFY03")
    /\ snf' = Inc(snf)
    /\ SendData(Inc(snf))
    /\ UNCHANGED <<pc, idx, bound, cur, sweepLeft, session, sessions, menu, fileSnf>>

\* Bridged: the line is the terminal's input.  Deliver may block.
DeliverInput ==
    /\ HostMode /\ session # 0
    /\ Observe("LINE")
    /\ toSrv' = Acked
    /\ cur' = [lu |-> Head(toGw).lu, att |-> Head(toGw).att]
    /\ pc' = "deliver"
    /\ UNCHANGED <<idx, snf, bound, sweepLeft, session, sessions, menu, fileSnf>>

BindMode == Set("bind") /\ ~Set("uss-test") /\ ~Set("show-file") /\ HostMode

\* A logon drives BIND, or the first BIND of a sweep.
SendBind ==
    /\ BindMode /\ session = 0 /\ ~bound
    /\ Observe("LINE")
    /\ bound' = TRUE
    /\ cur' = [lu |-> Head(toGw).lu, att |-> Head(toGw).att]
    /\ snf' = Inc(snf)
    /\ toSrv' = Sent(Acked, Piu("BIND", Head(toGw).lu, Inc(snf)))
    /\ IF Set("bind-sweep")
       THEN pc' = "sweep_wait" /\ sweepLeft' = SweepLen - 1
       ELSE pc' = "bind_wait" /\ UNCHANGED sweepLeft
    /\ UNCHANGED <<idx, session, sessions, menu, fileSnf>>

Ignored(type) ==
    CASE type = "NOTIFY01" -> session = 0 /\ ~Set("menu")
      [] type = "NOTIFY03" -> /\ HostMode /\ ~Set("show-file")
                              /\ Set("uss-test") => session # 0
      [] type = "LINE"     -> /\ HostMode /\ session = 0
                              /\ BindMode => bound
      [] type = "UNBIND"   -> TRUE

Ignore ==
    /\ \E type \in RequestType : Observe(type) /\ Ignored(type)
    /\ toSrv' = Acked
    /\ UNCHANGED probeVars

\* conn.Read fails: the link is gone and everything it brought has been read.
ReadEnds ==
    /\ pc = "observe"
    /\ link = "down"
    /\ toGw = <<>>
    /\ Exit

-----------------------------------------------------------------------------
(* The steps that wait inside the observe loop.                            *)

\* Mutant of Deliver: it does not watch Closed and waits for room for ever.
DeliverUnwatched ==
    /\ pc = "deliver"
    /\ IF Len(sessions[session].inbound) < InboundCap
       THEN /\ sessions' = [sessions EXCEPT ![session].inbound = Append(@, cur)]
            /\ pc' = "observe"
       ELSE UNCHANGED <<sessions, pc>>
    /\ UNCHANGED <<linkVars, serverVars, idx, snf, bound, cur, sweepLeft,
                   session, menu, fileSnf>>

\* Mutant of Deliver: it does not look for room in the channel.
DeliverOverfull ==
    /\ pc = "deliver"
    /\ sessions' = [sessions EXCEPT ![session].inbound = Append(@, cur)]
    /\ pc' = "observe"
    /\ UNCHANGED <<linkVars, serverVars, idx, snf, bound, cur, sweepLeft,
                   session, menu, fileSnf>>

\* LU2Session.Deliver: room in the channel, or the session is closed.
Deliver ==
    /\ pc = "deliver"
    /\ \/ /\ Len(sessions[session].inbound) < InboundCap
          /\ sessions' = [sessions EXCEPT ![session].inbound = Append(@, cur)]
       \/ /\ sessions[session].closed
          /\ UNCHANGED sessions
    /\ pc' = "observe"
    /\ UNCHANGED <<linkVars, serverVars, idx, snf, bound, cur, sweepLeft,
                   session, menu, fileSnf>>

\* Mutant of RecvBindRsp: the answer is not looked at.
RecvBindAny ==
    /\ pc = "bind_wait"
    /\ Recv
    /\ snf' = Inc(snf)
    /\ toSrv' = Sent(toSrv, Piu("SDT", cur.lu, Inc(snf)))
    /\ pc' = "sdt_wait"
    /\ UNCHANGED <<idx, bound, cur, sweepLeft, session, sessions, menu, fileSnf>>

\* Whatever PIU comes is the answer to BIND, and none of them is acknowledged.
RecvBindRsp ==
    /\ pc = "bind_wait"
    /\ Recv
    /\ IF Positive(Head(toGw))
       THEN /\ snf' = Inc(snf)
            /\ toSrv' = Sent(toSrv, Piu("SDT", cur.lu, Inc(snf)))
            /\ pc' = "sdt_wait"
            /\ UNCHANGED bound
       ELSE /\ bound' = FALSE
            /\ pc' = "observe"
            /\ UNCHANGED <<toSrv, snf>>
    /\ UNCHANGED <<idx, cur, sweepLeft, session, sessions, menu, fileSnf>>

BindTimeout ==
    /\ pc = "bind_wait"
    /\ RecvTimeout
    /\ bound' = FALSE
    /\ pc' = "observe"
    /\ UNCHANGED <<toSrv, idx, snf, cur, sweepLeft, session, sessions, menu, fileSnf>>

\* The result of the wait for SDT is not looked at.
SdtDone ==
    /\ pc = "sdt_wait"
    /\ Recv \/ RecvTimeout
    /\ IF Set("target")
       THEN StartBridge(cur.lu, cur.att, FALSE)
       ELSE UNCHANGED <<session, sessions>>
    /\ pc' = "observe"
    /\ UNCHANGED <<toSrv, idx, snf, bound, cur, sweepLeft, menu, fileSnf>>

\* sweepBind: stop at a positive answer, else try the next address.
SweepAccepted ==
    /\ pc = "sweep_wait"
    /\ Recv
    /\ Positive(Head(toGw))
    /\ pc' = "observe"
    /\ UNCHANGED <<toSrv, idx, snf, bound, cur, sweepLeft, session, sessions, menu, fileSnf>>

\* Mutant of SweepNext: no deadline, only an answer moves the sweep on.
SweepWaitsOn ==
    /\ pc = "sweep_wait"
    /\ \/ /\ RecvTimeout
          /\ UNCHANGED <<toSrv, probeVars>>
       \/ /\ Recv /\ ~Positive(Head(toGw))
          /\ IF sweepLeft = 0
             THEN /\ pc' = "observe"
                  /\ UNCHANGED <<toSrv, snf, sweepLeft>>
             ELSE /\ snf' = Inc(snf)
                  /\ toSrv' = Sent(toSrv, Piu("BIND", cur.lu, Inc(snf)))
                  /\ sweepLeft' = sweepLeft - 1
                  /\ UNCHANGED pc
          /\ UNCHANGED <<idx, bound, cur, session, sessions, menu, fileSnf>>

SweepNext ==
    /\ pc = "sweep_wait"
    /\ \/ Recv /\ ~Positive(Head(toGw))
       \/ RecvTimeout
    /\ IF sweepLeft = 0
       THEN /\ pc' = "observe"
            /\ UNCHANGED <<toSrv, snf, sweepLeft>>
       ELSE /\ snf' = Inc(snf)
            /\ toSrv' = Sent(toSrv, Piu("BIND", cur.lu, Inc(snf)))
            /\ sweepLeft' = sweepLeft - 1
            /\ UNCHANGED pc
    /\ UNCHANGED <<idx, bound, cur, session, sessions, menu, fileSnf>>

-----------------------------------------------------------------------------
(* The goroutines of the bridges, seen from the main goroutine.            *)

Bridge(i) ==
    /\ pc # "exited"
    /\ i \in DOMAIN sessions
    /\ sessions[i].relaying
    /\ UNCHANGED <<loopVars, session, menu, fileSnf, serverVars, toGw, link>>

\* Terminal to host: the next input is taken from the channel and written.
BridgeForward(i) ==
    /\ Bridge(i)
    /\ sessions[i].inbound # <<>>
    /\ sessions' = [sessions EXCEPT ![i].inbound = Tail(@)]
    /\ UNCHANGED toSrv

\* Host to terminal: a screen is sent, by a closed session too.
BridgeScreen(i) ==
    /\ Bridge(i)
    /\ link = "up"
    /\ sessions[i].snf < MaxScreens
    /\ sessions' = [sessions EXCEPT ![i].snf = Inc(@)]
    /\ toSrv' = Append(toSrv, Piu("DATA", sessions[i].lu, Inc(sessions[i].snf)))

\* Either direction has ended: Run returns, and the goroutine that called
\* it closes the session, as the main goroutine may have done already.
BridgeClose(i) ==
    /\ Bridge(i)
    /\ sessions' = [sessions EXCEPT ![i].closed = TRUE]
    /\ UNCHANGED toSrv

\* The last goroutine of the bridge ends; the session is closed by then.
BridgeEnd(i) ==
    /\ Bridge(i)
    /\ sessions' = [sessions EXCEPT ![i].relaying = FALSE, ![i].closed = TRUE]
    /\ UNCHANGED toSrv

Activation ==
    SendActPU \/ RecvActPU \/ ActPUTimeout \/ SendActLU \/ ActivationDone
    \/ RecvAck \/ AckTimeout

ObserveLoop ==
    \/ Discard \/ TearDown
    \/ MenuIdle \/ MenuReady \/ MenuLine
    \/ EchoReply
    \/ ShowFile
    \/ UssBridge \/ UssScreen
    \/ DeliverInput
    \/ SendBind
    \/ Ignore
    \/ ReadEnds

InnerWait ==
    Deliver \/ RecvBindRsp \/ BindTimeout \/ SdtDone \/ SweepAccepted \/ SweepNext

ProbeNext == Activation \/ ObserveLoop \/ InnerWait

BridgeNext == \E i \in DOMAIN sessions :
    BridgeForward(i) \/ BridgeScreen(i) \/ BridgeClose(i) \/ BridgeEnd(i)

Finished == pc = "exited" /\ UNCHANGED vars

Next ==
    /\ \/ ProbeNext
       \/ BridgeNext
       \/ ServerNext /\ UNCHANGED probeVars
       \/ Finished
    /\ UNCHANGED flags
    /\ History

Spec == Init /\ [][Next]_vars

(***************************************************************************)
(* Fairness.  The main goroutine is scheduled and its waits time out; SNA  *)
(* Server reads what the link brings it; a bridge's host reads what it is  *)
(* sent.  Nothing obliges SNA Server to request or the link to fail.       *)
(***************************************************************************)
FairSpec ==
    /\ Spec
    /\ WF_vars(ProbeNext /\ UNCHANGED flags /\ History)
    /\ WF_vars(ServerReceives /\ UNCHANGED <<probeVars, flags>> /\ History)
    /\ \A i \in 1 .. MaxRequests : WF_vars(BridgeForward(i) /\ UNCHANGED flags /\ History)

-----------------------------------------------------------------------------
(* Properties.                                                             *)

Asks(p, lu) == IsRequest(p) /\ p.lu = lu
Answers(p, lu) == p.type = "RSP" /\ p.lu = lu

\* The LU waits for a response iff one request of its own is in gw or one
\* response to it is in srv; there is never a second one.
AnsweredOnce(lu, gw, srv, waits) ==
    /\ waits <=> \/ \E i \in DOMAIN gw : Asks(gw[i], lu)
                 \/ \E j \in DOMAIN srv : Answers(srv[j], lu)
    /\ \A i \in DOMAIN gw, j \in DOMAIN srv : ~(Asks(gw[i], lu) /\ Answers(srv[j], lu))
    /\ \A i, k \in DOMAIN gw : Asks(gw[i], lu) /\ Asks(gw[k], lu) => i = k
    /\ \A j, k \in DOMAIN srv : Answers(srv[j], lu) /\ Answers(srv[k], lu) => j = k

(***************************************************************************)
(* No LU is ever wedged: as long as the link is up, an LU that waits for a *)
(* response has exactly one request the gateway has still to read or one   *)
(* response under way, and an LU that waits for nothing has neither.  A    *)
(* request read and not acknowledged (by recvAck, by the observe loop) is  *)
(* lost for good, and one acknowledged twice answers a later one.          *)
(***************************************************************************)
EveryRequestAnswered ==
    link = "up" => \A lu \in LU : AnsweredOnce(lu, toGw, toSrv, owed[lu] # "none")

Prompts(lu) == {i \in DOMAIN toGw : Asks(toGw[i], lu) /\ toGw[i].type \in PromptType}
Screens(lu) == {j \in DOMAIN toSrv : toSrv[j].type = "DATA" /\ toSrv[j].lu = lu}

(***************************************************************************)
(* In the interactive modes every attach and every typed line is answered  *)
(* by exactly one screen ("then always respond - which clears that lock",  *)
(* snaprobe.go), except those that are read in the activation, in place of *)
(* the response to another LU's ACTLU, and get none: what a terminal still *)
(* waits for is what it has asked and not been read, the screens on their  *)
(* way, and these.                                                         *)
(***************************************************************************)
Interactive == Set("menu") \/ Set("echo-test")

OneScreenPerPrompt ==
    Interactive /\ link = "up" =>
        \A lu \in LU :
            due[lu] = Cardinality(Prompts(lu)) + Cardinality(Screens(lu)) + unserved[lu]

(***************************************************************************)
(* An LU sees the sequence numbers of its data grow, across its terminals' *)
(* reconnects as well: one counter of the main goroutine numbers the       *)
(* screens of every LU, -show-file keeps one session per LU for that.      *)
(***************************************************************************)
SnfOrder ==
    \A lu \in LU : \A j \in Screens(lu) :
        /\ toSrv[j].snf > lastSnf[lu]
        /\ \A k \in Screens(lu) : j < k => toSrv[j].snf < toSrv[k].snf

(***************************************************************************)
(* A terminal never types into the menu session another one logged on to:  *)
(* when one of its lines arrives, its LU has no menu session or the one    *)
(* that this attachment began.                                             *)
(***************************************************************************)
MenuOwner ==
    link = "up" =>
        \A i \in DOMAIN toGw :
            IsRequest(toGw[i]) /\ toGw[i].type = "LINE" =>
                menu[toGw[i].lu] \in {0, toGw[i].att}

(***************************************************************************)
(* One bridge at a time: a session that is not closed is the one the main  *)
(* goroutine knows of, so none is left relaying to a host unsupervised.    *)
(***************************************************************************)
OneOpenSession ==
    \A i \in DOMAIN sessions : ~sessions[i].closed => i = session

(***************************************************************************)
(* What a bridge forwards to its host was typed at the terminal the bridge *)
(* was started for, and by the user who was there then.                    *)
(***************************************************************************)
OwnInput ==
    \A i \in DOMAIN sessions : \A k \in DOMAIN sessions[i].inbound :
        sessions[i].inbound[k] = [lu |-> sessions[i].lu, att |-> sessions[i].att]

(***************************************************************************)
(* Start Data Traffic is sent to an LU only after it has accepted BIND     *)
(* ("sent after +RSP(BIND)", activation.go).                               *)
(***************************************************************************)
SdtAfterBind ==
    \A j \in DOMAIN toSrv : toSrv[j].type = "SDT" => lulu[toSrv[j].lu] # "none"

(***************************************************************************)
(* A request is answered in the end, or the link is lost, or it was read   *)
(* in place of the response to BIND or SDT or to a BIND of the sweep       *)
(* (snaprobe.go:334), which leaves its LU waiting for ever.  A gateway     *)
(* that is blocked in Deliver, or that waits and gets nothing, comes back  *)
(* to it.                                                                  *)
(***************************************************************************)
RequestServed ==
    \A lu \in LU :
        owed[lu] # "none" ~> owed[lu] = "none" \/ link = "down" \/ lu \in unanswered

(***************************************************************************)
(* The main goroutine always comes back to the loop that acknowledges.     *)
(***************************************************************************)
ReturnsToObserve ==
    pc \in Waiting \cup {"deliver"} ~> pc \in {"observe", "exited"}

(***************************************************************************)
(* After a bridge was torn down, the logon of the next user of its LU      *)
(* drives a new BIND ("so a reconnect starts a fresh session").            *)
(***************************************************************************)
NextLogon(lu) ==
    \E i \in DOMAIN toGw : /\ Asks(toGw[i], lu)
                           /\ toGw[i].type = "LINE"
                           /\ toGw[i].att > sessions[Len(sessions)].att

ReconnectBinds ==
    \A lu \in LU :
        (pc = "observe" /\ session = 0 /\ sessions # <<>> /\ NextLogon(lu))
            ~> (pc = "bind_wait" \/ link = "down")

(***************************************************************************)
(* The main goroutine and its bridges do with every session only what the  *)
(* contract between them allows: deliver up to the channel's capacity,     *)
(* close, and never reopen or refill what has ended.                       *)
(***************************************************************************)
Created(i) == i \in DOMAIN sessions

Contract(i) == INSTANCE Relay WITH
    Input    <- [lu : LU, att : 0 .. MaxRequests + 1],
    inbound  <- IF Created(i) THEN sessions[i].inbound ELSE <<>>,
    closed   <- Created(i) /\ sessions[i].closed,
    relaying <- Created(i) => sessions[i].relaying,
    screens  <- IF Created(i) THEN sessions[i].snf ELSE 0

UsesRelay ==
    [][\A i \in 1 .. MaxRequests :
           Contract(i)!Next \/ UNCHANGED Contract(i)!relayVars]_vars

=============================================================================
