------------------------------- MODULE Bridge -------------------------------
(***************************************************************************)
(* One bridge between an LU2 session and a TN3270 host: Bridge.Run of      *)
(* internal/bridge/bridge.go with its two goroutines, the goroutine of     *)
(* startBridge and startSSCPLUBridge that calls it, the LU2Session of      *)
(* internal/sna/lusession.go between them and the main goroutine, and the  *)
(* host at the other end of the TCP connection.                            *)
(*                                                                         *)
(* Records are numbered in the order in which they are made: only their    *)
(* order and whether a host record is empty matters here.                  *)
(***************************************************************************)
EXTENDS Naturals, Sequences

CONSTANTS
    InboundCap,  \* capacity of the inbound channel (16 in the code)
    SocketCap,   \* records the host's socket takes before a write blocks
    MaxInputs,   \* bound: inputs the terminal's user types
    MaxRecords   \* bound: records the host sends

ASSUME InboundCapAssumption == InboundCap \in Nat \ {0}
ASSUME SocketCapAssumption == SocketCap \in Nat \ {0}
ASSUME BoundsAssumption == MaxInputs \in Nat /\ MaxRecords \in Nat

VARIABLES
    main,        \* the main goroutine: "idle", in "deliver", or has "left"
    inbound,     \* LU2Session.inbound
    once,        \* LU2Session.once has been used
    closed,      \* LU2Session.closed is closed
    panicked,    \* a closed channel was closed again
    up,          \* the goroutine host -> terminal
    upRec,       \* the record it has read and not sent
    down,        \* the goroutine terminal -> host
    downRec,     \* the input it has taken and not written
    runner,      \* the goroutine that calls Run
    errc,        \* the errors reported to Run and not received
    conn,        \* the TCP connection: "open", "reset" by the host, "closed" here
    fromHost,    \* records the host has sent and nobody has read
    toHost,      \* inputs written that the host has not read
    accepted,    \* how many inputs Deliver has put into the channel
    hostGot,     \* inputs the host has read
    hostSent,    \* every record the host has sent
    shown        \* records sent to the terminal

sessionVars == <<inbound, once, closed, panicked>>
hostVars == <<conn, fromHost, toHost, hostGot, hostSent>>
goroutineVars == <<up, upRec, down, downRec, runner, errc>>
vars == <<main, sessionVars, goroutineVars, hostVars, accepted, shown>>

Input == 1 .. MaxInputs
Record == [n : 1 .. MaxRecords, empty : BOOLEAN]
NoInput == 0
NoRecord == [n |-> 0, empty |-> TRUE]

SessionTypeOK ==
    /\ inbound \in Seq(Input) /\ Len(inbound) <= InboundCap
    /\ once \in BOOLEAN /\ closed \in BOOLEAN /\ panicked \in BOOLEAN

GoroutineTypeOK ==
    /\ up \in {"read", "send", "report", "done"}
    /\ upRec \in Record \cup {NoRecord}
    /\ down \in {"select", "write", "report", "done"}
    /\ downRec \in Input \cup {NoInput}
    /\ runner \in {"run", "close_host", "close_session", "done"}
    /\ errc \in Seq({"up", "down"})

HostTypeOK ==
    /\ conn \in {"open", "reset", "closed"}
    /\ fromHost \in Seq(Record) /\ hostSent \in Seq(Record)
    /\ toHost \in Seq(Input) /\ hostGot \in Seq(Input)

TypeOK ==
    /\ main \in {"idle", "deliver", "left"}
    /\ SessionTypeOK /\ GoroutineTypeOK /\ HostTypeOK
    /\ accepted \in 0 .. MaxInputs
    /\ shown \in Seq(Record)

Init ==
    /\ main = "idle"
    /\ inbound = <<>> /\ once = FALSE /\ closed = FALSE /\ panicked = FALSE
    /\ up = "read" /\ upRec = NoRecord
    /\ down = "select" /\ downRec = NoInput
    /\ runner = "run" /\ errc = <<>>
    /\ conn = "open" /\ fromHost = <<>> /\ toHost = <<>>
    /\ accepted = 0 /\ hostGot = <<>> /\ hostSent = <<>> /\ shown = <<>>

-----------------------------------------------------------------------------
(* The session.                                                            *)

\* Mutant of Close: no sync.Once around close(s.closed).
CloseAnyway ==
    /\ closed' = TRUE
    /\ panicked' = (panicked \/ closed)
    /\ UNCHANGED <<inbound, once>>

\* Close may be called by both the main goroutine and the runner.
Close ==
    /\ once' = TRUE
    /\ IF once
       THEN UNCHANGED <<closed, panicked>>
       ELSE closed' = TRUE /\ panicked' = (panicked \/ closed)
    /\ UNCHANGED inbound

-----------------------------------------------------------------------------
(* The main goroutine: it delivers what the user types, one input at a     *)
(* time, and closes the session and forgets it when the user disconnects.  *)

TakeInput ==
    /\ main = "idle"
    /\ accepted < MaxInputs
    /\ main' = "deliver"
    /\ UNCHANGED <<sessionVars, goroutineVars, hostVars, accepted, shown>>

\* Mutant of Deliver: it does not watch Closed.
DeliverBlocks ==
    /\ main = "deliver"
    /\ Len(inbound) < InboundCap
    /\ inbound' = Append(inbound, accepted + 1)
    /\ accepted' = accepted + 1
    /\ main' = "idle"
    /\ UNCHANGED <<once, closed, panicked, goroutineVars, hostVars, shown>>

\* Mutant of Deliver: the channel has no limit.
DeliverOverfull ==
    /\ main = "deliver"
    /\ inbound' = Append(inbound, accepted + 1)
    /\ accepted' = accepted + 1
    /\ main' = "idle"
    /\ UNCHANGED <<once, closed, panicked, goroutineVars, hostVars, shown>>

\* LU2Session.Deliver: select picks any case that is ready.
Deliver ==
    /\ main = "deliver"
    /\ \/ /\ Len(inbound) < InboundCap
          /\ inbound' = Append(inbound, accepted + 1)
          /\ accepted' = accepted + 1
       \/ /\ closed
          /\ UNCHANGED <<inbound, accepted>>
    /\ main' = "idle"
    /\ UNCHANGED <<once, closed, panicked, goroutineVars, hostVars, shown>>

ClientDisconnects ==
    /\ main = "idle"
    /\ Close
    /\ main' = "left"
    /\ UNCHANGED <<goroutineVars, hostVars, accepted, shown>>

-----------------------------------------------------------------------------
(* The goroutine host -> terminal.                                         *)

\* Mutant of ReadRecord: an empty record is sent on as a screen.
ReadRecordEmpty ==
    /\ up = "read"
    /\ fromHost # <<>>
    /\ fromHost' = Tail(fromHost)
    /\ up' = "send" /\ upRec' = Head(fromHost)
    /\ UNCHANGED <<main, sessionVars, down, downRec, runner, errc, conn, toHost,
                   hostGot, hostSent, accepted, shown>>

\* ReadRecord returns the next record, a buffered one also after the
\* connection is closed; an empty one is skipped.
ReadRecord ==
    /\ up = "read"
    /\ fromHost # <<>>
    /\ fromHost' = Tail(fromHost)
    /\ IF Head(fromHost).empty
       THEN UNCHANGED <<up, upRec>>
       ELSE up' = "send" /\ upRec' = Head(fromHost)
    /\ UNCHANGED <<main, sessionVars, down, downRec, runner, errc, conn, toHost,
                   hostGot, hostSent, accepted, shown>>

\* The connection is closed or reset, which may discard what was not read.
ReadFails ==
    /\ up = "read"
    /\ conn # "open"
    /\ up' = "report"
    /\ UNCHANGED <<main, sessionVars, upRec, down, downRec, runner, errc, hostVars,
                   accepted, shown>>

\* SendToTerminal writes to the link, or fails because the link is gone.
SendToTerminal ==
    /\ up = "send"
    /\ \/ up' = "read" /\ shown' = Append(shown, upRec)
       \/ up' = "report" /\ UNCHANGED shown
    /\ upRec' = NoRecord
    /\ UNCHANGED <<main, sessionVars, down, downRec, runner, errc, hostVars, accepted>>

\* Mutant of ErrorRoom: an unbuffered channel, so that only Run can take an error.
ErrorRoomNone == runner = "run" /\ errc = <<>>

ErrorRoom == Len(errc) < 2

ReportUp ==
    /\ up = "report"
    /\ ErrorRoom
    /\ errc' = Append(errc, "up")
    /\ up' = "done"
    /\ UNCHANGED <<main, sessionVars, upRec, down, downRec, runner, hostVars, accepted, shown>>

-----------------------------------------------------------------------------
(* The goroutine terminal -> host.  Nothing ever closes the inbound        *)
(* channel, so that the test for a closed one never holds.                 *)

SelectInput ==
    /\ down = "select"
    /\ inbound # <<>>
    /\ inbound' = Tail(inbound)
    /\ downRec' = Head(inbound)
    /\ down' = "write"
    /\ UNCHANGED <<main, once, closed, panicked, up, upRec, runner, errc, hostVars,
                   accepted, shown>>

SelectClosed ==
    /\ down = "select"
    /\ closed
    /\ down' = "report"
    /\ UNCHANGED <<main, sessionVars, up, upRec, downRec, runner, errc, hostVars,
                   accepted, shown>>

\* Mutant of WriteRecord: after a failed write the goroutine goes on.
WriteRecordGoesOn ==
    /\ down = "write"
    /\ \/ /\ conn = "open"
          /\ Len(toHost) < SocketCap
          /\ toHost' = Append(toHost, downRec)
       \/ UNCHANGED toHost
    /\ down' = "select"
    /\ downRec' = NoInput
    /\ UNCHANGED <<main, sessionVars, up, upRec, runner, errc, conn, fromHost, hostGot,
                   hostSent, accepted, shown>>

\* WriteRecord blocks while the socket is full; once the host has reset the
\* connection a write may be taken and lost before one fails.
WriteRecord ==
    /\ down = "write"
    /\ \/ /\ conn = "open"
          /\ Len(toHost) < SocketCap
          /\ toHost' = Append(toHost, downRec)
          /\ down' = "select"
       \/ /\ conn = "reset"
          /\ down' = "select"
          /\ UNCHANGED toHost
       \/ /\ conn # "open"
          /\ down' = "report"
          /\ UNCHANGED toHost
    /\ downRec' = NoInput
    /\ UNCHANGED <<main, sessionVars, up, upRec, runner, errc, conn, fromHost, hostGot,
                   hostSent, accepted, shown>>

ReportDown ==
    /\ down = "report"
    /\ ErrorRoom
    /\ errc' = Append(errc, "down")
    /\ down' = "done"
    /\ UNCHANGED <<main, sessionVars, up, upRec, downRec, runner, hostVars, accepted, shown>>

-----------------------------------------------------------------------------
(* The goroutine of startBridge: Run, then host.Close and session.Close.   *)

RunReturns ==
    /\ runner = "run"
    /\ errc # <<>>
    /\ errc' = Tail(errc)
    /\ runner' = "close_host"
    /\ UNCHANGED <<main, sessionVars, up, upRec, down, downRec, hostVars, accepted, shown>>

CloseHost ==
    /\ runner = "close_host"
    /\ conn' = "closed"
    /\ runner' = "close_session"
    /\ UNCHANGED <<main, sessionVars, up, upRec, down, downRec, errc, fromHost, toHost,
                   hostGot, hostSent, accepted, shown>>

\* Mutant of CloseSession: only the host is closed after Run.
CloseSessionNever ==
    /\ runner = "close_session"
    /\ runner' = "done"
    /\ UNCHANGED <<main, sessionVars, up, upRec, down, downRec, errc, hostVars, accepted, shown>>

CloseSession ==
    /\ runner = "close_session"
    /\ Close
    /\ runner' = "done"
    /\ UNCHANGED <<main, up, upRec, down, downRec, errc, hostVars, accepted, shown>>

-----------------------------------------------------------------------------
(* The TN3270 host.                                                        *)

HostSends ==
    /\ conn = "open"
    /\ Len(hostSent) < MaxRecords
    /\ \E empty \in BOOLEAN :
          LET rec == [n |-> Len(hostSent) + 1, empty |-> empty]
          IN  fromHost' = Append(fromHost, rec) /\ hostSent' = Append(hostSent, rec)
    /\ UNCHANGED <<main, sessionVars, goroutineVars, conn, toHost, hostGot, accepted, shown>>

\* What was written before the connection was closed here still arrives.
HostReads ==
    /\ conn # "reset"
    /\ toHost # <<>>
    /\ toHost' = Tail(toHost)
    /\ hostGot' = Append(hostGot, Head(toHost))
    /\ UNCHANGED <<main, sessionVars, goroutineVars, conn, fromHost, hostSent, accepted, shown>>

HostResets ==
    /\ conn = "open"
    /\ conn' = "reset"
    /\ UNCHANGED <<main, sessionVars, goroutineVars, fromHost, toHost, hostGot, hostSent,
                   accepted, shown>>

Up == ReadRecord \/ ReadFails \/ SendToTerminal \/ ReportUp
Down == SelectInput \/ SelectClosed \/ WriteRecord \/ ReportDown
Runner == RunReturns \/ CloseHost \/ CloseSession

\* The bridge is over; the main goroutine has other things to do.
Ended == runner = "done" /\ UNCHANGED vars

Next ==
    \/ TakeInput \/ Deliver \/ ClientDisconnects
    \/ Up \/ Down \/ Runner
    \/ HostSends \/ HostReads \/ HostResets
    \/ Ended

Spec == Init /\ [][Next]_vars

(***************************************************************************)
(* Fairness.  Every goroutine is scheduled; the host reads what it is sent *)
(* but need not send, reset or be asked anything.  Without the host's part *)
(* a full socket would block WriteRecord, the channel and Deliver.         *)
(***************************************************************************)
FairSpec ==
    /\ Spec
    /\ WF_vars(Deliver)
    /\ WF_vars(Up)
    /\ WF_vars(Down)
    /\ WF_vars(Runner)
    /\ WF_vars(HostReads)

-----------------------------------------------------------------------------
(* Properties.                                                             *)

(***************************************************************************)
(* What the user types reaches the host in order, nothing twice and        *)
(* nothing skipped, the i-th it gets is the i-th that Deliver accepted: a  *)
(* bridge that ends loses a tail of the inputs only.                       *)
(***************************************************************************)
InputInOrder ==
    /\ Len(hostGot) <= accepted
    /\ \A i \in 1 .. Len(hostGot) : hostGot[i] = i

(***************************************************************************)
(* The terminal is sent the host's screens in order, none twice and none   *)
(* skipped, and of the empty records none: a bridge that ends loses a tail *)
(* of the screens only.                                                    *)
(***************************************************************************)
ScreensInOrder ==
    /\ \A k \in DOMAIN shown :
          /\ ~shown[k].empty /\ shown[k].n <= Len(hostSent)
          /\ shown[k] = hostSent[shown[k].n]
    /\ \A j, k \in DOMAIN shown : j < k => shown[j].n < shown[k].n
    /\ \A k \in DOMAIN shown : \A i \in 1 .. shown[k].n :
          ~hostSent[i].empty => \E j \in DOMAIN shown : shown[j] = hostSent[i]

(***************************************************************************)
(* Session.Close may race with itself (the main goroutine on a disconnect, *)
(* the runner when the host goes) and never closes the channel twice.      *)
(***************************************************************************)
NoDoubleClose == ~panicked

(***************************************************************************)
(* Deliver does not hold the main goroutine, and with it every LU of the   *)
(* link, for ever.                                                         *)
(***************************************************************************)
DeliverReturns == main = "deliver" ~> main # "deliver"

(***************************************************************************)
(* However one direction ends (the host goes, the link fails, the user     *)
(* disconnects), the other one and the connection to the host end too.     *)
(***************************************************************************)
Ending == closed \/ up = "done" \/ down = "done" \/ conn = "reset"
AllEnded == up = "done" /\ down = "done" /\ runner = "done" /\ conn = "closed" /\ closed
EndsTogether == Ending ~> AllEnded

(***************************************************************************)
(* The bridge keeps the promises the main goroutine relies on.             *)
(***************************************************************************)
R == INSTANCE Relay WITH
        relaying <- ~(up = "done" /\ down = "done" /\ runner = "done"),
        screens  <- Len(shown)

KeepsRelay == R!FairSpec

=============================================================================
