----------------------------- MODULE SnaServer -----------------------------
(***************************************************************************)
(* The other end of the LLC2 link: Microsoft SNA Server and the DOS        *)
(* terminals behind it, as the gateway sees them.  None of this code is in *)
(* the repository; it is modelled from the way cmd/snagateway/snaprobe.go  *)
(* uses it, and it is the environment of module SnaProbe.                  *)
(*                                                                         *)
(* LLC2 delivers whole PIUs, in order and without loss, so each direction  *)
(* of the link is a FIFO sequence.  A PIU keeps only what the gateway's    *)
(* dispatch looks at.                                                      *)
(***************************************************************************)
EXTENDS Naturals, Sequences

CONSTANTS
    LU,           \* local addresses of the dependent LUs
    SnfMod,       \* number of values of the 16-bit sequence number field
    Restarted,    \* terminals may be attached since an earlier run of the gateway
    MaxRequests   \* bound: requests that SNA Server originates in a behaviour

PU == 0           \* the DAF of the PU itself

ASSUME LUAssumption == LU \subseteq 1 .. 255
ASSUME SnfAssumption == SnfMod \in Nat \ {0, 1}
ASSUME RestartedAssumption == Restarted \in BOOLEAN
ASSUME MaxRequestsAssumption == MaxRequests \in Nat

VARIABLES
    toGw,       \* PIUs from SNA Server that the gateway has not read yet
    toSrv,      \* PIUs from the gateway that SNA Server has not read yet
    link,       \* "up" until the LLC2 link is lost or closed
    luState,    \* what SNA Server thinks of each LU's SSCP-LU session
    lulu,       \* what SNA Server thinks of each LU's LU-LU session
    owed,       \* the request of each LU that still waits for its response
    attachNo,   \* how many times a terminal has attached to the LU
    due,        \* screens the LU's terminal has asked for and not received
    lastSnf,    \* sequence number of the last data PIU the LU received
    requests    \* requests originated so far, at most MaxRequests

serverVars == <<luState, lulu, owed, attachNo, due, lastSnf, requests>>
linkVars == <<toGw, toSrv, link>>

-----------------------------------------------------------------------------
(* PIUs.  The requests the gateway's observe loop tells apart, and the     *)
(* responses to the gateway's own requests.                                *)

RequestType == {"NOTIFY01", "NOTIFY03", "LINE", "UNBIND"}

Request == [rri : {"request"}, type : RequestType, lu : LU, att : Nat]

Response == [rri : {"response"}, type : {"ACTPU", "ACTLU", "BIND", "SDT", "FMD"},
             lu : LU \cup {PU}, pos : BOOLEAN]

Outbound == [type : {"ACTPU", "ACTLU", "BIND", "SDT", "DATA", "RSP"},
             lu : LU \cup {PU}, snf : 0 .. SnfMod - 1]

Rsp(type, lu, pos) ==
    [rri |-> "response", type |-> type, lu |-> lu, pos |-> pos]

ServerTypeOK ==
    /\ toGw \in Seq(Request \cup Response)
    /\ toSrv \in Seq(Outbound)
    /\ link \in {"up", "down"}
    /\ luState \in [LU -> {"inactive", "starting", "idle", "attached"}]
    /\ lulu \in [LU -> {"none", "bound", "active"}]
    /\ owed \in [LU -> RequestType \cup {"none"}]
    /\ attachNo \in [LU -> Nat]
    /\ due \in [LU -> Nat]
    /\ lastSnf \in [LU -> 0 .. SnfMod - 1]
    /\ requests \in 0 .. MaxRequests

ServerInit ==
    /\ toGw = <<>>
    /\ toSrv = <<>>
    /\ link = "up"
    /\ luState = [lu \in LU |-> "inactive"]
    /\ lulu = [lu \in LU |-> "none"]
    /\ owed = [lu \in LU |-> "none"]
    /\ attachNo = [lu \in LU |-> 0]
    /\ due = [lu \in LU |-> 0]
    /\ lastSnf = [lu \in LU |-> 0]
    /\ requests = 0

-----------------------------------------------------------------------------
(* Requests that SNA Server originates.  Every one asks for a definite     *)
(* response, and an LU with a request outstanding sends no other: the LU   *)
(* is wedged until the response arrives (snaprobe.go, recvAck's comment).  *)

Originate(lu, type, att) ==
    /\ link = "up"
    /\ owed[lu] = "none"
    /\ requests < MaxRequests
    /\ toGw' = Append(toGw, [rri |-> "request", type |-> type, lu |-> lu, att |-> att])
    /\ owed' = [owed EXCEPT ![lu] = type]
    /\ requests' = requests + 1
    /\ UNCHANGED <<toSrv, link, lastSnf>>

\* The LU is idle: unsolicited after ACTLU, and whenever its terminal leaves.
NotifyIdle(lu) ==
    /\ luState[lu] \in {"starting", "attached"}
    /\ Originate(lu, "NOTIFY01", attachNo[lu])
    /\ luState' = [luState EXCEPT ![lu] = "idle"]
    /\ UNCHANGED <<lulu, attachNo, due>>

\* A terminal has attached to the LU and waits for its first screen.
NotifyReady(lu) ==
    /\ luState[lu] = "idle"
    /\ Originate(lu, "NOTIFY03", attachNo[lu] + 1)
    /\ luState' = [luState EXCEPT ![lu] = "attached"]
    /\ attachNo' = [attachNo EXCEPT ![lu] = @ + 1]
    /\ due' = [due EXCEPT ![lu] = @ + 1]
    /\ UNCHANGED lulu

\* The terminal's user types a line: a logon, a menu choice, host input.
TypeLine(lu) ==
    /\ luState[lu] = "attached"
    /\ Originate(lu, "LINE", attachNo[lu])
    /\ due' = [due EXCEPT ![lu] = @ + 1]
    /\ UNCHANGED <<luState, lulu, attachNo>>

\* SNA Server ends an LU-LU session on its own.
SendUnbind(lu) ==
    /\ lulu[lu] = "active"
    /\ Originate(lu, "UNBIND", attachNo[lu])
    /\ lulu' = [lulu EXCEPT ![lu] = "none"]
    /\ UNCHANGED <<luState, attachNo, due>>

-----------------------------------------------------------------------------
(* PIUs that SNA Server receives.                                          *)

Receive(type) ==
    /\ link = "up"
    /\ toSrv # <<>>
    /\ Head(toSrv).type = type
    /\ toSrv' = Tail(toSrv)
    /\ UNCHANGED <<link, requests>>

ReceiveActPU ==
    /\ Receive("ACTPU")
    /\ \E pos \in BOOLEAN : toGw' = Append(toGw, Rsp("ACTPU", PU, pos))
    /\ UNCHANGED <<luState, lulu, owed, due, lastSnf, attachNo>>

ReceiveActLU ==
    /\ Receive("ACTLU")
    /\ LET lu == Head(toSrv).lu
       IN  \/ /\ toGw' = Append(toGw, Rsp("ACTLU", lu, TRUE))
              /\ luState' = [luState EXCEPT ![lu] = "starting"]
              /\ UNCHANGED attachNo
           \/ /\ Restarted
              /\ toGw' = Append(toGw, Rsp("ACTLU", lu, TRUE))
              /\ luState' = [luState EXCEPT ![lu] = "attached"]
              /\ attachNo' = [attachNo EXCEPT ![lu] = @ + 1]
           \/ /\ toGw' = Append(toGw, Rsp("ACTLU", lu, FALSE))
              /\ UNCHANGED <<luState, attachNo>>
    /\ UNCHANGED <<lulu, owed, due, lastSnf>>

ReceiveRsp ==
    /\ Receive("RSP")
    /\ owed' = [owed EXCEPT ![Head(toSrv).lu] = "none"]
    /\ UNCHANGED <<toGw, luState, lulu, due, lastSnf, attachNo>>

ReceiveData ==
    /\ Receive("DATA")
    /\ LET m == Head(toSrv)
       IN  /\ toGw' = Append(toGw, Rsp("FMD", m.lu, TRUE))
           /\ lastSnf' = [lastSnf EXCEPT ![m.lu] = m.snf]
           /\ due' = [due EXCEPT ![m.lu] = IF @ > 0 THEN @ - 1 ELSE 0]
    /\ UNCHANGED <<luState, lulu, owed, attachNo>>

ReceiveBind ==
    /\ Receive("BIND")
    /\ LET lu == Head(toSrv).lu
       IN  \/ /\ lulu[lu] = "none"
              /\ lulu' = [lulu EXCEPT ![lu] = "bound"]
              /\ toGw' = Append(toGw, Rsp("BIND", lu, TRUE))
           \/ /\ toGw' = Append(toGw, Rsp("BIND", lu, FALSE))
              /\ UNCHANGED lulu
    /\ UNCHANGED <<luState, owed, due, lastSnf, attachNo>>

ReceiveSdt ==
    /\ Receive("SDT")
    /\ LET lu == Head(toSrv).lu
       IN  /\ toGw' = Append(toGw, Rsp("SDT", lu, lulu[lu] = "bound"))
           /\ lulu' = [lulu EXCEPT ![lu] = IF @ = "bound" THEN "active" ELSE @]
    /\ UNCHANGED <<luState, owed, due, lastSnf, attachNo>>

\* The link is lost: a DISC from the peer, or the kernel gives up on it.
LinkLost ==
    /\ link = "up"
    /\ link' = "down"
    /\ UNCHANGED <<toGw, toSrv, serverVars>>

ServerReceives ==
    \/ ReceiveActPU
    \/ ReceiveActLU
    \/ ReceiveRsp
    \/ ReceiveData
    \/ ReceiveBind
    \/ ReceiveSdt

ServerOriginates ==
    \E lu \in LU :
        \/ NotifyIdle(lu)
        \/ NotifyReady(lu)
        \/ TypeLine(lu)
        \/ SendUnbind(lu)

ServerNext == ServerReceives \/ ServerOriginates \/ LinkLost

=============================================================================
