------------------------------- MODULE Relay --------------------------------
(***************************************************************************)
(* What a bridged session promises to the main goroutine, which sees only  *)
(* three things of it: the inbound channel it delivers to, whether the     *)
(* session is closed, and that screens keep coming.  Module Bridge (the    *)
(* goroutines of internal/bridge) implements this specification, and       *)
(* module SnaProbe uses its sessions within it.                            *)
(***************************************************************************)
EXTENDS Naturals, Sequences

CONSTANTS
    Input,       \* what a terminal may type
    InboundCap   \* capacity of the inbound channel

VARIABLES
    inbound,     \* LU2Session.inbound
    closed,      \* LU2Session.closed has been closed
    relaying,    \* a goroutine of the bridge is still running
    screens      \* sequence number of the last screen sent to the terminal

relayVars == <<inbound, closed, relaying, screens>>

Init ==
    /\ inbound = <<>>
    /\ closed = FALSE
    /\ relaying = TRUE
    /\ screens = 0

-----------------------------------------------------------------------------
(* The main goroutine.                                                     *)

Deliver ==
    /\ Len(inbound) < InboundCap
    /\ \E in \in Input : inbound' = Append(inbound, in)
    /\ UNCHANGED <<closed, relaying, screens>>

Close ==
    /\ closed' = TRUE
    /\ UNCHANGED <<inbound, relaying, screens>>

-----------------------------------------------------------------------------
(* The bridge.                                                             *)

Forward ==
    /\ relaying
    /\ inbound # <<>>
    /\ inbound' = Tail(inbound)
    /\ UNCHANGED <<closed, relaying, screens>>

Screen ==
    /\ relaying
    /\ screens' = screens + 1
    /\ UNCHANGED <<inbound, closed, relaying>>

\* The bridge has ended only when the session is closed as well.
End ==
    /\ relaying
    /\ relaying' = FALSE
    /\ closed' = TRUE
    /\ UNCHANGED <<inbound, screens>>

Next == Deliver \/ Close \/ Forward \/ Screen \/ End

Spec == Init /\ [][Next]_relayVars

\* A running bridge drains the channel: Deliver cannot block for ever.
FairSpec == Spec /\ WF_relayVars(Forward)

=============================================================================
