------------------------------- MODULE Service --------------------------------
(***************************************************************************)
(* The commands of src/cmd/snagateway as processes that own LLC2 links:    *)
(*   run        the gateway service: accepts the links of SNA Servers and  *)
(*              starts a session manager on each (run.go, internal/config, *)
(*              internal/sna/session.go);                                  *)
(*   listen     llc2-probe: accepts links and logs what it reads;          *)
(*   dial       llc2-probe -connect: dials one link and logs what it reads;*)
(*   sna-probe  from its dial loop to its end, with the goroutine that     *)
(*              handles signals; what it does on the link is SnaProbe.     *)
(* The manager is a stub that returns at once, so that a session exists    *)
(* only as what the service would do with it: TargetForLU.                 *)
(***************************************************************************)
EXTENDS Integers, SequencesExt

CONSTANTS
    Configs,    \* configuration files
    Mac,        \* MAC addresses that call
    ByteMod,    \* values of a byte (256)
    DialTries,  \* -dial-tries
    MaxLinks    \* bound: links of a process

Fields == {"host", "port", "model"}  \* "" is the zero value of each

Target == [Fields -> STRING]
Connection ==
    [name : STRING, mac : STRING, sap : BOOLEAN, lus : Seq([lu : Int, target : Target])]

\* local: an interface is given and the SAP parses; sap: so does that one.
ASSUME ConfigsAssumption ==
    Configs \subseteq [local : BOOLEAN, default : Target, connections : Seq(Connection)]
ASSUME BoundsAssumption ==
    ByteMod \in Nat \ {0} /\ DialTries \in Nat \ {0} /\ MaxLinks \in Nat \ {0}
ASSUME MacAssumption == Mac \subseteq STRING \ {""}

VARIABLES
    cmd,     \* the command, fixed for a behaviour
    cfg,     \* the configuration, as the program has it
    pc,      \* main goroutine
    exit,    \* how the process ended
    tries,   \* attempts of the dial loop
    links,   \* the links: state, peer, and the goroutine that serves each
    signal   \* "none", "caught": in sigCh, "closed": the handler has closed the link

vars == <<cmd, cfg, pc, exit, tries, links, signal>>

LinkId == 1 .. MaxLinks
LinkState == {"none", "backlog", "up", "down", "closing", "closed", "wedged"}
NoLink == [st |-> "none", mac |-> "", by |-> "none", name |-> "", lus |-> <<>>]

TypeOK ==
    /\ cmd \in {"run", "listen", "dial", "sna-probe"}
    /\ pc \in {"start", "listen", "accept", "dial", "reading", "unguarded", "guarded", "exited"}
    /\ exit \in {"none", "ok", "error", "returned", "signal", "killed"}
    /\ tries \in 0 .. DialTries
    /\ DOMAIN links = LinkId
    /\ \A l \in LinkId :
          /\ links[l].st \in LinkState
          /\ links[l].by \in {"none", "start", "serving", "done"}
          /\ \A i \in DOMAIN links[l].lus : links[l].lus[i] \in 0 .. ByteMod - 1
    /\ signal \in {"none", "caught", "closed"}

Init ==
    /\ cmd \in {"run", "listen", "dial", "sna-probe"}
    /\ IF cmd = "run" THEN cfg \in Configs ELSE cfg = CHOOSE c \in Configs : TRUE
    /\ pc = "start" /\ exit = "none" /\ tries = 0
    /\ links = [l \in LinkId |-> NoLink]
    /\ signal = "none"

-----------------------------------------------------------------------------
(* Configuration.                                                          *)

ConnectionValid(conn) ==
    /\ conn.name # "" /\ conn.mac # "" /\ conn.sap
    /\ IsInjective([j \in DOMAIN conn.lus |-> conn.lus[j].lu])

\* Validate; that MAC addresses differ, or that LU numbers fit in a byte, it
\* does not check.
Valid(c) ==
    /\ c.local /\ c.default["host"] # ""
    /\ IsInjective([i \in DOMAIN c.connections |-> c.connections[i].name])
    /\ \A i \in DOMAIN c.connections : ConnectionValid(c.connections[i])

\* What Validate fills in.
Defaulted(c) ==
    [c EXCEPT !.default["port"] = IF @ = "" THEN "3270" ELSE @,
              !.default["model"] = IF @ = "" THEN "IBM-3278-2" ELSE @]

\* Mutant of Resolve: a target that names a host is taken as it is.
ResolveHost(c, t) == IF t["host"] = "" THEN c.default ELSE t

Resolve(c, t) == [f \in Fields |-> IF t[f] = "" THEN c.default[f] ELSE t[f]]

Named(c, name) == {i \in DOMAIN c.connections : c.connections[i].name = name}

TargetForLU(c, name, lu) ==
    LET hits == {h \in UNION {{i} \X DOMAIN c.connections[i].lus : i \in Named(c, name)} :
                    c.connections[h[1]].lus[h[2]].lu = lu}
    IN  IF hits = {} THEN c.default
        ELSE LET hit == CHOOSE h \in hits : TRUE
             IN  Resolve(c, c.connections[hit[1]].lus[hit[2]].target)

\* The name of the first connection with this MAC address.
MatchConnection(c, mac) ==
    LET i == SelectInSeq(c.connections, LAMBDA conn : conn.mac = mac)
    IN  IF i = 0 THEN "unknown" ELSE c.connections[i].name

LuAddresses(c, name) ==
    LET i == SelectInSeq(c.connections, LAMBDA conn : conn.name = name)
    IN  IF i = 0 THEN <<>>
        ELSE [j \in DOMAIN c.connections[i].lus |-> c.connections[i].lus[j].lu % ByteMod]

-----------------------------------------------------------------------------
(* Links.                                                                  *)

\* Close: the kernel sends DISC, unless the other end has.
Closed(link) == [link EXCEPT !.st = IF @ = "up" THEN "closing" ELSE IF @ = "down" THEN "closed" ELSE @]

\* The end of the process.  A link it has not closed, or whose DISC is not on
\* the wire yet, stays pending at SNA Server (the comment at snaprobe.go:126).
Exit(how, ls) ==
    /\ pc' = "exited" /\ exit' = how
    /\ links' = [l \in LinkId |->
                    IF ls[l].st \in {"backlog", "up", "closing"}
                    THEN [ls[l] EXCEPT !.st = "wedged"] ELSE ls[l]]
    /\ UNCHANGED <<cmd, cfg, tries>>

PeerCalls(l, mac) ==
    /\ pc = "accept" /\ links[l].st = "none"
    /\ links' = [links EXCEPT ![l] = [NoLink EXCEPT !.st = "backlog", !.mac = mac]]
    /\ UNCHANGED <<cmd, cfg, pc, exit, tries, signal>>

PeerDrops(l) ==
    /\ links[l].st = "up" /\ pc # "exited"
    /\ links' = [links EXCEPT ![l].st = "down"]
    /\ UNCHANGED <<cmd, cfg, pc, exit, tries, signal>>

DiscSent(l) ==
    /\ links[l].st = "closing" /\ pc # "exited"
    /\ links' = [links EXCEPT ![l].st = "closed"]
    /\ UNCHANGED <<cmd, cfg, pc, exit, tries, signal>>

-----------------------------------------------------------------------------
(* run and llc2-probe.                                                     *)

Load ==
    /\ pc = "start"
    /\ CASE cmd = "run" /\ ~Valid(cfg) -> Exit("error", links)
         [] cmd = "run" /\ Valid(cfg)  -> /\ cfg' = Defaulted(cfg) /\ pc' = "listen"
                                         /\ UNCHANGED <<cmd, exit, tries, links>>
         [] OTHER -> /\ pc' = IF cmd = "listen" THEN "listen" ELSE "dial"
                     /\ UNCHANGED <<cmd, cfg, exit, tries, links>>
    /\ UNCHANGED signal

\* On a system without AF_LLC run says so and ends without an error.
Listen ==
    /\ pc = "listen"
    /\ \/ pc' = "accept" /\ UNCHANGED <<cmd, cfg, exit, tries, links>>
       \/ Exit("error", links)
       \/ cmd = "run" /\ Exit("ok", links)
    /\ UNCHANGED signal

\* Mutant of Accept: the link is served before the next one is accepted.
AcceptInline(l) ==
    /\ pc = "accept" /\ links[l].st = "backlog"
    /\ \A k \in LinkId : links[k].by \in {"none", "done"}
    /\ links' = [links EXCEPT ![l].st = "up", ![l].by = "start"]
    /\ UNCHANGED <<cmd, cfg, pc, exit, tries, signal>>

\* Accept, and the goroutine that serves the link.
Accept(l) ==
    /\ pc = "accept" /\ links[l].st = "backlog"
    /\ links' = [links EXCEPT ![l].st = "up", ![l].by = "start"]
    /\ UNCHANGED <<cmd, cfg, pc, exit, tries, signal>>

AcceptFails ==
    /\ pc = "accept"
    /\ Exit("error", links)
    /\ UNCHANGED signal

\* serveConn and readPIUs.
Serve(l) ==
    /\ links[l].by = "start" /\ pc # "exited"
    /\ links' = [links EXCEPT ![l].by = "serving",
          ![l].name = IF cmd = "run" THEN MatchConnection(cfg, links[l].mac) ELSE "",
          ![l].lus  = IF cmd = "run" THEN LuAddresses(cfg, MatchConnection(cfg, links[l].mac)) ELSE <<>>]
    /\ UNCHANGED <<cmd, cfg, pc, exit, tries, signal>>

\* Mutant of ServeEnds: the link is not closed.
ServeEndsOpen(l) ==
    /\ links[l].by = "serving" /\ pc # "exited"
    /\ cmd = "run" \/ links[l].st = "down"
    /\ links' = [links EXCEPT ![l].by = "done"]
    /\ UNCHANGED <<cmd, cfg, pc, exit, tries, signal>>

\* Manager.Run, not implemented, returns at once; readPIUs returns when the
\* link is down.  Both close it.
ServeEnds(l) ==
    /\ links[l].by = "serving" /\ pc # "exited"
    /\ cmd = "run" \/ links[l].st = "down"
    /\ links' = [links EXCEPT ![l] = [Closed(@) EXCEPT !.by = "done"]]
    /\ UNCHANGED <<cmd, cfg, pc, exit, tries, signal>>

-----------------------------------------------------------------------------
(* Dialing.  The one link is link 1; it is not accepted, and "by" stays.   *)

Dial ==
    /\ pc = "dial"
    /\ tries' = tries + 1
    /\ links' = [links EXCEPT ![1].st = "up"]
    /\ pc' = IF cmd = "dial" THEN "reading" ELSE "unguarded"
    /\ UNCHANGED <<cmd, cfg, exit, signal>>

DialFails ==
    /\ pc = "dial"
    /\ IF cmd = "sna-probe" /\ tries + 1 < DialTries
       THEN tries' = tries + 1 /\ UNCHANGED <<cmd, cfg, pc, exit, links>>
       ELSE Exit("error", links)
    /\ UNCHANGED signal

\* readPIUs of llc2-probe -connect.
ReadEnds ==
    /\ pc = "reading" /\ links[1].st = "down"
    /\ Exit("ok", [links EXCEPT ![1] = Closed(@)])
    /\ UNCHANGED signal

\* signal.Notify.
Notify ==
    /\ pc = "unguarded"
    /\ pc' = "guarded"
    /\ UNCHANGED <<cmd, cfg, exit, tries, links, signal>>

\* SIGINT or SIGTERM; without Notify it ends the process.
Signal ==
    /\ pc # "exited" /\ signal = "none"
    /\ IF pc = "guarded"
       THEN signal' = "caught" /\ UNCHANGED <<cmd, cfg, pc, exit, tries, links>>
       ELSE Exit("killed", links) /\ UNCHANGED signal

HandlerCloses ==
    /\ signal = "caught" /\ pc = "guarded"
    /\ signal' = "closed"
    /\ links' = [links EXCEPT ![1] = Closed(@)]
    /\ UNCHANGED <<cmd, cfg, pc, exit, tries>>

\* Mutant of HandlerExits: no grace.
HandlerExitsAtOnce ==
    /\ signal = "closed" /\ pc = "guarded"
    /\ Exit("signal", links)
    /\ UNCHANGED signal

\* os.Exit after a grace of 300 ms, taken to be enough for DISC.
HandlerExits ==
    /\ signal = "closed" /\ pc = "guarded" /\ links[1].st # "closing"
    /\ Exit("signal", links)
    /\ UNCHANGED signal

\* The main goroutine returns by itself, closing the link: it has no ACTPU
\* response, or a read fails since the link is down or the handler closed it.
MainReturns ==
    /\ pc = "guarded"
    /\ Exit("returned", [links EXCEPT ![1] = Closed(@)])
    /\ UNCHANGED signal

Main == Load \/ Listen \/ Dial \/ DialFails \/ ReadEnds \/ Notify
Handler == HandlerCloses \/ HandlerExits

Finished == pc = "exited" /\ UNCHANGED vars

Next ==
    \/ Main \/ Handler \/ AcceptFails \/ Signal \/ MainReturns \/ Finished
    \/ \E l \in LinkId :
          \/ Accept(l) \/ Serve(l) \/ ServeEnds(l)
          \/ PeerDrops(l) \/ DiscSent(l)
          \/ \E mac \in Mac : PeerCalls(l, mac)

Spec == Init /\ [][Next]_vars

(***************************************************************************)
(* Fairness: every goroutine runs and the kernel sends what it has been    *)
(* given; callers, signals and failures come or not.                       *)
(***************************************************************************)
FairSpec ==
    /\ Spec
    /\ WF_vars(Main) /\ WF_vars(Handler)
    /\ \A l \in LinkId :
          WF_vars(Accept(l)) /\ WF_vars(Serve(l)) /\ WF_vars(ServeEnds(l)) /\ WF_vars(DiscSent(l))

-----------------------------------------------------------------------------
(* Properties.                                                             *)

(***************************************************************************)
(* A link is served as the connection that has its MAC address, if only    *)
(* one has; its manager activates the LUs of that connection, and a        *)
(* session of each goes to the target configured for that LU, what the     *)
(* target leaves open coming from the default.  Nobody's session has an    *)
(* empty host, port or model to dial.  This needs LU numbers from 0 to 255, *)
(* which Validate does not demand: another one is activated as the address *)
(* in its low byte and gets the target of that one or the default.         *)
(***************************************************************************)
HasMac(mac) == {i \in DOMAIN cfg.connections : cfg.connections[i].mac = mac}

\* The name and the LUs are those of the connection, and so are the targets.
RoutedAs(l, conn) ==
    /\ l.name = conn.name
    /\ Len(l.lus) = Len(conn.lus)
    /\ \A j \in DOMAIN conn.lus : conn.lus[j].lu \in 0 .. ByteMod - 1 =>
          LET target == TargetForLU(cfg, l.name, l.lus[j])
          IN  \A f \in Fields :
                 target[f] = IF conn.lus[j].target[f] # ""
                             THEN conn.lus[j].target[f] ELSE cfg.default[f]

Routed ==
    \A l \in LinkId : cmd = "run" /\ links[l].by \in {"serving", "done"} =>
        /\ \A i \in HasMac(links[l].mac) :
              HasMac(links[l].mac) = {i} => RoutedAs(links[l], cfg.connections[i])
        /\ \A j \in DOMAIN links[l].lus :
              "" \notin Range(TargetForLU(cfg, links[l].name, links[l].lus[j]))

(***************************************************************************)
(* A process whose handler has closed the link ends with DISC on the wire: *)
(* the comments at snaprobe.go:119 and 131 say that Close and the grace    *)
(* after it do away with the link that stays pending at SNA Server.  It is *)
(* false: nothing makes the main goroutine, whose read fails or times out  *)
(* meanwhile, wait for the grace.                                          *)
(***************************************************************************)
SignalDisconnects == signal = "closed" /\ pc = "exited" => links[1].st = "closed"

(***************************************************************************)
(* A signal that is caught ends the process, whatever SNA Server does, and *)
(* with DISC on the wire unless the main goroutine has returned before the *)
(* handler could end it.                                                   *)
(***************************************************************************)
SignalEnds ==
    signal = "caught" ~> pc = "exited" /\ (links[1].st = "closed" \/ exit = "returned")

(***************************************************************************)
(* The link that a process has accepted is closed when its goroutine ends: *)
(* the service does not run out of descriptors as SNA Servers come and go. *)
(***************************************************************************)
LinksReleased ==
    \A l \in LinkId :
        (links[l].by # "none" /\ (cmd = "run" \/ links[l].st = "down"))
            ~> links[l].st = "closed" \/ pc = "exited"

(***************************************************************************)
(* Another SNA Server that calls is served, however long a link that was   *)
(* accepted before is in use.                                              *)
(***************************************************************************)
CallersServed ==
    \A l \in LinkId : links[l].st = "backlog" ~> links[l].by = "serving" \/ pc = "exited"

=============================================================================
