--------------------------- MODULE ServiceProofs ----------------------------
(***************************************************************************)
(* Proofs about module Service, for every set of configurations and of     *)
(* callers and any number of links and attempts.                           *)
(***************************************************************************)
EXTENDS Service, Lemmas

(***************************************************************************)
(* Where each command may be, and that there is a record of every link.    *)
(***************************************************************************)
LinkFields == {"st", "mac", "by", "name", "lus"}

Shape == DOMAIN links = LinkId /\ \A l \in LinkId : DOMAIN links[l] = LinkFields

Where ==
    /\ cmd \in {"run", "listen", "dial", "sna-probe"}
    /\ pc \in {"listen", "accept"} => cmd \in {"run", "listen"}
    /\ pc = "dial" => cmd \in {"dial", "sna-probe"}
    /\ pc = "reading" => cmd = "dial"
    /\ pc \in {"unguarded", "guarded"} => cmd = "sna-probe"

WhereInv == Shape /\ Where

LEMMA OneIsLink == 1 \in LinkId
<1>1. MaxLinks \in Nat /\ MaxLinks # 0
  BY BoundsAssumption
<1> QED BY <1>1 DEF LinkId

LEMMA InitWhere == Init => WhereInv
<1> SUFFICES ASSUME Init PROVE WhereInv
  OBVIOUS
<1>1. /\ pc = "start" /\ cmd \in {"run", "listen", "dial", "sna-probe"}
      /\ DOMAIN links = LinkId /\ \A l \in LinkId : links[l] = NoLink
  BY DEF Init
<1>2. DOMAIN NoLink = LinkFields
  BY DEF NoLink, LinkFields
<1> QED BY <1>1, <1>2 DEF WhereInv, Shape, Where

\* What Close makes of a link.
LEMMA ClosedShape ==
    ASSUME Shape
    PROVE  /\ \A l \in LinkId : DOMAIN Closed(links[l]) = LinkFields
           /\ DOMAIN [links EXCEPT ![1] = Closed(@)] = LinkId
           /\ \A l \in LinkId : DOMAIN [links EXCEPT ![1] = Closed(@)][l] = LinkFields
  BY OneIsLink DEF Shape, LinkFields, Closed

LEMMA ExitShape ==
    ASSUME NEW how, NEW ls, Exit(how, ls), \A l \in LinkId : DOMAIN ls[l] = LinkFields
    PROVE  Shape'
  BY DEF Exit, Shape

LEMMA MainShape ==
    ASSUME Shape, Main \/ Handler \/ AcceptFails \/ Signal \/ MainReturns
    PROVE  Shape'
<1>1. \A l \in LinkId : DOMAIN links[l] = LinkFields
  BY DEF Shape
<1>2. ASSUME NEW how, Exit(how, links) PROVE Shape'
  BY <1>1, <1>2, ExitShape
<1> DEFINE ls == [links EXCEPT ![1] = Closed(@)]
<1>3. DOMAIN ls = LinkId /\ \A l \in LinkId : DOMAIN ls[l] = LinkFields
  BY ClosedShape
<1>4. ASSUME NEW how, Exit(how, ls) PROVE Shape'
  <2> HIDE DEF ls
  <2> QED BY <1>3, <1>4, ExitShape
<1>5. CASE links' = links
  BY <1>5 DEF Shape
<1>6. CASE HandlerCloses
  <2>1. links' = ls
    BY <1>6 DEF HandlerCloses
  <2> HIDE DEF ls
  <2> QED BY <1>3, <2>1 DEF Shape
<1>7. CASE Dial
  BY <1>7 DEF Dial, Shape, LinkFields
<1>8. CASE ReadEnds \/ MainReturns
  BY <1>4, <1>8 DEF ReadEnds, MainReturns
<1>9. CASE Load \/ Listen \/ DialFails \/ Notify \/ HandlerExits \/ AcceptFails \/ Signal
  BY <1>2, <1>5, <1>9 DEF Load, Listen, DialFails, Notify, HandlerExits, AcceptFails, Signal
<1> QED BY <1>6, <1>7, <1>8, <1>9 DEF Main, Handler

\* What callers, the kernel and the goroutines of the links do.
LEMMA LinksShape ==
    ASSUME Shape, NEW l \in LinkId,
           \/ \E mac \in Mac : PeerCalls(l, mac)
           \/ Accept(l) \/ Serve(l) \/ ServeEnds(l) \/ PeerDrops(l) \/ DiscSent(l)
    PROVE  Shape'
<1>1. DOMAIN links = LinkId /\ \A k \in LinkId : DOMAIN links[k] = LinkFields
  BY DEF Shape
<1>2. ASSUME NEW k, DOMAIN k = LinkFields, links' = [links EXCEPT ![l] = k] PROVE Shape'
  BY <1>1, <1>2 DEF Shape
<1>3. ASSUME NEW mac \in Mac, PeerCalls(l, mac) PROVE Shape'
  <2>1. DOMAIN [NoLink EXCEPT !.st = "backlog", !.mac = mac] = LinkFields
    BY DEF NoLink, LinkFields
  <2> QED BY <1>2, <1>3, <2>1 DEF PeerCalls
<1>4. CASE ServeEnds(l)
  <2>1. DOMAIN [Closed(links[l]) EXCEPT !.by = "done"] = LinkFields
    BY ClosedShape
  <2> QED BY <1>1, <1>2, <1>4, <2>1 DEF ServeEnds
<1>5. CASE Accept(l) \/ Serve(l) \/ PeerDrops(l) \/ DiscSent(l)
  BY <1>1, <1>5 DEF Accept, Serve, PeerDrops, DiscSent, Shape
<1> QED BY <1>3, <1>4, <1>5

LEMMA StepWhere == WhereInv /\ [Next]_vars => WhereInv'
<1> SUFFICES ASSUME Shape, Where, [Next]_vars PROVE Shape' /\ Where'
  BY DEF WhereInv
<1>1. CASE UNCHANGED vars
  BY <1>1 DEF vars, Shape, Where
<1>2. CASE Main \/ Handler \/ AcceptFails \/ Signal \/ MainReturns
  <2>1. Shape'
    BY <1>2, MainShape
  <2>2. ASSUME NEW how, NEW ls, Exit(how, ls) PROVE Where'
    BY <2>2 DEF Exit, Where
  <2>3. CASE Load
    <3>1. CASE pc = "start" /\ cmd' = cmd /\ pc' = IF cmd \in {"run", "listen"} THEN "listen" ELSE "dial"
      BY <2>1, <3>1 DEF Where
    <3>2. CASE cmd = "run"
      BY <2>1, <2>2, <2>3, <3>1, <3>2 DEF Load
    <3>3. CASE cmd # "run"
      BY <2>3, <3>1, <3>3 DEF Load, Where
    <3> QED BY <3>2, <3>3
  <2>4. CASE Listen
    BY <2>1, <2>2, <2>4 DEF Listen, Where
  <2>5. CASE Dial \/ Notify \/ HandlerCloses
    BY <2>1, <2>5 DEF Dial, Notify, HandlerCloses, Where
  <2>6. CASE DialFails
    BY <2>1, <2>2, <2>6 DEF DialFails, Where
  <2>7. CASE ReadEnds \/ MainReturns \/ HandlerExits \/ AcceptFails
    BY <2>1, <2>2, <2>7 DEF ReadEnds, MainReturns, HandlerExits, AcceptFails
  <2>8. CASE Signal
    BY <2>1, <2>2, <2>8 DEF Signal, Where
  <2> QED BY <1>2, <2>1, <2>3, <2>4, <2>5, <2>6, <2>7, <2>8 DEF Main, Handler
<1>3. ASSUME NEW l \in LinkId,
             \/ \E mac \in Mac : PeerCalls(l, mac)
             \/ Accept(l) \/ Serve(l) \/ ServeEnds(l) \/ PeerDrops(l) \/ DiscSent(l)
      PROVE  Shape' /\ Where'
  <2>1. Shape'
    BY <1>3, LinksShape
  <2>2. UNCHANGED <<cmd, pc>>
    BY <1>3 DEF PeerCalls, Accept, Serve, ServeEnds, PeerDrops, DiscSent
  <2> QED BY <2>1, <2>2 DEF Where
<1> QED BY <1>1, <1>2, <1>3 DEF Next, Finished

-----------------------------------------------------------------------------
(***************************************************************************)
(* Routing.  A configuration that was loaded is one that Validate accepts, *)
(* with its defaults filled in, and a link that is served has the name and *)
(* the LUs that the configuration gives its MAC address.                   *)
(***************************************************************************)
Loaded(c) == \E c0 \in Configs : Valid(c0) /\ c = Defaulted(c0)

Idle == \A l \in LinkId : links[l].by = "none"

Served(k) ==
    /\ k.name = MatchConnection(cfg, k.mac)
    /\ k.lus = LuAddresses(cfg, k.name)

RouteInv ==
    cmd = "run" =>
        /\ pc = "start" => cfg \in Configs /\ Idle
        /\ pc \in {"listen", "accept"} \/ ~ Idle => Loaded(cfg)
        /\ \A l \in LinkId : links[l].by \in {"serving", "done"} => Served(links[l])

\* The LUs of a connection, under its name, and the targets of those.
LEMMA LoadedConfig ==
    ASSUME NEW c, Loaded(c)
    PROVE  /\ c.connections \in Seq(Connection)
           /\ DOMAIN c.connections = 1 .. Len(c.connections)
           /\ Len(c.connections) \in Nat
           /\ IsInjective([i \in DOMAIN c.connections |-> c.connections[i].name])
           /\ \A i \in DOMAIN c.connections : ConnectionValid(c.connections[i])
           /\ \A f \in Fields : c.default[f] # ""
<1>1. PICK c0 \in Configs : Valid(c0) /\ c = Defaulted(c0)
  BY DEF Loaded
<1>2. c0 \in [local : BOOLEAN, default : Target, connections : Seq(Connection)]
  BY ConfigsAssumption
<1>3. c.connections = c0.connections
  BY <1>1, <1>2 DEF Defaulted
<1>4. \A f \in Fields : c.default[f] # ""
  <2>1. c0.default["host"] # "" /\ DOMAIN c0.default = Fields
    BY <1>1, <1>2 DEF Valid, Target
  <2>2. c.default = [[c0.default EXCEPT !["port"] = IF @ = "" THEN "3270" ELSE @]
                        EXCEPT !["model"] = IF @ = "" THEN "IBM-3278-2" ELSE @]
    BY <1>1, <1>2 DEF Defaulted
  <2> QED BY <2>1, <2>2 DEF Fields
<1>5. c.connections \in Seq(Connection)
  BY <1>2, <1>3
<1>6. DOMAIN c.connections = 1 .. Len(c.connections) /\ Len(c.connections) \in Nat
  BY <1>5
<1> QED BY <1>1, <1>3, <1>4, <1>5, <1>6 DEF Valid

LEMMA MatchOnly ==
    ASSUME NEW c, Loaded(c), NEW mac, NEW i \in DOMAIN c.connections,
           {k \in DOMAIN c.connections : c.connections[k].mac = mac} = {i}
    PROVE  MatchConnection(c, mac) = c.connections[i].name
<1> DEFINE I == {k \in 1 .. Len(c.connections) : c.connections[k].mac = mac}
           m == IF I # {} THEN Min(I) ELSE 0
<1>1. MatchConnection(c, mac) = IF m = 0 THEN "unknown" ELSE c.connections[m].name
  BY DEF MatchConnection, SelectInSeq
<1>2. I = {i} /\ i \in Nat /\ i # 0
  <2>1. DOMAIN c.connections = 1 .. Len(c.connections) /\ Len(c.connections) \in Nat
    BY LoadedConfig
  <2> QED BY <2>1
<1>3. m = i
  <2>1. I \in SUBSET Nat /\ I # {}
    BY <1>2
  <2>2. Min(I) \in I
    <3> HIDE DEF I
    <3> QED BY <2>1, LeastIsMin, SMTT(60)
  <2> QED BY <1>2, <2>1, <2>2
<1> HIDE DEF m
<1> QED BY <1>1, <1>2, <1>3

LEMMA AddressesOf ==
    ASSUME NEW c, Loaded(c), NEW i \in DOMAIN c.connections
    PROVE  LuAddresses(c, c.connections[i].name) =
              [j \in DOMAIN c.connections[i].lus |-> c.connections[i].lus[j].lu % ByteMod]
<1> DEFINE I == {k \in 1 .. Len(c.connections) : c.connections[k].name = c.connections[i].name}
           m == IF I # {} THEN Min(I) ELSE 0
<1>1. LuAddresses(c, c.connections[i].name) =
         IF m = 0 THEN <<>>
         ELSE [j \in DOMAIN c.connections[m].lus |-> c.connections[m].lus[j].lu % ByteMod]
  BY DEF LuAddresses, SelectInSeq
<1>2. I = {i} /\ i \in Nat /\ i # 0
  <2>1. DOMAIN c.connections = 1 .. Len(c.connections) /\ Len(c.connections) \in Nat
    BY LoadedConfig
  <2>2. \A k \in DOMAIN c.connections : c.connections[k].name = c.connections[i].name => k = i
    BY LoadedConfig DEF IsInjective
  <2> QED BY <2>1, <2>2
<1>3. m = i
  <2>1. I \in SUBSET Nat /\ I # {}
    BY <1>2
  <2>2. Min(I) \in I
    <3> HIDE DEF I
    <3> QED BY <2>1, LeastIsMin, SMTT(60)
  <2> QED BY <1>2, <2>1, <2>2
<1> HIDE DEF m
<1> QED BY <1>1, <1>2, <1>3

LEMMA TargetOf ==
    ASSUME NEW c, Loaded(c), NEW i \in DOMAIN c.connections, NEW j \in DOMAIN c.connections[i].lus
    PROVE  TargetForLU(c, c.connections[i].name, c.connections[i].lus[j].lu) =
              Resolve(c, c.connections[i].lus[j].target)
<1> DEFINE name == c.connections[i].name
           lu == c.connections[i].lus[j].lu
           pairs == UNION {{k} \X DOMAIN c.connections[k].lus : k \in Named(c, name)}
           hits == {h \in pairs : c.connections[h[1]].lus[h[2]].lu = lu}
<1>1. Named(c, name) = {i}
  <2>1. \A k \in DOMAIN c.connections : c.connections[k].name = c.connections[i].name => k = i
    BY LoadedConfig DEF IsInjective
  <2> QED BY <2>1 DEF Named
<1>2. pairs = {i} \X DOMAIN c.connections[i].lus
  BY <1>1
<1>3. \A k \in DOMAIN c.connections[i].lus : c.connections[i].lus[k].lu = lu => k = j
  BY LoadedConfig, ZenonT(60) DEF ConnectionValid, IsInjective
<1>4. hits = {<<i, j>>}
  <2> HIDE DEF pairs
  <2>1. <<i, j>> \in hits
    BY <1>2, SMTT(60)
  <2>2. ASSUME NEW h \in hits PROVE h = <<i, j>>
    BY <1>2, <1>3
  <2> QED BY <2>1, <2>2
<1>5. TargetForLU(c, name, lu) =
         IF hits = {} THEN c.default
         ELSE LET hit == CHOOSE h \in hits : TRUE
              IN  Resolve(c, c.connections[hit[1]].lus[hit[2]].target)
  BY DEF TargetForLU
<1> HIDE DEF hits
<1>6. (CHOOSE h \in hits : TRUE) = <<i, j>>
  BY <1>4
<1> QED BY <1>4, <1>5, <1>6

\* Nothing is dialled with an empty field.
LEMMA NoEmptyField ==
    ASSUME NEW c, Loaded(c), NEW name, NEW lu
    PROVE  "" \notin Range(TargetForLU(c, name, lu))
<1>1. \A f \in Fields : c.default[f] # ""
  BY LoadedConfig
<1>2. DOMAIN c.default = Fields
  BY ConfigsAssumption, SMTT(60) DEF Loaded, Defaulted, Target
<1>3. TargetForLU(c, name, lu) = c.default \/ \E t : TargetForLU(c, name, lu) = Resolve(c, t)
  BY DEF TargetForLU
<1> QED BY <1>1, <1>2, <1>3 DEF Resolve, Range

LEMMA SmallMod ==
    ASSUME NEW n \in Nat, NEW b \in Nat \ {0}, n < b
    PROVE  n % b = n
  OBVIOUS

LEMMA SeqDomain ==
    ASSUME NEW S, NEW s \in Seq(S)
    PROVE  /\ DOMAIN s = 1 .. Len(s) /\ Len(s) \in Nat
           /\ \A j \in DOMAIN s : s[j] \in S
  OBVIOUS

LEMMA ServedRight ==
    ASSUME Loaded(cfg), NEW k, Served(k)
    PROVE  /\ \A i \in HasMac(k.mac) : HasMac(k.mac) = {i} => RoutedAs(k, cfg.connections[i])
           /\ \A j \in DOMAIN k.lus : "" \notin Range(TargetForLU(cfg, k.name, k.lus[j]))
<1>1. ASSUME NEW i \in HasMac(k.mac), HasMac(k.mac) = {i}
      PROVE  RoutedAs(k, cfg.connections[i])
  <2> DEFINE conn == cfg.connections[i]
  <2>1. i \in DOMAIN cfg.connections
    BY DEF HasMac
  <2>2. k.name = conn.name
    BY <1>1, <2>1, MatchOnly, SMTT(60) DEF Served, HasMac
  <2>3. k.lus = [j \in DOMAIN conn.lus |-> conn.lus[j].lu % ByteMod]
    BY <2>1, <2>2, AddressesOf DEF Served
  <2>4. conn.lus \in Seq([lu : Int, target : Target])
    <3>1. cfg.connections \in Seq(Connection)
      BY LoadedConfig
    <3>2. conn \in Connection
      BY <2>1, <3>1
    <3> QED BY <3>2 DEF Connection
  <2>5. Len(k.lus) = Len(conn.lus)
    <3> HIDE DEF conn
    <3>1. DOMAIN conn.lus = 1 .. Len(conn.lus) /\ Len(conn.lus) \in Nat
      BY <2>4, SeqDomain
    <3> QED BY <2>3, <3>1
  <2>6. ASSUME NEW j \in DOMAIN conn.lus, conn.lus[j].lu \in 0 .. ByteMod - 1
        PROVE  TargetForLU(cfg, k.name, k.lus[j]) = Resolve(cfg, conn.lus[j].target)
    <3>1. conn.lus[j].lu \in Nat /\ conn.lus[j].lu < ByteMod
      <4> HIDE DEF conn
      <4> QED BY <2>6, BoundsAssumption
    <3>2. conn.lus[j].lu % ByteMod = conn.lus[j].lu
      <4> HIDE DEF conn
      <4> QED BY <2>6, <3>1, BoundsAssumption, SmallMod, SMTT(60)
    <3>3. k.lus[j] = conn.lus[j].lu
      BY <2>3, <3>2, ZenonT(60)
    <3> QED BY <2>1, <2>2, <3>3, TargetOf
  <2>7. ASSUME NEW j \in DOMAIN conn.lus, conn.lus[j].lu \in 0 .. ByteMod - 1, NEW f \in Fields
        PROVE  TargetForLU(cfg, k.name, k.lus[j])[f] =
                  IF conn.lus[j].target[f] # "" THEN conn.lus[j].target[f] ELSE cfg.default[f]
    BY <2>6, <2>7, ZenonT(60) DEF Resolve
  <2> HIDE DEF conn
  <2>8. RoutedAs(k, conn)
    BY <2>2, <2>5, <2>7 DEF RoutedAs
  <2> QED BY <2>8 DEF conn
<1> QED BY <1>1, NoEmptyField

LEMMA InitRoute == Init => RouteInv
<1> SUFFICES ASSUME Init, cmd = "run" PROVE RouteInv
  BY DEF RouteInv
<1>1. pc = "start" /\ cfg \in Configs /\ \A l \in LinkId : links[l] = NoLink
  BY DEF Init
<1>2. NoLink.by = "none"
  BY DEF NoLink
<1> QED BY <1>1, <1>2 DEF RouteInv, Idle

\* Once the configuration is loaded, or before, a step may leave a link to the
\* goroutine that serves it, free it, accept it or serve it.
SameLink(l) ==
    /\ links'[l].by = links[l].by /\ links'[l].mac = links[l].mac
    /\ links'[l].name = links[l].name /\ links'[l].lus = links[l].lus

LEMMA KeepRoute ==
    ASSUME RouteInv, UNCHANGED <<cmd, cfg>>,
           pc' = "start" => pc = "start",
           pc' \in {"listen", "accept"} => pc \in {"listen", "accept"} \/ cmd # "run",
           \A l \in LinkId :
              \/ SameLink(l)
              \/ links'[l].by = "none"
              \/ links'[l].by = "start" /\ pc = "accept" /\ pc' = "accept"
              \/ /\ links[l].by # "none"
                 /\ links'[l].by \in {"serving", "done"} /\ cmd = "run" => Served(links'[l])
    PROVE  RouteInv'
<1> SUFFICES ASSUME cmd = "run" PROVE RouteInv'
  BY DEF RouteInv
<1>1. pc' = "start" => cfg' \in Configs /\ Idle'
  BY DEF RouteInv, Idle, SameLink
<1>2. pc' \in {"listen", "accept"} \/ ~ Idle' => Loaded(cfg')
  BY DEF RouteInv, Idle, SameLink
<1>3. \A l \in LinkId : links'[l].by \in {"serving", "done"} => Served(links[l])'
  BY DEF RouteInv, SameLink, Served
<1> QED BY <1>1, <1>2, <1>3 DEF RouteInv

LEMMA ExitRoute ==
    ASSUME RouteInv, NEW how, NEW ls, Exit(how, ls), \A l \in LinkId : DOMAIN ls[l] = LinkFields,
           DOMAIN ls = LinkId,
           \A l \in LinkId :
              /\ ls[l].by = links[l].by /\ ls[l].mac = links[l].mac
              /\ ls[l].name = links[l].name /\ ls[l].lus = links[l].lus
    PROVE  RouteInv'
<1>1. pc' = "exited" /\ UNCHANGED <<cmd, cfg>>
  BY DEF Exit
<1>2. \A l \in LinkId : links'[l] = IF ls[l].st \in {"backlog", "up", "closing"}
                                    THEN [ls[l] EXCEPT !.st = "wedged"] ELSE ls[l]
  BY DEF Exit
<1>3. \A l \in LinkId : SameLink(l)
  BY <1>2, ZenonT(60) DEF SameLink, LinkFields
<1> QED BY <1>1, <1>3, KeepRoute

\* A link that changes its state only.
LEMMA Untouched ==
    ASSUME DOMAIN links = LinkId, \A l \in LinkId : DOMAIN links[l] = LinkFields, NEW m \in LinkId,
           NEW st, links' = [links EXCEPT ![m].st = st]
    PROVE  \A l \in LinkId : SameLink(l)
  BY DEF SameLink, LinkFields

LEMMA CloseUntouched ==
    ASSUME DOMAIN links = LinkId, \A l \in LinkId : DOMAIN links[l] = LinkFields, NEW m \in LinkId
    PROVE  LET ls == [links EXCEPT ![m] = Closed(@)]
           IN  /\ DOMAIN ls = LinkId
               /\ \A l \in LinkId :
                     /\ DOMAIN ls[l] = LinkFields
                     /\ ls[l].by = links[l].by /\ ls[l].mac = links[l].mac
                     /\ ls[l].name = links[l].name /\ ls[l].lus = links[l].lus
  BY DEF Closed, LinkFields

LEMMA MainRoute ==
    ASSUME Shape, Where, RouteInv, Main \/ Handler \/ AcceptFails \/ Signal \/ MainReturns
    PROVE  RouteInv'
<1>1. DOMAIN links = LinkId /\ \A l \in LinkId : DOMAIN links[l] = LinkFields
  BY DEF Shape
<1>2. ASSUME NEW how, Exit(how, links) PROVE RouteInv'
  BY <1>1, <1>2, ExitRoute
<1>3. ASSUME NEW how, Exit(how, [links EXCEPT ![1] = Closed(@)]) PROVE RouteInv'
  <2> DEFINE ls == [links EXCEPT ![1] = Closed(@)]
  <2>1. /\ DOMAIN ls = LinkId
        /\ \A l \in LinkId :
              /\ DOMAIN ls[l] = LinkFields
              /\ ls[l].by = links[l].by /\ ls[l].mac = links[l].mac
              /\ ls[l].name = links[l].name /\ ls[l].lus = links[l].lus
    BY <1>1, CloseUntouched, OneIsLink
  <2>2. Exit(how, ls)
    BY <1>3
  <2> HIDE DEF ls
  <2> QED BY <2>1, <2>2, ExitRoute
<1>4. CASE Load
  <2>1. CASE cmd = "run" /\ cfg' = Defaulted(cfg) /\ Valid(cfg)
    <3>1. pc = "start" /\ pc' = "listen" /\ links' = links /\ cmd' = cmd
      BY <1>4, <2>1 DEF Load, Exit
    <3> QED BY <2>1, <3>1 DEF RouteInv, Idle, Loaded
  <2>2. CASE cmd # "run"
    BY <1>4, <2>2 DEF Load, RouteInv
  <2> QED BY <1>2, <1>4, <2>1, <2>2 DEF Load
<1>5. CASE Listen \/ AcceptFails
  <2>1. CASE pc = "listen" /\ pc' = "accept" /\ UNCHANGED <<cmd, cfg, links>>
    BY <2>1, KeepRoute DEF SameLink
  <2> QED BY <1>2, <1>5, <2>1 DEF Listen, AcceptFails
<1>6. CASE Dial \/ DialFails \/ ReadEnds \/ Notify \/ Handler \/ MainReturns
  <2>1. cmd # "run" /\ cmd' = cmd
    BY <1>6 DEF Where, Dial, DialFails, ReadEnds, Notify, Handler, HandlerCloses, HandlerExits,
                MainReturns, Exit
  <2> QED BY <2>1 DEF RouteInv
<1>7. CASE Signal
  <2>1. CASE UNCHANGED <<cmd, cfg, pc, links>>
    BY <2>1, KeepRoute DEF SameLink
  <2> QED BY <1>2, <1>7, <2>1 DEF Signal
<1> QED BY <1>4, <1>5, <1>6, <1>7 DEF Main

LEMMA LinkRoute ==
    ASSUME Shape, RouteInv, NEW m \in LinkId,
           \/ \E mac \in Mac : PeerCalls(m, mac)
           \/ Accept(m) \/ Serve(m) \/ ServeEnds(m) \/ PeerDrops(m) \/ DiscSent(m)
    PROVE  RouteInv'
<1>1. DOMAIN links = LinkId /\ \A l \in LinkId : DOMAIN links[l] = LinkFields
  BY DEF Shape
<1>2. UNCHANGED <<cmd, cfg, pc>>
  BY DEF PeerCalls, Accept, Serve, ServeEnds, PeerDrops, DiscSent
<1>3. \A l \in LinkId \ {m} : SameLink(l)
  BY <1>1 DEF SameLink, PeerCalls, Accept, Serve, ServeEnds, PeerDrops, DiscSent
<1>4. ASSUME NEW mac \in Mac, PeerCalls(m, mac) PROVE links'[m].by = "none"
  BY <1>1, <1>4 DEF PeerCalls, NoLink
<1>5. CASE Accept(m)
  <2>1. links'[m].by = "start" /\ pc = "accept"
    BY <1>1, <1>5 DEF Accept, LinkFields
  <2> QED BY <1>2, <1>3, <2>1, KeepRoute
<1>6. CASE Serve(m)
  <2>1. links[m].by = "start"
    BY <1>6 DEF Serve
  <2>2. /\ links'[m].mac = links[m].mac
        /\ cmd = "run" => /\ links'[m].name = MatchConnection(cfg, links[m].mac)
                          /\ links'[m].lus = LuAddresses(cfg, MatchConnection(cfg, links[m].mac))
    BY <1>1, <1>6 DEF Serve, LinkFields
  <2>3. cmd = "run" => Served(links'[m])
    BY <2>2 DEF Served
  <2> QED BY <1>2, <1>3, <2>1, <2>3, KeepRoute
<1>7. CASE ServeEnds(m)
  <2>1. /\ links[m].by = "serving"
        /\ links'[m].mac = links[m].mac /\ links'[m].name = links[m].name /\ links'[m].lus = links[m].lus
    BY <1>1, <1>7 DEF ServeEnds, Closed, LinkFields
  <2>2. cmd = "run" => Served(links'[m])
    BY <2>1 DEF RouteInv, Served
  <2> QED BY <1>2, <1>3, <2>1, <2>2, KeepRoute
<1>8. CASE PeerDrops(m) \/ DiscSent(m)
  <2>1. \A l \in LinkId : SameLink(l)
    BY <1>1, <1>8, Untouched DEF PeerDrops, DiscSent
  <2> QED BY <1>2, <2>1, KeepRoute
<1>9. ASSUME NEW mac \in Mac, PeerCalls(m, mac) PROVE RouteInv'
  BY <1>2, <1>3, <1>4, <1>9, KeepRoute
<1> QED BY <1>5, <1>6, <1>7, <1>8, <1>9

LEMMA StepRoute == WhereInv /\ RouteInv /\ [Next]_vars => RouteInv'
<1> SUFFICES ASSUME Shape, Where, RouteInv, [Next]_vars PROVE RouteInv'
  BY DEF WhereInv
<1>1. CASE UNCHANGED vars
  BY <1>1, KeepRoute DEF vars, SameLink
<1>2. CASE Main \/ Handler \/ AcceptFails \/ Signal \/ MainReturns
  BY <1>2, MainRoute
<1>3. CASE \E l \in LinkId : \/ Accept(l) \/ Serve(l) \/ ServeEnds(l)
                            \/ PeerDrops(l) \/ DiscSent(l)
                            \/ \E mac \in Mac : PeerCalls(l, mac)
  BY <1>3, LinkRoute
<1> QED BY <1>1, <1>2, <1>3 DEF Next, Finished

(***************************************************************************)
(* A link is served as the connection that alone has its MAC address, each *)
(* of its LUs from 0 to 255 goes to the target configured for it, and      *)
(* nothing is dialled with an empty host, port or model.                   *)
(***************************************************************************)
THEOREM LinksRouted == Spec => []Routed
<1>1. RouteInv => Routed
  <2> SUFFICES ASSUME RouteInv, cmd = "run", NEW l \in LinkId, links[l].by \in {"serving", "done"}
               PROVE  Loaded(cfg) /\ Served(links[l])
    BY ServedRight DEF Routed
  <2> QED BY DEF RouteInv, Idle
<1> QED BY <1>1, InitRoute, InitWhere, StepRoute, StepWhere, PTL DEF Spec

-----------------------------------------------------------------------------
(***************************************************************************)
(* Type correctness.  The dial loop counts no attempt beyond the last one, *)
(* and an LU's address is a byte, whatever number is configured.           *)
(***************************************************************************)
Places ==
    /\ pc \in {"start", "listen", "accept", "dial", "reading", "unguarded", "guarded", "exited"}
    /\ exit \in {"none", "ok", "error", "returned", "signal", "killed"}
    /\ signal \in {"none", "caught", "closed"}
    /\ tries \in 0 .. DialTries
    /\ pc = "start" => tries = 0
    /\ pc = "dial" => tries < DialTries

LinkType(k) ==
    /\ k.st \in LinkState
    /\ k.by \in {"none", "start", "serving", "done"}
    /\ \A i \in DOMAIN k.lus : k.lus[i] \in 0 .. ByteMod - 1

LinkTypes == \A l \in LinkId : LinkType(links[l])

LEMMA AddressesAreBytes ==
    ASSUME NEW c, Loaded(c), NEW name
    PROVE  \A j \in DOMAIN LuAddresses(c, name) : LuAddresses(c, name)[j] \in 0 .. ByteMod - 1
<1> DEFINE I == {k \in 1 .. Len(c.connections) : c.connections[k].name = name}
           m == IF I # {} THEN Min(I) ELSE 0
<1>1. LuAddresses(c, name) =
         IF m = 0 THEN <<>>
         ELSE [j \in DOMAIN c.connections[m].lus |-> c.connections[m].lus[j].lu % ByteMod]
  BY DEF LuAddresses, SelectInSeq
<1>2. c.connections \in Seq(Connection) /\ DOMAIN c.connections = 1 .. Len(c.connections)
      /\ Len(c.connections) \in Nat
  BY LoadedConfig
<1>3. CASE I # {}
  <2>1. I \in SUBSET Nat
    BY <1>2
  <2>2. Min(I) \in I
    <3> HIDE DEF I
    <3> QED BY <1>3, <2>1, LeastIsMin, SMTT(60)
  <2>3. m \in DOMAIN c.connections
    BY <1>2, <1>3, <2>2
  <2> DEFINE lus == c.connections[m].lus
  <2>4. lus \in Seq([lu : Int, target : Target])
    <3> HIDE DEF m
    <3>1. c.connections[m] \in Connection
      BY <1>2, <2>3
    <3> QED BY <3>1 DEF Connection
  <2>5. m # 0
    BY <1>2, <2>3, SMTT(60)
  <2>6. LuAddresses(c, name) = [j \in DOMAIN lus |-> lus[j].lu % ByteMod]
    BY <1>1, <2>5
  <2> HIDE DEF lus
  <2>7. ASSUME NEW j \in DOMAIN lus PROVE lus[j].lu % ByteMod \in 0 .. ByteMod - 1
    <3> DEFINE T == [lu : Int, target : Target]
    <3>1. lus[j] \in T
      <4>1. lus \in Seq(T)
        BY <2>4
      <4> HIDE DEF T
      <4> QED BY <2>7, <4>1, SeqDomain
    <3>2. lus[j].lu \in Int
      BY <3>1
    <3> QED BY <3>2, BoundsAssumption
  <2> QED BY <2>6, <2>7
<1>4. CASE I = {}
  <2>1. m = 0
    BY <1>4
  <2>2. LuAddresses(c, name) = <<>>
    <3> HIDE DEF m
    <3> QED BY <1>1, <2>1
  <2> QED BY <2>2
<1> QED BY <1>3, <1>4

LEMMA ClosedType ==
    ASSUME NEW k, DOMAIN k = LinkFields, LinkType(k)
    PROVE  /\ LinkType(Closed(k))
           /\ LinkType([Closed(k) EXCEPT !.by = "done"])
  BY DEF LinkType, Closed, LinkFields, LinkState

\* The end of the process leaves links of their type.
LEMMA ExitTypes ==
    ASSUME Places, NEW how \in {"ok", "error", "returned", "signal", "killed"}, NEW ls,
           \A l \in LinkId : DOMAIN ls[l] = LinkFields /\ LinkType(ls[l]),
           Exit(how, ls), signal' \in {"none", "caught", "closed"}
    PROVE  Places' /\ LinkTypes'
<1>1. /\ pc' = "exited" /\ exit' = how /\ tries' = tries
      /\ \A l \in LinkId : links'[l] = IF ls[l].st \in {"backlog", "up", "closing"}
                                       THEN [ls[l] EXCEPT !.st = "wedged"] ELSE ls[l]
  BY DEF Exit
<1>2. ASSUME NEW l \in LinkId PROVE LinkType(links'[l])
  BY <1>1, <1>2, ZenonT(60) DEF LinkType, LinkFields, LinkState
<1> QED BY <1>1, <1>2 DEF Places, LinkTypes

LEMMA MainTypes ==
    ASSUME Shape, Places, LinkTypes, Main \/ Handler \/ AcceptFails \/ Signal \/ MainReturns
    PROVE  Places' /\ LinkTypes'
<1>1. DOMAIN links = LinkId /\ \A l \in LinkId : DOMAIN links[l] = LinkFields /\ LinkType(links[l])
  BY DEF Shape, LinkTypes
<1>2. DialTries \in Nat /\ DialTries # 0 /\ tries \in Nat
  BY BoundsAssumption DEF Places
<1>3. ASSUME NEW how \in {"ok", "error", "returned", "signal", "killed"}, Exit(how, links),
             UNCHANGED signal
      PROVE  Places' /\ LinkTypes'
  BY <1>1, <1>3, ExitTypes DEF Places
<1> DEFINE ls == [links EXCEPT ![1] = Closed(@)]
<1>4. \A l \in LinkId : DOMAIN ls[l] = LinkFields /\ LinkType(ls[l])
  BY <1>1, OneIsLink, ClosedType DEF Closed
<1>5. ASSUME NEW how \in {"ok", "error", "returned", "signal", "killed"}, Exit(how, ls),
             UNCHANGED signal
      PROVE  Places' /\ LinkTypes'
  <2> HIDE DEF ls
  <2> QED BY <1>4, <1>5, ExitTypes DEF Places
<1>6. CASE Load
  <2>1. CASE pc = "start" /\ pc' \in {"listen", "dial"} /\ UNCHANGED <<exit, tries, links, signal>>
    BY <1>2, <2>1 DEF Places, LinkTypes
  <2> QED BY <1>3, <1>6, <2>1 DEF Load
<1>7. CASE Listen \/ AcceptFails
  <2>1. CASE pc' = "accept" /\ UNCHANGED <<exit, tries, links, signal>>
    BY <2>1 DEF Places, LinkTypes
  <2> QED BY <1>3, <1>7, <2>1 DEF Listen, AcceptFails
<1>8. CASE Dial
  <2>1. tries' \in 0 .. DialTries
    BY <1>2, <1>8 DEF Dial, Places
  <2>2. pc' \in {"reading", "unguarded"} /\ exit' = exit /\ signal' = signal
    BY <1>8 DEF Dial
  <2>3. ASSUME NEW l \in LinkId PROVE LinkType(links'[l])
    BY <1>1, <1>8 DEF Dial, LinkType, LinkFields, LinkState
  <2> QED BY <2>1, <2>2, <2>3 DEF Places, LinkTypes
<1>9. CASE DialFails
  <2>1. CASE tries + 1 < DialTries /\ tries' = tries + 1 /\ UNCHANGED <<pc, exit, links, signal>>
    <3>1. tries' \in 0 .. DialTries /\ tries' < DialTries /\ pc # "start"
      BY <1>2, <1>9, <2>1 DEF DialFails
    <3> QED BY <2>1, <3>1 DEF Places, LinkTypes
  <2> QED BY <1>3, <1>9, <2>1 DEF DialFails
<1>10. CASE ReadEnds \/ MainReturns
  BY <1>5, <1>10 DEF ReadEnds, MainReturns
<1>11. CASE Notify
  BY <1>11 DEF Notify, Places, LinkTypes
<1>12. CASE Signal
  <2>1. CASE pc = "guarded" /\ signal' = "caught" /\ UNCHANGED <<pc, exit, tries, links>>
    BY <2>1 DEF Places, LinkTypes
  <2> QED BY <1>3, <1>12, <2>1 DEF Signal
<1>13. CASE Handler
  <2>1. CASE HandlerCloses
    <3>1. links' = ls /\ signal' = "closed" /\ UNCHANGED <<pc, exit, tries>>
      BY <2>1 DEF HandlerCloses
    <3> HIDE DEF ls
    <3> QED BY <1>4, <3>1 DEF Places, LinkTypes
  <2> QED BY <1>3, <1>13, <2>1 DEF Handler, HandlerExits
<1> QED BY <1>6, <1>7, <1>8, <1>9, <1>10, <1>11, <1>12, <1>13 DEF Main

LEMMA LinksTypes ==
    ASSUME Shape, RouteInv, Places, LinkTypes, NEW m \in LinkId,
           \/ \E mac \in Mac : PeerCalls(m, mac)
           \/ Accept(m) \/ Serve(m) \/ ServeEnds(m) \/ PeerDrops(m) \/ DiscSent(m)
    PROVE  Places' /\ LinkTypes'
<1>1. DOMAIN links = LinkId /\ DOMAIN links[m] = LinkFields /\ LinkType(links[m])
  BY DEF Shape, LinkTypes
<1>2. UNCHANGED <<pc, exit, tries, signal>>
  BY DEF PeerCalls, Accept, Serve, ServeEnds, PeerDrops, DiscSent
<1>3. \A l \in LinkId \ {m} : links'[l] = links[l]
  BY <1>1 DEF PeerCalls, Accept, Serve, ServeEnds, PeerDrops, DiscSent
<1>4. LinkType(links'[m])
  <2>1. ASSUME NEW mac \in Mac, PeerCalls(m, mac) PROVE LinkType(links'[m])
    <3>1. links'[m] = [NoLink EXCEPT !.st = "backlog", !.mac = mac]
      BY <1>1, <2>1 DEF PeerCalls
    <3>2. links'[m].st = "backlog" /\ links'[m].by = "none" /\ links'[m].lus = <<>>
      BY <3>1 DEF NoLink
    <3> QED BY <3>2 DEF LinkType, LinkState
  <2>2. CASE Accept(m)
    BY <1>1, <2>2 DEF Accept, LinkType, LinkState, LinkFields
  <2>3. CASE Serve(m)
    <3>1. /\ links'[m].by = "serving" /\ links'[m].st = links[m].st
          /\ links'[m].lus = IF cmd = "run" THEN LuAddresses(cfg, MatchConnection(cfg, links[m].mac))
                             ELSE <<>>
      BY <1>1, <2>3 DEF Serve, LinkFields
    <3>2. cmd = "run" => Loaded(cfg)
      BY <2>3 DEF Serve, RouteInv, Idle
    <3>3. CASE cmd = "run"
      BY <1>1, <3>1, <3>2, <3>3, AddressesAreBytes DEF LinkType
    <3>4. CASE cmd # "run"
      BY <1>1, <3>1, <3>4 DEF LinkType
    <3> QED BY <3>3, <3>4
  <2>4. CASE ServeEnds(m)
    BY <1>1, <2>4, ClosedType DEF ServeEnds
  <2>5. CASE PeerDrops(m) \/ DiscSent(m)
    BY <1>1, <2>5 DEF PeerDrops, DiscSent, LinkType, LinkState, LinkFields
  <2> QED BY <2>1, <2>2, <2>3, <2>4, <2>5
<1>5. LinkTypes'
  BY <1>3, <1>4 DEF LinkTypes
<1> QED BY <1>2, <1>5 DEF Places

(***************************************************************************)
(* Every variable keeps its type: the dial loop makes no more than         *)
(* -dial-tries attempts, and what the manager is given are bytes.          *)
(***************************************************************************)
THEOREM TypeCorrect == Spec => []TypeOK
<1> DEFINE TypeInv == Places /\ LinkTypes
<1>1. Init => TypeInv
  <2> SUFFICES ASSUME Init PROVE Places /\ LinkTypes
    OBVIOUS
  <2>1. LinkType(NoLink)
    BY DEF NoLink, LinkType, LinkState
  <2> QED BY <2>1, BoundsAssumption DEF Init, Places, LinkTypes
<1>2. WhereInv /\ RouteInv /\ TypeInv /\ [Next]_vars => TypeInv'
  <2> SUFFICES ASSUME Shape, RouteInv, Places, LinkTypes, [Next]_vars PROVE Places' /\ LinkTypes'
    BY DEF WhereInv
  <2>1. CASE UNCHANGED vars
    BY <2>1 DEF vars, Places, LinkTypes
  <2>2. CASE Main \/ Handler \/ AcceptFails \/ Signal \/ MainReturns
    BY <2>2, MainTypes
  <2>3. CASE \E l \in LinkId : \/ Accept(l) \/ Serve(l) \/ ServeEnds(l)
                              \/ PeerDrops(l) \/ DiscSent(l)
                              \/ \E mac \in Mac : PeerCalls(l, mac)
    BY <2>3, LinksTypes
  <2> QED BY <2>1, <2>2, <2>3 DEF Next, Finished
<1>3. WhereInv /\ TypeInv => TypeOK
  BY DEF WhereInv, Shape, Where, Places, LinkTypes, LinkType, TypeOK
<1> HIDE DEF TypeInv
<1> QED BY <1>1, <1>2, <1>3, InitRoute, InitWhere, StepRoute, StepWhere, PTL DEF Spec

=============================================================================
