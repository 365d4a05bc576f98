# Verification of snagateway

snagateway is a gateway between Microsoft SNA Server (LLC2 on one Ethernet
segment) and TN3270 hosts. It plays the host side of SNA: it activates the PU
and the LUs, then serves the terminals behind them, with screens of its own or
by bridging each one to a TN3270 host. This directory holds TLA+ models of that
program, the TLC configurations that check them, and proofs for TLAPS.

## 1. Inventory

Line numbers below are those of `src/`.

| component | source | state | operations | who it talks to |
|---|---|---|---|---|
| main goroutine of `sna-probe` | `cmd/snagateway/snaprobe.go`, `internal/sna/activation.go` | `snf`, `bound`, `session`, `fileSessions`, `menuSessions`, where it is | ACTPU, ACTLU with `recvAck`, the observe loop in seven modes, the waits for BIND, SDT and the sweep | the link (reads alone, writes with others), `Deliver` and `Close` of a session |
| `LU2Session` | `internal/sna/lusession.go` | `inbound` (channel of 16), `closed`, `once`, `snf`, the screen buffer | `Deliver`, `Close`, `SendToTerminal` | main goroutine, both goroutines of its bridge |
| bridge | `internal/bridge/bridge.go`, `startBridge` | two goroutines, `errc` | `Run`, then `host.Close` and `session.Close` | session, TN3270 client |
| TN3270 client | `internal/tn3270` | `tn3270e`, agreed options, record under construction | `ReadRecord`, negotiation, `WriteRecord` | TCP connection, read by one goroutine and written by two |
| PIU framing | `internal/sna/sna.go` (`SplitPIUs`), `piuReader`, segmenting in `lusession.go` | queue of PIUs | read, split, segment, write | LLC2 socket |
| LLC2 socket | `internal/llc2` | a descriptor | `Dial`, `Listen`, `Accept`, `Read`, `Write`, `Close` | kernel |
| dial loop and signal handler | `snaprobe.go:107-140` | attempts, `sigCh` | dial, retry, close the link and exit | main goroutine, kernel |
| service (`run`), `Manager` | `cmd/snagateway/run.go`, `internal/sna/session.go` | configuration, one goroutine per link | accept, identify, serve, close; `Manager.Run` returns `ErrNotImplemented` | configuration, LLC2 |
| configuration | `internal/config` | connections, LUs, targets, the default | `Load`, `Validate`, `TargetForLU` | service |
| text of screens, input | `charScreen`, `echoScreen`, `showFileDatastream`, `extractInput` in `snaprobe.go` | none | lay out lines, recover what was typed | main goroutine, screen, menu |
| diagnostic commands | `probe.go`, `main.go` | links | log what arrives | LLC2 |

What is hard in this program:

- One goroutine reads the link for every LU. It waits in four places (`recv`
  after ACTPU, ACTLU, BIND and SDT, and the sweep) for *the next PIU, whatever
  it is*, while the LUs go on sending requests that must be acknowledged; and it
  blocks in `Deliver` when one terminal's host is slow.
- A bridge is three goroutines, two channels and a socket, ended from four sides
  (host, link, terminal, socket error), with `Close` called by two of them.
- `session` and `bound` are single variables for all LUs, changed by NOTIFYs
  that come in any order with logons, lines and disconnects.
- FID2 has no length, AF_LLC coalesces frames and the TN3270 negotiation shares
  one byte stream with the data.
- The display buffer wraps, its addresses come from the host unchecked, and
  `Apply` runs with the session's mutex held.
- A process that ends without DISC on the wire leaves its link pending at SNA
  Server, and a signal, a failure and the end of the main goroutine race.

The hazards, each at its line and with the properties that cover it, are in
`PROJECT.json`.

## 2. Modules

```
SnaServer        environment: SNA Server, its terminals, the link
   |  EXTENDS
SnaProbe         main goroutine; a bridge is a queue with a reader
   |  EXTENDS             \  INSTANCE: each session keeps to the contract
MCSnaProbe,                 Relay   contract between main goroutine and bridge
SnaProbeProofs              /  INSTANCE: the bridge implements it
                            |
                         Bridge     goroutines, channels, socket of one bridge
                            |  EXTENDS
                      BridgeProofs
Menu (MCMenu, MenuProofs)           one menu session and the lines it is given
Screen (MCScreen, ScreenProofs)     the display buffer, and the texts laid out in it
Framing (MCFraming, FramingProofs)  segments out, SplitPIUs and piuReader in
Telnet (MCTelnet, TelnetProofs)     TN3270 client against a host
Service (MCService, ServiceProofs)  the commands as owners of links; configuration
Lemmas                              of the proofs: induction, sequences, FlattenSeq
```

**SnaServer** (external). `toGw` and `toSrv` are the two directions of the link:
LLC2 delivers whole frames in order. A PIU keeps only what the gateway's dispatch
looks at: request or response, type, LU, and which attachment of a terminal it
belongs to. An LU has at most one request outstanding (`owed`), because every
request it sends asks for a definite response; this is what makes a lost
acknowledgement fatal (comment of `recvAck`, `snaprobe.go:419`). The link may be
lost at any time. `Restarted` lets a terminal be attached before the gateway
starts (the case of `snaprobe.go:228`). `due` counts the screens a terminal waits
for.

**SnaProbe**. `pc` is where the main goroutine is. One action per test of the
observe loop, in the order of the code: an action's guard is the test it stands
for and the negation of the earlier ones, and each begins with the
acknowledgement of `snaprobe.go:184`. `flags` are the mode flags of the command
line. `RecvBindRsp`, `SdtDone`, `SweepNext` and their timeouts are the inner waits:
they read any PIU, as `recv` does. A timeout is enabled whenever nothing has
arrived, so it races the answer. `deliver` is the blocking `Deliver` of a full
channel. `sessions` keeps every session ever started, so that one that is no
longer known to the main goroutine is still there to relay. `SnfMod` stands for
2^16, `SweepLen` for the 23 addresses of `sweepBind`. Two history variables, which no
action looks at, record what becomes of a request that an inner wait reads in place of
the response it waits for: `unserved` counts the prompts of each LU (attach or line)
lost that way, `unanswered` holds the LUs a request of which was not acknowledged either.

**Relay**. What a session promises to the main goroutine: `inbound` within its
capacity, closed only once, drained as long as a goroutine of the bridge runs,
and ended only together with being closed. SnaProbe uses sessions within it
(`UsesRelay`), Bridge implements it with its fairness (`KeepsRelay`), so that the
coarse bridge of SnaProbe is justified by the fine one.

**Bridge**. The two goroutines of `Run`, the goroutine of `startBridge` after it,
`errc`, `once`, and a TCP connection with a socket buffer that may be reset.
`select` in `Deliver` and in the input goroutine chooses any ready case, as Go
does. `bufio` may return a record after the connection is closed. A write after
a reset may be taken and lost.

**Menu**. `Session` with its `state`, one action per branch of `Input`; a file is the
lengths of its lines, chosen when it is opened because the code reads it then. A
row on the screen names the bytes it shows, so that wrapping and paging are the
code's arithmetic and `FileShown` compares bytes. What the user types is words
and colons. The terminal returns the line, or all it displays once it has
scrolled (`Display`), and `ExtractInput` has to find the word again. The
assumptions are what `validate` checks.

**Screen**. A host's record is a command and orders it chooses as `Apply` goes on; one
action per order, a loop of its own for RA and EUA, since that is the one that may not
end. Beside it `flat` is a terminal that has no fields and gets the record as
`Flatten` rewrites it: what `Linear` shows and what `Flatten` leaves are two ways to serve
the same terminal, and each is the reference for the other. (No caller of
`Flatten` is left in the program.) Instead of a host, `source` may be lines of a menu or
echo, or a file, made into orders as `echoScreen` and `showFileDatastream` do. Left out:
the cursor, which is written and never read. An address that cannot be a cell of the display
stands for 1920 to 4095. A record may break off within its last order. Within SBA, RA, EUA,
SA, MF or GE neither `Apply` nor the terminal does anything (`EndRecord`). An SF without its
attribute byte ends `Apply`, and `Flatten` makes a blank of it (`CutSF`); an SFE with fewer pairs
than it announces sets the attribute, and half a pair that is left over is a character for
`Apply` and nothing for `Flatten` (`CutSFE`). The history variable `apart` holds the cells that were last
written by such a record, in one of the two buffers.

**Framing**. Outbound, the lengths and marks of segments are computed as in
`sendSSCPLU` and `BuildSSCPLUSegments`, which are the same loop; the actions are
the writes of one PIU each, which other goroutines' writes may separate. A
LU may get a second session (`NewSession`: teardown and attach) while the bridge
of the first is still sending, since `SendToTerminal` does not look at `closed` and
the main goroutine does not wait; and an LU may be served over LU-LU, where a
screen is one PIU. So it is in the echo test and for the USS screen, which the main
goroutine sends through `BuildSSCPLUData` (`diag`; there are no sessions then); the echo of a whole
screen buffer is the long one. Inbound, bytes are of three kinds, those of `SplitPIUs`' test; one
PIU carries the pattern of a header in its data. The two directions share
only the link, so a behaviour has traffic in one of them (`way`).

**Telnet**. Both TCP streams are sequences of bytes; a byte has the name of what it means
to telnet, `Data` are those without a meaning, and a record may hold any of them. A
record begins with a 3270 command or an AID, so never with the code of a data type of
TN3270E (`PayloadAssumption`; on a client that believes in TN3270E when the host does
not, such a record would pass for one with a header). The client is the reading
goroutine (one action per telnet unit) and the goroutine that writes records, at any time, as in
a bridge. Either takes two steps where the other may come between: the writer looks at
`tn3270e` (`WriteRecord`, the record is then in `writing`) and later writes the socket
(`SendRecord`); the reader sets `tn3270e` (`AcceptTn3270e`) and later writes its reply
(`HandleNegotiation`). So a record begun without a header may be written after WILL TN3270E, or
after the whole negotiation. The field is one byte: a load returns the old value or the
new one. The host (external) is one that knows only the basic options, one that
offers TN3270E first, or one that offers it, rejects the device type, withdraws
the option and falls back.

**Service**. The four commands that own links, as processes with a main goroutine, one
goroutine per accepted link, and the signal handler of `sna-probe`. A link is
`up`, `down` (the other end has gone), `closing` until the kernel has sent DISC, `closed`,
or `wedged`: what a process leaves behind that ends before, as the comment at
`snaprobe.go:127` describes it. Callers come from any MAC address. The configuration
is what the file says, and after `Load` what `Validate` made of it. A target is its
host, port and model; `tn3270e` is left out, as `resolve` does: its zero value is a
choice, so the default's does not reach the LUs that have a target of their own.

`PROJECT.json` maps every definition to its lines. Definitions commented "Mutant
of X" are wrong variants of X used to test the properties; no specification
refers to them.

## 3. Runs

| run | configuration | shows |
|---|---|---|
| `probe_terminals` | 4 LUs, menu, echo, file and USS screen; 7 requests | acknowledgements, one screen per prompt and which get none, numbers, menu owners |
| `probe_bridges` | 1 LU: menu, USS bridge, BIND or sweep, terminal attached before; channel of 1, 7 requests, numbers modulo 4 | blocking `Deliver`, bridge ending at any time, `Relay`; waits end, which requests are answered, SDT after BIND, one bridge |
| `bridge` | channel of 2, socket of 1, 4 inputs, 2 host records | order, no double close, everything ends, implements `Relay` |
| `menu_walk` | 2 users (one name twice), cyclic menus, files of rows of 2 on pages of 2, 18 things to type | logon, stack, prompts, whole files, input recovered |
| `framing` | 2 LUs, one of them LU-LU or not, 2 sessions each or the echo and USS tests, 3 screens of up to 3 segments, window 2; 4 inbound PIUs | segments, sizes, splitting |
| `telnet` | clients with and without TN3270E, three hosts, 2 records each way, payloads of 1 to 6 bytes with IAC and IAC EOR | answers, agreement, records |
| `screen` | 4 cells and 5 addresses; 2 records of up to 3 orders, whole or broken off; texts of up to 3 lines on 2 rows of 2 | `Apply` and `Linear` against `Flatten`, layout, `Apply` returns |
| `service` | 4 commands, 6 configurations (4 refused), 2 links, 3 callers, LU numbers modulo 4, 2 dial attempts | routing, targets, links closed, callers served, signals end the process |
| `lost_request`, `no_rebind`, `cross_input`, `wedged_link` | small | four places where the code departs from its comments |

Why the bounds are enough. The bounds on requests (`MaxRequests`) let every LU of
a run go through activation, attach, type, detach and attach again, with another
LU's request between any two steps; two LUs are the case the comment of `recvAck` reports,
and with four the activation reads an attach of one in place of another's ACTLU response, which with
three it does not, as SNA Server answers the ACTLU under way first. A channel of capacity 1
or 2 and a socket of 1 fill up within the inputs a run has (4 inputs: one in the socket,
one being written, two in the channel, so `Deliver` blocks). Numbers modulo 4 wrap within the run
`probe_bridges`, where no property compares them; runs that compare them have a
modulus above the bound, as 65,536 requests are not reached between two
restarts. Screens of 2, 4 and 5 bytes with 2 in a PIU are each case of the segmenting
loop: whole, full last piece, middle and cut last piece. Lines of 0, 2 and 5 bytes
in rows of 2 are empty, full and wrapped twice with a rest, and files of them
fill pages of 2 in part, in whole and with more to come. A display of 4 cells
wraps within the 3 orders of a record, an address outside it is there, and a
second record finds the attributes the first one left; lines are shorter, as
long as and longer than a row, before and after their tabs are expanded, and
there are more lines than rows. Two links are one in use and one that calls. `MaxDepth` caps
the menu stack, which the code lets grow in a cyclic configuration.

Deadlock is checked except where traffic is bounded and everything has been
sent (`framing`, `telnet`, `screen`). In the other runs `Finished` and `Ended` stutter only
where the process, or the bridge, has ended or waits for the environment.

Fairness. The goroutines are scheduled (the Go runtime), waits time out
(`SO_RCVTIMEO`), SNA Server reads the link, a bridge's host reads its
connection. Nothing obliges SNA Server to send, a terminal to type or the link
to fail. The host's reading is needed: without it `WriteRecord` blocks in the
socket for ever, then the channel fills, then `Deliver` blocks the main goroutine and every
LU with it. The code has no timeout there; `DeliverReturns` holds only for hosts that
read. In `screen` `Apply` is a loop that nothing interrupts. In `service` each goroutine runs and the
kernel sends DISC; callers, failures and signals are not assumed, nor that the
main goroutine of `sna-probe` ever returns. The grace of 300 ms is taken to be
enough for DISC (guard of `HandlerExits`), the only assumption on time.

Some properties state what holds together with where it stops holding, since the code
gives no more:

- `ScreensReassembled`: not for an LU two of whose sessions were sending at once
  (`mixed`): segments of two screens interleave and SNA Server puts together a screen
  nobody sent.
- `OneScreenPerPrompt`: not for an attach or a line that the activation reads in place of
  another LU's ACTLU response (`unserved`): it is acknowledged and nothing ever serves it.
- `RequestServed`: not for a request read in the waits for BIND, SDT or the sweep
  (`unanswered`). With one LU this is the disconnect, or another line, of the user being bound.
- `PiusFit`, `ScreenArrives`: a LU-LU screen above the BTU drops the link, and so does one of
  the echo test or the USS test, which `BuildSSCPLUData` does not segment.
- `PiusIntact`: all bytes arrive in order, but PIUs are whole only up to the first
  one whose data contain the pattern of a header. That one is cut, and may swallow the
  next.
- `Agreement`, `RecordsRead`, `RecordsWritten`: after a rejected device type the client goes on
  as if TN3270E were agreed, strips five bytes of each record, shows none, and
  prefixes five to what it sends.
- `RecordsWritten`: the first record a host in TN3270E mode takes may have been begun before `tn3270e`
  was set; it has no header, and the host takes its first five bytes for one. No
  later record is like that, since the writer looks again for each.
- `ApplyEnds`: unless RA or EUA names an address outside the display. Then it never
  returns, and with it the goroutine that reads the host.
- `ShownAsFlattened`: an attribute hides a character written over it until the next
  erase; EAU does not remove attributes. A record that breaks off within SF or SFE leaves one
  cell different (`apart`) until it is written again or erased.
- `LinesShown`: a menu or echo is laid out as it is only if it fits 24 rows of 80
  and has no tabs, which nothing checks; a model 5 display is 132 wide and its rows still
  begin at multiples of 80.
- `Routed`: for LU numbers from 0 to 255 and MAC addresses of one connection.
- `SignalEnds`: with DISC on the wire unless the main goroutine returns first; a signal
  before `signal.Notify` is not caught.

### Where the code departs from its own text

Each has a run whose only property is the statement, and TLC's counterexample.

- `lost_request`: `recv` in the BIND wait drops another LU's NOTIFY without a
  response, the failure that `recvAck` was written against.
- `no_rebind`: the teardown does not reset `bound`; a reconnecting user's logon is
  ignored until the gateway is restarted, which the comment says it avoids.
- `cross_input`: input is delivered to the one bridge whichever LU it comes from.
- `wedged_link`: after a signal the handler closes the link, the main goroutine's read fails, and
  it returns and ends the process within the grace: DISC does not reach the wire and
  the link stays pending, which the comments say the grace prevents.

Seen while modelling, without a run of its own: an attach NOTIFY that `recvAck` reads in place of
an ACTLU response is acknowledged and nothing ever serves it, so that this user's screen
stays blank, which the comment of `recvAck` set out to prevent (`snaprobe.go:427`, `:436`;
`OneScreenPerPrompt` counts it in `unserved`); UNBIND is acknowledged and no branch of the loop
closes the session it ends, though "Closed is signaled when the LU-LU session ends
(UNBIND/DACTLU/link loss)" (`internal/sna/session.go:34`, `snaprobe.go:184`); with several
LUs the idle NOTIFY of any of
them tears the bridge down and a second terminal's attach is ignored while the first
is bridged (`snaprobe.go:194`, `:299`); the SDT wait goes on to bridge whatever it
reads, with two LUs also after a SDT that was never answered (`:348`); `Dial` is
documented to return "a ready client" and negotiates nothing, so that input
written at once is lost on the host (`tn3270.go:44`; `RecordsWritten` counts it in
`ignored`); a LU-LU screen is never segmented (`lusession.go:75`); "(empty file)" is never
shown, since splitting an empty text gives one empty line (`menu.go:295`); `TN3270E`
"reports whether TN3270E mode
was negotiated" (`tn3270.go:64`) is true of a client whose device type was rejected;
"our prompts all end in ":"" (`snaprobe.go:554`) does not hold for the footers of the file view,
where it does no harm, and makes a password with a colon or a blank impossible to type; the
comment of `llcConn.Read` promises one frame per read (`listen_linux.go:139`),
that of `SplitPIUs` explains why not.

## 4. Proofs

`SnaProbeProofs` proves theorems about SnaProbe. Three hold for every set of LUs, every
`-lus` list, every set of command lines, every channel capacity and every bound,
from the named assumptions of SnaServer and SnaProbe alone:

- **TypeCorrect**, `Spec => []TypeOK`. `TypeOK` with the facts about the current
  request that the serving actions need (`TypeInv`) is inductive; one lemma per
  group of actions.
- **NoRequestLost**, `Spec => [](~BindMode => EveryRequestAnswered)`: in the modes
  that do not drive BIND no request is lost or answered twice, for any number
  of LUs. `EveryRequestAnswered` is a statement about two queues and `owed`; the
  invariant `AnswerInv` adds that the goroutine is not in a wait that drops
  requests, which holds because only BIND modes have such waits. The argument
  has four facts about queues (reading another LU's PIU, reading and
  answering, appending something that is neither, and SNA Server's two steps),
  and each action is one of them. In BIND mode the statement is false: run
  `lost_request`.
- **OneBridge**, `Spec => []OneOpenSession`: at most one session is open and it is
  the one the main goroutine knows. Inductive together with: while a bridge is
  being started (BIND and SDT waits) no session is open.

Its second half is what the terminals see. The conditions in its
statements are those under which they are true; each names what goes wrong without it.

- **MenusHaveOwners**, `DistinctLus => MenuOwner`: a line never reaches the menu session
  of the user who was at that LU before, for any number of LUs. `MenuInv` says that
  whatever is on its way from an LU comes from the attachment it has now: one that detaches waits
  for the response to its NOTIFY, so the session is gone before the next user can
  attach. It needs `DormantInv` and `ActInv` (an LU that has not been activated is silent,
  and has at most one ACTLU), hence each LU once on the list.
- **OneScreenEach**, `Spec => []OneScreenPerPrompt`, for any number of LUs: what is due to a terminal
  is the prompts on their way to the gateway, the screens on their way back, and those the
  activation has lost (`Balanced`). Whatever prompt a wait reads is counted (`LostIsUnserved`),
  and every action that serves a prompt sends one screen (`PromptToScreen`).
- **OneLuIsServed**, `Spec => []AllServed`: with one LU on the list none is lost. An LU is silent
  until it gets its ACTLU, and what it sends first then is the response to it (`FirstInv`).
- **InputOfOneUser** and **InputIsOwn**, `OneLu => OwnInput`: what a session holds from its own LU was
  typed by the user it was started for (`OwnInv` with `AskedInv`, for any number of LUs); with one
  LU that is all it holds. With two it is false: run `cross_input`.
- **SessionsUseRelay**, `Spec => UsesRelay`: every step of the main goroutine that touches a
  session is one of the contract's. Together with ImplementsRelay below this is what
  lets SnaProbe stand a queue for a bridge. The attachment numbers are bounded by the requests
  (`AttachInv`), which gives each session its own instance of the contract.
- **NumbersGrow**, `NoTarget /\ NoWrap => SnfOrder`: each LU sees the numbers of its screens
  grow (`NumberInv`: what is on the link is sorted, below the counter, and the counter below
  the requests). A number of 16 bits does wrap, and a session with a target
  numbers its own screens from 1, so both are excluded.
- **SdtFollowsBind**, `OneLu => SdtAfterBind`: in the modes that drive BIND.

`BridgeProofs` proves six theorems about Bridge, for every capacity of the
channel and of the socket and every number of inputs and records, from the
assumptions of Bridge.

- **TypeCorrect**, `Spec => []TypeOK`, with what the goroutines hold (`Held`): an
  input being delivered or written is one of the user's, a record being sent one
  of the host's.
- **InputsStayInOrder**, `Spec => []InputInOrder`. The property looks at what the host
  has read only. The invariant `OrderInv` says that what the host has read, the
  socket, the input in the goroutine's hand and the channel hold consecutive
  numbers that end at `accepted`, as long as the connection is open and the goroutine
  writes; after that inputs are lost, but nothing is written any more and the
  first two stay as they are.
- **ScreensStayInOrder**, `Spec => []ScreensInOrder`: the records read so far, the one in
  hand and those shown are a beginning of what the host sent (`RecordsInOrder`, `Shows`,
  `HoldsScreen`), and as long as the goroutine goes on reading none of them has been skipped
  (`NoneSkipped`): after a failed write one is, and that is the last.
- **ClosedOnce**, `Spec => []NoDoubleClose`: `closed` and `once` agree, and the
  runner ends only after `Close` (the last part is needed below).
- **ReportsNeverBlock**, `Spec => []NeverBlocked`: the errors in `errc` are not more than
  the goroutines that have reported, so there is room for one that has not. `Run`
  takes one error and leaves; with a smaller channel the other goroutine
  would stay for ever.
- **ImplementsRelay**, `Spec => R!Spec`: every step of Bridge is a step of Relay or
  changes none of its variables. The one that needs an invariant is the end of the
  last goroutine, which is `End` of Relay only if the session is closed already.

`Lemmas` is what these proofs and the next share. The library's induction
theorems take an operator as a parameter, which no installed prover instantiates;
here a nonempty set of naturals has a least element because the intervals `1 .. k`
are finite sets and strict inclusion is well-founded on finite sets, a library
theorem without such a parameter. From it follow `Min` and `Max` of a set, hence what
`SelectInSeq` and `SelectLastInSeq` return, and induction stated with sets, up, down and over
sequences (`SetInduction`, `DownInduction`, `SeqSetInduction`). With that a recursive function has a value
everywhere: `FlattenRecursion` is that for `FlattenSeq`, and what it returns for a
concatenation, a split and an element follows. `Count` is how many elements of a sequence
are of a kind.

`MenuProofs`, for every configuration `validate` accepts and everything typed:

- **TypeCorrect**, `Spec => []TypeOK`: what `extractInput` returns is a word or the empty line,
  never a colon of a prompt (`WordIsText`), and the pages of a file are rows of its bytes (`PagesType`).
- **MenusStayForUsers**, `Spec => []MenusAreForUsers`, inductive with the types of the
  stack and the user. `FindUserFinds` and `FindItemFinds` say what the searches return;
  each way to show a menu is one instance of `ShowMenu`.
- **PasswordNeeded**, `Spec => PasswordChecked`, an action property: that nobody
  becomes another user without logging off needs the first theorem, since the code
  of the logon does not look at `user`.
- **WordRecovered**, `Spec => InputRecovered`: for every word, behind whatever prompt.
  The invariant is that only the footer of a file's page ends without a colon;
  `BehindPrompt` says what `extractInput` does with a screen that does end in one.

- **PromptsFit**, `Spec => []PromptFits`, and **FilesAreShown**, `Spec => []FileShown`, from one
  invariant (`ViewInv`): while a file is shown its pages are those of `Paginate`, the page is one of
  them and what has been shown are the rows up to it. That the rows, wrapped, are the
  file without a gap is induction over its lines.

`FramingProofs`, for every PIU size, screen length, number of LUs and sessions:

- **TypeCorrect**, `Spec => []TypeOK`: segments hold bytes of their screen only (`SegmentBytes`), and a
  session that has segments to write has counted their screen (`SenderTypes`), so no PIU goes out
  with number 0. That the bound `MaxScreens` is kept is the guard of `SendScreen` and is not part of it.
- **PiecesCover**: the segments of a screen of any length are consecutive, cover it, are
  neither empty nor above the BTU, and are marked whole, first, middle and last as
  they should be. The run has three lengths.
- **PiusAlwaysFit**, `Spec => []PiusFit`, inductive with the same statement about the
  segments still to be written: one above the BTU is a whole screen on a path that does
  not segment.
- **ScreensAreReassembled**, `Spec => []ScreensReassembled`: for an LU whose sessions have not been sending
  at once, the PIUs on the wire lead SNA Server from the screens shown and the bytes it
  holds to where the gateway is (`Leads`), and what one session has still to write
  completes its last screen (`Rest`), as `PiecesCover` says of the segments of a new one. PIUs
  of other LUs in between move nothing. After the link is lost only the first part holds.
- **PiusStayIntact**, `Spec => []PiusIntact`. `SplitPIUs` cuts where the pattern is, so flattening what it
  returns gives back what it was given (`CutType`, by induction downwards over the places where a cut
  begins), and if the RUs of all PIUs read at once are clean it returns those. The
  invariant `QueueInv` adds that nothing has changed at all while every PIU has been clean.

`TelnetProofs`, for every set of data bytes and of payloads, any number of records and any
interleaving of the client's reader and writer with the host. The properties look at what
both ends have said and read; what is in between are bytes, and the reader may be in the
middle of a record. The invariant (`TelnetInv`) says what these bytes are: there are lists of
*items* - commands, subnegotiations and records - such that the bytes not yet read,
behind what has been read of the record at hand, are those of the items (`Carries`). That a
reader which takes one unit at a time takes the first item apart, and never mistakes
the data of a record for the end of it, is `NextItem`, about streams only; it uses
that `Escape` leaves no IAC alone. Both streams are instances of it, and each
action of either side handles or appends one item.

- **TypeCorrect**, `Spec => []TypeOK`: the streams and the two records at hand are bytes, whatever
  records were escaped into them, and what either side knows of the negotiation is of its kind.
- **OffersAreAnswered**, `Spec => []OffersAnswered`: the replies read and those on their way
  match the offers handled, one for one (`OrderInv`); the others are still on their way.
- **BothAgree**, `Spec => []Agreement`: each reply that was given has its reason in what the
  client noted (`ReplyReasons`), and each note in an offer of the host (`ClientNotes`); the host
  offers the basic options only if it does not know TN3270E, was refused it or withdrew it
  (`OfferOrder`), and goes on to TN3270E only once the client has accepted (`SubReasons`).
- **RecordsAreRead**, `Spec => []RecordsRead`: the records sent are those dealt with, the one
  being read and those on their way (`ReadInv`). A record with a header is sent to a client
  that has noted TN3270E only, and one without to a client that has not, or that drops it
  (`Rejects`).
- **RecordsAreWritten**, `Spec => []RecordsWritten`: the same in the other direction. A record may be
  begun at any time, `tn3270e` may be set while it is being written, and the host's mode may change
  while it is on its way. The invariant looks at what follows WILL TN3270E on the
  stream (`AfterWill`) and at what the host has not read once it has read the WILL
  (`WillRead`): of these records, the one being written included, only the first can be
  without a header, because the writer has at most one record in hand and looks at `tn3270e`
  for the next. Records before the WILL are read before it, when the host is not ready,
  and ignored.

`ServiceProofs`, for every set of configurations, callers and links:

- **TypeCorrect**, `Spec => []TypeOK`: the dial loop counts no attempt beyond the last, and the
  addresses of a served link's LUs are bytes: they are cut from the configured numbers, which
  `Validate` does not limit.
- **LinksRouted**, `Spec => []Routed`: a configuration that was loaded is one that `Validate`
  accepts with its defaults, and a served link has what that configuration gives its
  MAC address (`RouteInv`, with where each command may be and how many links it has,
  `WhereInv`). That the name leads back to the same connection is where the
  check for duplicate names is needed, and the check for duplicate LUs for the target.

`ScreenProofs`, for every size of the display, every text and every record of the host:

- **TypeCorrect**, `Spec => []TypeOK`: every order that comes from a host, a text or a file is an
  order whose address fits its bits, and the buffer keeps its size.
- **ShownIsFlattened**, `Spec => []ShownAsFlattened`. Between two orders the buffer and that of
  the terminal without fields hold the same outside the attributes and `apart` (`Agree`); a record that
  broke off puts one cell into `apart`, and whatever writes that cell in both takes it out. Within RA and
  EUA the terminal is ahead, so `ScreenInv` says that the cells from the
  first address on, as many as the loop has gone round (`Filling`), are those that
  `Distance` will count: the loop stops the first time its address is the stop address, and
  `DistanceIs` says when that is, from what a remainder is (`OneRemainder`). A stop
  address that is none of the buffer's cells is never reached, and nothing is stated of that record.
- **LinesAreShown**, `Spec => []LinesShown`: the orders that are left are the rest of one row and
  those of the rows after it (`RestAt`), and the cells written so far are those of the rows before
  and of that row's beginning (`WrittenAt`); `NextRow` says what the next order is,
  past rows that are empty. The addresses of the rows fit the display, so none is cut to 12
  bits and none wraps. `Laid` is what the theorem needs of a text: for a file `SanitizeLine` and the number of
  rows give it (`ShownIsLaid`), for other texts it is the condition `Fits` of the property. That
  a glyph is neither a blank, a null nor a tab is `GlyphAssumption`.

Checked by TLC only: every liveness property, the fair part of `KeepsRelay`
included (liveness under fairness is outside the prover). Every
other invariant and action property of a passing run is a theorem, and so is the type
invariant of every module. Those of Menu, Screen, Framing, Telnet and Service are
not a property of a run: the runs are kept for what could be wrong.

## 5. Not modelled

`Manager.Run` and the bridges of the service (a stub: no behaviour yet), the `tn3270`
command (it prints), header bit layouts (`TH.Bytes`, `RH.Bytes`, `ParsePIU`; a header is a
record or a token), EBCDIC (two tables), the two-byte code of buffer addresses,
socket addresses, JSON and flag parsing, and `menu.Load`. `PROJECT.json` gives the reason for
each component.

## 6. Plan

1. (done) SnaServer, SnaProbe, Relay, Bridge; Menu, Framing, Telnet; the runs
   above; the proofs above.
2. (done) Screen, Service; in Telnet a host that falls back from TN3270E; in
   Framing two sessions of one LU and the LU-LU path; in Menu wrapping and
   `extractInput`.
3. (done) Proofs about Menu, Framing and Service.
4. (done) What the terminals see; the order of a bridge's screens; prompts and files in
   Menu; `PiusIntact` and `ScreensReassembled` in Framing; Screen; Telnet.
5. (done) The type invariant of every module as a theorem.
6. (done) The screens an LU gets with several LUs; the write of a record as two steps;
   records that break off; the screens that are not segmented.
