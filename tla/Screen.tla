------------------------------- MODULE Screen --------------------------------
(***************************************************************************)
(* The 3270 display buffer of src/internal/d3270/screen.go.  A session on  *)
(* the SSCP-LU path applies each record of the host to it and sends the    *)
(* terminal what Linear makes of the buffer (sendSSCPLU); the menu, the    *)
(* echo test and -show-file lay out lines of text in it (charScreen,       *)
(* showFileDatastream in snaprobe.go).                                     *)
(*                                                                         *)
(* A record is a command and a sequence of orders, which Apply carries out *)
(* one by one; the host chooses them as it goes.  A record may break off   *)
(* within its last order: of SF and SFE something is done all the same     *)
(* (CutSF, CutSFE), of the others nothing, which is a record that ends     *)
(* before them.  Beside the screen stands a terminal that knows no fields  *)
(* and is sent the same record as Flatten (flatten.go) rewrites it; a part *)
(* of an order that is passed on to it does nothing there.                 *)
(***************************************************************************)
EXTENDS Integers, SequencesExt

CONSTANTS
    Size,        \* cells of the screen, Rows * Cols
    AddrLimit,   \* addresses that an order can hold (4096)
    TextRows,    \* rows and columns of text screens (24 and 80)
    TextCols,
    TabWidth,    \* blanks that showFileDatastream makes of a tab (4)
    Glyph,       \* characters that are displayed
    Line,        \* lines of text, sequences of glyphs, " " and "tab"
    MaxLines,    \* bound: lines of one text
    MaxRecords,  \* bound: records of the host
    MaxOrders    \* bound: orders of one record

ASSUME SizesAssumption ==
    /\ Size \in Nat \ {0} /\ TextRows \in Nat \ {0} /\ TextCols \in Nat \ {0}
    /\ TextRows * TextCols <= Size /\ Size <= AddrLimit /\ AddrLimit \in Nat
    /\ TabWidth \in Nat
ASSUME GlyphAssumption == Glyph \cap {" ", "nul", "tab"} = {}
ASSUME BoundsAssumption == MaxLines \in Nat /\ MaxRecords \in Nat \ {0} /\ MaxOrders \in Nat

Cell == 0 .. Size - 1
Address == 0 .. AddrLimit - 1
Char == Glyph \cup {" ", "nul"}

ASSUME LineAssumption == Line \subseteq Seq(Glyph \cup {" ", "tab"})

VARIABLES
    source,   \* "host", "lines" (charScreen) or "file" (showFileDatastream)
    text,     \* the lines of a text
    rest,     \* orders of a text that are still to be applied
    records,  \* records of the host so far
    orders,   \* orders of the host in this record
    phase,    \* "idle", "apply", or "fill": within RA or EUA
    buf,      \* Screen.buf
    attrs,    \* cells whose byte of Screen.attrs is set
    addr,     \* Apply's buffer address, which SBA does not wrap
    fill,     \* the order RA or EUA being carried out, and where it began
    flat,     \* the terminal without fields: its buffer and its address
    apart     \* history: cells last written by a record that broke off within
              \* SF or SFE, which does not write them in both buffers

screenVars == <<buf, attrs, addr, fill, phase>>
sourceVars == <<source, text, rest, records, orders>>
vars == <<screenVars, sourceVars, flat, apart>>

Op == {"SBA", "SF", "SA", "data", "RA", "EUA"}
Order == [op : Op, at : Address, ch : Char]
NoFill == [from |-> 0, stop |-> 0, ch |-> " "]

TypeOK ==
    /\ source \in {"host", "lines", "file"} /\ text \in Seq(Line) /\ rest \in Seq(Order)
    /\ records \in 0 .. MaxRecords /\ orders \in 0 .. MaxOrders
    /\ phase \in {"idle", "apply", "fill"}
    /\ buf \in [Cell -> Char] /\ attrs \subseteq Cell /\ addr \in Address
    /\ fill \in [from : Address, stop : Address, ch : Char]
    /\ flat \in [buf : [Cell -> Char], addr : Address] /\ apart \subseteq Cell

Blanks == [c \in Cell |-> " "]

-----------------------------------------------------------------------------
(* Orders.  An order that holds no address or character has 0 and " ".     *)

Sba(a) == [op |-> "SBA", at |-> a, ch |-> " "]
Data(ch) == [op |-> "data", at |-> 0, ch |-> ch]
Attribute == [op |-> "SF", at |-> 0, ch |-> " "]

\* SF and SFE; SA, MF, PT and IC, which leave no trace in the buffer; GE is
\* data, and EUA does what RA does with a blank.
HostOrder ==
    {Sba(a) : a \in Address} \cup {Data(ch) : ch \in Char}
    \cup {[op |-> op, at |-> 0, ch |-> " "] : op \in {"SF", "SA"}}
    \cup [op : {"RA"}, at : Address, ch : Char \ {" "}] \cup [op : {"EUA"}, at : Address, ch : {" "}]

\* Mutant of FlatOrder: an attribute takes no cell.
FlatOrderNoCell(o) == IF o.op = "SF" THEN [o EXCEPT !.op = "SA"] ELSE o

\* Flatten: an attribute becomes a blank.
FlatOrder(o) == IF o.op = "SF" THEN Data(" ") ELSE o

\* EncodeAddr(row * 80).
RowAddr(row, line) == (row * TextCols) % AddrLimit

\* A tab becomes the order PT, which has no effect.
CharOrder(ch) == IF ch = "tab" THEN [op |-> "SA", at |-> 0, ch |-> " "] ELSE Data(ch)

LineOrders(row, line) ==
    IF line = <<>> THEN <<>>
    ELSE << Sba(RowAddr(row, line)) >> \o [i \in DOMAIN line |-> CharOrder(line[i])]

\* echoScreen: every line at the start of its row.
EchoScreen(lines) == FlattenSeq([i \in DOMAIN lines |-> LineOrders(i - 1, lines[i])])

Expand(line) ==
    FlattenSeq([i \in DOMAIN line |->
                   IF line[i] = "tab" THEN [k \in 1 .. TabWidth |-> " "] ELSE << line[i] >>])

\* Mutant of SanitizeLine: the line is truncated before its tabs are expanded.
SanitizeLineEarly(line) ==
    Expand(SubSeq(line, 1, IF Len(line) > TextCols THEN TextCols ELSE Len(line)))

SanitizeLine(line) ==
    LET s == Expand(line) IN SubSeq(s, 1, IF Len(s) > TextCols THEN TextCols ELSE Len(s))

\* showFileDatastream: the first rows of the file, each cut to the width.
ShownLines(lines) ==
    [i \in 1 .. (IF Len(lines) > TextRows THEN TextRows ELSE Len(lines)) |->
        SanitizeLine(lines[i])]

-----------------------------------------------------------------------------
Init ==
    /\ source \in {"host", "lines", "file"}
    /\ IF source = "host" THEN text = <<>> ELSE text \in BoundedSeq(Line, MaxLines)
    /\ rest = CASE source = "host"  -> <<>>
                [] source = "lines" -> EchoScreen(text)
                [] source = "file"  -> EchoScreen(ShownLines(text))
    /\ records = 0 /\ orders = 0 /\ phase = "idle"
    /\ buf = Blanks /\ attrs = {} /\ addr = 0 /\ fill = NoFill
    /\ flat = [buf |-> Blanks, addr |-> 0] /\ apart = {}

Wrap(a) == a % Size

\* Mutant of Inc: the address does not go back to the first cell.
IncUnwrapped(a) == IF a = AddrLimit - 1 THEN a ELSE a + 1

Inc(a) == Wrap(a + 1)

\* The command of a record.  EW and EWA clear the screen, W does not; the
\* others than EAU end Apply at once.
Erase == attrs' = {} /\ buf' = Blanks /\ apart' = {}

BeginRecord ==
    /\ phase = "idle" /\ records < (IF source = "host" THEN MaxRecords ELSE 1)
    /\ records' = records + 1
    /\ phase' = "apply"
    /\ addr' = 0
    /\ \/ Erase /\ flat' = [buf |-> Blanks, addr |-> 0]
       \/ /\ source = "host"
          /\ flat' = [flat EXCEPT !.addr = 0]
          /\ UNCHANGED <<buf, attrs, apart>>
    /\ orders' = 0
    /\ UNCHANGED <<source, text, rest, fill>>

EraseAllUnprotected ==
    /\ source = "host" /\ phase = "idle" /\ records < MaxRecords
    /\ records' = records + 1
    /\ buf' = Blanks
    /\ apart' = {}
    /\ flat' = [flat EXCEPT !.buf = Blanks]
    /\ UNCHANGED <<source, text, rest, orders, phase, attrs, addr, fill>>

\* The next order: the host's choice, or what the text was made into.
NextOrder(o) ==
    /\ phase = "apply"
    /\ IF source = "host"
       THEN orders < MaxOrders /\ orders' = orders + 1 /\ UNCHANGED rest
       ELSE rest # <<>> /\ o = Head(rest) /\ rest' = Tail(rest) /\ UNCHANGED orders
    /\ UNCHANGED <<source, text, records>>

\* How many cells lie between two addresses; a start outside the buffer is
\* no address the loop comes back to, and a whole round precedes its own cell.
Distance(a, stop) == IF a # stop /\ Wrap(a) = stop THEN Size ELSE (stop - a) % Size

\* What an order does to a terminal that has no fields.
FlatDone(o) ==
    LET f == FlatOrder(o)
        cells == {Wrap(flat.addr + k) : k \in 0 .. Distance(flat.addr, f.at) - 1}
    IN  CASE f.op = "SBA"  -> [flat EXCEPT !.addr = f.at]
          [] f.op = "data" -> [flat EXCEPT !.buf[Wrap(flat.addr)] = f.ch, !.addr = Inc(@)]
          [] f.op \in {"RA", "EUA"} ->
                [buf |-> [c \in Cell |-> IF c \in cells THEN f.ch ELSE flat.buf[c]],
                 addr |-> f.at]
          [] OTHER -> flat

SetBufferAddress(o) ==
    /\ NextOrder(o) /\ o.op = "SBA"
    /\ addr' = o.at
    /\ flat' = FlatDone(o)
    /\ UNCHANGED <<buf, attrs, apart, fill, phase>>

\* A cell that both buffers are given.
Together == apart' = apart \ {Wrap(addr)}

StartField(o) ==
    /\ NextOrder(o) /\ o.op = "SF"
    /\ attrs' = attrs \cup {Wrap(addr)}
    /\ buf' = [buf EXCEPT ![Wrap(addr)] = " "]
    /\ addr' = Inc(addr)
    /\ flat' = FlatDone(o)
    /\ Together
    /\ UNCHANGED <<fill, phase>>

Skip(o) ==
    /\ NextOrder(o) /\ o.op = "SA"
    /\ flat' = FlatDone(o)
    /\ UNCHANGED <<screenVars, apart>>

PutChar(o) ==
    /\ NextOrder(o) /\ o.op = "data"
    /\ buf' = [buf EXCEPT ![Wrap(addr)] = o.ch]
    /\ addr' = Inc(addr)
    /\ flat' = FlatDone(o)
    /\ Together
    /\ UNCHANGED <<attrs, fill, phase>>

\* An SF without its attribute byte ends Apply, and Flatten makes a blank of
\* it.
CutSF ==
    /\ source = "host" /\ NextOrder(Attribute)
    /\ phase' = "idle"
    /\ flat' = FlatDone(Attribute)
    /\ apart' = apart \cup {Wrap(addr)}
    /\ UNCHANGED <<buf, attrs, addr, fill>>

\* An SFE with fewer pairs than it announces takes those that are there; half
\* a pair that is left over is a character for Apply, and Flatten skips it.
CutSFE(ch) ==
    /\ source = "host" /\ NextOrder(Attribute)
    /\ phase' = "idle"
    /\ attrs' = attrs \cup {Wrap(addr)}
    /\ buf' = [buf EXCEPT ![Wrap(addr)] = " ", ![Inc(addr)] = ch]
    /\ addr' = Inc(Inc(addr))
    /\ flat' = FlatDone(Attribute)
    /\ apart' = (apart \ {Wrap(addr)}) \cup {Inc(addr)}
    /\ UNCHANGED fill

\* RA and EUA, a loop of their own: FillCell until the address is the stop
\* address.
Fill(o) ==
    /\ NextOrder(o) /\ o.op \in {"RA", "EUA"}
    /\ phase' = "fill"
    /\ fill' = [from |-> addr, stop |-> o.at, ch |-> o.ch]
    /\ UNCHANGED <<buf, attrs, addr, flat, apart>>

FillCell ==
    /\ phase = "fill" /\ addr # fill.stop
    /\ buf' = [buf EXCEPT ![Wrap(addr)] = fill.ch]
    /\ addr' = Inc(addr)
    /\ Together
    /\ UNCHANGED <<attrs, fill, phase, sourceVars, flat>>

FillDone ==
    /\ phase = "fill" /\ addr = fill.stop
    /\ phase' = "apply"
    /\ fill' = NoFill
    /\ flat' = FlatDone([op |-> "RA", at |-> fill.stop, ch |-> fill.ch])
    /\ UNCHANGED <<buf, attrs, addr, sourceVars, apart>>

\* Or the record breaks off within SBA, RA, EUA, SA, MF or GE.
EndRecord ==
    /\ phase = "apply" /\ rest = <<>>
    /\ phase' = "idle"
    /\ UNCHANGED <<buf, attrs, addr, fill, sourceVars, flat, apart>>

ApplyOrder ==
    \E o \in IF source = "host" THEN HostOrder ELSE ToSet(rest) :
        SetBufferAddress(o) \/ StartField(o) \/ Skip(o) \/ PutChar(o) \/ Fill(o)

CutRecord == CutSF \/ \E ch \in Char : CutSFE(ch)

Apply == ApplyOrder \/ CutRecord \/ FillCell \/ FillDone \/ EndRecord

Next == BeginRecord \/ EraseAllUnprotected \/ Apply

Spec == Init /\ [][Next]_vars

(***************************************************************************)
(* Fairness: Apply is a loop that nothing interrupts.                      *)
(***************************************************************************)
FairSpec == Spec /\ WF_vars(Apply)

\* Linear, what the terminal is sent: attributes and nulls are blanks, and
\* the blanks at the end are left out.
LinearCell(c) == IF c \in attrs \/ buf[c] = "nul" THEN " " ELSE buf[c]

Linear ==
    LET used == {c \in Cell : LinearCell(c) # " "}
    IN  IF used = {} THEN <<>> ELSE [i \in 1 .. Max(used) + 1 |-> LinearCell(i - 1)]

-----------------------------------------------------------------------------
(* Properties.                                                             *)

\* A terminal that fills its buffer with Linear, after it was erased.
Filled(c) == IF c < Len(Linear) THEN Linear[c + 1] ELSE " "
Blanked(ch) == IF ch = "nul" THEN " " ELSE ch

(***************************************************************************)
(* Two ways to serve a terminal without fields agree, after any number of  *)
(* records: the session's screen, made linear, and the record itself,      *)
(* flattened.  They differ only in a cell that holds an attribute, which   *)
(* hides a character written over it until the screen is erased            *)
(* (screen.go:147), and in the one cell that a record which broke off      *)
(* within SF or SFE gave to one of the two, until it is written again or   *)
(* the screen is erased.  The loops of RA and EUA write the cells between  *)
(* the two addresses, however often addresses wrap.                        *)
(***************************************************************************)
ShownAsFlattened ==
    phase # "fill" =>
        /\ phase = "apply" => addr = flat.addr
        /\ \A c \in Cell \ (attrs \cup apart) : Filled(c) = Blanked(flat.buf[c])
        /\ \A c \in attrs : Filled(c) = " "

(***************************************************************************)
(* The lines of a text are on the screen, each at the start of its row and *)
(* nothing else: of a file the first rows, cut to the width, whatever the  *)
(* file; of a menu or an echo if it fits the screen and holds no tab,      *)
(* which nothing checks (24 rows of 80, "model-2 geometry", snaprobe.go).  *)
(***************************************************************************)
Fits ==
    /\ Len(text) <= TextRows
    /\ \A i \in DOMAIN text : Len(text[i]) <= TextCols /\ "tab" \notin ToSet(text[i])

LinesShown ==
    LET lines == IF source = "file" THEN ShownLines(text) ELSE text
        Shown(c) == LET row == (c \div TextCols) + 1
                        col == (c % TextCols) + 1
                    IN  IF row \in DOMAIN lines /\ col <= Len(lines[row])
                        THEN lines[row][col] ELSE " "
    IN  /\ source = "file" \/ (source = "lines" /\ Fits)
        /\ records > 0 /\ phase = "idle"
        => \A c \in Cell : Filled(c) = Shown(c)

(***************************************************************************)
(* Apply returns, so that SendToTerminal releases the session's mutex and  *)
(* the bridge goes on, whatever the host sends - unless RA or EUA has a    *)
(* stop address outside the buffer, which the address never becomes.       *)
(***************************************************************************)
ApplyEnds == phase # "idle" ~> phase = "idle" \/ (phase = "fill" /\ fill.stop \notin Cell)

=============================================================================
