---------------------------- MODULE ScreenProofs ----------------------------
(***************************************************************************)
(* Proofs about module Screen, for every size of the display and every     *)
(* record and text.                                                        *)
(***************************************************************************)
EXTENDS Screen, Lemmas

-----------------------------------------------------------------------------
(* Addresses.                                                              *)

LEMMA Multiple ==
    ASSUME NEW n \in Nat \ {0}, NEW q \in Int, q >= 1
    PROVE  q * n >= n
<1>1. q * n = n + (q - 1) * n
  OBVIOUS
<1>2. (q - 1) * n >= 0
  OBVIOUS
<1>3. q * n \in Int /\ (q - 1) * n \in Int
  OBVIOUS
<1> QED BY <1>1, <1>2, <1>3

\* A remainder is the only number below n that is a multiple of n away.
LEMMA Remainder ==
    ASSUME NEW n \in Nat \ {0}, NEW a \in Int
    PROVE  a % n \in 0 .. n - 1 /\ \E q \in Int : a = q * n + (a % n)
<1>1. a % n \in 0 .. n - 1 /\ a = (a \div n) * n + (a % n) /\ a \div n \in Int
  OBVIOUS
<1> QED BY <1>1

LEMMA OneRemainder ==
    ASSUME NEW n \in Nat \ {0}, NEW q \in Int, NEW r \in Int, NEW p \in Int, NEW s \in Int,
           r \in 0 .. n - 1, s \in 0 .. n - 1, q * n + r = p * n + s
    PROVE  r = s
<1>1. CASE q = p
  <2>1. q * n \in Int
    OBVIOUS
  <2> QED BY <1>1, <2>1
<1>2. CASE q > p
  <2>1. (q - p) * n >= n
    BY <1>2, Multiple
  <2>2. (q - p) * n = q * n - p * n /\ q * n \in Int /\ p * n \in Int
    OBVIOUS
  <2> QED BY <2>1, <2>2
<1>3. CASE p > q
  <2>1. (p - q) * n >= n
    BY <1>3, Multiple
  <2>2. (p - q) * n = p * n - q * n /\ q * n \in Int /\ p * n \in Int
    OBVIOUS
  <2> QED BY <2>1, <2>2
<1> QED BY <1>1, <1>2, <1>3

LEMMA Congruent ==
    ASSUME NEW n \in Nat \ {0}, NEW a \in Int, NEW b \in Int, NEW q \in Int, b = a + q * n
    PROVE  b % n = a % n
<1>1. PICK r \in 0 .. n - 1, p \in Int : r = a % n /\ a = p * n + r
  BY Remainder
<1>2. PICK s \in 0 .. n - 1, p2 \in Int : s = b % n /\ b = p2 * n + s
  BY Remainder, ZenonT(60)
<1>3. (p + q) * n = p * n + q * n /\ p * n \in Int /\ q * n \in Int /\ p2 * n \in Int
  OBVIOUS
<1>4. (p + q) * n + r = p2 * n + s /\ p + q \in Int /\ r \in Int /\ s \in Int
  BY <1>1, <1>2, <1>3
<1>5. r = s
  <2>1. PICK o \in Int : o = p + q
    BY <1>4
  <2>2. o * n + r = p2 * n + s
    BY <1>4, <2>1
  <2> QED BY <1>4, <2>2, OneRemainder
<1> QED BY <1>1, <1>2, <1>5

LEMMA CellNat == Cell \subseteq Nat
<1>1. Size - 1 \in Int
  BY SizesAssumption
<1>2. \A n \in Int : 0 .. n \subseteq Nat
  OBVIOUS
<1> QED BY <1>1, <1>2 DEF Cell

LEMMA AddressNat == Address \subseteq Nat /\ 0 \in Address /\ Cell \subseteq Address
<1>1. PICK n \in Nat \ {0}, m \in Nat \ {0} : n = Size /\ m = AddrLimit /\ n <= m
  BY SizesAssumption
<1>2. 0 .. m - 1 \subseteq Nat /\ 0 \in 0 .. m - 1 /\ 0 .. n - 1 \subseteq 0 .. m - 1
  BY <1>1
<1> QED BY <1>1, <1>2 DEF Address, Cell

LEMMA WrapType ==
    ASSUME NEW a \in Nat
    PROVE  Wrap(a) \in Cell /\ Wrap(a) \in Nat /\ (a \in Cell => Wrap(a) = a)
<1>1. Size \in Nat \ {0} /\ a \in Int
  BY SizesAssumption
<1>2. a % Size \in 0 .. Size - 1
  BY <1>1, Remainder
<1>3. a \in 0 .. Size - 1 => a % Size = a
  BY <1>1
<1> QED BY <1>1, <1>2, <1>3 DEF Wrap, Cell

LEMMA WrapStep ==
    ASSUME NEW a \in Nat, NEW k \in Nat
    PROVE  Wrap(Wrap(a) + k) = Wrap(a + k)
<1>1. PICK n \in Nat \ {0} : n = Size
  BY SizesAssumption
<1>2. PICK r \in 0 .. n - 1, q \in Int : r = a % n /\ a = q * n + r
  <2>1. a \in Int
    OBVIOUS
  <2> QED BY <2>1, Remainder
<1>3. q * n \in Int /\ r + k \in Int /\ a + k \in Int /\ a + k = (r + k) + q * n
  BY <1>2
<1>4. (a + k) % n = (r + k) % n
  BY <1>3, Congruent
<1> QED BY <1>1, <1>2, <1>4 DEF Wrap

\* Two cells less than a round apart are not the same.
LEMMA WrapOther ==
    ASSUME NEW a \in Nat, NEW k \in Nat, NEW l \in Nat, k < l, l - k < Size
    PROVE  Wrap(a + k) # Wrap(a + l)
<1>1. PICK n \in Nat \ {0} : n = Size
  BY SizesAssumption
<1>2. PICK r \in 0 .. n - 1, q \in Int : r = (a + k) % n /\ a + k = q * n + r
  <2>1. a + k \in Int
    OBVIOUS
  <2> QED BY <2>1, Remainder
<1>3. PICK s \in 0 .. n - 1, p \in Int : s = (a + l) % n /\ a + l = p * n + s
  <2>1. a + l \in Int
    OBVIOUS
  <2> QED BY <2>1, Remainder, ZenonT(60)
<1>4. SUFFICES ASSUME r = s PROVE FALSE
  BY <1>1, <1>2, <1>3 DEF Wrap
<1>5. (p - q) * n = p * n - q * n /\ p * n \in Int /\ q * n \in Int
  OBVIOUS
<1>6. (p - q) * n = l - k
  BY <1>2, <1>3, <1>4, <1>5
<1>7. PICK o \in Int : o = p - q
  OBVIOUS
<1>8. o * n = l - k /\ l - k \in 1 .. n - 1
  BY <1>1, <1>6, <1>7
<1>9. CASE o >= 1
  BY <1>8, <1>9, Multiple
<1>10. CASE ~ (o >= 1)
  <2>1. (0 - o) * n >= 0
    BY <1>10
  <2>2. (0 - o) * n = 0 - o * n /\ o * n \in Int
    OBVIOUS
  <2> QED BY <1>8, <2>1, <2>2
<1> QED BY <1>9, <1>10

\* The first time that addresses from a on come to stop.
LEMMA DistanceIs ==
    ASSUME NEW a \in Nat, NEW stop \in Nat
    PROVE  /\ a = stop => Distance(a, stop) = 0
           /\ a # stop /\ stop \in Cell =>
                 /\ Distance(a, stop) \in Nat \ {0}
                 /\ Wrap(a + Distance(a, stop)) = stop
                 /\ \A k \in 1 .. Distance(a, stop) - 1 : Wrap(a + k) # stop
<1>1. PICK n \in Nat \ {0} : n = Size
  BY SizesAssumption
<1>2. ASSUME a = stop PROVE Distance(a, stop) = 0
  <2>1. stop - a = 0 /\ 0 % n = 0
    BY <1>2
  <2> QED BY <1>1, <1>2, <2>1 DEF Distance
<1>3. ASSUME a # stop, stop \in Cell
      PROVE  \E d \in Nat \ {0} : d <= n /\ d = Distance(a, stop) /\ Wrap(a + d) = stop
  <2>1. CASE Wrap(a) = stop
    <3>1. PICK o \in Int : a + n = a + o * n /\ a + n \in Int /\ a \in Int
      <4>1. a + n = a + 1 * n /\ a + n \in Int /\ a \in Int
        OBVIOUS
      <4> QED BY <4>1
    <3>2. (a + n) % n = a % n
      BY <3>1, Congruent
    <3> QED BY <1>1, <1>3, <2>1, <3>2 DEF Distance, Wrap
  <2>2. CASE Wrap(a) # stop
    <3>1. PICK d \in 0 .. n - 1, q \in Int : d = (stop - a) % n /\ stop - a = q * n + d
      <4>1. stop - a \in Int
        OBVIOUS
      <4> QED BY <4>1, Remainder
    <3>2. d = Distance(a, stop)
      BY <1>1, <2>2, <3>1 DEF Distance
    <3>3. a + d = stop + (0 - q) * n /\ a + d \in Int /\ 0 - q \in Int
      <4>1. (0 - q) * n = 0 - q * n /\ q * n \in Int
        OBVIOUS
      <4> QED BY <3>1, <4>1
    <3>4. (a + d) % n = stop % n
      <4>1. PICK o \in Int : o = 0 - q
        BY <3>3
      <4>2. a + d = stop + o * n /\ stop \in Int
        BY <3>3, <4>1
      <4> QED BY <3>3, <4>2, Congruent
    <3>5. Wrap(a + d) = stop
      BY <1>1, <1>3, <3>4, WrapType DEF Wrap
    <3>6. d # 0
      <4>1. d = 0 => a + d = a
        OBVIOUS
      <4> QED BY <2>2, <3>5, <4>1
    <3> QED BY <3>1, <3>2, <3>5, <3>6
  <2> QED BY <2>1, <2>2
<1>4. ASSUME a # stop, stop \in Cell,
             NEW d \in Nat \ {0}, d <= n, Wrap(a + d) = stop, NEW k \in 1 .. d - 1
      PROVE  Wrap(a + k) # stop
  <2>1. k \in Nat /\ d \in Nat /\ k < d /\ d - k < Size
    BY <1>1, <1>4
  <2> QED BY <1>4, <2>1, WrapOther
<1> QED BY <1>2, <1>3, <1>4

-----------------------------------------------------------------------------
(* What the terminal is sent.                                              *)

LEMMA LinearShows ==
    ASSUME NEW c \in Cell
    PROVE  Filled(c) = LinearCell(c)
<1> DEFINE used == {d \in Cell : LinearCell(d) # " "}
<1>1. Size - 1 \in Nat /\ c \in 0 .. Size - 1 /\ used \in SUBSET (0 .. Size - 1)
  <2>1. Size \in Nat \ {0} /\ c \in 0 .. Size - 1 /\ used \subseteq Cell
    BY SizesAssumption DEF Cell
  <2> HIDE DEF used
  <2> QED BY <2>1 DEF Cell
<1>2. c \in Nat
  BY CellNat
<1>3. CASE used = {}
  <2>1. Linear = <<>> /\ LinearCell(c) = " "
    BY <1>3 DEF Linear
  <2>2. Len(Linear) = 0 /\ ~ (c < 0)
    <3>1. Len(<<>>) = 0 /\ Linear = <<>>
      BY <2>1
    <3>2. ~ (c < 0)
      BY <1>2
    <3> QED BY <3>1, <3>2
  <2>3. Filled(c) = " "
    BY <2>2 DEF Filled
  <2> QED BY <2>1, <2>3
<1>4. CASE used # {}
  <2>1. PICK m : m \in used /\ m = Max(used) /\ \A d \in used : d <= m
    <3> HIDE DEF used
    <3> QED BY <1>1, <1>4, GreatestIsMax
  <2>2. m \in Nat
    <3> HIDE DEF used
    <3>1. m \in 0 .. Size - 1
      BY <1>1, <2>1
    <3> QED BY <3>1
  <2>3. Linear = [i \in 1 .. m + 1 |-> LinearCell(i - 1)]
    BY <1>4, <2>1 DEF Linear
  <2>4. Len(Linear) = m + 1
    <3> HIDE DEF used
    <3> QED BY <2>2, <2>3
  <2>5. CASE c < m + 1
    <3>1. c + 1 \in 1 .. m + 1 /\ (c + 1) - 1 = c
      BY <1>2, <2>2, <2>5
    <3>2. Linear[c + 1] = LinearCell((c + 1) - 1)
      BY <2>3, <3>1
    <3> QED BY <2>4, <2>5, <3>1, <3>2 DEF Filled
  <2>6. CASE ~ (c < m + 1)
    <3>1. c \notin used
      <4> HIDE DEF used
      <4> QED BY <1>2, <2>1, <2>2, <2>6
    <3>2. LinearCell(c) = " "
      BY <3>1
    <3> QED BY <2>4, <2>6, <3>2 DEF Filled
  <2> QED BY <2>5, <2>6
<1> QED BY <1>3, <1>4

-----------------------------------------------------------------------------
(* ShownAsFlattened: the buffer and that of the terminal without fields    *)
(* hold the same outside the attributes and the cells where a record that  *)
(* broke off has left them apart.  While RA or EUA is carried out it is    *)
(* the buffer that the terminal will have, as far as the loop has come.    *)

Agree(at, b, fb) == \A c \in Cell \ at : Blanked(b[c]) = Blanked(fb[c])

\* n cells from a on.
Span(a, n) == {Wrap(a + k) : k \in 0 .. n - 1}
Over(fb, cells, ch) == [c \in Cell |-> IF c \in cells THEN ch ELSE fb[c]]

\* n times round the loop.
Filling(n, at, b, ad, fl, fb) ==
    /\ ad = IF n = 0 THEN fl.from ELSE Wrap(fl.from + n)
    /\ n # 0 => fl.from # fl.stop
    /\ \A k \in 1 .. n - 1 : Wrap(fl.from + k) # fl.stop
    /\ Agree(at, b, Over(fb, Span(fl.from, n), fl.ch))

Flat == [buf : [Cell -> Char], addr : Address]
Filler == [from : Address, stop : Address, ch : Char]

ScreenInv ==
    /\ rest \in Seq(Order) /\ (source = "host" => rest = <<>>)
    /\ buf \in [Cell -> Char] /\ attrs \subseteq Cell /\ addr \in Address
    /\ flat \in Flat /\ fill \in Filler /\ apart \subseteq Cell
    /\ IF phase = "fill"
       THEN /\ fill.from = flat.addr
            /\ \E n \in Nat : Filling(n, attrs \cup apart, buf, addr, fill, flat.buf)
       ELSE /\ phase = "apply" => addr = flat.addr
            /\ Agree(attrs \cup apart, buf, flat.buf)

LEMMA SpanMore ==
    ASSUME NEW a \in Nat, NEW n \in Nat
    PROVE  Span(a, 0) = {} /\ Span(a, n + 1) = Span(a, n) \cup {Wrap(a + n)}
<1>1. Span(a, 0) = {}
  BY DEF Span
<1>2. 0 .. (n + 1) - 1 = (0 .. n - 1) \cup {n}
  OBVIOUS
<1> QED BY <1>1, <1>2 DEF Span

LEMMA ScreenImplies == ScreenInv => ShownAsFlattened
<1> SUFFICES ASSUME ScreenInv, phase # "fill" PROVE ShownAsFlattened
  BY DEF ShownAsFlattened
<1>1. /\ phase = "apply" => addr = flat.addr
      /\ Agree(attrs \cup apart, buf, flat.buf) /\ attrs \subseteq Cell
  BY DEF ScreenInv
<1>2. ASSUME NEW c \in Cell \ (attrs \cup apart) PROVE Filled(c) = Blanked(flat.buf[c])
  <2>1. LinearCell(c) = Blanked(buf[c])
    BY DEF LinearCell, Blanked
  <2> QED BY <1>1, <2>1, LinearShows DEF Agree
<1>3. ASSUME NEW c \in attrs PROVE Filled(c) = " "
  <2>1. LinearCell(c) = " " /\ c \in Cell
    BY <1>1 DEF LinearCell
  <2> QED BY <2>1, LinearShows
<1> QED BY <1>1, <1>2, <1>3 DEF ShownAsFlattened

\* The orders of the host, and those that texts are made into.
LEMMA OrderTypes == HostOrder \subseteq Order
<1>1. 0 \in Address /\ " " \in Char
  BY AddressNat DEF Char
<1>2. \A a \in Address : Sba(a) \in Order
  BY <1>1 DEF Sba, Order, Op
<1>3. \A ch \in Char : Data(ch) \in Order
  BY <1>1 DEF Data, Order, Op
<1>4. \A op \in {"SF", "SA"} : [op |-> op, at |-> 0, ch |-> " "] \in Order
  BY <1>1 DEF Order, Op
<1>5. [op : {"RA"}, at : Address, ch : Char \ {" "}] \subseteq Order
  BY <1>1 DEF Order, Op
<1>6. [op : {"EUA"}, at : Address, ch : {" "}] \subseteq Order
  BY <1>1 DEF Order, Op
<1> QED BY <1>1, <1>2, <1>3, <1>4, <1>5, <1>6 DEF HostOrder

LEMMA NextIsOrder ==
    ASSUME ScreenInv, ApplyOrder
    PROVE  \E o \in Order :
              /\ SetBufferAddress(o) \/ StartField(o) \/ Skip(o) \/ PutChar(o) \/ Fill(o)
              /\ NextOrder(o) /\ phase = "apply"
              /\ rest' \in Seq(Order) /\ (source' = "host" => rest' = <<>>)
<1>1. PICK o \in IF source = "host" THEN HostOrder ELSE ToSet(rest) :
         SetBufferAddress(o) \/ StartField(o) \/ Skip(o) \/ PutChar(o) \/ Fill(o)
  BY DEF ApplyOrder
<1>2. NextOrder(o)
  BY <1>1 DEF SetBufferAddress, StartField, Skip, PutChar, Fill
<1>3. rest \in Seq(Order) /\ (source = "host" => rest = <<>>)
  BY DEF ScreenInv
<1>4. o \in Order
  <2>1. ToSet(rest) \subseteq Order
    BY <1>3 DEF ToSet
  <2> QED BY <1>1, <2>1, OrderTypes
<1>5. rest' \in Seq(Order) /\ (source' = "host" => rest' = <<>>)
  <2>1. CASE source = "host"
    BY <1>2, <1>3, <2>1 DEF NextOrder
  <2>2. CASE source # "host"
    <3>1. rest # <<>> /\ rest' = Tail(rest) /\ source' = source
      BY <1>2, <2>2 DEF NextOrder
    <3>2. Tail(rest) \in Seq(Order)
      BY <1>3, <3>1, HeadTailProperties
    <3> QED BY <2>2, <3>1, <3>2
  <2> QED BY <2>1, <2>2
<1> QED BY <1>1, <1>2, <1>4, <1>5 DEF NextOrder

\* A blank or a character is put in the same cell of both.
LEMMA AgreePut ==
    ASSUME NEW at, NEW b \in [Cell -> Char], NEW fb \in [Cell -> Char], Agree(at, b, fb),
           NEW c \in Cell, NEW ch
    PROVE  Agree(at, [b EXCEPT ![c] = ch], [fb EXCEPT ![c] = ch])
BY DEF Agree

LEMMA StepScreen == ScreenInv /\ [Next]_vars => ScreenInv'
<1> SUFFICES ASSUME ScreenInv, [Next]_vars PROVE ScreenInv'
  OBVIOUS
<1>1. /\ rest \in Seq(Order) /\ (source = "host" => rest = <<>>)
      /\ buf \in [Cell -> Char] /\ attrs \subseteq Cell /\ addr \in Address
      /\ flat \in Flat /\ fill \in Filler /\ apart \subseteq Cell
  BY DEF ScreenInv
<1>2. /\ 0 \in Address /\ " " \in Char /\ Blanks \in [Cell -> Char]
      /\ addr \in Nat /\ Address \subseteq Nat /\ 0 \in Nat /\ Cell \subseteq Address
      /\ \A a \in Nat : Wrap(a) \in Cell /\ Inc(a) \in Address
  <2>1. \A a \in Nat : a + 1 \in Nat
    OBVIOUS
  <2> QED BY <1>1, <2>1, AddressNat, WrapType DEF Char, Blanks, Inc
<1>3. flat.buf \in [Cell -> Char] /\ flat.addr \in Address /\ flat.addr \in Nat
  BY <1>1, <1>2 DEF Flat
<1>4. phase # "fill" => /\ phase = "apply" => addr = flat.addr
                        /\ Agree(attrs \cup apart, buf, flat.buf)
  BY DEF ScreenInv
<1>5. CASE BeginRecord
  <2>1. CASE Erase /\ flat' = [buf |-> Blanks, addr |-> 0]
    <3>1. Agree(attrs' \cup apart', buf', flat'.buf)
      BY <2>1 DEF Erase, Agree
    <3>2. flat' \in Flat
      BY <1>2, <2>1 DEF Flat
    <3> QED BY <1>1, <1>2, <1>5, <2>1, <3>1, <3>2 DEF BeginRecord, Erase, ScreenInv
  <2>2. CASE flat' = [flat EXCEPT !.addr = 0] /\ UNCHANGED <<buf, attrs, apart>>
    <3>1. flat' \in Flat /\ flat'.buf = flat.buf /\ flat'.addr = 0
      BY <1>1, <1>2, <2>2 DEF Flat
    <3> QED BY <1>1, <1>2, <1>4, <1>5, <2>2, <3>1 DEF BeginRecord, ScreenInv
  <2> QED BY <1>5, <2>1, <2>2 DEF BeginRecord
<1>6. CASE EraseAllUnprotected
  <2>1. flat' \in Flat /\ flat'.buf = Blanks /\ flat'.addr = flat.addr
    BY <1>1, <1>2, <1>6 DEF Flat, EraseAllUnprotected
  <2>2. Agree(attrs' \cup apart', buf', flat'.buf)
    BY <1>6, <2>1 DEF EraseAllUnprotected, Agree
  <2> QED BY <1>1, <1>2, <1>4, <1>6, <2>1, <2>2 DEF EraseAllUnprotected, ScreenInv
<1>7. CASE ApplyOrder
  <2>1. PICK o \in Order :
              /\ SetBufferAddress(o) \/ StartField(o) \/ Skip(o) \/ PutChar(o) \/ Fill(o)
              /\ NextOrder(o) /\ phase = "apply"
              /\ rest' \in Seq(Order) /\ (source' = "host" => rest' = <<>>)
    BY <1>7, NextIsOrder
  <2>2. o.op \in Op /\ o.at \in Address /\ o.ch \in Char
    BY DEF Order
  <2>3. addr = flat.addr /\ Agree(attrs \cup apart, buf, flat.buf)
    BY <1>4, <2>1
  <2>4. PICK w \in Cell : w = Wrap(addr)
    BY <1>1, <1>2
  <2>5. CASE SetBufferAddress(o)
    <3>1. flat' = [flat EXCEPT !.addr = o.at] /\ addr' = o.at /\ UNCHANGED <<buf, attrs, apart, fill, phase>>
      BY <2>5 DEF SetBufferAddress, FlatDone, FlatOrder
    <3>2. flat' \in Flat /\ flat'.buf = flat.buf /\ flat'.addr = o.at
      BY <1>1, <2>2, <3>1 DEF Flat
    <3> QED BY <1>1, <2>1, <2>2, <2>3, <3>1, <3>2 DEF ScreenInv
  <2>6. ASSUME NEW ch \in Char, buf' = [buf EXCEPT ![w] = ch], addr' = Inc(addr),
               attrs \subseteq attrs', attrs' \subseteq Cell, UNCHANGED <<fill, phase>>,
               apart' = apart \ {w},
               flat' = [flat EXCEPT !.buf[Wrap(flat.addr)] = ch, !.addr = Inc(@)]
        PROVE  ScreenInv'
    <3>1. flat'.buf = [flat.buf EXCEPT ![w] = ch] /\ flat'.addr = Inc(flat.addr)
      BY <1>1, <2>3, <2>4, <2>6 DEF Flat
    <3>2. flat' \in Flat /\ buf' \in [Cell -> Char]
      BY <1>1, <1>2, <1>3, <2>6 DEF Flat
    <3>3. Agree(attrs \cup apart, buf', flat'.buf)
      <4>1. PICK f, at : f = flat.buf /\ at = attrs \cup apart
        OBVIOUS
      <4>2. f \in [Cell -> Char] /\ Agree(at, buf, f)
        BY <1>3, <2>3, <4>1
      <4>3. Agree(at, [buf EXCEPT ![w] = ch], [f EXCEPT ![w] = ch])
        BY <1>1, <4>2, AgreePut
      <4> QED BY <2>6, <3>1, <4>1, <4>3
    <3>4. Agree(attrs' \cup apart', buf', flat'.buf)
      <4>1. buf'[w] = ch /\ flat'.buf[w] = ch
        BY <1>1, <1>3, <2>6, <3>1
      <4> QED BY <2>6, <3>3, <4>1 DEF Agree
    <3> QED BY <1>1, <1>2, <2>1, <2>3, <2>6, <3>1, <3>2, <3>4 DEF ScreenInv
  <2>7. CASE StartField(o)
    <3>1. FlatOrder(o) = Data(" ")
      BY <2>7 DEF StartField, FlatOrder
    <3>2. flat' = [flat EXCEPT !.buf[Wrap(flat.addr)] = " ", !.addr = Inc(@)]
      <4>1. PICK f : f = FlatOrder(o) /\ f.op = "data" /\ f.ch = " "
        <5>1. Data(" ").op = "data" /\ Data(" ").ch = " "
          BY DEF Data
        <5> QED BY <3>1, <5>1
      <4>2. FlatDone(o) = [flat EXCEPT !.buf[Wrap(flat.addr)] = f.ch, !.addr = Inc(@)]
        BY <4>1 DEF FlatDone
      <4> QED BY <2>7, <4>1, <4>2 DEF StartField
    <3> QED BY <1>1, <1>2, <2>4, <2>6, <2>7, <3>2 DEF StartField, Together
  <2>8. CASE PutChar(o)
    <3>1. FlatOrder(o) = o
      BY <2>8 DEF PutChar, FlatOrder
    <3>2. flat' = [flat EXCEPT !.buf[Wrap(flat.addr)] = o.ch, !.addr = Inc(@)]
      BY <2>8, <3>1 DEF PutChar, FlatDone
    <3> QED BY <1>1, <2>2, <2>4, <2>6, <2>8, <3>2 DEF PutChar, Together
  <2>9. CASE Skip(o)
    <3>1. flat' = flat
      BY <2>9 DEF Skip, FlatDone, FlatOrder
    <3> QED BY <1>1, <2>1, <2>3, <2>9, <3>1 DEF Skip, screenVars, ScreenInv
  <2>10. CASE Fill(o)
    <3>1. phase' = "fill" /\ fill' = [from |-> addr, stop |-> o.at, ch |-> o.ch] /\ UNCHANGED <<buf, attrs, addr, flat, apart>>
      BY <2>10 DEF Fill
    <3>2. Span(addr, 0) = {}
      BY <1>1, <1>2, SpanMore
    <3>3. Agree(attrs \cup apart, buf, Over(flat.buf, Span(addr, 0), o.ch))
      BY <2>3, <3>2 DEF Agree, Over
    <3>4. Filling(0, attrs \cup apart, buf, addr, fill', flat.buf)
      BY <3>1, <3>3 DEF Filling
    <3>5. fill' \in Filler /\ fill'.from = flat.addr
      BY <1>1, <2>2, <2>3, <3>1 DEF Filler
    <3> QED BY <1>1, <1>2, <2>1, <3>1, <3>4, <3>5 DEF ScreenInv
  <2> QED BY <2>1, <2>5, <2>7, <2>8, <2>9, <2>10
<1>8. ASSUME phase = "fill"
      PROVE  fill.from = flat.addr /\ \E n \in Nat : Filling(n, attrs \cup apart, buf, addr, fill, flat.buf)
  BY <1>8 DEF ScreenInv
<1>9. /\ fill.from \in Address /\ fill.stop \in Address /\ fill.ch \in Char
      /\ fill.from \in Nat /\ fill.stop \in Nat
  BY <1>1, <1>2 DEF Filler
<1>10. CASE FillCell
  <2>1. /\ phase = "fill" /\ addr # fill.stop /\ buf' = [buf EXCEPT ![Wrap(addr)] = fill.ch] /\ addr' = Inc(addr)
        /\ apart' = apart \ {Wrap(addr)}
        /\ UNCHANGED <<attrs, fill, phase, rest, source, flat>>
    BY <1>10 DEF FillCell, Together, sourceVars
  <2>2. PICK n \in Nat : Filling(n, attrs \cup apart, buf, addr, fill, flat.buf)
    BY <1>8, <2>1
  <2>3. PICK a \in Nat, m \in Nat : a = fill.from /\ m = n + 1
    BY <1>9
  <2>4. Wrap(addr) = Wrap(a + n) /\ addr' = Wrap(a + m)
    <3>1. CASE n = 0
      BY <2>1, <2>2, <2>3, <3>1 DEF Filling, Inc
    <3>2. CASE n # 0
      <4>1. addr = Wrap(a + n) /\ a + n \in Nat /\ (a + n) + 1 = a + m
        BY <2>2, <2>3, <3>2 DEF Filling
      <4>2. Wrap(Wrap(a + n) + 1) = Wrap((a + n) + 1) /\ Wrap(Wrap(a + n)) = Wrap(a + n)
        BY <4>1, WrapStep, WrapType
      <4> QED BY <2>1, <4>1, <4>2 DEF Inc
    <3> QED BY <3>1, <3>2
  <2>5. PICK w \in Cell : w = Wrap(a + n)
    <3>1. a + n \in Nat
      OBVIOUS
    <3> QED BY <1>2, <3>1
  <2>6. Agree(attrs' \cup apart', buf', Over(flat.buf, Span(a, m), fill.ch))
    <3>1. Span(a, m) = Span(a, n) \cup {w}
      BY <2>3, <2>5, SpanMore
    <3>2. /\ Agree(attrs \cup apart, buf, Over(flat.buf, Span(a, n), fill.ch))
          /\ buf' = [buf EXCEPT ![w] = fill.ch] /\ attrs' = attrs /\ apart' = apart \ {w}
      BY <2>1, <2>2, <2>3, <2>4, <2>5 DEF Filling
    <3> QED BY <1>1, <3>1, <3>2 DEF Agree, Over
  <2>7. a # fill.stop /\ \A k \in 1 .. m - 1 : Wrap(a + k) # fill.stop
    <3>1. n # 0 => a # fill.stop /\ addr = Wrap(a + n)
      BY <2>2, <2>3 DEF Filling
    <3>2. n = 0 => a # fill.stop
      BY <2>1, <2>2, <2>3 DEF Filling
    <3>3. \A k \in 1 .. n - 1 : Wrap(a + k) # fill.stop
      BY <2>2, <2>3 DEF Filling
    <3>4. \A k \in 1 .. m - 1 : k \in 1 .. n - 1 \/ (k = n /\ n # 0)
      BY <2>3
    <3> QED BY <2>1, <3>1, <3>2, <3>3, <3>4
  <2>8. Filling(m, attrs' \cup apart', buf', addr', fill, flat.buf)
    BY <2>3, <2>4, <2>6, <2>7 DEF Filling
  <2>9. buf' \in [Cell -> Char] /\ addr' \in Address
    BY <1>1, <1>2, <1>9, <2>1
  <2> QED BY <1>1, <1>8, <2>1, <2>8, <2>9 DEF ScreenInv
<1>11. CASE FillDone
  <2>1. /\ phase = "fill" /\ addr = fill.stop /\ phase' = "apply" /\ fill' = NoFill
        /\ UNCHANGED <<buf, attrs, addr, rest, source, apart>>
    BY <1>11 DEF FillDone, sourceVars
  <2>2. PICK n \in Nat : Filling(n, attrs \cup apart, buf, addr, fill, flat.buf)
    BY <1>8, <2>1
  <2>3. PICK a, stop, ch, d :
           a = fill.from /\ stop = fill.stop /\ ch = fill.ch /\ d = Distance(a, stop)
    OBVIOUS
  <2>4. a \in Nat /\ stop \in Nat /\ stop \in Address /\ ch \in Char /\ flat.addr = a
    BY <1>8, <1>9, <2>1, <2>3
  <2>5. flat'.buf = Over(flat.buf, Span(a, d), ch) /\ flat'.addr = stop
    <3>1. PICK o : o = [op |-> "RA", at |-> stop, ch |-> ch]
      OBVIOUS
    <3>2. FlatOrder(o) = o /\ o.op = "RA" /\ o.at = stop /\ o.ch = ch
      BY <3>1 DEF FlatOrder
    <3>3. flat' = FlatDone(o)
      BY <1>11, <2>3, <3>1 DEF FillDone
    <3>4. FlatDone(o) = [buf |-> Over(flat.buf, Span(a, d), ch), addr |-> stop]
      BY <2>3, <2>4, <3>2 DEF FlatDone, Over, Span
    <3> QED BY <3>3, <3>4
  <2>6. flat' \in Flat
    <3>1. flat' = [buf |-> Over(flat.buf, Span(a, d), ch), addr |-> stop]
      BY <1>11, <2>3, <2>4 DEF FillDone, FlatDone, FlatOrder, Over, Span
    <3>2. Over(flat.buf, Span(a, d), ch) \in [Cell -> Char]
      BY <1>3, <2>4 DEF Over
    <3> QED BY <2>4, <3>1, <3>2 DEF Flat
  <2>7. d = n
    <3>1. CASE n = 0
      <4>1. a = stop
        BY <2>1, <2>2, <2>3, <3>1 DEF Filling
      <4> QED BY <2>3, <2>4, <3>1, <4>1, DistanceIs
    <3>2. CASE n # 0
      <4>1. a # stop /\ Wrap(a + n) = stop /\ \A k \in 1 .. n - 1 : Wrap(a + k) # stop
        BY <2>1, <2>2, <2>3, <3>2 DEF Filling
      <4>2. stop \in Cell
        <5>1. a + n \in Nat
          BY <2>4
        <5> QED BY <1>2, <4>1, <5>1
      <4>3. /\ d \in Nat \ {0} /\ Wrap(a + d) = stop
            /\ \A k \in 1 .. d - 1 : Wrap(a + k) # stop
        BY <2>3, <2>4, <4>1, <4>2, DistanceIs
      <4>4. d \notin 1 .. n - 1 /\ n \notin 1 .. d - 1
        BY <4>1, <4>3
      <4> QED BY <3>2, <4>3, <4>4
    <3> QED BY <3>1, <3>2
  <2>8. Agree(attrs \cup apart, buf, flat'.buf)
    BY <2>2, <2>3, <2>5, <2>7 DEF Filling
  <2>9. fill' \in Filler
    BY <1>2, <2>1 DEF NoFill, Filler
  <2> QED BY <1>1, <2>1, <2>3, <2>5, <2>6, <2>8, <2>9 DEF ScreenInv
<1>12. CASE EndRecord
  BY <1>1, <1>4, <1>12 DEF EndRecord, sourceVars, ScreenInv
<1>13. CASE UNCHANGED vars
  BY <1>13 DEF vars, screenVars, sourceVars, ScreenInv
<1>14. ASSUME source = "host", NextOrder(Attribute), flat' = FlatDone(Attribute)
       PROVE  /\ phase = "apply" /\ source' = "host" /\ rest' \in Seq(Order) /\ rest' = <<>>
              /\ flat' \in Flat /\ flat'.buf = [flat.buf EXCEPT ![Wrap(addr)] = " "]
              /\ Wrap(addr) \in Cell /\ Agree(attrs \cup apart, buf, flat.buf)
  <2>1. phase = "apply" /\ source' = "host" /\ rest' = rest
    BY <1>14 DEF NextOrder
  <2>2. addr = flat.addr /\ Wrap(addr) \in Cell /\ Agree(attrs \cup apart, buf, flat.buf)
    BY <1>2, <1>4, <2>1
  <2>3. FlatOrder(Attribute) = Data(" ") /\ Data(" ").op = "data" /\ Data(" ").ch = " "
    BY DEF FlatOrder, Attribute, Data
  <2>4. flat' = [flat EXCEPT !.buf[Wrap(flat.addr)] = " ", !.addr = Inc(@)]
    <3>1. PICK f : f = FlatOrder(Attribute) /\ f.op = "data" /\ f.ch = " "
      BY <2>3
    <3>2. FlatDone(Attribute) = [flat EXCEPT !.buf[Wrap(flat.addr)] = f.ch, !.addr = Inc(@)]
      BY <3>1 DEF FlatDone
    <3> QED BY <1>14, <3>1, <3>2
  <2>5. flat' \in Flat
    BY <1>1, <1>2, <1>3, <2>4 DEF Flat
  <2>6. flat'.buf = [flat.buf EXCEPT ![Wrap(addr)] = " "]
    BY <1>1, <2>2, <2>4 DEF Flat
  <2> QED BY <1>1, <1>14, <2>1, <2>2, <2>5, <2>6
<1>15. CASE CutSF
  <2>1. PICK w \in Cell : w = Wrap(addr)
    BY <1>2
  <2>2. /\ phase' = "idle" /\ apart' = apart \cup {w} /\ UNCHANGED <<buf, attrs, addr, fill>>
        /\ rest' \in Seq(Order) /\ rest' = <<>> /\ flat' \in Flat
        /\ flat'.buf = [flat.buf EXCEPT ![w] = " "] /\ Agree(attrs \cup apart, buf, flat.buf)
    BY <1>14, <1>15, <2>1 DEF CutSF
  <2>3. Agree(attrs' \cup apart', buf', flat'.buf)
    BY <1>3, <2>2 DEF Agree
  <2> QED BY <1>1, <2>2, <2>3 DEF ScreenInv
<1>16. ASSUME NEW ch \in Char, CutSFE(ch) PROVE ScreenInv'
  <2>1. PICK w \in Cell, v \in Cell :
           /\ w = Wrap(addr) /\ v = Inc(addr) /\ Inc(v) \in Address
           /\ buf' = [buf EXCEPT ![w] = " ", ![v] = ch]
    <3>1. Inc(addr) \in Cell /\ Inc(addr) \in Nat
      <4>1. \A a \in Nat : a + 1 \in Nat
        OBVIOUS
      <4>2. Wrap(addr + 1) \in Cell /\ Wrap(addr + 1) \in Nat
        BY <1>2, <4>1, WrapType
      <4> QED BY <4>2 DEF Inc
    <3> QED BY <1>2, <1>16, <3>1 DEF CutSFE
  <2>2. /\ phase' = "idle" /\ attrs' = attrs \cup {w} /\ addr' = Inc(v) /\ fill' = fill
        /\ apart' = (apart \ {w}) \cup {v}
        /\ rest' \in Seq(Order) /\ rest' = <<>> /\ flat' \in Flat
        /\ flat'.buf = [flat.buf EXCEPT ![w] = " "] /\ Agree(attrs \cup apart, buf, flat.buf)
    BY <1>14, <1>16, <2>1 DEF CutSFE
  <2>3. Agree(attrs' \cup apart', buf', flat'.buf)
    BY <1>1, <1>3, <2>1, <2>2 DEF Agree
  <2>4. buf' \in [Cell -> Char] /\ attrs' \subseteq Cell /\ apart' \subseteq Cell
    BY <1>1, <1>2, <2>1, <2>2
  <2> QED BY <1>1, <2>1, <2>2, <2>3, <2>4 DEF ScreenInv
<1> QED BY <1>5, <1>6, <1>7, <1>10, <1>11, <1>12, <1>13, <1>15, <1>16 DEF Next, Apply, CutRecord

-----------------------------------------------------------------------------
(* The orders that a text is made into.                                    *)

Texts == Seq(Glyph \cup {" ", "tab"})

LEMMA FunctionIsSeq ==
    ASSUME NEW n \in Nat, NEW Q, NEW f \in [1 .. n -> Q]
    PROVE  f \in Seq(Q)
OBVIOUS

LEMMA SeqIsFunction ==
    ASSUME NEW Q, NEW q \in Seq(Q)
    PROVE  DOMAIN q = 1 .. Len(q) /\ Len(q) \in Nat /\ \A i \in DOMAIN q : q[i] \in Q
OBVIOUS

LEMMA MoreElements == \A P, Q : P \subseteq Q => Seq(P) \subseteq Seq(Q)
OBVIOUS

LEMMA ConsSeq ==
    ASSUME NEW S, NEW q \in Seq(S), NEW u \in Seq(S), NEW x \in S, Len(q) = Len(u) + 1,
           q[1] = x, \A j \in 1 .. Len(u) : q[j + 1] = u[j]
    PROVE  q = <<x>> \o u
<1>1. /\ <<x>> \o u \in Seq(S) /\ Len(<<x>> \o u) = Len(q) /\ (<<x>> \o u)[1] = x
      /\ \A j \in 1 .. Len(u) : (<<x>> \o u)[j + 1] = u[j]
  OBVIOUS
<1>2. ASSUME NEW i \in 1 .. Len(q) PROVE q[i] = (<<x>> \o u)[i]
  <2>1. CASE i = 1
    BY <1>1, <2>1
  <2>2. CASE i # 1
    <3>1. PICK j \in 1 .. Len(u) : i = j + 1
      <4>1. i - 1 \in 1 .. Len(u) /\ i = (i - 1) + 1
        BY <2>2
      <4> QED BY <4>1
    <3> QED BY <1>1, <3>1
  <2> QED BY <2>1, <2>2
<1> QED BY <1>1, <1>2, SeqEqual

LEMMA HeadTailOfCons ==
    ASSUME NEW S, NEW x \in S, NEW q \in Seq(S)
    PROVE  Head(<<x>> \o q) = x /\ Tail(<<x>> \o q) = q
<1>1. PICK u : u = <<x>> \o q /\ u \in Seq(S)
  <2>1. <<x>> \o q \in Seq(S)
    OBVIOUS
  <2> QED BY <2>1
<1>2. /\ Len(u) = Len(q) + 1 /\ u[1] = x /\ u # <<>> /\ Len(q) \in Nat
      /\ \A j \in 1 .. Len(q) : u[j + 1] = q[j]
  BY <1>1
<1>3. /\ Head(u) = u[1] /\ Tail(u) \in Seq(S) /\ Len(Tail(u)) = Len(u) - 1
      /\ \A j \in 1 .. Len(Tail(u)) : Tail(u)[j] = u[j + 1]
  <2>1. Head(u) = u[1]
    OBVIOUS
  <2> QED BY <1>1, <1>2, <2>1, HeadTailProperties
<1>4. Len(Tail(u)) = Len(q)
  BY <1>2, <1>3
<1>5. Tail(u) = q
  BY <1>2, <1>3, <1>4, SeqEqual
<1> QED BY <1>1, <1>2, <1>3, <1>5

LEMMA NotEmpty == \A S, x : \A q \in Seq(S) : <<x>> \o q # <<>>
<1> SUFFICES ASSUME NEW S, NEW x, NEW q \in Seq(S) PROVE <<x>> \o q # <<>>
  OBVIOUS
<1>1. q \in Seq(S \cup {x}) /\ x \in S \cup {x}
  OBVIOUS
<1>2. Len(<<x>> \o q) = 1 + Len(q) /\ Len(q) \in Nat /\ Len(<<>>) = 0
  BY <1>1
<1> QED BY <1>2

LEMMA ThreeParts ==
    ASSUME NEW S, NEW x \in S, NEW p \in Seq(S), NEW q \in Seq(S)
    PROVE  (<<x>> \o p) \o q = <<x>> \o (p \o q)
BY SMTT(60)

LEMMA FlattenType ==
    ASSUME NEW S, NEW Q, Q = Seq(S), NEW ss \in Seq(Q)
    PROVE  FlattenSeq(ss) \in Q
<1>1. ss \in Seq(Seq(S)) /\ <<>> \in Seq(S)
  OBVIOUS
<1>2. FlattenSeq(ss) \in Seq(S)
  BY <1>1, FlattenAppend
<1> QED BY <1>2

LEMMA LineOrdersType ==
    ASSUME NEW row \in Nat, NEW line \in Texts
    PROVE  LineOrders(row, line) \in Seq(Order)
<1>1. " " \in Char /\ 0 \in Address /\ \A ch \in Glyph : ch \in Char
  BY AddressNat DEF Char
<1>2. RowAddr(row, line) \in Address
  <2>1. PICK a \in Nat : a = row * TextCols
    <3>1. TextCols \in Nat
      BY SizesAssumption
    <3>2. row * TextCols \in Nat
      BY <3>1
    <3> QED BY <3>2
  <2>2. PICK n \in Nat \ {0} : n = AddrLimit
    BY SizesAssumption
  <2>3. a % n \in 0 .. n - 1
    OBVIOUS
  <2> QED BY <2>1, <2>2, <2>3 DEF RowAddr, Address
<1>3. Sba(RowAddr(row, line)) \in Order
  BY <1>1, <1>2 DEF Sba, Order, Op
<1>4. ASSUME NEW ch \in Glyph \cup {" ", "tab"} PROVE CharOrder(ch) \in Order
  <2>1. CASE ch = "tab"
    BY <1>1, <2>1 DEF CharOrder, Order, Op
  <2>2. CASE ch # "tab"
    BY <1>1, <2>2 DEF CharOrder, Data, Order, Op
  <2> QED BY <2>1, <2>2
<1>5. [i \in DOMAIN line |-> CharOrder(line[i])] \in Seq(Order)
  <2>1. DOMAIN line = 1 .. Len(line) /\ Len(line) \in Nat
        /\ \A i \in DOMAIN line : line[i] \in Glyph \cup {" ", "tab"}
    BY SeqIsFunction DEF Texts
  <2>2. \A i \in 1 .. Len(line) : CharOrder(line[i]) \in Order
    BY <1>4, <2>1
  <2>3. [i \in DOMAIN line |-> CharOrder(line[i])] \in [1 .. Len(line) -> Order]
    BY <2>1, <2>2
  <2> QED BY <2>1, <2>3, FunctionIsSeq
<1> QED BY <1>3, <1>5 DEF LineOrders

LEMMA EchoScreenType ==
    ASSUME NEW lines \in Seq(Texts)
    PROVE  EchoScreen(lines) \in Seq(Order)
<1>1. PICK Q : Q = Seq(Order)
  OBVIOUS
<1>2. DOMAIN lines = 1 .. Len(lines) /\ Len(lines) \in Nat /\ \A i \in DOMAIN lines : lines[i] \in Texts
  OBVIOUS
<1>3. \A i \in DOMAIN lines : i - 1 \in Nat
  BY <1>2
<1>4. \A i \in 1 .. Len(lines) : LineOrders(i - 1, lines[i]) \in Q
  BY <1>1, <1>2, <1>3, LineOrdersType
<1>5. [i \in DOMAIN lines |-> LineOrders(i - 1, lines[i])] \in Seq(Q)
  BY <1>2, <1>4
<1> QED BY <1>1, <1>5, FlattenType DEF EchoScreen

\* Lines that hold no tab, and those that are laid out in the rows.
Plain == Seq(Glyph \cup {" "})

Laid(lines) ==
    /\ lines \in Seq(Plain) /\ Len(lines) <= TextRows
    /\ \A i \in DOMAIN lines : Len(lines[i]) <= TextCols

LEMMA SanitizedIsLaid ==
    ASSUME NEW line \in Texts
    PROVE  SanitizeLine(line) \in Plain /\ Len(SanitizeLine(line)) <= TextCols
<1>1. PICK S : S = Glyph \cup {" "}
  OBVIOUS
<1>2. PICK Q : Q = Seq(S)
  OBVIOUS
<1>3. DOMAIN line = 1 .. Len(line) /\ Len(line) \in Nat
      /\ \A i \in DOMAIN line : line[i] # "tab" => line[i] \in S
  <2>1. DOMAIN line = 1 .. Len(line) /\ Len(line) \in Nat
        /\ \A i \in DOMAIN line : line[i] \in Glyph \cup {" ", "tab"}
    BY SeqIsFunction DEF Texts
  <2> QED BY <1>1, <2>1
<1>4. [k \in 1 .. TabWidth |-> " "] \in Q
  <2>1. TabWidth \in Nat /\ " " \in S
    BY <1>1, SizesAssumption
  <2>2. [k \in 1 .. TabWidth |-> " "] \in [1 .. TabWidth -> S]
    BY <2>1
  <2> QED BY <1>2, <2>1, <2>2, FunctionIsSeq
<1>5. \A i \in 1 .. Len(line) : line[i] # "tab" => << line[i] >> \in Q
  BY <1>2, <1>3
<1>6. [i \in DOMAIN line |->
           IF line[i] = "tab" THEN [k \in 1 .. TabWidth |-> " "] ELSE << line[i] >>] \in Seq(Q)
  <2> DEFINE f == [i \in DOMAIN line |->
                     IF line[i] = "tab" THEN [k \in 1 .. TabWidth |-> " "] ELSE << line[i] >>]
  <2>1. f \in [1 .. Len(line) -> Q]
    BY <1>3, <1>4, <1>5
  <2> HIDE DEF f
  <2>2. f \in Seq(Q)
    BY <1>3, <2>1, FunctionIsSeq
  <2> QED BY <2>2 DEF f
<1>7. PICK s \in Q : s = Expand(line)
  BY <1>2, <1>6, FlattenType DEF Expand
<1>8. PICK m \in Nat : m <= Len(s) /\ m <= TextCols
                       /\ m = IF Len(s) > TextCols THEN TextCols ELSE Len(s)
  <2>1. Len(s) \in Nat /\ TextCols \in Nat
    BY <1>2, SizesAssumption
  <2> QED BY <2>1
<1>9. SubSeq(s, 1, m) \in Q /\ Len(SubSeq(s, 1, m)) = m
  BY <1>2, <1>8, SubSeqProperties
<1> QED BY <1>1, <1>2, <1>7, <1>8, <1>9 DEF SanitizeLine, Plain

LEMMA ShownIsLaid ==
    ASSUME NEW lines \in Seq(Texts)
    PROVE  Laid(ShownLines(lines))
<1>1. PICK Q : Q = Texts
  OBVIOUS
<1>2. PICK n \in Nat : n <= TextRows /\ n <= Len(lines)
                       /\ n = IF Len(lines) > TextRows THEN TextRows ELSE Len(lines)
  <2>1. Len(lines) \in Nat /\ TextRows \in Nat
    BY SizesAssumption
  <2> QED BY <2>1
<1>3. \A i \in 1 .. n : lines[i] \in Q
  BY <1>1, <1>2
<1> DEFINE f == [i \in 1 .. n |-> SanitizeLine(lines[i])]
<1>4. \A i \in 1 .. n : f[i] \in Plain /\ Len(f[i]) <= TextCols
  BY <1>1, <1>3, SanitizedIsLaid
<1>5. f \in [1 .. n -> Plain]
  BY <1>4
<1>6. ShownLines(lines) = f
  BY <1>2 DEF ShownLines
<1> HIDE DEF f
<1>7. f \in Seq(Plain) /\ Len(f) = n /\ DOMAIN f = 1 .. n
  BY <1>5, FunctionIsSeq, LenProperties
<1> QED BY <1>2, <1>4, <1>6, <1>7 DEF Laid

LEMMA PlainTexts == Plain \subseteq Texts
<1>1. PICK A, B : A = Glyph \cup {" "} /\ B = Glyph \cup {" ", "tab"}
  OBVIOUS
<1>2. Seq(A) \subseteq Seq(B)
  BY <1>1, MoreElements
<1> QED BY <1>1, <1>2 DEF Plain, Texts

LEMMA ShownLinesType ==
    ASSUME NEW lines \in Seq(Texts)
    PROVE  ShownLines(lines) \in Seq(Texts)
<1>1. PICK P, Q : P = Plain /\ Q = Texts /\ P \subseteq Q
  BY PlainTexts
<1>2. ShownLines(lines) \in Seq(P)
  BY <1>1, ShownIsLaid DEF Laid
<1>3. Seq(P) \subseteq Seq(Q)
  BY <1>1
<1> QED BY <1>1, <1>2, <1>3

LEMMA TextType == Init /\ source \in {"lines", "file"} => text \in Seq(Texts)
<1>1. BoundedSeq(Line, MaxLines) \subseteq Seq(Line)
  BY DEF BoundedSeq, SeqOf
<1>2. PICK Q : Q = Texts
  OBVIOUS
<1>3. Line \subseteq Q
  BY <1>2, LineAssumption DEF Texts
<1>4. Seq(Line) \subseteq Seq(Q)
  BY <1>3
<1> QED BY <1>1, <1>2, <1>4 DEF Init

LEMMA InitScreen == Init => ScreenInv
<1> SUFFICES ASSUME Init PROVE ScreenInv
  OBVIOUS
<1>1. source \in {"lines", "file"} => text \in Seq(Texts)
  BY TextType
<1>2. rest \in Seq(Order) /\ (source = "host" => rest = <<>>)
  <2>1. CASE source = "host"
    BY <2>1 DEF Init
  <2>2. CASE source = "lines"
    BY <1>1, <2>2, EchoScreenType DEF Init
  <2>3. CASE source = "file"
    <3>1. ShownLines(text) \in Seq(Texts)
      BY <1>1, <2>3, ShownLinesType
    <3> QED BY <2>3, <3>1, EchoScreenType DEF Init
  <2> QED BY <2>1, <2>2, <2>3 DEF Init
<1>3. Blanks \in [Cell -> Char] /\ NoFill \in Filler
  BY AddressNat DEF Blanks, NoFill, Filler, Char
<1>4. flat \in Flat /\ flat.buf = buf /\ flat.addr = addr /\ addr \in Address
  BY <1>3, AddressNat DEF Init, Flat
<1>5. Agree(attrs \cup apart, buf, flat.buf)
  BY <1>4 DEF Agree
<1> QED BY <1>2, <1>3, <1>4, <1>5 DEF Init, ScreenInv

(***************************************************************************)
(* What sendSSCPLU sends a terminal, Screen.Linear, and what Flatten       *)
(* makes of the same records show the same, for every screen size and      *)
(* every sequence of records: SBA that leaves the buffer, RA and EUA that  *)
(* go round it, attributes that are written over, records that break off   *)
(* within an order - but for an attribute's own cell and for the cell that *)
(* an SF or SFE in which a record broke off gave to one of the two.        *)
(***************************************************************************)
THEOREM ShownIsFlattened == Spec => []ShownAsFlattened
<1>1. ScreenInv /\ [Next]_vars => ScreenInv'
  BY StepScreen
<1>2. Spec => []ScreenInv
  BY <1>1, InitScreen, PTL DEF Spec
<1> QED BY <1>2, ScreenImplies, PTL

-----------------------------------------------------------------------------
(* LinesShown: the orders of a text that is laid out in the rows put each  *)
(* character in its place.                                                 *)

Place(r, k) == (r - 1) * TextCols + (k - 1)
RowOf(c) == (c \div TextCols) + 1
ColOf(c) == (c % TextCols) + 1

LEMMA PlaceIs ==
    ASSUME NEW r \in Nat, 1 <= r, r <= TextRows, NEW k \in Nat, 1 <= k, k <= TextCols
    PROVE  /\ Place(r, k) \in Cell /\ RowOf(Place(r, k)) = r /\ ColOf(Place(r, k)) = k
           /\ r * TextCols \in Nat /\ r * TextCols <= Size
<1>1. PICK n \in Nat \ {0}, m \in Nat \ {0}, z \in Nat \ {0} :
         n = TextCols /\ m = TextRows /\ z = Size /\ m * n <= z
  BY SizesAssumption
<1>2. PICK p \in Nat, j \in 0 .. n - 1 : p = r - 1 /\ j = k - 1
  BY <1>1
<1>3. /\ p * n \in Nat /\ r * n \in Nat /\ m * n \in Nat /\ r * n = p * n + n
      /\ r * n <= m * n
  <2>1. p * n \in Nat /\ r * n \in Nat /\ m * n \in Nat /\ (m - r) * n = m * n - r * n
    OBVIOUS
  <2>2. (m - r) * n >= 0
    <3>1. PICK d \in Nat : d = m - r
      BY <1>1
    <3>2. d * n >= 0
      OBVIOUS
    <3> QED BY <3>1, <3>2
  <2>3. r * n = (p + 1) * n /\ (p + 1) * n = p * n + n
    BY <1>2
  <2> QED BY <2>1, <2>2, <2>3
<1>4. PICK x \in Nat : x = p * n + j /\ x \in 0 .. z - 1
  BY <1>1, <1>2, <1>3
<1>5. x % n = j /\ x \div n = p
  <2>1. /\ x % n \in 0 .. n - 1 /\ x \div n \in Int /\ x = (x \div n) * n + (x % n)
    OBVIOUS
  <2>2. PICK q \in Int, s \in 0 .. n - 1 : q = x \div n /\ s = x % n /\ x = q * n + s
    BY <2>1
  <2>3. s = j
    <3>1. q * n + s = p * n + j /\ p \in Int /\ s \in Int /\ j \in Int
      BY <1>4, <2>2
    <3> QED BY <3>1, OneRemainder
  <2>4. (q - p) * n = q * n - p * n /\ (p - q) * n = p * n - q * n /\ q * n \in Int
    OBVIOUS
  <2>5. q * n = p * n
    BY <1>3, <1>4, <2>2, <2>3, <2>4
  <2>6. ~ (q - p >= 1)
    BY <1>3, <2>4, <2>5, Multiple
  <2>7. ~ (p - q >= 1)
    BY <1>3, <2>4, <2>5, Multiple
  <2> QED BY <2>2, <2>3, <2>6, <2>7
<1>6. Place(r, k) = x
  BY <1>1, <1>2, <1>4 DEF Place
<1> QED BY <1>1, <1>2, <1>3, <1>4, <1>5, <1>6 DEF Cell, RowOf, ColOf

LEMMA CellPlace ==
    ASSUME NEW c \in Cell
    PROVE  /\ RowOf(c) \in Nat /\ ColOf(c) \in Nat /\ RowOf(c) >= 1 /\ ColOf(c) >= 1
           /\ c = Place(RowOf(c), ColOf(c))
<1>1. PICK n \in Nat \ {0} : n = TextCols
  BY SizesAssumption
<1>2. c \in Nat
  BY CellNat
<1>3. c % n \in 0 .. n - 1 /\ c \div n \in Nat /\ c = (c \div n) * n + (c % n)
  BY <1>2
<1>4. PICK q \in Nat, s \in Nat : q = c \div n /\ s = c % n /\ c = q * n + s
  BY <1>3
<1>5. (q + 1) - 1 = q /\ (s + 1) - 1 = s /\ q + 1 >= 1 /\ s + 1 >= 1
  OBVIOUS
<1> QED BY <1>1, <1>4, <1>5 DEF RowOf, ColOf, Place

\* The lines that are laid out.
TextLines == IF source = "file" THEN ShownLines(text) ELSE text

Laying == source \in {"lines", "file"} /\ Laid(TextLines)

Row(lines, r) == IF r = 0 THEN <<>> ELSE lines[r]
Chars(line, k) == [j \in 1 .. Len(line) - k |-> Data(line[k + j])]
RowOrders(lines, r) == [i \in 1 .. Len(lines) - r |-> LineOrders((r + i) - 1, lines[r + i])]

\* The orders that are left after k characters of row r, and the cells that
\* are written then.
Ahead(lines, r) == FlattenSeq(RowOrders(lines, r))
RestAt(lines, r, k) == Chars(Row(lines, r), k) \o Ahead(lines, r)
WrittenAt(lines, r, k, c) ==
    IF /\ RowOf(c) \in DOMAIN lines /\ ColOf(c) <= Len(lines[RowOf(c)])
       /\ RowOf(c) < r \/ (RowOf(c) = r /\ ColOf(c) <= k)
    THEN lines[RowOf(c)][ColOf(c)] ELSE " "

At(lines, r, k, b, ad, os) ==
    /\ r <= Len(lines) /\ k <= Len(Row(lines, r))
    /\ \A c \in Cell : b[c] = WrittenAt(lines, r, k, c)
    /\ k < Len(Row(lines, r)) => ad = Place(r, k + 1)
    /\ os = RestAt(lines, r, k)

LayingInv ==
    /\ records \in Nat
    /\ Laying =>
          /\ attrs = {} /\ phase # "fill"
          /\ phase = "idle" /\ records # 0 => rest = <<>>
          /\ IF records = 0
             THEN phase = "idle" /\ rest = RestAt(TextLines, 0, 0)
             ELSE \E r \in Nat, k \in Nat : At(TextLines, r, k, buf, addr, rest)

LEMMA RowType ==
    ASSUME NEW lines, Laid(lines), NEW r \in Nat, r <= Len(lines)
    PROVE  /\ Row(lines, r) \in Plain /\ Len(Row(lines, r)) \in Nat
           /\ Len(Row(lines, r)) <= TextCols /\ r <= TextRows
           /\ DOMAIN Row(lines, r) = 1 .. Len(Row(lines, r))
<1>1. PICK S, P : P = Plain /\ P = Seq(S)
  BY DEF Plain
<1>2. /\ lines \in Seq(P) /\ DOMAIN lines = 1 .. Len(lines) /\ Len(lines) \in Nat
      /\ \A i \in DOMAIN lines : lines[i] \in P /\ Len(lines[i]) <= TextCols
      /\ Len(lines) <= TextRows
  <2>1. lines \in Seq(P) /\ Len(lines) <= TextRows
        /\ \A i \in DOMAIN lines : Len(lines[i]) <= TextCols
    BY <1>1 DEF Laid
  <2> QED BY <2>1, SeqIsFunction
<1>3. TextRows \in Nat /\ TextCols \in Nat /\ <<>> \in P /\ Len(<<>>) = 0
  BY <1>1, SizesAssumption
<1>4. Row(lines, r) \in P /\ Len(Row(lines, r)) <= TextCols
  <2>1. CASE r = 0
    BY <1>3, <2>1 DEF Row
  <2>2. CASE r # 0
    <3>1. r \in DOMAIN lines
      BY <1>2, <2>2
    <3> QED BY <1>2, <2>2, <3>1 DEF Row
  <2> QED BY <2>1, <2>2
<1>5. \A q \in P : Len(q) \in Nat /\ DOMAIN q = 1 .. Len(q)
  BY <1>1, SeqIsFunction
<1>6. r <= TextRows
  BY <1>2, <1>3
<1> QED BY <1>1, <1>4, <1>5, <1>6

LEMMA CharsType ==
    ASSUME NEW line \in Plain, NEW k \in Nat, k <= Len(line)
    PROVE  /\ Chars(line, k) \in Seq(Order)
           /\ k = Len(line) => Chars(line, k) = <<>>
           /\ k < Len(line) => Chars(line, k) = <<Data(line[k + 1])>> \o Chars(line, k + 1)
<1>1. PICK n \in Nat : n = Len(line) /\ \A i \in 1 .. n : line[i] \in Glyph \cup {" "}
  BY SeqIsFunction DEF Plain
<1>2. \A i \in 1 .. n : Data(line[i]) \in Order
  BY <1>1, AddressNat DEF Data, Order, Op, Char
<1>3. \A m \in Nat : m <= n => Chars(line, m) \in [1 .. n - m -> Order] /\ n - m \in Nat
  <2> SUFFICES ASSUME NEW m \in Nat, m <= n
               PROVE  Chars(line, m) \in [1 .. n - m -> Order] /\ n - m \in Nat
    OBVIOUS
  <2>1. \A j \in 1 .. n - m : m + j \in 1 .. n
    OBVIOUS
  <2>2. \A j \in 1 .. n - m : Data(line[m + j]) \in Order
    BY <1>2, <2>1
  <2>3. [j \in 1 .. n - m |-> Data(line[m + j])] \in [1 .. n - m -> Order]
    BY <2>2
  <2>4. Chars(line, m) = [j \in 1 .. n - m |-> Data(line[m + j])]
    BY <1>1 DEF Chars
  <2>5. n - m \in Nat
    OBVIOUS
  <2> HIDE DEF Order
  <2>6. Chars(line, m) \in [1 .. n - m -> Order]
    BY <2>3, <2>4, ZenonT(60)
  <2> QED BY <2>5, <2>6
<1>4. \A m \in Nat : m <= n => Chars(line, m) \in Seq(Order) /\ Len(Chars(line, m)) = n - m
  BY <1>3, FunctionIsSeq, LenProperties
<1>5. ASSUME k = n PROVE Chars(line, k) = <<>>
  <2>1. \A q \in Seq(Order) : Len(q) = 0 => q = <<>>
    OBVIOUS
  <2>2. Chars(line, k) \in Seq(Order) /\ Len(Chars(line, k)) = 0
    BY <1>4, <1>5
  <2> QED BY <2>1, <2>2
<1>6. ASSUME k < n PROVE Chars(line, k) = <<Data(line[k + 1])>> \o Chars(line, k + 1)
  <2>1. PICK u, x, m : u = Chars(line, m) /\ x = Data(line[k + 1]) /\ m = k + 1
    OBVIOUS
  <2>2. m \in Nat /\ m <= n /\ m \in 1 .. n
    BY <1>6, <2>1
  <2>3. x \in Order /\ u \in Seq(Order) /\ Len(u) = n - m
        /\ \A j \in 1 .. n - m : u[j] = Data(line[m + j])
    BY <1>1, <1>2, <1>4, <2>1, <2>2 DEF Chars
  <2>4. PICK q : q = Chars(line, k)
    OBVIOUS
  <2>5. q \in Seq(Order) /\ Len(q) = n - k /\ \A j \in 1 .. n - k : q[j] = Data(line[k + j])
    BY <1>1, <1>4, <1>6, <2>4 DEF Chars
  <2>6. q = <<x>> \o u
    <3>1. Len(q) = Len(u) + 1 /\ 1 \in 1 .. n - k
      BY <1>6, <2>1, <2>3, <2>5
    <3>2. \A j \in 1 .. n - m : j + 1 \in 1 .. n - k /\ k + (j + 1) = m + j
      BY <2>1, <2>2
    <3>3. q[1] = x
      BY <2>1, <2>5, <3>1
    <3>4. \A j \in 1 .. Len(u) : q[j + 1] = u[j]
      BY <2>3, <2>5, <3>2
    <3> QED BY <2>3, <2>5, <3>1, <3>3, <3>4, ConsSeq, ZenonT(60)
  <2> QED BY <2>1, <2>4, <2>6
<1> QED BY <1>1, <1>4, <1>5, <1>6

LEMMA RowAddrIs ==
    ASSUME NEW r \in Nat, r < TextRows, NEW line
    PROVE  RowAddr(r, line) = Place(r + 1, 1)
<1>1. PICK n \in Nat \ {0}, a \in Nat \ {0}, p \in Nat :
         n = TextCols /\ a = AddrLimit /\ Size <= a /\ p = r + 1 /\ Size \in Nat /\ p <= TextRows
  BY SizesAssumption
<1>2. Place(p, 1) \in Cell
  BY <1>1, PlaceIs
<1>3. Place(p, 1) = r * n
  <2>1. p - 1 = r /\ 1 - 1 = 0 /\ r * n + 0 = r * n
    BY <1>1
  <2> QED BY <1>1, <2>1 DEF Place
<1>4. \A x \in 0 .. Size - 1 : x % a = x
  BY <1>1
<1>5. (r * n) % a = r * n
  BY <1>2, <1>3, <1>4 DEF Cell
<1> QED BY <1>1, <1>3, <1>5 DEF RowAddr

LEMMA LineIsLaid ==
    ASSUME NEW line \in Plain, line # <<>>, NEW r \in Nat, r < TextRows
    PROVE  LineOrders(r, line) = <<Sba(Place(r + 1, 1))>> \o Chars(line, 0)
<1>1. PICK n \in Nat : n = Len(line) /\ DOMAIN line = 1 .. n
                       /\ \A i \in 1 .. n : line[i] \in Glyph \cup {" "}
  BY SeqIsFunction DEF Plain
<1>2. \A i \in 1 .. n : CharOrder(line[i]) = Data(line[i])
  BY <1>1, GlyphAssumption DEF CharOrder
<1>3. Chars(line, 0) = [i \in DOMAIN line |-> CharOrder(line[i])]
  <2>1. n - 0 = n /\ \A j \in 1 .. n : 0 + j = j
    OBVIOUS
  <2> QED BY <1>1, <1>2, <2>1 DEF Chars
<1> QED BY <1>3, RowAddrIs DEF LineOrders

LEMMA AheadMore ==
    ASSUME NEW lines, Laid(lines), NEW r \in Nat, r <= Len(lines)
    PROVE  /\ Ahead(lines, r) \in Seq(Order)
           /\ r = Len(lines) => Ahead(lines, r) = <<>>
           /\ r < Len(lines) =>
                Ahead(lines, r) = LineOrders(r, lines[r + 1]) \o Ahead(lines, r + 1)
<1>1. PICK Q, n : Q = Seq(Order) /\ n = Len(lines) /\ n \in Nat
  <2>1. Len(lines) \in Nat
    BY SeqIsFunction DEF Laid
  <2> QED BY <2>1
<1>2. \A i \in 1 .. n : LineOrders(i - 1, lines[i]) \in Q
  <2> SUFFICES ASSUME NEW i \in 1 .. n PROVE LineOrders(i - 1, lines[i]) \in Q
    OBVIOUS
  <2>1. i - 1 \in Nat
    OBVIOUS
  <2>2. lines[i] \in Plain
    BY <1>1, SeqIsFunction DEF Laid
  <2> QED BY <1>1, <2>1, <2>2, PlainTexts, LineOrdersType
<1>3. ASSUME NEW s \in Nat, s <= n
      PROVE  /\ RowOrders(lines, s) \in Seq(Q) /\ Len(RowOrders(lines, s)) = n - s
             /\ \A i \in 1 .. n - s : RowOrders(lines, s)[i] = LineOrders((s + i) - 1, lines[s + i])
             /\ Ahead(lines, s) \in Q
  <2>1. \A i \in 1 .. n - s : s + i \in 1 .. n
    BY <1>1, <1>3
  <2>2. \A i \in 1 .. n - s : LineOrders((s + i) - 1, lines[s + i]) \in Q
    BY <1>2, <2>1
  <2>3. PICK f : f = [i \in 1 .. n - s |-> LineOrders((s + i) - 1, lines[s + i])]
    OBVIOUS
  <2>4. RowOrders(lines, s) = f
    BY <1>1, <2>3 DEF RowOrders
  <2>5. f \in [1 .. n - s -> Q] /\ n - s \in Nat
    <3>1. n - s \in Nat
      BY <1>1, <1>3
    <3>2. f \in [1 .. n - s -> Q]
      BY <2>2, <2>3
    <3> QED BY <3>1, <3>2
  <2>6. f \in Seq(Q) /\ Len(f) = n - s
    BY <2>5, FunctionIsSeq, LenProperties
  <2> QED BY <1>1, <2>3, <2>4, <2>6, FlattenType DEF Ahead
<1>4. ASSUME r = n PROVE Ahead(lines, r) = <<>>
  <2>1. \A q \in Seq(Q) : Len(q) = 0 => q = <<>>
    OBVIOUS
  <2>2. RowOrders(lines, r) \in Seq(Q) /\ Len(RowOrders(lines, r)) = 0
    BY <1>1, <1>3, <1>4, SMTT(60)
  <2> QED BY <2>1, <2>2, FlattenEmpty DEF Ahead
<1>5. ASSUME r < n PROVE Ahead(lines, r) = LineOrders(r, lines[r + 1]) \o Ahead(lines, r + 1)
  <2>1. PICK s, x, q, u :
           /\ s = r + 1 /\ x = LineOrders(r, lines[r + 1])
           /\ q = RowOrders(lines, r) /\ u = RowOrders(lines, s)
    OBVIOUS
  <2>2. s \in Nat /\ s <= n /\ s \in 1 .. n /\ s - 1 = r
    BY <1>1, <1>5, <2>1
  <2>3. x \in Q
    BY <1>2, <2>1, <2>2
  <2>4. /\ q \in Seq(Q) /\ Len(q) = n - r
        /\ \A i \in 1 .. n - r : q[i] = LineOrders((r + i) - 1, lines[r + i])
    BY <1>1, <1>3, <1>5, <2>1
  <2>5. /\ u \in Seq(Q) /\ Len(u) = n - s
        /\ \A i \in 1 .. n - s : u[i] = LineOrders((s + i) - 1, lines[s + i])
    BY <1>3, <2>1, <2>2
  <2>6. Len(q) = Len(u) + 1
    <3>1. Len(q) = n - r /\ Len(u) = n - s
      BY <2>4, <2>5
    <3>2. n - r = (n - s) + 1
      BY <1>1, <2>2
    <3> QED BY <3>1, <3>2
  <2>7. q[1] = x
    <3>1. 1 \in 1 .. n - r /\ (r + 1) - 1 = r
      BY <1>1, <1>5
    <3> QED BY <2>1, <2>4, <3>1
  <2>8. \A j \in 1 .. Len(u) : q[j + 1] = u[j]
    <3> SUFFICES ASSUME NEW j \in 1 .. n - s PROVE q[j + 1] = u[j]
      BY <2>5
    <3>1. j + 1 \in 1 .. n - r /\ r + (j + 1) = s + j
      BY <1>1, <2>1, <2>2
    <3> QED BY <2>4, <2>5, <3>1
  <2>9. q = <<x>> \o u
    BY <2>3, <2>4, <2>5, <2>6, <2>7, <2>8, ConsSeq
  <2>10. FlattenSeq(<<x>> \o u) = x \o FlattenSeq(u)
    <3>1. <<x>> \in Seq(Seq(Order)) /\ u \in Seq(Seq(Order)) /\ x \in Seq(Order)
      BY <1>1, <2>3, <2>5
    <3>2. FlattenSeq(<<x>> \o u) = FlattenSeq(<<x>>) \o FlattenSeq(u)
      BY <3>1, FlattenConcat
    <3> QED BY <3>1, <3>2, FlattenOne
  <2> QED BY <2>1, <2>9, <2>10 DEF Ahead
<1> QED BY <1>1, <1>3, <1>4, <1>5

\* What comes next after row r: the end, or a row that is not empty.
NextAt(lines, r) ==
    \/ Ahead(lines, r) = <<>> /\ \A i \in DOMAIN lines : i > r => lines[i] = <<>>
    \/ \E s \in Nat :
          /\ r < s /\ s <= Len(lines) /\ lines[s] # <<>>
          /\ \A i \in DOMAIN lines : r < i /\ i < s => lines[i] = <<>>
          /\ Ahead(lines, r) = <<Sba(Place(s, 1))>> \o RestAt(lines, s, 0)

LEMMA NextRow ==
    ASSUME NEW lines, Laid(lines), NEW r \in Nat, r <= Len(lines)
    PROVE  NextAt(lines, r)
<1>1. PICK n \in Nat : n = Len(lines) /\ DOMAIN lines = 1 .. n
  BY SeqIsFunction DEF Laid
<1> DEFINE P == {d \in Nat : d <= n => NextAt(lines, n - d)}
<1>2. 0 \in P
  <2>1. Ahead(lines, n) = <<>>
    BY <1>1, AheadMore
  <2>2. n - 0 = n /\ \A i \in 1 .. n : ~ (i > n)
    OBVIOUS
  <2> QED BY <1>1, <2>1, <2>2 DEF NextAt
<1>3. ASSUME NEW d \in 0 .. n - 1, d \in P PROVE d + 1 \in P
  <2>1. PICK m, s : m = n - (d + 1) /\ s = n - d
    OBVIOUS
  <2>2. m \in Nat /\ s \in Nat /\ s = m + 1 /\ m < n /\ s \in 1 .. n
    BY <2>1
  <2>3. NextAt(lines, s)
    BY <1>3, <2>1
  <2>4. Ahead(lines, m) = LineOrders(m, lines[s]) \o Ahead(lines, s) /\ Ahead(lines, s) \in Seq(Order)
    <3>1. m <= Len(lines) /\ m < Len(lines) /\ s <= Len(lines)
      BY <1>1, <2>2
    <3>2. Ahead(lines, s) \in Seq(Order)
      BY <2>2, <3>1, AheadMore
    <3>3. Ahead(lines, m) = LineOrders(m, lines[m + 1]) \o Ahead(lines, m + 1)
      BY <2>2, <3>1, AheadMore
    <3> QED BY <2>2, <3>2, <3>3
  <2>5. ASSUME lines[s] = <<>> PROVE NextAt(lines, m)
    <3>1. Ahead(lines, m) = Ahead(lines, s)
      <4>1. \A q \in Seq(Order) : <<>> \o q = q
        OBVIOUS
      <4> QED BY <2>4, <2>5, <4>1 DEF LineOrders
    <3>2. \A i \in 1 .. n : i > m => i = s \/ i > s
      BY <2>2
    <3>3. CASE Ahead(lines, s) = <<>> /\ \A i \in DOMAIN lines : i > s => lines[i] = <<>>
      BY <1>1, <2>1, <2>5, <3>1, <3>2, <3>3 DEF NextAt
    <3>4. ASSUME NEW t \in Nat, s < t, t <= Len(lines), lines[t] # <<>>,
                 \A i \in DOMAIN lines : s < i /\ i < t => lines[i] = <<>>,
                 Ahead(lines, s) = <<Sba(Place(t, 1))>> \o RestAt(lines, t, 0)
          PROVE  NextAt(lines, m)
      <4>1. m < t
        BY <2>2, <3>4
      <4>2. \A i \in DOMAIN lines : m < i /\ i < t => lines[i] = <<>>
        BY <1>1, <2>2, <2>5, <3>2, <3>4
      <4> QED BY <3>1, <3>4, <4>1, <4>2 DEF NextAt
    <3> QED BY <2>3, <3>3, <3>4 DEF NextAt
  <2>6. ASSUME lines[s] # <<>> PROVE NextAt(lines, m)
    <3>1. Row(lines, s) = lines[s] /\ lines[s] \in Plain /\ s <= TextRows
      <4>1. s <= Len(lines) /\ s # 0
        BY <1>1, <2>2
      <4> QED BY <2>2, <4>1, RowType DEF Row
    <3>2. m < TextRows
      <4>1. TextRows \in Nat
        BY SizesAssumption
      <4> QED BY <2>2, <3>1, <4>1
    <3>3. PICK line, a : line = lines[s] /\ a = Sba(Place(s, 1))
      OBVIOUS
    <3>4. line \in Plain /\ line # <<>>
      BY <2>6, <3>1, <3>3
    <3>5. LineOrders(m, line) = <<a>> \o Chars(line, 0)
      BY <2>2, <3>2, <3>3, <3>4, LineIsLaid
    <3>6. Chars(line, 0) \in Seq(Order)
      <4>1. 0 <= Len(line)
        <5>1. Len(line) \in Nat
          BY <3>4, SeqIsFunction DEF Plain
        <5> QED BY <5>1
      <4> QED BY <3>4, <4>1, CharsType
    <3>7. a \in Order
      <4>1. Place(s, 1) \in Address
        <5>1. s \in Nat /\ 1 <= s /\ 1 <= TextCols /\ 1 \in Nat /\ 1 <= 1
          BY <2>2, SizesAssumption
        <5>2. Place(s, 1) \in Cell
          BY <3>1, <5>1, PlaceIs
        <5> QED BY <5>2, AddressNat
      <4> QED BY <3>3, <4>1 DEF Sba, Order, Op, Char
    <3>8. \A p \in Seq(Order), q \in Seq(Order) : (<<a>> \o p) \o q = <<a>> \o (p \o q)
      BY <3>7, ThreeParts, SMTT(60)
    <3>9. Ahead(lines, m) = <<a>> \o RestAt(lines, s, 0)
      BY <2>4, <3>1, <3>3, <3>5, <3>6, <3>8, SMTT(60) DEF RestAt
    <3>10. \A i \in DOMAIN lines : ~ (m < i /\ i < s)
      BY <1>1, <2>2
    <3> QED BY <1>1, <2>2, <2>6, <3>3, <3>9, <3>10, SMTT(60) DEF NextAt
  <2>7. NextAt(lines, m)
    BY <2>5, <2>6
  <2> QED BY <2>1, <2>7
<1>4. \A d \in 0 .. n : d \in P
  <2> HIDE DEF P
  <2> QED BY <1>2, <1>3, UptoInduction
<1>5. PICK d \in 0 .. n : n - d = r /\ d <= n
  <2>1. n - r \in 0 .. n /\ n - (n - r) = r /\ n - r <= n
    BY <1>1
  <2> QED BY <2>1
<1> QED BY <1>4, <1>5

LEMMA LinesDomain ==
    ASSUME NEW lines, Laid(lines)
    PROVE  /\ Len(lines) \in Nat /\ DOMAIN lines = 1 .. Len(lines)
           /\ \A i \in DOMAIN lines : Len(lines[i]) \in Nat /\ Len(lines[i]) <= TextCols
                                      /\ i <= TextRows /\ Row(lines, i) = lines[i]
<1>1. Len(lines) \in Nat /\ DOMAIN lines = 1 .. Len(lines)
  BY SeqIsFunction DEF Laid
<1>2. \A i \in DOMAIN lines : i \in Nat /\ i <= Len(lines) /\ i # 0
  BY <1>1
<1> QED BY <1>1, <1>2, RowType DEF Row

LEMMA RestType ==
    ASSUME NEW lines, Laid(lines), NEW r \in Nat, r <= Len(lines),
           NEW k \in Nat, k <= Len(Row(lines, r))
    PROVE  /\ RestAt(lines, r, k) \in Seq(Order)
           /\ k < Len(Row(lines, r)) =>
                 RestAt(lines, r, k) = <<Data(Row(lines, r)[k + 1])>> \o RestAt(lines, r, k + 1)
           /\ k = Len(Row(lines, r)) => RestAt(lines, r, k) = Ahead(lines, r)
<1>1. PICK line, a : line = Row(lines, r) /\ a = Ahead(lines, r)
  OBVIOUS
<1>2. line \in Plain /\ Len(line) \in Nat /\ k <= Len(line) /\ DOMAIN line = 1 .. Len(line)
  BY <1>1, RowType
<1>3. a \in Seq(Order)
  BY <1>1, AheadMore
<1>4. \A j \in Nat : j <= Len(line) => Chars(line, j) \in Seq(Order)
  BY <1>2, CharsType
<1>5. RestAt(lines, r, k) \in Seq(Order)
  BY <1>1, <1>2, <1>3, <1>4 DEF RestAt
<1>6. ASSUME k < Len(line)
      PROVE  RestAt(lines, r, k) = <<Data(line[k + 1])>> \o RestAt(lines, r, k + 1)
  <2>1. PICK x, p : x = Data(line[k + 1]) /\ p = Chars(line, k + 1)
    OBVIOUS
  <2>2. k + 1 \in Nat /\ k + 1 <= Len(line) /\ k + 1 \in DOMAIN line
    BY <1>2, <1>6
  <2>3. p \in Seq(Order)
    BY <1>4, <2>1, <2>2
  <2>4. x \in Order
    <3>1. line[k + 1] \in Glyph \cup {" "}
      BY <1>2, <2>2, SeqIsFunction DEF Plain
    <3> QED BY <2>1, <3>1, AddressNat DEF Data, Order, Op, Char
  <2>5. Chars(line, k) = <<x>> \o p
    BY <1>2, <1>6, <2>1, CharsType
  <2>6. (<<x>> \o p) \o a = <<x>> \o (p \o a)
    BY <1>3, <2>3, <2>4, ThreeParts
  <2> QED BY <1>1, <2>1, <2>5, <2>6 DEF RestAt
<1>7. ASSUME k = Len(line) PROVE RestAt(lines, r, k) = a
  <2>1. Chars(line, k) = <<>>
    BY <1>2, <1>7, CharsType
  <2>2. \A q \in Seq(Order) : <<>> \o q = q
    OBVIOUS
  <2> QED BY <1>1, <1>3, <2>1, <2>2 DEF RestAt
<1> QED BY <1>1, <1>5, <1>6, <1>7

LEMMA WrittenFirst ==
    ASSUME NEW lines, NEW c \in Cell
    PROVE  WrittenAt(lines, 0, 0, c) = " "
<1>1. RowOf(c) \in Nat /\ RowOf(c) >= 1
  BY CellPlace
<1>2. ~ (RowOf(c) < 0) /\ RowOf(c) # 0
  BY <1>1
<1> QED BY <1>2 DEF WrittenAt

LEMMA WrittenMore ==
    ASSUME NEW lines, Laid(lines), NEW r \in Nat, r <= Len(lines),
           NEW k \in Nat, k < Len(Row(lines, r)), NEW c \in Cell
    PROVE  /\ Place(r, k + 1) \in Cell
           /\ WrittenAt(lines, r, k + 1, c) =
                 IF c = Place(r, k + 1) THEN Row(lines, r)[k + 1] ELSE WrittenAt(lines, r, k, c)
           /\ k + 1 < Len(Row(lines, r)) => Inc(Place(r, k + 1)) = Place(r, k + 2)
<1>1. PICK i \in Nat, j \in Nat :
         i = RowOf(c) /\ j = ColOf(c) /\ i >= 1 /\ j >= 1 /\ c = Place(i, j)
  BY CellPlace
<1>2. r # 0 /\ r >= 1 /\ r \in DOMAIN lines /\ Row(lines, r) = lines[r]
  <2>1. r # 0
    <3>1. Len(<<>>) = 0
      OBVIOUS
    <3> QED BY <3>1 DEF Row
  <2> QED BY <2>1, LinesDomain DEF Row
<1>3. /\ r <= TextRows /\ Len(lines[r]) \in Nat /\ Len(lines[r]) <= TextCols /\ k < Len(lines[r])
      /\ TextCols \in Nat
  BY <1>2, LinesDomain, SizesAssumption
<1>4. PICK m \in Nat : m = k + 1 /\ m >= 1 /\ m <= TextCols /\ m <= Len(lines[r])
  BY <1>3
<1>5. Place(r, m) \in Cell /\ RowOf(Place(r, m)) = r /\ ColOf(Place(r, m)) = m
  BY <1>2, <1>3, <1>4, PlaceIs
<1>6. c = Place(r, m) <=> i = r /\ j = m
  BY <1>1, <1>5
<1>7. j <= m <=> j <= k \/ j = m
  BY <1>4
<1>8. WrittenAt(lines, r, m, c) = IF c = Place(r, m) THEN lines[r][m] ELSE WrittenAt(lines, r, k, c)
  <2>1. CASE i = r /\ j = m
    <3>1. RowOf(c) = r /\ ColOf(c) = m /\ m <= m
      BY <1>1, <1>4, <2>1
    <3>2. WrittenAt(lines, r, m, c) = lines[r][m]
      BY <1>2, <1>4, <3>1 DEF WrittenAt
    <3> QED BY <1>6, <2>1, <3>2
  <2>2. CASE ~ (i = r /\ j = m)
    BY <1>1, <1>6, <1>7, <2>2 DEF WrittenAt
  <2> QED BY <2>1, <2>2
<1>9. ASSUME m < Len(lines[r]) PROVE Inc(Place(r, m)) = Place(r, k + 2)
  <2>1. PICK l \in Nat : l = m + 1 /\ l = k + 2 /\ 1 <= l /\ l <= TextCols
    BY <1>3, <1>4, <1>9
  <2>2. Place(r, l) \in Cell
    BY <1>2, <1>3, <2>1, PlaceIs
  <2>3. Place(r, l) = Place(r, m) + 1
    <3>1. PICK b \in Int : b = (r - 1) * TextCols
      <4>1. r - 1 \in Int /\ TextCols \in Int
        BY <1>3
      <4>2. (r - 1) * TextCols \in Int
        BY <4>1
      <4> QED BY <4>2
    <3>2. b + (l - 1) = (b + (m - 1)) + 1
      BY <2>1
    <3> QED BY <3>1, <3>2 DEF Place
  <2>4. Wrap(Place(r, l)) = Place(r, l)
    BY <2>2, CellNat, WrapType
  <2> QED BY <2>1, <2>3, <2>4 DEF Inc
<1> QED BY <1>2, <1>4, <1>5, <1>8, <1>9

\* The rows that are passed over are empty.
LEMMA WrittenSkips ==
    ASSUME NEW lines, Laid(lines), NEW r \in Nat, r <= Len(lines), NEW s \in Nat, r < s,
           \A i \in DOMAIN lines : r < i /\ i < s => lines[i] = <<>>, NEW c \in Cell
    PROVE  WrittenAt(lines, r, Len(Row(lines, r)), c) = WrittenAt(lines, s, 0, c)
<1>1. PICK i \in Nat, j \in Nat : i = RowOf(c) /\ j = ColOf(c) /\ i >= 1 /\ j >= 1
  BY CellPlace
<1>2. CASE i \notin DOMAIN lines \/ ~ (j <= Len(lines[i]))
  BY <1>1, <1>2 DEF WrittenAt
<1>3. CASE i \in DOMAIN lines /\ j <= Len(lines[i])
  <2>1. ~ (r < i /\ i < s)
    <3>1. Len(<<>>) = 0 /\ ~ (j <= 0)
      BY <1>1
    <3> QED BY <1>3, <3>1
  <2>2. i = r => j <= Len(Row(lines, r))
    BY <1>3, LinesDomain
  <2>3. ~ (i = s /\ j <= 0) /\ ((i < r \/ i = r) <=> i < s)
    BY <1>1, <2>1
  <2> QED BY <1>1, <1>3, <2>2, <2>3 DEF WrittenAt
<1> QED BY <1>2, <1>3

LEMMA WrittenDone ==
    ASSUME NEW lines, Laid(lines), NEW r \in Nat, r <= Len(lines),
           \A i \in DOMAIN lines : i > r => lines[i] = <<>>, NEW c \in Cell
    PROVE  WrittenAt(lines, r, Len(Row(lines, r)), c) =
              IF RowOf(c) \in DOMAIN lines /\ ColOf(c) <= Len(lines[RowOf(c)])
              THEN lines[RowOf(c)][ColOf(c)] ELSE " "
<1>1. PICK i \in Nat, j \in Nat : i = RowOf(c) /\ j = ColOf(c) /\ i >= 1 /\ j >= 1
  BY CellPlace
<1>2. CASE i \notin DOMAIN lines \/ ~ (j <= Len(lines[i]))
  BY <1>1, <1>2 DEF WrittenAt
<1>3. CASE i \in DOMAIN lines /\ j <= Len(lines[i])
  <2>1. ~ (i > r)
    <3>1. Len(<<>>) = 0 /\ ~ (j <= 0)
      BY <1>1
    <3> QED BY <1>3, <3>1
  <2>2. i = r => j <= Len(Row(lines, r))
    BY <1>3, LinesDomain
  <2>3. i < r \/ i = r
    BY <2>1
  <2> QED BY <1>1, <1>3, <2>2, <2>3 DEF WrittenAt
<1> QED BY <1>2, <1>3

LEMMA TextStays == [Next]_vars => source' = source /\ text' = text
<1> SUFFICES ASSUME [Next]_vars PROVE source' = source /\ text' = text
  OBVIOUS
<1>1. ASSUME NEW o, SetBufferAddress(o) \/ StartField(o) \/ Skip(o) \/ PutChar(o) \/ Fill(o)
      PROVE  source' = source /\ text' = text
  BY <1>1 DEF SetBufferAddress, StartField, Skip, PutChar, Fill, NextOrder
<1>2. CASE ApplyOrder
  BY <1>1, <1>2 DEF ApplyOrder
<1>3. CASE CutRecord
  BY <1>3 DEF CutRecord, CutSF, CutSFE, NextOrder
<1> QED BY <1>2, <1>3 DEF Next, Apply, BeginRecord, EraseAllUnprotected, FillCell, FillDone,
                          EndRecord, vars, sourceVars

LEMMA LayingGoesOn == [Next]_vars => (Laying' <=> Laying) /\ TextLines' = TextLines
BY TextStays DEF Laying, TextLines

\* One order of a text.
LEMMA LayOrder ==
    ASSUME ScreenInv, LayingInv, [Next]_vars, ApplyOrder, Laying
    PROVE  /\ attrs' = {} /\ phase' = "apply" /\ records' = records /\ records # 0
           /\ \E r \in Nat, k \in Nat : At(TextLines, r, k, buf', addr', rest')
<1>1. PICK lines : lines = TextLines /\ Laid(lines) /\ source # "host"
  BY DEF Laying
<1>2. PICK o : /\ SetBufferAddress(o) \/ StartField(o) \/ Skip(o) \/ PutChar(o) \/ Fill(o)
               /\ phase = "apply" /\ rest # <<>> /\ o = Head(rest) /\ rest' = Tail(rest)
               /\ records' = records
  <2>1. PICK o : SetBufferAddress(o) \/ StartField(o) \/ Skip(o) \/ PutChar(o) \/ Fill(o)
    BY DEF ApplyOrder
  <2>2. NextOrder(o)
    BY <2>1 DEF SetBufferAddress, StartField, Skip, PutChar, Fill
  <2> QED BY <1>1, <2>1, <2>2 DEF NextOrder
<1>3. records # 0 /\ attrs = {} /\ \E r \in Nat, k \in Nat : At(lines, r, k, buf, addr, rest)
  BY <1>1, <1>2 DEF LayingInv
<1>4. PICK r \in Nat, k \in Nat : At(lines, r, k, buf, addr, rest)
  BY <1>3
<1>5. /\ r <= Len(lines) /\ k <= Len(Row(lines, r)) /\ rest = RestAt(lines, r, k)
      /\ \A c \in Cell : buf[c] = WrittenAt(lines, r, k, c)
      /\ k < Len(Row(lines, r)) => addr = Place(r, k + 1)
  BY <1>4 DEF At
<1>6. Len(Row(lines, r)) \in Nat /\ Len(lines) \in Nat
  BY <1>1, <1>5, RowType, LinesDomain
<1>7. ASSUME NEW x, NEW q \in Seq(Order), x \in Order, rest = <<x>> \o q
      PROVE  o = x /\ rest' = q
  <2>1. Head(<<x>> \o q) = x /\ Tail(<<x>> \o q) = q
    BY <1>7, HeadTailOfCons
  <2> QED BY <1>2, <1>7, <2>1
<1>8. buf \in [Cell -> Char]
  BY DEF ScreenInv
<1>9. CASE k < Len(Row(lines, r))
  <2>1. PICK x, m : x = Row(lines, r)[k + 1] /\ m = k + 1
    OBVIOUS
  <2>2. m \in Nat /\ m <= Len(Row(lines, r)) /\ m + 1 = k + 2
    BY <1>6, <1>9, <2>1
  <2>3. RestAt(lines, r, m) \in Seq(Order)
    BY <1>1, <1>5, <2>2, RestType
  <2>4. rest = <<Data(x)>> \o RestAt(lines, r, m)
    BY <1>1, <1>5, <1>9, <2>1, RestType
  <2>5. Data(x) \in Order
    <3>1. m \in DOMAIN Row(lines, r) /\ Row(lines, r) \in Plain
      <4>1. m \in 1 .. Len(Row(lines, r))
        BY <1>6, <2>1, <2>2
      <4> QED BY <1>1, <1>5, <4>1, RowType
    <3>2. x \in Glyph \cup {" "}
      BY <2>1, <3>1, SeqIsFunction DEF Plain
    <3> QED BY <3>2, AddressNat DEF Data, Order, Op, Char
  <2>6. o = Data(x) /\ rest' = RestAt(lines, r, m)
    BY <1>7, <2>3, <2>4, <2>5
  <2>7. o.op = "data" /\ o.ch = x
    BY <2>6 DEF Data
  <2>8. PutChar(o)
    BY <1>2, <2>7 DEF SetBufferAddress, StartField, Skip, Fill
  <2>9. PICK p : p = Place(r, m) /\ addr = p
    BY <1>5, <1>9, <2>1
  <2>10. /\ p \in Cell
         /\ \A c \in Cell : WrittenAt(lines, r, m, c) = IF c = p THEN x ELSE WrittenAt(lines, r, k, c)
         /\ m < Len(Row(lines, r)) => Inc(p) = Place(r, m + 1)
    <3>1. Cell # {}
      BY SizesAssumption DEF Cell
    <3> QED BY <1>1, <1>5, <1>9, <2>1, <2>2, <2>9, <3>1, WrittenMore
  <2>11. Wrap(p) = p
    BY <2>10, CellNat, WrapType
  <2>12. buf' = [buf EXCEPT ![p] = x] /\ addr' = Inc(p) /\ attrs' = attrs /\ phase' = phase
    BY <2>7, <2>8, <2>9, <2>11 DEF PutChar
  <2>13. \A c \in Cell : buf'[c] = WrittenAt(lines, r, m, c)
    BY <1>5, <1>8, <2>10, <2>12
  <2>14. At(lines, r, m, buf', addr', rest')
    BY <1>5, <2>2, <2>6, <2>10, <2>12, <2>13 DEF At
  <2> QED BY <1>1, <1>2, <1>3, <2>2, <2>12, <2>14
<1>10. CASE ~ (k < Len(Row(lines, r)))
  <2>1. k = Len(Row(lines, r))
    BY <1>5, <1>6, <1>10
  <2>2. rest = Ahead(lines, r) /\ rest # <<>>
    BY <1>1, <1>2, <1>5, <2>1, RestType
  <2>3. PICK s \in Nat :
           /\ r < s /\ s <= Len(lines) /\ lines[s] # <<>>
           /\ \A i \in DOMAIN lines : r < i /\ i < s => lines[i] = <<>>
           /\ Ahead(lines, r) = <<Sba(Place(s, 1))>> \o RestAt(lines, s, 0)
    BY <1>1, <1>5, <2>2, NextRow DEF NextAt
  <2>4. 0 \in Nat /\ 0 <= Len(Row(lines, s)) /\ s <= TextRows /\ 1 <= s
    <3>1. Len(Row(lines, s)) \in Nat /\ s <= TextRows
      BY <1>1, <2>3, RowType
    <3> QED BY <2>3, <3>1
  <2>5. RestAt(lines, s, 0) \in Seq(Order)
    BY <1>1, <2>3, <2>4, RestType
  <2>6. PICK p \in Address : p = Place(s, 1) /\ p \in Nat
    <3>1. 1 \in Nat /\ 1 <= 1 /\ 1 <= TextCols
      BY SizesAssumption
    <3>2. Place(s, 1) \in Cell
      BY <2>4, <3>1, PlaceIs
    <3> QED BY <3>2, AddressNat
  <2>7. Sba(p) \in Order
    BY DEF Sba, Order, Op, Char
  <2>8. o = Sba(p) /\ rest' = RestAt(lines, s, 0)
    BY <1>7, <2>2, <2>3, <2>5, <2>6, <2>7
  <2>9. o.op = "SBA" /\ o.at = p
    BY <2>8 DEF Sba
  <2>10. SetBufferAddress(o)
    BY <1>2, <2>9 DEF PutChar, StartField, Skip, Fill
  <2>11. addr' = p /\ UNCHANGED <<buf, attrs, phase>>
    BY <2>9, <2>10 DEF SetBufferAddress
  <2>12. \A c \in Cell : buf'[c] = WrittenAt(lines, s, 0, c)
    BY <1>1, <1>5, <2>1, <2>3, <2>11, WrittenSkips
  <2>13. 0 + 1 = 1
    OBVIOUS
  <2>14. At(lines, s, 0, buf', addr', rest')
    BY <2>3, <2>4, <2>6, <2>8, <2>11, <2>12, <2>13 DEF At
  <2> QED BY <1>1, <1>2, <1>3, <2>4, <2>11, <2>14
<1> QED BY <1>9, <1>10

LEMMA StepLaying == ScreenInv /\ LayingInv /\ [Next]_vars => LayingInv'
<1> SUFFICES ASSUME ScreenInv, LayingInv, [Next]_vars PROVE LayingInv'
  OBVIOUS
<1>1. records' \in Nat
  <2>1. records \in Nat
    BY DEF LayingInv
  <2>2. records' = records \/ records' = records + 1
    <3>1. ASSUME NEW o, NextOrder(o) PROVE records' = records
      BY <3>1 DEF NextOrder
    <3>2. CASE ApplyOrder
      BY <3>1, <3>2 DEF ApplyOrder, SetBufferAddress, StartField, Skip, PutChar, Fill
    <3>3. CASE CutRecord
      BY <3>1, <3>3 DEF CutRecord, CutSF, CutSFE
    <3> QED BY <3>2, <3>3 DEF Next, Apply, BeginRecord, EraseAllUnprotected, FillCell, FillDone,
                              EndRecord, vars, sourceVars
  <2> QED BY <2>1, <2>2
<1>2. SUFFICES ASSUME Laying, Laying', TextLines' = TextLines
               PROVE  /\ attrs' = {} /\ phase' # "fill"
                      /\ phase' = "idle" /\ records' # 0 => rest' = <<>>
                      /\ IF records' = 0
                         THEN phase' = "idle" /\ rest' = RestAt(TextLines, 0, 0)
                         ELSE \E r \in Nat, k \in Nat : At(TextLines, r, k, buf', addr', rest')
  BY <1>1, LayingGoesOn DEF LayingInv
<1>3. /\ source # "host" /\ attrs = {} /\ phase # "fill" /\ records \in Nat
      /\ phase = "idle" /\ records # 0 => rest = <<>>
      /\ IF records = 0
         THEN phase = "idle" /\ rest = RestAt(TextLines, 0, 0)
         ELSE \E r \in Nat, k \in Nat : At(TextLines, r, k, buf, addr, rest)
  BY <1>2 DEF Laying, LayingInv
<1>4. CASE BeginRecord
  <2>1. records = 0 /\ records' # 0
    BY <1>3, <1>4 DEF BeginRecord
  <2>2. Erase /\ phase' = "apply" /\ addr' = 0 /\ rest' = RestAt(TextLines, 0, 0)
    BY <1>3, <1>4, <2>1 DEF BeginRecord
  <2>3. \A c \in Cell : buf'[c] = WrittenAt(TextLines, 0, 0, c)
    BY <2>2, WrittenFirst DEF Erase, Blanks
  <2>4. Len(Row(TextLines, 0)) = 0 /\ 0 <= Len(TextLines) /\ 0 \in Nat
    <3>1. Len(TextLines) \in Nat /\ Len(<<>>) = 0
      BY <1>2, LinesDomain DEF Laying
    <3> QED BY <3>1 DEF Row
  <2>5. At(TextLines, 0, 0, buf', addr', rest')
    BY <2>2, <2>3, <2>4 DEF At
  <2> QED BY <2>1, <2>2, <2>4, <2>5 DEF Erase
<1>5. CASE EraseAllUnprotected
  BY <1>3, <1>5 DEF EraseAllUnprotected
<1>6. CASE ApplyOrder
  BY <1>2, <1>6, LayOrder
<1>7. CASE FillCell \/ FillDone
  BY <1>3, <1>7 DEF FillCell, FillDone
<1>8. CASE EndRecord
  <2>1. records # 0 /\ rest = <<>>
    BY <1>3, <1>8 DEF EndRecord
  <2> QED BY <1>3, <1>8, <2>1 DEF EndRecord, sourceVars
<1>9. CASE UNCHANGED vars
  BY <1>3, <1>9 DEF vars, screenVars, sourceVars
<1>10. CASE CutRecord
  BY <1>3, <1>10 DEF CutRecord, CutSF, CutSFE
<1> QED BY <1>4, <1>5, <1>6, <1>7, <1>8, <1>9, <1>10 DEF Next, Apply

LEMMA InitLaying == Init => LayingInv
<1> SUFFICES ASSUME Init, Laying PROVE LayingInv
  BY DEF Init, LayingInv
<1>1. PICK lines : lines = TextLines /\ Laid(lines)
  BY DEF Laying
<1>2. rest = EchoScreen(lines)
  BY <1>1 DEF Init, Laying, TextLines
<1>3. EchoScreen(lines) = Ahead(lines, 0)
  <2>1. PICK n \in Nat : n = Len(lines) /\ DOMAIN lines = 1 .. n /\ n - 0 = n
    BY <1>1, LinesDomain
  <2>2. \A i \in 1 .. n : (0 + i) - 1 = i - 1 /\ 0 + i = i
    OBVIOUS
  <2>3. RowOrders(lines, 0) = [i \in DOMAIN lines |-> LineOrders(i - 1, lines[i])]
    BY <2>1, <2>2 DEF RowOrders
  <2> QED BY <2>3 DEF EchoScreen, Ahead
<1>4. RestAt(lines, 0, 0) = Ahead(lines, 0)
  <2>1. 0 \in Nat /\ 0 <= Len(lines) /\ Len(Row(lines, 0)) = 0 /\ 0 <= Len(Row(lines, 0))
    <3>1. Len(lines) \in Nat /\ Len(<<>>) = 0
      BY <1>1, LinesDomain
    <3> QED BY <3>1 DEF Row
  <2> QED BY <1>1, <2>1, RestType
<1> QED BY <1>1, <1>2, <1>3, <1>4 DEF Init, LayingInv

LEMMA LaidTexts == Init => (source = "file" => Laying) /\ (source = "lines" /\ Fits => Laying)
<1> SUFFICES ASSUME Init, source \in {"lines", "file"} PROVE (source = "file" \/ Fits) => Laying
  OBVIOUS
<1>1. text \in Seq(Texts)
  BY TextType
<1>2. CASE source = "file"
  BY <1>1, <1>2, ShownIsLaid DEF Laying, TextLines
<1>3. ASSUME source = "lines", Fits PROVE Laying
  <2>1. PICK Q : Q = Texts
    OBVIOUS
  <2>2. DOMAIN text = 1 .. Len(text) /\ Len(text) \in Nat /\ \A i \in DOMAIN text : text[i] \in Q
    BY <1>1, <2>1, SeqIsFunction
  <2>3. ASSUME NEW i \in DOMAIN text PROVE text[i] \in Plain
    <3>1. PICK line : line = text[i]
      OBVIOUS
    <3>2. line \in Seq(Glyph \cup {" ", "tab"}) /\ "tab" \notin ToSet(line)
      BY <1>3, <2>1, <2>2, <2>3, <3>1 DEF Texts, Fits
    <3>3. DOMAIN line = 1 .. Len(line) /\ Len(line) \in Nat
          /\ \A j \in DOMAIN line : line[j] \in Glyph \cup {" ", "tab"}
      BY <3>2, SeqIsFunction
    <3>4. \A j \in DOMAIN line : line[j] # "tab"
      BY <3>2 DEF ToSet
    <3>5. line \in [1 .. Len(line) -> Glyph \cup {" "}]
      <4>1. \A S : \A q \in Seq(S) : q = [j \in DOMAIN q |-> q[j]]
        OBVIOUS
      <4>2. line = [j \in DOMAIN line |-> line[j]]
        BY <3>2, <4>1
      <4> QED BY <3>3, <3>4, <4>2
    <3> QED BY <3>1, <3>3, <3>5, FunctionIsSeq DEF Plain
  <2>4. text \in Seq(Plain)
    <3>1. text = [j \in DOMAIN text |-> text[j]]
      BY <1>1
    <3>2. text \in [1 .. Len(text) -> Plain]
      BY <2>2, <2>3, <3>1
    <3> QED BY <2>2, <3>2, FunctionIsSeq
  <2> QED BY <1>3, <2>4 DEF Laying, TextLines, Laid, Fits
<1> QED BY <1>2, <1>3

LEMMA LaidStays ==
    ASSUME [Next]_vars, (source = "file" => Laying) /\ (source = "lines" /\ Fits => Laying)
    PROVE  (source' = "file" => Laying') /\ (source' = "lines" /\ Fits' => Laying')
<1>1. source' = source /\ text' = text
  BY TextStays
<1> QED BY <1>1, LayingGoesOn DEF Fits

LEMMA LayingImplies ==
    LayingInv /\ (source = "file" => Laying) /\ (source = "lines" /\ Fits => Laying) => LinesShown
<1> DEFINE Shown(c) == IF RowOf(c) \in DOMAIN TextLines /\ ColOf(c) <= Len(TextLines[RowOf(c)])
                       THEN TextLines[RowOf(c)][ColOf(c)] ELSE " "
<1>1. SUFFICES ASSUME LayingInv, Laying, records > 0, phase = "idle", NEW c \in Cell
               PROVE  Filled(c) = Shown(c)
  BY DEF LinesShown, TextLines, RowOf, ColOf
<1>2. records # 0
  BY <1>1 DEF LayingInv
<1>3. /\ attrs = {} /\ rest = <<>>
      /\ \E r \in Nat, k \in Nat : At(TextLines, r, k, buf, addr, rest)
  BY <1>1, <1>2 DEF LayingInv
<1>4. PICK lines : lines = TextLines /\ Laid(lines)
  BY <1>1 DEF Laying
<1>5. PICK r \in Nat, k \in Nat :
         /\ r <= Len(lines) /\ k <= Len(Row(lines, r)) /\ RestAt(lines, r, k) = <<>>
         /\ buf[c] = WrittenAt(lines, r, k, c)
  BY <1>1, <1>3, <1>4 DEF At
<1>6. Len(Row(lines, r)) \in Nat
  BY <1>4, <1>5, RowType
<1>7. k = Len(Row(lines, r))
  <2>1. CASE k < Len(Row(lines, r))
    <3>1. PICK x, m : x = Data(Row(lines, r)[k + 1]) /\ m = k + 1
      OBVIOUS
    <3>2. m \in Nat /\ m <= Len(Row(lines, r))
      BY <1>6, <2>1, <3>1
    <3>3. RestAt(lines, r, m) \in Seq(Order)
      BY <1>4, <1>5, <3>2, RestType
    <3>4. <<>> = <<x>> \o RestAt(lines, r, m)
      BY <1>4, <1>5, <2>1, <3>1, RestType
    <3>5. \A q \in Seq(Order) : <<x>> \o q # <<>>
      BY NotEmpty
    <3> QED BY <3>3, <3>4, <3>5
  <2> QED BY <1>5, <1>6, <2>1
<1>8. \A i \in DOMAIN lines : i > r => lines[i] = <<>>
  <2>1. Ahead(lines, r) = <<>>
    BY <1>4, <1>5, <1>7, RestType
  <2>2. ASSUME NEW s \in Nat, s <= Len(lines),
               Ahead(lines, r) = <<Sba(Place(s, 1))>> \o RestAt(lines, s, 0)
        PROVE  FALSE
    <3>1. 0 \in Nat /\ 0 <= Len(Row(lines, s))
      <4>1. Len(Row(lines, s)) \in Nat
        BY <1>4, <2>2, RowType
      <4> QED BY <4>1
    <3>2. RestAt(lines, s, 0) \in Seq(Order)
      BY <1>4, <2>2, <3>1, RestType
    <3>3. \A x : \A q \in Seq(Order) : <<x>> \o q # <<>>
      BY NotEmpty
    <3> QED BY <2>1, <2>2, <3>2, <3>3
  <2> QED BY <1>4, <1>5, <2>2, NextRow DEF NextAt
<1>9. buf[c] = Shown(c)
  BY <1>4, <1>5, <1>7, <1>8, WrittenDone
<1>10. buf[c] # "nul"
  <2>1. CASE RowOf(c) \in DOMAIN lines /\ ColOf(c) <= Len(lines[RowOf(c)])
    <3>1. PICK i, j : i = RowOf(c) /\ j = ColOf(c) /\ j \in Nat /\ j >= 1
      BY CellPlace
    <3>2. i \in Nat /\ i <= Len(lines) /\ Row(lines, i) = lines[i]
      <4>1. i \in 1 .. Len(lines) /\ Len(lines) \in Nat
        BY <1>4, <2>1, <3>1, LinesDomain
      <4> QED BY <1>4, <2>1, <3>1, <4>1, LinesDomain
    <3>3. lines[i] \in Plain /\ j \in DOMAIN lines[i]
      <4>1. /\ lines[i] \in Plain /\ Len(lines[i]) \in Nat
            /\ DOMAIN lines[i] = 1 .. Len(lines[i])
        BY <1>4, <3>2, RowType
      <4> QED BY <2>1, <3>1, <4>1
    <3>4. lines[i][j] \in Glyph \cup {" "}
      BY <3>3, SeqIsFunction DEF Plain
    <3> QED BY <1>4, <1>9, <2>1, <3>1, <3>4, GlyphAssumption
  <2>2. CASE ~ (RowOf(c) \in DOMAIN lines /\ ColOf(c) <= Len(lines[RowOf(c)]))
    BY <1>4, <1>9, <2>2
  <2> QED BY <2>1, <2>2
<1>11. LinearCell(c) = Shown(c)
  <2>1. LinearCell(c) = buf[c]
    BY <1>3, <1>10 DEF LinearCell
  <2> QED BY <1>9, <2>1
<1> QED BY <1>11, LinearShows

(***************************************************************************)
(* Whatever the file, of which charScreen gets the first rows, cut to the  *)
(* width by showFileDatastream, and whatever the lines of a menu or of an  *)
(* echo, if they fit and hold no tab: the terminal shows them, each at the *)
(* start of its row, and nothing else, on a display of any size.           *)
(***************************************************************************)
THEOREM LinesAreShown == Spec => []LinesShown
<1> DEFINE TextLaid == (source = "file" => Laying) /\ (source = "lines" /\ Fits => Laying)
<1>1. Init => ScreenInv /\ LayingInv /\ TextLaid
  BY InitScreen, InitLaying, LaidTexts
<1>2. ScreenInv /\ LayingInv /\ TextLaid /\ [Next]_vars => (ScreenInv /\ LayingInv /\ TextLaid)'
  BY StepScreen, StepLaying, LaidStays
<1>3. LayingInv /\ TextLaid => LinesShown
  BY LayingImplies
<1> HIDE DEF TextLaid
<1> QED BY <1>1, <1>2, <1>3, PTL DEF Spec

-----------------------------------------------------------------------------
(* Type correctness.  The types of the buffers and addresses are part of   *)
(* ScreenInv; these are the others.                                        *)
SourceTypes ==
    /\ source \in {"host", "lines", "file"} /\ text \in Seq(Line)
    /\ records \in 0 .. MaxRecords /\ orders \in 0 .. MaxOrders
    /\ phase \in {"idle", "apply", "fill"}

LEMMA InitSource == Init => SourceTypes
<1> SUFFICES ASSUME Init PROVE SourceTypes
  OBVIOUS
<1>1. text \in Seq(Line)
  <2>1. BoundedSeq(Line, MaxLines) \subseteq Seq(Line)
    BY DEF BoundedSeq, SeqOf
  <2>2. <<>> \in Seq(Line)
    OBVIOUS
  <2> QED BY <2>1, <2>2 DEF Init
<1>2. 0 \in 0 .. MaxRecords /\ 0 \in 0 .. MaxOrders
  BY BoundsAssumption
<1> QED BY <1>1, <1>2 DEF Init, SourceTypes

LEMMA StepSource == SourceTypes /\ [Next]_vars => SourceTypes'
<1> SUFFICES ASSUME SourceTypes, [Next]_vars PROVE SourceTypes'
  OBVIOUS
<1>1. source' = source /\ text' = text
  BY TextStays
<1>2. /\ MaxRecords \in Nat /\ MaxRecords >= 1 /\ MaxOrders \in Nat
      /\ records \in 0 .. MaxRecords /\ orders \in 0 .. MaxOrders
  BY BoundsAssumption DEF SourceTypes
<1>3. CASE BeginRecord \/ EraseAllUnprotected
  <2>1. records < MaxRecords /\ records' = records + 1
    BY <1>2, <1>3 DEF BeginRecord, EraseAllUnprotected
  <2>2. records' \in 0 .. MaxRecords
    BY <1>2, <2>1
  <2>3. orders' \in 0 .. MaxOrders
    BY <1>2, <1>3 DEF BeginRecord, EraseAllUnprotected
  <2>4. phase' \in {"idle", "apply", "fill"}
    BY <1>3 DEF BeginRecord, EraseAllUnprotected, SourceTypes
  <2> QED BY <1>1, <2>2, <2>3, <2>4 DEF SourceTypes
<1>4. ASSUME NEW o, NextOrder(o)
      PROVE  records' \in 0 .. MaxRecords /\ orders' \in 0 .. MaxOrders
  BY <1>2, <1>4 DEF NextOrder
<1>5. CASE ApplyOrder
  <2>1. PICK o : SetBufferAddress(o) \/ StartField(o) \/ Skip(o) \/ PutChar(o) \/ Fill(o)
    BY <1>5 DEF ApplyOrder
  <2>2. NextOrder(o) /\ phase' \in {phase, "fill"}
    BY <2>1 DEF SetBufferAddress, StartField, Skip, PutChar, Fill, screenVars
  <2> QED BY <1>1, <1>4, <2>2 DEF SourceTypes
<1>6. CASE FillCell \/ FillDone \/ EndRecord \/ UNCHANGED vars
  BY <1>6 DEF FillCell, FillDone, EndRecord, vars, screenVars, sourceVars, SourceTypes
<1>7. CASE CutRecord
  <2>1. NextOrder(Attribute) /\ phase' = "idle"
    BY <1>7 DEF CutRecord, CutSF, CutSFE
  <2> QED BY <1>1, <1>4, <2>1 DEF SourceTypes
<1> QED BY <1>3, <1>5, <1>6, <1>7 DEF Next, Apply

(***************************************************************************)
(* Every variable keeps its type: whatever the records, Apply puts only    *)
(* characters in the buffer, at cells of it, and its address, those of the *)
(* order being carried out and those of a text's rows are addresses that   *)
(* an order can hold.                                                      *)
(***************************************************************************)
THEOREM TypeCorrect == Spec => []TypeOK
<1>1. ScreenInv /\ SourceTypes => TypeOK
  BY DEF ScreenInv, SourceTypes, TypeOK, Filler, Flat
<1> QED BY <1>1, InitScreen, StepScreen, InitSource, StepSource, PTL DEF Spec

=============================================================================
