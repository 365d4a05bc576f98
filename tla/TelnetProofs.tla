---------------------------- MODULE TelnetProofs ----------------------------
(***************************************************************************)
(* Proofs about module Telnet, for any contents of the records, any number *)
(* of them and of inputs.                                                  *)
(***************************************************************************)
EXTENDS Telnet, Lemmas

-----------------------------------------------------------------------------
(* Sequences made of what each element of another one stands for.          *)

SeqMaps(S, T) == [S -> Seq(T)]
Mapped(f, s) == [i \in DOMAIN s |-> f[s[i]]]
Pick(f, s) == FlattenSeq(Mapped(f, s))

LEMMA SeqFacts ==
    ASSUME NEW S, NEW q \in Seq(S)
    PROVE  /\ DOMAIN q = 1 .. Len(q) /\ Len(q) \in Nat /\ \A i \in DOMAIN q : q[i] \in S
           /\ <<>> \o q = q /\ q \o <<>> = q
           /\ \A x \in S : Append(q, x) = q \o <<x>> /\ <<x>> \in Seq(S)
OBVIOUS

LEMMA MakeSeq ==
    ASSUME NEW n \in Nat, NEW Q, NEW f \in [1 .. n -> Q]
    PROVE  f \in Seq(Q) /\ Len(f) = n
OBVIOUS

LEMMA FlattenType ==
    ASSUME NEW S, NEW Q, Q = Seq(S), NEW ss \in Seq(Q)
    PROVE  FlattenSeq(ss) \in Q
<1>1. ss \in Seq(Seq(S)) /\ <<>> \in Seq(S)
  OBVIOUS
<1> QED BY <1>1, FlattenAppend

LEMMA MapType ==
    ASSUME NEW S, NEW T, NEW Q, Q = Seq(T), NEW f \in SeqMaps(S, T), NEW s \in Seq(S)
    PROVE  Mapped(f, s) \in Seq(Q) /\ Len(Mapped(f, s)) = Len(s)
<1>1. DOMAIN s = 1 .. Len(s) /\ Len(s) \in Nat /\ \A i \in 1 .. Len(s) : s[i] \in S
  BY SeqFacts
<1>2. Mapped(f, s) \in [1 .. Len(s) -> Q]
  BY <1>1 DEF Mapped, SeqMaps
<1> QED BY <1>1, <1>2, MakeSeq

LEMMA MapConcat ==
    ASSUME NEW S, NEW T, NEW f \in SeqMaps(S, T), NEW s \in Seq(S), NEW t \in Seq(S)
    PROVE  Mapped(f, s \o t) = Mapped(f, s) \o Mapped(f, t)
<1>1. PICK Q : Q = Seq(T)
  OBVIOUS
<1>2. PICK u : u = s \o t
  OBVIOUS
<1>15. Joined(S, u, s, t)
  BY <1>2, ConcatJoins
<1>3. /\ u \in Seq(S) /\ Len(u) = Len(s) + Len(t)
      /\ Len(s) \in Nat /\ Len(t) \in Nat
      /\ DOMAIN s = 1 .. Len(s) /\ DOMAIN t = 1 .. Len(t) /\ DOMAIN u = 1 .. Len(s) + Len(t)
      /\ \A i \in 1 .. Len(s) : u[i] = s[i]
      /\ \A j \in 1 .. Len(t) : u[Len(s) + j] = t[j]
  BY <1>15 DEF Joined
<1>4. PICK g, h, c : g = Mapped(f, s) /\ h = Mapped(f, t) /\ c = Mapped(f, u)
  OBVIOUS
<1>5. g \in Seq(Q) /\ Len(g) = Len(s) /\ h \in Seq(Q) /\ Len(h) = Len(t)
  BY <1>1, <1>4, MapType
<1>6. c \in Seq(Q) /\ Len(c) = Len(u)
  <2>1. u \in Seq(S)
    BY <1>3
  <2> QED BY <1>1, <1>4, <2>1, MapType
<1>7. g \in Seq(Q) /\ h \in Seq(Q)
  BY <1>5
<1>8. PICK d : d = g \o h
  OBVIOUS
<1>16. Joined(Q, d, g, h)
  BY <1>7, <1>8, ConcatJoins
<1>9. /\ d \in Seq(Q) /\ Len(d) = Len(g) + Len(h)
      /\ \A i \in 1 .. Len(g) : d[i] = g[i]
      /\ \A j \in 1 .. Len(h) : d[Len(g) + j] = h[j]
  BY <1>16 DEF Joined
<1>10. /\ \A i \in DOMAIN s : g[i] = f[s[i]]
       /\ \A i \in DOMAIN t : h[i] = f[t[i]]
       /\ \A i \in DOMAIN u : c[i] = f[u[i]]
  BY <1>4 DEF Mapped
<1>11. Len(c) = Len(d)
  BY <1>3, <1>5, <1>6, <1>9
<1>12. ASSUME NEW i \in 1 .. Len(c) PROVE c[i] = d[i]
  <2>1. i \in 1 .. Len(u) /\ i \in DOMAIN u /\ c[i] = f[u[i]]
    BY <1>3, <1>6, <1>10
  <2>2. CASE i <= Len(s)
    <3>1. i \in 1 .. Len(s)
      BY <1>3, <2>1, <2>2
    <3> QED BY <1>3, <1>5, <1>9, <1>10, <2>1, <3>1
  <2>3. CASE ~ (i <= Len(s))
    <3>1. PICK j \in 1 .. Len(t) : i = Len(s) + j
      <4>1. i - Len(s) \in 1 .. Len(t) /\ i = Len(s) + (i - Len(s))
        BY <1>3, <2>1, <2>3
      <4> QED BY <4>1
    <3>2. d[i] = h[j]
      BY <1>5, <1>9, <3>1
    <3>3. c[i] = f[t[j]] /\ h[j] = f[t[j]]
      BY <1>3, <1>10, <2>1, <3>1
    <3> QED BY <3>2, <3>3
  <2> QED BY <2>2, <2>3
<1>13. c = d
  BY <1>6, <1>9, <1>11, <1>12, SeqEqual
<1>14. u = s \o t /\ d = g \o h
  BY <1>2, <1>8
<1> QED BY <1>4, <1>13, <1>14

LEMMA PickType ==
    ASSUME NEW S, NEW T, NEW f \in SeqMaps(S, T), NEW s \in Seq(S)
    PROVE  Pick(f, s) \in Seq(T)
<1>1. PICK Q : Q = Seq(T)
  OBVIOUS
<1>2. Mapped(f, s) \in Seq(Q)
  BY <1>1, MapType
<1>3. FlattenSeq(Mapped(f, s)) \in Q
  BY <1>1, <1>2, FlattenType
<1> QED BY <1>1, <1>3 DEF Pick

LEMMA PickConcat ==
    ASSUME NEW S, NEW T, NEW f \in SeqMaps(S, T), NEW s \in Seq(S), NEW t \in Seq(S)
    PROVE  Pick(f, s \o t) = Pick(f, s) \o Pick(f, t)
<1>1. Mapped(f, s) \in Seq(Seq(T)) /\ Mapped(f, t) \in Seq(Seq(T))
  <2>1. Mapped(f, s) \in Seq(Seq(T))
    BY MapType
  <2>2. Mapped(f, t) \in Seq(Seq(T))
    BY MapType
  <2> QED BY <2>1, <2>2
<1>2. Mapped(f, s \o t) = Mapped(f, s) \o Mapped(f, t)
  BY MapConcat
<1>3. FlattenSeq(Mapped(f, s) \o Mapped(f, t)) = FlattenSeq(Mapped(f, s)) \o FlattenSeq(Mapped(f, t))
  BY <1>1, FlattenConcat
<1> QED BY <1>2, <1>3 DEF Pick

LEMMA PickOne ==
    ASSUME NEW S, NEW T, NEW f \in SeqMaps(S, T), NEW x \in S, NEW q, q = <<x>>
    PROVE  Pick(f, q) = f[x]
<1>2. q \in Seq(S) /\ DOMAIN q = {1} /\ q[1] = x
  OBVIOUS
<1>3. Mapped(f, q) = <<f[x]>>
  BY <1>2 DEF Mapped
<1>4. f[x] \in Seq(T)
  BY DEF SeqMaps
<1>5. FlattenSeq(<<f[x]>>) = f[x]
  BY <1>4, FlattenOne
<1> QED BY <1>3, <1>5 DEF Pick

LEMMA PickEmpty == \A f : Pick(f, <<>>) = <<>>
<1>1. \A g : Mapped(g, <<>>) = <<>>
  BY DEF Mapped
<1> QED BY <1>1, FlattenEmpty DEF Pick

\* From the head and at the end.
LEMMA PickHead ==
    ASSUME NEW S, NEW T, NEW f \in SeqMaps(S, T), NEW s \in Seq(S), s # <<>>
    PROVE  Pick(f, s) = f[Head(s)] \o Pick(f, Tail(s))
<1>1. PICK x \in S, t \in Seq(S) : x = Head(s) /\ t = Tail(s) /\ s = <<x>> \o t
  BY HeadTailJoin
<1>2. PICK o : o = <<x>>
  OBVIOUS
<1>3. o \in Seq(S)
  BY <1>2
<1>4. Pick(f, o \o t) = Pick(f, o) \o Pick(f, t)
  BY <1>3, PickConcat
<1>5. Pick(f, o) = f[x]
  BY <1>2, PickOne
<1> QED BY <1>1, <1>2, <1>4, <1>5

LEMMA PickAppend ==
    ASSUME NEW S, NEW T, NEW f \in SeqMaps(S, T), NEW s \in Seq(S), NEW x \in S
    PROVE  Pick(f, Append(s, x)) = Pick(f, s) \o f[x]
<1>1. PICK o, u : o = <<x>> /\ u = Append(s, x)
  OBVIOUS
<1>2. o \in Seq(S)
  BY <1>1
<1>3. Pick(f, s \o o) = Pick(f, s) \o Pick(f, o)
  BY <1>2, PickConcat
<1>4. Pick(f, o) = f[x]
  BY <1>1, PickOne
<1>5. u = s \o o
  BY <1>1
<1> QED BY <1>1, <1>3, <1>4, <1>5

-----------------------------------------------------------------------------
(* The streams as sequences of items: commands, subnegotiations, records.  *)

Bodies ==
    { <<"TTYPE", "SEND">>, <<"TN3270E", "SEND">>,
      <<"TN3270E", "DEVICE_TYPE", "IS">>, <<"TN3270E", "DEVICE_TYPE", "REJECT">>,
      <<"TTYPE", "IS">>, <<"TN3270E", "REQUEST">>, <<"TN3270E", "FUNCTIONS">> }
Value == (Command \X Option) \cup Bodies \cup Record
Item ==
    [k : {"cmd"}, v : Command \X Option] \cup [k : {"sub"}, v : Bodies] \cup [k : {"rec"}, v : Record]

Cmd(v) == [k |-> "cmd", v |-> v]
Sbn(v) == [k |-> "sub", v |-> v]
Rec(v) == [k |-> "rec", v |-> v]

Content(v) == Header(v[1]) \o v[2]

\* The bytes of a byte of data, and of an item.
EscapeOf == [x \in Byte |-> IF x = "IAC" THEN <<"IAC", "IAC">> ELSE <<x>>]
Bytes ==
    [item \in Item |-> IF item.k = "cmd" THEN <<"IAC", item.v[1], item.v[2]>>
                        ELSE IF item.k = "sub" THEN Subneg(item.v)
                        ELSE Escape(Content(item.v)) \o EndOfRecord]
Stream(items) == Pick(Bytes, items)

\* What the items of kind k carry, in order and as a set.
Of(k) == [item \in Item |-> IF item.k = k THEN <<item.v>> ELSE <<>>]
Vals(k, items) == Pick(Of(k), items)
ValSet(k, items) == {items[i].v : i \in {j \in DOMAIN items : items[j].k = k}}

LEMMA ItemCases ==
    ASSUME NEW item \in Item
    PROVE  \/ item.k = "cmd" /\ item.v \in Command \X Option /\ item = Cmd(item.v)
           \/ item.k = "sub" /\ item.v \in Bodies /\ item = Sbn(item.v)
           \/ item.k = "rec" /\ item.v \in Record /\ item = Rec(item.v)
BY DEF Item, Cmd, Sbn, Rec

LEMMA ItemMade ==
    /\ \A v \in Command \X Option : Cmd(v) \in Item /\ Cmd(v).k = "cmd" /\ Cmd(v).v = v
    /\ \A v \in Bodies : Sbn(v) \in Item /\ Sbn(v).k = "sub" /\ Sbn(v).v = v
    /\ \A v \in Record : Rec(v) \in Item /\ Rec(v).k = "rec" /\ Rec(v).v = v
BY DEF Item, Cmd, Sbn, Rec

LEMMA OfType == \A k : Of(k) \in SeqMaps(Item, Value)
<1>1. ASSUME NEW item \in Item PROVE item.v \in Value
  BY DEF Item, Value
<1>2. ASSUME NEW k, NEW item \in Item
      PROVE (IF item.k = k THEN <<item.v>> ELSE <<>>) \in Seq(Value)
  BY <1>1
<1> QED BY <1>2 DEF Of, SeqMaps

LEMMA Marks == {"IAC", "SB", "SE", "EOR", "0"} \subseteq Byte
BY DEF Byte, SubByte, Option

LEMMA HeaderType0 ==
    /\ \A type \in HeaderType : Header(type) \in Seq(Byte)
    /\ \A v \in Record : v[1] \in HeaderType /\ v[2] \in Payload /\ v = <<v[1], v[2]>>
                        /\ v[2] \in Seq(Byte) /\ Content(v) \in Seq(Byte)
<1>1. ASSUME NEW type \in HeaderType PROVE Header(type) \in Seq(Byte)
  <2>1. CASE type = "none"
    <3>1. <<>> \in Seq(Byte)
      OBVIOUS
    <3> QED BY <2>1, <3>1 DEF Header
  <2>2. CASE type # "none"
    <3>1. type \in Byte /\ "0" \in Byte
      BY <2>2 DEF HeaderType, Byte
    <3>2. <<type, "0", "0", "0", "0">> \in Seq(Byte)
      BY <3>1
    <3> QED BY <2>2, <3>2 DEF Header
  <2> QED BY <2>1, <2>2
<1>2. ASSUME NEW v \in Record
      PROVE  v[1] \in HeaderType /\ v[2] \in Payload /\ v = <<v[1], v[2]>> /\ v[2] \in Seq(Byte)
  BY PayloadAssumption DEF Record
<1>3. ASSUME NEW v \in Record PROVE Content(v) \in Seq(Byte)
  <2>1. PICK a \in Seq(Byte) : a = Header(v[1])
    BY <1>1, <1>2
  <2>2. PICK b \in Seq(Byte) : b = v[2]
    BY <1>2
  <2>3. a \o b \in Seq(Byte)
    OBVIOUS
  <2> QED BY <2>1, <2>2, <2>3 DEF Content
<1> QED BY <1>1, <1>2, <1>3

LEMMA EscapeIs ==
    /\ EscapeOf \in SeqMaps(Byte, Byte)
    /\ \A s \in Seq(Byte) : Escape(s) = Pick(EscapeOf, s) /\ Escape(s) \in Seq(Byte)
<1>1. EscapeOf \in SeqMaps(Byte, Byte)
  <2>1. \A x \in Byte : (IF x = "IAC" THEN <<"IAC", "IAC">> ELSE <<x>>) \in Seq(Byte)
    BY Marks
  <2> QED BY <2>1 DEF EscapeOf, SeqMaps
<1>2. ASSUME NEW s \in Seq(Byte) PROVE Escape(s) = Pick(EscapeOf, s)
  <2>1. \A i \in DOMAIN s : s[i] \in Byte
    BY SeqFacts
  <2>2. Mapped(EscapeOf, s) = [i \in DOMAIN s |-> IF s[i] = "IAC" THEN <<"IAC", "IAC">> ELSE << s[i] >>]
    BY <2>1 DEF Mapped, EscapeOf
  <2> QED BY <2>2 DEF Escape, Pick
<1>3. ASSUME NEW s \in Seq(Byte) PROVE Pick(EscapeOf, s) \in Seq(Byte)
  BY <1>1, PickType
<1> QED BY <1>1, <1>2, <1>3

LEMMA BodiesType == Bodies \subseteq Seq(Byte)
<1>1. /\ "TTYPE" \in Byte /\ "TN3270E" \in Byte /\ "SEND" \in Byte /\ "DEVICE_TYPE" \in Byte
      /\ "IS" \in Byte /\ "REJECT" \in Byte /\ "REQUEST" \in Byte /\ "FUNCTIONS" \in Byte
  BY DEF Byte, Option, SubByte
<1>2. /\ <<"TTYPE", "SEND">> \in Seq(Byte) /\ <<"TN3270E", "SEND">> \in Seq(Byte)
      /\ <<"TTYPE", "IS">> \in Seq(Byte) /\ <<"TN3270E", "REQUEST">> \in Seq(Byte)
      /\ <<"TN3270E", "FUNCTIONS">> \in Seq(Byte)
  BY <1>1
<1>3. /\ <<"TN3270E", "DEVICE_TYPE", "IS">> \in Seq(Byte)
      /\ <<"TN3270E", "DEVICE_TYPE", "REJECT">> \in Seq(Byte)
  BY <1>1
<1> QED BY <1>2, <1>3 DEF Bodies

LEMMA BytesType == Bytes \in SeqMaps(Item, Byte)
<1>1. ASSUME NEW item \in Item, item.k = "cmd"
      PROVE  <<"IAC", item.v[1], item.v[2]>> \in Seq(Byte)
  BY <1>1, ItemCases DEF Byte
<1>2. ASSUME NEW item \in Item, item.k = "sub"
      PROVE  Subneg(item.v) \in Seq(Byte)
  <2>1. item.v \in Bodies
    BY <1>2, ItemCases
  <2>2. PICK b \in Seq(Byte) : b = item.v
    BY <2>1, BodiesType
  <2>3. <<"IAC", "SB">> \o b \o <<"IAC", "SE">> \in Seq(Byte)
    BY Marks
  <2> QED BY <2>2, <2>3 DEF Subneg
<1>3. ASSUME NEW item \in Item, item.k # "cmd", item.k # "sub"
      PROVE  Escape(Content(item.v)) \o EndOfRecord \in Seq(Byte)
  <2>1. item.v \in Record
    BY <1>3, ItemCases
  <2>2. PICK b \in Seq(Byte) : b = Escape(Content(item.v))
    BY <2>1, HeaderType0, EscapeIs
  <2>3. b \o <<"IAC", "EOR">> \in Seq(Byte)
    BY Marks
  <2> QED BY <2>2, <2>3 DEF EndOfRecord
<1> QED BY <1>1, <1>2, <1>3 DEF Bytes, SeqMaps

\* What the items carry when one is added, and without the first.
LEMMA ValsChange ==
    ASSUME NEW k, NEW items \in Seq(Item)
    PROVE  /\ Vals(k, items) \in Seq(Value)
           /\ Vals(k, <<>>) = <<>>
           /\ \A item \in Item : Vals(k, Append(items, item)) =
                                 Vals(k, items) \o (IF item.k = k THEN <<item.v>> ELSE <<>>)
           /\ items # <<>> => Head(items) \in Item /\ Tail(items) \in Seq(Item)
           /\ items # <<>> => Vals(k, items) =
                    (IF Head(items).k = k THEN <<Head(items).v>> ELSE <<>>) \o Vals(k, Tail(items))
<1>1. PICK f \in SeqMaps(Item, Value) : f = Of(k)
  BY OfType
<1>2. Pick(f, items) \in Seq(Value)
  BY PickType
<1>3. \A item \in Item : f[item] = IF item.k = k THEN <<item.v>> ELSE <<>>
  BY <1>1 DEF Of
<1>4. ASSUME NEW item \in Item
      PROVE  Pick(f, Append(items, item)) = Pick(f, items) \o f[item]
  BY PickAppend
<1>5. ASSUME items # <<>>
      PROVE  /\ Head(items) \in Item /\ Tail(items) \in Seq(Item)
             /\ Pick(f, items) = f[Head(items)] \o Pick(f, Tail(items))
  BY <1>5, PickHead, HeadTailJoin
<1>6. Pick(f, <<>>) = <<>>
  BY PickEmpty
<1>7. /\ Vals(k, items) \in Seq(Value) /\ Vals(k, <<>>) = <<>>
  BY <1>1, <1>2, <1>6 DEF Vals
<1>8. ASSUME NEW item \in Item
      PROVE  Vals(k, Append(items, item)) =
                Vals(k, items) \o (IF item.k = k THEN <<item.v>> ELSE <<>>)
  BY <1>1, <1>3, <1>4 DEF Vals
<1>9. ASSUME items # <<>>
      PROVE  Vals(k, items) =
                (IF Head(items).k = k THEN <<Head(items).v>> ELSE <<>>) \o Vals(k, Tail(items))
  BY <1>1, <1>3, <1>5, <1>9 DEF Vals
<1> QED BY <1>5, <1>7, <1>8, <1>9

LEMMA ValSetChange ==
    ASSUME NEW k, NEW items \in Seq(Item)
    PROVE  /\ ValSet(k, <<>>) = {}
           /\ \A item \in Item : ValSet(k, Append(items, item)) \subseteq
                                 ValSet(k, items) \cup (IF item.k = k THEN {item.v} ELSE {})
           /\ items # <<>> => ValSet(k, Tail(items)) \subseteq ValSet(k, items)
           /\ items # <<>> /\ Head(items).k = k => Head(items).v \in ValSet(k, items)
<1>1. ValSet(k, <<>>) = {}
  BY DEF ValSet
<1>2. DOMAIN items = 1 .. Len(items) /\ Len(items) \in Nat
  BY SeqFacts
<1>3. ASSUME NEW item \in Item, NEW x \in ValSet(k, Append(items, item)), x \notin ValSet(k, items)
      PROVE  item.k = k /\ x = item.v
  <2>1. PICK i \in DOMAIN Append(items, item) :
            Append(items, item)[i].k = k /\ x = Append(items, item)[i].v
    BY <1>3 DEF ValSet
  <2>2. CASE i \in DOMAIN items
    <3>1. Append(items, item)[i] = items[i]
      BY <1>2, <2>2
    <3> QED BY <1>3, <2>1, <2>2, <3>1 DEF ValSet
  <2>3. CASE i \notin DOMAIN items
    <3>1. Append(items, item)[i] = item
      BY <1>2, <2>1, <2>3
    <3> QED BY <2>1, <3>1
  <2> QED BY <2>2, <2>3
<1>4. ASSUME items # <<>>, NEW x \in ValSet(k, Tail(items))
      PROVE  x \in ValSet(k, items)
  <2>1. PICK i \in DOMAIN Tail(items) : Tail(items)[i].k = k /\ x = Tail(items)[i].v
    BY <1>4 DEF ValSet
  <2>2. i + 1 \in DOMAIN items /\ Tail(items)[i] = items[i + 1]
    BY <1>2, <1>4
  <2> QED BY <2>1, <2>2 DEF ValSet
<1>5. ASSUME items # <<>>, Head(items).k = k
      PROVE  Head(items).v \in ValSet(k, items)
  <2>1. 1 \in DOMAIN items /\ Head(items) = items[1]
    BY <1>2, <1>5
  <2> QED BY <1>5, <2>1 DEF ValSet
<1>6. ASSUME NEW item \in Item
      PROVE  ValSet(k, Append(items, item)) \subseteq
                ValSet(k, items) \cup (IF item.k = k THEN {item.v} ELSE {})
  BY <1>3
<1> QED BY <1>1, <1>4, <1>5, <1>6

\* The head of a stream.
LEMMA UnitAt ==
    ASSUME NEW u \in Seq(Byte), NEW r \in Seq(Byte), u # <<>>, UnitLen(u \o r) = Len(u)
    PROVE  u \o r # <<>> /\ Unit(u \o r) = u /\ AfterUnit(u \o r) = r
<1>1. PICK s : s = u \o r
  OBVIOUS
<1>2. Joined(Byte, s, u, r)
  BY <1>1, ConcatJoins
<1>3. Len(u) # 0
  OBVIOUS
<1>4. s # <<>>
  BY <1>2, <1>3 DEF Joined
<1>5. SubSeq(s, 1, Len(u)) = u
  BY <1>2 DEF Joined
<1>6. SubSeq(s, Len(u) + 1, Len(s)) = r
  BY <1>2 DEF Joined
<1> QED BY <1>1, <1>4, <1>5, <1>6 DEF Unit, AfterUnit

LEMMA UnitOfByte ==
    ASSUME NEW x \in Byte, NEW r \in Seq(Byte)
    PROVE  UnitLen(EscapeOf[x] \o r) = Len(EscapeOf[x])
<1>1. CASE x = "IAC"
  <2>1. EscapeOf[x] = <<"IAC", "IAC">>
    BY <1>1 DEF EscapeOf
  <2>2. PICK s : s = <<"IAC", "IAC">> \o r
    OBVIOUS
  <2>3. s[1] = "IAC" /\ s[2] = "IAC"
    BY <2>2
  <2>4. UnitLen(s) = 2
    BY <2>3 DEF UnitLen, Command
  <2> QED BY <2>1, <2>2, <2>4
<1>2. CASE x # "IAC"
  <2>1. EscapeOf[x] = <<x>>
    BY <1>2 DEF EscapeOf
  <2>2. PICK s : s = <<x>> \o r
    OBVIOUS
  <2>3. s[1] = x
    BY <2>2
  <2>4. UnitLen(s) = 1
    BY <1>2, <2>3 DEF UnitLen
  <2> QED BY <2>1, <2>2, <2>4
<1> QED BY <1>1, <1>2

LEMMA UnitOfEnd ==
    ASSUME NEW r \in Seq(Byte)
    PROVE  UnitLen(EndOfRecord \o r) = Len(EndOfRecord)
<1>1. PICK s : s = <<"IAC", "EOR">> \o r
  OBVIOUS
<1>2. s[1] = "IAC" /\ s[2] = "EOR"
  BY <1>1
<1>3. UnitLen(s) = 2
  BY <1>2 DEF UnitLen, Command
<1> QED BY <1>1, <1>3 DEF EndOfRecord

LEMMA UnitOfCommand ==
    ASSUME NEW v \in Command \X Option, NEW r \in Seq(Byte)
    PROVE  UnitLen(<<"IAC", v[1], v[2]>> \o r) = 3
<1>1. PICK s : s = <<"IAC", v[1], v[2]>> \o r
  OBVIOUS
<1>2. s[1] = "IAC" /\ s[2] = v[1]
  BY <1>1
<1>3. UnitLen(s) = 3
  BY <1>2 DEF UnitLen
<1> QED BY <1>1, <1>3

LEMMA UnitOfSub ==
    ASSUME NEW v \in Bodies, NEW r \in Seq(Byte)
    PROVE  /\ UnitLen(Subneg(v) \o r) = Len(Subneg(v))
           /\ Len(v) \in 2 .. 3 /\ Len(Subneg(v)) = Len(v) + 4
           /\ Subneg(v)[1] = "IAC" /\ Subneg(v)[2] = "SB"
           /\ SubSeq(Subneg(v), 3, Len(Subneg(v)) - 2) = v
<1>1. Len(v) \in 2 .. 3 /\ v \in Seq(Byte) /\ \A i \in 1 .. Len(v) : v[i] # "IAC"
  <2>1. Len(v) \in 2 .. 3 /\ \A i \in 1 .. Len(v) : v[i] # "IAC"
    BY DEF Bodies
  <2> QED BY <2>1, BodiesType
<1>2. PICK n \in 2 .. 3 : n = Len(v)
  BY <1>1
<1>3. PICK u : u = <<"IAC", "SB">> \o v \o <<"IAC", "SE">>
  OBVIOUS
<1>4. /\ u \in Seq(Byte) /\ Len(u) = n + 4
      /\ u[1] = "IAC" /\ u[2] = "SB" /\ \A i \in 1 .. n : u[i + 2] = v[i]
      /\ u[n + 3] = "IAC" /\ u[n + 4] = "SE"
  BY <1>1, <1>2, <1>3, Marks
<1>5. PICK s : s = u \o r
  OBVIOUS
<1>6. Joined(Byte, s, u, r)
  BY <1>4, <1>5, ConcatJoins
<1>7. /\ s[1] = "IAC" /\ s[2] = "SB" /\ \A i \in 1 .. n : s[i + 2] # "IAC"
      /\ s[n + 3] = "IAC" /\ s[n + 4] = "SE" /\ Len(s) \in Nat /\ Len(s) >= n + 4
  BY <1>1, <1>2, <1>4, <1>6 DEF Joined
<1>8. DEFINE ends == {j \in 4 .. Len(s) : s[j - 1] = "IAC" /\ s[j] = "SE"}
<1>9. ends \in SUBSET Nat /\ n + 4 \in ends
  BY <1>7
<1>10. \A j \in ends : j >= n + 4
  <2> SUFFICES ASSUME NEW j \in ends, j < n + 4 PROVE FALSE
    BY <1>9
  <2>1. j \in 4 .. n + 3 /\ s[j - 1] = "IAC" /\ j \in Nat
    BY <1>7
  <2>2. j - 3 \in 1 .. n /\ (j - 3) + 2 = j - 1
    BY <2>1
  <2> QED BY <1>7, <2>1, <2>2
<1>11. Min(ends) = n + 4
  <2> HIDE DEF ends
  <2>1. Min(ends) \in ends /\ \A j \in ends : Min(ends) <= j
    BY <1>9, LeastIsMin
  <2>2. PICK m : m = Min(ends)
    OBVIOUS
  <2>3. m \in Nat /\ m >= n + 4 /\ m <= n + 4
    BY <1>9, <1>10, <2>1, <2>2
  <2>4. m = n + 4
    BY <2>3
  <2> QED BY <2>2, <2>4
<1>12. UnitLen(s) = n + 4
  BY <1>7, <1>11 DEF UnitLen, Command
<1>13. SubSeq(u, 3, n + 2) = v
  <2>1. PICK w : w = SubSeq(u, 3, n + 2)
    OBVIOUS
  <2>2. w \in Seq(Byte) /\ Len(w) = n /\ \A i \in 1 .. n : w[i] = u[i + 2]
    BY <1>4, <2>1
  <2> QED BY <1>1, <1>2, <1>4, <2>1, <2>2, SeqEqual
<1>14. u = Subneg(v)
  BY <1>3 DEF Subneg
<1>15. (n + 4) - 2 = n + 2
  OBVIOUS
<1> QED BY <1>2, <1>4, <1>5, <1>12, <1>13, <1>14, <1>15

-----------------------------------------------------------------------------
(* What is on the way: items, and before them the rest of a record of      *)
(* which r is the part already read.                                       *)

\* b is the rest of record v.
Partway(bytes, r, v, b, items) ==
    /\ v \in Record /\ b \in Seq(Byte) /\ r \in Seq(Byte) /\ r \o b = Content(v)
    /\ items \in Seq(Item) /\ bytes = Escape(b) \o (EndOfRecord \o Stream(items))

Carries(bytes, r, m, items) ==
    /\ items \in Seq(Item)
    /\ \/ m = <<>> /\ r = <<>> /\ bytes = Stream(items)
       \/ \E v, b : m = <<v>> /\ Partway(bytes, r, v, b, items)

\* v is the record being read, or the next item.
Begun(m, items, v, items1) ==
    /\ v \in Record /\ items1 \in Seq(Item)
    /\ \/ m = <<v>> /\ items1 = items
       \/ m = <<>> /\ items # <<>> /\ Head(items) = Rec(v) /\ items1 = Tail(items)

ReadsByte(bytes, r, m, items) ==
    \E v, items1, x : /\ Begun(m, items, v, items1) /\ x \in Byte
                     /\ bytes # <<>> /\ Unit(bytes) = EscapeOf[x]
                     /\ Carries(AfterUnit(bytes), Append(r, x), <<v>>, items1)
ReadsEnd(bytes, r, m, items) ==
    \E v, items1 : /\ Begun(m, items, v, items1)
                  /\ bytes # <<>> /\ Unit(bytes) = EndOfRecord /\ r = Content(v)
                  /\ Carries(AfterUnit(bytes), <<>>, <<>>, items1)
ReadsCommand(bytes, r, m, items) ==
    \E v \in Command \X Option :
       /\ m = <<>> /\ r = <<>> /\ items # <<>> /\ Head(items) = Cmd(v)
       /\ bytes # <<>> /\ Unit(bytes) = <<"IAC", v[1], v[2]>>
       /\ Carries(AfterUnit(bytes), <<>>, <<>>, Tail(items))
ReadsSub(bytes, r, m, items) ==
    \E v \in Bodies :
       /\ m = <<>> /\ r = <<>> /\ items # <<>> /\ Head(items) = Sbn(v)
       /\ bytes # <<>> /\ Unit(bytes) = Subneg(v)
       /\ Carries(AfterUnit(bytes), <<>>, <<>>, Tail(items))

LEMMA StreamFacts ==
    ASSUME NEW items \in Seq(Item)
    PROVE  /\ Stream(items) \in Seq(Byte) /\ Stream(<<>>) = <<>>
           /\ \A item \in Item : /\ Stream(Append(items, item)) = Stream(items) \o Bytes[item]
                                /\ Bytes[item] \in Seq(Byte)
           /\ items # <<>> => /\ Head(items) \in Item /\ Tail(items) \in Seq(Item)
                             /\ Stream(items) = Bytes[Head(items)] \o Stream(Tail(items))
                             /\ Stream(Tail(items)) \in Seq(Byte)
<1>1. Bytes \in SeqMaps(Item, Byte)
  BY BytesType
<1>2. PICK f \in SeqMaps(Item, Byte) : f = Bytes
  BY <1>1
<1>3. Pick(f, items) \in Seq(Byte)
  BY PickType
<1>4. Pick(f, <<>>) = <<>>
  BY PickEmpty
<1>5. ASSUME NEW item \in Item
      PROVE  Pick(f, Append(items, item)) = Pick(f, items) \o f[item] /\ f[item] \in Seq(Byte)
  <2>1. f[item] \in Seq(Byte)
    BY DEF SeqMaps
  <2> QED BY <2>1, PickAppend
<1>6. ASSUME items # <<>>
      PROVE  /\ Head(items) \in Item /\ Tail(items) \in Seq(Item)
             /\ Pick(f, items) = f[Head(items)] \o Pick(f, Tail(items))
             /\ Pick(f, Tail(items)) \in Seq(Byte)
  <2>1. Head(items) \in Item /\ Tail(items) \in Seq(Item)
    BY <1>6, HeadTailJoin
  <2>2. Pick(f, items) = f[Head(items)] \o Pick(f, Tail(items))
    BY <1>6, PickHead
  <2>3. PICK q \in Seq(Item) : q = Tail(items)
    BY <2>1
  <2>4. Pick(f, q) \in Seq(Byte)
    BY PickType
  <2> QED BY <2>1, <2>2, <2>3, <2>4
<1> QED BY <1>2, <1>3, <1>4, <1>5, <1>6 DEF Stream

\* Concatenation, under a name that keeps the provers from rewriting it.
Cat(a, b) == a \o b

LEMMA CatAssociative ==
    ASSUME NEW S, NEW a \in Seq(S), NEW b \in Seq(S), NEW c \in Seq(S)
    PROVE  Cat(Cat(a, b), c) = Cat(a, Cat(b, c)) /\ Cat(a, b) \in Seq(S)
BY ConcatAssociative DEF Cat

LEMMA AddItem ==
    ASSUME NEW bytes, NEW r, NEW m, NEW items, NEW item \in Item, Carries(bytes, r, m, items)
    PROVE  Carries(bytes \o Bytes[item], r, m, Append(items, item))
<1>1. items \in Seq(Item) /\ Append(items, item) \in Seq(Item)
  BY DEF Carries
<1>2. PICK s, t \in Seq(Byte) : /\ s = Stream(items) /\ t = Bytes[item]
                               /\ Stream(Append(items, item)) = s \o t
  BY <1>1, StreamFacts
<1>3. CASE m = <<>> /\ r = <<>> /\ bytes = Stream(items)
  BY <1>1, <1>2, <1>3 DEF Carries
<1>5. ASSUME NEW e \in Seq(Byte), NEW o \in Seq(Byte)
      PROVE  (e \o (o \o s)) \o t = e \o (o \o (s \o t))
  <2>1. Cat(Cat(e, Cat(o, s)), t) = Cat(e, Cat(Cat(o, s), t)) /\ Cat(Cat(o, s), t) = Cat(o, Cat(s, t))
    BY CatAssociative
  <2> QED BY <2>1 DEF Cat
<1>4. ASSUME NEW v, NEW b, m = <<v>>, Partway(bytes, r, v, b, items)
      PROVE  Carries(bytes \o Bytes[item], r, m, Append(items, item))
  <2>1. PICK e, o \in Seq(Byte) : e = Escape(b) /\ o = EndOfRecord
    <3>1. <<"IAC", "EOR">> \in Seq(Byte)
      BY Marks
    <3> QED BY <1>4, <3>1, EscapeIs DEF EndOfRecord, Partway
  <2>2. (e \o (o \o s)) \o t = e \o (o \o (s \o t))
    BY <1>5
  <2>3. bytes \o Bytes[item] = Escape(b) \o (EndOfRecord \o Stream(Append(items, item)))
    BY <1>2, <1>4, <2>1, <2>2 DEF Partway
  <2> QED BY <1>1, <1>4, <2>3 DEF Carries, Partway
<1> QED BY <1>3, <1>4 DEF Carries

LEMMA EscapeHead ==
    ASSUME NEW b \in Seq(Byte), b # <<>>, NEW t \in Seq(Byte)
    PROVE  /\ Head(b) \in Byte /\ Tail(b) \in Seq(Byte) /\ EscapeOf[Head(b)] \in Seq(Byte)
           /\ EscapeOf[Head(b)] # <<>>
           /\ Escape(b) \o t = EscapeOf[Head(b)] \o (Escape(Tail(b)) \o t)
           /\ Escape(Tail(b)) \o t \in Seq(Byte)
           /\ \A r \in Seq(Byte) : r \o b = Append(r, Head(b)) \o Tail(b)
<1>1. PICK x \in Byte, q \in Seq(Byte) : x = Head(b) /\ q = Tail(b) /\ b = <<x>> \o q
  BY HeadTailJoin
<1>2. Pick(EscapeOf, b) = EscapeOf[Head(b)] \o Pick(EscapeOf, Tail(b))
  BY EscapeIs, PickHead
<1>3. Escape(b) = EscapeOf[x] \o Escape(q) /\ Escape(q) \in Seq(Byte)
  BY <1>1, <1>2, EscapeIs
<1>4. EscapeOf[x] \in Seq(Byte) /\ EscapeOf[x] # <<>>
  <2>1. EscapeOf[x] = IF x = "IAC" THEN <<"IAC", "IAC">> ELSE <<x>>
    BY DEF EscapeOf
  <2>2. <<"IAC", "IAC">> \in Seq(Byte) /\ <<x>> \in Seq(Byte)
    BY Marks
  <2> QED BY <2>1, <2>2
<1>5. PICK e, f \in Seq(Byte) : e = EscapeOf[x] /\ f = Escape(q)
  BY <1>3, <1>4
<1>6. (e \o f) \o t = e \o (f \o t) /\ f \o t \in Seq(Byte)
  <2>1. Cat(Cat(e, f), t) = Cat(e, Cat(f, t)) /\ Cat(f, t) \in Seq(Byte)
    BY CatAssociative
  <2> QED BY <2>1 DEF Cat
<1>7. \A r \in Seq(Byte) : r \o (<<x>> \o q) = Append(r, x) \o q
  BY AppendConcat, SMTT(60)
<1> QED BY <1>1, <1>3, <1>4, <1>5, <1>6, <1>7

\* In a record: a byte of it comes next, or its end.
LEMMA InRecord ==
    ASSUME NEW bytes, NEW r, NEW v, NEW b, NEW items, Partway(bytes, r, v, b, items)
    PROVE  \/ \E x \in Byte : /\ bytes # <<>> /\ Unit(bytes) = EscapeOf[x]
                             /\ Carries(AfterUnit(bytes), Append(r, x), <<v>>, items)
           \/ /\ bytes # <<>> /\ Unit(bytes) = EndOfRecord /\ r = Content(v)
              /\ Carries(AfterUnit(bytes), <<>>, <<>>, items)
<1>0. /\ v \in Record /\ b \in Seq(Byte) /\ r \in Seq(Byte) /\ items \in Seq(Item)
  BY DEF Partway
<1>1. PICK s, o \in Seq(Byte) : s = Stream(items) /\ o = EndOfRecord /\ o # <<>>
  <2>1. <<"IAC", "EOR">> \in Seq(Byte) /\ <<"IAC", "EOR">> # <<>>
    BY Marks
  <2> QED BY <1>0, <2>1, StreamFacts DEF EndOfRecord
<1>2. PICK t \in Seq(Byte) : t = o \o s
  <2>1. o \o s \in Seq(Byte)
    OBVIOUS
  <2> QED BY <2>1
<1>3. bytes = Escape(b) \o t
  BY <1>1, <1>2 DEF Partway
<1>4. CASE b = <<>>
  <2>1. Escape(<<>>) = <<>>
    <3>1. <<>> \in Seq(Byte)
      OBVIOUS
    <3> QED BY <3>1, EscapeIs, PickEmpty
  <2>2. bytes = t
    BY <1>3, <1>4, <2>1
  <2>3. t # <<>> /\ Unit(t) = o /\ AfterUnit(t) = s
    <3>1. UnitLen(o \o s) = Len(o)
      BY <1>1, UnitOfEnd
    <3>2. o \o s # <<>> /\ Unit(o \o s) = o /\ AfterUnit(o \o s) = s
      BY <1>1, <3>1, UnitAt
    <3> QED BY <1>2, <3>2
  <2>4. r = Content(v)
    BY <1>0, <1>4 DEF Partway
  <2>5. Carries(s, <<>>, <<>>, items)
    BY <1>0, <1>1 DEF Carries
  <2> QED BY <1>1, <2>2, <2>3, <2>4, <2>5
<1>5. CASE b # <<>>
  <2>0. PICK x, q : x = Head(b) /\ q = Tail(b)
    OBVIOUS
  <2>1. /\ x \in Byte /\ q \in Seq(Byte) /\ EscapeOf[x] \in Seq(Byte) /\ EscapeOf[x] # <<>>
        /\ Escape(b) \o t = EscapeOf[x] \o (Escape(q) \o t)
        /\ Escape(q) \o t \in Seq(Byte)
        /\ r \o b = Append(r, x) \o q
    BY <1>0, <1>5, <2>0, EscapeHead
  <2>2. PICK e, w \in Seq(Byte) : e = EscapeOf[x] /\ w = Escape(q) \o t /\ e # <<>>
    BY <2>1
  <2>3. e \o w # <<>> /\ Unit(e \o w) = e /\ AfterUnit(e \o w) = w
    <3>1. UnitLen(e \o w) = Len(e)
      <4>1. x \in Byte
        BY <2>1
      <4>2. UnitLen(EscapeOf[x] \o w) = Len(EscapeOf[x])
        BY <4>1, UnitOfByte
      <4> QED BY <2>2, <4>2
    <3> QED BY <2>2, <3>1, UnitAt
  <2>4. bytes = e \o w
    BY <1>3, <2>1, <2>2
  <2>5. Append(r, x) \in Seq(Byte) /\ Append(r, x) \o q = Content(v)
    <3>1. r \o b = Content(v)
      BY DEF Partway
    <3> QED BY <1>0, <2>1, <3>1
  <2>6. w = Escape(q) \o (EndOfRecord \o Stream(items))
    BY <1>1, <1>2, <2>2
  <2>7. Carries(w, Append(r, x), <<v>>, items)
    BY <1>0, <2>1, <2>5, <2>6 DEF Carries, Partway
  <2> QED BY <2>1, <2>2, <2>3, <2>4, <2>7
<1> QED BY <1>4, <1>5

\* What a stream begins with.
LEMMA NextItem ==
    ASSUME NEW bytes, NEW r, NEW m, NEW items, Carries(bytes, r, m, items)
    PROVE  \/ bytes = <<>> /\ r = <<>> /\ m = <<>> /\ items = <<>>
           \/ ReadsByte(bytes, r, m, items)
           \/ ReadsEnd(bytes, r, m, items)
           \/ ReadsCommand(bytes, r, m, items)
           \/ ReadsSub(bytes, r, m, items)
<1>1. items \in Seq(Item)
  BY DEF Carries
<1>2. ASSUME NEW v, NEW items1, Begun(m, items, v, items1), NEW b, Partway(bytes, r, v, b, items1)
      PROVE  ReadsByte(bytes, r, m, items) \/ ReadsEnd(bytes, r, m, items)
  <2>2. \/ \E x \in Byte : /\ bytes # <<>> /\ Unit(bytes) = EscapeOf[x]
                          /\ Carries(AfterUnit(bytes), Append(r, x), <<v>>, items1)
        \/ /\ bytes # <<>> /\ Unit(bytes) = EndOfRecord /\ r = Content(v)
           /\ Carries(AfterUnit(bytes), <<>>, <<>>, items1)
    BY <1>2, InRecord
  <2> QED BY <1>2, <2>2 DEF ReadsByte, ReadsEnd
<1>3. CASE m # <<>>
  <2>1. PICK v, b : m = <<v>> /\ Partway(bytes, r, v, b, items)
    BY <1>3 DEF Carries
  <2>2. Begun(m, items, v, items)
    BY <1>1, <2>1 DEF Begun, Partway
  <2> QED BY <1>2, <2>1, <2>2
<1>4. CASE m = <<>>
  <2>1. r = <<>> /\ bytes = Stream(items)
    BY <1>4 DEF Carries
  <2>2. CASE items = <<>>
    BY <1>1, <1>4, <2>1, <2>2, StreamFacts
  <2>3. CASE items # <<>>
    <3>0. PICK h, q, c, s : h = Head(items) /\ q = Tail(items) /\ c = Bytes[h] /\ s = Stream(q)
      OBVIOUS
    <3>1. /\ h = Head(items) /\ q = Tail(items) /\ c = Bytes[h] /\ s = Stream(q)
          /\ h \in Item /\ q \in Seq(Item) /\ c \in Seq(Byte) /\ s \in Seq(Byte)
          /\ Stream(items) = c \o s
      <4>1. h \in Item /\ q \in Seq(Item) /\ s \in Seq(Byte) /\ Stream(items) = c \o s
        BY <1>1, <2>3, <3>0, StreamFacts
      <4>2. c \in Seq(Byte)
        BY <1>1, <3>0, <4>1, StreamFacts
      <4> QED BY <3>0, <4>1, <4>2
    <3>2. Carries(s, <<>>, <<>>, q)
      BY <3>1 DEF Carries
    <3>3. CASE h.k = "cmd"
      <4>1. h.v \in Command \X Option /\ h = Cmd(h.v) /\ c = <<"IAC", h.v[1], h.v[2]>>
        BY <3>1, <3>3, ItemCases DEF Bytes
      <4>2. UnitLen(c \o s) = Len(c) /\ c # <<>>
        BY <3>1, <4>1, UnitOfCommand
      <4>3. c \o s # <<>> /\ Unit(c \o s) = c /\ AfterUnit(c \o s) = s
        <5>1. c \in Seq(Byte) /\ s \in Seq(Byte)
          BY <3>1
        <5> QED BY <4>2, <5>1, UnitAt
      <4> QED BY <1>4, <2>1, <2>3, <3>1, <3>2, <4>1, <4>3 DEF ReadsCommand
    <3>4. CASE h.k = "sub"
      <4>1. h.v \in Bodies /\ h = Sbn(h.v) /\ c = Subneg(h.v)
        BY <3>1, <3>4, ItemCases DEF Bytes
      <4>2. UnitLen(c \o s) = Len(c) /\ c # <<>>
        <5>1. UnitLen(c \o s) = Len(c) /\ Len(h.v) \in 2 .. 3 /\ Len(c) = Len(h.v) + 4
          BY <3>1, <4>1, UnitOfSub
        <5> QED BY <5>1
      <4>3. c \o s # <<>> /\ Unit(c \o s) = c /\ AfterUnit(c \o s) = s
        <5>1. c \in Seq(Byte) /\ s \in Seq(Byte)
          BY <3>1
        <5> QED BY <4>2, <5>1, UnitAt
      <4> QED BY <1>4, <2>1, <2>3, <3>1, <3>2, <4>1, <4>3 DEF ReadsSub
    <3>5. CASE h.k # "cmd" /\ h.k # "sub"
      <4>1. h.v \in Record /\ h = Rec(h.v) /\ c = Escape(Content(h.v)) \o EndOfRecord
        BY <3>1, <3>5, ItemCases DEF Bytes
      <4>2. PICK v \in Record : v = h.v
        BY <4>1
      <4>3. Begun(m, items, v, q)
        BY <1>4, <2>3, <3>1, <4>1, <4>2 DEF Begun
      <4>4. PICK b \in Seq(Byte) : b = Content(v)
        BY HeaderType0
      <4>5. PICK e, o \in Seq(Byte) : e = Escape(b) /\ o = EndOfRecord
        <5>1. <<"IAC", "EOR">> \in Seq(Byte)
          BY Marks
        <5> QED BY <5>1, EscapeIs DEF EndOfRecord
      <4>6. (e \o o) \o s = e \o (o \o s)
        <5>1. s \in Seq(Byte)
          BY <3>1
        <5>2. Cat(Cat(e, o), s) = Cat(e, Cat(o, s))
          BY <5>1, CatAssociative
        <5> QED BY <5>2 DEF Cat
      <4>7. bytes = Escape(b) \o (EndOfRecord \o Stream(q))
        BY <2>1, <3>1, <4>1, <4>2, <4>4, <4>5, <4>6
      <4>8. r \in Seq(Byte) /\ r \o b = Content(v)
        BY <2>1, <4>4
      <4>9. Partway(bytes, r, v, b, q)
        BY <3>1, <4>7, <4>8 DEF Partway
      <4> QED BY <1>2, <4>3, <4>9
    <3> QED BY <3>3, <3>4, <3>5
  <2> QED BY <2>2, <2>3
<1> QED BY <1>3, <1>4

\* What a record's beginning leaves to come.
LEMMA BegunFacts ==
    ASSUME NEW m, NEW items \in Seq(Item), NEW v, NEW items1, Begun(m, items, v, items1)
    PROVE  /\ v \in Record /\ items1 \in Seq(Item)
           /\ m \o Vals("rec", items) = <<v>> \o Vals("rec", items1)
           /\ Vals("cmd", items1) = Vals("cmd", items)
           /\ \A k : ValSet(k, items1) \subseteq ValSet(k, items)
           /\ m = <<v>> \/ v \in ValSet("rec", items)
<1>1. CASE m = <<v>> /\ items1 = items
  BY <1>1 DEF Begun
<1>2. CASE m = <<>> /\ items # <<>> /\ Head(items) = Rec(v) /\ items1 = Tail(items)
  <2>1. v \in Record /\ Rec(v).k = "rec" /\ Rec(v).v = v
    BY DEF Begun, Rec
  <2>2. Vals("rec", items) = <<v>> \o Vals("rec", items1)
    <3>1. Vals("rec", items) = (IF Head(items).k = "rec" THEN <<Head(items).v>> ELSE <<>>)
                               \o Vals("rec", Tail(items))
      BY <1>2, ValsChange
    <3> QED BY <1>2, <2>1, <3>1
  <2>3. Vals("cmd", items) = <<>> \o Vals("cmd", items1) /\ items1 \in Seq(Item)
    BY <1>2, <2>1, ValsChange
  <2>4. PICK q \in Seq(Value) : q = Vals("cmd", items1)
    BY <2>3, ValsChange
  <2>5. PICK p \in Seq(Value) : p = Vals("rec", items)
    BY ValsChange
  <2>6. <<>> \o q = q /\ <<>> \o p = p
    OBVIOUS
  <2>7. \A k : ValSet(k, items1) \subseteq ValSet(k, items)
    BY <1>2, ValSetChange
  <2>8. v \in ValSet("rec", items)
    BY <1>2, <2>1, ValSetChange, SMTT(60)
  <2> QED BY <1>2, <2>1, <2>2, <2>3, <2>4, <2>5, <2>6, <2>7, <2>8
<1> QED BY <1>1, <1>2 DEF Begun

\* Units of different kinds are told apart.
LEMMA Shapes ==
    /\ \A x \in Byte : /\ Len(EscapeOf[x]) = 1 \/ EscapeOf[x] = <<"IAC", "IAC">>
                       /\ Len(EscapeOf[x]) \in 1 .. 2 /\ EscapeOf[x] # EndOfRecord
                       /\ EscapeOf[x][Len(EscapeOf[x])] = x
    /\ Len(EndOfRecord) = 2 /\ EndOfRecord # <<"IAC", "IAC">> /\ EndOfRecord # <<>>
    /\ \A v \in Command \X Option :
          /\ Len(<<"IAC", v[1], v[2]>>) = 3 /\ <<"IAC", v[1], v[2]>>[2] = v[1]
          /\ <<"IAC", v[1], v[2]>>[3] = v[2]
          /\ v[1] \in Command /\ v[2] \in Option /\ v = <<v[1], v[2]>>
    /\ \A v \in Bodies : /\ Len(Subneg(v)) \in 6 .. 7 /\ Subneg(v)[2] = "SB"
                         /\ SubSeq(Subneg(v), 3, Len(Subneg(v)) - 2) = v
<1>1. ASSUME NEW x \in Byte
      PROVE  /\ Len(EscapeOf[x]) = 1 \/ EscapeOf[x] = <<"IAC", "IAC">>
             /\ Len(EscapeOf[x]) \in 1 .. 2 /\ EscapeOf[x] # EndOfRecord
             /\ EscapeOf[x][Len(EscapeOf[x])] = x
  <2>1. EscapeOf[x] = IF x = "IAC" THEN <<"IAC", "IAC">> ELSE <<x>>
    BY DEF EscapeOf
  <2>2. CASE x = "IAC"
    BY <2>1, <2>2 DEF EndOfRecord
  <2>3. CASE x # "IAC"
    BY <2>1, <2>3 DEF EndOfRecord
  <2> QED BY <2>2, <2>3
<1>2. Len(EndOfRecord) = 2 /\ EndOfRecord # <<"IAC", "IAC">> /\ EndOfRecord # <<>>
  BY DEF EndOfRecord
<1>3. ASSUME NEW v \in Command \X Option
      PROVE  /\ Len(<<"IAC", v[1], v[2]>>) = 3 /\ <<"IAC", v[1], v[2]>>[2] = v[1]
             /\ <<"IAC", v[1], v[2]>>[3] = v[2]
             /\ v[1] \in Command /\ v[2] \in Option /\ v = <<v[1], v[2]>>
  OBVIOUS
<1>4. ASSUME NEW v \in Bodies
      PROVE  /\ Len(Subneg(v)) \in 6 .. 7 /\ Subneg(v)[2] = "SB"
             /\ SubSeq(Subneg(v), 3, Len(Subneg(v)) - 2) = v
  <2>1. <<>> \in Seq(Byte)
    OBVIOUS
  <2>2. Len(Subneg(v)) \in 6 .. 7
    <3>1. Len(v) \in 2 .. 3 /\ Len(Subneg(v)) = Len(v) + 4
      BY <2>1, UnitOfSub
    <3>2. \A n \in 2 .. 3 : n + 4 \in 6 .. 7
      OBVIOUS
    <3> QED BY <3>1, <3>2
  <2>3. Subneg(v)[2] = "SB" /\ SubSeq(Subneg(v), 3, Len(Subneg(v)) - 2) = v
    BY <2>1, UnitOfSub
  <2> QED BY <2>2, <2>3
<1> QED BY <1>1, <1>2, <1>3, <1>4

LEMMA AppendIs ==
    ASSUME NEW S, NEW q \in Seq(S), NEW x \in S, NEW r \in Seq(S),
           Len(r) = Len(q) + 1, r[Len(r)] = x, \A i \in 1 .. Len(q) : r[i] = q[i]
    PROVE  Append(q, x) = r
<1>1. PICK c : c = Append(q, x)
  OBVIOUS
<1>2. /\ c \in Seq(S) /\ Len(c) = Len(q) + 1 /\ Len(q) \in Nat /\ c[Len(q) + 1] = x
      /\ \A i \in 1 .. Len(q) : c[i] = q[i]
  BY <1>1
<1>3. \A i \in 1 .. Len(q) + 1 : c[i] = r[i]
  BY <1>2
<1>4. c = r
  BY <1>2, <1>3, SeqEqual
<1> QED BY <1>1, <1>4

LEMMA AppendFive ==
    ASSUME NEW S, NEW a \in S, NEW z \in S
    PROVE  Append(Append(Append(Append(Append(<<>>, a), z), z), z), z) = <<a, z, z, z, z>>
<1>1. PICK q1, q2, q3, q4, q5 :
         q1 = <<a>> /\ q2 = <<a, z>> /\ q3 = <<a, z, z>> /\ q4 = <<a, z, z, z>> /\ q5 = <<a, z, z, z, z>>
  OBVIOUS
<1>2. /\ q1 \in Seq(S) /\ q2 \in Seq(S) /\ q3 \in Seq(S) /\ q4 \in Seq(S) /\ q5 \in Seq(S)
      /\ Len(q1) = 1 /\ Len(q2) = 2 /\ Len(q3) = 3 /\ Len(q4) = 4 /\ Len(q5) = 5
  BY <1>1
<1>3. /\ q1[1] = a
      /\ q2[1] = a /\ q2[2] = z
      /\ q3[1] = a /\ q3[2] = z /\ q3[3] = z
      /\ q4[1] = a /\ q4[2] = z /\ q4[3] = z /\ q4[4] = z
      /\ q5[1] = a /\ q5[2] = z /\ q5[3] = z /\ q5[4] = z /\ q5[5] = z
  BY <1>1
<1>4. Append(q1, z) = q2
  <2>1. /\ q1 \in Seq(S) /\ q2 \in Seq(S) /\ Len(q2) = Len(q1) + 1
        /\ q2[Len(q2)] = z /\ \A i \in 1 .. Len(q1) : q2[i] = q1[i]
    BY <1>2, <1>3
  <2> QED BY <2>1, AppendIs
<1>5. Append(q2, z) = q3
  <2>1. /\ q2 \in Seq(S) /\ q3 \in Seq(S) /\ Len(q3) = Len(q2) + 1
        /\ q3[Len(q3)] = z /\ \A i \in 1 .. Len(q2) : q3[i] = q2[i]
    BY <1>2, <1>3
  <2> QED BY <2>1, AppendIs
<1>6. Append(q3, z) = q4
  <2>1. /\ q3 \in Seq(S) /\ q4 \in Seq(S) /\ Len(q4) = Len(q3) + 1
        /\ q4[Len(q4)] = z /\ \A i \in 1 .. Len(q3) : q4[i] = q3[i]
    BY <1>2, <1>3
  <2> QED BY <2>1, AppendIs
<1>7. Append(q4, z) = q5
  <2>1. /\ q4 \in Seq(S) /\ q5 \in Seq(S) /\ Len(q5) = Len(q4) + 1
        /\ q5[Len(q5)] = z /\ \A i \in 1 .. Len(q4) : q5[i] = q4[i]
    BY <1>2, <1>3
  <2> QED BY <2>1, AppendIs
<1>8. Append(<<>>, a) = q1
  BY <1>1
<1>9. q5 = <<a, z, z, z, z>>
  BY <1>1
<1> QED BY <1>4, <1>5, <1>6, <1>7, <1>8, <1>9

\* The bytes of a record.
LEMMA RecordBytes ==
    ASSUME NEW v \in Record, NEW s \in Seq(Byte)
    PROVE  s \o Header(v[1]) \o Escape(v[2]) \o EndOfRecord = s \o Bytes[Rec(v)]
<1>1. PICK h, p \in Seq(Byte) : h = Header(v[1]) /\ p = v[2]
  BY HeaderType0
<1>2. Escape(h) = h
  <2>1. CASE v[1] = "none"
    <3>1. h = <<>>
      BY <1>1, <2>1 DEF Header
    <3> QED BY <3>1, EscapeIs, PickEmpty
  <2>2. CASE v[1] # "none"
    <3>1. PICK a \in Byte : a = v[1] /\ a # "IAC"
      BY <2>2, HeaderType0 DEF HeaderType, DataType, Byte
    <3>2. PICK z \in Byte : z = "0" /\ z # "IAC"
      BY Marks
    <3>3. ASSUME NEW q \in Seq(Byte), NEW x \in Byte, x # "IAC", Escape(q) = q
          PROVE  Append(q, x) \in Seq(Byte) /\ Escape(Append(q, x)) = Append(q, x)
      <4>1. Pick(EscapeOf, Append(q, x)) = Pick(EscapeOf, q) \o EscapeOf[x]
        BY EscapeIs, PickAppend
      <4>2. Append(q, x) \in Seq(Byte) /\ EscapeOf[x] = <<x>> /\ Append(q, x) = q \o <<x>>
        BY <3>3 DEF EscapeOf
      <4> QED BY <3>3, <4>1, <4>2, EscapeIs
    <3>4. Escape(<<>>) = <<>> /\ <<>> \in Seq(Byte)
      <4>1. <<>> \in Seq(Byte)
        OBVIOUS
      <4> QED BY <4>1, EscapeIs, PickEmpty
    <3>5. PICK q1 \in Seq(Byte) : q1 = Append(<<>>, a) /\ Escape(q1) = q1
      BY <3>1, <3>3, <3>4
    <3>6. PICK q2 \in Seq(Byte) : q2 = Append(q1, z) /\ Escape(q2) = q2
      BY <3>2, <3>3, <3>5
    <3>7. PICK q3 \in Seq(Byte) : q3 = Append(q2, z) /\ Escape(q3) = q3
      BY <3>2, <3>3, <3>6
    <3>8. PICK q4 \in Seq(Byte) : q4 = Append(q3, z) /\ Escape(q4) = q4
      BY <3>2, <3>3, <3>7
    <3>9. PICK q5 \in Seq(Byte) : q5 = Append(q4, z) /\ Escape(q5) = q5
      BY <3>2, <3>3, <3>8
    <3>10. h = <<a, z, z, z, z>>
      BY <1>1, <2>2, <3>1, <3>2 DEF Header
    <3>11. q5 = <<a, z, z, z, z>>
      BY <3>5, <3>6, <3>7, <3>8, <3>9, AppendFive
    <3> QED BY <3>9, <3>10, <3>11
  <2> QED BY <2>1, <2>2
<1>3. Escape(h \o p) = h \o Escape(p)
  <2>1. Pick(EscapeOf, h \o p) = Pick(EscapeOf, h) \o Pick(EscapeOf, p)
    <3>1. EscapeOf \in SeqMaps(Byte, Byte)
      BY EscapeIs
    <3> QED BY <3>1, PickConcat
  <2>2. h \o p \in Seq(Byte)
    OBVIOUS
  <2> QED BY <1>2, <2>1, <2>2, EscapeIs
<1>4. PICK e, o \in Seq(Byte) : e = Escape(p) /\ o = EndOfRecord
  <2>1. <<"IAC", "EOR">> \in Seq(Byte)
    BY Marks
  <2> QED BY <2>1, EscapeIs DEF EndOfRecord
<1>5. Bytes[Rec(v)] = (h \o e) \o o
  <2>1. Rec(v) \in Item /\ Rec(v).k = "rec" /\ Rec(v).v = v
    BY ItemMade
  <2>2. Bytes[Rec(v)] = Escape(Content(v)) \o EndOfRecord
    BY <2>1 DEF Bytes
  <2> QED BY <1>1, <1>3, <1>4, <2>2 DEF Content
<1>6. Cat(Cat(Cat(s, h), e), o) = Cat(s, Cat(Cat(h, e), o))
  <2>1. Cat(Cat(s, h), e) = Cat(s, Cat(h, e)) /\ Cat(h, e) \in Seq(Byte)
    BY CatAssociative
  <2>2. Cat(Cat(s, Cat(h, e)), o) = Cat(s, Cat(Cat(h, e), o))
    BY <2>1, CatAssociative
  <2> QED BY <2>1, <2>2
<1> QED BY <1>1, <1>4, <1>5, <1>6 DEF Cat

-----------------------------------------------------------------------------
(* What each action does to the items on the way.                          *)

LEMMA Lengths ==
    /\ \A n \in 1 .. 2 : n # 3 /\ ~ (n > 4)
    /\ \A n \in 6 .. 7 : n # 1 /\ n # 2 /\ n # 3 /\ n > 4
    /\ Len(<<"IAC", "IAC">>) = 2
OBVIOUS

\* The unit the client, or the host, reads, by what the stream begins with.
LEMMA UnitKinds ==
    ASSUME NEW bytes, NEW r, NEW m, NEW items, Carries(bytes, r, m, items),
           NEW u, u = Unit(bytes), bytes # <<>>
    PROVE  /\ (Len(u) = 1 \/ u = <<"IAC", "IAC">>) => ReadsByte(bytes, r, m, items)
           /\ u = EndOfRecord => ReadsEnd(bytes, r, m, items)
           /\ Len(u) = 3 => ReadsCommand(bytes, r, m, items)
           /\ Len(u) > 4 => ReadsSub(bytes, r, m, items)
<1>1. CASE ReadsByte(bytes, r, m, items)
  <2>1. PICK x \in Byte : u = EscapeOf[x]
    BY <1>1 DEF ReadsByte
  <2>2. Len(u) \in 1 .. 2 /\ u # EndOfRecord
    BY <2>1, Shapes
  <2>3. Len(u) # 3 /\ ~ (Len(u) > 4)
    BY <2>2, Lengths
  <2> QED BY <1>1, <2>2, <2>3
<1>2. CASE ReadsEnd(bytes, r, m, items)
  <2>1. u = EndOfRecord
    BY <1>2 DEF ReadsEnd
  <2>2. Len(u) = 2 /\ u # <<"IAC", "IAC">>
    BY <2>1, Shapes
  <2>3. Len(u) # 1 /\ Len(u) # 3 /\ ~ (Len(u) > 4)
    BY <2>2
  <2> QED BY <1>2, <2>2, <2>3
<1>3. CASE ReadsCommand(bytes, r, m, items)
  <2>1. PICK v \in Command \X Option : u = <<"IAC", v[1], v[2]>>
    BY <1>3 DEF ReadsCommand
  <2>2. Len(u) = 3
    BY <2>1
  <2>3. Len(u) # 1 /\ ~ (Len(u) > 4) /\ Len(EndOfRecord) # 3 /\ Len(<<"IAC", "IAC">>) # 3
    BY <2>2, Shapes
  <2> QED BY <1>3, <2>2, <2>3
<1>4. CASE ReadsSub(bytes, r, m, items)
  <2>1. PICK v \in Bodies : u = Subneg(v)
    BY <1>4 DEF ReadsSub
  <2>2. Len(u) \in 6 .. 7
    BY <2>1, Shapes
  <2>3. /\ Len(u) # 1 /\ Len(u) # 3
        /\ Len(EndOfRecord) = 2 /\ Len(<<"IAC", "IAC">>) = 2 /\ Len(u) # 2
    BY <2>2, Shapes, Lengths
  <2> QED BY <1>4, <2>2, <2>3
<1> QED BY <1>1, <1>2, <1>3, <1>4, NextItem

LEMMA DataByteStep ==
    ASSUME NEW cm, NEW cs, Carries(toClient, rec, cm, cs), DataByte
    PROVE  \E v, cs1 : Begun(cm, cs, v, cs1) /\ Carries(toClient', rec', <<v>>, cs1)
<1>1. /\ toClient # <<>>
      /\ Len(Unit(toClient)) = 1 \/ Unit(toClient) = <<"IAC", "IAC">>
      /\ rec' = Append(rec, Unit(toClient)[Len(Unit(toClient))])
      /\ toClient' = AfterUnit(toClient)
  BY DEF DataByte, NextUnit
<1>2. ReadsByte(toClient, rec, cm, cs)
  BY <1>1, UnitKinds DEF DataByte, NextUnit
<1>3. PICK v, cs1, x : /\ Begun(cm, cs, v, cs1) /\ x \in Byte /\ Unit(toClient) = EscapeOf[x]
                       /\ Carries(AfterUnit(toClient), Append(rec, x), <<v>>, cs1)
  BY <1>2 DEF ReadsByte
<1>4. rec' = Append(rec, x) /\ toClient' = AfterUnit(toClient)
  BY <1>1, <1>3, Shapes DEF DataByte
<1> QED BY <1>3, <1>4

LEMMA ReadRecordStep ==
    ASSUME NEW cm, NEW cs, Carries(toClient, rec, cm, cs), ReadRecord
    PROVE  \E v, cs1 : /\ Begun(cm, cs, v, cs1) /\ rec = Content(v)
                      /\ Carries(toClient', rec', <<>>, cs1)
<1>1. toClient # <<>> /\ Unit(toClient) = EndOfRecord
  BY Shapes DEF ReadRecord, NextUnit
<1>2. rec' = <<>> /\ toClient' = AfterUnit(toClient)
  BY DEF ReadRecord
<1>3. ReadsEnd(toClient, rec, cm, cs)
  BY <1>1, UnitKinds
<1> QED BY <1>2, <1>3 DEF ReadsEnd

LEMMA HandleNegotiationStep ==
    ASSUME NEW cm, NEW cs, Carries(toClient, rec, cm, cs), HandleNegotiation
    PROVE  \E v \in Command \X Option :
              /\ cm = <<>> /\ cs # <<>> /\ Head(cs) = Cmd(v)
              /\ NextUnit[2] = v[1] /\ NextUnit[3] = v[2]
              /\ Carries(toClient', rec', <<>>, Tail(cs))
<1>1. toClient # <<>> /\ Len(Unit(toClient)) = 3
  <2>1. Len(<<>>) # 3
    OBVIOUS
  <2> QED BY <2>1 DEF HandleNegotiation, NextUnit
<1>2. NextUnit = Unit(toClient)
  BY <1>1 DEF NextUnit
<1>3. rec' = rec /\ toClient' = AfterUnit(toClient)
  BY DEF HandleNegotiation
<1>4. ReadsCommand(toClient, rec, cm, cs)
  BY <1>1, UnitKinds
<1>5. PICK v \in Command \X Option :
         /\ cm = <<>> /\ rec = <<>> /\ cs # <<>> /\ Head(cs) = Cmd(v)
         /\ Unit(toClient) = <<"IAC", v[1], v[2]>>
         /\ Carries(AfterUnit(toClient), <<>>, <<>>, Tail(cs))
  BY <1>4 DEF ReadsCommand
<1>6. NextUnit[2] = v[1] /\ NextUnit[3] = v[2]
  BY <1>2, <1>5
<1> QED BY <1>3, <1>5, <1>6

LEMMA AcceptTn3270eStep ==
    ASSUME NEW cm, NEW cs, Carries(toClient, rec, cm, cs), AcceptTn3270e
    PROVE  /\ useE /\ cs # <<>>
           /\ \E v \in Command \X Option : /\ v[2] = "TN3270E" /\ v[1] \in {"DO", "WILL"}
                                           /\ Head(cs) = Cmd(v)
<1>1. toClient # <<>> /\ Len(Unit(toClient)) = 3
  <2>1. Len(<<>>) # 3
    OBVIOUS
  <2> QED BY <2>1 DEF AcceptTn3270e, NextUnit
<1>2. NextUnit = Unit(toClient)
  BY <1>1 DEF NextUnit
<1>3. ReadsCommand(toClient, rec, cm, cs)
  BY <1>1, UnitKinds
<1>4. PICK v \in Command \X Option :
         cs # <<>> /\ Head(cs) = Cmd(v) /\ Unit(toClient) = <<"IAC", v[1], v[2]>>
  BY <1>3 DEF ReadsCommand
<1>5. NextUnit[2] = v[1] /\ NextUnit[3] = v[2]
  BY <1>2, <1>4
<1> QED BY <1>4, <1>5 DEF AcceptTn3270e, SetsTn3270e

LEMMA HandleSubnegotiationStep ==
    ASSUME NEW cm, NEW cs, Carries(toClient, rec, cm, cs), HandleSubnegotiation
    PROVE  \E v \in Bodies :
              /\ cm = <<>> /\ cs # <<>> /\ Head(cs) = Sbn(v)
              /\ toHost' = toHost \o SubAnswer(v)
              /\ Carries(toClient', rec', <<>>, Tail(cs))
<1>1. toClient # <<>> /\ Len(Unit(toClient)) > 4
  <2>1. ~ (Len(<<>>) > 4)
    OBVIOUS
  <2> QED BY <2>1 DEF HandleSubnegotiation, NextUnit
<1>2. NextUnit = Unit(toClient)
  BY <1>1 DEF NextUnit
<1>3. /\ rec' = rec /\ toClient' = AfterUnit(toClient)
      /\ toHost' = toHost \o SubAnswer(SubSeq(NextUnit, 3, Len(NextUnit) - 2))
  BY DEF HandleSubnegotiation, clientVars
<1>4. ReadsSub(toClient, rec, cm, cs)
  BY <1>1, UnitKinds
<1>5. PICK v \in Bodies :
         /\ cm = <<>> /\ rec = <<>> /\ cs # <<>> /\ Head(cs) = Sbn(v)
         /\ Unit(toClient) = Subneg(v)
         /\ Carries(AfterUnit(toClient), <<>>, <<>>, Tail(cs))
  BY <1>4 DEF ReadsSub
<1>6. SubSeq(NextUnit, 3, Len(NextUnit) - 2) = v
  BY <1>2, <1>5, Shapes
<1> QED BY <1>3, <1>5, <1>6

\* The host reads one of four kinds of units.
HostByte(hm, hs) ==
    /\ \E v, hs1 : Begun(hm, hs, v, hs1) /\ Carries(toHost', hostRec', <<v>>, hs1)
    /\ UNCHANGED <<answered, replies, hostGot, ignored>>
HostEnd(hm, hs) ==
    /\ \E v, hs1 : /\ Begun(hm, hs, v, hs1) /\ hostRec = Content(v)
                   /\ Carries(toHost', hostRec', <<>>, hs1)
    /\ IF DataMode
       THEN /\ hostGot' = Append(hostGot, IF EMode THEN SubSeq(hostRec, 6, Len(hostRec)) ELSE hostRec)
            /\ ignored' = ignored
       ELSE hostGot' = hostGot /\ ignored' = ignored + 1
    /\ UNCHANGED <<answered, replies>>
HostCommand(hm, hs) ==
    \E v \in Command \X Option :
       /\ hm = <<>> /\ hs # <<>> /\ Head(hs) = Cmd(v) /\ replies' = Append(replies, v)
       /\ Carries(toHost', hostRec', <<>>, Tail(hs))
       /\ UNCHANGED <<answered, hostGot, ignored>>
HostSub(hm, hs) ==
    \E v \in Bodies :
       /\ hm = <<>> /\ hs # <<>> /\ Head(hs) = Sbn(v) /\ answered' = answered \cup SubOf(Subneg(v))
       /\ Carries(toHost', hostRec', <<>>, Tail(hs))
       /\ UNCHANGED <<replies, hostGot, ignored>>

LEMMA SubOfOthers ==
    ASSUME NEW u, ~ (Len(u) > 4)
    PROVE  SubOf(u) = {}
<1>1. /\ Len(Subneg(<<"TTYPE", "IS">>)) \in 6 .. 7 /\ Len(Subneg(<<"TN3270E", "REQUEST">>)) \in 6 .. 7
      /\ Len(Subneg(<<"TN3270E", "FUNCTIONS">>)) \in 6 .. 7
  <2>1. /\ <<"TTYPE", "IS">> \in Bodies /\ <<"TN3270E", "REQUEST">> \in Bodies
        /\ <<"TN3270E", "FUNCTIONS">> \in Bodies
    BY DEF Bodies
  <2> QED BY <2>1, Shapes
<1>2. \A n \in 6 .. 7 : n > 4
  OBVIOUS
<1> QED BY <1>1, <1>2 DEF SubOf

LEMMA HostReadsStep ==
    ASSUME NEW hm, NEW hs, Carries(toHost, hostRec, hm, hs), HostReads
    PROVE  HostByte(hm, hs) \/ HostEnd(hm, hs) \/ HostCommand(hm, hs) \/ HostSub(hm, hs)
<1>1. toHost # <<>> /\ HostUnit = Unit(toHost) /\ toHost' = AfterUnit(toHost)
  BY DEF HostReads, HostUnit
<1>2. PICK u : u = HostUnit
  OBVIOUS
<1>3. /\ answered' = answered \cup SubOf(u)
      /\ replies' = IF Len(u) = 3 THEN Append(replies, <<u[2], u[3]>>) ELSE replies
      /\ hostRec' = IF Len(u) = 1 \/ u = <<"IAC", "IAC">> THEN Append(hostRec, u[Len(u)])
                    ELSE IF u = EndOfRecord THEN <<>> ELSE hostRec
      /\ IF u = EndOfRecord /\ DataMode
         THEN hostGot' = Append(hostGot, IF EMode THEN SubSeq(hostRec, 6, Len(hostRec)) ELSE hostRec)
         ELSE hostGot' = hostGot
      /\ ignored' = IF u = EndOfRecord /\ ~DataMode THEN ignored + 1 ELSE ignored
  BY <1>2 DEF HostReads
<1>4. CASE ReadsByte(toHost, hostRec, hm, hs)
  <2>1. PICK v, hs1, x : /\ Begun(hm, hs, v, hs1) /\ x \in Byte /\ u = EscapeOf[x]
                         /\ Carries(AfterUnit(toHost), Append(hostRec, x), <<v>>, hs1)
    BY <1>1, <1>2, <1>4 DEF ReadsByte
  <2>2. /\ Len(u) = 1 \/ u = <<"IAC", "IAC">>
        /\ Len(u) \in 1 .. 2 /\ u # EndOfRecord /\ u[Len(u)] = x
    BY <2>1, Shapes
  <2>3. Len(u) # 3 /\ ~ (Len(u) > 4)
    BY <2>2, Lengths
  <2>4. SubOf(u) = {}
    BY <2>3, SubOfOthers
  <2> QED BY <1>1, <1>3, <2>1, <2>2, <2>3, <2>4 DEF HostByte
<1>5. CASE ReadsEnd(toHost, hostRec, hm, hs)
  <2>1. PICK v, hs1 : /\ Begun(hm, hs, v, hs1) /\ u = EndOfRecord /\ hostRec = Content(v)
                      /\ Carries(AfterUnit(toHost), <<>>, <<>>, hs1)
    BY <1>1, <1>2, <1>5 DEF ReadsEnd
  <2>2. Len(u) = 2 /\ u # <<"IAC", "IAC">>
    BY <2>1, Shapes
  <2>3. Len(u) # 1 /\ Len(u) # 3 /\ ~ (Len(u) > 4)
    BY <2>2
  <2>4. SubOf(u) = {}
    BY <2>3, SubOfOthers
  <2>5. hostRec' = <<>> /\ replies' = replies /\ answered' = answered
    BY <1>3, <2>1, <2>2, <2>3, <2>4
  <2>6. IF DataMode
        THEN /\ hostGot' = Append(hostGot, IF EMode THEN SubSeq(hostRec, 6, Len(hostRec)) ELSE hostRec)
             /\ ignored' = ignored
        ELSE hostGot' = hostGot /\ ignored' = ignored + 1
    BY <1>3, <2>1
  <2> QED BY <1>1, <2>1, <2>5, <2>6 DEF HostEnd
<1>6. CASE ReadsCommand(toHost, hostRec, hm, hs)
  <2>1. PICK v \in Command \X Option :
           /\ hm = <<>> /\ hostRec = <<>> /\ hs # <<>> /\ Head(hs) = Cmd(v)
           /\ u = <<"IAC", v[1], v[2]>>
           /\ Carries(AfterUnit(toHost), <<>>, <<>>, Tail(hs))
    BY <1>1, <1>2, <1>6 DEF ReadsCommand
  <2>2. Len(u) = 3 /\ <<u[2], u[3]>> = v
    BY <2>1
  <2>3. Len(u) # 1 /\ ~ (Len(u) > 4) /\ u # EndOfRecord /\ u # <<"IAC", "IAC">>
    <3>1. Len(EndOfRecord) # 3 /\ Len(<<"IAC", "IAC">>) # 3
      BY Shapes
    <3> QED BY <2>2, <3>1
  <2>4. SubOf(u) = {}
    BY <2>3, SubOfOthers
  <2> QED BY <1>1, <1>3, <2>1, <2>2, <2>3, <2>4 DEF HostCommand
<1>7. CASE ReadsSub(toHost, hostRec, hm, hs)
  <2>1. PICK v \in Bodies :
           /\ hm = <<>> /\ hostRec = <<>> /\ hs # <<>> /\ Head(hs) = Sbn(v) /\ u = Subneg(v)
           /\ Carries(AfterUnit(toHost), <<>>, <<>>, Tail(hs))
    BY <1>1, <1>2, <1>7 DEF ReadsSub
  <2>2. Len(u) \in 6 .. 7
    BY <2>1, Shapes
  <2>3. Len(u) # 1 /\ Len(u) # 3 /\ u # EndOfRecord /\ u # <<"IAC", "IAC">>
    <3>1. Len(EndOfRecord) = 2 /\ Len(<<"IAC", "IAC">>) = 2 /\ Len(u) # 2 /\ Len(u) # 1 /\ Len(u) # 3
      BY <2>2, Shapes, Lengths
    <3> QED BY <3>1
  <2> QED BY <1>1, <1>3, <2>1, <2>3 DEF HostSub
<1> QED BY <1>1, <1>4, <1>5, <1>6, <1>7, NextItem

-----------------------------------------------------------------------------
(* The invariant.  cs are the items on the way to the client, hs those to  *)
(* the host; cm and hm the records they are in the middle of reading.      *)

OfferE == <<"DO", "TN3270E">>
WillE == <<"WILL", "TN3270E">>
WontE == <<"WONT", "TN3270E">>
Offerable == ToSet(BasicOffers) \cup {OfferE, <<"DONT", "TN3270E">>}
Given(hs) == ToSet(replies) \cup ValSet("cmd", hs)

\* Why the client has replied what it has, and what it notes of it.
ReplyReasons(hs) ==
    /\ <<"WILL", "EOR">> \in Given(hs) => "eorOut" \in agreed
    /\ <<"DO", "EOR">> \in Given(hs) => "eorIn" \in agreed
    /\ <<"WILL", "BINARY">> \in Given(hs) => "binOut" \in agreed
    /\ <<"DO", "BINARY">> \in Given(hs) => "binIn" \in agreed
    /\ WillE \in Given(hs) => tn3270e
    /\ WontE \in Given(hs) => ~useE
ClientNotes ==
    /\ useE \in BOOLEAN /\ tn3270e \in BOOLEAN /\ agreed \subseteq Flag
    /\ agreed = Flag => mode3270
    /\ tn3270e => useE /\ host # "basic"
    /\ Noted("eorOut", <<"DO", "EOR">>) /\ Noted("eorIn", <<"WILL", "EOR">>)
    /\ Noted("binOut", <<"DO", "BINARY">>) /\ Noted("binIn", <<"WILL", "BINARY">>)
OfferOrder(cs) ==
    /\ host \in {"basic", "e", "rejects"}
    /\ offered \in Seq(Command \X Option)
    /\ ToSet(offered) \subseteq Offerable /\ ValSet("cmd", cs) \subseteq ToSet(offered)
    /\ \A o \in ToSet(offered) : o # OfferE => host = "basic" \/ WontE \in ToSet(replies) \/ Rejected
    /\ host = "basic" => OfferE \notin ToSet(offered)
\* TN3270E is gone into only when the client has accepted it.
SubReasons(cs, hs) ==
    /\ \A b \in ValSet("sub", cs) \cup ValSet("sub", hs) : b[1] = "TN3270E" => WillE \in ToSet(replies)
    /\ \A s \in {"e_send", "e_is", "e_reject"} : s \in asked => WillE \in ToSet(replies)
    /\ \A s \in {"e_request", "e_functions"} : s \in answered => WillE \in ToSet(replies)
    /\ Rejected => host = "rejects"
NegInv(cs, hs) ==
    replies \in Seq(Command \X Option) /\ ReplyReasons(hs) /\ ClientNotes /\ OfferOrder(cs) /\ SubReasons(cs, hs)

\* Each offer handled has its reply, read or on the way.
Matches(given, open) ==
    /\ Len(given) = Len(open)
    /\ \A i \in DOMAIN given : given[i][1] \in Opposite(open[i][1]) /\ given[i][2] = open[i][2]
OrderInv(cs, hs) ==
    \E seen \in Seq(Command \X Option) :
       /\ offered = Cat(seen, Vals("cmd", cs))
       /\ Matches(Cat(replies, Vals("cmd", hs)), Chosen(seen, Open))

\* The mode the host comes to, and whether it has no such device.
EHost == useE /\ host = "e"
Rejects == useE /\ host = "rejects"

Parts(sent, seen, m, w) == sent = seen \o (m \o w)

\* What the host has sent arrives as it was sent; seen are the records the
\* client has dealt with.
ReadTypes(cm, cs) ==
    \A v \in ValSet("rec", cs) \cup ToSet(cm) :
       DataMode /\ (IF EHost THEN v[1] \in DataType ELSE v[1] = "none")
ReadBy(seen) ==
    LET data == IF Rejects THEN <<>> ELSE Chosen(seen, Is3270)
    IN  Len(got) = Len(data) /\ \A i \in DOMAIN got : got[i] = data[i][2]
ReadInv(cm, cs) ==
    /\ hostSent \in Seq(Record) /\ got \in Seq(Payload)
    /\ ReadTypes(cm, cs)
    /\ hostSent # <<>> => DataMode
    /\ \E seen \in Seq(Record) : Parts(hostSent, seen, cm, Vals("rec", cs)) /\ ReadBy(seen)

\* What the terminal typed arrives as the client wrote it, with a header once
\* tn3270e is set.  seen are the records the host has dealt with.
WriteTypes(hm, hs) ==
    /\ writing = <<>> \/ \E v \in Record : writing = <<v>>
    /\ \A v \in ValSet("rec", hs) \cup ToSet(hm) \cup ToSet(writing) :
          v[1] \in {"none", "data"} /\ (v[1] = "data" => tn3270e)

\* Behind WILL TN3270E at most one record has no header, the first: the one
\* the client had looked at before it set tn3270e.
WritingData == writing # <<>> => writing[1][1] = "data"
Lone(q) == \A k \in 2 .. Len(q) : q[k][1] = "data"
Few(q) == Lone(q) /\ (q # <<>> => WritingData)
After(hs, i) == SubSeq(hs, i + 1, Len(hs))
AfterWill(hs) == \A i \in DOMAIN hs : hs[i] = Cmd(WillE) => Few(Vals("rec", After(hs, i)))
\* ... and once the host has read the reply, at most the first it may take.
WillRead ==
    /\ \A k \in DOMAIN typed : k > ignored + 1 => typed[k][1] = "data"
    /\ Len(typed) > ignored => WritingData

\* The host g gets for the i-th record it takes, which the client wrote as w.
TakesE == EHost \/ Rejects
Taken(i, g, w) ==
    IF TakesE /\ w[1] = "none"
    THEN i = 1 /\ g = (IF Rejected THEN w[2] ELSE SubSeq(w[2], 6, Len(w[2])))
    ELSE g = Header(IF Rejected THEN "data" ELSE "none") \o w[2]
WrittenBy(seen) ==
    /\ hostGot \in Seq(Seq(Byte)) /\ ignored + Len(hostGot) = Len(seen)
    /\ \A i \in DOMAIN hostGot : Taken(i, hostGot[i], seen[ignored + i])
WriteInv(hm, hs) ==
    /\ typed \in Seq(Record) /\ ignored \in Nat
    /\ WriteTypes(hm, hs) /\ AfterWill(hs) /\ (WillE \in ToSet(replies) => WillRead)
    /\ hostGot # <<>> => DataMode
    /\ \E seen \in Seq(Record) : Parts(typed, seen, hm, Vals("rec", hs)) /\ WrittenBy(seen)

Holds(cm, cs, hm, hs) ==
    /\ Carries(toClient, rec, cm, cs) /\ Carries(toHost, hostRec, hm, hs)
    /\ NegInv(cs, hs) /\ OrderInv(cs, hs) /\ ReadInv(cm, cs) /\ WriteInv(hm, hs)
TelnetInv == \E cm, cs, hm, hs : Holds(cm, cs, hm, hs)

LEMMA ToSetFacts ==
    ASSUME NEW S, NEW s \in Seq(S), NEW x \in S
    PROVE  /\ ToSet(Append(s, x)) = ToSet(s) \cup {x} /\ ToSet(s) \subseteq S
           /\ \A y : ToSet(<<y>>) = {y}
           /\ ToSet(<<>>) = {}
<1>1. ToSet(Append(s, x)) = ToSet(s) \cup {x}
  BY AppendProperties DEF ToSet
<1>2. ToSet(s) \subseteq S
  BY DEF ToSet
<1>3. \A y : ToSet(<<y>>) = {y}
  BY DEF ToSet
<1>4. ToSet(<<>>) = {}
  BY DEF ToSet
<1> QED BY <1>1, <1>2, <1>3, <1>4

\* What the negotiation has come to once records are exchanged.
LEMMA Modes ==
    ASSUME NEW cs, NEW hs, NegInv(cs, hs)
    PROVE  /\ EMode => EHost /\ tn3270e /\ ~Rejected
           /\ BasicMode => mode3270 /\ tn3270e = Rejected /\ ~EHost
           /\ DataMode => /\ EMode = EHost /\ Rejected = Rejects
                         /\ tn3270e = (EHost \/ Rejects)
<1>1. /\ useE \in BOOLEAN /\ tn3270e \in BOOLEAN /\ (tn3270e => useE /\ host # "basic")
      /\ host \in {"basic", "e", "rejects"}
  BY DEF NegInv, ClientNotes, OfferOrder
<1>2. WillE \in ToSet(replies) => tn3270e
  BY DEF NegInv, ReplyReasons, Given
<1>3. WontE \in ToSet(replies) => ~useE
  BY DEF NegInv, ReplyReasons, Given
<1>4. Rejected => WillE \in ToSet(replies) /\ host = "rejects"
  BY DEF NegInv, SubReasons, Rejected
<1>5. EMode => EHost /\ tn3270e /\ ~Rejected
  <2>1. EMode => host = "e" /\ WillE \in ToSet(replies)
    BY DEF NegInv, SubReasons, EMode
  <2> QED BY <1>1, <1>2, <1>4, <2>1 DEF EHost
<1>6. ASSUME BasicMode
      PROVE  mode3270 /\ tn3270e = Rejected /\ ~EHost /\ Rejected = Rejects
  <2>1. /\ <<"WILL", "EOR">> \in ToSet(replies) /\ <<"DO", "EOR">> \in ToSet(replies)
        /\ <<"WILL", "BINARY">> \in ToSet(replies) /\ <<"DO", "BINARY">> \in ToSet(replies)
    BY <1>6 DEF BasicMode, Replied
  <2>2. "eorOut" \in agreed /\ "eorIn" \in agreed /\ "binOut" \in agreed /\ "binIn" \in agreed
    BY <2>1 DEF NegInv, ReplyReasons, Given
  <2>3. mode3270
    <3>1. agreed \subseteq Flag
      BY DEF NegInv, ClientNotes
    <3>2. agreed = Flag
      BY <2>2, <3>1 DEF Flag
    <3> QED BY <3>2 DEF NegInv, ClientNotes
  <2>4. <<"DO", "EOR">> \in ToSet(offered)
    BY <2>2 DEF NegInv, ClientNotes, Noted
  <2>5. <<"DO", "EOR">> # OfferE
    BY DEF OfferE
  <2>6. host = "basic" \/ WontE \in ToSet(replies) \/ Rejected
    BY <2>4, <2>5 DEF NegInv, OfferOrder
  <2>7. Rejected \in BOOLEAN
    BY DEF Rejected
  <2> QED BY <1>1, <1>2, <1>3, <1>4, <2>3, <2>6, <2>7 DEF EHost, Rejects
<1>7. EMode => Rejected = Rejects
  BY <1>1, <1>5 DEF EHost, Rejects, Rejected
<1> QED BY <1>1, <1>5, <1>6, <1>7 DEF DataMode, EHost, Rejects, EMode, Rejected

Keep(A, S) == [x \in A |-> IF x \in S THEN <<x>> ELSE <<>>]

LEMMA ChosenIs ==
    ASSUME NEW A, NEW S, NEW q \in Seq(A)
    PROVE  Keep(A, S) \in SeqMaps(A, A) /\ Chosen(q, S) = Pick(Keep(A, S), q)
<1>1. PICK f : f = Keep(A, S)
  OBVIOUS
<1>2. f \in SeqMaps(A, A)
  <2>1. \A x \in A : (IF x \in S THEN <<x>> ELSE <<>>) \in Seq(A)
    OBVIOUS
  <2> QED BY <1>1, <2>1 DEF SeqMaps, Keep
<1>3. Chosen(q, S) = Pick(f, q)
  <2>1. \A i \in DOMAIN q : q[i] \in A
    BY SeqFacts
  <2>2. Mapped(f, q) = [i \in DOMAIN q |-> IF q[i] \in S THEN <<q[i]>> ELSE <<>>]
    BY <1>1, <2>1 DEF Mapped, Keep
  <2> QED BY <2>2 DEF Chosen, Pick
<1> QED BY <1>1, <1>2, <1>3

LEMMA ChosenAppend ==
    ASSUME NEW A, NEW S, NEW s \in Seq(A), NEW x \in A
    PROVE  Chosen(Append(s, x), S) = Chosen(s, S) \o (IF x \in S THEN <<x>> ELSE <<>>)
<1>1. PICK f : f = Keep(A, S)
  OBVIOUS
<1>2. PICK t : t = Append(s, x)
  OBVIOUS
<1>3. f \in SeqMaps(A, A) /\ Chosen(s, S) = Pick(f, s)
  BY <1>1, ChosenIs
<1>4. Chosen(t, S) = Pick(f, t)
  <2>1. t \in Seq(A)
    BY <1>2
  <2> QED BY <1>1, <2>1, ChosenIs
<1>5. Pick(f, t) = Pick(f, s) \o f[x]
  BY <1>2, <1>3, PickAppend
<1>6. f[x] = IF x \in S THEN <<x>> ELSE <<>>
  BY <1>1 DEF Keep
<1> QED BY <1>2, <1>3, <1>4, <1>5, <1>6

LEMMA ChosenConcat ==
    ASSUME NEW A, NEW S, NEW s \in Seq(A), NEW t \in Seq(A)
    PROVE  Chosen(s \o t, S) = Chosen(s, S) \o Chosen(t, S)
<1>1. PICK f : f = Keep(A, S)
  OBVIOUS
<1>2. PICK u : u = s \o t
  OBVIOUS
<1>3. f \in SeqMaps(A, A)
  BY <1>1, ChosenIs
<1>6. Chosen(s, S) = Pick(f, s) /\ Chosen(t, S) = Pick(f, t)
  BY <1>1, ChosenIs
<1>4. Chosen(u, S) = Pick(f, u)
  <2>1. u \in Seq(A)
    BY <1>2
  <2> QED BY <1>1, <2>1, ChosenIs
<1>5. Pick(f, s \o t) = Pick(f, s) \o Pick(f, t)
  BY <1>3, PickConcat
<1> QED BY <1>2, <1>4, <1>5, <1>6

LEMMA ChosenType ==
    ASSUME NEW A, NEW S, NEW s \in Seq(A)
    PROVE  Chosen(s, S) \in Seq(A) /\ Chosen(<<>>, S) = <<>>
<1>1. Chosen(s, S) \in Seq(A)
  BY ChosenIs, PickType
<1>2. Chosen(<<>>, S) = <<>>
  <2>1. <<>> \in Seq(A)
    OBVIOUS
  <2>2. PICK q : q = <<>>
    OBVIOUS
  <2>3. Chosen(q, S) = Pick(Keep(A, S), q)
    BY <2>1, <2>2, ChosenIs
  <2> QED BY <2>2, <2>3, PickEmpty
<1> QED BY <1>1, <1>2

-----------------------------------------------------------------------------
(* What the actions that send put on the way.                              *)

\* The reply to offer v.
Answers(v, hs, hs1) ==
    \/ v \notin Open /\ hs1 = hs
    \/ /\ v \in Open
       /\ \E w \in Command \X Option :
             /\ w[1] \in Opposite(v[1]) /\ w[2] = v[2]
             /\ (w = WillE => useE) /\ (w = WontE => ~useE)
             /\ hs1 = Append(hs, Cmd(w))

LEMMA CommandBytes ==
    ASSUME NEW bytes, NEW r, NEW m, NEW items, Carries(bytes, r, m, items), NEW v \in Command \X Option
    PROVE  Carries(bytes \o <<"IAC", v[1], v[2]>>, r, m, Append(items, Cmd(v)))
<1>1. Cmd(v) \in Item /\ Cmd(v).k = "cmd" /\ Cmd(v).v = v
  BY ItemMade
<1>2. Bytes[Cmd(v)] = <<"IAC", v[1], v[2]>>
  BY <1>1 DEF Bytes
<1> QED BY <1>1, <1>2, AddItem

LEMMA SubBytes ==
    ASSUME NEW bytes, NEW r, NEW m, NEW items, Carries(bytes, r, m, items), NEW v \in Bodies
    PROVE  Carries(bytes \o Subneg(v), r, m, Append(items, Sbn(v)))
<1>1. Sbn(v) \in Item /\ Sbn(v).k = "sub" /\ Sbn(v).v = v
  BY ItemMade
<1>2. Bytes[Sbn(v)] = Subneg(v)
  BY <1>1 DEF Bytes
<1> QED BY <1>1, <1>2, AddItem

LEMMA CarriesType ==
    ASSUME NEW bytes, NEW r, NEW m, NEW items, Carries(bytes, r, m, items)
    PROVE  /\ bytes \in Seq(Byte) /\ items \in Seq(Item)
           /\ m = <<>> \/ \E v \in Record : m = <<v>>
           /\ bytes = <<>> => m = <<>> /\ items = <<>>
           /\ bytes \o <<>> = bytes
<1>1. items \in Seq(Item)
  BY DEF Carries
<1>2. m = <<>> \/ \E v \in Record : m = <<v>>
  BY DEF Carries, Partway
<1>3. bytes \in Seq(Byte)
  <2>1. CASE bytes = Stream(items)
    BY <1>1, <2>1, StreamFacts
  <2>2. ASSUME NEW v, NEW b, Partway(bytes, r, v, b, items)
        PROVE  bytes \in Seq(Byte)
    <3>1. PICK e, s, o \in Seq(Byte) : e = Escape(b) /\ s = Stream(items) /\ o = EndOfRecord
      <4>1. <<"IAC", "EOR">> \in Seq(Byte)
        BY Marks
      <4>2. Escape(b) \in Seq(Byte)
        BY <2>2, EscapeIs DEF Partway
      <4> QED BY <1>1, <4>1, <4>2, StreamFacts DEF EndOfRecord
    <3>2. e \o (o \o s) \in Seq(Byte)
      OBVIOUS
    <3> QED BY <2>2, <3>1, <3>2 DEF Partway
  <2> QED BY <2>1, <2>2 DEF Carries
<1>4. bytes = <<>> => m = <<>> /\ items = <<>>
  BY NextItem DEF ReadsByte, ReadsEnd, ReadsCommand, ReadsSub
<1>5. bytes \o <<>> = bytes
  BY <1>3, SeqFacts
<1> QED BY <1>1, <1>2, <1>3, <1>4, <1>5

LEMMA OfferableCases ==
    /\ BasicOffers \in Seq(Command \X Option) /\ Len(BasicOffers) = 7
    /\ Offerable = { <<"WILL", "OTHER">>, <<"DONT", "OTHER">>, <<"DO", "TTYPE">>, <<"DO", "EOR">>,
                      <<"WILL", "EOR">>, <<"DO", "BINARY">>, <<"WILL", "BINARY">>,
                      <<"DO", "TN3270E">>, <<"DONT", "TN3270E">> }
    /\ Offerable \subseteq Command \X Option
    /\ OfferE \notin ToSet(BasicOffers)
<1>1. BasicOffers \in Seq(Command \X Option) /\ Len(BasicOffers) = 7
  BY DEF BasicOffers, Command, Option
<1>2. ToSet(BasicOffers) = { <<"WILL", "OTHER">>, <<"DONT", "OTHER">>, <<"DO", "TTYPE">>, <<"DO", "EOR">>,
                      <<"WILL", "EOR">>, <<"DO", "BINARY">>, <<"WILL", "BINARY">> }
  <2>1. DOMAIN BasicOffers = 1 .. 7
    BY DEF BasicOffers
  <2>2. /\ BasicOffers[1] = <<"WILL", "OTHER">> /\ BasicOffers[2] = <<"DONT", "OTHER">>
        /\ BasicOffers[3] = <<"DO", "TTYPE">> /\ BasicOffers[4] = <<"DO", "EOR">>
        /\ BasicOffers[5] = <<"WILL", "EOR">> /\ BasicOffers[6] = <<"DO", "BINARY">>
        /\ BasicOffers[7] = <<"WILL", "BINARY">>
    BY DEF BasicOffers
  <2>3. 1 .. 7 = {1, 2, 3, 4, 5, 6, 7}
    OBVIOUS
  <2>4. ToSet(BasicOffers) = {BasicOffers[i] : i \in {1, 2, 3, 4, 5, 6, 7}}
    BY <2>1, <2>3 DEF ToSet
  <2> QED BY <2>2, <2>4
<1>3. Offerable = { <<"WILL", "OTHER">>, <<"DONT", "OTHER">>, <<"DO", "TTYPE">>, <<"DO", "EOR">>,
                    <<"WILL", "EOR">>, <<"DO", "BINARY">>, <<"WILL", "BINARY">>,
                    <<"DO", "TN3270E">>, <<"DONT", "TN3270E">> }
  BY <1>2 DEF Offerable, OfferE
<1>4. Offerable \subseteq Command \X Option
  BY <1>3 DEF Command, Option
<1>5. OfferE \notin ToSet(BasicOffers)
  BY <1>2 DEF OfferE
<1> QED BY <1>1, <1>3, <1>4, <1>5

LEMMA NegotiationItems ==
    ASSUME NEW cm, NEW cs, NEW hm, NEW hs, Carries(toClient, rec, cm, cs), Carries(toHost, hostRec, hm, hs),
           NegInv(cs, hs), HandleNegotiation
    PROVE  \E v, hs1 :
              /\ cm = <<>> /\ cs # <<>> /\ Head(cs) = Cmd(v)
              /\ v \in Offerable /\ v \in ToSet(offered)
              /\ Carries(toClient', rec', <<>>, Tail(cs)) /\ Carries(toHost', hostRec', hm, hs1)
              /\ Answers(v, hs, hs1)
              /\ agreed' = agreed \cup Agrees(v[1], v[2])
              /\ tn3270e' = (tn3270e \/ (useE /\ v = OfferE))
              /\ mode3270' = (mode3270 \/ agreed' = Flag)
<1>1. PICK v \in Command \X Option :
              /\ cm = <<>> /\ cs # <<>> /\ Head(cs) = Cmd(v)
              /\ NextUnit[2] = v[1] /\ NextUnit[3] = v[2]
              /\ Carries(toClient', rec', <<>>, Tail(cs))
  BY HandleNegotiationStep
<1>2. v \in ToSet(offered) /\ v \in Offerable
  <2>1. Head(cs).k = "cmd" /\ Head(cs).v = v
    BY <1>1 DEF Cmd
  <2>2. cs \in Seq(Item)
    BY CarriesType
  <2>3. v \in ValSet("cmd", cs)
    BY <1>1, <2>1, <2>2, ValSetChange
  <2> QED BY <2>3 DEF NegInv, OfferOrder
<1>3. /\ toHost' = toHost \o Reply(v[1], v[2])
      /\ agreed' = agreed \cup Agrees(v[1], v[2])
      /\ tn3270e' = (tn3270e \/ (useE /\ v[2] = "TN3270E" /\ v[1] \in {"DO", "WILL"}))
      /\ mode3270' = (mode3270 \/ agreed' = Flag) /\ hostRec' = hostRec
  <2>1. tn3270e' = tn3270e /\ (useE /\ v[2] = "TN3270E" /\ v[1] \in {"DO", "WILL"} => tn3270e)
    BY <1>1 DEF HandleNegotiation, SetsTn3270e
  <2>2. tn3270e \in BOOLEAN
    BY DEF NegInv, ClientNotes
  <2> QED BY <1>1, <2>1, <2>2 DEF HandleNegotiation, hostVars
<1>4. (v[2] = "TN3270E" /\ v[1] \in {"DO", "WILL"}) <=> v = OfferE
  BY <1>2, OfferableCases DEF OfferE
<1>5. CASE v \notin Open
  <2>1. v[1] \notin {"DO", "WILL"}
    BY <1>5 DEF Open
  <2>2. Reply(v[1], v[2]) = <<>>
    BY <2>1 DEF Reply
  <2>3. Carries(toHost', hostRec', hm, hs)
    BY <1>3, <2>2, CarriesType
  <2>4. Answers(v, hs, hs)
    BY <1>5 DEF Answers
  <2> QED BY <1>1, <1>2, <1>3, <1>4, <2>3, <2>4
<1>6. CASE v \in Open
  <2>1. PICK w : /\ w \in Command \X Option /\ Reply(v[1], v[2]) = <<"IAC", w[1], w[2]>>
                 /\ w[1] \in Opposite(v[1]) /\ w[2] = v[2]
                 /\ (w = WillE => useE) /\ (w = WontE => ~useE)
    <3>1. v[1] \in {"DO", "WILL"} /\ v[2] \in Option
      BY <1>6 DEF Open
    <3>2. v[1] = "WILL" => v[2] # "TTYPE"
      BY <1>2, OfferableCases
    <3>3. CASE v[1] = "DO"
      <4>1. PICK c : c = IF v[2] = "OTHER" \/ (v[2] = "TN3270E" /\ ~useE) THEN "WONT" ELSE "WILL"
        OBVIOUS
      <4>2. Reply(v[1], v[2]) = <<"IAC", c, v[2]>>
        BY <3>3, <4>1 DEF Reply
      <4>3. c \in Command /\ c \in Opposite(v[1])
        BY <3>3, <4>1 DEF Command, Opposite
      <4>4. (<<c, v[2]>> = WillE => useE) /\ (<<c, v[2]>> = WontE => ~useE)
        BY <4>1 DEF WillE, WontE
      <4> QED BY <3>1, <4>2, <4>3, <4>4
    <3>4. CASE v[1] = "WILL"
      <4>1. PICK c : c = IF v[2] = "OTHER" \/ (v[2] = "TN3270E" /\ ~useE) THEN "DONT" ELSE "DO"
        OBVIOUS
      <4>2. Reply(v[1], v[2]) = <<"IAC", c, v[2]>>
        BY <3>2, <3>4, <4>1 DEF Reply
      <4>3. c \in Command /\ c \in Opposite(v[1])
        BY <3>4, <4>1 DEF Command, Opposite
      <4>4. (<<c, v[2]>> = WillE => useE) /\ (<<c, v[2]>> = WontE => ~useE)
        BY <4>1 DEF WillE, WontE
      <4> QED BY <3>1, <4>2, <4>3, <4>4
    <3> QED BY <3>1, <3>3, <3>4
  <2>2. Carries(toHost', hostRec', hm, Append(hs, Cmd(w)))
    BY <1>3, <2>1, CommandBytes
  <2>3. Answers(v, hs, Append(hs, Cmd(w)))
    BY <1>6, <2>1 DEF Answers
  <2> QED BY <1>1, <1>2, <1>3, <1>4, <2>2, <2>3
<1> QED BY <1>5, <1>6

\* A subnegotiation has no answer, or one about the same option.
SubAnswers(v, hs, hs1) ==
    \/ hs1 = hs
    \/ \E w \in Bodies : w[1] = v[1] /\ hs1 = Append(hs, Sbn(w))

LEMMA SubnegotiationItems ==
    ASSUME NEW cm, NEW cs, NEW hm, NEW hs, Carries(toClient, rec, cm, cs), Carries(toHost, hostRec, hm, hs),
           HandleSubnegotiation
    PROVE  \E v \in Bodies : \E hs1 :
              /\ cm = <<>> /\ cs # <<>> /\ Head(cs) = Sbn(v)
              /\ Carries(toClient', rec', <<>>, Tail(cs)) /\ Carries(toHost', hostRec', hm, hs1)
              /\ SubAnswers(v, hs, hs1)
<1>1. PICK v \in Bodies :
              /\ cm = <<>> /\ cs # <<>> /\ Head(cs) = Sbn(v)
              /\ toHost' = toHost \o SubAnswer(v)
              /\ Carries(toClient', rec', <<>>, Tail(cs))
  BY HandleSubnegotiationStep
<1>2. hostRec' = hostRec
  BY DEF HandleSubnegotiation, hostVars
<1>3. SubAnswer(v) = <<>> \/ \E w \in Bodies : w[1] = v[1] /\ SubAnswer(v) = Subneg(w)
  <2> DEFINE Device == SubSeq(v, 1, 2) = <<"TN3270E", "DEVICE_TYPE">>
  <2>1. Device => v[1] = "TN3270E" /\ v[2] = "DEVICE_TYPE"
    <3>1. v \in Seq(Byte) /\ Len(v) \in 2 .. 3
      <4>1. <<>> \in Seq(Byte)
        OBVIOUS
      <4> QED BY <4>1, BodiesType, UnitOfSub
    <3>2. PICK q : q = SubSeq(v, 1, 2)
      OBVIOUS
    <3>3. q[1] = v[1] /\ q[2] = v[2]
      BY <3>1, <3>2
    <3>4. ASSUME q = <<"TN3270E", "DEVICE_TYPE">> PROVE v[1] = "TN3270E" /\ v[2] = "DEVICE_TYPE"
      <4>1. q[1] = "TN3270E" /\ q[2] = "DEVICE_TYPE"
        BY <3>4
      <4> QED BY <3>3, <4>1
    <3> QED BY <3>2, <3>4
  <2>2. SubAnswer(v) = CASE v = <<"TTYPE", "SEND">>   -> Subneg(<<"TTYPE", "IS">>)
                         [] v = <<"TN3270E", "SEND">> -> Subneg(<<"TN3270E", "REQUEST">>)
                         [] Device                    -> Subneg(<<"TN3270E", "FUNCTIONS">>)
                         [] OTHER                     -> <<>>
    BY DEF SubAnswer
  <2> HIDE DEF Device
  <2>3. /\ <<"TTYPE", "IS">> \in Bodies /\ <<"TN3270E", "REQUEST">> \in Bodies
        /\ <<"TN3270E", "FUNCTIONS">> \in Bodies
    BY DEF Bodies
  <2>4. CASE v = <<"TTYPE", "SEND">>
    <3>1. v[1] = "TTYPE" /\ ~Device /\ v # <<"TN3270E", "SEND">>
      BY <2>1, <2>4
    <3>2. SubAnswer(v) = Subneg(<<"TTYPE", "IS">>)
      BY <2>2, <2>4, <3>1
    <3>3. <<"TTYPE", "IS">>[1] = v[1]
      BY <3>1
    <3> QED BY <2>3, <3>2, <3>3
  <2>5. CASE v = <<"TN3270E", "SEND">>
    <3>1. v[1] = "TN3270E" /\ ~Device /\ v # <<"TTYPE", "SEND">>
      BY <2>1, <2>5
    <3>2. SubAnswer(v) = Subneg(<<"TN3270E", "REQUEST">>)
      BY <2>2, <2>5, <3>1
    <3>3. <<"TN3270E", "REQUEST">>[1] = v[1]
      BY <3>1
    <3> QED BY <2>3, <3>2, <3>3
  <2>6. CASE Device /\ v # <<"TTYPE", "SEND">> /\ v # <<"TN3270E", "SEND">>
    <3>1. SubAnswer(v) = Subneg(<<"TN3270E", "FUNCTIONS">>)
      BY <2>2, <2>6
    <3>2. <<"TN3270E", "FUNCTIONS">>[1] = v[1]
      BY <2>1, <2>6
    <3> QED BY <2>3, <3>1, <3>2
  <2>7. CASE ~Device /\ v # <<"TTYPE", "SEND">> /\ v # <<"TN3270E", "SEND">>
    BY <2>2, <2>7
  <2> QED BY <2>4, <2>5, <2>6, <2>7
<1>4. CASE SubAnswer(v) = <<>>
  <2>1. Carries(toHost', hostRec', hm, hs)
    BY <1>1, <1>2, <1>4, CarriesType
  <2> QED BY <1>1, <2>1 DEF SubAnswers
<1>5. ASSUME NEW w \in Bodies, w[1] = v[1], SubAnswer(v) = Subneg(w)
      PROVE  Carries(toHost', hostRec', hm, Append(hs, Sbn(w))) /\ SubAnswers(v, hs, Append(hs, Sbn(w)))
  BY <1>1, <1>2, <1>5, SubBytes DEF SubAnswers
<1> QED BY <1>1, <1>3, <1>4, <1>5

LEMMA RecordAdded ==
    ASSUME NEW bytes, NEW r, NEW m, NEW items, Carries(bytes, r, m, items), NEW v \in Record
    PROVE  Carries(bytes \o Header(v[1]) \o Escape(v[2]) \o EndOfRecord, r, m, Append(items, Rec(v)))
<1>1. Rec(v) \in Item
  BY ItemMade
<1>2. Carries(bytes \o Bytes[Rec(v)], r, m, Append(items, Rec(v)))
  BY <1>1, AddItem
<1>3. bytes \in Seq(Byte)
  BY CarriesType
<1>4. bytes \o Header(v[1]) \o Escape(v[2]) \o EndOfRecord = bytes \o Bytes[Rec(v)]
  BY <1>3, RecordBytes
<1> QED BY <1>2, <1>4

LEMMA SendRecordItems ==
    ASSUME NEW hm, NEW hs, Carries(toHost, hostRec, hm, hs), SendRecord, NEW v \in Record, writing = <<v>>
    PROVE  typed' = Append(typed, v) /\ Carries(toHost', hostRec', hm, Append(hs, Rec(v)))
<1>1. writing[1] = v
  OBVIOUS
<1>2. /\ typed' = Append(typed, v)
      /\ toHost' = toHost \o Header(v[1]) \o Escape(v[2]) \o EndOfRecord
  BY <1>1 DEF SendRecord
<1>3. hostRec' = hostRec
  BY DEF SendRecord, hostVars
<1>4. Carries(toHost \o Header(v[1]) \o Escape(v[2]) \o EndOfRecord, hostRec, hm, Append(hs, Rec(v)))
  BY RecordAdded
<1> QED BY <1>2, <1>3, <1>4

LEMMA HostSendsItems ==
    ASSUME NEW cm, NEW cs, Carries(toClient, rec, cm, cs), HostSends
    PROVE  \E v \in Record :
              /\ IF EMode THEN v[1] \in DataType ELSE v[1] = "none"
              /\ hostSent' = Append(hostSent, v)
              /\ Carries(toClient', rec', cm, Append(cs, Rec(v)))
<1>1. PICK p \in Payload, type \in IF EMode THEN DataType ELSE {"none"} :
         /\ hostSent' = Append(hostSent, <<type, p>>)
         /\ toClient' = toClient \o Header(type) \o Escape(p) \o EndOfRecord
  BY DEF HostSends
<1>2. PICK v : v = <<type, p>>
  OBVIOUS
<1>3. v \in Record /\ v[1] = type /\ v[2] = p
  BY <1>1, <1>2 DEF Record, HeaderType
<1>4. rec' = rec
  BY DEF HostSends, clientVars
<1>5. Carries(toClient \o Header(v[1]) \o Escape(v[2]) \o EndOfRecord, rec, cm, Append(cs, Rec(v)))
  BY <1>3, RecordAdded
<1>6. toClient' = toClient \o Header(v[1]) \o Escape(v[2]) \o EndOfRecord
  BY <1>1, <1>3
<1> QED BY <1>1, <1>2, <1>3, <1>4, <1>5, <1>6

LEMMA HostOffersItems ==
    ASSUME NEW cm, NEW cs, NEW hs, Carries(toClient, rec, cm, cs), NegInv(cs, hs), HostOffers
    PROVE  \E v \in Offerable :
              /\ offered' = Append(offered, v)
              /\ (host = "basic" => v # OfferE)
              /\ (v # OfferE => host = "basic" \/ WontE \in ToSet(replies) \/ Rejected)
              /\ Carries(toClient', rec', cm, Append(cs, Cmd(v)))
<1>1. PICK n, v : /\ n = Len(offered) /\ v = Offers[n + 1] /\ n < Len(Offers)
                  /\ offered' = Append(offered, v)
                  /\ toClient' = toClient \o <<"IAC", v[1], v[2]>>
  BY DEF HostOffers
<1>2. n \in Nat /\ (n = 0 => offered = <<>>) /\ (n # 0 => offered # <<>>)
  <2>1. offered \in Seq(Command \X Option)
    BY DEF NegInv, OfferOrder
  <2> QED BY <1>1, <2>1
<1>3. BasicOffers \in Seq(Command \X Option) /\ Len(BasicOffers) = 7
  BY OfferableCases
<1>4. \A i \in 1 .. 7 : BasicOffers[i] \in ToSet(BasicOffers)
  BY <1>3 DEF ToSet
<1>5. CASE host = "basic"
  <2>0. ~Rejected
    BY <1>5 DEF NegInv, SubReasons
  <2>1. Offers = BasicOffers
    BY <1>5, <2>0 DEF Offers
  <2>2. n + 1 \in 1 .. 7
    <3>1. n < Len(BasicOffers)
      BY <1>1, <2>1
    <3>2. n < 7
      BY <1>3, <3>1
    <3> QED BY <1>2, <3>2
  <2>3. v \in ToSet(BasicOffers)
    BY <1>1, <1>4, <2>1, <2>2
  <2>4. v \in Offerable /\ v # OfferE
    BY <2>3, OfferableCases DEF Offerable
  <2>5. rec' = rec /\ v \in Command \X Option
    BY <2>4, OfferableCases DEF HostOffers, clientVars
  <2> QED BY <1>1, <1>5, <2>4, <2>5, CommandBytes
<1>6. CASE host # "basic"
  <2>1. n # 0 => WontE \in ToSet(replies) \/ Rejected
    BY <1>2, <1>6 DEF HostOffers, Replied, WontE
  <2>2. v \in Offerable /\ (n = 0 => v = OfferE)
    <3>1. PICK b : b = BasicOffers
      OBVIOUS
    <3>2. b \in Seq(Command \X Option) /\ Len(b) = 7 /\ \A i \in 1 .. 7 : b[i] \in Offerable
      BY <1>3, <1>4, <3>1 DEF Offerable
    <3>3. OfferE \in Offerable /\ <<"DONT", "TN3270E">> \in Offerable
      BY OfferableCases DEF OfferE
    <3>4. OfferE \in Command \X Option /\ <<"DONT", "TN3270E">> \in Command \X Option
      BY <3>3, OfferableCases
    <3>5. CASE Rejected
      <4>1. Offers = << OfferE, <<"DONT", "TN3270E">> >> \o b
        BY <1>6, <3>1, <3>5 DEF Offers, OfferE
      <4>2. PICK a : a = << OfferE, <<"DONT", "TN3270E">> >>
        OBVIOUS
      <4>3. a \in Seq(Command \X Option) /\ Len(a) = 2 /\ a[1] = OfferE /\ a[2] = <<"DONT", "TN3270E">>
        BY <3>4, <4>2
      <4>4. PICK c : c = a \o b
        OBVIOUS
      <4>5. Joined(Command \X Option, c, a, b)
        BY <3>2, <4>3, <4>4, ConcatJoins
      <4>6. Len(c) = 9 /\ c[1] = OfferE /\ c[2] = <<"DONT", "TN3270E">> /\ \A i \in 1 .. 7 : c[2 + i] \in Offerable
        BY <3>2, <4>3, <4>5 DEF Joined
      <4>7. Offers = c
        BY <4>1, <4>2, <4>4
      <4>8. ASSUME n >= 2 PROVE c[n + 1] \in Offerable
        <5>1. n - 1 \in 1 .. 7 /\ 2 + (n - 1) = n + 1
          <6>1. n < Len(c)
            BY <1>1, <4>7
          <6>2. n < 9
            BY <4>6, <6>1
          <6> QED BY <1>2, <4>8, <6>2
        <5> QED BY <4>6, <5>1
      <4>9. n = 0 \/ n = 1 \/ n >= 2
        BY <1>2
      <4>10. n = 0 => v = OfferE
        BY <1>1, <4>6, <4>7
      <4>11. n = 1 => v = <<"DONT", "TN3270E">>
        BY <1>1, <4>6, <4>7
      <4> QED BY <1>1, <3>3, <4>7, <4>8, <4>9, <4>10, <4>11
    <3>6. CASE ~Rejected
      <4>1. Offers = << OfferE >> \o b
        BY <1>6, <3>1, <3>6 DEF Offers, OfferE
      <4>2. PICK a : a = << OfferE >>
        OBVIOUS
      <4>3. a \in Seq(Command \X Option) /\ Len(a) = 1 /\ a[1] = OfferE
        BY <3>4, <4>2
      <4>4. PICK c : c = a \o b
        OBVIOUS
      <4>5. Joined(Command \X Option, c, a, b)
        BY <3>2, <4>3, <4>4, ConcatJoins
      <4>6. Len(c) = 8 /\ c[1] = OfferE /\ \A i \in 1 .. 7 : c[1 + i] \in Offerable
        BY <3>2, <4>3, <4>5 DEF Joined
      <4>7. Offers = c
        BY <4>1, <4>2, <4>4
      <4>8. ASSUME n >= 1 PROVE c[n + 1] \in Offerable
        <5>1. n \in 1 .. 7 /\ 1 + n = n + 1
          <6>1. n < Len(c)
            BY <1>1, <4>7
          <6>2. n < 8
            BY <4>6, <6>1
          <6> QED BY <1>2, <4>8, <6>2
        <5> QED BY <4>6, <5>1
      <4>9. n = 0 \/ n >= 1
        BY <1>2
      <4>10. n = 0 => v = OfferE
        BY <1>1, <4>6, <4>7
      <4> QED BY <1>1, <3>3, <4>7, <4>8, <4>9, <4>10
    <3> QED BY <3>5, <3>6
  <2>3. rec' = rec /\ v \in Command \X Option
    BY <2>2, OfferableCases DEF HostOffers, clientVars
  <2> QED BY <1>1, <1>6, <2>1, <2>2, <2>3, CommandBytes
<1> QED BY <1>5, <1>6

LEMMA HostAsksItems ==
    ASSUME NEW cm, NEW cs, NEW hs, Carries(toClient, rec, cm, cs), NegInv(cs, hs), HostAsks
    PROVE  \E sub \in Sub, v \in Bodies :
              /\ asked' = asked \cup {sub}
              /\ (v[1] = "TN3270E" \/ sub # "ttype_send" => WillE \in ToSet(replies))
              /\ (sub = "e_reject" => host = "rejects")
              /\ Carries(toClient', rec', cm, Append(cs, Sbn(v)))
<1>1. PICK sub \in Sub :
          /\ CASE sub = "ttype_send" -> Replied("WILL", "TTYPE")
               [] sub = "e_send"     -> Replied("WILL", "TN3270E")
               [] sub = "e_is"       -> host = "e" /\ "e_request" \in answered
               [] sub = "e_reject"   -> host = "rejects" /\ "e_request" \in answered
          /\ asked' = asked \cup {sub}
          /\ toClient' = toClient \o Subneg(SubRequest(sub))
  BY DEF HostAsks
<1>2. PICK v : v = SubRequest(sub)
  OBVIOUS
<1>3. v \in Bodies /\ (sub = "ttype_send" => v[1] = "TTYPE")
  BY <1>2 DEF SubRequest, Bodies, Sub
<1>4. sub # "ttype_send" => WillE \in ToSet(replies)
  <2>1. "e_request" \in answered => WillE \in ToSet(replies)
    BY DEF NegInv, SubReasons
  <2> QED BY <1>1, <2>1 DEF Sub, Replied, WillE
<1>5. sub = "e_reject" => host = "rejects"
  BY <1>1
<1>6. rec' = rec
  BY DEF HostAsks, clientVars
<1>7. Carries(toClient', rec', cm, Append(cs, Sbn(v)))
  BY <1>1, <1>2, <1>3, <1>6, SubBytes
<1> QED BY <1>1, <1>3, <1>4, <1>5, <1>7

-----------------------------------------------------------------------------
(* What the actions keep of the invariant.                                 *)

NegVars == <<useE, tn3270e, agreed, mode3270, host, offered, replies, asked, answered>>

LEMMA NegKept ==
    ASSUME NEW cs, NEW hs, NEW cs1, NEW hs1, NegInv(cs, hs), UNCHANGED NegVars,
           \A k \in {"cmd", "sub"} : ValSet(k, cs1) \subseteq ValSet(k, cs),
           \A k \in {"cmd", "sub"} : ValSet(k, hs1) \subseteq ValSet(k, hs)
    PROVE  NegInv(cs1, hs1)'
<1>1. /\ useE' = useE /\ tn3270e' = tn3270e /\ agreed' = agreed /\ mode3270' = mode3270
      /\ host' = host /\ offered' = offered /\ replies' = replies /\ asked' = asked
      /\ answered' = answered
  BY DEF NegVars
<1>2. /\ ValSet("cmd", cs1) \subseteq ValSet("cmd", cs) /\ ValSet("sub", cs1) \subseteq ValSet("sub", cs)
      /\ ValSet("cmd", hs1) \subseteq ValSet("cmd", hs) /\ ValSet("sub", hs1) \subseteq ValSet("sub", hs)
  OBVIOUS
<1>3. Given(hs1)' \subseteq Given(hs)
  BY <1>1, <1>2 DEF Given
<1>4. ReplyReasons(hs1)'
  BY <1>1, <1>3 DEF NegInv, ReplyReasons
<1>5. ClientNotes'
  BY <1>1 DEF NegInv, ClientNotes, Noted
<1>6. Rejected' = Rejected
  BY <1>1 DEF Rejected
<1>7. OfferOrder(cs1)'
  BY <1>1, <1>2, <1>6 DEF NegInv, OfferOrder
<1>8. SubReasons(cs1, hs1)'
  BY <1>1, <1>2, <1>6 DEF NegInv, SubReasons
<1> QED BY <1>1, <1>4, <1>5, <1>7, <1>8 DEF NegInv

LEMMA OrderKept ==
    ASSUME NEW cs, NEW hs, NEW cs1, NEW hs1, OrderInv(cs, hs), UNCHANGED <<offered, replies>>,
           Vals("cmd", cs1) = Vals("cmd", cs), Vals("cmd", hs1) = Vals("cmd", hs)
    PROVE  OrderInv(cs1, hs1)'
BY DEF OrderInv

\* The negotiation does not go back.
Later ==
    /\ host' = host /\ useE' = useE /\ (tn3270e => tn3270e')
    /\ ToSet(replies) \subseteq ToSet(replies')
    /\ asked \subseteq asked' /\ answered \subseteq answered'
    /\ DataMode => Rejected' = Rejected

LEMMA LaterMode ==
    ASSUME Later
    PROVE  (DataMode => DataMode') /\ EHost' = EHost /\ Rejects' = Rejects
<1>1. EMode => EMode'
  BY DEF Later, EMode
<1>2. BasicMode => BasicMode'
  BY DEF Later, BasicMode, Replied
<1> QED BY <1>1, <1>2 DEF DataMode, Later, EHost, Rejects

LEMMA ReadKept ==
    ASSUME NEW cm, NEW cs, NEW cs1, ReadInv(cm, cs), Later, UNCHANGED <<hostSent, got>>,
           Vals("rec", cs1) = Vals("rec", cs), ValSet("rec", cs1) \subseteq ValSet("rec", cs)
    PROVE  ReadInv(cm, cs1)'
<1>1. (DataMode => DataMode') /\ EHost' = EHost /\ Rejects' = Rejects
  BY LaterMode
<1>2. hostSent' = hostSent /\ got' = got
  OBVIOUS
<1>3. hostSent \in Seq(Record) /\ got \in Seq(Payload) /\ (hostSent # <<>> => DataMode)
  BY DEF ReadInv
<1>4. ReadTypes(cm, cs1)'
  BY <1>1 DEF ReadInv, ReadTypes
<1>5. PICK seen \in Seq(Record) : Parts(hostSent, seen, cm, Vals("rec", cs)) /\ ReadBy(seen)
  BY DEF ReadInv
<1>6. ReadBy(seen)'
  BY <1>1, <1>2, <1>5 DEF ReadBy
<1>7. Parts(hostSent', seen, cm, Vals("rec", cs1))
  BY <1>2, <1>5
<1> QED BY <1>1, <1>2, <1>3, <1>4, <1>6, <1>7 DEF ReadInv

LEMMA AppendType ==
    ASSUME NEW S, NEW q \in Seq(S), NEW x \in S
    PROVE  Append(q, x) \in Seq(S) /\ <<x>> \in Seq(S) /\ Append(q, x) = Cat(q, <<x>>)
<1>1. <<x>> \in Seq(S)
  OBVIOUS
<1> QED BY <1>1, SeqFacts DEF Cat

LEMMA CatGrows ==
    ASSUME NEW S, NEW a \in Seq(S), NEW b \in Seq(S), NEW x \in S
    PROVE  Append(Cat(a, b), x) = Cat(a, Append(b, x))
<1>1. PICK o : o = <<x>>
  OBVIOUS
<1>2. o \in Seq(S) /\ \A q \in Seq(S) : Append(q, x) = Cat(q, o)
  BY <1>1, AppendType
<1>3. Cat(a, b) \in Seq(S) /\ Cat(Cat(a, b), o) = Cat(a, Cat(b, o))
  BY <1>2, CatAssociative
<1> QED BY <1>2, <1>3

LEMMA CatMoves ==
    ASSUME NEW S, NEW a \in Seq(S), NEW b \in Seq(S), NEW x \in S
    PROVE  Cat(Append(a, x), b) = Cat(a, Cat(<<x>>, b))
<1>1. PICK o : o = <<x>>
  OBVIOUS
<1>2. o \in Seq(S) /\ \A q \in Seq(S) : Append(q, x) = Cat(q, o)
  BY <1>1, AppendType
<1>3. Cat(Cat(a, o), b) = Cat(a, Cat(o, b))
  BY <1>2, CatAssociative
<1> QED BY <1>1, <1>2, <1>3

LEMMA ValsGrow ==
    ASSUME NEW k, NEW items \in Seq(Item), NEW item \in Item
    PROVE  Vals(k, Append(items, item)) =
              IF item.k = k THEN Append(Vals(k, items), item.v) ELSE Vals(k, items)
<1>1. \A x \in Item : Vals(k, Append(items, x)) =
                      Vals(k, items) \o (IF x.k = k THEN <<x.v>> ELSE <<>>)
  BY ValsChange
<1>2. Vals(k, Append(items, item)) = Vals(k, items) \o (IF item.k = k THEN <<item.v>> ELSE <<>>)
  BY <1>1
<1>3. PICK w \in Seq(Value) : w = Vals(k, items)
  BY ValsChange
<1>4. item.v \in Value
  BY DEF Item, Value
<1>5. w \o <<>> = w /\ Append(w, item.v) = w \o <<item.v>>
  BY <1>4, SeqFacts
<1> QED BY <1>2, <1>3, <1>5

LEMMA ValsShrink ==
    ASSUME NEW k, NEW items \in Seq(Item), items # <<>>
    PROVE  /\ Head(items) \in Item /\ Tail(items) \in Seq(Item)
           /\ Vals(k, Tail(items)) \in Seq(Value)
           /\ Vals(k, items) = IF Head(items).k = k
                               THEN Cat(<<Head(items).v>>, Vals(k, Tail(items)))
                               ELSE Vals(k, Tail(items))
<1>1. Head(items) \in Item /\ Tail(items) \in Seq(Item)
  BY ValsChange
<1>2. Vals(k, items) = (IF Head(items).k = k THEN <<Head(items).v>> ELSE <<>>) \o Vals(k, Tail(items))
  BY ValsChange
<1>3. Vals(k, Tail(items)) \in Seq(Value)
  BY <1>1, ValsChange
<1>4. <<>> \o Vals(k, Tail(items)) = Vals(k, Tail(items))
  BY <1>3, SeqFacts
<1> QED BY <1>1, <1>2, <1>3, <1>4 DEF Cat

LEMMA SubSeqFacts ==
    ASSUME NEW S, NEW q \in Seq(S), NEW n, n = Len(q), NEW i \in Nat, i < n
    PROVE  /\ SubSeq(q, i + 1, n) \in Seq(S) /\ Len(SubSeq(q, i + 1, n)) = n - i
           /\ \A k \in 1 .. n - i : SubSeq(q, i + 1, n)[k] = q[k + i]
<1>1. PICK b : b = SubSeq(q, i + 1, n)
  OBVIOUS
<1>2. n \in Nat /\ i + 1 \in 1 .. n + 1 /\ \A k \in i + 1 .. n : q[k] \in S
  OBVIOUS
<1>3. b \in Seq(S) /\ Len(b) = n - i /\ \A k \in 1 .. n - i : b[k] = q[k + i]
  BY <1>1, <1>2
<1> QED BY <1>1, <1>3

LEMMA AfterFacts ==
    ASSUME NEW hs \in Seq(Item), NEW i \in DOMAIN hs
    PROVE  /\ After(hs, i) \in Seq(Item)
           /\ \A item \in Item : After(Append(hs, item), i) = Append(After(hs, i), item)
           /\ i = 1 => After(hs, i) = Tail(hs)
<1>1. PICK n : n = Len(hs)
  OBVIOUS
<1>2. n \in Nat /\ i \in 1 .. n /\ \A k \in 1 .. n : hs[k] \in Item
  BY <1>1
<1>3. PICK a : a = After(hs, i)
  OBVIOUS
<1>4. a \in Seq(Item) /\ Len(a) = n - i /\ \A k \in 1 .. n - i : a[k] = hs[k + i]
  <2>1. a = SubSeq(hs, i + 1, n)
    BY <1>1, <1>3 DEF After
  <2>2. i + 1 \in 1 .. n + 1 /\ \A k \in i + 1 .. n : hs[k] \in Item
    BY <1>2
  <2> QED BY <1>1, <1>2, <2>1, <2>2, SMTT(60)
<1>5. ASSUME NEW item \in Item
      PROVE  After(Append(hs, item), i) = Append(a, item)
  <2>1. PICK h : h = Append(hs, item)
    OBVIOUS
  <2>2. h \in Seq(Item) /\ Len(h) = n + 1 /\ h[n + 1] = item /\ \A k \in 1 .. n : h[k] = hs[k]
    BY <1>1, <2>1
  <2>3. PICK b : b = SubSeq(h, i + 1, n + 1)
    OBVIOUS
  <2>4. PICK c : c = Append(a, item)
    OBVIOUS
  <2>5. b \in Seq(Item) /\ Len(b) = n + 1 - i /\ \A k \in 1 .. n + 1 - i : b[k] = h[k + i]
    <3>1. i + 1 \in 1 .. n + 2 /\ \A k \in i + 1 .. n + 1 : h[k] \in Item
      BY <1>2, <2>2
    <3> QED BY <1>2, <2>2, <2>3, <3>1, SMTT(60)
  <2>6. /\ c \in Seq(Item) /\ Len(c) = n - i + 1 /\ c[n - i + 1] = item
        /\ \A k \in 1 .. n - i : c[k] = a[k]
    BY <1>2, <1>4, <2>4
  <2>7. \A k \in 1 .. n + 1 - i : b[k] = c[k]
    <3> SUFFICES ASSUME NEW k \in 1 .. n + 1 - i PROVE b[k] = c[k]
      OBVIOUS
    <3>1. CASE k = n - i + 1
      <4>1. k + i = n + 1
        BY <1>2, <3>1
      <4> QED BY <2>2, <2>5, <2>6, <3>1, <4>1
    <3>2. CASE k # n - i + 1
      <4>1. k \in 1 .. n - i /\ k + i \in 1 .. n
        BY <1>2, <3>2
      <4> QED BY <1>4, <2>2, <2>5, <2>6, <4>1
    <3> QED BY <3>1, <3>2
  <2>8. Len(b) = Len(c) /\ Len(b) = n + 1 - i
    BY <1>2, <2>5, <2>6
  <2>9. b = c
    BY <2>5, <2>6, <2>7, <2>8, SeqEqual
  <2> QED BY <2>1, <2>2, <2>3, <2>4, <2>9 DEF After
<1>6. i = 1 => a = Tail(hs)
  <2> SUFFICES ASSUME i = 1 PROVE a = Tail(hs)
    OBVIOUS
  <2>1. PICK t : t = Tail(hs)
    OBVIOUS
  <2>2. t \in Seq(Item) /\ Len(t) = n - 1 /\ \A k \in 1 .. n - 1 : t[k] = hs[k + 1]
    BY <1>1, <1>2, <2>1
  <2>3. Len(a) = Len(t) /\ \A k \in 1 .. Len(a) : a[k] = t[k]
    BY <1>4, <2>2
  <2> QED BY <1>4, <2>1, <2>2, <2>3, SeqEqual
<1> QED BY <1>3, <1>4, <1>5, <1>6

LEMMA AfterTail ==
    ASSUME NEW hs \in Seq(Item), hs # <<>>, NEW i \in DOMAIN Tail(hs)
    PROVE  /\ i + 1 \in DOMAIN hs /\ Tail(hs)[i] = hs[i + 1]
           /\ After(Tail(hs), i) = After(hs, i + 1)
<1>1. PICK n : n = Len(hs)
  OBVIOUS
<1>2. PICK t : t = Tail(hs)
  OBVIOUS
<1>3. /\ n \in Nat /\ n >= 1 /\ t \in Seq(Item) /\ Len(t) = n - 1 /\ i \in 1 .. n - 1
      /\ (\A k \in 1 .. n - 1 : t[k] = hs[k + 1]) /\ \A k \in 1 .. n : hs[k] \in Item
  BY <1>1, <1>2
<1>4. PICK a : a = SubSeq(t, i + 1, n - 1)
  OBVIOUS
<1>5. PICK b : b = SubSeq(hs, i + 2, n)
  OBVIOUS
<1>6. a \in Seq(Item) /\ Len(a) = n - 1 - i /\ \A k \in 1 .. n - 1 - i : a[k] = t[k + i]
  <2>1. PICK j : j = n - 1
    OBVIOUS
  <2>2. j \in Nat /\ j = Len(t) /\ i \in Nat /\ i <= j /\ j - i = n - 1 - i
    BY <1>3, <2>1
  <2>3. CASE i < j
    BY <1>3, <1>4, <2>1, <2>2, <2>3, SubSeqFacts
  <2>4. CASE i = j
    <3>1. a = <<>>
      BY <1>3, <1>4, <2>1, <2>2, <2>4
    <3>2. n - 1 - i = 0
      BY <2>2, <2>4
    <3> QED BY <3>1, <3>2
  <2> QED BY <2>2, <2>3, <2>4
<1>7. b \in Seq(Item) /\ Len(b) = n - 1 - i /\ \A k \in 1 .. n - 1 - i : b[k] = hs[k + (i + 1)]
  <2>1. i + 2 \in 1 .. n + 1 /\ \A k \in i + 2 .. n : hs[k] \in Item
    BY <1>3
  <2> QED BY <1>1, <1>3, <1>5, <2>1
<1>8. \A k \in 1 .. n - 1 - i : a[k] = b[k]
  <2> SUFFICES ASSUME NEW k \in 1 .. n - 1 - i PROVE a[k] = b[k]
    OBVIOUS
  <2>1. k + i \in 1 .. n - 1 /\ (k + i) + 1 = k + (i + 1)
    BY <1>3
  <2> QED BY <1>3, <1>6, <1>7, <2>1
<1>9. a = b
  <2>1. Len(a) = Len(b) /\ Len(a) = n - 1 - i
    BY <1>6, <1>7
  <2> QED BY <1>6, <1>7, <1>8, <2>1, SeqEqual
<1>10. i + 1 \in 1 .. n /\ DOMAIN hs = 1 .. n /\ (i + 1) + 1 = i + 2
  BY <1>1, <1>3
<1>11. After(t, i) = a /\ After(hs, i + 1) = b
  BY <1>1, <1>3, <1>4, <1>5, <1>10 DEF After
<1> QED BY <1>2, <1>3, <1>9, <1>10, <1>11

LEMMA AfterWillTail ==
    ASSUME NEW hs \in Seq(Item), hs # <<>>, AfterWill(hs)
    PROVE  /\ AfterWill(Tail(hs))
           /\ Head(hs) = Cmd(WillE) => Few(Vals("rec", Tail(hs)))
<1>1. AfterWill(Tail(hs))
  BY AfterTail DEF AfterWill
<1>2. ASSUME Head(hs) = Cmd(WillE) PROVE Few(Vals("rec", Tail(hs)))
  <2>1. PICK i : i = 1
    OBVIOUS
  <2>2. i \in DOMAIN hs /\ hs[i] = Cmd(WillE)
    BY <1>2, <2>1
  <2>3. After(hs, i) = Tail(hs)
    BY <2>1, <2>2, AfterFacts
  <2> QED BY <2>2, <2>3 DEF AfterWill
<1> QED BY <1>1, <1>2

\* What is put behind the reply: something else, or a record.
LEMMA AfterWillGrows ==
    ASSUME NEW hs \in Seq(Item), AfterWill(hs), NEW item \in Item
    PROVE  /\ item.k # "rec" => AfterWill(Append(hs, item))
           /\ /\ item.k = "rec" /\ writing' = <<>>
              /\ item.v[1] = "data" \/ ~WritingData
              => AfterWill(Append(hs, item))'
<1>1. PICK h : h = Append(hs, item)
  OBVIOUS
<1>2. PICK n : n = Len(hs)
  OBVIOUS
<1>3. /\ n \in Nat /\ DOMAIN hs = 1 .. n /\ DOMAIN h = 1 .. n + 1 /\ h[n + 1] = item
      /\ h \in Seq(Item) /\ \A i \in 1 .. n : h[i] = hs[i]
  BY <1>1, <1>2
<1>4. ASSUME NEW i \in DOMAIN hs
      PROVE  /\ item.k # "rec" => Vals("rec", After(h, i)) = Vals("rec", After(hs, i))
             /\ item.k = "rec" => Vals("rec", After(h, i)) = Append(Vals("rec", After(hs, i)), item.v)
             /\ Vals("rec", After(hs, i)) \in Seq(Value)
  <2>1. PICK a : a = After(hs, i)
    OBVIOUS
  <2>2. a \in Seq(Item) /\ After(h, i) = Append(a, item)
    BY <1>1, <2>1, AfterFacts
  <2>3. Vals("rec", Append(a, item)) = IF item.k = "rec" THEN Append(Vals("rec", a), item.v)
                                       ELSE Vals("rec", a)
    BY <2>2, ValsGrow
  <2>4. Vals("rec", a) \in Seq(Value)
    BY <2>2, ValsChange
  <2> QED BY <2>1, <2>2, <2>3, <2>4
<1>5. After(h, n + 1) = <<>>
  <2>1. n + 1 \in DOMAIN h /\ Len(h) = n + 1
    BY <1>3, <1>1, <1>2
  <2>2. PICK a : a = SubSeq(h, (n + 1) + 1, n + 1)
    OBVIOUS
  <2>3. a = <<>>
    BY <1>3, <2>2
  <2> QED BY <2>1, <2>2, <2>3 DEF After
<1>6. Vals("rec", <<>>) = <<>>
  BY PickEmpty DEF Vals
<1>7. ASSUME item.k # "rec" PROVE AfterWill(h)
  <2> SUFFICES ASSUME NEW i \in DOMAIN h, h[i] = Cmd(WillE) PROVE Few(Vals("rec", After(h, i)))
    BY DEF AfterWill
  <2>1. CASE i = n + 1
    <3>1. \A k \in 2 .. Len(<<>>) : FALSE
      OBVIOUS
    <3> QED BY <1>5, <1>6, <2>1, <3>1 DEF Few, Lone
  <2>2. CASE i \in 1 .. n
    BY <1>3, <1>4, <1>7, <2>2 DEF AfterWill
  <2> QED BY <1>3, <2>1, <2>2
<1>8. ASSUME item.k = "rec", writing' = <<>>, item.v[1] = "data" \/ ~WritingData
      PROVE  AfterWill(h)'
  <2>1. ASSUME NEW i \in DOMAIN h, h[i] = Cmd(WillE) PROVE Lone(Vals("rec", After(h, i)))
    <3>1. i \in 1 .. n
      <4>1. Cmd(WillE).k = "cmd"
        BY DEF Cmd
      <4>2. i # n + 1
        BY <1>3, <1>8, <2>1, <4>1
      <4> QED BY <1>3, <4>2
    <3>2. PICK q : q = Vals("rec", After(hs, i))
      OBVIOUS
    <3>3. q \in Seq(Value) /\ Vals("rec", After(h, i)) = Append(q, item.v)
      BY <1>3, <1>4, <1>8, <3>1, <3>2
    <3>4. Lone(q) /\ (q # <<>> => WritingData)
      BY <1>3, <2>1, <3>1, <3>2 DEF AfterWill, Few
    <3>5. item.v \in Value
      BY DEF Item, Value
    <3>6. PICK r : r = Append(q, item.v)
      OBVIOUS
    <3>7. PICK m : m = Len(q)
      OBVIOUS
    <3>8. m \in Nat /\ Len(r) = m + 1 /\ r[m + 1] = item.v /\ \A k \in 1 .. m : r[k] = q[k]
      BY <3>3, <3>5, <3>6, <3>7
    <3>9. ASSUME NEW k \in 2 .. m + 1 PROVE r[k][1] = "data"
      <4>1. CASE k = m + 1
        <5>1. q # <<>>
          <6>1. m # 0
            BY <3>8, <3>9, <4>1
          <6>2. Len(<<>>) = 0
            OBVIOUS
          <6> QED BY <3>7, <6>1, <6>2
        <5> QED BY <1>8, <3>4, <3>8, <4>1, <5>1
      <4>2. CASE k \in 2 .. m
        <5>1. k \in 1 .. m
          BY <3>8, <4>2
        <5> QED BY <3>4, <3>7, <3>8, <4>2, <5>1 DEF Lone
      <4>3. k = m + 1 \/ k \in 2 .. m
        BY <3>8, <3>9
      <4> QED BY <4>1, <4>2, <4>3
    <3> QED BY <3>3, <3>6, <3>8, <3>9 DEF Lone
  <2>2. WritingData'
    BY <1>8 DEF WritingData
  <2> QED BY <2>1, <2>2 DEF AfterWill, Few
<1> QED BY <1>1, <1>7, <1>8

LEMMA TakenKept ==
    ASSUME NEW seen, WrittenBy(seen), Later, hostGot # <<>> => DataMode, UNCHANGED <<ignored, hostGot>>
    PROVE  WrittenBy(seen)'
<1>1. (DataMode => Rejected' = Rejected) /\ EHost' = EHost /\ Rejects' = Rejects
  BY LaterMode DEF Later
<1>2. ignored' = ignored /\ hostGot' = hostGot /\ (TakesE' <=> TakesE)
  BY <1>1 DEF TakesE
<1>3. CASE hostGot = <<>>
  <2>1. DOMAIN hostGot = {}
    BY <1>3
  <2> QED BY <1>2, <1>3, <2>1 DEF WrittenBy
<1>4. CASE hostGot # <<>>
  <2>1. Rejected' = Rejected
    BY <1>1, <1>4
  <2>2. \A i \in DOMAIN hostGot : Taken(i, hostGot[i], seen[ignored + i])'
                                  <=> Taken(i, hostGot[i], seen[ignored + i])
    BY <1>2, <2>1 DEF Taken
  <2> QED BY <1>2, <2>2 DEF WrittenBy
<1> QED BY <1>3, <1>4

LEMMA WriteKept ==
    ASSUME NEW hm, NEW hs, NEW hs1, WriteInv(hm, hs), Later, AfterWill(hs1),
           UNCHANGED <<typed, writing, ignored, hostGot>>, ToSet(replies') = ToSet(replies),
           Vals("rec", hs1) = Vals("rec", hs), ValSet("rec", hs1) \subseteq ValSet("rec", hs)
    PROVE  WriteInv(hm, hs1)'
<1>1. (DataMode => DataMode') /\ (tn3270e => tn3270e')
  BY LaterMode DEF Later
<1>2. typed' = typed /\ ignored' = ignored /\ hostGot' = hostGot /\ writing' = writing
  OBVIOUS
<1>3. typed \in Seq(Record) /\ ignored \in Nat /\ (hostGot # <<>> => DataMode)
  BY DEF WriteInv
<1>4. WriteTypes(hm, hs1)'
  BY <1>1, <1>2 DEF WriteInv, WriteTypes
<1>5. PICK seen \in Seq(Record) : Parts(typed, seen, hm, Vals("rec", hs)) /\ WrittenBy(seen)
  BY DEF WriteInv
<1>6. WrittenBy(seen)'
  BY <1>3, <1>5, TakenKept
<1>7. Parts(typed', seen, hm, Vals("rec", hs1))
  BY <1>2, <1>5
<1>8. AfterWill(hs1)'
  BY <1>2 DEF AfterWill, Few, WritingData
<1>9. (WillE \in ToSet(replies) => WillRead)'
  BY <1>2 DEF WriteInv, WillRead, WritingData
<1> QED BY <1>1, <1>2, <1>3, <1>4, <1>6, <1>7, <1>8, <1>9 DEF WriteInv

-----------------------------------------------------------------------------
(* Records that are begun, read and added.                                 *)

LEMMA RecordType == Record \subseteq Value /\ \A q \in Seq(Record) : q \in Seq(Value)
<1>1. Record \subseteq Value
  BY DEF Value
<1> QED BY <1>1

LEMMA RecordMoves ==
    ASSUME NEW seen \in Seq(Record), NEW m, NEW items \in Seq(Item), NEW v, NEW items1,
           Begun(m, items, v, items1), NEW sent, Parts(sent, seen, m, Vals("rec", items))
    PROVE  /\ Parts(sent, seen, <<v>>, Vals("rec", items1))
           /\ Parts(sent, Append(seen, v), <<>>, Vals("rec", items1))
           /\ Append(seen, v) \in Seq(Record)
<1>1. /\ v \in Record /\ items1 \in Seq(Item)
      /\ m \o Vals("rec", items) = <<v>> \o Vals("rec", items1)
  BY BegunFacts
<1>2. PICK w \in Seq(Value) : w = Vals("rec", items1)
  <2>1. Vals("rec", items1) \in Seq(Value)
    BY <1>1, ValsChange
  <2> QED BY <2>1
<1>3. sent = seen \o (<<v>> \o w)
  BY <1>1, <1>2 DEF Parts
<1>4. seen \o (<<v>> \o w) = Append(seen, v) \o w
  <2>1. seen \in Seq(Value) /\ v \in Value
    BY <1>1, RecordType
  <2> QED BY <2>1, AppendConcat
<1>5. <<>> \o w = w
  BY SeqFacts
<1>6. Append(seen, v) \in Seq(Record)
  BY <1>1
<1> QED BY <1>2, <1>3, <1>4, <1>5, <1>6 DEF Parts

LEMMA RecordGrows ==
    ASSUME NEW seen \in Seq(Record), NEW m \in Seq(Record), NEW items \in Seq(Item), NEW v \in Record,
           NEW sent, Parts(sent, seen, m, Vals("rec", items))
    PROVE  Parts(Append(sent, v), seen, m, Vals("rec", Append(items, Rec(v))))
<1>1. Rec(v) \in Item /\ Rec(v).k = "rec" /\ Rec(v).v = v
  BY ItemMade
<1>2. PICK w \in Seq(Value) : w = Vals("rec", items)
  BY ValsChange
<1>3. Vals("rec", Append(items, Rec(v))) = w \o <<v>>
  <2>1. \A item \in Item : Vals("rec", Append(items, item)) =
                           Vals("rec", items) \o (IF item.k = "rec" THEN <<item.v>> ELSE <<>>)
    BY ValsChange
  <2> QED BY <1>1, <1>2, <2>1
<1>4. seen \in Seq(Value) /\ m \in Seq(Value) /\ v \in Value /\ <<v>> \in Seq(Value)
  BY RecordType
<1>5. PICK o \in Seq(Value) : o = <<v>>
  BY <1>4
<1>6. /\ Cat(Cat(seen, Cat(m, w)), o) = Cat(seen, Cat(Cat(m, w), o))
      /\ Cat(Cat(m, w), o) = Cat(m, Cat(w, o)) /\ Cat(seen, Cat(m, w)) \in Seq(Value)
  <2>1. Cat(m, w) \in Seq(Value)
    BY <1>4, CatAssociative
  <2> QED BY <1>4, <2>1, CatAssociative
<1>7. sent = Cat(seen, Cat(m, w)) /\ sent \in Seq(Value)
  BY <1>2, <1>6 DEF Cat, Parts
<1>8. Append(sent, v) = Cat(sent, o)
  <2>1. sent \in Seq(Value)
    BY <1>7
  <2> QED BY <1>4, <1>5, <2>1, SeqFacts DEF Cat
<1>9. Append(sent, v) = Cat(seen, Cat(m, Cat(w, o)))
  BY <1>6, <1>7, <1>8
<1> QED BY <1>3, <1>5, <1>9 DEF Cat, Parts

LEMMA BegunTypes ==
    ASSUME NEW m, NEW items \in Seq(Item), NEW v, NEW items1, Begun(m, items, v, items1)
    PROVE  /\ ValSet("rec", items1) \cup ToSet(<<v>>) \subseteq ValSet("rec", items) \cup ToSet(m)
           /\ ValSet("rec", items1) \cup ToSet(<<>>) \subseteq ValSet("rec", items) \cup ToSet(m)
           /\ v \in ValSet("rec", items) \cup ToSet(m)
           /\ AfterWill(items) => AfterWill(items1)
<1>1. /\ ValSet("rec", items1) \subseteq ValSet("rec", items)
      /\ m = <<v>> \/ v \in ValSet("rec", items)
  BY BegunFacts
<1>2. ToSet(<<v>>) = {v} /\ ToSet(<<>>) = {}
  BY DEF ToSet
<1>3. v \in ValSet("rec", items) \cup ToSet(m)
  BY <1>1, <1>2
<1>4. AfterWill(items) => AfterWill(items1)
  BY AfterWillTail DEF Begun
<1> QED BY <1>1, <1>2, <1>3, <1>4

LEMMA ContentFacts ==
    ASSUME NEW v \in Record
    PROVE  /\ v[1] = "none" => Content(v) = v[2]
           /\ v[1] # "none" => /\ Len(Content(v)) >= 5 /\ Content(v)[1] = v[1]
                               /\ SubSeq(Content(v), 6, Len(Content(v))) = v[2]
<1>1. PICK p \in Seq(Byte) : p = v[2]
  BY HeaderType0
<1>2. ASSUME v[1] = "none" PROVE Content(v) = v[2]
  <2>1. Header(v[1]) = <<>>
    BY <1>2 DEF Header
  <2>2. <<>> \o p = p
    BY SeqFacts
  <2> QED BY <1>1, <2>1, <2>2 DEF Content
<1>3. ASSUME v[1] # "none"
      PROVE  /\ Len(Content(v)) >= 5 /\ Content(v)[1] = v[1]
             /\ SubSeq(Content(v), 6, Len(Content(v))) = v[2]
  <2>1. PICK h : h = Header(v[1])
    OBVIOUS
  <2>2. h \in Seq(Byte) /\ Len(h) = 5 /\ h[1] = v[1]
    <3>1. h = <<v[1], "0", "0", "0", "0">>
      BY <1>3, <2>1 DEF Header
    <3>2. h \in Seq(Byte)
      BY <2>1, HeaderType0
    <3> QED BY <3>1, <3>2
  <2>3. PICK c : c = h \o p
    OBVIOUS
  <2>4. Joined(Byte, c, h, p)
    BY <2>2, <2>3, ConcatJoins
  <2>5. PICK n : n = Len(p)
    OBVIOUS
  <2>6. /\ n \in Nat /\ c \in Seq(Byte) /\ Len(c) = 5 + n /\ c[1] = v[1]
        /\ \A i \in 1 .. n : c[5 + i] = p[i]
    BY <2>2, <2>4, <2>5 DEF Joined
  <2>7. SubSeq(c, 6, Len(c)) = p
    <3>1. PICK q : q = SubSeq(c, 6, Len(c))
      OBVIOUS
    <3>2. q \in Seq(Byte) /\ Len(q) = n /\ \A i \in 1 .. n : q[i] = c[5 + i]
      BY <2>6, <3>1
    <3>3. \A i \in 1 .. n : q[i] = p[i]
      BY <2>6, <3>2
    <3> QED BY <2>5, <3>1, <3>2, <3>3
  <2>8. Len(c) >= 5
    BY <2>6
  <2>9. Content(v) = c
    BY <1>1, <2>1, <2>3 DEF Content
  <2> QED BY <1>1, <2>6, <2>7, <2>8, <2>9
<1> QED BY <1>2, <1>3

\* A record more is read, or one that has nothing for the terminal.
LEMMA ReadByAppend ==
    ASSUME NEW seen \in Seq(Record), ReadBy(seen), got \in Seq(Payload), NEW v \in Record,
           Rejects' = Rejects,
           IF ~Rejects /\ v \in Is3270 THEN got' = Append(got, v[2]) ELSE got' = got
    PROVE  ReadBy(Append(seen, v))' /\ got' \in Seq(Payload)
<1>1. PICK d : d = IF Rejects THEN <<>> ELSE Chosen(seen, Is3270)
  OBVIOUS
<1>2. PICK e : e = IF Rejects THEN <<>> ELSE Chosen(Append(seen, v), Is3270)
  OBVIOUS
<1>3. Len(got) = Len(d) /\ \A i \in DOMAIN got : got[i] = d[i][2]
  BY <1>1 DEF ReadBy
<1>4. d \in Seq(Record)
  BY <1>1, ChosenType
<1>5. e = IF ~Rejects /\ v \in Is3270 THEN Append(d, v) ELSE d
  <2>1. Chosen(Append(seen, v), Is3270) = Chosen(seen, Is3270) \o (IF v \in Is3270 THEN <<v>> ELSE <<>>)
    BY ChosenAppend
  <2>2. d \o <<>> = d /\ d \o <<v>> = Append(d, v)
    BY <1>4, SeqFacts
  <2> QED BY <1>1, <1>2, <2>1, <2>2
<1>6. Len(got') = Len(e) /\ \A i \in DOMAIN got' : got'[i] = e[i][2]
  <2>1. CASE ~Rejects /\ v \in Is3270
    <3>1. v[2] \in Payload
      BY HeaderType0
    <3>2. PICK n : n = Len(got)
      OBVIOUS
    <3>3. PICK g : g = Append(got, v[2])
      OBVIOUS
    <3>4. /\ n \in Nat /\ DOMAIN got = 1 .. n /\ DOMAIN g = 1 .. n + 1 /\ Len(g) = n + 1 /\ g[n + 1] = v[2]
          /\ \A i \in 1 .. n : g[i] = got[i]
      BY <3>1, <3>2, <3>3
    <3>5. /\ e = Append(d, v) /\ Len(e) = n + 1 /\ e[n + 1] = v
          /\ \A i \in 1 .. n : e[i] = d[i]
      BY <1>3, <1>4, <1>5, <2>1, <3>2
    <3>6. \A i \in 1 .. n + 1 : g[i] = e[i][2]
      <4>1. \A i \in 1 .. n + 1 : i \in 1 .. n \/ i = n + 1
        BY <3>4
      <4> QED BY <1>3, <3>4, <3>5, <4>1
    <3> QED BY <2>1, <3>3, <3>4, <3>5, <3>6
  <2>2. CASE ~ (~Rejects /\ v \in Is3270)
    BY <1>3, <1>5, <2>2
  <2> QED BY <2>1, <2>2
<1>7. got' \in Seq(Payload)
  <2>1. v[2] \in Payload
    BY HeaderType0
  <2> QED BY <2>1, SMTT(60)
<1> QED BY <1>2, <1>6, <1>7 DEF ReadBy

LEMMA WrittenByAppend ==
    ASSUME NEW seen \in Seq(Record), WrittenBy(seen), ignored \in Nat, NEW v \in Record,
           Rejected' = Rejected, EHost' = EHost, Rejects' = Rejects,
           \/ hostGot = <<>> /\ hostGot' = hostGot /\ ignored' = ignored + 1
           \/ \E x \in Seq(Byte) : /\ hostGot' = Append(hostGot, x) /\ ignored' = ignored
                                   /\ Taken(Len(hostGot) + 1, x, v)
    PROVE  WrittenBy(Append(seen, v))'
<1>1. PICK s : s = Append(seen, v)
  OBVIOUS
<1>2. PICK m : m = Len(seen)
  OBVIOUS
<1>3. m \in Nat /\ Len(s) = m + 1 /\ s[m + 1] = v /\ \A i \in 1 .. m : s[i] = seen[i]
  BY <1>1, <1>2
<1>4. hostGot \in Seq(Seq(Byte)) /\ ignored + Len(hostGot) = m
  BY <1>2 DEF WrittenBy
<1>5. CASE hostGot = <<>> /\ hostGot' = hostGot /\ ignored' = ignored + 1
  <2>1. Len(hostGot) = 0 /\ DOMAIN hostGot = {}
    BY <1>5
  <2>2. ignored + 1 + 0 = m + 1
    BY <1>3, <1>4, <2>1
  <2> QED BY <1>1, <1>3, <1>4, <1>5, <2>1, <2>2 DEF WrittenBy
<1>6. ASSUME NEW x \in Seq(Byte), hostGot' = Append(hostGot, x), ignored' = ignored,
             Taken(Len(hostGot) + 1, x, v)
      PROVE  WrittenBy(s)'
  <2>3. PICK Q : Q = Seq(Byte)
    OBVIOUS
  <2>4. PICK g : g = Append(hostGot, x)
    OBVIOUS
  <2>5. PICK n : n = Len(hostGot)
    OBVIOUS
  <2>6. hostGot \in Seq(Q) /\ x \in Q
    BY <1>4, <1>6, <2>3
  <2>7. /\ n \in Nat /\ DOMAIN hostGot = 1 .. n /\ g \in Seq(Q) /\ Len(g) = n + 1 /\ DOMAIN g = 1 .. n + 1
        /\ g[n + 1] = x /\ \A i \in 1 .. n : g[i] = hostGot[i]
    BY <2>4, <2>5, <2>6
  <2>8. ignored + n = m
    BY <1>4, <2>5
  <2>9. ignored + (n + 1) = m + 1
    <3>1. n \in Nat /\ m \in Nat /\ ignored \in Nat
      BY <1>3, <2>7
    <3> QED BY <2>8, <3>1
  <2>10. ASSUME NEW i \in 1 .. n + 1
         PROVE  Taken(i, g[i], s[ignored + i])
    <3>1. CASE i = n + 1
      BY <1>3, <1>6, <2>5, <2>7, <2>9, <3>1
    <3>2. CASE i \in 1 .. n
      <4>1. ignored + i \in 1 .. m
        BY <2>7, <2>8, <3>2
      <4>2. s[ignored + i] = seen[ignored + i]
        BY <1>3, <4>1
      <4>3. Taken(i, hostGot[i], seen[ignored + i])
        BY <2>7, <3>2 DEF WrittenBy
      <4> QED BY <2>7, <3>2, <4>2, <4>3
    <3>3. i = n + 1 \/ i \in 1 .. n
      BY <2>7
    <3> QED BY <3>1, <3>2, <3>3
  <2>11. hostGot' = g /\ ignored' = ignored
    BY <1>6, <2>4
  <2>12. Len(s) = ignored + Len(g)
    BY <1>3, <2>7, <2>9
  <2>13. \A i \in 1 .. n + 1 : Taken(i, g[i], s[ignored + i])
    BY <2>10
  <2>14. \A i, y, w : Taken(i, y, w)' <=> Taken(i, y, w)
    BY DEF Taken, TakesE
  <2> QED BY <2>3, <2>7, <2>11, <2>12, <2>13, <2>14 DEF WrittenBy, Taken, TakesE
<1> QED BY <1>1, <1>5, <1>6

-----------------------------------------------------------------------------
(* The actions about records.                                              *)

LEMMA LaterSame ==
    ASSUME UNCHANGED <<host, useE, tn3270e, replies, asked, answered>>
    PROVE  Later
BY DEF Later, Rejected

LEMMA BegunKeeps ==
    ASSUME NEW m, NEW items \in Seq(Item), NEW v, NEW items1, Begun(m, items, v, items1)
    PROVE  /\ Vals("cmd", items1) = Vals("cmd", items)
           /\ \A k \in {"cmd", "sub"} : ValSet(k, items1) \subseteq ValSet(k, items)
BY BegunFacts

LEMMA RecAddedKeeps ==
    ASSUME NEW items \in Seq(Item), NEW v \in Record
    PROVE  /\ Vals("cmd", Append(items, Rec(v))) = Vals("cmd", items)
           /\ \A k \in {"cmd", "sub"} : ValSet(k, Append(items, Rec(v))) \subseteq ValSet(k, items)
           /\ ValSet("rec", Append(items, Rec(v))) \subseteq ValSet("rec", items) \cup {v}
<1>1. Rec(v) \in Item /\ Rec(v).k = "rec" /\ Rec(v).v = v
  BY ItemMade
<1>2. Vals("cmd", Append(items, Rec(v))) = Vals("cmd", items)
  <2>1. \A item \in Item : Vals("cmd", Append(items, item)) =
                           Vals("cmd", items) \o (IF item.k = "cmd" THEN <<item.v>> ELSE <<>>)
    BY ValsChange
  <2>2. Vals("cmd", Append(items, Rec(v))) = Vals("cmd", items) \o <<>>
    BY <1>1, <2>1
  <2>3. Vals("cmd", items) \in Seq(Value)
    BY ValsChange
  <2>4. Vals("cmd", items) \o <<>> = Vals("cmd", items)
    BY <2>3, SeqFacts
  <2> QED BY <2>2, <2>4
<1>3. \A k : ValSet(k, Append(items, Rec(v))) \subseteq
             ValSet(k, items) \cup (IF Rec(v).k = k THEN {Rec(v).v} ELSE {})
  BY <1>1, ValSetChange
<1> QED BY <1>1, <1>2, <1>3

LEMMA DataByteKeeps ==
    ASSUME NEW cm, NEW cs, NEW hm, NEW hs, Holds(cm, cs, hm, hs), DataByte
    PROVE  TelnetInv'
<1>1. PICK v, cs1 : Begun(cm, cs, v, cs1) /\ Carries(toClient', rec', <<v>>, cs1)
  BY DataByteStep DEF Holds
<1>2. /\ UNCHANGED NegVars /\ UNCHANGED <<host, useE, tn3270e, replies, asked, answered>>
      /\ UNCHANGED <<hostSent, got, typed, writing, ignored, hostGot, offered>>
      /\ toHost' = toHost /\ hostRec' = hostRec
  BY DEF DataByte, NegVars, hostVars
<1>3. Later
  BY <1>2, LaterSame
<1>4. cs \in Seq(Item)
  BY CarriesType DEF Holds
<1>5. NegInv(cs1, hs)'
  BY <1>1, <1>2, <1>4, BegunKeeps, NegKept DEF Holds
<1>6. OrderInv(cs1, hs)'
  <2>1. Vals("cmd", cs1) = Vals("cmd", cs)
    BY <1>1, <1>4, BegunKeeps
  <2> QED BY <1>2, <2>1, OrderKept DEF Holds
<1>7. ReadInv(<<v>>, cs1)'
  <2>1. (DataMode => DataMode') /\ EHost' = EHost /\ Rejects' = Rejects
    BY <1>3, LaterMode
  <2>2. hostSent \in Seq(Record) /\ got \in Seq(Payload) /\ (hostSent # <<>> => DataMode)
    BY DEF Holds, ReadInv
  <2>3. ReadTypes(<<v>>, cs1)'
    <3>1. ReadTypes(cm, cs)
      BY DEF Holds, ReadInv
    <3>2. ValSet("rec", cs1) \cup ToSet(<<v>>) \subseteq ValSet("rec", cs) \cup ToSet(cm)
      BY <1>1, <1>4, BegunTypes
    <3> QED BY <2>1, <3>1, <3>2 DEF ReadTypes
  <2>4. PICK seen \in Seq(Record) : Parts(hostSent, seen, cm, Vals("rec", cs)) /\ ReadBy(seen)
    BY DEF Holds, ReadInv
  <2>5. Parts(hostSent, seen, <<v>>, Vals("rec", cs1))
    BY <1>1, <1>4, <2>4, RecordMoves
  <2>6. ReadBy(seen)'
    BY <1>2, <2>1, <2>4 DEF ReadBy
  <2> QED BY <1>2, <2>1, <2>2, <2>3, <2>5, <2>6 DEF ReadInv
<1>8. WriteInv(hm, hs)'
  BY <1>2, <1>3, WriteKept DEF Holds, WriteInv
<1>9. Carries(toHost', hostRec', hm, hs)
  BY <1>2 DEF Holds
<1> QED BY <1>1, <1>5, <1>6, <1>7, <1>8, <1>9 DEF TelnetInv, Holds

\* What ReadRecord makes of the record it has assembled.
LEMMA RecordDelivered ==
    ASSUME NEW cs, NEW hs, NegInv(cs, hs), ReadRecord, NEW v \in Record, rec = Content(v), DataMode,
           IF EHost THEN v[1] \in DataType ELSE v[1] = "none"
    PROVE  IF ~Rejects /\ v \in Is3270 THEN got' = Append(got, v[2]) ELSE got' = got
<1>1. tn3270e = (EHost \/ Rejects) /\ EHost \in BOOLEAN /\ Rejects \in BOOLEAN
  <2>1. useE \in BOOLEAN
    BY DEF NegInv, ClientNotes
  <2> QED BY <2>1, Modes DEF EHost, Rejects
<1>2. ~ (EHost /\ Rejects)
  BY DEF EHost, Rejects
<1>3. v[2] \in Payload /\ v = <<v[1], v[2]>>
  BY HeaderType0
<1>4. v \in Is3270 <=> v[1] \in {"none", "data", "sscp"}
  BY <1>3 DEF Is3270
<1>5. IF ~tn3270e
      THEN got' = Append(got, rec)
      ELSE IF Len(rec) >= 5 /\ rec[1] \in {"data", "sscp"}
      THEN got' = Append(got, SubSeq(rec, 6, Len(rec)))
      ELSE got' = got
  BY DEF ReadRecord
<1>6. CASE EHost
  <2>1. v[1] \in DataType /\ v[1] # "none"
    BY <1>6 DEF DataType
  <2>2. Len(rec) >= 5 /\ rec[1] = v[1] /\ SubSeq(rec, 6, Len(rec)) = v[2]
    BY <2>1, ContentFacts
  <2> QED BY <1>1, <1>2, <1>4, <1>5, <1>6, <2>1, <2>2
<1>7. CASE ~EHost
  <2>1. v[1] = "none" /\ rec = v[2]
    BY <1>7, ContentFacts
  <2>2. CASE Rejects
    <3>1. ~ (Len(rec) >= 5 /\ rec[1] \in {"data", "sscp"})
      <4>1. rec = <<>> \/ rec[1] \notin {"data", "sscp"}
        BY <1>3, <2>1, PayloadAssumption
      <4>2. ~ (Len(<<>>) >= 5)
        OBVIOUS
      <4> QED BY <4>1, <4>2
    <3> QED BY <1>1, <1>5, <2>2, <3>1
  <2>3. CASE ~Rejects
    BY <1>1, <1>4, <1>5, <1>7, <2>1, <2>3
  <2> QED BY <2>2, <2>3
<1> QED BY <1>6, <1>7

LEMMA ReadRecordKeeps ==
    ASSUME NEW cm, NEW cs, NEW hm, NEW hs, Holds(cm, cs, hm, hs), ReadRecord
    PROVE  TelnetInv'
<1>1. PICK v, cs1 : /\ Begun(cm, cs, v, cs1) /\ rec = Content(v)
                    /\ Carries(toClient', rec', <<>>, cs1)
  BY ReadRecordStep DEF Holds
<1>2. /\ UNCHANGED NegVars /\ UNCHANGED <<host, useE, tn3270e, replies, asked, answered>>
      /\ UNCHANGED <<hostSent, typed, writing, ignored, hostGot, offered>>
      /\ toHost' = toHost /\ hostRec' = hostRec
  BY DEF ReadRecord, NegVars, hostVars
<1>3. Later
  BY <1>2, LaterSame
<1>4. cs \in Seq(Item)
  BY CarriesType DEF Holds
<1>5. NegInv(cs1, hs)'
  BY <1>1, <1>2, <1>4, BegunKeeps, NegKept DEF Holds
<1>6. OrderInv(cs1, hs)'
  <2>1. Vals("cmd", cs1) = Vals("cmd", cs)
    BY <1>1, <1>4, BegunKeeps
  <2> QED BY <1>2, <2>1, OrderKept DEF Holds
<1>7. ReadInv(<<>>, cs1)'
  <2>1. (DataMode => DataMode') /\ EHost' = EHost /\ Rejects' = Rejects
    BY <1>3, LaterMode
  <2>2. hostSent \in Seq(Record) /\ got \in Seq(Payload) /\ (hostSent # <<>> => DataMode)
    BY DEF Holds, ReadInv
  <2>3. ReadTypes(cm, cs)
    BY DEF Holds, ReadInv
  <2>4. ReadTypes(<<>>, cs1)'
    <3>1. ValSet("rec", cs1) \cup ToSet(<<>>) \subseteq ValSet("rec", cs) \cup ToSet(cm)
      BY <1>1, <1>4, BegunTypes
    <3> QED BY <2>1, <2>3, <3>1 DEF ReadTypes
  <2>5. PICK seen \in Seq(Record) : Parts(hostSent, seen, cm, Vals("rec", cs)) /\ ReadBy(seen)
    BY DEF Holds, ReadInv
  <2>6. Parts(hostSent, Append(seen, v), <<>>, Vals("rec", cs1)) /\ Append(seen, v) \in Seq(Record)
    BY <1>1, <1>4, <2>5, RecordMoves
  <2>7. v \in Record
    BY <1>1, <1>4, BegunFacts
  <2>8. v \in ValSet("rec", cs) \cup ToSet(cm)
    BY <1>1, <1>4, BegunTypes
  <2>9. DataMode /\ (IF EHost THEN v[1] \in DataType ELSE v[1] = "none")
    BY <2>3, <2>8 DEF ReadTypes
  <2>10. IF ~Rejects /\ v \in Is3270 THEN got' = Append(got, v[2]) ELSE got' = got
    BY <1>1, <2>7, <2>9, RecordDelivered DEF Holds
  <2>11. ReadBy(Append(seen, v))' /\ got' \in Seq(Payload)
    BY <2>1, <2>2, <2>5, <2>7, <2>10, ReadByAppend
  <2> QED BY <1>2, <2>1, <2>2, <2>4, <2>6, <2>11 DEF ReadInv
<1>8. WriteInv(hm, hs)'
  BY <1>2, <1>3, WriteKept DEF Holds, WriteInv
<1>9. Carries(toHost', hostRec', hm, hs)
  BY <1>2 DEF Holds
<1> QED BY <1>1, <1>5, <1>6, <1>7, <1>8, <1>9 DEF TelnetInv, Holds

LEMMA MType ==
    ASSUME NEW bytes, NEW r, NEW m, NEW items, Carries(bytes, r, m, items)
    PROVE  m \in Seq(Record)
<1>1. m = <<>> \/ \E v \in Record : m = <<v>>
  BY CarriesType
<1>2. \A v \in Record : <<v>> \in Seq(Record)
  OBVIOUS
<1>3. <<>> \in Seq(Record)
  OBVIOUS
<1> QED BY <1>1, <1>2, <1>3

LEMMA WriteRecordKeeps ==
    ASSUME NEW cm, NEW cs, NEW hm, NEW hs, Holds(cm, cs, hm, hs), WriteRecord
    PROVE  TelnetInv'
<1>0. PICK type : type = (IF tn3270e THEN "data" ELSE "none")
  OBVIOUS
<1>1. PICK p \in Payload : writing' = << <<type, p>> >>
  BY <1>0 DEF WriteRecord
<1>2. PICK v : v = <<type, p>>
  OBVIOUS
<1>3. v \in Record /\ v[1] = type /\ type \in {"none", "data"} /\ writing' = <<v>>
  BY <1>0, <1>1, <1>2 DEF Record, HeaderType, DataType
<1>4. /\ UNCHANGED NegVars /\ UNCHANGED <<host, useE, tn3270e, replies, asked, answered>>
      /\ UNCHANGED <<hostSent, got, typed, ignored, hostGot, offered>>
      /\ UNCHANGED <<toClient, rec, toHost, hostRec>>
  BY DEF WriteRecord, NegVars, hostVars
<1>5. Later
  BY <1>4, LaterSame
<1>6. NegInv(cs, hs)'
  BY <1>4, NegKept DEF Holds
<1>7. OrderInv(cs, hs)'
  BY <1>4, OrderKept DEF Holds
<1>8. ReadInv(cm, cs)'
  BY <1>4, <1>5, ReadKept DEF Holds
<1>9. tn3270e \in BOOLEAN /\ (WillE \in ToSet(replies) \cup ValSet("cmd", hs) => tn3270e)
  BY DEF Holds, NegInv, ClientNotes, ReplyReasons, Given
<1>10. WillE \in ToSet(replies) \cup ValSet("cmd", hs) => WritingData'
  BY <1>0, <1>3, <1>9 DEF WritingData
<1>11. WriteInv(hm, hs)'
  <2>1. /\ typed \in Seq(Record) /\ ignored \in Nat /\ (hostGot # <<>> => DataMode)
        /\ WriteTypes(hm, hs) /\ AfterWill(hs) /\ (WillE \in ToSet(replies) => WillRead)
    BY DEF Holds, WriteInv
  <2>2. WriteTypes(hm, hs)'
    <3>1. ToSet(writing') = {v}
      BY <1>3 DEF ToSet
    <3>2. v[1] = "data" => tn3270e
      BY <1>0, <1>3, <1>9
    <3> QED BY <1>3, <1>4, <2>1, <3>1, <3>2 DEF WriteTypes
  <2>3. AfterWill(hs)'
    <3>1. ASSUME NEW i \in DOMAIN hs, hs[i] = Cmd(WillE) PROVE WritingData'
      <4>1. hs[i].k = "cmd" /\ hs[i].v = WillE
        BY <3>1 DEF Cmd
      <4>2. WillE \in ValSet("cmd", hs)
        BY <4>1 DEF ValSet
      <4> QED BY <1>10, <4>2
    <3> QED BY <2>1, <3>1 DEF AfterWill, Few
  <2>4. (WillE \in ToSet(replies) => WillRead)'
    BY <1>4, <1>10, <2>1 DEF WillRead
  <2>5. PICK seen \in Seq(Record) : Parts(typed, seen, hm, Vals("rec", hs)) /\ WrittenBy(seen)
    BY DEF Holds, WriteInv
  <2>6. WrittenBy(seen)'
    BY <1>4, <1>5, <2>1, <2>5, TakenKept
  <2>7. DataMode => DataMode'
    BY <1>5, LaterMode
  <2> QED BY <1>4, <2>1, <2>2, <2>3, <2>4, <2>5, <2>6, <2>7 DEF WriteInv
<1>12. Carries(toClient', rec', cm, cs) /\ Carries(toHost', hostRec', hm, hs)
  BY <1>4 DEF Holds
<1> QED BY <1>6, <1>7, <1>8, <1>11, <1>12 DEF TelnetInv, Holds

LEMMA WillReadGrows ==
    ASSUME typed \in Seq(Record), ignored \in Nat, WillRead, NEW v \in Record, writing = <<v>>,
           typed' = Append(typed, v), writing' = <<>>, ignored' = ignored
    PROVE  WillRead'
<1>1. PICK n : n = Len(typed)
  OBVIOUS
<1>2. PICK t : t = Append(typed, v)
  OBVIOUS
<1>3. /\ n \in Nat /\ DOMAIN typed = 1 .. n /\ DOMAIN t = 1 .. n + 1 /\ t[n + 1] = v
      /\ \A k \in 1 .. n : t[k] = typed[k]
  BY <1>1, <1>2
<1>4. ASSUME NEW k \in 1 .. n + 1, k > ignored + 1 PROVE t[k][1] = "data"
  <2>1. CASE k = n + 1
    <3>1. n > ignored
      BY <1>3, <1>4, <2>1
    <3>2. writing # <<>> /\ writing[1] = v
      OBVIOUS
    <3> QED BY <1>1, <1>3, <2>1, <3>1, <3>2 DEF WillRead, WritingData
  <2>2. CASE k \in 1 .. n
    BY <1>3, <1>4, <2>2 DEF WillRead
  <2> QED BY <1>3, <2>1, <2>2
<1>5. WritingData'
  BY DEF WritingData
<1> QED BY <1>2, <1>3, <1>4, <1>5 DEF WillRead

LEMMA SendRecordKeeps ==
    ASSUME NEW cm, NEW cs, NEW hm, NEW hs, Holds(cm, cs, hm, hs), SendRecord
    PROVE  TelnetInv'
<1>0. PICK v \in Record : writing = <<v>>
  BY DEF Holds, WriteInv, WriteTypes, SendRecord
<1>1. typed' = Append(typed, v) /\ Carries(toHost', hostRec', hm, Append(hs, Rec(v)))
  BY <1>0, SendRecordItems DEF Holds
<1>2. /\ UNCHANGED NegVars /\ UNCHANGED <<host, useE, tn3270e, replies, asked, answered>>
      /\ UNCHANGED <<hostSent, got, ignored, hostGot, offered>>
      /\ toClient' = toClient /\ rec' = rec /\ writing' = <<>>
  BY DEF SendRecord, NegVars, hostVars
<1>3. Later
  BY <1>2, LaterSame
<1>4. hs \in Seq(Item) /\ hm \in Seq(Record)
  BY CarriesType, MType DEF Holds
<1>5. NegInv(cs, Append(hs, Rec(v)))'
  BY <1>1, <1>2, <1>4, RecAddedKeeps, NegKept DEF Holds
<1>6. OrderInv(cs, Append(hs, Rec(v)))'
  BY <1>1, <1>2, <1>4, RecAddedKeeps, OrderKept DEF Holds
<1>7. ReadInv(cm, cs)'
  BY <1>2, <1>3, ReadKept DEF Holds
<1>8. v[1] \in {"none", "data"} /\ (v[1] = "data" => tn3270e)
  <2>1. v \in ToSet(writing)
    BY <1>0 DEF ToSet
  <2> QED BY <2>1 DEF Holds, WriteInv, WriteTypes
<1>9. WriteInv(hm, Append(hs, Rec(v)))'
  <2>1. DataMode => DataMode'
    BY <1>3, LaterMode
  <2>2. /\ typed \in Seq(Record) /\ ignored \in Nat /\ (hostGot # <<>> => DataMode)
        /\ WriteTypes(hm, hs) /\ AfterWill(hs) /\ (WillE \in ToSet(replies) => WillRead)
    BY DEF Holds, WriteInv
  <2>3. WriteTypes(hm, Append(hs, Rec(v)))'
    <3>1. ValSet("rec", Append(hs, Rec(v))) \subseteq ValSet("rec", hs) \cup {v}
      BY <1>4, RecAddedKeeps
    <3>2. ToSet(writing') = {}
      BY <1>2 DEF ToSet
    <3> QED BY <1>2, <1>8, <2>2, <3>1, <3>2 DEF WriteTypes
  <2>4. AfterWill(Append(hs, Rec(v)))'
    <3>1. Rec(v) \in Item /\ Rec(v).v = v /\ Rec(v).k = "rec"
      BY ItemMade
    <3>2. v[1] = "data" \/ ~WritingData
      BY <1>0 DEF WritingData
    <3> QED BY <1>2, <1>4, <2>2, <3>1, <3>2, AfterWillGrows
  <2>5. PICK seen \in Seq(Record) : Parts(typed, seen, hm, Vals("rec", hs)) /\ WrittenBy(seen)
    BY DEF Holds, WriteInv
  <2>6. Parts(Append(typed, v), seen, hm, Vals("rec", Append(hs, Rec(v))))
    BY <1>4, <2>5, RecordGrows
  <2>7. WrittenBy(seen)'
    BY <1>2, <1>3, <2>2, <2>5, TakenKept
  <2>8. typed' \in Seq(Record)
    BY <1>1, <2>2
  <2>9. (WillE \in ToSet(replies) => WillRead)'
    BY <1>0, <1>1, <1>2, <2>2, WillReadGrows
  <2> QED BY <1>1, <1>2, <2>1, <2>2, <2>3, <2>4, <2>6, <2>7, <2>8, <2>9 DEF WriteInv
<1>10. Carries(toClient', rec', cm, cs)
  BY <1>2 DEF Holds
<1> QED BY <1>1, <1>5, <1>6, <1>7, <1>9, <1>10 DEF TelnetInv, Holds

LEMMA HostSendsKeeps ==
    ASSUME NEW cm, NEW cs, NEW hm, NEW hs, Holds(cm, cs, hm, hs), HostSends
    PROVE  TelnetInv'
<1>1. PICK v \in Record :
         /\ IF EMode THEN v[1] \in DataType ELSE v[1] = "none"
         /\ hostSent' = Append(hostSent, v)
         /\ Carries(toClient', rec', cm, Append(cs, Rec(v)))
  BY HostSendsItems DEF Holds
<1>2. /\ UNCHANGED NegVars /\ UNCHANGED <<host, useE, tn3270e, replies, asked, answered>>
      /\ UNCHANGED <<got, typed, writing, ignored, hostGot, offered>>
      /\ toHost' = toHost /\ hostRec' = hostRec /\ DataMode
  BY DEF HostSends, NegVars, clientVars
<1>3. Later
  BY <1>2, LaterSame
<1>4. cs \in Seq(Item) /\ cm \in Seq(Record)
  BY CarriesType, MType DEF Holds
<1>5. NegInv(Append(cs, Rec(v)), hs)'
  BY <1>1, <1>2, <1>4, RecAddedKeeps, NegKept DEF Holds
<1>6. OrderInv(Append(cs, Rec(v)), hs)'
  BY <1>1, <1>2, <1>4, RecAddedKeeps, OrderKept DEF Holds
<1>7. WriteInv(hm, hs)'
  BY <1>2, <1>3, WriteKept DEF Holds, WriteInv
<1>8. ReadInv(cm, Append(cs, Rec(v)))'
  <2>1. DataMode' /\ EHost' = EHost /\ Rejects' = Rejects
    BY <1>2, <1>3, LaterMode
  <2>2. hostSent \in Seq(Record) /\ got \in Seq(Payload)
    BY DEF Holds, ReadInv
  <2>3. IF EHost THEN v[1] \in DataType ELSE v[1] = "none"
    <3>1. EMode = EHost
      BY <1>2, Modes DEF Holds
    <3> QED BY <1>1, <3>1
  <2>4. ReadTypes(cm, Append(cs, Rec(v)))'
    <3>1. ReadTypes(cm, cs)
      BY DEF Holds, ReadInv
    <3>2. ValSet("rec", Append(cs, Rec(v))) \subseteq ValSet("rec", cs) \cup {v}
      BY <1>4, RecAddedKeeps
    <3> QED BY <2>1, <2>3, <3>1, <3>2 DEF ReadTypes
  <2>5. PICK seen \in Seq(Record) : Parts(hostSent, seen, cm, Vals("rec", cs)) /\ ReadBy(seen)
    BY DEF Holds, ReadInv
  <2>6. Parts(Append(hostSent, v), seen, cm, Vals("rec", Append(cs, Rec(v))))
    BY <1>4, <2>5, RecordGrows
  <2>7. ReadBy(seen)'
    BY <1>2, <2>1, <2>5 DEF ReadBy
  <2>8. hostSent' \in Seq(Record)
    BY <1>1, <2>2
  <2> QED BY <1>1, <1>2, <2>1, <2>2, <2>4, <2>6, <2>7, <2>8 DEF ReadInv
<1>9. Carries(toHost', hostRec', hm, hs)
  BY <1>2 DEF Holds
<1> QED BY <1>1, <1>5, <1>6, <1>7, <1>8, <1>9 DEF TelnetInv, Holds

-----------------------------------------------------------------------------
(* Items that are added and taken.                                         *)

LEMMA MatchesAppend ==
    ASSUME NEW S, NEW given \in Seq(S), NEW open \in Seq(S), NEW x \in S, NEW y \in S,
           Matches(given, open), x[1] \in Opposite(y[1]), x[2] = y[2]
    PROVE  Matches(Append(given, x), Append(open, y))
<1>1. PICK n : n = Len(given)
  OBVIOUS
<1>2. PICK g : g = Append(given, x)
  OBVIOUS
<1>3. PICK o : o = Append(open, y)
  OBVIOUS
<1>4. n \in Nat /\ Len(open) = n /\ \A i \in 1 .. n : given[i][1] \in Opposite(open[i][1]) /\ given[i][2] = open[i][2]
  BY <1>1 DEF Matches
<1>5. /\ Len(g) = n + 1 /\ DOMAIN g = 1 .. n + 1 /\ g[n + 1] = x
      /\ \A i \in 1 .. n : g[i] = given[i]
  BY <1>1, <1>2
<1>6. Len(o) = n + 1 /\ o[n + 1] = y /\ \A i \in 1 .. n : o[i] = open[i]
  BY <1>3, <1>4
<1>7. \A i \in 1 .. n + 1 : i = n + 1 \/ i \in 1 .. n
  BY <1>4
<1>8. \A i \in 1 .. n + 1 : g[i][1] \in Opposite(o[i][1]) /\ g[i][2] = o[i][2]
  BY <1>4, <1>5, <1>6, <1>7
<1> QED BY <1>2, <1>3, <1>5, <1>6, <1>8 DEF Matches

LEMMA OfferType == /\ (Command \X Option) \subseteq Value
                   /\ \A q \in Seq(Command \X Option) : q \in Seq(Value)
<1>1. (Command \X Option) \subseteq Value
  BY DEF Value
<1> QED BY <1>1

LEMMA CommandGrows ==
    ASSUME NEW q \in Seq(Command \X Option), NEW items \in Seq(Item), NEW x \in Command \X Option
    PROVE  Append(Cat(q, Vals("cmd", items)), x) = Cat(q, Vals("cmd", Append(items, Cmd(x))))
<1>1. Cmd(x) \in Item /\ Cmd(x).k = "cmd" /\ Cmd(x).v = x
  BY ItemMade
<1>2. Vals("cmd", Append(items, Cmd(x))) = Append(Vals("cmd", items), x)
  BY <1>1, ValsGrow
<1>3. PICK p : p = Vals("cmd", items)
  OBVIOUS
<1>4. p \in Seq(Value)
  BY <1>3, ValsChange
<1>5. q \in Seq(Value) /\ x \in Value
  BY OfferType
<1>6. Append(Cat(q, p), x) = Cat(q, Append(p, x))
  BY <1>4, <1>5, CatGrows
<1> QED BY <1>2, <1>3, <1>6

\* The order of offers and replies when the client handles offer v.
LEMMA OrderHandled ==
    ASSUME NEW cs \in Seq(Item), NEW hs \in Seq(Item), OrderInv(cs, hs), cs # <<>>, NEW v \in Command \X Option,
           Head(cs) = Cmd(v), NEW hs1, Answers(v, hs, hs1), UNCHANGED <<offered, replies>>,
           replies \in Seq(Command \X Option)
    PROVE  OrderInv(Tail(cs), hs1)'
<1>1. PICK seen \in Seq(Command \X Option) :
         /\ offered = Cat(seen, Vals("cmd", cs))
         /\ Matches(Cat(replies, Vals("cmd", hs)), Chosen(seen, Open))
  BY DEF OrderInv
<1>2. PICK w \in Seq(Value) : w = Vals("cmd", Tail(cs))
  BY ValsShrink
<1>3. Vals("cmd", cs) = Cat(<<v>>, w)
  <2>1. Head(cs).k = "cmd" /\ Head(cs).v = v
    BY DEF Cmd
  <2> QED BY <1>2, <2>1, ValsShrink
<1>4. PICK seen1 \in Seq(Command \X Option) : seen1 = Append(seen, v)
  BY AppendType
<1>5. seen \in Seq(Value) /\ v \in Value /\ replies \in Seq(Value)
  BY OfferType
<1>6. offered = Cat(seen1, Vals("cmd", Tail(cs)))
  <2>1. Cat(Append(seen, v), w) = Cat(seen, Cat(<<v>>, w))
    BY <1>5, CatMoves
  <2> QED BY <1>1, <1>2, <1>3, <1>4, <2>1
<1>7. PICK open \in Seq(Value) : open = Chosen(seen, Open)
  BY <1>5, ChosenType
<1>8. Chosen(seen1, Open) = IF v \in Open THEN Append(open, v) ELSE open
  <2>1. Chosen(seen1, Open) = open \o (IF v \in Open THEN <<v>> ELSE <<>>)
    BY <1>4, <1>7, ChosenAppend, SMTT(60)
  <2>2. open \o <<>> = open /\ Append(open, v) = open \o <<v>>
    BY <1>5, SeqFacts
  <2> QED BY <2>1, <2>2
<1>9. PICK given \in Seq(Value) : given = Cat(replies, Vals("cmd", hs))
  <2>1. Vals("cmd", hs) \in Seq(Value)
    BY ValsChange
  <2> QED BY <1>5, <2>1, CatAssociative
<1>10. CASE v \notin Open
  <2>1. hs1 = hs
    BY <1>10 DEF Answers
  <2>2. Matches(Cat(replies, Vals("cmd", hs1)), Chosen(seen1, Open))
    BY <1>1, <1>7, <1>8, <1>10, <2>1
  <2> QED BY <1>6, <2>2 DEF OrderInv
<1>11. CASE v \in Open
  <2>1. PICK x \in Command \X Option : x[1] \in Opposite(v[1]) /\ x[2] = v[2] /\ hs1 = Append(hs, Cmd(x))
    BY <1>11 DEF Answers
  <2>2. x \in Value
    BY OfferType
  <2>4. Append(given, x) = Cat(replies, Vals("cmd", hs1))
    BY <1>9, <2>1, CommandGrows
  <2>5. Matches(Append(given, x), Append(open, v))
    <3>1. Matches(given, open)
      BY <1>1, <1>7, <1>9
    <3> QED BY <1>5, <2>1, <2>2, <3>1, MatchesAppend
  <2>6. Matches(Cat(replies, Vals("cmd", hs1)), Chosen(seen1, Open))
    BY <1>8, <1>11, <2>4, <2>5
  <2> QED BY <1>6, <2>6 DEF OrderInv
<1> QED BY <1>10, <1>11

LEMMA OrderOffered ==
    ASSUME NEW cs \in Seq(Item), NEW hs, OrderInv(cs, hs), NEW v \in Command \X Option,
           offered' = Append(offered, v), replies' = replies
    PROVE  OrderInv(Append(cs, Cmd(v)), hs)'
<1>1. PICK seen \in Seq(Command \X Option) :
         /\ offered = Cat(seen, Vals("cmd", cs))
         /\ Matches(Cat(replies, Vals("cmd", hs)), Chosen(seen, Open))
  BY DEF OrderInv
<1>2. Append(Cat(seen, Vals("cmd", cs)), v) = Cat(seen, Vals("cmd", Append(cs, Cmd(v))))
  BY CommandGrows
<1>3. offered' = Cat(seen, Vals("cmd", Append(cs, Cmd(v))))
  BY <1>1, <1>2
<1> QED BY <1>1, <1>3 DEF OrderInv

LEMMA OrderReplied ==
    ASSUME NEW cs, NEW hs \in Seq(Item), OrderInv(cs, hs), hs # <<>>, NEW v \in Command \X Option,
           Head(hs) = Cmd(v), replies \in Seq(Command \X Option),
           replies' = Append(replies, v), offered' = offered
    PROVE  OrderInv(cs, Tail(hs))'
<1>1. PICK seen \in Seq(Command \X Option) :
         /\ offered = Cat(seen, Vals("cmd", cs))
         /\ Matches(Cat(replies, Vals("cmd", hs)), Chosen(seen, Open))
  BY DEF OrderInv
<1>2. PICK w \in Seq(Value) : w = Vals("cmd", Tail(hs))
  BY ValsShrink
<1>3. Vals("cmd", hs) = Cat(<<v>>, w)
  <2>1. Head(hs).k = "cmd" /\ Head(hs).v = v
    BY DEF Cmd
  <2> QED BY <1>2, <2>1, ValsShrink
<1>4. Cat(Append(replies, v), w) = Cat(replies, Cat(<<v>>, w))
  <2>1. replies \in Seq(Value) /\ v \in Value
    BY OfferType
  <2> QED BY <2>1, CatMoves
<1>5. Cat(replies', Vals("cmd", Tail(hs))) = Cat(replies, Vals("cmd", hs))
  BY <1>2, <1>3, <1>4
<1> QED BY <1>1, <1>5 DEF OrderInv

\* What an item that is no record or no command leaves as it was.
LEMMA OthersGrow ==
    ASSUME NEW items \in Seq(Item), NEW item \in Item, NEW k, item.k # k
    PROVE  Vals(k, Append(items, item)) = Vals(k, items) /\ ValSet(k, Append(items, item)) \subseteq ValSet(k, items)
<1>1. \A x \in Item : ValSet(k, Append(items, x)) \subseteq
                      ValSet(k, items) \cup (IF x.k = k THEN {x.v} ELSE {})
  BY ValSetChange
<1> QED BY <1>1, ValsGrow

LEMMA OthersShrink ==
    ASSUME NEW items \in Seq(Item), items # <<>>, NEW k
    PROVE  /\ Head(items).k # k => Vals(k, Tail(items)) = Vals(k, items)
           /\ ValSet(k, Tail(items)) \subseteq ValSet(k, items)
           /\ Head(items).k = k => Head(items).v \in ValSet(k, items)
<1>1. Head(items).k # k => Vals(k, Tail(items)) = Vals(k, items)
  BY ValsShrink
<1>2. ValSet(k, Tail(items)) \subseteq ValSet(k, items)
  BY ValSetChange
<1>3. Head(items).k = k => Head(items).v \in ValSet(k, items)
  BY ValSetChange
<1> QED BY <1>1, <1>2, <1>3

-----------------------------------------------------------------------------
(* The actions of the negotiation.                                         *)

\* What the client notes of offer v.
LEMMA Notes ==
    ASSUME NEW v, NEW f
    PROVE  /\ Agrees(v[1], v[2]) \subseteq Flag
           /\ v = <<"DO", "EOR">> => Agrees(v[1], v[2]) = {"eorOut"}
           /\ v = <<"WILL", "EOR">> => Agrees(v[1], v[2]) = {"eorIn"}
           /\ v = <<"DO", "BINARY">> => Agrees(v[1], v[2]) = {"binOut"}
           /\ v = <<"WILL", "BINARY">> => Agrees(v[1], v[2]) = {"binIn"}
           /\ f \in Agrees(v[1], v[2]) => \/ f = "eorOut" /\ v[1] = "DO" /\ v[2] = "EOR"
                                          \/ f = "eorIn" /\ v[1] = "WILL" /\ v[2] = "EOR"
                                          \/ f = "binOut" /\ v[1] = "DO" /\ v[2] = "BINARY"
                                          \/ f = "binIn" /\ v[1] = "WILL" /\ v[2] = "BINARY"
<1>1. Agrees(v[1], v[2]) \subseteq Flag
  BY DEF Agrees, Flag
<1>2. v = <<"DO", "EOR">> => Agrees(v[1], v[2]) = {"eorOut"}
  BY DEF Agrees
<1>3. v = <<"WILL", "EOR">> => Agrees(v[1], v[2]) = {"eorIn"}
  BY DEF Agrees
<1>4. v = <<"DO", "BINARY">> => Agrees(v[1], v[2]) = {"binOut"}
  BY DEF Agrees
<1>5. v = <<"WILL", "BINARY">> => Agrees(v[1], v[2]) = {"binIn"}
  BY DEF Agrees
<1>6. f \in Agrees(v[1], v[2]) => \/ f = "eorOut" /\ v[1] = "DO" /\ v[2] = "EOR"
                                  \/ f = "eorIn" /\ v[1] = "WILL" /\ v[2] = "EOR"
                                  \/ f = "binOut" /\ v[1] = "DO" /\ v[2] = "BINARY"
                                  \/ f = "binIn" /\ v[1] = "WILL" /\ v[2] = "BINARY"
  BY DEF Agrees
<1> QED BY <1>1, <1>2, <1>3, <1>4, <1>5, <1>6

\* Which offer a reply answers.
LEMMA Opposites ==
    ASSUME NEW v \in Open, NEW w \in Command \X Option, w[1] \in Opposite(v[1]), w[2] = v[2]
    PROVE  /\ w = <<"WILL", "EOR">> => v = <<"DO", "EOR">>
           /\ w = <<"DO", "EOR">> => v = <<"WILL", "EOR">>
           /\ w = <<"WILL", "BINARY">> => v = <<"DO", "BINARY">>
           /\ w = <<"DO", "BINARY">> => v = <<"WILL", "BINARY">>
           /\ w = WillE => v = OfferE
<1>1. v[1] \in {"DO", "WILL"} /\ v = <<v[1], v[2]>>
  BY DEF Open
<1>2. w[1] = "WILL" => v[1] = "DO"
  BY <1>1 DEF Opposite
<1>3. w[1] = "DO" => v[1] = "WILL"
  BY <1>1 DEF Opposite
<1> QED BY <1>1, <1>2, <1>3 DEF WillE, OfferE

LEMMA NegotiationNotes ==
    ASSUME NEW cs \in Seq(Item), NEW hs \in Seq(Item), NegInv(cs, hs), cs # <<>>, NEW v \in Offerable, Head(cs) = Cmd(v),
           v \in ToSet(offered), NEW hs1, Answers(v, hs, hs1),
           agreed' = agreed \cup Agrees(v[1], v[2]),
           tn3270e' = (tn3270e \/ (useE /\ v = OfferE)),
           mode3270' = (mode3270 \/ agreed' = Flag),
           UNCHANGED <<useE, host, offered, replies, asked, answered>>
    PROVE  NegInv(Tail(cs), hs1)'
<1>1. v \in Command \X Option
  BY OfferableCases
<1>2. /\ useE' = useE /\ host' = host /\ offered' = offered /\ replies' = replies
      /\ asked' = asked /\ answered' = answered
  OBVIOUS
<1>3. /\ ReplyReasons(hs) /\ ClientNotes /\ OfferOrder(cs) /\ SubReasons(cs, hs)
      /\ replies \in Seq(Command \X Option)
  BY DEF NegInv
<1>4. useE \in BOOLEAN /\ tn3270e \in BOOLEAN /\ agreed \subseteq agreed'
  BY <1>3 DEF ClientNotes
<1>5. ValSet("cmd", Tail(cs)) \subseteq ValSet("cmd", cs) /\ ValSet("sub", Tail(cs)) \subseteq ValSet("sub", cs)
  BY OthersShrink
<1>6. Rejected' = Rejected
  BY <1>2 DEF Rejected
<1>7. PICK w : \/ hs1 = hs
               \/ /\ v \in Open /\ w \in Command \X Option
                  /\ w[1] \in Opposite(v[1]) /\ w[2] = v[2]
                  /\ (w = WillE => useE) /\ (w = WontE => ~useE)
                  /\ hs1 = Append(hs, Cmd(w))
  BY DEF Answers
<1>8. ASSUME NEW x, x \in Given(hs1)'
      PROVE  \/ x \in Given(hs)
             \/ /\ v \in Open /\ x \in Command \X Option
                /\ x[1] \in Opposite(v[1]) /\ x[2] = v[2]
                /\ (x = WillE => useE) /\ (x = WontE => ~useE)
  <2>1. CASE hs1 = hs
    BY <1>2, <1>8, <2>1 DEF Given
  <2>2. CASE /\ v \in Open /\ w \in Command \X Option
             /\ w[1] \in Opposite(v[1]) /\ w[2] = v[2]
             /\ (w = WillE => useE) /\ (w = WontE => ~useE)
             /\ hs1 = Append(hs, Cmd(w))
    <3>1. Cmd(w) \in Item /\ Cmd(w).k = "cmd" /\ Cmd(w).v = w
      BY <2>2, ItemMade
    <3>2. ValSet("cmd", hs1) \subseteq ValSet("cmd", hs) \cup {w}
      <4>1. \A item \in Item : ValSet("cmd", Append(hs, item)) \subseteq
                               ValSet("cmd", hs) \cup (IF item.k = "cmd" THEN {item.v} ELSE {})
        BY ValSetChange
      <4> QED BY <2>2, <3>1, <4>1
    <3> QED BY <1>2, <1>8, <2>2, <3>2 DEF Given
  <2> QED BY <1>7, <2>1, <2>2
<1>9. ReplyReasons(hs1)'
  <2>1. <<"WILL", "EOR">> \in Given(hs1)' => "eorOut" \in agreed'
    <3>1. <<"WILL", "EOR">> \in Given(hs1)' => <<"WILL", "EOR">> \in Given(hs) \/ v = <<"DO", "EOR">>
      BY <1>8, Opposites
    <3>2. v = <<"DO", "EOR">> => "eorOut" \in agreed'
      BY Notes
    <3>3. <<"WILL", "EOR">> \in Given(hs) => "eorOut" \in agreed
      BY <1>3 DEF ReplyReasons
    <3> QED BY <1>4, <3>1, <3>2, <3>3
  <2>2. <<"DO", "EOR">> \in Given(hs1)' => "eorIn" \in agreed'
    <3>1. <<"DO", "EOR">> \in Given(hs1)' => <<"DO", "EOR">> \in Given(hs) \/ v = <<"WILL", "EOR">>
      BY <1>8, Opposites
    <3>2. v = <<"WILL", "EOR">> => "eorIn" \in agreed'
      BY Notes
    <3>3. <<"DO", "EOR">> \in Given(hs) => "eorIn" \in agreed
      BY <1>3 DEF ReplyReasons
    <3> QED BY <1>4, <3>1, <3>2, <3>3
  <2>3. <<"WILL", "BINARY">> \in Given(hs1)' => "binOut" \in agreed'
    <3>1. <<"WILL", "BINARY">> \in Given(hs1)' => <<"WILL", "BINARY">> \in Given(hs) \/ v = <<"DO", "BINARY">>
      BY <1>8, Opposites
    <3>2. v = <<"DO", "BINARY">> => "binOut" \in agreed'
      BY Notes
    <3>3. <<"WILL", "BINARY">> \in Given(hs) => "binOut" \in agreed
      BY <1>3 DEF ReplyReasons
    <3> QED BY <1>4, <3>1, <3>2, <3>3
  <2>4. <<"DO", "BINARY">> \in Given(hs1)' => "binIn" \in agreed'
    <3>1. <<"DO", "BINARY">> \in Given(hs1)' => <<"DO", "BINARY">> \in Given(hs) \/ v = <<"WILL", "BINARY">>
      BY <1>8, Opposites
    <3>2. v = <<"WILL", "BINARY">> => "binIn" \in agreed'
      BY Notes
    <3>3. <<"DO", "BINARY">> \in Given(hs) => "binIn" \in agreed
      BY <1>3 DEF ReplyReasons
    <3> QED BY <1>4, <3>1, <3>2, <3>3
  <2>5. WillE \in Given(hs1)' => tn3270e'
    BY <1>3, <1>4, <1>8, Opposites DEF ReplyReasons
  <2>6. WontE \in Given(hs1)' => ~useE'
    BY <1>2, <1>3, <1>8 DEF ReplyReasons
  <2> QED BY <2>1, <2>2, <2>3, <2>4, <2>5, <2>6 DEF ReplyReasons
<1>10. ClientNotes'
  <2>1. agreed' \subseteq Flag
    BY <1>3, Notes DEF ClientNotes
  <2>2. agreed' = Flag => mode3270'
    OBVIOUS
  <2>3. tn3270e' \in BOOLEAN /\ (tn3270e' => useE' /\ host' # "basic")
    <3>1. v = OfferE => host # "basic"
      BY <1>3 DEF OfferOrder
    <3> QED BY <1>2, <1>3, <1>4, <3>1 DEF ClientNotes
  <2>4. v = <<v[1], v[2]>>
    BY <1>1
  <2>5. Noted("eorOut", <<"DO", "EOR">>)'
    <3>1. "eorOut" \in Agrees(v[1], v[2]) => v = <<"DO", "EOR">>
      BY <2>4, Notes
    <3> QED BY <1>2, <1>3, <3>1 DEF ClientNotes, Noted
  <2>6. Noted("eorIn", <<"WILL", "EOR">>)'
    <3>1. "eorIn" \in Agrees(v[1], v[2]) => v = <<"WILL", "EOR">>
      BY <2>4, Notes
    <3> QED BY <1>2, <1>3, <3>1 DEF ClientNotes, Noted
  <2>7. Noted("binOut", <<"DO", "BINARY">>)'
    <3>1. "binOut" \in Agrees(v[1], v[2]) => v = <<"DO", "BINARY">>
      BY <2>4, Notes
    <3> QED BY <1>2, <1>3, <3>1 DEF ClientNotes, Noted
  <2>8. Noted("binIn", <<"WILL", "BINARY">>)'
    <3>1. "binIn" \in Agrees(v[1], v[2]) => v = <<"WILL", "BINARY">>
      BY <2>4, Notes
    <3> QED BY <1>2, <1>3, <3>1 DEF ClientNotes, Noted
  <2> QED BY <1>2, <1>4, <2>1, <2>2, <2>3, <2>5, <2>6, <2>7, <2>8 DEF ClientNotes
<1>11. OfferOrder(Tail(cs))'
  BY <1>2, <1>3, <1>5, <1>6 DEF OfferOrder
<1>12. SubReasons(Tail(cs), hs1)'
  <2>1. ValSet("sub", hs1) \subseteq ValSet("sub", hs)
    <3>1. CASE hs1 = hs
      BY <3>1
    <3>2. CASE w \in Command \X Option /\ hs1 = Append(hs, Cmd(w))
      <4>1. Cmd(w) \in Item /\ Cmd(w).k # "sub"
        BY <3>2, ItemMade
      <4> QED BY <3>2, <4>1, OthersGrow
    <3> QED BY <1>7, <3>1, <3>2
  <2> QED BY <1>2, <1>3, <1>5, <1>6, <2>1 DEF SubReasons
<1> QED BY <1>2, <1>3, <1>9, <1>10, <1>11, <1>12 DEF NegInv

LEMMA HandleNegotiationKeeps ==
    ASSUME NEW cm, NEW cs, NEW hm, NEW hs, Holds(cm, cs, hm, hs), HandleNegotiation
    PROVE  TelnetInv'
<1>1. PICK v, hs1 :
              /\ cm = <<>> /\ cs # <<>> /\ Head(cs) = Cmd(v)
              /\ v \in Offerable /\ v \in ToSet(offered)
              /\ Carries(toClient', rec', <<>>, Tail(cs)) /\ Carries(toHost', hostRec', hm, hs1)
              /\ Answers(v, hs, hs1)
              /\ agreed' = agreed \cup Agrees(v[1], v[2])
              /\ tn3270e' = (tn3270e \/ (useE /\ v = OfferE))
              /\ mode3270' = (mode3270 \/ agreed' = Flag)
  BY NegotiationItems DEF Holds
<1>2. /\ UNCHANGED <<useE, host, offered, replies, asked, answered>>
      /\ UNCHANGED <<hostSent, got, typed, writing, ignored, hostGot>>
  BY DEF HandleNegotiation, hostVars
<1>3. cs \in Seq(Item) /\ hs \in Seq(Item) /\ v \in Command \X Option
  BY <1>1, CarriesType, OfferableCases DEF Holds
<1>4. Later
  <2>1. tn3270e \in BOOLEAN
    BY DEF Holds, NegInv, ClientNotes
  <2> QED BY <1>1, <1>2, <2>1 DEF Later, Rejected
<1>5. NegInv(Tail(cs), hs1)'
  BY <1>1, <1>2, <1>3, NegotiationNotes DEF Holds
<1>6. OrderInv(Tail(cs), hs1)'
  <2>1. replies \in Seq(Command \X Option)
    BY DEF Holds, NegInv
  <2> QED BY <1>1, <1>2, <1>3, <2>1, OrderHandled DEF Holds
<1>7. ReadInv(cm, Tail(cs))'
  <2>1. Head(cs).k # "rec"
    BY <1>1 DEF Cmd
  <2>2. Vals("rec", Tail(cs)) = Vals("rec", cs) /\ ValSet("rec", Tail(cs)) \subseteq ValSet("rec", cs)
    BY <1>1, <1>3, <2>1, OthersShrink
  <2> QED BY <1>2, <1>4, <2>2, ReadKept DEF Holds
<1>8. WriteInv(hm, hs1)'
  <2>1. /\ Vals("rec", hs1) = Vals("rec", hs) /\ ValSet("rec", hs1) \subseteq ValSet("rec", hs)
        /\ AfterWill(hs1)
    <3>1. AfterWill(hs)
      BY DEF Holds, WriteInv
    <3>2. CASE hs1 = hs
      BY <3>1, <3>2
    <3>3. ASSUME NEW w \in Command \X Option, hs1 = Append(hs, Cmd(w))
          PROVE  /\ Vals("rec", hs1) = Vals("rec", hs) /\ ValSet("rec", hs1) \subseteq ValSet("rec", hs)
                 /\ AfterWill(hs1)
      <4>1. Cmd(w) \in Item /\ Cmd(w).k # "rec"
        BY ItemMade
      <4>2. AfterWill(Append(hs, Cmd(w)))
        BY <1>3, <3>1, <4>1, AfterWillGrows
      <4> QED BY <1>3, <3>3, <4>1, <4>2, OthersGrow
    <3> QED BY <1>1, <3>2, <3>3 DEF Answers
  <2> QED BY <1>2, <1>4, <2>1, WriteKept DEF Holds
<1> QED BY <1>1, <1>5, <1>6, <1>7, <1>8 DEF TelnetInv, Holds

LEMMA AcceptTn3270eKeeps ==
    ASSUME NEW cm, NEW cs, NEW hm, NEW hs, Holds(cm, cs, hm, hs), AcceptTn3270e
    PROVE  TelnetInv'
<1>1. PICK v \in Command \X Option : /\ useE /\ cs # <<>> /\ v[2] = "TN3270E" /\ v[1] \in {"DO", "WILL"}
                                     /\ Head(cs) = Cmd(v)
  BY AcceptTn3270eStep DEF Holds
<1>2. /\ UNCHANGED <<useE, agreed, mode3270, host, offered, replies, asked, answered>>
      /\ UNCHANGED <<hostSent, got, typed, writing, ignored, hostGot>>
      /\ UNCHANGED <<toClient, rec, toHost, hostRec>>
      /\ tn3270e' = TRUE
  BY DEF AcceptTn3270e, hostVars
<1>3. /\ ReplyReasons(hs) /\ ClientNotes /\ OfferOrder(cs) /\ SubReasons(cs, hs)
      /\ replies \in Seq(Command \X Option)
  BY DEF Holds, NegInv
<1>4. host # "basic"
  <2>1. v \in ValSet("cmd", cs)
    <3>1. cs \in Seq(Item)
      BY CarriesType DEF Holds
    <3>2. Head(cs).k = "cmd" /\ Head(cs).v = v
      BY <1>1 DEF Cmd
    <3> QED BY <1>1, <3>1, <3>2, OthersShrink
  <2>2. v \in ToSet(offered) /\ v \in Offerable
    BY <1>3, <2>1 DEF OfferOrder
  <2>3. v = OfferE
    BY <1>1, <2>2, OfferableCases DEF OfferE
  <2> QED BY <1>3, <2>2, <2>3 DEF OfferOrder
<1>5. Later
  BY <1>2 DEF Later, Rejected
<1>6. NegInv(cs, hs)'
  <2>1. Rejected' = Rejected /\ Given(hs)' = Given(hs)
    BY <1>2 DEF Rejected, Given
  <2>2. ReplyReasons(hs)'
    BY <1>2, <1>3, <2>1 DEF ReplyReasons
  <2>3. ClientNotes'
    BY <1>1, <1>2, <1>3, <1>4 DEF ClientNotes, Noted
  <2>4. OfferOrder(cs)'
    BY <1>2, <1>3, <2>1 DEF OfferOrder
  <2>5. SubReasons(cs, hs)'
    BY <1>2, <1>3, <2>1 DEF SubReasons
  <2> QED BY <1>2, <1>3, <2>2, <2>3, <2>4, <2>5 DEF NegInv
<1>7. OrderInv(cs, hs)'
  BY <1>2, OrderKept DEF Holds
<1>8. ReadInv(cm, cs)'
  BY <1>2, <1>5, ReadKept DEF Holds
<1>9. WriteInv(hm, hs)'
  BY <1>2, <1>5, WriteKept DEF Holds, WriteInv
<1>10. Carries(toClient', rec', cm, cs) /\ Carries(toHost', hostRec', hm, hs)
  BY <1>2 DEF Holds
<1> QED BY <1>6, <1>7, <1>8, <1>9, <1>10 DEF TelnetInv, Holds

LEMMA SubAddedKeeps ==
    ASSUME NEW items \in Seq(Item), NEW v \in Bodies
    PROVE  /\ Sbn(v) \in Item /\ Sbn(v).k = "sub"
           /\ \A k \in {"cmd", "rec"} : /\ Vals(k, Append(items, Sbn(v))) = Vals(k, items)
                                       /\ ValSet(k, Append(items, Sbn(v))) \subseteq ValSet(k, items)
           /\ ValSet("sub", Append(items, Sbn(v))) \subseteq ValSet("sub", items) \cup {v}
           /\ AfterWill(items) => AfterWill(Append(items, Sbn(v)))
<1>1. Sbn(v) \in Item /\ Sbn(v).k = "sub" /\ Sbn(v).v = v
  BY ItemMade
<1>2. ASSUME NEW k \in {"cmd", "rec"}
      PROVE  /\ Vals(k, Append(items, Sbn(v))) = Vals(k, items)
             /\ ValSet(k, Append(items, Sbn(v))) \subseteq ValSet(k, items)
  <2>1. Sbn(v).k # k
    BY <1>1
  <2> QED BY <1>1, <2>1, OthersGrow
<1>3. \A item \in Item : ValSet("sub", Append(items, item)) \subseteq
                         ValSet("sub", items) \cup (IF item.k = "sub" THEN {item.v} ELSE {})
  BY ValSetChange
<1>4. Sbn(v).k # "rec"
  BY <1>1
<1>5. AfterWill(items) => AfterWill(Append(items, Sbn(v)))
  BY <1>1, <1>4, AfterWillGrows
<1> QED BY <1>1, <1>2, <1>3, <1>5

LEMMA SubTakenKeeps ==
    ASSUME NEW items \in Seq(Item), items # <<>>, NEW v, Head(items) = Sbn(v)
    PROVE  /\ \A k \in {"cmd", "rec"} : Vals(k, Tail(items)) = Vals(k, items)
           /\ \A k : ValSet(k, Tail(items)) \subseteq ValSet(k, items)
           /\ v \in ValSet("sub", items)
<1>1. Head(items).k = "sub" /\ Head(items).v = v
  BY DEF Sbn
<1>2. ASSUME NEW k \in {"cmd", "rec"} PROVE Vals(k, Tail(items)) = Vals(k, items)
  <2>1. Head(items).k # k
    BY <1>1
  <2> QED BY <2>1, OthersShrink
<1>3. \A k : ValSet(k, Tail(items)) \subseteq ValSet(k, items)
  BY OthersShrink
<1>4. v \in ValSet("sub", items)
  BY <1>1, OthersShrink
<1> QED BY <1>2, <1>3, <1>4

\* A subnegotiation more, or one less, about what has its reasons.
LEMMA NegSubs ==
    ASSUME NEW cs, NEW hs, NEW cs1, NEW hs1, NegInv(cs, hs),
           UNCHANGED <<useE, tn3270e, agreed, mode3270, host, offered, replies>>,
           ValSet("cmd", cs1) \subseteq ValSet("cmd", cs), ValSet("cmd", hs1) \subseteq ValSet("cmd", hs),
           asked \subseteq asked', SubReasons(cs1, hs1)'
    PROVE  NegInv(cs1, hs1)'
<1>1. /\ useE' = useE /\ tn3270e' = tn3270e /\ agreed' = agreed /\ mode3270' = mode3270
      /\ host' = host /\ offered' = offered /\ replies' = replies
  OBVIOUS
<1>2. Given(hs1)' \subseteq Given(hs)
  BY <1>1 DEF Given
<1>3. ReplyReasons(hs1)'
  BY <1>1, <1>2 DEF NegInv, ReplyReasons
<1>4. ClientNotes'
  BY <1>1 DEF NegInv, ClientNotes, Noted
<1>5. Rejected => Rejected'
  BY DEF Rejected
<1>6. OfferOrder(cs1)'
  BY <1>1, <1>5 DEF NegInv, OfferOrder
<1> QED BY <1>1, <1>3, <1>4, <1>6 DEF NegInv

LEMMA HandleSubnegotiationKeeps ==
    ASSUME NEW cm, NEW cs, NEW hm, NEW hs, Holds(cm, cs, hm, hs), HandleSubnegotiation
    PROVE  TelnetInv'
<1>1. PICK v, hs1 : /\ v \in Bodies /\ cm = <<>> /\ cs # <<>> /\ Head(cs) = Sbn(v)
                    /\ Carries(toClient', rec', <<>>, Tail(cs)) /\ Carries(toHost', hostRec', hm, hs1)
                    /\ SubAnswers(v, hs, hs1)
  BY SubnegotiationItems DEF Holds
<1>2. /\ UNCHANGED <<useE, tn3270e, agreed, mode3270, host, offered, replies>>
      /\ UNCHANGED <<host, useE, tn3270e, replies, asked, answered>>
      /\ UNCHANGED <<hostSent, got, typed, writing, ignored, hostGot, offered>>
  BY DEF HandleSubnegotiation, clientVars, hostVars
<1>3. cs \in Seq(Item) /\ hs \in Seq(Item)
  BY CarriesType DEF Holds
<1>4. Later
  BY <1>2, LaterSame
<1>5. /\ Vals("cmd", Tail(cs)) = Vals("cmd", cs) /\ Vals("rec", Tail(cs)) = Vals("rec", cs)
      /\ \A k : ValSet(k, Tail(cs)) \subseteq ValSet(k, cs)
      /\ v \in ValSet("sub", cs)
  BY <1>1, <1>3, SubTakenKeeps
<1>6. /\ Vals("cmd", hs1) = Vals("cmd", hs) /\ Vals("rec", hs1) = Vals("rec", hs)
      /\ ValSet("cmd", hs1) \subseteq ValSet("cmd", hs) /\ ValSet("rec", hs1) \subseteq ValSet("rec", hs)
      /\ \A b \in ValSet("sub", hs1) : b \in ValSet("sub", hs) \/ b[1] = v[1]
      /\ AfterWill(hs1)
  <2>1. AfterWill(hs)
    BY DEF Holds, WriteInv
  <2>2. CASE hs1 = hs
    BY <2>1, <2>2
  <2>3. ASSUME NEW w \in Bodies, w[1] = v[1], hs1 = Append(hs, Sbn(w))
        PROVE  /\ Vals("cmd", hs1) = Vals("cmd", hs) /\ Vals("rec", hs1) = Vals("rec", hs)
               /\ ValSet("cmd", hs1) \subseteq ValSet("cmd", hs) /\ ValSet("rec", hs1) \subseteq ValSet("rec", hs)
               /\ \A b \in ValSet("sub", hs1) : b \in ValSet("sub", hs) \/ b[1] = v[1]
               /\ AfterWill(hs1)
    <3>1. \A k \in {"cmd", "rec"} : Vals(k, hs1) = Vals(k, hs) /\ ValSet(k, hs1) \subseteq ValSet(k, hs)
      BY <1>3, <2>3, SubAddedKeeps
    <3>2. ValSet("sub", hs1) \subseteq ValSet("sub", hs) \cup {w}
      BY <1>3, <2>3, SubAddedKeeps
    <3>3. AfterWill(hs1)
      BY <1>3, <2>1, <2>3, SubAddedKeeps
    <3> QED BY <2>3, <3>1, <3>2, <3>3
  <2> QED BY <1>1, <2>2, <2>3 DEF SubAnswers
<1>7. NegInv(Tail(cs), hs1)'
  <2>1. SubReasons(cs, hs)
    BY DEF Holds, NegInv
  <2>2. SubReasons(Tail(cs), hs1)'
    <3>1. \A b \in ValSet("sub", Tail(cs)) \cup ValSet("sub", hs1) :
             b[1] = "TN3270E" => WillE \in ToSet(replies)
      BY <1>5, <1>6, <2>1 DEF SubReasons
    <3> QED BY <1>2, <2>1, <3>1 DEF SubReasons, Rejected
  <2>3. asked \subseteq asked'
    BY <1>2
  <2> QED BY <1>2, <1>5, <1>6, <2>2, <2>3, NegSubs DEF Holds
<1>8. OrderInv(Tail(cs), hs1)'
  BY <1>2, <1>5, <1>6, OrderKept DEF Holds
<1>9. ReadInv(cm, Tail(cs))'
  BY <1>2, <1>4, <1>5, ReadKept DEF Holds
<1>10. WriteInv(hm, hs1)'
  BY <1>2, <1>4, <1>6, WriteKept DEF Holds
<1> QED BY <1>1, <1>7, <1>8, <1>9, <1>10 DEF TelnetInv, Holds

LEMMA HostOffersKeeps ==
    ASSUME NEW cm, NEW cs, NEW hm, NEW hs, Holds(cm, cs, hm, hs), HostOffers
    PROVE  TelnetInv'
<1>1. PICK v \in Offerable :
              /\ offered' = Append(offered, v)
              /\ (host = "basic" => v # OfferE)
              /\ (v # OfferE => host = "basic" \/ WontE \in ToSet(replies) \/ Rejected)
              /\ Carries(toClient', rec', cm, Append(cs, Cmd(v)))
  BY HostOffersItems DEF Holds
<1>2. /\ UNCHANGED <<host, useE, tn3270e, replies, asked, answered>>
      /\ UNCHANGED <<hostSent, got, typed, writing, ignored, hostGot, agreed, mode3270>>
      /\ toHost' = toHost /\ hostRec' = hostRec
  BY DEF HostOffers, clientVars
<1>3. cs \in Seq(Item) /\ hs \in Seq(Item) /\ v \in Command \X Option
  BY <1>1, CarriesType, OfferableCases DEF Holds
<1>4. Later
  BY <1>2, LaterSame
<1>5. Cmd(v) \in Item /\ Cmd(v).k = "cmd" /\ Cmd(v).v = v
  BY <1>3, ItemMade
<1>6. /\ Vals("rec", Append(cs, Cmd(v))) = Vals("rec", cs)
      /\ ValSet("rec", Append(cs, Cmd(v))) \subseteq ValSet("rec", cs)
      /\ ValSet("sub", Append(cs, Cmd(v))) \subseteq ValSet("sub", cs)
      /\ ValSet("cmd", Append(cs, Cmd(v))) \subseteq ValSet("cmd", cs) \cup {v}
  <2>1. Cmd(v).k # "rec" /\ Cmd(v).k # "sub"
    BY <1>5
  <2>2. \A item \in Item : ValSet("cmd", Append(cs, item)) \subseteq
                           ValSet("cmd", cs) \cup (IF item.k = "cmd" THEN {item.v} ELSE {})
    BY <1>3, ValSetChange
  <2> QED BY <1>3, <1>5, <2>1, <2>2, OthersGrow
<1>7. NegInv(Append(cs, Cmd(v)), hs)'
  <2>1. /\ useE' = useE /\ tn3270e' = tn3270e /\ agreed' = agreed /\ mode3270' = mode3270
        /\ host' = host /\ replies' = replies /\ asked' = asked /\ answered' = answered
    BY <1>2
  <2>2. /\ ReplyReasons(hs) /\ ClientNotes /\ OfferOrder(cs) /\ SubReasons(cs, hs)
        /\ replies \in Seq(Command \X Option)
    BY DEF Holds, NegInv
  <2>3. ToSet(offered') = ToSet(offered) \cup {v} /\ offered' \in Seq(Command \X Option)
    <3>1. offered \in Seq(Command \X Option)
      BY <2>2 DEF OfferOrder
    <3>2. ToSet(Append(offered, v)) = ToSet(offered) \cup {v}
      BY <1>3, <3>1, ToSetFacts
    <3>3. Append(offered, v) \in Seq(Command \X Option)
      BY <1>3, <3>1, AppendType
    <3> QED BY <1>1, <3>2, <3>3
  <2>4. Rejected' = Rejected
    BY <2>1 DEF Rejected
  <2>5. ReplyReasons(hs)'
    BY <2>1, <2>2 DEF ReplyReasons, Given
  <2>6. ClientNotes'
    BY <2>1, <2>2, <2>3 DEF ClientNotes, Noted
  <2>7. OfferOrder(Append(cs, Cmd(v)))'
    BY <1>1, <1>6, <2>1, <2>2, <2>3, <2>4 DEF OfferOrder
  <2>8. SubReasons(Append(cs, Cmd(v)), hs)'
    BY <1>6, <2>1, <2>2, <2>4 DEF SubReasons
  <2> QED BY <2>1, <2>2, <2>5, <2>6, <2>7, <2>8 DEF NegInv
<1>8. OrderInv(Append(cs, Cmd(v)), hs)'
  BY <1>1, <1>2, <1>3, OrderOffered DEF Holds
<1>9. ReadInv(cm, Append(cs, Cmd(v)))'
  BY <1>2, <1>4, <1>6, ReadKept DEF Holds
<1>10. WriteInv(hm, hs)'
  BY <1>2, <1>4, WriteKept DEF Holds, WriteInv
<1>11. Carries(toHost', hostRec', hm, hs)
  BY <1>2 DEF Holds
<1> QED BY <1>1, <1>7, <1>8, <1>9, <1>10, <1>11 DEF TelnetInv, Holds

LEMMA HostAsksKeeps ==
    ASSUME NEW cm, NEW cs, NEW hm, NEW hs, Holds(cm, cs, hm, hs), HostAsks
    PROVE  TelnetInv'
<1>1. PICK sub \in Sub, v \in Bodies :
              /\ asked' = asked \cup {sub}
              /\ (v[1] = "TN3270E" \/ sub # "ttype_send" => WillE \in ToSet(replies))
              /\ (sub = "e_reject" => host = "rejects")
              /\ Carries(toClient', rec', cm, Append(cs, Sbn(v)))
  BY HostAsksItems DEF Holds
<1>2. /\ UNCHANGED <<useE, tn3270e, agreed, mode3270, host, offered, replies>>
      /\ UNCHANGED <<hostSent, got, typed, writing, ignored, hostGot, answered>>
      /\ toHost' = toHost /\ hostRec' = hostRec
  BY DEF HostAsks, clientVars
<1>3. cs \in Seq(Item) /\ hs \in Seq(Item)
  BY CarriesType DEF Holds
<1>4. SubReasons(cs, hs) /\ ReplyReasons(hs) /\ ClientNotes
  BY DEF Holds, NegInv
<1>5. Later
  <2>1. DataMode => Rejected' = Rejected
    <3>1. CASE sub = "e_reject"
      <4>1. host = "rejects" /\ WillE \in ToSet(replies)
        BY <1>1, <3>1
      <4>2. useE
        BY <1>4, <4>1 DEF ReplyReasons, Given, ClientNotes
      <4>3. DataMode => Rejected = Rejects
        BY Modes DEF Holds
      <4>4. Rejected' = TRUE
        BY <1>1, <3>1 DEF Rejected
      <4>5. Rejects = TRUE
        BY <4>1, <4>2, <1>4 DEF Rejects, ClientNotes
      <4> QED BY <4>3, <4>4, <4>5
    <3>2. CASE sub # "e_reject"
      BY <1>1, <3>2 DEF Rejected
    <3> QED BY <3>1, <3>2
  <2> QED BY <1>1, <1>2, <2>1 DEF Later
<1>6. /\ Vals("cmd", Append(cs, Sbn(v))) = Vals("cmd", cs) /\ Vals("rec", Append(cs, Sbn(v))) = Vals("rec", cs)
      /\ ValSet("cmd", Append(cs, Sbn(v))) \subseteq ValSet("cmd", cs)
      /\ ValSet("rec", Append(cs, Sbn(v))) \subseteq ValSet("rec", cs)
      /\ ValSet("sub", Append(cs, Sbn(v))) \subseteq ValSet("sub", cs) \cup {v}
  BY <1>3, SubAddedKeeps
<1>7. NegInv(Append(cs, Sbn(v)), hs)'
  <2>1. SubReasons(Append(cs, Sbn(v)), hs)'
    <3>1. \A b \in ValSet("sub", Append(cs, Sbn(v))) \cup ValSet("sub", hs) :
             b[1] = "TN3270E" => WillE \in ToSet(replies)
      BY <1>1, <1>4, <1>6 DEF SubReasons
    <3>2. \A s \in {"e_send", "e_is", "e_reject"} : s \in asked' => WillE \in ToSet(replies)
      BY <1>1, <1>4 DEF SubReasons
    <3>3. "e_reject" \in asked' => host = "rejects"
      BY <1>1, <1>4 DEF SubReasons, Rejected
    <3> QED BY <1>2, <1>4, <3>1, <3>2, <3>3 DEF SubReasons, Rejected
  <2>2. asked \subseteq asked'
    BY <1>1
  <2>3. ValSet("cmd", hs) \subseteq ValSet("cmd", hs)
    OBVIOUS
  <2> QED BY <1>2, <1>6, <2>1, <2>2, <2>3, NegSubs DEF Holds
<1>8. OrderInv(Append(cs, Sbn(v)), hs)'
  BY <1>2, <1>6, OrderKept DEF Holds
<1>9. ReadInv(cm, Append(cs, Sbn(v)))'
  BY <1>2, <1>5, <1>6, ReadKept DEF Holds
<1>10. WriteInv(hm, hs)'
  BY <1>2, <1>5, WriteKept DEF Holds, WriteInv
<1>11. Carries(toHost', hostRec', hm, hs)
  BY <1>2 DEF Holds
<1> QED BY <1>1, <1>7, <1>8, <1>9, <1>10, <1>11 DEF TelnetInv, Holds

-----------------------------------------------------------------------------
(* What the host reads.                                                    *)

LEMMA HostByteKeeps ==
    ASSUME NEW cm, NEW cs, NEW hm, NEW hs, Holds(cm, cs, hm, hs), HostReads, HostByte(hm, hs)
    PROVE  TelnetInv'
<1>1. PICK v, hs1 : Begun(hm, hs, v, hs1) /\ Carries(toHost', hostRec', <<v>>, hs1)
  BY DEF HostByte
<1>2. /\ UNCHANGED NegVars /\ UNCHANGED <<host, useE, tn3270e, replies, asked, answered>>
      /\ UNCHANGED <<hostSent, got, typed, writing, ignored, hostGot, offered>>
      /\ toClient' = toClient /\ rec' = rec
  BY DEF HostReads, HostByte, NegVars, clientVars
<1>3. Later
  BY <1>2, LaterSame
<1>4. hs \in Seq(Item)
  BY CarriesType DEF Holds
<1>5. NegInv(cs, hs1)'
  BY <1>1, <1>2, <1>4, BegunKeeps, NegKept DEF Holds
<1>6. OrderInv(cs, hs1)'
  <2>1. Vals("cmd", hs1) = Vals("cmd", hs)
    BY <1>1, <1>4, BegunKeeps
  <2> QED BY <1>2, <2>1, OrderKept DEF Holds
<1>7. ReadInv(cm, cs)'
  BY <1>2, <1>3, ReadKept DEF Holds
<1>8. WriteInv(<<v>>, hs1)'
  <2>1. DataMode => DataMode'
    BY <1>3, LaterMode
  <2>2. /\ typed \in Seq(Record) /\ ignored \in Nat /\ (hostGot # <<>> => DataMode)
        /\ WriteTypes(hm, hs) /\ AfterWill(hs) /\ (WillE \in ToSet(replies) => WillRead)
    BY DEF Holds, WriteInv
  <2>3. WriteTypes(<<v>>, hs1)'
    <3>1. ValSet("rec", hs1) \cup ToSet(<<v>>) \subseteq ValSet("rec", hs) \cup ToSet(hm)
      BY <1>1, <1>4, BegunTypes
    <3> QED BY <1>2, <2>2, <3>1 DEF WriteTypes
  <2>4. AfterWill(hs1)'
    <3>1. AfterWill(hs1)
      BY <1>1, <1>4, <2>2, BegunTypes
    <3> QED BY <1>2, <3>1 DEF AfterWill, Few, WritingData
  <2>5. PICK seen \in Seq(Record) : Parts(typed, seen, hm, Vals("rec", hs)) /\ WrittenBy(seen)
    BY DEF Holds, WriteInv
  <2>6. Parts(typed, seen, <<v>>, Vals("rec", hs1))
    BY <1>1, <1>4, <2>5, RecordMoves
  <2>7. WrittenBy(seen)'
    BY <1>2, <1>3, <2>2, <2>5, TakenKept
  <2>8. (WillE \in ToSet(replies) => WillRead)'
    BY <1>2, <2>2 DEF WillRead, WritingData
  <2> QED BY <1>2, <2>1, <2>2, <2>3, <2>4, <2>6, <2>7, <2>8 DEF WriteInv
<1>9. Carries(toClient', rec', cm, cs)
  BY <1>2 DEF Holds
<1> QED BY <1>1, <1>5, <1>6, <1>7, <1>8, <1>9 DEF TelnetInv, Holds

\* A host that takes records of TN3270E has read the reply.
LEMMA InDataMode ==
    ASSUME NEW cs, NEW hs, NegInv(cs, hs), DataMode
    PROVE  /\ TakesE => WillE \in ToSet(replies)
           /\ tn3270e = TakesE /\ EMode = EHost /\ Rejected = Rejects
<1>1. EMode = EHost /\ Rejected = Rejects /\ tn3270e = (EHost \/ Rejects)
  BY Modes
<1>2. EMode => WillE \in ToSet(replies)
  BY DEF NegInv, SubReasons, EMode
<1>3. Rejected => WillE \in ToSet(replies)
  BY DEF NegInv, SubReasons, Rejected
<1> QED BY <1>1, <1>2, <1>3 DEF TakesE

\* What the host makes of the record it has read.
LEMMA RecordTaken ==
    ASSUME NEW cs, NEW hs, NegInv(cs, hs), DataMode, NEW v \in Record, hostRec = Content(v),
           v[1] \in {"none", "data"}, v[1] = "data" => tn3270e,
           NEW i, WillE \in ToSet(replies) /\ v[1] = "none" => i = 1
    PROVE  \E x \in Seq(Byte) :
              /\ x = (IF EMode THEN SubSeq(hostRec, 6, Len(hostRec)) ELSE hostRec)
              /\ Taken(i, x, v)
<1>1. PICK p \in Seq(Byte) : p = v[2]
  BY HeaderType0
<1>2. Header("none") = <<>> /\ <<>> \o p = p
  BY SeqFacts DEF Header
<1>3. /\ TakesE => WillE \in ToSet(replies)
      /\ tn3270e = TakesE /\ EMode = EHost /\ Rejected = Rejects
  BY InDataMode
<1>4. ~ (EMode /\ Rejected)
  BY <1>3 DEF EHost, Rejects
<1>5. CASE v[1] = "none"
  <2>1. hostRec = p
    BY <1>1, <1>5, ContentFacts
  <2>2. CASE EMode
    <3>1. SubSeq(p, 6, Len(p)) \in Seq(Byte)
      OBVIOUS
    <3>2. TakesE /\ i = 1 /\ ~Rejected
      BY <1>3, <1>4, <1>5, <2>2 DEF TakesE
    <3>3. Taken(i, SubSeq(p, 6, Len(p)), v)
      BY <1>1, <1>5, <3>2 DEF Taken
    <3> QED BY <2>1, <2>2, <3>1, <3>3
  <2>3. CASE Rejected
    <3>1. TakesE /\ i = 1
      BY <1>3, <1>5, <2>3 DEF TakesE
    <3>2. Taken(i, p, v)
      BY <1>1, <1>5, <2>3, <3>1 DEF Taken
    <3> QED BY <1>4, <2>1, <2>3, <3>2
  <2>4. CASE ~EMode /\ ~Rejected
    <3>1. ~TakesE
      BY <1>3, <2>4 DEF TakesE
    <3>2. Taken(i, p, v)
      BY <1>1, <1>2, <2>4, <3>1 DEF Taken
    <3> QED BY <2>1, <2>4, <3>2
  <2> QED BY <2>2, <2>3, <2>4
<1>6. CASE v[1] = "data"
  <2>1. TakesE /\ v[1] # "none"
    BY <1>3, <1>6
  <2>2. CASE EMode
    <3>1. SubSeq(hostRec, 6, Len(hostRec)) = p
      BY <1>1, <2>1, ContentFacts
    <3>2. Taken(i, p, v)
      BY <1>1, <1>2, <1>4, <2>1, <2>2 DEF Taken
    <3> QED BY <2>2, <3>1, <3>2
  <2>3. CASE ~EMode
    <3>1. Rejected
      BY <1>3, <2>1, <2>3 DEF TakesE
    <3>2. Content(v) = Header("data") \o v[2]
      BY <1>6 DEF Content
    <3>3. Content(v) \in Seq(Byte)
      BY HeaderType0
    <3>4. Taken(i, Content(v), v)
      BY <2>1, <3>1, <3>2 DEF Taken
    <3> QED BY <2>3, <3>3, <3>4
  <2> QED BY <2>2, <2>3
<1> QED BY <1>5, <1>6

\* A sequence made of two: its length, its elements, and one that is empty.
LEMMA TwoParts ==
    ASSUME NEW S, NEW a \in Seq(S), NEW b \in Seq(S), NEW c, c = Cat(a, b)
    PROVE  /\ c \in Seq(S) /\ Len(c) = Len(a) + Len(b) /\ Len(a) \in Nat /\ Len(b) \in Nat
           /\ \A i \in 1 .. Len(a) : c[i] = a[i]
           /\ b = <<>> => Len(c) = Len(a)
<1>1. /\ c \in Seq(S) /\ Len(c) = Len(a) + Len(b) /\ Len(a) \in Nat /\ Len(b) \in Nat
      /\ \A i \in 1 .. Len(a) : c[i] = a[i]
  BY DEF Cat
<1>2. b = <<>> => Len(b) = 0
  OBVIOUS
<1> QED BY <1>1, <1>2

\* Where the record a host reads stands in what the terminal typed.
LEMMA TypedAt ==
    ASSUME NEW seen \in Seq(Record), NEW v \in Record, NEW w \in Seq(Value),
           typed = Append(seen, v) \o w
    PROVE  /\ Len(seen) \in Nat /\ Len(typed) = Len(seen) + 1 + Len(w) /\ Len(w) \in Nat
           /\ typed[Len(seen) + 1] = v /\ Len(seen) + 1 \in DOMAIN typed
<1>1. PICK a : a = Append(seen, v)
  OBVIOUS
<1>2. PICK n : n = Len(seen)
  OBVIOUS
<1>3. a \in Seq(Value) /\ Len(a) = n + 1 /\ a[n + 1] = v /\ n \in Nat
  <2>1. seen \in Seq(Value) /\ v \in Value
    BY RecordType
  <2> QED BY <1>1, <1>2, <2>1
<1>4. /\ typed \in Seq(Value) /\ Len(typed) = Len(a) + Len(w) /\ Len(w) \in Nat
      /\ \A i \in 1 .. Len(a) : typed[i] = a[i]
  <2>1. typed = Cat(a, w)
    BY <1>1 DEF Cat
  <2> QED BY <1>3, <2>1, TwoParts, SMTT(60)
<1>5. DOMAIN typed = 1 .. Len(typed)
  BY <1>4, SeqFacts
<1>6. n + 1 \in 1 .. Len(a) /\ n + 1 \in 1 .. Len(typed)
  BY <1>3, <1>4
<1> QED BY <1>2, <1>3, <1>4, <1>5, <1>6

LEMMA OnlyFirst ==
    ASSUME NEW seen \in Seq(Record), NEW v \in Record, NEW w \in Seq(Value),
           typed = Append(seen, v) \o w, ignored \in Nat, hostGot \in Seq(Seq(Byte)),
           ignored + Len(hostGot) = Len(seen), WillRead, v[1] = "none"
    PROVE  Len(hostGot) + 1 = 1
<1>1. PICK n : n = Len(hostGot)
  OBVIOUS
<1>2. PICK m : m = Len(seen)
  OBVIOUS
<1>3. n \in Nat /\ m \in Nat /\ ignored + n = m
  <2>1. n \in Nat
    BY <1>1, SeqFacts
  <2> QED BY <1>1, <1>2, <2>1, TypedAt
<1>4. typed[m + 1] = v /\ m + 1 \in DOMAIN typed
  BY <1>2, TypedAt
<1>5. ~ (m + 1 > ignored + 1)
  BY <1>4 DEF WillRead
<1>6. n = 0
  BY <1>3, <1>5
<1> QED BY <1>1, <1>6

LEMMA HostEndKeeps ==
    ASSUME NEW cm, NEW cs, NEW hm, NEW hs, Holds(cm, cs, hm, hs), HostReads, HostEnd(hm, hs)
    PROVE  TelnetInv'
<1>1. PICK v, hs1 : /\ Begun(hm, hs, v, hs1) /\ hostRec = Content(v)
                    /\ Carries(toHost', hostRec', <<>>, hs1)
  BY DEF HostEnd
<1>2. /\ UNCHANGED NegVars /\ UNCHANGED <<host, useE, tn3270e, replies, asked, answered>>
      /\ UNCHANGED <<hostSent, got, typed, writing, offered>>
      /\ toClient' = toClient /\ rec' = rec
  BY DEF HostReads, HostEnd, NegVars, clientVars
<1>3. Later
  BY <1>2, LaterSame
<1>4. hs \in Seq(Item)
  BY CarriesType DEF Holds
<1>5. NegInv(cs, hs1)'
  BY <1>1, <1>2, <1>4, BegunKeeps, NegKept DEF Holds
<1>6. OrderInv(cs, hs1)'
  <2>1. Vals("cmd", hs1) = Vals("cmd", hs)
    BY <1>1, <1>4, BegunKeeps
  <2> QED BY <1>2, <2>1, OrderKept DEF Holds
<1>7. ReadInv(cm, cs)'
  BY <1>2, <1>3, ReadKept DEF Holds
<1>8. WriteInv(<<>>, hs1)'
  <2>1. /\ DataMode => DataMode'
        /\ Rejected' = Rejected /\ EHost' = EHost /\ Rejects' = Rejects
    BY <1>2, <1>3, LaterMode DEF Rejected
  <2>2. /\ typed \in Seq(Record) /\ ignored \in Nat /\ (hostGot # <<>> => DataMode)
        /\ WriteTypes(hm, hs) /\ AfterWill(hs) /\ (WillE \in ToSet(replies) => WillRead)
    BY DEF Holds, WriteInv
  <2>3. WriteTypes(<<>>, hs1)'
    <3>1. ValSet("rec", hs1) \cup ToSet(<<>>) \subseteq ValSet("rec", hs) \cup ToSet(hm)
      BY <1>1, <1>4, BegunTypes
    <3> QED BY <1>2, <2>2, <3>1 DEF WriteTypes
  <2>4. AfterWill(hs1)'
    <3>1. AfterWill(hs1)
      BY <1>1, <1>4, <2>2, BegunTypes
    <3> QED BY <1>2, <3>1 DEF AfterWill, Few, WritingData
  <2>5. PICK seen \in Seq(Record) : Parts(typed, seen, hm, Vals("rec", hs)) /\ WrittenBy(seen)
    BY DEF Holds, WriteInv
  <2>6. Parts(typed, Append(seen, v), <<>>, Vals("rec", hs1)) /\ Append(seen, v) \in Seq(Record)
    BY <1>1, <1>4, <2>5, RecordMoves
  <2>7. v \in Record /\ hs1 \in Seq(Item)
    BY <1>1, <1>4, BegunFacts
  <2>8. v[1] \in {"none", "data"} /\ (v[1] = "data" => tn3270e)
    <3>1. v \in ValSet("rec", hs) \cup ToSet(hm)
      BY <1>1, <1>4, BegunTypes
    <3> QED BY <2>2, <3>1 DEF WriteTypes
  <2>9. IF DataMode
        THEN /\ hostGot' = Append(hostGot, IF EMode THEN SubSeq(hostRec, 6, Len(hostRec)) ELSE hostRec)
             /\ ignored' = ignored
        ELSE hostGot' = hostGot /\ ignored' = ignored + 1
    BY DEF HostEnd
  <2>10. \/ hostGot = <<>> /\ hostGot' = hostGot /\ ignored' = ignored + 1
         \/ \E x \in Seq(Byte) : /\ hostGot' = Append(hostGot, x) /\ ignored' = ignored
                                 /\ Taken(Len(hostGot) + 1, x, v)
    <3>1. CASE DataMode
      <4>1. WillE \in ToSet(replies) /\ v[1] = "none" => Len(hostGot) + 1 = 1
        <5>1. PICK w \in Seq(Value) : w = Vals("rec", hs1)
          BY <2>7, ValsChange
        <5>2. typed = Append(seen, v) \o w
          <6>1. <<>> \o w = w
            BY SeqFacts
          <6> QED BY <2>6, <5>1, <6>1 DEF Parts
        <5>3. hostGot \in Seq(Seq(Byte)) /\ ignored + Len(hostGot) = Len(seen)
          BY <2>5 DEF WrittenBy
        <5> QED BY <2>2, <2>7, <5>2, <5>3, OnlyFirst
      <4>2. PICK x \in Seq(Byte) :
              /\ x = (IF EMode THEN SubSeq(hostRec, 6, Len(hostRec)) ELSE hostRec)
              /\ Taken(Len(hostGot) + 1, x, v)
        BY <1>1, <2>7, <2>8, <3>1, <4>1, RecordTaken DEF Holds
      <4> QED BY <2>9, <3>1, <4>2
    <3>2. CASE ~DataMode
      BY <2>2, <2>9, <3>2
    <3> QED BY <3>1, <3>2
  <2>11. WrittenBy(Append(seen, v))'
    BY <2>1, <2>2, <2>5, <2>7, <2>10, WrittenByAppend
  <2>12. ignored' \in Nat /\ ignored' >= ignored
    <3>1. ignored' = ignored \/ ignored' = ignored + 1
      BY <2>9
    <3> QED BY <2>2, <3>1
  <2>13. hostGot' # <<>> => DataMode'
    BY <2>1, <2>2, <2>9
  <2>14. (WillE \in ToSet(replies) => WillRead)'
    <3>1. WillRead => WillRead'
      <4> SUFFICES ASSUME WillRead PROVE WillRead'
        OBVIOUS
      <4>1. DOMAIN typed = 1 .. Len(typed) /\ Len(typed) \in Nat
        BY <2>2, SeqFacts
      <4>2. \A k \in DOMAIN typed : k > ignored' + 1 => k > ignored + 1
        BY <2>2, <2>12, <4>1
      <4>3. Len(typed) > ignored' => Len(typed) > ignored
        BY <2>2, <2>12, <4>1
      <4> QED BY <1>2, <4>2, <4>3 DEF WillRead, WritingData
    <3> QED BY <1>2, <2>2, <3>1
  <2> QED BY <1>2, <2>2, <2>3, <2>4, <2>6, <2>11, <2>12, <2>13, <2>14 DEF WriteInv
<1>9. Carries(toClient', rec', cm, cs)
  BY <1>2 DEF Holds
<1> QED BY <1>1, <1>5, <1>6, <1>7, <1>8, <1>9 DEF TelnetInv, Holds

LEMMA SecondPart ==
    ASSUME NEW S, NEW a \in Seq(S), NEW b \in Seq(S), NEW n, n = Len(a), NEW c, c = a \o b
    PROVE  /\ c \in Seq(S) /\ Len(c) = n + Len(b) /\ n \in Nat /\ Len(b) \in Nat
           /\ \A k \in 1 .. Len(b) : c[n + k] = b[k]
OBVIOUS

LEMMA Beyond ==
    ASSUME NEW n \in Nat, NEW m \in Nat, NEW k \in 1 .. n + m, k > n + 1
    PROVE  k - n \in 2 .. m /\ k - n \in 1 .. m /\ n + (k - n) = k
OBVIOUS

\* The reply has come: of what is still behind it at most the first record has
\* no header.
LEMMA WillArrives ==
    ASSUME NEW seen \in Seq(Record), NEW q \in Seq(Value), typed = seen \o q, ignored \in Nat,
           Len(seen) = ignored, Few(q)
    PROVE  WillRead
<1>1. seen \in Seq(Value)
  BY RecordType
<1>2. PICK m : m = Len(q)
  OBVIOUS
<1>3. typed = Cat(seen, q)
  BY DEF Cat
<1>4. /\ typed \in Seq(Value) /\ Len(typed) = ignored + m /\ m \in Nat /\ DOMAIN typed = 1 .. ignored + m
      /\ \A k \in 1 .. m : typed[ignored + k] = q[k]
  <2>1. PICK n : n = Len(seen)
    OBVIOUS
  <2>2. n \in Nat /\ m \in Nat
    BY <1>1, <1>2, <2>1, SeqFacts
  <2>3. /\ typed \in Seq(Value) /\ Len(typed) = n + m
        /\ \A k \in 1 .. m : typed[n + k] = q[k]
    BY <1>1, <1>2, <2>1, SecondPart
  <2>4. DOMAIN typed = 1 .. Len(typed)
    BY <2>3, SeqFacts
  <2>5. n = ignored
    BY <2>1
  <2> QED BY <2>2, <2>3, <2>4, <2>5
<1>5. ASSUME NEW k \in DOMAIN typed, k > ignored + 1 PROVE typed[k][1] = "data"
  <2>1. PICK j : j = k - ignored
    OBVIOUS
  <2>2. j \in 2 .. m /\ j \in 1 .. m /\ ignored + j = k
    <3>1. k \in 1 .. ignored + m /\ m \in Nat
      BY <1>4
    <3> QED BY <1>5, <2>1, <3>1, Beyond
  <2>3. q[j][1] = "data"
    BY <1>2, <2>2 DEF Few, Lone
  <2> QED BY <1>4, <2>2, <2>3
<1>6. Len(typed) > ignored => WritingData
  <2> SUFFICES ASSUME Len(typed) > ignored PROVE WritingData
    OBVIOUS
  <2>1. m # 0
    BY <1>4
  <2>2. q # <<>>
    <3>1. Len(<<>>) = 0
      OBVIOUS
    <3> QED BY <1>2, <2>1, <3>1
  <2> QED BY <2>2 DEF Few
<1> QED BY <1>5, <1>6 DEF WillRead

LEMMA HostCommandKeeps ==
    ASSUME NEW cm, NEW cs, NEW hm, NEW hs, Holds(cm, cs, hm, hs), HostReads, HostCommand(hm, hs)
    PROVE  TelnetInv'
<1>1. PICK v \in Command \X Option :
       /\ hm = <<>> /\ hs # <<>> /\ Head(hs) = Cmd(v) /\ replies' = Append(replies, v)
       /\ Carries(toHost', hostRec', <<>>, Tail(hs))
       /\ UNCHANGED <<answered, hostGot, ignored>>
  BY DEF HostCommand
<1>2. /\ useE' = useE /\ tn3270e' = tn3270e /\ agreed' = agreed /\ mode3270' = mode3270
      /\ host' = host /\ offered' = offered /\ asked' = asked /\ answered' = answered
      /\ UNCHANGED <<hostSent, got, typed, writing, ignored, hostGot>>
      /\ toClient' = toClient /\ rec' = rec
  BY <1>1 DEF HostReads, clientVars
<1>3. hs \in Seq(Item) /\ Head(hs).k = "cmd" /\ Head(hs).v = v
  BY <1>1, CarriesType DEF Holds, Cmd
<1>4. replies \in Seq(Command \X Option)
  BY DEF Holds, NegInv
<1>5. ToSet(replies') = ToSet(replies) \cup {v} /\ replies' \in Seq(Command \X Option)
  <2>1. ToSet(Append(replies, v)) = ToSet(replies) \cup {v}
    BY <1>4, ToSetFacts
  <2>2. Append(replies, v) \in Seq(Command \X Option)
    BY <1>4, AppendType
  <2> QED BY <1>1, <2>1, <2>2
<1>6. Rejected' = Rejected
  BY <1>2 DEF Rejected
<1>7. Later
  <2>1. asked \subseteq asked' /\ answered \subseteq answered' /\ ToSet(replies) \subseteq ToSet(replies')
    BY <1>2, <1>5
  <2> QED BY <1>2, <1>6, <2>1 DEF Later
<1>8. /\ Vals("rec", Tail(hs)) = Vals("rec", hs)
      /\ \A k : ValSet(k, Tail(hs)) \subseteq ValSet(k, hs)
      /\ v \in ValSet("cmd", hs)
  BY <1>1, <1>3, OthersShrink
<1>9. NegInv(cs, Tail(hs))'
  <2>1. /\ ReplyReasons(hs) /\ ClientNotes /\ OfferOrder(cs) /\ SubReasons(cs, hs)
    BY DEF Holds, NegInv
  <2>2. Given(Tail(hs))' \subseteq Given(hs)
    BY <1>5, <1>8 DEF Given
  <2>3. ReplyReasons(Tail(hs))'
    BY <1>2, <2>1, <2>2 DEF ReplyReasons
  <2>4. ClientNotes'
    BY <1>2, <2>1 DEF ClientNotes, Noted
  <2>5. OfferOrder(cs)'
    BY <1>2, <1>5, <1>6, <2>1 DEF OfferOrder
  <2>6. SubReasons(cs, Tail(hs))'
    BY <1>2, <1>5, <1>6, <1>8, <2>1 DEF SubReasons
  <2> QED BY <1>5, <2>3, <2>4, <2>5, <2>6 DEF NegInv
<1>10. OrderInv(cs, Tail(hs))'
  BY <1>1, <1>2, <1>3, <1>4, OrderReplied DEF Holds
<1>11. ReadInv(cm, cs)'
  BY <1>2, <1>7, ReadKept DEF Holds
<1>12. WriteInv(hm, Tail(hs))'
  <2>1. DataMode => DataMode'
    BY <1>7, LaterMode
  <2>2. /\ typed \in Seq(Record) /\ ignored \in Nat /\ (hostGot # <<>> => DataMode)
        /\ WriteTypes(hm, hs) /\ AfterWill(hs) /\ (WillE \in ToSet(replies) => WillRead)
    BY DEF Holds, WriteInv
  <2>3. /\ AfterWill(Tail(hs))
        /\ v = WillE => Few(Vals("rec", Tail(hs)))
    BY <1>1, <1>3, <2>2, AfterWillTail
  <2>4. WriteTypes(hm, Tail(hs))'
    BY <1>2, <1>8, <2>2 DEF WriteTypes
  <2>5. PICK seen \in Seq(Record) : Parts(typed, seen, hm, Vals("rec", hs)) /\ WrittenBy(seen)
    BY DEF Holds, WriteInv
  <2>6. WrittenBy(seen)'
    BY <1>2, <1>7, <2>2, <2>5, TakenKept
  <2>7. AfterWill(Tail(hs))'
    BY <1>2, <2>3 DEF AfterWill, Few, WritingData
  <2>8. WillE \in ToSet(replies') => WillRead
    <3>1. CASE WillE \in ToSet(replies)
      BY <2>2, <3>1
    <3>2. CASE WillE \notin ToSet(replies) /\ v = WillE
      <4>1. hostGot = <<>>
        <5>1. tn3270e
          BY <1>8, <3>2 DEF Holds, NegInv, ReplyReasons, Given
        <5>2. DataMode => tn3270e = TakesE /\ (TakesE => WillE \in ToSet(replies))
          BY InDataMode DEF Holds
        <5> QED BY <2>2, <3>2, <5>1, <5>2
      <4>2. Len(seen) = ignored
        <5>1. Len(hostGot) = 0
          BY <4>1
        <5>2. ignored + Len(hostGot) = Len(seen)
          BY <2>5 DEF WrittenBy
        <5> QED BY <2>2, <5>1, <5>2
      <4>3. PICK q \in Seq(Value) : q = Vals("rec", hs)
        BY <1>3, ValsChange
      <4>4. typed = seen \o q
        <5>1. <<>> \o q = q
          BY SeqFacts
        <5> QED BY <1>1, <2>5, <4>3, <5>1 DEF Parts
      <4>5. Few(q)
        BY <1>8, <2>3, <3>2, <4>3
      <4> QED BY <2>2, <4>2, <4>4, <4>5, WillArrives
    <3> QED BY <1>5, <3>1, <3>2
  <2>9. (WillE \in ToSet(replies) => WillRead)'
    BY <1>2, <2>8 DEF WillRead, WritingData
  <2> QED BY <1>2, <1>8, <2>1, <2>2, <2>4, <2>5, <2>6, <2>7, <2>9 DEF WriteInv
<1>13. Carries(toClient', rec', cm, cs)
  BY <1>2 DEF Holds
<1> QED BY <1>1, <1>9, <1>10, <1>11, <1>12, <1>13 DEF TelnetInv, Holds

\* What a subnegotiation answers is what it says.
LEMMA SubOfBody ==
    ASSUME NEW v \in Bodies, NEW s \in SubOf(Subneg(v))
    PROVE  s \in {"e_request", "e_functions"} => v[1] = "TN3270E"
<1>1. /\ <<"TTYPE", "IS">> \in Bodies /\ <<"TN3270E", "REQUEST">> \in Bodies
      /\ <<"TN3270E", "FUNCTIONS">> \in Bodies
  BY DEF Bodies
<1>2. \A w \in Bodies : Subneg(v) = Subneg(w) => v = w
  <2>1. \A w \in Bodies : SubSeq(Subneg(w), 3, Len(Subneg(w)) - 2) = w
    BY Shapes
  <2> QED BY <2>1
<1>3. PICK u : u = Subneg(v)
  OBVIOUS
<1>4. s \in SubOf(u)
  BY <1>3
<1>5. CASE u = Subneg(<<"TN3270E", "REQUEST">>) \/ u = Subneg(<<"TN3270E", "FUNCTIONS">>)
  <2>1. v = <<"TN3270E", "REQUEST">> \/ v = <<"TN3270E", "FUNCTIONS">>
    BY <1>1, <1>2, <1>3, <1>5
  <2> QED BY <2>1
<1>6. CASE u # Subneg(<<"TN3270E", "REQUEST">>) /\ u # Subneg(<<"TN3270E", "FUNCTIONS">>)
  BY <1>4, <1>6 DEF SubOf
<1> QED BY <1>5, <1>6

LEMMA HostSubKeeps ==
    ASSUME NEW cm, NEW cs, NEW hm, NEW hs, Holds(cm, cs, hm, hs), HostReads, HostSub(hm, hs)
    PROVE  TelnetInv'
<1>1. PICK v \in Bodies :
       /\ hm = <<>> /\ hs # <<>> /\ Head(hs) = Sbn(v) /\ answered' = answered \cup SubOf(Subneg(v))
       /\ Carries(toHost', hostRec', <<>>, Tail(hs))
       /\ UNCHANGED <<replies, hostGot, ignored>>
  BY DEF HostSub
<1>2. /\ UNCHANGED <<useE, tn3270e, agreed, mode3270, host, offered, replies>>
      /\ UNCHANGED <<hostSent, got, typed, writing, ignored, hostGot>>
      /\ toClient' = toClient /\ rec' = rec /\ asked' = asked
  BY <1>1 DEF HostReads, clientVars
<1>3. hs \in Seq(Item)
  BY CarriesType DEF Holds
<1>4. Later
  <2>1. answered \subseteq answered'
    BY <1>1
  <2> QED BY <1>2, <2>1 DEF Later, Rejected
<1>5. /\ Vals("cmd", Tail(hs)) = Vals("cmd", hs) /\ Vals("rec", Tail(hs)) = Vals("rec", hs)
      /\ \A k : ValSet(k, Tail(hs)) \subseteq ValSet(k, hs)
      /\ v \in ValSet("sub", hs)
  BY <1>1, <1>3, SubTakenKeeps
<1>6. SubReasons(cs, Tail(hs))'
  <2>1. SubReasons(cs, hs)
    BY DEF Holds, NegInv
  <2>2. \A b \in ValSet("sub", cs) \cup ValSet("sub", Tail(hs)) :
             b[1] = "TN3270E" => WillE \in ToSet(replies)
    BY <1>5, <2>1 DEF SubReasons
  <2>3. v[1] = "TN3270E" => WillE \in ToSet(replies)
    BY <1>5, <2>1 DEF SubReasons
  <2>4. \A s \in {"e_request", "e_functions"} : s \in answered' => WillE \in ToSet(replies)
    BY <1>1, <2>1, <2>3, SubOfBody DEF SubReasons
  <2> QED BY <1>2, <2>1, <2>2, <2>4 DEF SubReasons, Rejected
<1>7. NegInv(cs, Tail(hs))'
  <2>1. asked \subseteq asked' /\ ValSet("cmd", cs) \subseteq ValSet("cmd", cs)
    BY <1>2
  <2> QED BY <1>2, <1>5, <1>6, <2>1, NegSubs DEF Holds
<1>8. OrderInv(cs, Tail(hs))'
  BY <1>2, <1>5, OrderKept DEF Holds
<1>9. ReadInv(cm, cs)'
  BY <1>2, <1>4, ReadKept DEF Holds
<1>10. WriteInv(hm, Tail(hs))'
  <2>1. AfterWill(Tail(hs))
    BY <1>1, <1>3, AfterWillTail DEF Holds, WriteInv
  <2> QED BY <1>2, <1>4, <1>5, <2>1, WriteKept DEF Holds
<1>11. Carries(toClient', rec', cm, cs)
  BY <1>2 DEF Holds
<1> QED BY <1>1, <1>7, <1>8, <1>9, <1>10, <1>11 DEF TelnetInv, Holds

-----------------------------------------------------------------------------
(* The theorems.                                                           *)

LEMMA TelnetInit == Init => TelnetInv
<1> SUFFICES ASSUME Init PROVE TelnetInv
  OBVIOUS
<1>1. PICK e : e = <<>>
  OBVIOUS
<1>2. /\ e \in Seq(Item) /\ e \in Seq(Command \X Option) /\ e \in Seq(Record) /\ e \in Seq(Payload)
      /\ e \in Seq(Value) /\ e \in Seq(Seq(Byte)) /\ Len(e) = 0 /\ DOMAIN e = {} /\ e = <<>>
  BY <1>1
<1>3. Stream(e) = <<>>
  BY <1>2, StreamFacts
<1>4. Carries(toClient, rec, e, e) /\ Carries(toHost, hostRec, e, e)
  BY <1>2, <1>3 DEF Init, Carries
<1>5. \A k : ValSet(k, e) = {} /\ Vals(k, e) = <<>>
  BY <1>2, ValSetChange, ValsChange
<1>6. \A s \in {replies, offered, e} : s = <<>> /\ ToSet(s) = {}
  BY <1>1 DEF Init, ToSet
<1>7. NegInv(e, e)
  <2>1. Given(e) = {}
    BY <1>5, <1>6 DEF Given
  <2>2. ReplyReasons(e)
    BY <2>1 DEF ReplyReasons
  <2>3. ClientNotes
    BY DEF Init, ClientNotes, Noted, Flag
  <2>4. OfferOrder(e)
    BY <1>2, <1>5, <1>6 DEF Init, OfferOrder
  <2>5. SubReasons(e, e)
    BY <1>5 DEF Init, SubReasons, Rejected
  <2> QED BY <1>2, <1>6, <2>2, <2>3, <2>4, <2>5 DEF NegInv
<1>8. Cat(e, e) = e
  BY <1>2, SeqFacts DEF Cat
<1>9. OrderInv(e, e)
  <2>1. Chosen(e, Open) = <<>>
    BY <1>2, ChosenType
  <2>2. Matches(e, e)
    BY <1>2 DEF Matches
  <2> QED BY <1>2, <1>5, <1>6, <1>8, <2>1, <2>2 DEF OrderInv
<1>10. Parts(e, e, e, e)
  BY <1>8 DEF Parts, Cat
<1>11. ReadInv(e, e)
  <2>1. Chosen(e, Is3270) = <<>>
    BY <1>2, ChosenType
  <2>2. hostSent = e /\ got = e
    BY <1>1 DEF Init
  <2>3. ReadBy(e)
    BY <1>2, <2>1, <2>2 DEF ReadBy
  <2> QED BY <1>2, <1>5, <1>6, <1>10, <2>2, <2>3 DEF ReadInv, ReadTypes
<1>12. WriteInv(e, e)
  <2>1. typed = e /\ hostGot = e /\ ignored = 0 /\ writing = e
    BY <1>1 DEF Init
  <2>2. WrittenBy(e)
    BY <1>2, <2>1 DEF WrittenBy
  <2>3. AfterWill(e)
    BY <1>2 DEF AfterWill
  <2>4. WriteTypes(e, e)
    BY <1>2, <1>5, <1>6, <2>1 DEF WriteTypes
  <2>5. WillE \notin ToSet(replies)
    BY <1>6
  <2> QED BY <1>2, <1>5, <1>10, <2>1, <2>2, <2>3, <2>4, <2>5 DEF WriteInv
<1> QED BY <1>4, <1>7, <1>9, <1>11, <1>12 DEF TelnetInv, Holds

LEMMA TelnetStep == TelnetInv /\ [Next]_vars => TelnetInv'
<1> SUFFICES ASSUME TelnetInv, [Next]_vars PROVE TelnetInv'
  OBVIOUS
<1>1. PICK cm, cs, hm, hs : Holds(cm, cs, hm, hs)
  BY DEF TelnetInv
<1>2. CASE DataByte
  BY <1>1, <1>2, DataByteKeeps
<1>3. CASE ReadRecord
  BY <1>1, <1>3, ReadRecordKeeps
<1>4. CASE HandleNegotiation
  BY <1>1, <1>4, HandleNegotiationKeeps
<1>5. CASE HandleSubnegotiation
  BY <1>1, <1>5, HandleSubnegotiationKeeps
<1>6. CASE WriteRecord
  BY <1>1, <1>6, WriteRecordKeeps
<1>7. CASE HostOffers
  BY <1>1, <1>7, HostOffersKeeps
<1>8. CASE HostAsks
  BY <1>1, <1>8, HostAsksKeeps
<1>9. CASE HostSends
  BY <1>1, <1>9, HostSendsKeeps
<1>10. CASE HostReads
  <2>1. HostByte(hm, hs) \/ HostEnd(hm, hs) \/ HostCommand(hm, hs) \/ HostSub(hm, hs)
    BY <1>1, <1>10, HostReadsStep DEF Holds
  <2> QED BY <1>1, <1>10, <2>1, HostByteKeeps, HostEndKeeps, HostCommandKeeps, HostSubKeeps
<1>11. CASE UNCHANGED vars
  <2>1. /\ UNCHANGED NegVars /\ UNCHANGED <<host, useE, tn3270e, replies, asked, answered>>
        /\ UNCHANGED <<hostSent, got, typed, writing, ignored, hostGot, offered, replies>>
        /\ toClient' = toClient /\ rec' = rec /\ toHost' = toHost /\ hostRec' = hostRec
    BY <1>11 DEF vars, clientVars, hostVars, NegVars
  <2>2. Later
    BY <2>1, LaterSame
  <2>3. NegInv(cs, hs)'
    BY <1>1, <2>1, NegKept DEF Holds
  <2>4. OrderInv(cs, hs)'
    BY <1>1, <2>1, OrderKept DEF Holds
  <2>5. ReadInv(cm, cs)'
    BY <1>1, <2>1, <2>2, ReadKept DEF Holds
  <2>6. WriteInv(hm, hs)'
    BY <1>1, <2>1, <2>2, WriteKept DEF Holds, WriteInv
  <2>7. Carries(toClient', rec', cm, cs) /\ Carries(toHost', hostRec', hm, hs)
    BY <1>1, <2>1 DEF Holds
  <2> QED BY <2>3, <2>4, <2>5, <2>6, <2>7 DEF TelnetInv, Holds
<1>12. CASE AcceptTn3270e
  BY <1>1, <1>12, AcceptTn3270eKeeps
<1>13. CASE SendRecord
  BY <1>1, <1>13, SendRecordKeeps
<1> QED BY <1>2, <1>3, <1>4, <1>5, <1>6, <1>7, <1>8, <1>9, <1>10, <1>11, <1>12, <1>13 DEF Next, ClientReads

LEMMA TelnetAlways == Spec => []TelnetInv
BY TelnetInit, TelnetStep, PTL DEF Spec

LEMMA Prefix ==
    ASSUME NEW n \in Nat, NEW m \in Nat, NEW k \in Nat, n = m + k
    PROVE  m <= n /\ \A i \in 1 .. m : i \in 1 .. n
OBVIOUS

\* The records not dealt with yet.
LEMMA RestType ==
    ASSUME NEW sent, NEW seen \in Seq(Record), NEW m \in Seq(Record), NEW items \in Seq(Item),
           Parts(sent, seen, m, Vals("rec", items))
    PROVE  \E rest \in Seq(Value) : /\ sent = Cat(seen, rest) /\ seen \in Seq(Value)
                                    /\ m = <<>> /\ items = <<>> => rest = <<>>
<1>1. PICK w \in Seq(Value) : w = Vals("rec", items)
  BY ValsChange
<1>2. m \in Seq(Value) /\ seen \in Seq(Value)
  BY RecordType
<1>3. PICK rest : rest = Cat(m, w)
  OBVIOUS
<1>4. rest \in Seq(Value)
  BY <1>2, <1>3, CatAssociative
<1>5. sent = Cat(seen, rest)
  BY <1>1, <1>3 DEF Parts, Cat
<1>6. ASSUME m = <<>>, items = <<>> PROVE rest = <<>>
  <2>1. Vals("rec", items) = <<>>
    BY <1>6, ValsChange
  <2>2. <<>> \o w = w
    BY SeqFacts
  <2> QED BY <1>1, <1>3, <1>6, <2>1, <2>2 DEF Cat
<1> QED BY <1>2, <1>4, <1>5, <1>6

LEMMA AnsweredOffers ==
    ASSUME NEW cm, NEW cs, NEW hm, NEW hs, Holds(cm, cs, hm, hs)
    PROVE  OffersAnswered
<1>1. PICK seen \in Seq(Command \X Option) :
         /\ offered = Cat(seen, Vals("cmd", cs))
         /\ Matches(Cat(replies, Vals("cmd", hs)), Chosen(seen, Open))
  BY DEF Holds, OrderInv
<1>2. cs \in Seq(Item) /\ hs \in Seq(Item) /\ replies \in Seq(Value) /\ seen \in Seq(Value)
  BY CarriesType, OfferType DEF Holds, NegInv
<1>3. PICK v \in Seq(Value) : v = Vals("cmd", cs)
  BY <1>2, ValsChange
<1>4. PICK w \in Seq(Value) : w = Vals("cmd", hs)
  BY <1>2, ValsChange
<1>5. PICK given : given = Cat(replies, w)
  OBVIOUS
<1>6. PICK a \in Seq(Value) : a = Chosen(seen, Open)
  BY <1>2, ChosenType
<1>7. PICK b \in Seq(Value) : b = Chosen(v, Open)
  BY ChosenType
<1>8. PICK open : open = Chosen(offered, Open)
  OBVIOUS
<1>9. open = Cat(a, b)
  <2>1. Chosen(seen \o v, Open) = Chosen(seen, Open) \o Chosen(v, Open)
    BY <1>2, ChosenConcat, ZenonT(60)
  <2> QED BY <1>1, <1>3, <1>6, <1>7, <1>8, <2>1 DEF Cat
<1>10. Matches(given, a)
  BY <1>1, <1>4, <1>5, <1>6
<1>11. /\ Len(open) = Len(a) + Len(b) /\ Len(a) \in Nat /\ Len(b) \in Nat /\ Len(open) \in Nat
       /\ \A i \in 1 .. Len(a) : open[i] = a[i]
  BY <1>9, TwoParts, SeqFacts
<1>12. /\ Len(given) = Len(replies) + Len(w) /\ Len(replies) \in Nat /\ Len(w) \in Nat
       /\ \A i \in 1 .. Len(replies) : given[i] = replies[i]
       /\ DOMAIN given = 1 .. Len(given) /\ DOMAIN replies = 1 .. Len(replies)
  BY <1>2, <1>5, TwoParts, SeqFacts
<1>13. /\ Len(given) = Len(a)
       /\ \A i \in DOMAIN given : given[i][1] \in Opposite(a[i][1]) /\ given[i][2] = a[i][2]
  BY <1>10 DEF Matches
<1>14. Len(replies) <= Len(a) /\ \A i \in 1 .. Len(replies) : i \in 1 .. Len(a)
  BY <1>11, <1>12, <1>13, Prefix
<1>15. Len(replies) <= Len(open)
  BY <1>11, <1>12, <1>14
<1>16. \A i \in DOMAIN replies : replies[i][1] \in Opposite(open[i][1]) /\ replies[i][2] = open[i][2]
  BY <1>11, <1>12, <1>13, <1>14
<1>17. ASSUME toClient = <<>>, toHost = <<>> PROVE Len(replies) = Len(open)
  <2>1. cs = <<>> /\ hs = <<>>
    BY <1>17, CarriesType DEF Holds
  <2>2. v = <<>> /\ w = <<>>
    BY <1>2, <1>3, <1>4, <2>1, ValsChange
  <2>3. b = <<>>
    BY <1>7, <2>2, ChosenType
  <2>4. Len(b) = 0 /\ Len(w) = 0
    BY <2>2, <2>3
  <2> QED BY <1>11, <1>12, <1>13, <2>4
<1> QED BY <1>8, <1>15, <1>16, <1>17 DEF OffersAnswered

LEMMA Agreed ==
    ASSUME NEW cm, NEW cs, NEW hm, NEW hs, Holds(cm, cs, hm, hs)
    PROVE  Agreement
<1>1. /\ EMode => EHost /\ tn3270e /\ ~Rejected
      /\ BasicMode => mode3270 /\ tn3270e = Rejected /\ ~EHost
  BY Modes DEF Holds
<1>2. /\ Noted("eorOut", <<"DO", "EOR">>) /\ Noted("eorIn", <<"WILL", "EOR">>)
      /\ Noted("binOut", <<"DO", "BINARY">>) /\ Noted("binIn", <<"WILL", "BINARY">>)
  BY DEF Holds, NegInv, ClientNotes
<1> QED BY <1>1, <1>2 DEF Agreement

LEMMA ReadRecords ==
    ASSUME NEW cm, NEW cs, NEW hm, NEW hs, Holds(cm, cs, hm, hs)
    PROVE  RecordsRead
<1>1. PICK seen \in Seq(Record) : Parts(hostSent, seen, cm, Vals("rec", cs)) /\ ReadBy(seen)
  BY DEF Holds, ReadInv
<1>2. cs \in Seq(Item) /\ cm \in Seq(Record) /\ (toClient = <<>> => cm = <<>> /\ cs = <<>>)
  BY CarriesType, MType DEF Holds
<1>3. PICK rest \in Seq(Value) : /\ hostSent = Cat(seen, rest) /\ seen \in Seq(Value)
                                 /\ cm = <<>> /\ cs = <<>> => rest = <<>>
  BY <1>1, <1>2, RestType
<1>4. PICK a \in Seq(Value) : a = Chosen(seen, Is3270)
  BY <1>3, ChosenType
<1>5. PICK b \in Seq(Value) : b = Chosen(rest, Is3270) /\ (rest = <<>> => b = <<>>)
  BY ChosenType
<1>6. PICK data : data = IF Rejected THEN <<>> ELSE Chosen(hostSent, Is3270)
  OBVIOUS
<1>7. Chosen(hostSent, Is3270) = Cat(a, b)
  <2>1. Chosen(seen \o rest, Is3270) = Chosen(seen, Is3270) \o Chosen(rest, Is3270)
    BY <1>3, ChosenConcat, SMTT(60)
  <2> QED BY <1>3, <1>4, <1>5, <2>1 DEF Cat
<1>8. got \in Seq(Payload) /\ DOMAIN got = 1 .. Len(got) /\ Len(got) \in Nat
  BY SeqFacts DEF Holds, ReadInv
<1>9. Rejected \in BOOLEAN
  BY DEF Rejected
<1>10. CASE hostSent = <<>>
  <2>1. Len(seen) = 0
    <3>1. PICK n, m : n = Len(seen) /\ m = Len(rest)
      OBVIOUS
    <3>2. Len(hostSent) = n + m /\ n \in Nat /\ m \in Nat
      BY <1>3, <3>1, TwoParts
    <3>3. Len(hostSent) = 0
      BY <1>10
    <3>4. n + m = 0
      BY <3>2, <3>3
    <3> QED BY <3>1, <3>2, <3>4
  <2>2. seen = <<>>
    BY <2>1
  <2>3. a = <<>> /\ Chosen(hostSent, Is3270) = <<>>
    BY <1>3, <1>4, <1>10, <2>2, ChosenType
  <2>4. Len(got) = 0
    BY <1>1, <1>4, <2>3 DEF ReadBy
  <2>5. data = <<>>
    BY <1>6, <2>3
  <2> QED BY <1>6, <1>8, <2>4, <2>5 DEF RecordsRead
<1>11. CASE hostSent # <<>>
  <2>1. Rejected = Rejects
    <3>1. DataMode
      BY <1>11 DEF Holds, ReadInv
    <3> QED BY <3>1, Modes DEF Holds
  <2>2. CASE Rejected
    <3>1. data = <<>> /\ Len(got) = 0
      BY <1>1, <1>6, <2>1, <2>2 DEF ReadBy
    <3> QED BY <1>6, <1>8, <3>1 DEF RecordsRead
  <2>3. CASE ~Rejected
    <3>1. Len(got) = Len(a) /\ \A i \in DOMAIN got : got[i] = a[i][2]
      BY <1>1, <1>4, <2>1, <2>3 DEF ReadBy
    <3>2. data = Cat(a, b)
      BY <1>6, <1>7, <2>3
    <3>3. /\ Len(data) = Len(a) + Len(b) /\ Len(a) \in Nat /\ Len(b) \in Nat
          /\ \A i \in 1 .. Len(a) : data[i] = a[i]
      BY <3>2, TwoParts
    <3>4. Len(got) <= Len(data)
      BY <3>1, <3>3
    <3>5. \A i \in DOMAIN got : got[i] = data[i][2]
      BY <1>8, <3>1, <3>3
    <3>6. toClient = <<>> => Len(got) = Len(data)
      <4>1. toClient = <<>> => Len(b) = 0
        BY <1>2, <1>3, <1>5
      <4> QED BY <3>1, <3>3, <4>1
    <3> QED BY <1>6, <3>4, <3>5, <3>6 DEF RecordsRead
  <2> QED BY <1>9, <2>2, <2>3
<1> QED BY <1>10, <1>11

LEMMA WrittenRecords ==
    ASSUME NEW cm, NEW cs, NEW hm, NEW hs, Holds(cm, cs, hm, hs)
    PROVE  RecordsWritten
<1>1. PICK seen \in Seq(Record) : Parts(typed, seen, hm, Vals("rec", hs)) /\ WrittenBy(seen)
  BY DEF Holds, WriteInv
<1>2. hs \in Seq(Item) /\ hm \in Seq(Record) /\ (toHost = <<>> => hm = <<>> /\ hs = <<>>)
  BY CarriesType, MType DEF Holds
<1>3. PICK rest \in Seq(Value) : /\ typed = Cat(seen, rest) /\ seen \in Seq(Value)
                                 /\ hm = <<>> /\ hs = <<>> => rest = <<>>
  BY <1>1, <1>2, RestType
<1>4. /\ Len(typed) = Len(seen) + Len(rest) /\ Len(seen) \in Nat /\ Len(rest) \in Nat
      /\ \A i \in 1 .. Len(seen) : typed[i] = seen[i]
  BY <1>3, TwoParts
<1>5. PICK n : n = Len(hostGot)
  OBVIOUS
<1>6. ignored \in Nat /\ n \in Nat /\ ignored + n = Len(seen) /\ DOMAIN hostGot = 1 .. n
  <2>1. hostGot \in Seq(Seq(Byte)) /\ ignored + Len(hostGot) = Len(seen) /\ ignored \in Nat
    BY <1>1 DEF Holds, WriteInv, WrittenBy
  <2> QED BY <1>5, <2>1, SeqFacts
<1>7. ignored + n <= Len(typed)
  BY <1>4, <1>6
<1>8. ASSUME NEW i \in DOMAIN hostGot
      PROVE  LET p == typed[ignored + i][2]
             IN  IF Late(ignored + i)
                 THEN i = 1 /\ hostGot[i] = IF Rejected THEN p ELSE SubSeq(p, 6, Len(p))
                 ELSE hostGot[i] = Header(IF Rejected THEN "data" ELSE "none") \o p
  <2>1. ignored + i \in 1 .. Len(seen)
    BY <1>4, <1>6
  <2>2. typed[ignored + i] = seen[ignored + i]
    BY <1>4, <2>1
  <2>3. Taken(i, hostGot[i], typed[ignored + i])
    BY <1>1, <2>2 DEF WrittenBy
  <2>4. hostGot # <<>>
    BY <1>8
  <2>5. tn3270e = TakesE
    <3>1. DataMode
      BY <2>4 DEF Holds, WriteInv
    <3> QED BY <3>1, InDataMode DEF Holds
  <2> QED BY <2>3, <2>5 DEF Taken, Late
<1>9. toHost = <<>> => ignored + n = Len(typed)
  <2>1. toHost = <<>> => Len(rest) = 0
    BY <1>2, <1>3
  <2> QED BY <1>4, <1>6, <2>1
<1> QED BY <1>5, <1>7, <1>8, <1>9 DEF RecordsWritten

(***************************************************************************)
(* Whatever a host offers, and whatever is written meanwhile: every offer  *)
(* is answered once and in order, and no answer is answered.               *)
(***************************************************************************)
THEOREM OffersAreAnswered == Spec => []OffersAnswered
<1>1. TelnetInv => OffersAnswered
  BY AnsweredOffers DEF TelnetInv
<1> QED BY <1>1, TelnetAlways, PTL

(***************************************************************************)
(* When the host begins to exchange records the client has noted what was  *)
(* agreed, save TN3270E that a host withdraws after it rejected the device *)
(* type.                                                                   *)
(***************************************************************************)
THEOREM BothAgree == Spec => []Agreement
<1>1. TelnetInv => Agreement
  BY Agreed DEF TelnetInv
<1> QED BY <1>1, TelnetAlways, PTL

(***************************************************************************)
(* The terminal is sent the 3270 records of the host, whatever bytes they  *)
(* are made of, in order and none lost, and nothing else.                  *)
(***************************************************************************)
THEOREM RecordsAreRead == Spec => []RecordsRead
<1>1. TelnetInv => RecordsRead
  BY ReadRecords DEF TelnetInv
<1> QED BY <1>1, TelnetAlways, PTL

(***************************************************************************)
(* The host gets what the terminal typed, in order, and loses only what    *)
(* was typed before it was ready, wherever the goroutine that writes a     *)
(* record is overtaken by the one that reads: a record begun before        *)
(* tn3270e was set reaches a host in TN3270E mode only as the first it     *)
(* takes, without its first five bytes.                                    *)
(***************************************************************************)
THEOREM RecordsAreWritten == Spec => []RecordsWritten
<1>1. TelnetInv => RecordsWritten
  BY WrittenRecords DEF TelnetInv
<1> QED BY <1>1, TelnetAlways, PTL

\* What the invariant does not say of the negotiation's state.
RestTypes == mode3270 \in BOOLEAN /\ asked \subseteq Sub /\ answered \subseteq Answer

LEMMA InitRest == Init => RestTypes
BY DEF Init, RestTypes

LEMMA StepRest == RestTypes /\ [Next]_vars => RestTypes'
<1> SUFFICES ASSUME RestTypes, [Next]_vars PROVE RestTypes'
  OBVIOUS
<1> USE DEF RestTypes
<1>1. CASE DataByte
  BY <1>1 DEF DataByte, hostVars
<1>2. CASE ReadRecord
  BY <1>2 DEF ReadRecord, hostVars
<1>3. CASE HandleNegotiation
  BY <1>3 DEF HandleNegotiation, hostVars
<1>4. CASE HandleSubnegotiation
  BY <1>4 DEF HandleSubnegotiation, clientVars, hostVars
<1>5. CASE WriteRecord
  BY <1>5 DEF WriteRecord, hostVars
<1>6. CASE HostOffers
  BY <1>6 DEF HostOffers, clientVars
<1>7. CASE HostAsks
  BY <1>7 DEF HostAsks, clientVars
<1>8. CASE HostSends
  BY <1>8 DEF HostSends, clientVars
<1>9. CASE HostReads
  <2>1. \A unit : SubOf(unit) \subseteq Answer
    BY DEF SubOf, Answer
  <2>2. answered' = answered \cup SubOf(HostUnit)
    BY <1>9 DEF HostReads
  <2> QED BY <1>9, <2>1, <2>2 DEF HostReads, clientVars
<1>10. CASE UNCHANGED vars
  BY <1>10 DEF vars, clientVars, hostVars
<1>11. CASE AcceptTn3270e
  BY <1>11 DEF AcceptTn3270e, hostVars
<1>12. CASE SendRecord
  BY <1>12 DEF SendRecord, hostVars
<1> QED BY <1>1, <1>2, <1>3, <1>4, <1>5, <1>6, <1>7, <1>8, <1>9, <1>10, <1>11, <1>12 DEF Next, ClientReads

LEMMA PartReadType ==
    ASSUME NEW bytes, NEW r, NEW m, NEW items, Carries(bytes, r, m, items)
    PROVE  r \in Seq(Byte)
<1>1. CASE r = <<>>
  BY <1>1
<1>2. CASE \E v, b : Partway(bytes, r, v, b, items)
  BY <1>2 DEF Partway
<1> QED BY <1>1, <1>2 DEF Carries

(***************************************************************************)
(* The streams hold bytes, what either side has assembled, read or written *)
(* is made of them, and only what the negotiation knows of is asked,       *)
(* answered or agreed.                                                     *)
(***************************************************************************)
THEOREM TypeCorrect == Spec => []TypeOK
<1>1. ASSUME NEW cm, NEW cs, NEW hm, NEW hs, Holds(cm, cs, hm, hs), RestTypes
      PROVE  TypeOK
  <2>1. /\ useE \in BOOLEAN /\ tn3270e \in BOOLEAN /\ agreed \subseteq Flag
        /\ host \in {"basic", "e", "rejects"}
        /\ offered \in Seq(Command \X Option) /\ replies \in Seq(Command \X Option)
    BY <1>1 DEF Holds, NegInv, ClientNotes, OfferOrder
  <2>2. /\ typed \in Seq(Record) /\ hostSent \in Seq(Record) /\ ignored \in Nat
        /\ writing = <<>> \/ \E r \in Record : writing = <<r>>
    BY <1>1 DEF Holds, ReadInv, WriteInv, WriteTypes
  <2>3. \A i \in DOMAIN got : got[i] \in Payload
    <3>1. got \in Seq(Payload)
      BY <1>1 DEF Holds, ReadInv
    <3> QED BY <3>1
  <2>4. rec \in Seq(Byte) /\ toClient \in Seq(Byte)
    BY <1>1, PartReadType, CarriesType DEF Holds
  <2>5. hostRec \in Seq(Byte) /\ toHost \in Seq(Byte)
    BY <1>1, PartReadType, CarriesType DEF Holds
  <2> QED BY <1>1, <2>1, <2>2, <2>3, <2>4, <2>5 DEF TypeOK, RestTypes
<1>2. TelnetInv /\ RestTypes => TypeOK
  BY <1>1 DEF TelnetInv
<1> QED BY <1>2, TelnetAlways, InitRest, StepRest, PTL DEF Spec

=============================================================================
