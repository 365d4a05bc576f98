----------------------------- MODULE MenuProofs -----------------------------
(***************************************************************************)
(* Proofs about module Menu, for every menu configuration, every set of    *)
(* files and whatever is typed.                                            *)
(***************************************************************************)
EXTENDS Menu, Lemmas

\* The part of the state that the proofs need, with its type.
MenuTypeOK ==
    /\ state \in State
    /\ user \in 0 .. Len(Users)
    /\ stack \in Seq(DOMAIN Menus)

MenuInv == MenuTypeOK /\ MenusAreForUsers

\* Searches return an index of the sequence at which the test holds, or 0.
LEMMA FindUserFinds ==
    ASSUME NEW name, NEW password, FindUser(name, password) # 0
    PROVE  /\ FindUser(name, password) \in 1 .. Len(Users)
           /\ EqualFold(Users[FindUser(name, password)].username, name)
           /\ Users[FindUser(name, password)].password = password
<1> DEFINE I == {i \in 1 .. Len(Users) : EqualFold(Users[i].username, name) /\ Users[i].password = password}
<1>1. FindUser(name, password) = IF I # {} THEN Min(I) ELSE 0
  BY DEF FindUser, SelectInSeq
<1>2. I \in SUBSET Nat /\ I # {}
  BY <1>1
<1>3. Min(I) \in I
  <2> HIDE DEF I
  <2> QED BY <1>2, LeastIsMin
<1> QED BY <1>1, <1>2, <1>3

LEMMA FindItemFinds ==
    ASSUME NEW key, FindItem(key) # 0
    PROVE  FindItem(key) \in 1 .. Len(CurrentItems)
<1> DEFINE I == {i \in 1 .. Len(CurrentItems) : EqualFold(CurrentItems[i].key, key)}
<1>1. FindItem(key) = IF I # {} THEN Min(I) ELSE 0
  BY DEF FindItem, SelectInSeq
<1>2. I \in SUBSET Nat /\ I # {}
  BY <1>1
<1>3. Min(I) \in I
  <2> HIDE DEF I
  <2> QED BY <1>2, LeastIsMin
<1> QED BY <1>1, <1>2, <1>3

LEMMA Lengths ==
    /\ Len(Users) \in Nat \ {0}
    /\ \A i \in 1 .. Len(Users) : Users[i].menu \in DOMAIN Menus
<1>1. Users \in Seq(User) /\ Users # <<>>
  BY ConfigAssumption
<1>2. \A i \in 1 .. Len(Users) : Users[i] \in User
  BY <1>1
<1> QED BY <1>1, <1>2 DEF User

\* Nobody is logged on.
LEMMA NobodyOn ==
    ASSUME user = 0, stack = <<>>, state \in State \ {"menu", "view"}
    PROVE  MenuInv
<1>1. \A i \in 1 .. Len(stack) - 1 : FALSE
  OBVIOUS
<1>2. MenuTypeOK
  BY Lengths DEF MenuTypeOK
<1> QED BY <1>1, <1>2 DEF MenuInv, MenusAreForUsers

LEMMA InitMenu == Init => MenuInv
  BY NobodyOn DEF Init, State

\* The stack along which MenuScreen leads: nothing else that MenuInv is about
\* changes with it.
LEMMA ShowMenu ==
    ASSUME MenuInv, user # 0, user' = user, userid' = userid,
           NEW path \in Seq(DOMAIN Menus), MenuScreen(path),
           path # <<>>, path[1] = stack[1],
           \A i \in 1 .. Len(path) - 1 : path[i + 1] \in Submenus(path[i])
    PROVE  MenuInv'
  BY DEF MenuInv, MenuTypeOK, MenusAreForUsers, MenuScreen, State, EqualFold

LEMMA SameMenu ==
    ASSUME MenuInv, user # 0, user' = user, userid' = userid, MenuScreen(stack)
    PROVE  MenuInv'
<1>1. stack \in Seq(DOMAIN Menus) /\ stack # <<>>
  BY DEF MenuInv, MenuTypeOK, MenusAreForUsers
<1>2. \A i \in 1 .. Len(stack) - 1 : stack[i + 1] \in Submenus(stack[i])
  BY DEF MenuInv, MenusAreForUsers
<1> QED BY <1>1, <1>2, ShowMenu

LEMMA LogonKeeps == MenuInv /\ (EnterUserid \/ LogonAccepted \/ LogonRejected) => MenuInv'
<1> SUFFICES ASSUME MenuInv, EnterUserid \/ LogonAccepted \/ LogonRejected PROVE MenuInv'
  OBVIOUS
<1> USE DEF MenuInv, MenuTypeOK, MenusAreForUsers, State
<1>1. CASE EnterUserid
  BY <1>1 DEF EnterUserid
<1>2. CASE LogonAccepted
  <2>1. /\ user' \in 1 .. Len(Users)
        /\ EqualFold(Users[user'].username, userid)
    BY <1>2, FindUserFinds DEF LogonAccepted
  <2>2. Users[user'].menu \in DOMAIN Menus
    BY <2>1, Lengths
  <2>3. /\ state' = "menu" /\ userid' = userid
        /\ stack' = <<Users[user'].menu>>
    BY <1>2 DEF LogonAccepted, MenuScreen
  <2> QED BY <2>1, <2>2, <2>3 DEF EqualFold
<1>3. CASE LogonRejected
  BY <1>3 DEF LogonRejected
<1> QED BY <1>1, <1>2, <1>3

LEMMA BackKeeps == MenuInv /\ Back => MenuInv'
<1> SUFFICES ASSUME MenuInv, Back PROVE MenuInv'
  OBVIOUS
<1>1. /\ stack \in Seq(DOMAIN Menus) /\ user # 0 /\ stack # <<>>
      /\ \A i \in 1 .. Len(stack) - 1 : stack[i + 1] \in Submenus(stack[i])
  BY DEF Back, MenuInv, MenuTypeOK, MenusAreForUsers
<1>2. CASE Len(stack) > 1
  <2> DEFINE path == Front(stack)
  <2>1. path = [i \in 1 .. Len(stack) - 1 |-> stack[i]]
    BY <1>1, <1>2 DEF Front
  <2>2. path \in Seq(DOMAIN Menus) /\ Len(path) = Len(stack) - 1
    BY <1>1, <1>2, <2>1
  <2>3. path # <<>> /\ path[1] = stack[1]
    <3>1. Len(path) # 0 /\ 1 \in 1 .. Len(stack) - 1
      BY <1>1, <1>2, <2>2
    <3>2. path[1] = stack[1]
      BY <2>1, <3>1
    <3>3. path # <<>>
      <4> HIDE DEF path
      <4> QED BY <3>1
    <3> QED BY <3>2, <3>3
  <2>4. ASSUME NEW i \in 1 .. Len(path) - 1
        PROVE  path[i + 1] \in Submenus(path[i])
    <3>1. i \in 1 .. Len(stack) - 1 /\ i + 1 \in 1 .. Len(stack) - 1
      BY <1>1, <2>2
    <3>2. path[i] = stack[i] /\ path[i + 1] = stack[i + 1]
      BY <2>1, <3>1
    <3> QED BY <1>1, <3>1, <3>2
  <2>5. MenuScreen(path)
    BY <1>2 DEF Back
  <2> HIDE DEF path
  <2> QED BY <1>1, <2>2, <2>3, <2>4, <2>5, ShowMenu DEF Back
<1>3. CASE ~ (Len(stack) > 1)
  BY <1>1, <1>3, SameMenu DEF Back
<1> QED BY <1>2, <1>3

LEMMA OpenMenuKeeps == MenuInv /\ OpenMenu => MenuInv'
<1> SUFFICES ASSUME MenuInv, OpenMenu PROVE MenuInv'
  OBVIOUS
<1>1. /\ stack \in Seq(DOMAIN Menus) /\ user # 0 /\ stack # <<>>
      /\ \A i \in 1 .. Len(stack) - 1 : stack[i + 1] \in Submenus(stack[i])
  BY DEF OpenMenu, Selects, MenuInv, MenuTypeOK, MenusAreForUsers
<1> DEFINE top == stack[Len(stack)]
           i == FindItem(line')
           m == Menus[top][i].menu
           path == Append(stack, m)
<1>2. top \in DOMAIN Menus /\ Menus[top] \in Seq(MenuItem)
  <2>1. Len(stack) \in 1 .. Len(stack)
    BY <1>1
  <2>2. top \in DOMAIN Menus
    BY <1>1, <2>1
  <2>3. \A x \in DOMAIN Menus : Menus[x] \in Seq(MenuItem)
    BY ConfigAssumption
  <2> QED BY <2>2, <2>3
<1>3. i \in 1 .. Len(Menus[top])
  BY FindItemFinds DEF OpenMenu, CurrentItems
<1>4. m # NoMenu /\ MenuScreen(path) /\ user' = user /\ userid' = userid
  BY DEF OpenMenu, CurrentItems
<1>5. m \in DOMAIN Menus /\ m \in Submenus(top)
  <2>1. Menus[top][i] \in MenuItem
    BY <1>2, <1>3
  <2>2. m \in DOMAIN Menus
    BY <1>4, <2>1 DEF MenuItem
  <2>3. i \in DOMAIN Menus[top]
    BY <1>2, <1>3
  <2> QED BY <1>4, <2>2, <2>3 DEF Submenus
<1> HIDE DEF m, i
<1>6. /\ path \in Seq(DOMAIN Menus) /\ Len(path) = Len(stack) + 1
      /\ \A k \in 1 .. Len(stack) : path[k] = stack[k]
      /\ path[Len(stack) + 1] = m
  BY <1>1, <1>5
<1>7. path # <<>> /\ path[1] = stack[1]
  BY <1>1, <1>6
<1>8. \A k \in 1 .. Len(path) - 1 : path[k + 1] \in Submenus(path[k])
  BY <1>1, <1>5, <1>6
<1> HIDE DEF path
<1> QED BY <1>1, <1>4, <1>6, <1>7, <1>8, ShowMenu

LEMMA FileKeeps == MenuInv /\ (OpenFile \/ InvalidSelection) => MenuInv'
<1> SUFFICES ASSUME MenuInv, OpenFile \/ InvalidSelection PROVE MenuInv'
  OBVIOUS
<1>1. user # 0
  BY DEF OpenFile, InvalidSelection, Selects, MenuInv, MenusAreForUsers
<1>2. CASE MenuScreen(stack) /\ UNCHANGED <<userid, user, pages, pageIdx>>
  BY <1>1, <1>2, SameMenu
<1>3. CASE \E f \in File : ViewScreen(Paginate(f), 0)
  BY <1>1, <1>3 DEF ViewScreen, MenuInv, MenuTypeOK, MenusAreForUsers, State, EqualFold
<1> QED BY <1>2, <1>3 DEF OpenFile, InvalidSelection

LEMMA ViewKeeps == MenuInv /\ (NextPage \/ EndView) => MenuInv'
<1> SUFFICES ASSUME MenuInv, NextPage \/ EndView PROVE MenuInv'
  OBVIOUS
<1>1. user # 0
  BY DEF NextPage, EndView, MenuInv, MenusAreForUsers
<1>2. CASE NextPage
  BY <1>1, <1>2 DEF NextPage, ViewScreen, MenuInv, MenuTypeOK, MenusAreForUsers, State, EqualFold
<1>3. CASE EndView
  BY <1>1, <1>3, SameMenu DEF EndView
<1> QED BY <1>2, <1>3

LEMMA LogoffKeeps == MenuInv /\ Logoff => MenuInv'
<1> SUFFICES ASSUME MenuInv, Logoff PROVE MenuInv'
  OBVIOUS
<1>1. user' = 0 /\ stack' = <<>> /\ state' = "login_user"
  BY DEF Logoff, Greeting
<1>2. \A i \in 1 .. Len(stack') - 1 : FALSE
  BY <1>1
<1>3. MenuTypeOK'
  BY <1>1, Lengths DEF MenuTypeOK, State
<1> QED BY <1>1, <1>2, <1>3 DEF MenuInv, MenusAreForUsers

LEMMA StepMenu == MenuInv /\ [Input]_vars => MenuInv'
<1> SUFFICES ASSUME MenuInv, [Input]_vars PROVE MenuInv'
  OBVIOUS
<1>1. CASE Input
  BY <1>1, LogonKeeps, LogoffKeeps, BackKeeps, OpenMenuKeeps, FileKeeps, ViewKeeps DEF Input
<1>2. CASE UNCHANGED vars
  BY <1>2 DEF vars, session, MenuInv, MenuTypeOK, MenusAreForUsers, EqualFold
<1> QED BY <1>1, <1>2

(***************************************************************************)
(* Whatever users, menus and files are configured and whatever is typed, a *)
(* menu or a file is shown only to a user who is logged on, and the stack  *)
(* is a path of submenus from that user's menu.                            *)
(***************************************************************************)
THEOREM MenusStayForUsers == Spec => []MenusAreForUsers
<1>1. MenuInv => MenusAreForUsers
  BY DEF MenuInv
<1> QED BY <1>1, InitMenu, StepMenu, PTL DEF Spec

(***************************************************************************)
(* A user is logged on by his own password only, and another one takes his *)
(* place only after he has logged off.                                     *)
(***************************************************************************)
THEOREM PasswordNeeded == Spec => PasswordChecked
<1> DEFINE A == /\ user = 0 /\ user' # 0 => Users[user'].password = line'
                /\ user # 0 => user' \in {0, user}
<1>1. MenuInv /\ [Input]_vars => [A]_vars
  <2> SUFFICES ASSUME MenuInv, Input PROVE A
    OBVIOUS
  <2>1. CASE LogonAccepted
    <3>1. user = 0
      BY <2>1 DEF LogonAccepted, MenuInv, MenusAreForUsers
    <3>2. user' # 0 => Users[user'].password = line'
      BY <2>1, FindUserFinds DEF LogonAccepted
    <3> QED BY <3>1, <3>2
  <2>2. CASE Logoff
    BY <2>2 DEF Logoff, Greeting
  <2>3. CASE EnterUserid \/ LogonRejected
    BY <2>3 DEF EnterUserid, LogonRejected
  <2>4. CASE Back \/ OpenMenu \/ InvalidSelection \/ EndView
    BY <2>4 DEF Back, OpenMenu, InvalidSelection, EndView
  <2>5. CASE OpenFile \/ NextPage
    BY <2>5 DEF OpenFile, NextPage, ViewScreen
  <2> QED BY <2>1, <2>2, <2>3, <2>4, <2>5 DEF Input
<1> QED BY <1>1, InitMenu, StepMenu, PTL DEF Spec, PasswordChecked

-----------------------------------------------------------------------------
(* Input extraction.                                                       *)

\* What follows the colon at p, if there is no other behind it (p = 0: none).
LEMMA AfterColon ==
    ASSUME NEW S, NEW s \in Seq(S), NEW p \in 0 .. Len(s),
           p # 0 => s[p] = ":",
           \A i \in p + 1 .. Len(s) : s[i] # ":"
    PROVE  ExtractInput(s) = IF p = Len(s) THEN "" ELSE s[Len(s)]
<1> DEFINE I == {i \in 1 .. Len(s) : s[i] = ":"}
           colon == IF I # {} THEN Max(I) ELSE 0
           after == SubSeq(s, colon + 1, Len(s))
<1>1. ExtractInput(s) = IF after = <<>> THEN "" ELSE Last(after)
  BY DEF ExtractInput, SelectLastInSeq
<1>2. colon = p
  <2>1. CASE p = 0
    BY <2>1
  <2>2. CASE p # 0
    <3>1. p \in I /\ \A i \in I : i <= p
      BY <2>2
    <3>2. I \in SUBSET (0 .. Len(s))
      OBVIOUS
    <3>3. Max(I) \in I /\ \A i \in I : i <= Max(I)
      <4> HIDE DEF I
      <4>1. I # {} /\ Len(s) \in Nat
        BY <3>1
      <4> QED BY <3>2, <4>1, GreatestIsMax
    <3>4. Max(I) = p
      BY <3>1, <3>3
    <3> QED BY <3>1, <3>4
  <2> QED BY <2>1, <2>2
<1>3. after = [i \in 1 .. Len(s) - p |-> s[p + i]]
  <2> HIDE DEF colon
  <2> QED BY <1>2
<1> HIDE DEF after, colon
<1>4. after \in Seq(S) /\ Len(after) = Len(s) - p
  BY <1>3
<1>5. CASE p = Len(s)
  <2>1. after = <<>>
    BY <1>4, <1>5
  <2> QED BY <1>1, <1>5, <2>1
<1>6. CASE p # Len(s)
  <2>1. after # <<>> /\ Len(s) - p \in 1 .. Len(s) - p
    BY <1>4, <1>6
  <2>2. Last(after) = s[Len(s)]
    BY <1>3, <1>4, <2>1 DEF Last
  <2> QED BY <1>1, <1>6, <2>1, <2>2
<1> QED BY <1>5, <1>6

\* Only the footer of a page does not end in a colon.
Footer == state # "view" => prompt \notin {"MORE", "END"}

LEMMA FooterKept == Footer /\ [Input]_vars => Footer'
<1> SUFFICES ASSUME Footer, [Input]_vars PROVE Footer'
  OBVIOUS
<1>1. CASE EnterUserid \/ LogonRejected \/ Logoff
  BY <1>1 DEF EnterUserid, LogonRejected, Logoff, Greeting, Footer
<1>2. CASE LogonAccepted \/ Back \/ OpenMenu \/ InvalidSelection \/ EndView
  BY <1>2 DEF LogonAccepted, Back, OpenMenu, InvalidSelection, EndView, MenuScreen, Footer
<1>3. CASE OpenFile \/ NextPage
  BY <1>3 DEF OpenFile, NextPage, ViewScreen, MenuScreen, Footer
<1>4. CASE UNCHANGED vars
  BY <1>4 DEF vars, session, Footer
<1> QED BY <1>1, <1>2, <1>3, <1>4 DEF Input

LEMMA WiderSeq ==
    ASSUME NEW S, NEW T, S \subseteq T, NEW s \in Seq(S)
    PROVE  s \in Seq(T)
  OBVIOUS

LEMMA EmptyFirst ==
    ASSUME NEW S, NEW t \in Seq(S)
    PROVE  <<>> \in Seq(S) /\ <<>> \o t = t
  OBVIOUS

LEMMA OneLong ==
    ASSUME NEW S, NEW t \in Seq(S), Len(t) <= 1, t # <<>>
    PROVE  Len(t) # 0 /\ Len(t) = 1
<1> DEFINE n == Len(t)
<1>1. n \in Nat /\ n # 0 /\ n <= 1
  OBVIOUS
<1> HIDE DEF n
<1>2. n = 1
  BY <1>1
<1> QED BY <1>1, <1>2 DEF n

\* Behind a prompt that ends in a colon, or on a screen without one, the word
\* is found.
LEMMA BehindPrompt ==
    ASSUME NEW S, NEW d \in Seq(S), NEW t \in Seq(S),
           d # <<>> => d[Len(d)] = ":",
           \A i \in 1 .. Len(t) : t[i] # ":"
    PROVE  ExtractInput(d \o t) = IF Len(t) = 0 THEN "" ELSE t[Len(t)]
<1> DEFINE s == d \o t
<1>1. /\ s \in Seq(S) /\ Len(s) = Len(d) + Len(t) /\ Len(d) \in Nat /\ Len(t) \in Nat
      /\ \A i \in 1 .. Len(d) : s[i] = d[i]
      /\ \A i \in 1 .. Len(t) : s[Len(d) + i] = t[i]
  OBVIOUS
<1> HIDE DEF s
<1>2. Len(d) \in 0 .. Len(s)
  BY <1>1
<1>3. Len(d) # 0 => s[Len(d)] = ":"
  <2> SUFFICES ASSUME Len(d) # 0 PROVE s[Len(d)] = ":"
    OBVIOUS
  <2>1. d # <<>> /\ Len(d) \in 1 .. Len(d)
    BY <1>1
  <2> QED BY <1>1, <2>1
<1>4. ASSUME NEW i \in Len(d) + 1 .. Len(s) PROVE s[i] # ":"
  <2>1. i - Len(d) \in 1 .. Len(t) /\ Len(d) + (i - Len(d)) = i
    BY <1>1
  <2> QED BY <1>1, <2>1, ZenonT(60)
<1>5. ExtractInput(s) = IF Len(d) = Len(s) THEN "" ELSE s[Len(s)]
  BY <1>1, <1>2, <1>3, <1>4, AfterColon
<1>6. CASE Len(t) = 0
  <2>1. Len(d) = Len(s)
    BY <1>1, <1>6
  <2> QED BY <1>5, <1>6, <2>1 DEF s
<1>7. CASE Len(t) # 0
  <2>1. Len(d) # Len(s) /\ s[Len(s)] = t[Len(t)]
    BY <1>1, <1>7
  <2> QED BY <1>5, <1>7, <2>1 DEF s
<1> QED BY <1>6, <1>7

(***************************************************************************)
(* The session is given the word that was typed, whatever word it is, also *)
(* from a screen that holds older prompts and answers.                     *)
(***************************************************************************)
THEOREM WordRecovered == Spec => InputRecovered
<1> DEFINE A == /\ state # "view"
                /\ Len(typed') <= 1 /\ ":" \notin ToSet(typed')
                => line' = IF typed' = <<>> THEN "" ELSE typed'[1]
           Word == (Text \cup {":"}) \ {""}
<1>1. Footer /\ [Input]_vars => [A]_vars
  <2> SUFFICES ASSUME Footer, Input, state # "view",
                      Len(typed') <= 1, ":" \notin ToSet(typed')
               PROVE  line' = IF typed' = <<>> THEN "" ELSE typed'[1]
    OBVIOUS
  <2> DEFINE d == << "--", ":", "B", "--", ":" >>
             W == Word \cup {"--", ":", "B"}
  <2>1. typed' \in Typed /\ line' \in {ExtractInput(typed'), ExtractInput(d \o typed')}
    BY DEF Input, Footer, Display
  <2>2. PICK t \in Typed : t = typed'
    BY <2>1
  <2>3. t \in Seq(Word)
    BY BoundsAssumption
  <2>4. t \in Seq(W)
    BY <2>3, WiderSeq
  <2>5. d \in Seq(W) /\ d # <<>> /\ d[Len(d)] = ":"
    OBVIOUS
  <2> HIDE DEF W
  <2>6. <<>> \in Seq(W) /\ <<>> \o t = t
    BY <2>4, EmptyFirst
  <2>7. \A i \in 1 .. Len(t) : t[i] # ":"
    <3>1. ":" \notin {t[i] : i \in DOMAIN t}
      BY <2>2 DEF ToSet
    <3>2. DOMAIN t = 1 .. Len(t)
      BY <2>4
    <3> QED BY <3>1, <3>2
  <2> HIDE DEF d, Word
  <2>8. ExtractInput(t) = IF Len(t) = 0 THEN "" ELSE t[Len(t)]
    BY <2>4, <2>6, <2>7, BehindPrompt
  <2>9. ExtractInput(d \o t) = IF Len(t) = 0 THEN "" ELSE t[Len(t)]
    BY <2>4, <2>5, <2>7, BehindPrompt
  <2>10. line' = IF Len(t) = 0 THEN "" ELSE t[Len(t)]
    BY <2>1, <2>2, <2>8, <2>9
  <2>11. Len(t) <= 1 /\ Len(t) \in Nat /\ (t = <<>> <=> Len(t) = 0)
    BY <2>2, <2>4
  <2>12. line' = IF t = <<>> THEN "" ELSE t[1]
    <3>1. CASE t = <<>>
      BY <2>10, <2>11, <3>1
    <3>2. CASE t # <<>>
      <4>1. Len(t) # 0 /\ Len(t) = 1
        BY <2>2, <2>4, <3>2, OneLong
      <4> QED BY <2>10, <3>2, <4>1
    <3> QED BY <3>1, <3>2
  <2> QED BY <2>2, <2>12
<1>2. Init => Footer
  BY DEF Init, Footer
<1> QED BY <1>1, <1>2, FooterKept, PTL DEF Spec, InputRecovered

-----------------------------------------------------------------------------
(* The rows and pages of a file.                                           *)

\* The bytes of a line.
LineBytes(l, n) == [c \in 1 .. n |-> <<l, c>>]

\* A line is wrapped into rows of its bytes in order, the last one shorter.
LEMMA WrappedRows ==
    ASSUME NEW l \in Nat, NEW n \in Nat, NEW rows, rows = Wrapped(l, n)
    PROVE  /\ rows \in Seq(Row) /\ Len(rows) >= 1
           /\ FlattenSeq(rows) = LineBytes(l, n)
           /\ \A k \in 1 .. Len(rows) : Len(rows[k]) <= MaxWidth
           /\ n = 0 => Len(rows) = 1 /\ rows[1] = <<>>
           /\ n # 0 => \A k \in 1 .. Len(rows) : rows[k] # <<>>
<1> DEFINE W == MaxWidth
           N == IF n = 0 THEN 1 ELSE (n + W - 1) \div W
           from(k) == (k - 1) * W
           to(k) == IF from(k) + W > n THEN n ELSE from(k) + W
           row(k) == [c \in 1 .. to(k) - from(k) |-> <<l, from(k) + c>>]
           w == [k \in 1 .. N |-> row(k)]
           bytes(m) == [c \in 1 .. m |-> <<l, c>>]
<1>1. rows = w
  BY DEF Wrapped
<1>2. W \in Nat /\ W >= 1
  <2>1. MaxWidth \in Nat \ {0}
    BY BoundsAssumption
  <2> QED BY <2>1
<1>3. N \in Nat /\ N >= 1 /\ n <= N * W /\ (n # 0 => (N - 1) * W < n)
  <2>1. CASE n = 0
    BY <1>2, <2>1
  <2>2. CASE n # 0
    <3>1. n + W - 1 \in Nat
      BY <1>2, <2>2
    <3>2. \A a \in Nat, b \in Nat \ {0} : a \div b \in Nat /\ b * (a \div b) <= a /\ a < b * (a \div b) + b
      OBVIOUS
    <3>3. N \in Nat /\ W * N <= n + W - 1 /\ n + W - 1 < W * N + W
      BY <1>2, <2>2, <3>1, <3>2
    <3> HIDE DEF N
    <3>4. \A a, b, q \in Nat : b >= 1 /\ a # 0 /\ b * q <= a + b - 1 /\ a + b - 1 < b * q + b
             => q # 0 /\ a <= q * b /\ (q - 1) * b < a
      OBVIOUS
    <3> QED BY <1>2, <2>2, <3>3, <3>4
  <2> QED BY <2>1, <2>2
<1> HIDE DEF W, N
<1>4. ASSUME NEW k \in 1 .. N
      PROVE  /\ from(k) \in Nat /\ to(k) \in Nat /\ from(k) <= to(k) /\ to(k) <= n
             /\ to(k) - from(k) <= W
             /\ n # 0 => from(k) < to(k)
             /\ k # N => to(k) = from(k + 1)
             /\ k = N => to(k) = n
  <2>1. /\ from(k) \in Nat /\ from(k) + W = k * W /\ k * W \in Nat /\ N * W \in Nat
    BY <1>2, <1>3
  <2>2. (n # 0 => from(k) < n) /\ from(k) <= n
    <3>1. CASE n = 0
      <4>1. k = 1
        BY <3>1 DEF N
      <4> QED BY <1>2, <3>1, <4>1
    <3>2. CASE n # 0
      <4>1. from(k) <= (N - 1) * W
        <5>1. \A a, b, c \in Nat : a <= c => a * b <= c * b
          OBVIOUS
        <5>2. k - 1 \in Nat /\ N - 1 \in Nat /\ k - 1 <= N - 1
          BY <1>3
        <5> QED BY <1>2, <5>1, <5>2
      <4>2. (N - 1) * W \in Nat
        BY <1>2, <1>3
      <4> HIDE DEF from
      <4> QED BY <1>3, <2>1, <3>2, <4>1, <4>2
    <3> QED BY <3>1, <3>2
  <2>3. k # N => k * W <= (N - 1) * W
    <3>1. \A a, b, c \in Nat : a <= c => a * b <= c * b
      OBVIOUS
    <3>2. k # N => k \in Nat /\ N - 1 \in Nat /\ k <= N - 1
      BY <1>3
    <3> QED BY <1>2, <3>1, <3>2
  <2>4. (N - 1) * W \in Nat /\ from(k + 1) = k * W
    BY <1>2, <1>3
  <2>5. k # N => k * W <= n
    <3>1. k # N => n # 0
      BY DEF N
    <3> QED BY <1>3, <2>1, <2>3, <2>4, <3>1
  <2>6. /\ to(k) \in Nat /\ from(k) <= to(k) /\ to(k) <= n
        /\ to(k) - from(k) <= W
        /\ n # 0 => from(k) < to(k)
    <3> HIDE DEF from
    <3> QED BY <1>2, <2>1, <2>2
  <2>7. k # N => to(k) = from(k + 1)
    <3> SUFFICES ASSUME k # N PROVE to(k) = k * W
      BY <2>4
    <3> HIDE DEF from
    <3> QED BY <1>2, <2>1, <2>5
  <2>8. k = N => to(k) = n
    <3> HIDE DEF from
    <3> QED BY <1>3, <2>1
  <2> QED BY <2>1, <2>2, <2>6, <2>7, <2>8
<1>5. from(1) = 0
  BY <1>2
<1> HIDE DEF from, to
<1>6. ASSUME NEW k \in 1 .. N
      PROVE  /\ row(k) \in Row /\ Len(row(k)) = to(k) - from(k)
             /\ n = 0 => row(k) = <<>>
             /\ n # 0 => row(k) # <<>>
  <2>1. PICK m \in Nat : m = to(k) - from(k)
    BY <1>4
  <2>2. \A c \in 1 .. m : <<l, from(k) + c>> \in Nat \X Nat
    BY <1>4
  <2>3. row(k) \in Row /\ Len(row(k)) = m
    BY <2>1, <2>2 DEF Row
  <2>4. n = 0 => m = 0
    BY <1>4, <2>1
  <2>5. n # 0 => m # 0
    BY <1>4, <2>1
  <2> HIDE DEF row
  <2> QED BY <2>1, <2>3, <2>4, <2>5 DEF Row
<1>7. w \in [1 .. N -> Seq(Nat \X Nat)] /\ w \in Seq(Row) /\ Len(w) = N /\ \A k \in 1 .. N : w[k] = row(k)
  <2> HIDE DEF row
  <2> QED BY <1>3, <1>6 DEF Row
<1>8. FlattenSeq(w) = bytes(n)
  <2> DEFINE end(k) == IF k = 0 THEN 0 ELSE to(k)
             P == {k \in Nat : FlattenSeq(Firsts(w, k)) = bytes(end(k))}
  <2>1. 0 \in P
    <3>1. Firsts(w, 0) = <<>> /\ bytes(end(0)) = <<>>
      BY DEF Firsts
    <3> HIDE DEF bytes, end, w
    <3> QED BY <3>1, FlattenEmpty
  <2>2. ASSUME NEW k \in 0 .. N - 1, k \in P PROVE k + 1 \in P
    <3>1. k + 1 \in 1 .. N /\ from(k + 1) = end(k) /\ end(k) \in Nat
      <4>1. CASE k = 0
        BY <1>3, <1>5, <4>1
      <4>2. CASE k # 0
        <5>1. k \in 1 .. N /\ k # N
          BY <1>3, <4>2
        <5>2. to(k) = from(k + 1) /\ to(k) \in Nat
          BY <1>4, <5>1
        <5> QED BY <1>3, <4>2, <5>1, <5>2
      <4> QED BY <4>1, <4>2
    <3>2. FlattenSeq(Firsts(w, k + 1)) = bytes(end(k)) \o row(k + 1)
      <4>1. w[k + 1] = row(k + 1)
        BY <1>7, <3>1
      <4>2. FlattenSeq(Firsts(w, k + 1)) = FlattenSeq(Firsts(w, k)) \o w[k + 1]
        <5> HIDE DEF w
        <5>1. w \in Seq(Seq(Nat \X Nat)) /\ k \in Nat /\ k < Len(w)
          BY <1>3, <1>7 DEF Row
        <5> HIDE DEF P, bytes, end, row
        <5> QED BY <5>1, FlattenOneMore
      <4> HIDE DEF w, row, bytes, end
      <4> QED BY <2>2, <4>1, <4>2 DEF P
    <3>3. bytes(end(k)) \o row(k + 1) = bytes(end(k + 1))
      <4>1. PICK a \in Nat : a = end(k)
        BY <3>1
      <4>2. PICK b \in Nat : b = to(k + 1) /\ b = end(k + 1) /\ a <= b
        BY <1>4, <3>1, <4>1
      <4>3. [c \in 1 .. a |-> <<l, c>>] \o [c \in 1 .. b - a |-> <<l, a + c>>] = [c \in 1 .. b |-> <<l, c>>]
        BY <4>2, SMTT(60)
      <4> HIDE DEF end
      <4> QED BY <3>1, <4>1, <4>2, <4>3
    <3> HIDE DEF bytes, end, row, w
    <3> QED BY <3>1, <3>2, <3>3, SMTT(60)
  <2> HIDE DEF P
  <2>3. \A k \in 0 .. N : k \in P
    BY <1>3, <2>1, <2>2, UptoInduction
  <2>4. N \in P
    BY <1>3, <2>3
  <2>5. Firsts(w, N) = w /\ end(N) = n
    BY <1>3, <1>4 DEF Firsts
  <2> HIDE DEF bytes, end, w
  <2> QED BY <2>4, <2>5 DEF P
<1>9. n = 0 => N = 1
  BY DEF N
<1> HIDE DEF w, row
<1>10. \A k \in 1 .. N : Len(w[k]) <= MaxWidth
  BY <1>4, <1>6, <1>7 DEF W
<1> QED BY <1>1, <1>3, <1>6, <1>7, <1>8, <1>9, <1>10 DEF LineBytes

\* The rows of a file hold its bytes in order, and an empty row for each of
\* its empty lines.
LEMMA FileRows ==
    ASSUME NEW f \in Seq(Nat)
    PROVE  /\ Rows(f) \in Seq(Row) /\ Len(Rows(f)) >= Len(f)
           /\ FlattenSeq(Rows(f)) = Bytes(f)
           /\ \A i \in 1 .. Len(Rows(f)) : Len(Rows(f)[i]) <= MaxWidth
           /\ Count(Rows(f), {<<>>}) = Count(f, {0})
<1> DEFINE N == Len(f)
           W == [l \in 1 .. N |-> Wrapped(l, f[l])]
           B == [l \in 1 .. N |-> LineBytes(l, f[l])]
           R(k) == FlattenSeq(Firsts(W, k))
           Good(k) == /\ R(k) \in Seq(Row) /\ Len(R(k)) >= k
                      /\ FlattenSeq(R(k)) = FlattenSeq(Firsts(B, k))
                      /\ \A i \in 1 .. Len(R(k)) : Len(R(k)[i]) <= MaxWidth
                      /\ Count(R(k), {<<>>}) = Count(Firsts(f, k), {0})
           P == {k \in Nat : Good(k)}
<1>1. N \in Nat /\ DOMAIN f = 1 .. N /\ \A l \in 1 .. N : f[l] \in Nat
  OBVIOUS
<1>2. ASSUME NEW l \in 1 .. N
      PROVE  /\ W[l] \in Seq(Row) /\ Len(W[l]) >= 1
             /\ FlattenSeq(W[l]) = LineBytes(l, f[l])
             /\ \A k \in 1 .. Len(W[l]) : Len(W[l][k]) <= MaxWidth
             /\ Count(W[l], {<<>>}) = IF f[l] = 0 THEN 1 ELSE 0
  <2>1. W[l] = Wrapped(l, f[l]) /\ l \in Nat /\ f[l] \in Nat
    BY <1>1
  <2> HIDE DEF W, B, P, N
  <2>2. /\ W[l] \in Seq(Row) /\ Len(W[l]) >= 1
        /\ FlattenSeq(W[l]) = LineBytes(l, f[l])
        /\ \A k \in 1 .. Len(W[l]) : Len(W[l][k]) <= MaxWidth
        /\ f[l] = 0 => Len(W[l]) = 1 /\ W[l][1] = <<>>
        /\ f[l] # 0 => \A k \in 1 .. Len(W[l]) : W[l][k] # <<>>
    <3>1. \A n \in Nat : \A rows :
             rows = Wrapped(l, n)
             => /\ rows \in Seq(Row) /\ Len(rows) >= 1
                /\ FlattenSeq(rows) = LineBytes(l, n)
                /\ \A k \in 1 .. Len(rows) : Len(rows[k]) <= MaxWidth
                /\ n = 0 => Len(rows) = 1 /\ rows[1] = <<>>
                /\ n # 0 => \A k \in 1 .. Len(rows) : rows[k] # <<>>
      BY <2>1, WrappedRows
    <3> QED BY <2>1, <3>1
  <2>3. CASE f[l] = 0
    <3>1. {i \in DOMAIN W[l] : W[l][i] \in {<<>>}} = {1}
      BY <2>2, <2>3
    <3> QED BY <2>2, <2>3, <3>1, FS_Singleton, ZenonT(60) DEF Count
  <2>4. CASE f[l] # 0
    <3>1. \A x \in Range(W[l]) : x \notin {<<>>}
      BY <2>2, <2>4 DEF Range
    <3> QED BY <2>2, <2>4, <3>1, CountsNone
  <2> QED BY <2>3, <2>4
<1>3. W \in Seq(Seq(Row)) /\ Len(W) = N
  <2>1. PICK Q : Q = Seq(Row)
    OBVIOUS
  <2>2. \A l \in 1 .. N : Wrapped(l, f[l]) \in Q
    BY <1>2, <2>1
  <2>3. W \in Seq(Q) /\ Len(W) = N
    BY <1>1, <2>2
  <2> HIDE DEF W
  <2> QED BY <2>1, <2>3
<1>4. B \in Seq(Seq(Nat \X Nat)) /\ Len(B) = N
  <2>1. PICK Q : Q = Seq(Nat \X Nat)
    OBVIOUS
  <2>2. ASSUME NEW l \in 1 .. N PROVE LineBytes(l, f[l]) \in Q
    <3>1. l \in Nat /\ f[l] \in Nat
      BY <1>1
    <3>2. \A x, n \in Nat : [c \in 1 .. n |-> <<x, c>>] \in Seq(Nat \X Nat)
      OBVIOUS
    <3> QED BY <2>1, <3>1, <3>2 DEF LineBytes
  <2>3. B \in Seq(Q) /\ Len(B) = N
    BY <1>1, <2>2
  <2> HIDE DEF B
  <2> QED BY <2>1, <2>3
<1>5. Rows(f) = R(N) /\ Bytes(f) = FlattenSeq(Firsts(B, N)) /\ f = Firsts(f, N)
  <2>1. Firsts(W, N) = [l \in DOMAIN f |-> Wrapped(l, f[l])]
    BY <1>1 DEF Firsts
  <2>2. Firsts(B, N) = [l \in DOMAIN f |-> [c \in 1 .. f[l] |-> <<l, c>>]]
    BY <1>1 DEF Firsts, LineBytes
  <2>3. f = Firsts(f, N)
    BY <1>1 DEF Firsts
  <2> HIDE DEF W, B
  <2> QED BY <2>1, <2>2, <2>3 DEF Rows, Bytes
<1>6. 0 \in P
  <2>1. Firsts(W, 0) = <<>> /\ Firsts(B, 0) = <<>> /\ Firsts(f, 0) = <<>>
    BY DEF Firsts
  <2>2. R(0) = <<>> /\ FlattenSeq(<<>>) = <<>>
    BY <2>1, FlattenEmpty
  <2>3. Count(<<>>, {<<>>}) = 0 /\ Count(<<>>, {0}) = 0
    <3>1. \A x \in Range(<<>>) : FALSE
      BY DEF Range
    <3> QED BY <3>1, CountsNone
  <2> HIDE DEF R, W, B
  <2>4. R(0) \in Seq(Row) /\ Len(R(0)) = 0
    <3>1. <<>> \in Seq(Row) /\ Len(<<>>) = 0
      OBVIOUS
    <3> QED BY <2>2, <3>1
  <2>5. \A i \in 1 .. Len(R(0)) : FALSE
    BY <2>4
  <2>6. Good(0)
    BY <2>1, <2>2, <2>3, <2>4, <2>5
  <2> QED BY <2>6
<1> HIDE DEF W, B
<1>7. ASSUME NEW k \in 0 .. N - 1, k \in P PROVE k + 1 \in P
  <2>1. Good(k) /\ k \in Nat /\ k < N /\ k + 1 \in 1 .. N
    BY <1>1, <1>7
  <2>2. R(k + 1) = R(k) \o W[k + 1]
    BY <1>3, <2>1, FlattenOneMore
  <2> HIDE DEF R
  <2>3. R(k) \in Seq(Row) /\ W[k + 1] \in Seq(Row)
    BY <1>2, <2>1
  <2>4. FlattenSeq(R(k + 1)) = FlattenSeq(Firsts(B, k + 1))
    <3>1. FlattenSeq(R(k) \o W[k + 1]) = FlattenSeq(R(k)) \o FlattenSeq(W[k + 1])
      BY <2>3, FlattenConcat, ZenonT(60) DEF Row
    <3>2. FlattenSeq(Firsts(B, k + 1)) = FlattenSeq(Firsts(B, k)) \o B[k + 1]
      BY <1>4, <2>1, FlattenOneMore
    <3>3. B[k + 1] = LineBytes(k + 1, f[k + 1])
      BY <2>1 DEF B
    <3>4. FlattenSeq(W[k + 1]) = LineBytes(k + 1, f[k + 1])
      BY <1>2, <2>1
    <3> QED BY <2>1, <2>2, <3>1, <3>2, <3>3, <3>4
  <2>5. /\ R(k + 1) \in Seq(Row) /\ Len(R(k + 1)) >= k + 1
        /\ \A i \in 1 .. Len(R(k + 1)) : Len(R(k + 1)[i]) <= MaxWidth
    <3>1. PICK a \in Seq(Row), b \in Seq(Row) : a = R(k) /\ b = W[k + 1] /\ R(k + 1) = a \o b
      BY <2>2, <2>3
    <3>2. Len(W[k + 1]) >= 1 /\ \A i \in 1 .. Len(W[k + 1]) : Len(W[k + 1][i]) <= MaxWidth
      BY <1>2, <2>1
    <3>3. /\ a \o b \in Seq(Row) /\ Len(a \o b) = Len(a) + Len(b)
          /\ Len(a) \in Nat /\ Len(b) \in Nat
          /\ \A i \in 1 .. Len(a) : (a \o b)[i] = a[i]
          /\ \A i \in 1 .. Len(b) : (a \o b)[Len(a) + i] = b[i]
      BY SMTT(60)
    <3>4. ASSUME NEW i \in 1 .. Len(a \o b) PROVE Len((a \o b)[i]) <= MaxWidth
      <4>1. CASE i \in 1 .. Len(a)
        <5>1. Len(a[i]) <= MaxWidth
          BY <2>1, <3>1, <4>1
        <5> QED BY <3>3, <4>1, <5>1
      <4>2. CASE i \notin 1 .. Len(a)
        <5>1. i - Len(a) \in 1 .. Len(b) /\ Len(a) + (i - Len(a)) = i
          BY <3>3, <4>2
        <5>2. (a \o b)[i] = b[i - Len(a)]
          BY <3>3, <5>1
        <5>3. Len(b[i - Len(a)]) <= MaxWidth
          BY <3>1, <3>2, <5>1
        <5> QED BY <5>2, <5>3
      <4> QED BY <4>1, <4>2
    <3>5. Len(a \o b) >= k + 1
      BY <2>1, <3>1, <3>2, <3>3, SMTT(60)
    <3> QED BY <3>1, <3>3, <3>4, <3>5
  <2>6. Count(R(k + 1), {<<>>}) = Count(Firsts(f, k + 1), {0})
    <3>1. Count(R(k + 1), {<<>>}) = Count(R(k), {<<>>}) + Count(W[k + 1], {<<>>})
      <4>1. \A M : Count(R(k) \o W[k + 1], M) = Count(R(k), M) + Count(W[k + 1], M)
        BY <2>3, CountConcat
      <4> QED BY <2>2, <4>1
    <3>2. Count(W[k + 1], {<<>>}) = IF f[k + 1] = 0 THEN 1 ELSE 0
      BY <1>2, <2>1
    <3>3. Firsts(f, k + 1) = Append(Firsts(f, k), f[k + 1]) /\ Firsts(f, k) \in Seq(Nat)
      BY <1>1, <2>1, SMTT(60) DEF Firsts
    <3>4. Count(Append(Firsts(f, k), f[k + 1]), {0})
             = Count(Firsts(f, k), {0}) + (IF f[k + 1] \in {0} THEN 1 ELSE 0)
      BY <3>3, CountAppend
    <3> QED BY <2>1, <3>1, <3>2, <3>3, <3>4
  <2>7. Good(k + 1)
    BY <2>4, <2>5, <2>6
  <2> HIDE DEF Good
  <2> QED BY <2>1, <2>7
<1> HIDE DEF Good, R
<1>8. Good(N)
  <2> HIDE DEF P
  <2>1. \A k \in 0 .. N : k \in P
    BY <1>1, <1>6, <1>7, UptoInduction
  <2>2. N \in P
    BY <1>1, <2>1
  <2> QED BY <2>2 DEF P
<1> QED BY <1>5, <1>8 DEF Good

\* The rows on the first k pages of a file.
Beginning(f, k) ==
    LET n == Len(Rows(f)) IN SubSeq(Rows(f), 1, IF k * ViewLines > n THEN n ELSE k * ViewLines)

\* Each page follows the ones before it, and the last page ends the file.
LEMMA PagesOfFile ==
    ASSUME NEW f \in File, NEW ps, ps = Paginate(f)
    PROVE  /\ Len(ps) \in Nat /\ Len(ps) >= 1
           /\ ps[1] = Beginning(f, 1)
           /\ \A k \in 1 .. Len(ps) - 1 : Beginning(f, k) \o ps[k + 1] = Beginning(f, k + 1)
           /\ Beginning(f, Len(ps)) = Rows(f)
<1> DEFINE R == Rows(f)
           n == Len(R)
           V == ViewLines
           K == (n + V - 1) \div V
           to(k) == IF k * V > n THEN n ELSE k * V
           page(k) == SubSeq(R, (k - 1) * V + 1, to(k))
<1>1. R \in Seq(Row) /\ n \in Nat /\ n >= 1 /\ V \in Nat /\ V >= 1
  <2>1. f \in Seq(Nat) /\ f # <<>>
    BY FileAssumption
  <2>2. Len(f) \in Nat /\ Len(f) # 0
    BY <2>1
  <2>3. R \in Seq(Row) /\ n >= Len(f)
    BY <2>1, FileRows
  <2>4. n \in Nat
    BY <2>3
  <2>5. ViewLines \in Nat \ {0}
    BY BoundsAssumption
  <2> QED BY <2>2, <2>3, <2>4, <2>5
<1>2. ps = [k \in 1 .. K |-> page(k)]
  BY DEF Paginate
<1>3. \A k : Beginning(f, k) = SubSeq(R, 1, to(k))
  BY DEF Beginning
<1> HIDE DEF R, V
<1>4. K \in Nat /\ K >= 1 /\ n <= K * V /\ (K - 1) * V < n
  <2>1. n + V - 1 \in Nat
    BY <1>1
  <2>2. \A a \in Nat, b \in Nat \ {0} : a \div b \in Nat /\ b * (a \div b) <= a /\ a < b * (a \div b) + b
    OBVIOUS
  <2>3. K \in Nat /\ V * K <= n + V - 1 /\ n + V - 1 < V * K + V
    BY <1>1, <2>1, <2>2
  <2> HIDE DEF K, n
  <2>4. \A a, b, q \in Nat : b >= 1 /\ a # 0 /\ b * q <= a + b - 1 /\ a + b - 1 < b * q + b
           => q # 0 /\ a <= q * b /\ (q - 1) * b < a
    OBVIOUS
  <2> QED BY <1>1, <2>3, <2>4
<1> HIDE DEF K, n
<1>5. Len(ps) = K
  <2>1. \A h : Len([k \in 1 .. K |-> h[k]]) = K
    BY <1>4
  <2>2. ps = [k \in 1 .. K |-> ps[k]]
    <3>1. DOMAIN ps = 1 .. K /\ ps = [k \in DOMAIN ps |-> ps[k]]
      BY <1>2
    <3> QED BY <3>1
  <2> QED BY <2>1, <2>2
<1>6. ps[1] = Beginning(f, 1)
  <2>1. (1 - 1) * V + 1 = 1
    BY <1>1
  <2>2. ps[1] = page(1)
    <3> HIDE DEF page
    <3> QED BY <1>2, <1>4
  <2> QED BY <1>3, <2>1, <2>2
<1>7. Beginning(f, K) = Rows(f)
  <2>1. to(K) = n
    <3>1. K * V \in Nat
      BY <1>1, <1>4
    <3> QED BY <1>1, <1>4, <3>1
  <2>2. \A s \in Seq(Row) : SubSeq(s, 1, Len(s)) = s
    OBVIOUS
  <2> QED BY <1>1, <1>3, <2>1, <2>2 DEF R, n
<1>8. ASSUME NEW k \in 1 .. K - 1
      PROVE  Beginning(f, k) \o ps[k + 1] = Beginning(f, k + 1)
  <2>1. k * V \in Nat /\ k * V < n /\ (k + 1) * V = k * V + V
    <3>1. \A a, b, c \in Nat : a <= c => a * b <= c * b
      OBVIOUS
    <3>2. k \in Nat /\ K - 1 \in Nat /\ k <= K - 1
      BY <1>4
    <3>3. k * V <= (K - 1) * V /\ k * V \in Nat /\ (K - 1) * V \in Nat
      BY <1>1, <3>1, <3>2
    <3>4. (k + 1) * V = k * V + V
      BY <1>1, <3>2
    <3> QED BY <1>1, <1>4, <3>3, <3>4
  <2>2. PICK a \in Nat, b \in Nat : a = k * V /\ b = to(k + 1) /\ a <= b /\ b <= n
    BY <1>1, <2>1
  <2>3. to(k) = a /\ ps[k + 1] = SubSeq(R, a + 1, b)
    <3>1. k + 1 \in 1 .. K /\ (k + 1) - 1 = k
      BY <1>4
    <3>2. ps[k + 1] = SubSeq(R, ((k + 1) - 1) * V + 1, to(k + 1))
      BY <1>2, <3>1
    <3> HIDE DEF to
    <3>3. ps[k + 1] = SubSeq(R, a + 1, b)
      BY <2>2, <3>1, <3>2
    <3>4. to(k) = a
      BY <1>1, <2>1, <2>2 DEF to
    <3> QED BY <3>3, <3>4
  <2>4. \A s \in Seq(Row) : \A i, j \in Nat :
           i <= j /\ j <= Len(s) => SubSeq(s, 1, i) \o SubSeq(s, i + 1, j) = SubSeq(s, 1, j)
    OBVIOUS
  <2>5. Beginning(f, k) = SubSeq(R, 1, a) /\ Beginning(f, k + 1) = SubSeq(R, 1, b)
    BY <1>3, <2>2, <2>3
  <2> QED BY <1>1, <2>2, <2>3, <2>4, <2>5, ZenonT(60) DEF n
<1> QED BY <1>4, <1>5, <1>6, <1>7, <1>8

\* The beginning of the rows is the beginning of the bytes.
LEMMA BeginningOfFile ==
    ASSUME NEW f \in File, NEW k \in Nat
    PROVE  /\ IsPrefix(FlattenSeq(Beginning(f, k)), Bytes(f))
           /\ \A i \in DOMAIN Beginning(f, k) : Len(Beginning(f, k)[i]) <= MaxWidth
<1>1. f \in Seq(Nat)
  BY FileAssumption
<1>2. PICK R \in Seq(Row) : R = Rows(f)
  BY <1>1, FileRows
<1>3. ViewLines \in Nat /\ k * ViewLines \in Nat
  <2>1. ViewLines \in Nat
    BY BoundsAssumption
  <2> QED BY <2>1
<1>4. PICK m \in Nat : m <= Len(R) /\ Beginning(f, k) = SubSeq(R, 1, m)
  <2>1. Len(R) \in Nat
    OBVIOUS
  <2> QED BY <1>2, <1>3, <2>1 DEF Beginning
<1> DEFINE b == SubSeq(R, 1, m)
           r == SubSeq(R, m + 1, Len(R))
<1>5. /\ b \in Seq(Row) /\ r \in Seq(Row) /\ R = b \o r /\ DOMAIN b = 1 .. m
      /\ \A i \in 1 .. m : b[i] = R[i] /\ i \in 1 .. Len(R)
  <2>1. Len(R) \in Nat
    OBVIOUS
  <2>2. b \in Seq(Row) /\ r \in Seq(Row) /\ b \o r = R
    BY <1>4, SplitAt
  <2>3. /\ DOMAIN b = 1 .. m
        /\ \A i \in 1 .. m : b[i] = R[i] /\ i \in 1 .. Len(R)
    BY <1>4, <2>1
  <2> QED BY <2>2, <2>3
<1> HIDE DEF b, r
<1>6. FlattenSeq(R) = FlattenSeq(b) \o FlattenSeq(r)
  BY <1>5, FlattenConcat DEF Row
<1>7. FlattenSeq(b) \in Seq(Nat \X Nat) /\ FlattenSeq(r) \in Seq(Nat \X Nat)
  <2>1. <<>> \in Seq(Nat \X Nat)
    OBVIOUS
  <2> QED BY <1>5, <2>1, FlattenAppend DEF Row
<1>8. IsPrefix(FlattenSeq(b), FlattenSeq(R))
  <2>1. \A x, y \in Seq(Nat \X Nat) :
           Len(x) <= Len(x \o y) /\ SubSeq(x, 1, Len(x)) = SubSeq(x \o y, 1, Len(x))
    OBVIOUS
  <2> QED BY <1>6, <1>7, <2>1 DEF IsPrefix
<1>9. FlattenSeq(R) = Bytes(f) /\ \A i \in 1 .. Len(R) : Len(R[i]) <= MaxWidth
  BY <1>1, <1>2, FileRows
<1> QED BY <1>4, <1>5, <1>8, <1>9 DEF b

-----------------------------------------------------------------------------
(* The page shown and what its last line asks for.                         *)

\* What has been shown of the file is its pages up to the one shown.
PageShown ==
    /\ Len(pages) \in Nat /\ pageIdx \in Nat
    /\ state = "view" =>
          /\ file \in File
          /\ pages = Paginate(file)
          /\ pageIdx < Len(pages)
          /\ shown = Beginning(file, pageIdx + 1)

ViewInv == PageShown /\ PromptFits

LEMMA InitView == Init => ViewInv
<1> SUFFICES ASSUME Init PROVE ViewInv
  OBVIOUS
<1>1. state = "login_user" /\ Len(pages) = 0 /\ pageIdx = 0 /\ prompt = "USERID"
  BY DEF Init
<1> QED BY <1>1 DEF ViewInv, PageShown, PromptFits, Awaited

LEMMA MenuShown ==
    ASSUME ViewInv, NEW path, MenuScreen(path), pages' = pages, pageIdx' \in Nat
    PROVE  ViewInv'
  BY DEF ViewInv, PageShown, PromptFits, Awaited, MenuScreen

LEMMA StepView == ViewInv /\ [Input]_vars => ViewInv'
<1> SUFFICES ASSUME ViewInv, [Input]_vars PROVE ViewInv'
  OBVIOUS
<1>1. CASE EnterUserid \/ LogonRejected \/ Logoff
  BY <1>1 DEF EnterUserid, LogonRejected, Logoff, Greeting, ViewInv, PageShown, PromptFits, Awaited
<1>2. CASE LogonAccepted \/ Back \/ OpenMenu \/ InvalidSelection
  <2>1. pageIdx \in Nat
    BY DEF ViewInv, PageShown
  <2> QED BY <1>2, <2>1, MenuShown DEF LogonAccepted, Back, OpenMenu, InvalidSelection
<1>3. CASE EndView
  <2>1. pageIdx + 1 \in Nat
    BY DEF ViewInv, PageShown
  <2> QED BY <1>3, <2>1, MenuShown DEF EndView
<1>4. CASE OpenFile
  <2>1. CASE MenuScreen(stack) /\ UNCHANGED <<userid, user, pages, pageIdx>>
    <3>1. pageIdx \in Nat
      BY DEF ViewInv, PageShown
    <3> QED BY <2>1, <3>1, MenuShown
  <2>2. ASSUME NEW f \in File, ViewScreen(Paginate(f), 0), file' = f, shown' = Paginate(f)[1]
        PROVE  ViewInv'
    <3>1. PICK ps : ps = Paginate(f)
      OBVIOUS
    <3>2. Len(ps) \in Nat /\ Len(ps) >= 1 /\ ps[1] = Beginning(f, 1)
      BY <3>1, PagesOfFile
    <3>3. /\ state' = "view" /\ pages' = ps /\ pageIdx' = 0
          /\ prompt' = IF 0 + 1 < Len(ps) THEN "MORE" ELSE "END"
          /\ file' = f /\ shown' = ps[1]
      BY <2>2, <3>1 DEF ViewScreen
    <3>4. PageShown'
      BY <3>1, <3>2, <3>3 DEF PageShown
    <3>5. PromptFits'
      BY <3>2, <3>3 DEF PromptFits, Awaited
    <3> QED BY <3>4, <3>5 DEF ViewInv
  <2> QED BY <1>4, <2>1, <2>2 DEF OpenFile
<1>5. CASE NextPage
  <2>1. /\ state' = "view" /\ pages' = pages /\ pageIdx' = pageIdx + 1
        /\ prompt' = IF (pageIdx + 1) + 1 < Len(pages) THEN "MORE" ELSE "END"
        /\ file' = file /\ shown' = shown \o pages[pageIdx + 2]
        /\ state = "view" /\ pageIdx + 1 < Len(pages)
    BY <1>5 DEF NextPage, ViewScreen
  <2>2. /\ Len(pages) \in Nat /\ pageIdx \in Nat /\ file \in File /\ pages = Paginate(file)
        /\ shown = Beginning(file, pageIdx + 1)
    BY <2>1 DEF ViewInv, PageShown
  <2>3. shown' = Beginning(file, pageIdx + 2)
    <3>1. \A k \in 1 .. Len(pages) - 1 : Beginning(file, k) \o pages[k + 1] = Beginning(file, k + 1)
      BY <2>2, PagesOfFile
    <3>2. pageIdx + 1 \in 1 .. Len(pages) - 1 /\ (pageIdx + 1) + 1 = pageIdx + 2
      BY <2>1, <2>2
    <3>3. Beginning(file, pageIdx + 1) \o pages[(pageIdx + 1) + 1] = Beginning(file, (pageIdx + 1) + 1)
      BY <3>1, <3>2
    <3> QED BY <2>1, <2>2, <3>2, <3>3
  <2>4. PageShown'
    <3>1. pageIdx + 1 \in Nat /\ (pageIdx + 1) + 1 = pageIdx + 2
      BY <2>2
    <3> QED BY <2>1, <2>2, <2>3, <3>1 DEF PageShown
  <2>5. PromptFits'
    BY <2>1, <2>2 DEF PromptFits, Awaited
  <2> QED BY <2>4, <2>5 DEF ViewInv
<1>6. CASE UNCHANGED vars
  BY <1>6 DEF vars, session, ViewInv, PageShown, PromptFits, Awaited
<1> QED BY <1>1, <1>2, <1>3, <1>4, <1>5, <1>6 DEF Input

(***************************************************************************)
(* The last line of every screen asks for what the session will take the   *)
(* next line for, whatever is configured and typed.                        *)
(***************************************************************************)
THEOREM PromptsFit == Spec => []PromptFits
<1>1. ViewInv => PromptFits
  BY DEF ViewInv
<1> QED BY <1>1, InitView, StepView, PTL DEF Spec

(***************************************************************************)
(* Whatever file is opened, what its pages have shown is the beginning of  *)
(* it, and all of it when the prompt says that the view ends.              *)
(***************************************************************************)
THEOREM FilesAreShown == Spec => []FileShown
<1>1. ViewInv => FileShown
  <2> SUFFICES ASSUME ViewInv, state = "view"
               PROVE  /\ pageIdx < Len(pages)
                      /\ IsPrefix(FlattenSeq(shown), Bytes(file))
                      /\ \A i \in DOMAIN shown : Len(shown[i]) <= MaxWidth
                      /\ prompt = "END" =>
                            FlattenSeq(shown) = Bytes(file) /\ Empty(shown, <<>>) = Empty(file, 0)
    BY DEF FileShown
  <2>1. /\ Len(pages) \in Nat /\ pageIdx \in Nat /\ file \in File /\ pages = Paginate(file)
        /\ pageIdx < Len(pages) /\ shown = Beginning(file, pageIdx + 1)
    BY DEF ViewInv, PageShown
  <2>2. /\ IsPrefix(FlattenSeq(shown), Bytes(file))
        /\ \A i \in DOMAIN shown : Len(shown[i]) <= MaxWidth
    <3>1. pageIdx + 1 \in Nat
      BY <2>1
    <3> QED BY <2>1, <3>1, BeginningOfFile
  <2>3. ASSUME prompt = "END"
        PROVE  FlattenSeq(shown) = Bytes(file) /\ Empty(shown, <<>>) = Empty(file, 0)
    <3>1. pageIdx + 1 = Len(pages)
      BY <2>1, <2>3 DEF ViewInv, PromptFits, Awaited
    <3>2. shown = Rows(file)
      BY <2>1, <3>1, PagesOfFile
    <3>3. file \in Seq(Nat)
      BY <2>1, FileAssumption
    <3>4. FlattenSeq(Rows(file)) = Bytes(file) /\ Count(Rows(file), {<<>>}) = Count(file, {0})
      BY <3>3, FileRows
    <3>5. \A s, e : Empty(s, e) = Count(s, {e})
      BY DEF Empty, Count
    <3> QED BY <3>2, <3>4, <3>5
  <2> QED BY <2>1, <2>2, <2>3
<1> QED BY <1>1, InitView, StepView, PTL DEF Spec

-----------------------------------------------------------------------------
(* The types.                                                              *)

\* Only a word is given to the session.
LEMMA WordIsText ==
    ASSUME NEW s \in Seq(Text \cup {":"})
    PROVE  ExtractInput(s) \in Text
<1> DEFINE S == Text \cup {":"}
           I == {i \in 1 .. Len(s) : s[i] = ":"}
           p == IF I # {} THEN Max(I) ELSE 0
<1>1. s \in Seq(S) /\ Len(s) \in Nat /\ \A i \in 1 .. Len(s) : s[i] \in S
  OBVIOUS
<1> HIDE DEF S
<1>2. I # {} => Max(I) \in I /\ \A i \in I : i <= Max(I)
  <2>1. I \in SUBSET (0 .. Len(s))
    BY <1>1
  <2> HIDE DEF I
  <2> QED BY <1>1, <2>1, GreatestIsMax
<1>3. /\ p \in 0 .. Len(s) /\ (p # 0 => s[p] = ":")
      /\ \A i \in p + 1 .. Len(s) : s[i] # ":"
  <2>1. CASE I = {}
    <3>1. p = 0
      BY <2>1
    <3>2. \A i \in 1 .. Len(s) : s[i] # ":"
      BY <2>1
    <3> HIDE DEF p
    <3> QED BY <1>1, <3>1, <3>2
  <2>2. CASE I # {}
    <3>1. p \in 1 .. Len(s) /\ s[p] = ":" /\ \A i \in I : i <= p
      BY <1>2, <2>2
    <3> HIDE DEF p
    <3>2. ASSUME NEW i \in p + 1 .. Len(s) PROVE s[i] # ":"
      <4>1. i \in 1 .. Len(s) /\ ~ (i <= p)
        BY <1>1, <3>1
      <4> QED BY <3>1, <4>1
    <3> QED BY <1>1, <3>1, <3>2
  <2> QED BY <2>1, <2>2
<1> HIDE DEF p, I
<1>4. ExtractInput(s) = IF p = Len(s) THEN "" ELSE s[Len(s)]
  BY <1>1, <1>3, AfterColon
<1>5. CASE p = Len(s)
  BY <1>4, <1>5, UpperAssumption
<1>6. CASE p # Len(s)
  <2>1. Len(s) \in p + 1 .. Len(s) /\ Len(s) \in 1 .. Len(s)
    BY <1>1, <1>3, <1>6
  <2> QED BY <1>1, <1>3, <1>4, <1>6, <2>1 DEF S
<1> QED BY <1>5, <1>6

LEMMA LineIsText ==
    ASSUME typed' \in Typed, line' \in {ExtractInput(typed'), ExtractInput(Display \o typed')}
    PROVE  line' \in Text
<1> DEFINE S == Text \cup {":"}
<1>1. PICK t \in Typed : t = typed'
  OBVIOUS
<1>2. t \in Seq(S)
  <2>1. t \in Seq(S \ {""})
    BY BoundsAssumption
  <2>2. S \ {""} \subseteq S
    OBVIOUS
  <2> HIDE DEF S
  <2> QED BY <2>1, <2>2, WiderSeq
<1>3. Display \in Seq(S)
  <2>1. "--" \in S /\ ":" \in S /\ "B" \in S
    BY UpperAssumption
  <2> HIDE DEF S
  <2> QED BY <2>1 DEF Display
<1>4. Display \o t \in Seq(S)
  <2> HIDE DEF S
  <2> QED BY <1>2, <1>3
<1> QED BY <1>1, <1>2, <1>4, WordIsText

LEMMA PagesType ==
    ASSUME NEW f \in File
    PROVE  Paginate(f) \in Seq(Seq(Row))
<1> DEFINE V == ViewLines
           n == Len(Rows(f))
           K == (n + V - 1) \div V
           to(k) == IF k * V > n THEN n ELSE k * V
           page(k) == SubSeq(Rows(f), (k - 1) * V + 1, to(k))
<1>1. PICK R \in Seq(Row) : R = Rows(f) /\ n \in Nat /\ n = Len(R)
  <2>1. f \in Seq(Nat)
    BY FileAssumption
  <2>2. Rows(f) \in Seq(Row)
    BY <2>1, FileRows
  <2> QED BY <2>2
<1>2. V \in Nat /\ V >= 1
  <2>1. ViewLines \in Nat \ {0}
    BY BoundsAssumption
  <2> QED BY <2>1
<1>3. Paginate(f) = [k \in 1 .. K |-> page(k)]
  BY DEF Paginate
<1> HIDE DEF V, n
<1>4. K \in Nat
  <2>1. n + V - 1 \in Nat
    BY <1>1, <1>2
  <2>2. \A a \in Nat, b \in Nat \ {0} : a \div b \in Nat
    OBVIOUS
  <2> QED BY <1>2, <2>1, <2>2
<1> HIDE DEF K
<1>5. PICK Q : Q = Seq(Row)
  OBVIOUS
<1>6. ASSUME NEW k \in 1 .. K PROVE page(k) \in Q
  <2>1. (k - 1) * V \in Nat /\ k * V \in Nat
    BY <1>2, <1>4
  <2>2. (k - 1) * V + 1 \in Nat \ {0} /\ to(k) \in Nat /\ to(k) <= n
    BY <1>1, <2>1
  <2>3. \A i \in Nat \ {0}, j \in Nat : j <= Len(R) => SubSeq(R, i, j) \in Seq(Row)
    OBVIOUS
  <2> HIDE DEF to
  <2> QED BY <1>1, <1>5, <2>2, <2>3
<1> HIDE DEF page
<1>7. [k \in 1 .. K |-> page(k)] \in Seq(Q)
  BY <1>4, <1>6
<1> QED BY <1>3, <1>5, <1>7

\* The types of what is entered and of the file; those of the menus are in
\* MenuInv.
EntryTypes ==
    /\ userid \in Text /\ line \in Text /\ typed \in Typed \cup {<<>>}
    /\ prompt \in Prompt
FileTypes ==
    /\ file \in File \cup {<<>>} /\ shown \in Seq(Row)
    /\ pages \in Seq(Seq(Row)) /\ pageIdx \in Nat
Shallow == Len(stack) <= MaxDepth

LEMMA InitTypes == Init => EntryTypes /\ FileTypes /\ Shallow
<1> SUFFICES ASSUME Init PROVE EntryTypes /\ FileTypes /\ Shallow
  OBVIOUS
<1>1. EntryTypes
  BY UpperAssumption DEF Init, EntryTypes, Prompt
<1>2. FileTypes
  <2>1. <<>> \in Seq(Row) /\ <<>> \in Seq(Seq(Row))
    OBVIOUS
  <2>2. file = <<>> /\ shown = <<>> /\ pages = <<>> /\ pageIdx = 0
    BY DEF Init
  <2> QED BY <2>1, <2>2 DEF FileTypes
<1>3. Len(stack) = 0 /\ MaxDepth \in Nat
  BY BoundsAssumption DEF Init
<1> QED BY <1>1, <1>2, <1>3 DEF Shallow

LEMMA StepEntry == EntryTypes /\ [Input]_vars => EntryTypes'
<1> SUFFICES ASSUME EntryTypes, [Input]_vars PROVE EntryTypes'
  OBVIOUS
<1>1. CASE Input
  <2>1. typed' \in Typed /\ line' \in Text
    BY <1>1, LineIsText DEF Input
  <2>2. userid' \in Text /\ prompt' \in Prompt
    <3>1. "" \in Text
      BY UpperAssumption
    <3>2. CASE EnterUserid \/ LogonRejected \/ Logoff
      BY <2>1, <3>1, <3>2 DEF EnterUserid, LogonRejected, Logoff, Greeting, EntryTypes, Prompt
    <3>3. CASE LogonAccepted \/ Back \/ OpenMenu \/ InvalidSelection \/ EndView
      BY <3>3 DEF LogonAccepted, Back, OpenMenu, InvalidSelection, EndView, MenuScreen, EntryTypes, Prompt
    <3>4. CASE OpenFile \/ NextPage
      BY <3>4 DEF OpenFile, NextPage, ViewScreen, MenuScreen, EntryTypes, Prompt
    <3> QED BY <1>1, <3>2, <3>3, <3>4 DEF Input
  <2> QED BY <2>1, <2>2 DEF EntryTypes
<1>2. CASE UNCHANGED vars
  BY <1>2 DEF vars, session, EntryTypes
<1> QED BY <1>1, <1>2

LEMMA StepFile == FileTypes /\ [Input]_vars => FileTypes'
<1> SUFFICES ASSUME FileTypes, [Input]_vars PROVE FileTypes'
  OBVIOUS
<1>1. CASE EnterUserid \/ LogonRejected \/ Logoff
  BY <1>1 DEF EnterUserid, LogonRejected, Logoff, Greeting, FileTypes
<1>2. CASE LogonAccepted \/ Back \/ OpenMenu \/ InvalidSelection \/ EndView
  BY <1>2 DEF LogonAccepted, Back, OpenMenu, InvalidSelection, EndView, MenuScreen, FileTypes
<1>3. CASE OpenFile
  <2>1. CASE MenuScreen(stack) /\ UNCHANGED <<userid, user, pages, pageIdx>>
    BY <2>1 DEF MenuScreen, FileTypes
  <2>2. ASSUME NEW f \in File, ViewScreen(Paginate(f), 0), file' = f, shown' = Paginate(f)[1]
        PROVE  FileTypes'
    <3>1. PICK Q : Q = Seq(Row)
      OBVIOUS
    <3>2. PICK ps \in Seq(Q) : ps = Paginate(f)
      BY <3>1, PagesType
    <3>3. ps[1] \in Q
      <4>1. Len(ps) >= 1
        BY <3>2, PagesOfFile
      <4> QED BY <4>1
    <3>4. pages' = ps /\ pageIdx' = 0
      BY <2>2, <3>2 DEF ViewScreen
    <3> QED BY <2>2, <3>1, <3>2, <3>3, <3>4 DEF FileTypes
  <2> QED BY <1>3, <2>1, <2>2 DEF OpenFile
<1>4. CASE NextPage
  <2>1. PICK Q : Q = Seq(Row)
    OBVIOUS
  <2>2. PICK ps \in Seq(Q) : ps = pages
    BY <2>1 DEF FileTypes
  <2>3. PICK k \in Nat : k = pageIdx
    BY DEF FileTypes
  <2>4. ps[k + 2] \in Q
    <3>1. k + 1 < Len(ps)
      BY <1>4, <2>2, <2>3 DEF NextPage
    <3> QED BY <3>1
  <2>5. shown \o ps[k + 2] \in Seq(Row)
    <3>1. shown \in Seq(Row)
      BY DEF FileTypes
    <3> QED BY <2>1, <2>4, <3>1
  <2>6. pages' = ps /\ pageIdx' = k + 1 /\ file' = file /\ shown' = shown \o ps[k + 2]
    BY <1>4, <2>2, <2>3 DEF NextPage, ViewScreen
  <2> QED BY <2>1, <2>2, <2>5, <2>6 DEF FileTypes
<1>5. CASE UNCHANGED vars
  BY <1>5 DEF vars, session, FileTypes
<1> QED BY <1>1, <1>2, <1>3, <1>4, <1>5 DEF Input

LEMMA StepDepth == MenuInv /\ Shallow /\ [Input]_vars => Shallow'
<1> SUFFICES ASSUME MenuInv, Shallow, [Input]_vars PROVE Shallow'
  OBVIOUS
<1>1. MaxDepth \in Nat /\ 1 <= MaxDepth
  <2>1. MaxDepth \in Nat \ {0}
    BY BoundsAssumption
  <2> QED BY <2>1
<1>2. stack \in Seq(DOMAIN Menus) /\ Len(stack) \in Nat
  BY DEF MenuInv, MenuTypeOK
<1>3. CASE EnterUserid \/ LogonRejected \/ InvalidSelection \/ EndView
  BY <1>3 DEF EnterUserid, LogonRejected, InvalidSelection, EndView, MenuScreen, Shallow
<1>4. CASE OpenFile \/ NextPage
  BY <1>4 DEF OpenFile, NextPage, MenuScreen, ViewScreen, Shallow
<1>5. CASE Logoff
  <2>1. stack' = <<>> /\ Len(<<>>) = 0
    BY <1>5 DEF Logoff, Greeting
  <2> QED BY <1>1, <2>1 DEF Shallow
<1>6. CASE LogonAccepted
  <2>1. PICK m : stack' = <<m>>
    BY <1>6 DEF LogonAccepted, MenuScreen
  <2>2. Len(<<m>>) = 1
    OBVIOUS
  <2> QED BY <1>1, <2>1, <2>2 DEF Shallow
<1>7. CASE Back
  <2>1. CASE Len(stack) > 1
    <3>1. stack' = SubSeq(stack, 1, Len(stack) - 1)
      BY <1>7, <2>1 DEF Back, MenuScreen, Front
    <3>2. Len(SubSeq(stack, 1, Len(stack) - 1)) = Len(stack) - 1
      BY <1>2, <2>1
    <3> QED BY <1>1, <1>2, <3>1, <3>2 DEF Shallow
  <2>2. CASE ~ (Len(stack) > 1)
    BY <1>7, <2>2 DEF Back, MenuScreen, Shallow
  <2> QED BY <2>1, <2>2
<1>8. CASE OpenMenu
  <2>1. PICK m : stack' = Append(stack, m)
    BY <1>8 DEF OpenMenu, MenuScreen
  <2>2. Len(Append(stack, m)) = Len(stack) + 1 /\ Len(stack) < MaxDepth
    BY <1>2, <1>8 DEF OpenMenu
  <2> QED BY <1>1, <1>2, <2>1, <2>2 DEF Shallow
<1>9. CASE UNCHANGED vars
  BY <1>9 DEF vars, session, Shallow
<1> QED BY <1>3, <1>4, <1>5, <1>6, <1>7, <1>8, <1>9 DEF Input

(***************************************************************************)
(* The session is only ever given a word or the empty line, never a colon  *)
(* of a prompt; its pages are made of rows of a file's bytes, and its      *)
(* stack of menus of the configuration.                                    *)
(***************************************************************************)
THEOREM TypeCorrect == Spec => []TypeOK
<1>1. MenuInv /\ EntryTypes /\ FileTypes /\ Shallow => TypeOK
  BY DEF MenuInv, MenuTypeOK, EntryTypes, FileTypes, Shallow, TypeOK
<1> QED BY <1>1, InitMenu, StepMenu, InitTypes, StepEntry, StepFile, StepDepth, PTL DEF Spec

=============================================================================
