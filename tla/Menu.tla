-------------------------------- MODULE Menu --------------------------------
(***************************************************************************)
(* One terminal's walk through the menu system: Session of                 *)
(* src/internal/menu/menu.go.  Module SnaProbe creates a session when a    *)
(* terminal attaches, feeds it the typed lines and drops it again.         *)
(*                                                                         *)
(* What the user types is a sequence of words and colons, from which       *)
(* extractInput (snaprobe.go) takes one word; once the display has         *)
(* scrolled it has to find it in all that is on the screen.  A file is the *)
(* lengths of its lines; a screen is what its last line asks for.          *)
(***************************************************************************)
EXTENDS Naturals, SequencesExt

CONSTANTS
    Text,       \* lines, user names, passwords and keys
    Upper,      \* strings.ToUpper; strings are EqualFold iff equal under it
    Users,      \* Config.Users
    Menus,      \* Config.Menus: the items of each menu
    ViewLines,  \* lines of a file on one page (12 in the code)
    MaxWidth,   \* where longer lines of a file are wrapped (79)
    File,       \* files: the length of each line
    Typed,      \* what a user may type: words and colons
    MaxDepth    \* bound: length of the stack, which the code does not limit

NoMenu == "no menu"
User == [username : Text, password : Text, menu : DOMAIN Menus]
MenuItem == [key : Text, menu : DOMAIN Menus \cup {NoMenu}]

ASSUME UpperAssumption ==
    /\ Upper \in [Text -> Text]
    /\ {"", "X", "B", "--"} \subseteq Text /\ ":" \notin Text
    /\ \A t \in {"", "X", "B"} : Upper[t] = t

\* Config.validate; an item without a menu has a file.
ASSUME ConfigAssumption ==
    /\ Users \in Seq(User) /\ Users # <<>>
    /\ \A i \in DOMAIN Users : Users[i].username # ""
    /\ NoMenu \notin DOMAIN Menus
    /\ \A m \in DOMAIN Menus : Menus[m] \in Seq(MenuItem)

ASSUME BoundsAssumption ==
    /\ ViewLines \in Nat \ {0} /\ MaxWidth \in Nat \ {0} /\ MaxDepth \in Nat \ {0}
    /\ Typed \subseteq Seq((Text \cup {":"}) \ {""})

\* strings.Split yields at least one line.
ASSUME FileAssumption == File \subseteq Seq(Nat) /\ <<>> \notin File

VARIABLES
    state,    \* Session.state
    userid,   \* the userid entered
    user,     \* index in Users of the authenticated user, 0 for nil
    stack,    \* menu names, the current one last
    pages,    \* the pages of the file last opened
    pageIdx,  \* index of the page shown, from 0
    prompt,   \* what the last line of the screen asks for
    typed,    \* history: what the user typed last
    line,     \* history: the line that Input was given
    file,     \* history: the file last opened
    shown     \* history: lines of it shown since

session == <<state, userid, user, stack, pages, pageIdx>>
vars == <<session, prompt, typed, line, file, shown>>

State == {"login_user", "login_pass", "menu", "view"}
Prompt == {"USERID", "PASSWORD", "SELECTION", "SELECTION_OR_BACK", "MORE", "END"}
Row == Seq(Nat \X Nat)  \* a line on the screen, of bytes <<line, column>>

TypeOK ==
    /\ state \in State
    /\ userid \in Text /\ line \in Text /\ typed \in Typed \cup {<<>>}
    /\ user \in 0 .. Len(Users)
    /\ stack \in Seq(DOMAIN Menus) /\ Len(stack) <= MaxDepth
    /\ pages \in Seq(Seq(Row))
    /\ pageIdx \in Nat
    /\ prompt \in Prompt
    /\ file \in File \cup {<<>>} /\ shown \in Seq(Row)

\* NewSession and the Greeting that the gateway sends at once.
Init ==
    /\ state = "login_user"
    /\ userid = "" /\ user = 0 /\ stack = <<>>
    /\ pages = <<>> /\ pageIdx = 0
    /\ prompt = "USERID" /\ typed = <<>> /\ line = "" /\ file = <<>> /\ shown = <<>>

-----------------------------------------------------------------------------
EqualFold(s, t) == Upper[s] = Upper[t]

\* Mutant of FindUser: the password is not compared.
FindUserAny(name, password) ==
    SelectInSeq(Users, LAMBDA u : EqualFold(u.username, name))

\* The first user with this name and password, 0 for none.
FindUser(name, password) ==
    SelectInSeq(Users, LAMBDA u : EqualFold(u.username, name) /\ u.password = password)

CurrentItems == Menus[stack[Len(stack)]]

FindItem(key) == SelectInSeq(CurrentItems, LAMBDA it : EqualFold(it.key, key))

\* Mutant of Greeting: the user and the stack are kept.
GreetingKeeps ==
    /\ state' = "login_user"
    /\ userid' = ""
    /\ prompt' = "USERID"
    /\ UNCHANGED <<user, stack, pages, pageIdx, file, shown>>

Greeting ==
    /\ state' = "login_user"
    /\ userid' = "" /\ user' = 0 /\ stack' = <<>>
    /\ prompt' = "USERID"
    /\ UNCHANGED <<pages, pageIdx, file, shown>>

\* menuScreen, with path as the stack.
MenuScreen(path) ==
    /\ state' = "menu"
    /\ stack' = path
    /\ prompt' = IF Len(path) > 1 THEN "SELECTION_OR_BACK" ELSE "SELECTION"
    /\ UNCHANGED <<file, shown>>

\* Mutant of ViewScreen: the footer counts pages from 1.
ViewScreenFooter(ps, idx) ==
    /\ state' = "view"
    /\ pages' = ps /\ pageIdx' = idx
    /\ prompt' = IF idx < Len(ps) THEN "MORE" ELSE "END"
    /\ UNCHANGED <<userid, user, stack>>

\* viewScreen, with idx as the page.
ViewScreen(ps, idx) ==
    /\ state' = "view"
    /\ pages' = ps /\ pageIdx' = idx
    /\ prompt' = IF idx + 1 < Len(ps) THEN "MORE" ELSE "END"
    /\ UNCHANGED <<userid, user, stack>>

\* A line of n bytes, hard-wrapped.
Wrapped(l, n) ==
    [k \in 1 .. IF n = 0 THEN 1 ELSE (n + MaxWidth - 1) \div MaxWidth |->
        LET first == (k - 1) * MaxWidth
            last  == IF first + MaxWidth > n THEN n ELSE first + MaxWidth
        IN  [c \in 1 .. last - first |-> <<l, first + c>>]]

Rows(f) == FlattenSeq([l \in DOMAIN f |-> Wrapped(l, f[l])])

\* Mutant of Paginate: what does not fill a page after the first is dropped.
PaginateFull(f) ==
    LET n == Len(Rows(f))
    IN  IF n < ViewLines THEN << Rows(f) >>
        ELSE [p \in 1 .. n \div ViewLines |->
                 SubSeq(Rows(f), (p - 1) * ViewLines + 1, p * ViewLines)]

\* paginate: rows in pages of ViewLines, the last one shorter.
Paginate(f) ==
    LET n == Len(Rows(f))
    IN  [p \in 1 .. (n + ViewLines - 1) \div ViewLines |->
            SubSeq(Rows(f), (p - 1) * ViewLines + 1, IF p * ViewLines > n THEN n ELSE p * ViewLines)]

\* Mutant of ExtractInput: the text after the first colon.
ExtractInputFirst(s) ==
    LET colon == SelectInSeq(s, LAMBDA w : w = ":")
        after == SelectSeq(SubSeq(s, colon + 1, Len(s)), LAMBDA w : w # ":")
    IN  IF after = <<>> THEN "" ELSE Last(after)

\* extractInput: the last word after the last colon.
ExtractInput(s) ==
    LET colon == SelectLastInSeq(s, LAMBDA w : w = ":")
        after == SubSeq(s, colon + 1, Len(s))
    IN  IF after = <<>> THEN "" ELSE Last(after)

\* What is on a screen that has scrolled: older prompts with their answers,
\* and the prompt, which ends in a colon unless it is the footer of a page.
Display ==
    IF prompt \in {"MORE", "END"} THEN << "--", ":", "B", "--" >> ELSE << "--", ":", "B", "--", ":" >>

-----------------------------------------------------------------------------
(* Input, by state.                                                        *)

EnterUserid ==
    /\ state = "login_user"
    /\ userid' = line'
    /\ state' = "login_pass"
    /\ prompt' = "PASSWORD"
    /\ UNCHANGED <<user, stack, pages, pageIdx, file, shown>>

LogonAccepted ==
    /\ state = "login_pass"
    /\ FindUser(userid, line') # 0
    /\ user' = FindUser(userid, line')
    /\ MenuScreen(<<Users[user'].menu>>)
    /\ UNCHANGED <<userid, pages, pageIdx>>

LogonRejected ==
    /\ state = "login_pass"
    /\ FindUser(userid, line') = 0
    /\ state' = "login_user"
    /\ userid' = ""
    /\ prompt' = "USERID"
    /\ UNCHANGED <<user, stack, pages, pageIdx, file, shown>>

Logoff ==
    /\ state = "menu"
    /\ Upper[line'] = "X"
    /\ Greeting

Back ==
    /\ state = "menu"
    /\ Upper[line'] = "B"
    /\ MenuScreen(IF Len(stack) > 1 THEN Front(stack) ELSE stack)
    /\ UNCHANGED <<userid, user, pages, pageIdx>>

Selects == state = "menu" /\ Upper[line'] \notin {"X", "B"}

OpenMenu ==
    /\ Selects
    /\ FindItem(line') # 0
    /\ LET it == CurrentItems[FindItem(line')]
       IN  it.menu # NoMenu /\ MenuScreen(Append(stack, it.menu))
    /\ Len(stack) < MaxDepth
    /\ UNCHANGED <<userid, user, pages, pageIdx>>

\* openFile: the file is read at that moment, which may fail.
OpenFile ==
    /\ Selects
    /\ FindItem(line') # 0
    /\ CurrentItems[FindItem(line')].menu = NoMenu
    /\ \/ \E f \in File :
             /\ ViewScreen(Paginate(f), 0)
             /\ file' = f
             /\ shown' = Paginate(f)[1]
       \/ /\ MenuScreen(stack)
          /\ UNCHANGED <<userid, user, pages, pageIdx>>

InvalidSelection ==
    /\ Selects
    /\ FindItem(line') = 0
    /\ MenuScreen(stack)
    /\ UNCHANGED <<userid, user, pages, pageIdx>>

NextPage ==
    /\ state = "view"
    /\ pageIdx + 1 < Len(pages)
    /\ ViewScreen(pages, pageIdx + 1)
    /\ shown' = shown \o pages[pageIdx + 2]
    /\ UNCHANGED file

EndView ==
    /\ state = "view"
    /\ pageIdx + 1 >= Len(pages)
    /\ pageIdx' = pageIdx + 1
    /\ MenuScreen(stack)
    /\ UNCHANGED <<userid, user, pages>>

Input ==
    /\ typed' \in Typed
    /\ line' \in {ExtractInput(typed'), ExtractInput(Display \o typed')}
    /\ \/ EnterUserid
       \/ LogonAccepted \/ LogonRejected
       \/ Logoff \/ Back \/ OpenMenu \/ OpenFile \/ InvalidSelection
       \/ NextPage \/ EndView

Spec == Init /\ [][Input]_vars

-----------------------------------------------------------------------------
(* Properties.                                                             *)

(***************************************************************************)
(* Only the user's own password logs him on, and nobody becomes another    *)
(* user without logging off first.                                         *)
(***************************************************************************)
PasswordChecked ==
    [][/\ user = 0 /\ user' # 0 => Users[user'].password = line'
       /\ user # 0 => user' \in {0, user}]_vars

(***************************************************************************)
(* The session is given the word the user typed, or the empty line, also   *)
(* when the screen has scrolled and the terminal returns all that is on    *)
(* it, older prompts and answers included ("the last token after the last  *)
(* colon"); a password with a colon or a blank in it cannot be typed.      *)
(* Only while a file is shown is the screen taken for the line, and then   *)
(* the line is not looked at.                                              *)
(***************************************************************************)
InputRecovered ==
    [][/\ state # "view"
       /\ Len(typed') <= 1 /\ ":" \notin ToSet(typed')
       => line' = IF typed' = <<>> THEN "" ELSE typed'[1]]_vars

(***************************************************************************)
(* A user is logged on exactly while a menu or a file is shown, under the  *)
(* userid that was entered.  The stack is a path of submenus that begins   *)
(* at his menu, and empty when nobody is logged on: B leads back along it  *)
(* and never out of what the user may see.                                 *)
(***************************************************************************)
Submenus(m) == {Menus[m][i].menu : i \in DOMAIN Menus[m]} \ {NoMenu}

MenusAreForUsers ==
    /\ user # 0 <=> state \in {"menu", "view"}
    /\ user # 0 => EqualFold(Users[user].username, userid) /\ stack[1] = Users[user].menu
    /\ stack # <<>> <=> user # 0
    /\ \A i \in 1 .. Len(stack) - 1 : stack[i + 1] \in Submenus(stack[i])

(***************************************************************************)
(* What the last line of a screen asks for is what the session takes the   *)
(* next line for; BACK is offered iff there is a menu to go back to, MORE  *)
(* iff there is another page.                                              *)
(***************************************************************************)
Awaited ==
    CASE state = "login_user" -> "USERID"
      [] state = "login_pass" -> "PASSWORD"
      [] state = "menu"       -> IF Len(stack) > 1 THEN "SELECTION_OR_BACK" ELSE "SELECTION"
      [] state = "view"       -> IF pageIdx < Len(pages) - 1 THEN "MORE" ELSE "END"

PromptFits == prompt = Awaited

(***************************************************************************)
(* The page shown exists, and what has been shown of a file is its         *)
(* beginning, every byte once and no row wider than the screen, so that    *)
(* all of it has been when the view ends, its empty lines too.             *)
(***************************************************************************)
Bytes(f) == FlattenSeq([l \in DOMAIN f |-> [c \in 1 .. f[l] |-> <<l, c>>]])
Empty(seq, e) == Cardinality({i \in DOMAIN seq : seq[i] = e})

FileShown ==
    state = "view" =>
        /\ pageIdx < Len(pages)
        /\ IsPrefix(FlattenSeq(shown), Bytes(file))
        /\ \A i \in DOMAIN shown : Len(shown[i]) <= MaxWidth
        /\ prompt = "END" =>
              FlattenSeq(shown) = Bytes(file) /\ Empty(shown, <<>>) = Empty(file, 0)

=============================================================================
