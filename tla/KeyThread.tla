----------------------------- MODULE KeyThread -----------------------------
(***************************************************************************)
(* KeyThread1 (lines 212-416): polls the mailbox or the keypad, debounces, *)
(* drives the menu and starts or kills the demo services.  One action per  *)
(* stretch of code between two accesses to state the other thread can see. *)
(***************************************************************************)
EXTENDS KeypadState

CONSTANT MaxKeys     \* bound on the keypad reads that are acted on

ASSUME MaxKeysAssumption == MaxKeys \in Nat

VARIABLES
  kpc,           \* where KeyThread1 is
  krev,          \* _revcmd
  keyValue, lastKeyValue, showDefault, needClear, conMsg, keyok,
  kfd,           \* socketFD of the GetLocalAddr call in progress
  serverip,      \* its result
  services,      \* instances this program has launched and not killed
  keys           \* keypad reads acted on so far (bound only)

menu    == <<showDefault, needClear, conMsg>>
reading == <<keyValue, lastKeyValue, keys>>
demo    == <<keyok, services>>
lookup  == <<kfd, serverip>>
keyLocals == <<krev, menu, reading, demo, lookup>>
keyVars == <<kpc, keyLocals>>

(* Codes of the MCP23017 inputs; several keys held together read as Chord. *)
KeyError == -1
KeyMenu  == 15
KeyOk    == 23
KeyDown  == 27
Chord    == 28
KeyUp    == 29
KeyBack  == 30
KeyIdle  == 31
KeyReads == {KeyError, KeyMenu, KeyOk, KeyDown, Chord, KeyUp, KeyBack, KeyIdle}

(* The key a mailbox command stands for (lines 256-274).                   *)
CommandKey == [c \in 2 .. 6 |->
  CASE c = 2 -> KeyUp [] c = 3 -> KeyDown [] c = 4 -> KeyBack
    [] c = 5 -> KeyOk [] c = 6 -> KeyMenu]

Goto(l) == kpc' = l
KeyAt(l) == kpc = l /\ down = "no"

(* Mutant: the menu is redrawn with the first entry marked. *)
ShowMenuTop(c) == Show(Fixed("Demo v"), Fixed("Restart"))

ShowMenu(c) ==
  IF c = 2 THEN Show(Fixed("Demo"), Fixed("Restart v"))
           ELSE Show(Fixed("Demo v"), Fixed("Restart"))

KeyInitState ==
  /\ kpc = "init"
  /\ krev = 0
  /\ keyValue = 0
  /\ lastKeyValue = KeyError
  /\ showDefault = 1
  /\ needClear = 1
  /\ conMsg = 1
  /\ keyok = 2
  /\ kfd = 0
  /\ serverip = 0
  /\ services = [ckt |-> 0, mx |-> 0]
  /\ keys = 0

(* Lines 229-236: open the LCD or end the thread.                          *)
KInitOk ==
  /\ KeyAt("init")
  /\ \E f \in Fd : Open(f, "i2c") /\ devFd' = f
  /\ lcd' = <<Blank, Blank>>
  /\ Goto("poll")
  /\ UNCHANGED <<mailbox, ipFlg, mut, session, down, peer, keyLocals>>

KInitFail ==
  /\ KeyAt("init")
  /\ devFd' = -1
  /\ Goto("exit")
  /\ UNCHANGED <<mailbox, ipFlg, mut, session, fds, lcd, down, peer,
                 keyLocals>>

(* Lines 242-246: read the mailbox under the mutex.                        *)
KPoll ==
  /\ KeyAt("poll")
  /\ mut = "free"
  /\ krev' = revcmd
  /\ Goto(IF revcmd = 1 THEN "display" ELSE "key")
  /\ UNCHANGED <<shared, menu, reading, demo, lookup>>

(* Lines 248-254, without the mutex: the tail of revbuf is shown on the    *)
(* bottom line, the text is cut at byte 24, the head is shown on top.      *)
(* Mutant: the LCD is not cleared before the message is shown. *)
ShowTailOnly == ShowBottom(revbuf.tail)

ShowTail == Show(Blank, revbuf.tail)

KDisplayTail ==
  /\ KeyAt("display")
  /\ ShowTail
  /\ Goto("cut")
  /\ UNCHANGED <<butLcd, keyLocals>>

KDisplayCut ==
  /\ KeyAt("cut")
  /\ revbuf' = [revbuf EXCEPT !.tail = Blank]
  /\ Goto("head")
  /\ UNCHANGED <<revcmd, ipFlg, mut, session, files, lcd, down, peer,
                 keyLocals>>

KDisplayHead ==
  /\ KeyAt("head")
  /\ ShowTop(revbuf.head)
  /\ Goto("key")
  /\ UNCHANGED <<butLcd, keyLocals>>

(* Lines 256-294: the value of this pass (the mailbox's key, the old value *)
(* after DISPLAY, or what the keypad reads), and whether it is acted on.   *)
(* Mutant: a key counts only after all keys were released. *)
FreshAfterRelease(v) == keyValue = KeyIdle /\ v # KeyIdle

Fresh(v) == v # lastKeyValue /\ v # KeyIdle

Reads == IF LcdUp THEN KeyReads ELSE {KeyError}

Counted(v) == Fresh(v) /\ LcdUp      \* against the bound MaxKeys

PassValues ==
  CASE krev = 0 -> {v \in Reads : Counted(v) => keys < MaxKeys}
    [] krev = 1 -> {keyValue}
    [] OTHER    -> {CommandKey[krev]}

(* Mutant: a command acted on stays in the mailbox. *)
AfterKeyKept(v) == IF Fresh(v) \/ showDefault = 1 THEN "handle" ELSE "poll"

AfterKey(v) ==
  IF Fresh(v) \/ showDefault = 1 THEN "handle"
  ELSE IF krev # 0 THEN "clear" ELSE "poll"

KKey ==
  /\ KeyAt("key")
  /\ \E v \in PassValues :
       /\ keyValue' = v
       /\ lastKeyValue' = IF Fresh(v) THEN v ELSE lastKeyValue
       /\ keys' = IF krev = 0 /\ Counted(v) THEN keys + 1 ELSE keys
       /\ Goto(AfterKey(v))
  /\ UNCHANGED <<shared, krev, menu, demo, lookup>>

(* Lines 287-293: a command already acted on leaves the mailbox.           *)
KClear ==
  /\ KeyAt("clear")
  /\ mut = "free"
  /\ revcmd' = 0
  /\ Goto("poll")
  /\ UNCHANGED <<revbuf, ipFlg, mut, session, files, lcd, down, peer,
                 keyLocals>>

(* Lines 296-394: act on the key.  ---------------------------------------- *)
Handling(k) == KeyAt("handle") /\ keyValue = k

(* Any other value falls through the switch.                               *)
KOther ==
  /\ KeyAt("handle")
  /\ keyValue \notin {KeyBack, KeyUp, KeyDown, KeyOk, KeyMenu}
  /\ Goto("tail")
  /\ UNCHANGED <<shared, keyLocals>>

Select(k, c) ==
  /\ Handling(k)
  /\ showDefault' = 0
  /\ conMsg' = c
  /\ ShowMenu(c)
  /\ Goto("tail")
  /\ UNCHANGED <<butLcd, krev, needClear, reading, demo, lookup>>

(* Mutant: DOWN moves the selection one further. *)
KDownNext == Select(KeyDown, conMsg + 1)

KBack == Select(KeyBack, conMsg)
KUp   == Select(KeyUp, 1)
KDown == Select(KeyDown, 2)

KOkDemo ==
  /\ Handling(KeyOk)
  /\ conMsg = 1
  /\ showDefault' = 0
  /\ Show(Fixed("PORT"), Blank)
  /\ Goto("socket")
  /\ UNCHANGED <<butLcd, krev, needClear, conMsg, reading, demo, lookup>>

KReboot ==
  /\ Handling(KeyOk)
  /\ conMsg = 2
  /\ showDefault' = 0
  /\ down' = "reboot"
  /\ UNCHANGED <<mailbox, ipFlg, mut, session, files, lcd, peer, kpc, krev,
                 needClear, conMsg, reading, demo, lookup>>

(* Lines 380-393: MENU kills the services, one command after the other.    *)
KMenuKillCkt ==
  /\ Handling(KeyMenu)
  /\ keyok' = 1
  /\ services' = [services EXCEPT !.ckt = 0]
  /\ Goto("killmx")
  /\ UNCHANGED <<shared, krev, menu, reading, lookup>>

KMenuKillMx ==
  /\ KeyAt("killmx")
  /\ services' = [services EXCEPT !.mx = 0]
  /\ showDefault' = 0
  /\ conMsg' = 1
  /\ ShowMenu(1)
  /\ Goto("tail")
  /\ UNCHANGED <<butLcd, krev, needClear, reading, keyok, lookup>>

(* GetLocalAddr, lines 121-127: the datagram socket, which nothing closes. *)
KSocketOk ==
  /\ KeyAt("socket")
  /\ \E f \in Fd : Open(f, "udp") /\ kfd' = f
  /\ Goto("ioctl")
  /\ UNCHANGED <<butFds, krev, menu, reading, demo, serverip>>

(* Lines 350-352: the test made of what GetLocalAddr returns, and whether  *)
(* the services are still to be launched.                                  *)
(* Mutant: they are launched again. *)
MayLaunchAgain == keyok \in {0, 1, 2}

MayLaunch == keyok \in {1, 2}

KGot(addr) ==
  /\ serverip' = addr
  /\ Goto(IF addr > 0 THEN IF MayLaunch THEN "startckt" ELSE "request"
                      ELSE "tail")

KSocketFail ==
  /\ KeyAt("socket")
  /\ NoFreeFd
  /\ KGot(ErrorAddr)
  /\ UNCHANGED <<shared, krev, menu, reading, demo, kfd>>

(* Lines 129-140: ask for wlan0's address and show it.  It fails when the  *)
(* interface has none, or when the other thread closed the descriptor.     *)
KIoctlOk ==
  /\ KeyAt("ioctl")
  /\ fds[kfd] \in Sockets
  /\ ShowBottom(Fixed("IP"))
  /\ KGot(LocalAddr)
  /\ UNCHANGED <<butLcd, krev, menu, reading, demo, kfd>>

KIoctlFail ==
  /\ KeyAt("ioctl")
  /\ KGot(ErrorAddr)
  /\ UNCHANGED <<shared, krev, menu, reading, demo, kfd>>

(* Lines 352-359: launch the services once.                                *)
KStartCkt ==
  /\ KeyAt("startckt")
  /\ services' = [services EXCEPT !.ckt = @ + 1]
  /\ Goto("startmx")
  /\ UNCHANGED <<shared, krev, menu, reading, keyok, lookup>>

KStartMx ==
  /\ KeyAt("startmx")
  /\ services' = [services EXCEPT !.mx = @ + 1]
  /\ keyok' = 0
  /\ Goto("request")
  /\ UNCHANGED <<shared, krev, menu, reading, lookup>>

(* Lines 361-363: ask the socket thread for a server.                      *)
KRequest ==
  /\ KeyAt("request")
  /\ mut = "free"
  /\ ipFlg' = 1
  /\ Goto("tail")
  /\ UNCHANGED <<mailbox, mut, session, files, lcd, down, peer, keyLocals>>

(* Lines 395-410: the default screen, until a key has been acted on.       *)
KTail ==
  /\ KeyAt("tail")
  /\ IF showDefault = 1 /\ needClear = 1 THEN ShowMenu(1) ELSE UNCHANGED lcd
  /\ needClear' = IF showDefault = 1 THEN 0 ELSE 1
  /\ Goto("poll")
  /\ UNCHANGED <<butLcd, krev, showDefault, conMsg, reading, demo, lookup>>

KeyLabels == {"init", "exit", "poll", "display", "cut", "head", "key", "clear",
              "handle", "killmx", "socket", "ioctl", "startckt", "startmx",
              "request", "tail"}

KeyTypeOK ==
  /\ kpc \in KeyLabels
  /\ krev \in Commands
  /\ keyValue \in KeyReads \cup {0}
  /\ lastKeyValue \in KeyReads \cup {0}
  /\ showDefault \in {0, 1}
  /\ needClear \in {0, 1}
  /\ conMsg \in {1, 2}
  /\ keyok \in {0, 1, 2}
  /\ kfd \in Fd \cup {0}
  /\ kpc = "ioctl" => kfd \in Fd
  /\ serverip \in {0, LocalAddr, ErrorAddr}
  /\ services \in [ckt : Nat, mx : Nat]
  /\ keys \in 0 .. MaxKeys
=============================================================================
