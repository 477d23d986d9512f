-------------------------- MODULE KeypadApp_proofs --------------------------
(***************************************************************************)
(* The safety properties of the panel program, for every value of its      *)
(* constants.  Each rests on an invariant that says where the property     *)
(* comes from, and on the frames of the two threads stated first.          *)
(***************************************************************************)
EXTENDS KeypadTyping_proofs

(* The frames of the actions and their one-line helpers are expanded       *)
(* everywhere.                                                             *)
USE DEF butLcd, butFds, keyLocals, sockLocals, Open, Lock, Unlock, Publish,
        ShowTail, AfterKey, MayLaunch, NextRound

(* Frames: what a step of each part leaves alone.  ----------------------- *)

(* The key thread never touches the session, the mutex's owner between two *)
(* steps, the connection or the socket thread's locals.                    *)
LEMMA KeyFrame ==
  KeyStep => UNCHANGED <<mut, session, peer, sockVars, clientVars>>
BY DEF KeyStep, KeyOnly, KInitOk, KInitFail, KPoll, KDisplayTail, KDisplayCut,
       KDisplayHead, KKey, KClear, KOther, KBack, KUp, KDown, Select, KOkDemo,
       KReboot, KMenuKillCkt, KMenuKillMx, KSocketOk, KSocketFail, KIoctlOk,
       KIoctlFail, KStartCkt, KStartMx, KRequest, KTail, shared

(* The socket thread never touches devFD or the key thread's locals.       *)
LEMMA SockFrame == SockStep => UNCHANGED <<devFd, keyVars, clientVars>>
BY DEF SockStep, SockOnly, STop, SSocketOk, SSocketFail, SIoctlOk, SIoctlFail,
       SCreate, SListenOk, SBindFail, SListenFail, SAcceptOk, SAcceptFail,
       SPublish, SServed, SRecv, SRecvEnd, SStoreCmd, SBlankText, SCopyText,
       SEcho, SEchoError, SEchoSigpipe, SCloseClient, SCloseServer, shared,
       files

(* The client touches nothing but its connection.                          *)
LEMMA ClientFrame ==
  Client => UNCHANGED <<mailbox, ipFlg, mut, session, files, lcd, down,
                        keyVars, sockVars>>
BY DEF Client, ClientConnect, ClientSend, ClientLeave

(* The key thread only opens descriptors, the i2c device first and         *)
(* datagram sockets later: an open descriptor stays what it is.            *)
LEMMA KeyFiles ==
  ASSUME TypeOK, KeyStep, NEW g \in Fd
  PROVE  /\ fds[g] # "free" => fds'[g] = fds[g]
         /\ fds'[g] \in {fds[g], "i2c", "udp"}
<1>1. fds \in [Fd -> Kinds]
  BY DEF TypeOK, SharedTypeOK
<1>2. CASE UNCHANGED fds
  BY <1>2
<1>3. CASE KInitOk \/ KSocketOk
  BY <1>1, <1>3 DEF KInitOk, KSocketOk, LowestFree
<1> QED
  BY <1>2, <1>3
     DEF KeyStep, KInitFail, KPoll, KDisplayTail, KDisplayCut, KDisplayHead,
         KKey, KClear, KOther, KBack, KUp, KDown, Select, KOkDemo, KReboot,
         KMenuKillCkt, KMenuKillMx, KSocketFail, KIoctlOk, KIoctlFail,
         KStartCkt, KStartMx, KRequest, KTail, shared, files

(* Launches.  ------------------------------------------------------------- *)

(* keyok is 0 exactly from the end of a launch to the next MENU key, and   *)
(* while it is not 0 nothing runs but what is being killed or launched.    *)
LaunchInv ==
  /\ services.ckt <= 1 /\ services.mx <= 1
  /\ keyok # 0 /\ kpc \notin {"killmx", "startmx"} =>
       services.ckt = 0 /\ services.mx = 0
  /\ kpc = "startckt" => keyok # 0
  /\ kpc = "startmx" => keyok # 0 /\ services.mx = 0
  /\ kpc = "killmx" => services.ckt = 0

(* Nothing has been launched at the start.                                 *)
LEMMA LaunchInit == Init => LaunchInv
BY DEF Init, KeyInitState, LaunchInv

(* Every step keeps keyok in line with what runs.                          *)
LEMMA LaunchStep == TypeOK /\ LaunchInv /\ [Next]_vars => LaunchInv'
<1> SUFFICES ASSUME TypeOK, LaunchInv, [Next]_vars PROVE LaunchInv'
  OBVIOUS
<1> USE DEF KeyAt, Goto, LaunchInv
<1>a. services \in [ckt : Nat, mx : Nat] /\ keyok \in {0, 1, 2}
  BY DEF TypeOK, KeyTypeOK
<1>1. CASE UNCHANGED <<kpc, demo>>
  BY <1>1 DEF demo
<1>2. CASE KMenuKillCkt
  BY <1>a, <1>2 DEF KMenuKillCkt, Handling
<1>3. CASE KMenuKillMx
  BY <1>a, <1>3 DEF KMenuKillMx
<1>4. CASE KSocketFail \/ KIoctlOk \/ KIoctlFail
  BY <1>a, <1>4 DEF KSocketFail, KIoctlOk, KIoctlFail, KGot, demo
<1>5. CASE KStartCkt
  BY <1>a, <1>5 DEF KStartCkt
<1>6. CASE KStartMx
  BY <1>a, <1>6 DEF KStartMx
<1>7. CASE KReboot
  BY <1>7 DEF KReboot, demo
<1>8. CASE KInitOk \/ KInitFail \/ KPoll \/ KDisplayTail \/ KDisplayCut
           \/ KDisplayHead \/ KKey \/ KClear \/ KOther \/ KBack \/ KUp
           \/ KDown \/ KOkDemo \/ KSocketOk \/ KRequest \/ KTail
  <2>1. UNCHANGED demo /\ kpc \notin {"killmx", "startckt", "startmx"}
    BY <1>8
       DEF KInitOk, KInitFail, KPoll, KDisplayTail, KDisplayCut, KDisplayHead,
           KKey, KClear, KOther, KBack, KUp, KDown, Select, Handling, KOkDemo,
           KSocketOk, KRequest, KTail
  <2>2. kpc' \notin {"killmx", "startckt", "startmx"}
    BY <1>8
       DEF KInitOk, KInitFail, KPoll, KDisplayTail, KDisplayCut, KDisplayHead,
           KKey, KClear, KOther, KBack, KUp, KDown, Select, KOkDemo, KSocketOk,
           KRequest, KTail
  <2> QED BY <2>1, <2>2 DEF demo
<1>9. CASE SockStep
  BY <1>1, <1>9, SockFrame DEF keyVars
<1>10. CASE Client
  BY <1>1, <1>10, ClientFrame DEF keyVars
<1>11. CASE UNCHANGED vars
  BY <1>1, <1>11 DEF vars, keyVars
<1> QED
  BY <1>2, <1>3, <1>4, <1>5, <1>6, <1>7, <1>8, <1>9, <1>10, <1>11
     DEF Next, Gone, KeyStep

(* OK, pressed or sent any number of times, never runs two instances of a  *)
(* service between two MENU keys.                                          *)
THEOREM LaunchedOnceAlways == Spec => []LaunchedOnce
<1>1. LaunchInv => LaunchedOnce
  BY DEF LaunchInv, LaunchedOnce
<1> QED
  BY <1>1, TypeCorrect, LaunchInit, LaunchStep, PTL DEF Spec

(* The mutex.  ------------------------------------------------------------ *)

(* Between two steps only the socket thread can own the mutex, inside the  *)
(* two critical sections that are modelled in several steps.               *)
MutexInv == mut = "socket" <=> spc \in {"blank", "copy", "close2"}

(* Every step keeps the mutex with the critical section that took it.      *)
LEMMA MutexStep == TypeOK /\ MutexInv /\ [Next]_vars => MutexInv'
<1> SUFFICES ASSUME TypeOK, MutexInv, [Next]_vars PROVE MutexInv'
  OBVIOUS
<1> USE DEF SockAt, SGoto, MutexInv
<1>1. CASE UNCHANGED <<mut, spc>>
  BY <1>1
<1>2. CASE SStoreCmd \/ SBlankText \/ SCopyText \/ SCloseClient \/ SCloseServer
  BY <1>2 DEF SStoreCmd, SBlankText, SCopyText, SCloseClient, SCloseServer
<1>3. CASE SEchoSigpipe
  BY <1>1, <1>3 DEF SEchoSigpipe
<1>4. CASE STop \/ SSocketOk \/ SSocketFail \/ SIoctlOk \/ SIoctlFail \/ SCreate
           \/ SListenOk \/ SBindFail \/ SListenFail \/ SAcceptOk \/ SAcceptFail
           \/ SPublish \/ SServed \/ SRecv \/ SRecvEnd \/ SEcho \/ SEchoError
  <2>1. UNCHANGED mut /\ spc \notin {"blank", "copy", "close2"}
    BY <1>4
       DEF STop, SSocketOk, SSocketFail, SIoctlOk, SIoctlFail, SCreate,
           SListenOk, SBindFail, SListenFail, SAcceptOk, SAcceptFail, SPublish,
           SServed, SRecv, SRecvEnd, SEcho, SEchoError, shared
  <2>2. spc' \notin {"blank", "copy", "close2"}
    BY <1>4
       DEF STop, SSocketOk, SSocketFail, SIoctlOk, SIoctlFail, SCreate,
           SListenOk, SBindFail, SListenFail, SAcceptOk, SAcceptFail, SPublish,
           SServed, SRecv, SRecvEnd, SEcho, SEchoError
  <2> QED BY <2>1, <2>2
<1>5. CASE KeyStep
  BY <1>1, <1>5, KeyFrame DEF sockVars
<1>6. CASE Client
  BY <1>1, <1>6, ClientFrame DEF sockVars
<1>7. CASE UNCHANGED vars
  BY <1>1, <1>7 DEF vars, shared, sockVars
<1> QED
  BY <1>2, <1>3, <1>4, <1>5, <1>6, <1>7 DEF Next, Gone, SockStep

(* The mutex is free while the socket thread waits for the network.        *)
THEOREM NoWaitWithMutexAlways == Spec => []NoWaitWithMutex
<1>1. Init => MutexInv
  BY DEF Init, SharedInit, SockInitState, MutexInv
<1>2. TypeOK /\ MutexInv => NoWaitWithMutex
  BY DEF TypeOK, SharedTypeOK, MutexInv, NoWaitWithMutex
<1> QED
  BY <1>1, <1>2, TypeCorrect, MutexStep, PTL DEF Spec

(* The mailbox.  ---------------------------------------------------------- *)

(* A command is cleared only after its key has been acted on.              *)
THEOREM ClearedWasActedOnAlways == Spec => []ClearedWasActedOn
<1> USE DEF KeyAt, Goto, ClearedWasActedOn
<1>1. Init => ClearedWasActedOn
  BY DEF Init, KeyInitState
<1>2. ASSUME TypeOK, ClearedWasActedOn, [Next]_vars
      PROVE  ClearedWasActedOn'
  <2>1. CASE UNCHANGED <<kpc, krev, lastKeyValue>>
    BY <1>2, <2>1
  <2>2. CASE KKey
    <3>1. PICK v \in PassValues :
            /\ lastKeyValue' = IF Fresh(v) THEN v ELSE lastKeyValue
            /\ kpc' = IF Fresh(v) \/ showDefault = 1 THEN "handle"
                      ELSE IF krev # 0 THEN "clear" ELSE "poll"
      BY <2>2 DEF KKey
    <3>2. UNCHANGED krev /\ krev \in Commands
      BY <1>2, <2>2 DEF KKey, TypeOK, KeyTypeOK
    <3>3. SUFFICES ASSUME kpc' = "clear", krev # 1
                   PROVE  CommandKey[krev] = lastKeyValue'
      BY <3>2
    <3>4. ~Fresh(v) /\ krev # 0
      BY <3>1, <3>3
    <3>5. v = CommandKey[krev] /\ CommandKey[krev] # KeyIdle
      BY <3>2, <3>3, <3>4
         DEF PassValues, Commands, CommandKey, KeyUp, KeyDown, KeyBack, KeyOk,
             KeyMenu, KeyIdle
    <3> QED BY <3>1, <3>4, <3>5 DEF Fresh
  <2>3. CASE KeyStep /\ ~KKey
    <3>1. kpc' # "clear"
      BY <2>3
         DEF KeyStep, KInitOk, KInitFail, KPoll, KDisplayTail, KDisplayCut,
             KDisplayHead, KClear, KOther, KBack, KUp, KDown, Select, KOkDemo,
             KReboot, Handling, KMenuKillCkt, KMenuKillMx, KSocketOk,
             KSocketFail, KIoctlOk, KIoctlFail, KGot, KStartCkt, KStartMx,
             KRequest, KTail
    <3> QED BY <3>1
  <2>4. CASE SockStep
    BY <2>1, <2>4, SockFrame DEF keyVars, reading
  <2>5. CASE Client
    BY <2>1, <2>5, ClientFrame DEF keyVars, reading
  <2>6. CASE UNCHANGED vars
    BY <2>1, <2>6 DEF vars, keyVars, reading
  <2> QED BY <1>2, <2>2, <2>3, <2>4, <2>5, <2>6 DEF Next, Gone
<1> QED
  BY <1>1, <1>2, TypeCorrect, PTL DEF Spec

(* The LCD.  -------------------------------------------------------------- *)

(* Closing a descriptor opens none.                                        *)
LEMMA ClosedFiles ==
  ASSUME NEW t, NEW f, NEW g \in Fd
  PROVE  Closed(t, f)[g] \in {t[g], "free"} /\ (g # f => Closed(t, f)[g] = t[g])
BY DEF Closed

(* The socket thread opens sockets only, and closes descriptors in         *)
(* CreatServer and after a session.                                        *)
LEMMA SockFiles ==
  ASSUME TypeOK, SockStep, NEW g \in Fd
  PROVE  /\ fds'[g] = "i2c" => fds[g] = "i2c"
         /\ \/ fds[g] \in {"free", fds'[g]}
            \/ SCreate
            \/ SCloseClient /\ g = clientFd
            \/ SCloseServer /\ g = serverFd
<1>1. fds \in [Fd -> Kinds]
  BY DEF TypeOK, SharedTypeOK
<1>2. CASE UNCHANGED fds
  BY <1>2
<1>3. CASE SSocketOk \/ SListenOk \/ SBindFail \/ SAcceptOk
  BY <1>1, <1>3 DEF SSocketOk, SListenOk, SBindFail, SAcceptOk, LowestFree
<1>4. CASE SCreate
  <2>1. PICK c, s \in Garbage : fds' \in {fds, Closed(Closed(fds, c), s)}
    BY <1>4 DEF SCreate
  <2>2. fds'[g] \in {fds[g], "free"}
    BY <2>1, ClosedFiles
  <2> QED BY <1>4, <2>2
<1>5. CASE SCloseClient \/ SCloseServer
  BY <1>5, ClosedFiles DEF SCloseClient, SCloseServer, SClose
<1> QED
  BY <1>2, <1>3, <1>4, <1>5
     DEF SockStep, STop, SSocketFail, SIoctlOk, SIoctlFail, SListenFail,
         SAcceptFail, SPublish, SServed, SRecv, SRecvEnd, SStoreCmd,
         SBlankText, SCopyText, SEcho, SEchoError, SEchoSigpipe, shared, files

(* The LCD comes up only when the key thread opens it.                     *)
LEMMA LcdUpBefore ==
  TypeOK /\ [Next]_vars /\ LcdUp' => KInitOk \/ (LcdUp /\ UNCHANGED devFd)
<1> SUFFICES ASSUME TypeOK, [Next]_vars, LcdUp', ~KInitOk
             PROVE  LcdUp /\ UNCHANGED devFd
  OBVIOUS
<1>1. devFd' \in Fd /\ fds'[devFd'] = "i2c"
  BY DEF LcdUp, KindOf
<1>2. SUFFICES devFd' = devFd /\ fds[devFd] = "i2c"
  BY <1>1 DEF LcdUp, KindOf
<1>3. CASE KeyStep
  <2>1. devFd' = devFd
    BY <1>1, <1>3
       DEF KeyStep, KInitFail, KPoll, KDisplayTail, KDisplayCut, KDisplayHead,
           KKey, KClear, KOther, KBack, KUp, KDown, Select, KOkDemo, KReboot,
           KMenuKillCkt, KMenuKillMx, KSocketOk, KSocketFail, KIoctlOk,
           KIoctlFail, KStartCkt, KStartMx, KRequest, KTail, shared, files, Fd
  <2>2. UNCHANGED fds \/ KSocketOk
    BY <1>3
       DEF KeyStep, KInitFail, KPoll, KDisplayTail, KDisplayCut, KDisplayHead,
           KKey, KClear, KOther, KBack, KUp, KDown, Select, KOkDemo, KReboot,
           KMenuKillCkt, KMenuKillMx, KSocketFail, KIoctlOk, KIoctlFail,
           KStartCkt, KStartMx, KRequest, KTail, shared, files
  <2>3. KSocketOk => fds[devFd'] = "i2c"
    BY <1>1 DEF KSocketOk, TypeOK, SharedTypeOK
  <2> QED BY <1>1, <2>1, <2>2, <2>3
<1>4. CASE SockStep
  BY <1>1, <1>4, SockFiles, SockFrame
<1>5. CASE Client
  BY <1>1, <1>5, ClientFrame DEF files
<1>6. CASE UNCHANGED vars
  BY <1>1, <1>6 DEF vars, shared, files
<1> QED
  BY <1>3, <1>4, <1>5, <1>6 DEF Next, Gone

(* The marks on the glass, while the LCD can still be written.             *)
MarksAgree ==
  /\ lcd[1] = Fixed("Demo v") => conMsg = 1
  /\ lcd[2] = Fixed("Restart v") => conMsg = 2

CursorInv == (LcdUp => MarksAgree) /\ (showDefault = 1 => conMsg = 1)

(* Only the menu shows a mark.                                             *)
LEMMA UnmarkedLines ==
  /\ \A m \in MsgLine : m # Fixed("Demo v") /\ m # Fixed("Restart v")
  /\ \A l \in Label : Fixed(l) = Fixed("Demo v") => l = "Demo v"
  /\ \A l \in Label : Fixed(l) = Fixed("Restart v") => l = "Restart v"
  /\ Blank # Fixed("Demo v") /\ Blank # Fixed("Restart v")
<1>1. /\ \A l \in Label : Fixed(l).label = l
      /\ \A i \in 1 .. MaxMsgs : Text(i).label = "text"
  BY DEF Fixed, Text
<1>2. \A m \in MsgLine : m = Fixed("blank") \/ \E i \in 1 .. MaxMsgs : m = Text(i)
  BY DEF MsgLine, Blank
<1>3. \A m \in MsgLine : m.label \in {"blank", "text"}
  BY <1>1, <1>2 DEF Label
<1>4. \A l \in Label : Fixed(l) = Fixed("Demo v") => l = "Demo v"
  BY <1>1 DEF Label
<1>5. \A l \in Label : Fixed(l) = Fixed("Restart v") => l = "Restart v"
  BY <1>1 DEF Label
<1>6. Blank # Fixed("Demo v") /\ Blank # Fixed("Restart v")
  BY DEF Blank, Fixed
<1>7. \A m \in MsgLine : m # Fixed("Demo v") /\ m # Fixed("Restart v")
  <2>1. Fixed("Demo v").label = "Demo v" /\ Fixed("Restart v").label = "Restart v"
    BY <1>1 DEF Label
  <2> QED BY <1>3, <2>1
<1> QED
  BY <1>4, <1>5, <1>6, <1>7

(* The menu shows the mark of the selection it is given.                   *)
LEMMA ShowMenuMarks ==
  ASSUME NEW c \in {1, 2}, ShowMenu(c), LcdUp, conMsg' = c
  PROVE  MarksAgree'
<1>1. lcd' = IF c = 2 THEN <<Fixed("Demo"), Fixed("Restart v")>>
                      ELSE <<Fixed("Demo v"), Fixed("Restart")>>
  BY DEF ShowMenu, Show
<1>2. Fixed("Demo") # Fixed("Demo v") /\ Fixed("Restart") # Fixed("Restart v")
  BY UnmarkedLines DEF Label
<1> QED
  BY <1>1, <1>2 DEF MarksAgree

(* What is shown replaces a line or leaves it.                             *)
LEMMA ShowLines ==
  ASSUME NEW l0, NEW l1, Show(l0, l1) \/ ShowTop(l0) \/ ShowBottom(l1),
         lcd \in Line \X Line
  PROVE  /\ lcd'[1] = l0 \/ lcd'[1] = lcd[1]
         /\ lcd'[2] = l1 \/ lcd'[2] = lcd[2]
BY DEF Show, ShowTop, ShowBottom

(* Text, blanks, the port and the address leave no mark behind.            *)
LEMMA UnmarkedAgree ==
  ASSUME NEW l0, NEW l1, MarksAgree, UNCHANGED conMsg,
         l0 # Fixed("Demo v"), l1 # Fixed("Restart v"),
         lcd'[1] = l0 \/ lcd'[1] = lcd[1],
         lcd'[2] = l1 \/ lcd'[2] = lcd[2]
  PROVE  MarksAgree'
BY DEF MarksAgree

(* The same, from what is shown.                                           *)
LEMMA ShowTextMarks ==
  ASSUME TypeOK, MarksAgree, UNCHANGED conMsg, NEW l0, NEW l1,
         l0 # Fixed("Demo v"), l1 # Fixed("Restart v"),
         Show(l0, l1) \/ ShowTop(l0) \/ ShowBottom(l1)
  PROVE  MarksAgree'
<1>1. /\ lcd'[1] = l0 \/ lcd'[1] = lcd[1]
      /\ lcd'[2] = l1 \/ lcd'[2] = lcd[2]
  BY ShowLines DEF TypeOK, SharedTypeOK
<1> QED
  BY <1>1, UnmarkedAgree

(* Every step keeps the marks in line with the selection.                  *)
LEMMA CursorStep == TypeOK /\ CursorInv /\ [Next]_vars => CursorInv'
<1> SUFFICES ASSUME TypeOK, CursorInv, [Next]_vars PROVE CursorInv'
  OBVIOUS
<1>a. revbuf \in [head : MsgLine, tail : MsgLine] /\ conMsg \in {1, 2}
  BY DEF TypeOK, SharedTypeOK, KeyTypeOK
<1>b. KInitOk \/ (LcdUp' => LcdUp)
  BY LcdUpBefore
<1>1. CASE UNCHANGED <<lcd, conMsg, showDefault>> /\ ~KInitOk
  BY <1>1, <1>b DEF CursorInv, MarksAgree
<1>2. CASE KInitOk
  BY <1>2, UnmarkedLines DEF KInitOk, menu, CursorInv, MarksAgree
<1>3. CASE KDisplayTail \/ KDisplayHead
  <2>1. UNCHANGED <<showDefault, conMsg>> /\ (LcdUp' => LcdUp)
    BY <1>3, <1>b DEF KDisplayTail, KDisplayHead, menu, KInitOk, KeyAt
  <2>2. Show(Blank, revbuf.tail) \/ ShowTop(revbuf.head)
    BY <1>3 DEF KDisplayTail, KDisplayHead
  <2>3. revbuf.tail # Fixed("Restart v") /\ revbuf.head # Fixed("Demo v")
        /\ Blank # Fixed("Demo v") /\ Blank # Fixed("Restart v")
    BY <1>a, UnmarkedLines
  <2>4. CASE Show(Blank, revbuf.tail)
    <3>1. MarksAgree => MarksAgree'
      BY <2>1, <2>3, <2>4, ShowTextMarks
    <3> QED BY <2>1, <3>1 DEF CursorInv
  <2>5. CASE ShowTop(revbuf.head)
    <3>1. MarksAgree => MarksAgree'
      BY <2>1, <2>3, <2>5, ShowTextMarks
    <3> QED BY <2>1, <3>1 DEF CursorInv
  <2> QED BY <2>2, <2>4, <2>5
<1>4. CASE KBack \/ KUp \/ KDown \/ KMenuKillMx
  <2>1. PICK c \in {1, 2} : ShowMenu(c) /\ conMsg' = c
    BY <1>4, <1>a DEF KBack, KUp, KDown, Select, KMenuKillMx
  <2>2. showDefault' = 0 /\ (LcdUp' => LcdUp)
    BY <1>4, <1>b
       DEF KBack, KUp, KDown, Select, Handling, KMenuKillMx, KInitOk, KeyAt
  <2>3. LcdUp => MarksAgree'
    BY <2>1, ShowMenuMarks
  <2> QED BY <2>2, <2>3 DEF CursorInv
<1>5. CASE KOkDemo
  <2>1. UNCHANGED conMsg /\ showDefault' = 0 /\ (LcdUp' => LcdUp)
    BY <1>5, <1>b DEF KOkDemo, Handling, KInitOk, KeyAt
  <2>2. Fixed("PORT") # Fixed("Demo v") /\ Blank # Fixed("Restart v")
    BY UnmarkedLines DEF Label
  <2>3. MarksAgree => MarksAgree'
    BY <1>5, <2>1, <2>2, ShowTextMarks DEF KOkDemo
  <2> QED BY <2>1, <2>3 DEF CursorInv
<1>6. CASE KReboot
  BY <1>6 DEF KReboot, files, CursorInv, MarksAgree, LcdUp, KindOf
<1>7. CASE KIoctlOk \/ (SIoctlOk /\ SockOnly)
  <2>1. UNCHANGED <<showDefault, conMsg>> /\ UNCHANGED files
    BY <1>7 DEF KIoctlOk, SIoctlOk, SockOnly, keyVars, menu
  <2>2. LcdUp' = LcdUp
    BY <2>1 DEF LcdUp, KindOf, files
  <2>3. Blank # Fixed("Demo v") /\ Fixed("IP") # Fixed("Restart v")
    BY UnmarkedLines DEF Label
  <2>4. MarksAgree => MarksAgree'
    BY <1>7, <2>1, <2>3, ShowTextMarks DEF KIoctlOk, SIoctlOk
  <2> QED BY <2>1, <2>2, <2>4 DEF CursorInv
<1>8. CASE KTail
  BY <1>8, ShowMenuMarks
     DEF KTail, files, CursorInv, MarksAgree, LcdUp, KindOf
<1>9. CASE KeyStep
  <2>1. CASE UNCHANGED <<lcd, conMsg, showDefault>>
    BY <1>1, <1>2, <2>1
  <2>2. CASE KInitFail \/ KPoll \/ KDisplayCut \/ KKey \/ KClear \/ KOther
             \/ KMenuKillCkt \/ KSocketOk \/ KSocketFail \/ KIoctlFail
             \/ KStartCkt \/ KStartMx \/ KRequest
    BY <2>1, <2>2
       DEF KInitFail, KPoll, KDisplayCut, KKey, KClear, KOther, KMenuKillCkt,
           KSocketOk, KSocketFail, KIoctlFail, KStartCkt, KStartMx, KRequest,
           shared, menu
  <2> QED
    BY <1>2, <1>3, <1>4, <1>5, <1>6, <1>7, <1>8, <1>9, <2>2 DEF KeyStep
<1>10. CASE SockStep
  <2>1. UNCHANGED <<conMsg, showDefault>> /\ SockOnly
    BY <1>10, SockFrame DEF keyVars, menu, SockStep
  <2>2. CASE UNCHANGED lcd
    BY <1>1, <1>2, <2>1, <2>2
  <2> QED
    BY <1>7, <1>10, <2>1, <2>2
       DEF SockStep, STop, SSocketOk, SSocketFail, SIoctlFail, SCreate,
           SListenOk, SBindFail, SListenFail, SAcceptOk, SAcceptFail, SPublish,
           SServed, SRecv, SRecvEnd, SStoreCmd, SBlankText, SCopyText, SEcho,
           SEchoError, SEchoSigpipe, SCloseClient, SCloseServer, shared
<1>11. CASE Client
  BY <1>1, <1>2, <1>11, ClientFrame DEF keyVars, menu
<1>12. CASE UNCHANGED vars
  BY <1>1, <1>2, <1>12 DEF vars, shared, keyVars, menu
<1> QED
  BY <1>9, <1>10, <1>11, <1>12 DEF Next, Gone

(* The mark on the glass is the selection OK acts on.                      *)
THEOREM CursorAgreesAlways == Spec => []CursorAgrees
<1>1. Init => CursorInv
  <2> SUFFICES ASSUME Init PROVE CursorInv
    OBVIOUS
  <2>1. lcd[1] = Blank /\ lcd[2] = Blank
    BY DEF Init, SharedInit
  <2>2. conMsg = 1
    BY DEF Init, KeyInitState
  <2> QED BY <2>1, <2>2, UnmarkedLines DEF CursorInv, MarksAgree
<1>2. CursorInv => CursorAgrees
  BY DEF CursorInv, MarksAgree, CursorAgrees
<1> QED
  BY <1>1, <1>2, TypeCorrect, CursorStep, PTL DEF Spec

(* The session's descriptors.  -------------------------------------------- *)

(* The connection, when there is one, is the one being published or the    *)
(* one being served, and its listening socket is open: every session       *)
(* before it is closed, so its stale descriptor numbers are never closed   *)
(* again while they belong to this one.                                    *)
Serving == {"served", "recv", "lock", "blank", "copy", "echo", "close"}
Chunk   == {"lock", "blank", "copy", "echo"}

SessionInv ==
  /\ spc \in {"accept", "publish"} => fds[newServer] = "listen"
  /\ spc = "publish" => fds[newClient] = "conn"
  /\ \A f \in Fd : fds[f] = "conn" =>
       \/ spc = "publish" /\ f = newClient
       \/ spc \in Serving /\ f = clientFd /\ KindOf(serverFd) = "listen"
  /\ spc \in Chunk => KindOf(clientFd) = "conn"

(* The key thread's descriptors are never the session's.                   *)
LEMMA SessionKey == TypeOK /\ SessionInv /\ KeyStep => SessionInv'
<1> SUFFICES ASSUME TypeOK, SessionInv, KeyStep PROVE SessionInv'
  OBVIOUS
<1>1. UNCHANGED <<spc, newServer, newClient, serverFd, clientFd>>
  BY KeyFrame DEF session, sockVars, opening
<1>2. \A g \in Fd : /\ fds[g] \in {"listen", "conn"} => fds'[g] = fds[g]
                    /\ fds'[g] = "conn" => fds[g] = "conn"
  BY KeyFiles
<1>3. \A g : KindOf(g) \in {"listen", "conn"} => KindOf(g)' = KindOf(g)
  BY <1>2 DEF KindOf
<1>4. newServer \in Fd \/ spc \notin {"accept", "publish"}
  BY DEF TypeOK, SockTypeOK
<1>5. newClient \in Fd \/ spc # "publish"
  BY DEF TypeOK, SockTypeOK
<1> QED
  BY <1>1, <1>2, <1>3, <1>4, <1>5 DEF SessionInv, KindOf

(* The socket thread opens and closes one session at a time.               *)
LEMMA SessionSock == TypeOK /\ SessionInv /\ SockStep => SessionInv'
<1> SUFFICES ASSUME TypeOK, SessionInv, SockStep PROVE SessionInv'
  OBVIOUS
<1> USE DEF SockAt, SGoto, SessionInv, Serving, Chunk, KindOf
<1>a. /\ fds \in [Fd -> Kinds]
      /\ serverFd \in Fd \cup {-1} /\ clientFd \in Fd \cup {-1}
      /\ spc \in {"accept", "publish"} => newServer \in Fd
      /\ spc = "publish" => newClient \in Fd
      /\ \A f \in Fd : f > 0
  BY DEF TypeOK, SharedTypeOK, SockTypeOK, Fd
<1>1. CASE STop \/ SSocketFail \/ SIoctlOk \/ SIoctlFail \/ SListenFail
  BY <1>1
     DEF STop, SSocketFail, SIoctlOk, SIoctlFail, SListenFail, shared, session,
         files, opening
<1>2. CASE SSocketOk
  BY <1>a, <1>2 DEF SSocketOk, LowestFree, session, opening
<1>3. CASE SCreate
  <2>1. \A g \in Fd : fds[g] # "conn"
    BY <1>3 DEF SCreate
  <2>2. PICK c, s \in Garbage : fds' \in {fds, Closed(Closed(fds, c), s)}
    BY <1>3 DEF SCreate
  <2>3. \A g \in Fd : fds'[g] # "conn"
    BY <2>1, <2>2, ClosedFiles
  <2> QED BY <1>3, <2>3 DEF SCreate
<1>4. CASE SListenOk
  BY <1>a, <1>4 DEF SListenOk, LowestFree, session
<1>5. CASE SBindFail
  BY <1>a, <1>5 DEF SBindFail, LowestFree, session
<1>6. CASE SAcceptOk
  BY <1>a, <1>6 DEF SAcceptOk, LowestFree, session
<1>7. CASE SAcceptFail
  BY <1>a, <1>7 DEF SAcceptFail, session, files, opening
<1>8. CASE SPublish
  BY <1>a, <1>8 DEF SPublish, files
<1>9. CASE SServed
  BY <1>a, <1>9 DEF SServed, HaveSession, session, files
<1>10. CASE SRecv
  BY <1>10 DEF SRecv, session, files
<1>11. CASE SRecvEnd \/ SStoreCmd \/ SBlankText \/ SCopyText \/ SEcho
            \/ SEchoError \/ SEchoSigpipe
  BY <1>11
     DEF SRecvEnd, SStoreCmd, SBlankText, SCopyText, SEcho, SEchoError,
         SEchoSigpipe, shared, session, files
<1>12. CASE SCloseClient
  <2>1. \A g \in Fd : fds'[g] # "conn"
    <3>1. \A g \in Fd : fds[g] = "conn" => g = clientFd
      BY <1>12 DEF SCloseClient
    <3>2. \A g \in Fd : fds'[g] = IF g = clientFd THEN "free" ELSE fds[g]
      BY <1>12 DEF SCloseClient, SClose, Closed
    <3> QED BY <3>1, <3>2
  <2> QED BY <1>12, <2>1 DEF SCloseClient
<1>13. CASE SCloseServer
  <2>1. \A g \in Fd : fds'[g] # "conn"
    BY <1>13, ClosedFiles DEF SCloseServer, SClose
  <2> QED BY <1>13, <2>1 DEF SCloseServer
<1> QED
  BY <1>1, <1>2, <1>3, <1>4, <1>5, <1>6, <1>7, <1>8, <1>9, <1>10, <1>11,
     <1>12, <1>13 DEF SockStep

(* Every step keeps the one session.                                       *)
LEMMA SessionStep == TypeOK /\ SessionInv /\ [Next]_vars => SessionInv'
<1>1. SessionInv /\ UNCHANGED <<session, files, spc, opening>> => SessionInv'
  BY DEF SessionInv, KindOf, session, files, opening
<1>2. SessionInv /\ Client => SessionInv'
  BY <1>1, ClientFrame DEF sockVars
<1>3. SessionInv /\ UNCHANGED vars => SessionInv'
  BY <1>1 DEF vars, shared, sockVars
<1> QED
  BY <1>2, <1>3, SessionKey, SessionSock DEF Next, Gone

(* There is one session at most in every behaviour.                        *)
LEMMA SessionCorrect == Spec => []SessionInv
<1>1. Init => SessionInv
  BY DEF Init, SharedInit, SockInitState, SessionInv, Serving, Chunk
<1> QED
  BY <1>1, TypeCorrect, SessionStep, PTL DEF Spec

(* No stale close hits the session whose chunk is being handled.           *)
THEOREM SessionLiveAlways == Spec => []SessionLive
<1>1. TypeOK /\ SessionInv => SessionLive
  <2> SUFFICES ASSUME TypeOK, SessionInv, spc \in Chunk
               PROVE  KindOf(clientFd) = "conn" /\ KindOf(serverFd) = "listen"
    BY DEF SessionLive, Chunk
  <2>1. clientFd \in Fd /\ fds[clientFd] = "conn"
    BY DEF SessionInv, KindOf
  <2> QED BY <2>1 DEF SessionInv, Chunk, KindOf
<1> QED
  BY <1>1, TypeCorrect, SessionCorrect, PTL

(* The LCD's descriptor is opened before any session and is none of its.   *)
ApartInv ==
  /\ kpc = "init" =>
       ~LcdUp /\ spc = "top" /\ ipFlg = 0 /\ serverFd = -1 /\ clientFd = -1
  /\ LcdUp => devFd \notin {serverFd, clientFd}

(* Every step keeps the LCD apart from the session.                        *)
LEMMA ApartStep == TypeOK /\ SessionInv /\ ApartInv /\ [Next]_vars => ApartInv'
<1> SUFFICES ASSUME TypeOK, SessionInv, ApartInv, [Next]_vars PROVE ApartInv'
  OBVIOUS
<1>a. KInitOk \/ (LcdUp' => LcdUp /\ UNCHANGED devFd)
  BY LcdUpBefore
<1>1. CASE KInitOk /\ KeyOnly
  <2>1. kpc' # "init" /\ UNCHANGED session /\ devFd' \in Fd
    BY <1>1 DEF KInitOk, Goto
  <2>2. serverFd = -1 /\ clientFd = -1 /\ -1 \notin Fd
    BY <1>1 DEF KInitOk, KeyAt, ApartInv, Fd
  <2> QED BY <2>1, <2>2 DEF ApartInv, session
<1>2. CASE KeyStep /\ ~KInitOk
  <2>1. kpc' # "init"
    BY <1>2
       DEF KeyStep, KInitFail, KPoll, KDisplayTail, KDisplayCut, KDisplayHead,
           KKey, KClear, KOther, KBack, KUp, KDown, Select, KOkDemo, KReboot,
           Handling, KMenuKillCkt, KMenuKillMx, KSocketOk, KSocketFail,
           KIoctlOk, KIoctlFail, KGot, KStartCkt, KStartMx, KRequest, KTail,
           KeyAt, Goto
  <2> QED BY <1>a, <1>2, <2>1, KeyFrame DEF ApartInv, session
<1>3. CASE SockStep
  <2>1. kpc' = kpc /\ ~KInitOk
    BY <1>3, SockFrame DEF keyVars, KInitOk, KeyAt, Goto
  <2>2. kpc = "init" =>
          spc' = "top" /\ UNCHANGED <<ipFlg, serverFd, clientFd>>
    BY <1>3
       DEF ApartInv, SockAt, SGoto, SockStep, STop, HaveSession, SSocketOk,
           SSocketFail, SIoctlOk, SIoctlFail, SCreate, SListenOk, SBindFail,
           SListenFail, SAcceptOk, SAcceptFail, SPublish, SServed, SRecv,
           SRecvEnd, SStoreCmd, SBlankText, SCopyText, SEcho, SEchoError,
           SEchoSigpipe, SCloseClient, SCloseServer, shared, session
  <2>3. UNCHANGED session \/ SPublish
    BY <1>3
       DEF SockStep, STop, SSocketOk, SSocketFail, SIoctlOk, SIoctlFail,
           SCreate, SListenOk, SBindFail, SListenFail, SAcceptOk, SAcceptFail,
           SServed, SRecv, SRecvEnd, SStoreCmd, SBlankText, SCopyText, SEcho,
           SEchoError, SEchoSigpipe, SCloseClient, SCloseServer, shared
  <2>4. SPublish /\ LcdUp => devFd \notin {serverFd', clientFd'}
    BY DEF SPublish, SockAt, SessionInv, LcdUp, KindOf
  <2> QED BY <1>a, <2>1, <2>2, <2>3, <2>4 DEF ApartInv, session
<1>4. CASE Client \/ UNCHANGED vars
  <2>1. UNCHANGED <<kpc, spc, ipFlg, session, devFd, fds>>
    BY <1>4, ClientFrame DEF vars, shared, files, keyVars, sockVars
  <2> QED BY <2>1 DEF ApartInv, session, LcdUp, KindOf
<1> QED
  BY <1>1, <1>2, <1>3, <1>4 DEF Next, Gone, KeyStep

(* Only the uninitialised locals of CreatServer can close the LCD.         *)
THEOREM LcdLostOnlyInCreateAlways == Spec => LcdLostOnlyInCreate
<1>1. Init => ApartInv
  BY DEF Init, SharedInit, KeyInitState, SockInitState, ApartInv, LcdUp,
         KindOf, Fd
<1>2. TypeOK /\ ApartInv /\ [Next]_vars => [LcdUp => LcdUp' \/ spc = "create"]_vars
  <2> SUFFICES ASSUME TypeOK, ApartInv, [Next]_vars, LcdUp
               PROVE  LcdUp' \/ spc = "create"
    OBVIOUS
  <2>1. devFd \in Fd /\ fds[devFd] = "i2c" /\ kpc # "init"
    BY DEF LcdUp, KindOf, ApartInv
  <2>2. SUFFICES UNCHANGED devFd /\ (fds'[devFd] = "i2c" \/ spc = "create")
    BY <2>1 DEF LcdUp, KindOf
  <2>3. CASE KeyStep
    <3>1. UNCHANGED devFd
      BY <2>1, <2>3
         DEF KeyStep, KInitOk, KInitFail, KPoll, KDisplayTail, KDisplayCut,
             KDisplayHead, KKey, KClear, KOther, KBack, KUp, KDown, Select,
             KOkDemo, KReboot, KMenuKillCkt, KMenuKillMx, KSocketOk,
             KSocketFail, KIoctlOk, KIoctlFail, KStartCkt, KStartMx, KRequest,
             KTail, KeyAt, shared, files
    <3> QED BY <2>1, <2>3, <3>1, KeyFiles
  <2>4. CASE SockStep
    BY <2>1, <2>4, SockFiles, SockFrame
       DEF ApartInv, SCreate, SockAt
  <2>5. CASE Client \/ UNCHANGED vars
    BY <2>1, <2>5, ClientFrame DEF vars, shared, files
  <2> QED BY <2>3, <2>4, <2>5 DEF Next, Gone
<1> QED
  BY <1>1, <1>2, TypeCorrect, SessionCorrect, ApartStep, PTL
     DEF Spec, LcdLostOnlyInCreate

(* Message texts.  --------------------------------------------------------- *)

(* Which chunk the text of each place comes from, 0 for none.              *)
TopId    == lcd[1].msg
BottomId == lcd[2].msg
HeadId   == revbuf.head.msg
TailId   == revbuf.tail.msg
BufId    == buf.text.msg

(* Messages arrive in the order they were sent and are stored in the order *)
(* they arrive; the bottom line is written before the top line is, so what *)
(* may still go to the top line is never older than the bottom line.       *)
OrderInv ==
  /\ \A i \in 1 .. Len(stream) :
       /\ stream[i].id <= sent
       /\ BottomId < stream[i].id /\ HeadId < stream[i].id
       /\ TailId < stream[i].id /\ BufId < stream[i].id
  /\ \A i, j \in 1 .. Len(stream) : i < j => stream[i].id < stream[j].id
  /\ BottomId <= sent /\ HeadId <= sent /\ TailId <= sent /\ BufId <= sent
  /\ BufId # 0 => BottomId <= BufId /\ HeadId <= BufId /\ TailId <= BufId
  /\ HeadId # 0 => BottomId <= HeadId /\ TailId <= HeadId
  /\ TopId # 0 => BottomId <= TopId

(* The message number of every line that can be shown.                     *)
LEMMA LineIds ==
  /\ \A l \in Line : l.msg \in Nat /\ (l.label = "text" => l.msg # 0)
  /\ \A m \in MsgLine : m.msg \in Nat
  /\ \A i \in 1 .. MaxMsgs : Text(i).msg = i
  /\ \A l \in Label : Fixed(l).msg = 0
  /\ Blank.msg = 0
<1>1. \A l \in Label : Fixed(l).msg = 0 /\ Fixed(l).label = l
  BY DEF Fixed
<1>2. \A i \in 1 .. MaxMsgs : Text(i).msg = i /\ Text(i).label = "text"
  BY DEF Text
<1>3. Blank.msg = 0 /\ Blank.label = "blank"
  BY <1>1 DEF Blank, Label
<1>4. \A m \in MsgLine : m.msg \in Nat /\ (m.label = "text" => m.msg # 0)
  BY <1>2, <1>3, MaxMsgsAssumption DEF MsgLine
<1>5. \A l \in Label : Fixed(l).label # "text"
  BY <1>1 DEF Label
<1>6. \A l \in Line : l.msg \in Nat /\ (l.label = "text" => l.msg # 0)
  BY <1>1, <1>4, <1>5 DEF Line
<1> QED
  BY <1>1, <1>2, <1>3, <1>4, <1>6

(* The message number of every place is a natural number.                  *)
LEMMA IdsTyped ==
  ASSUME TypeOK
  PROVE  /\ TopId \in Nat /\ BottomId \in Nat /\ HeadId \in Nat
         /\ TailId \in Nat /\ BufId \in Nat /\ sent \in Nat
         /\ Len(stream) \in Nat
         /\ \A i \in 1 .. Len(stream) : stream[i].id \in Nat
<1>1. stream \in Seq(Message)
  BY DEF TypeOK, SharedTypeOK
<1>2. \A i \in 1 .. Len(stream) : stream[i] \in Message
  BY <1>1, ElementOfSeq
<1> QED
  BY <1>1, <1>2, LineIds, LenProperties, MaxMsgsAssumption
     DEF TypeOK, SharedTypeOK, SockTypeOK, TopId, BottomId, HeadId, TailId,
         BufId, Message

(* What the LCD and the cut of the text can do to the order.               *)
LEMMA OrderShow ==
  ASSUME TypeOK, OrderInv, UNCHANGED <<stream, sent, BufId, HeadId>>,
         TailId' = TailId \/ TailId' = 0,
         \/ TopId' = 0 /\ BottomId' = 0
         \/ TopId' = 0 /\ BottomId' = TailId
         \/ TopId' = TopId /\ (BottomId' = BottomId \/ BottomId' = 0)
         \/ TopId' = HeadId /\ BottomId' = BottomId
  PROVE  OrderInv'
BY IdsTyped DEF OrderInv

(* Displaying a message keeps the order.                                   *)
LEMMA OrderKey == TypeOK /\ OrderInv /\ KeyStep => OrderInv'
<1> SUFFICES ASSUME TypeOK, OrderInv, KeyStep PROVE OrderInv'
  OBVIOUS
<1>a. UNCHANGED <<stream, sent, BufId>>
  BY KeyFrame DEF peer, sockVars, clientVars, BufId
<1>b. lcd \in Line \X Line /\ revbuf \in [head : MsgLine, tail : MsgLine]
  BY DEF TypeOK, SharedTypeOK
<1>1. CASE UNCHANGED <<lcd, revbuf>>
  BY <1>1, <1>a, OrderShow DEF TopId, BottomId, HeadId, TailId
<1>2. CASE KInitOk
  BY <1>2, <1>a, LineIds, OrderShow
     DEF KInitOk, mailbox, TopId, BottomId, HeadId, TailId
<1>3. CASE KDisplayTail
  <2>1. UNCHANGED revbuf
    BY <1>3 DEF KDisplayTail, mailbox
  <2>2. UNCHANGED lcd \/ lcd' = <<Blank, revbuf.tail>>
    BY <1>3 DEF KDisplayTail, Show
  <2> QED
    BY <1>1, <1>a, <2>1, <2>2, LineIds, OrderShow
       DEF TopId, BottomId, HeadId, TailId
<1>4. CASE KDisplayCut
  BY <1>4, <1>a, <1>b, LineIds, OrderShow
     DEF KDisplayCut, TopId, BottomId, HeadId, TailId
<1>5. CASE KDisplayHead
  <2>1. UNCHANGED revbuf
    BY <1>5 DEF KDisplayHead, mailbox
  <2>2. UNCHANGED lcd \/ lcd' = <<revbuf.head, lcd[2]>>
    BY <1>5 DEF KDisplayHead, ShowTop
  <2> QED
    BY <1>1, <1>a, <2>1, <2>2, OrderShow DEF TopId, BottomId, HeadId, TailId
<1>6. CASE KBack \/ KUp \/ KDown \/ KOkDemo \/ KMenuKillMx \/ KTail
  <2>1. UNCHANGED revbuf
    BY <1>6 DEF KBack, KUp, KDown, Select, KOkDemo, KMenuKillMx, KTail, mailbox
  <2>2. \/ UNCHANGED lcd
        \/ lcd' = <<Fixed("Demo"), Fixed("Restart v")>>
        \/ lcd' = <<Fixed("Demo v"), Fixed("Restart")>>
        \/ lcd' = <<Fixed("PORT"), Blank>>
    BY <1>6
       DEF KBack, KUp, KDown, Select, KOkDemo, KMenuKillMx, KTail, ShowMenu, Show
  <2>3. lcd' # lcd => lcd'[1].msg = 0 /\ lcd'[2].msg = 0
    <3>1. /\ Fixed("Demo").msg = 0 /\ Fixed("Restart v").msg = 0
          /\ Fixed("Demo v").msg = 0 /\ Fixed("Restart").msg = 0
          /\ Fixed("PORT").msg = 0 /\ Blank.msg = 0
      BY LineIds DEF Label
    <3>2. ASSUME NEW x, NEW y, x.msg = 0, y.msg = 0, lcd' = <<x, y>>
          PROVE  lcd'[1].msg = 0 /\ lcd'[2].msg = 0
      BY <3>2
    <3> QED BY <2>2, <3>1, <3>2
  <2> QED
    BY <1>1, <1>a, <2>1, <2>3, OrderShow DEF TopId, BottomId, HeadId, TailId
<1>7. CASE KIoctlOk
  <2>1. UNCHANGED revbuf
    BY <1>7 DEF KIoctlOk, mailbox
  <2>2. UNCHANGED lcd \/ lcd' = <<lcd[1], Fixed("IP")>>
    BY <1>7 DEF KIoctlOk, ShowBottom
  <2>3. Fixed("IP").msg = 0
    BY LineIds DEF Label
  <2> QED
    BY <1>1, <1>a, <2>1, <2>2, <2>3, OrderShow
       DEF TopId, BottomId, HeadId, TailId
<1>8. CASE KInitFail \/ KPoll \/ KKey \/ KClear \/ KOther \/ KReboot
           \/ KMenuKillCkt \/ KSocketOk \/ KSocketFail \/ KIoctlFail
           \/ KStartCkt \/ KStartMx \/ KRequest
  BY <1>1, <1>8
     DEF KInitFail, KPoll, KKey, KClear, KOther, KReboot, KMenuKillCkt,
         KSocketOk, KSocketFail, KIoctlFail, KStartCkt, KStartMx, KRequest,
         shared, mailbox
<1> QED
  BY <1>2, <1>3, <1>4, <1>5, <1>6, <1>7, <1>8 DEF KeyStep

(* The chunk recv returns is newer than all that was shown or stored, and  *)
(* older than what stays in the stream.                                    *)
LEMMA OrderRecv ==
  ASSUME TypeOK, OrderInv, SRecv, SockOnly
  PROVE  OrderInv'
<1>1. PICK n \in 1 .. Len(stream), t \in MsgLine :
        /\ IsText(SubSeq(stream, 1, n), t)
        /\ buf'.text = t
        /\ stream' = SubSeq(stream, n + 1, Len(stream))
  BY DEF SRecv
<1>2. /\ stream \in Seq(Message) /\ Len(stream) \in Nat
      /\ \A i \in 1 .. Len(stream) : stream[i] \in Message
  BY IdsTyped, ElementOfSeq DEF TypeOK, SharedTypeOK
<1>3. UNCHANGED <<lcd, revbuf, sent>>
  BY DEF SRecv, SockOnly, clientVars, mailbox
<1>4. UNCHANGED <<TopId, BottomId, HeadId, TailId, sent>>
  BY <1>3 DEF TopId, BottomId, HeadId, TailId
<1>5. /\ Len(stream') \in Nat
      /\ \A i \in 1 .. Len(stream') :
           n + i \in 1 .. Len(stream) /\ stream'[i] = stream[n + i]
  <2>1. \A i \in n + 1 .. Len(stream) : stream[i] \in Message
    BY <1>1, <1>2
  <2>2. /\ Len(stream') = IF n + 1 <= Len(stream)
                            THEN Len(stream) - (n + 1) + 1 ELSE 0
        /\ \A i \in 1 .. Len(stream) - (n + 1) + 1 :
             stream'[i] = stream[n + 1 + i - 1]
    BY <1>1, <1>2, <2>1, SubSeqProperties
  <2> QED BY <1>2, <2>2
<1>6. BufId' = 0 \/ \E i \in 1 .. n : BufId' = stream[i].id
  <2>1. /\ DOMAIN SubSeq(stream, 1, n) = 1 .. n
        /\ \A i \in 1 .. n : SubSeq(stream, 1, n)[i] = stream[i]
    <3>1. \A i \in 1 .. n : stream[i] \in Message
      BY <1>2
    <3>2. /\ SubSeq(stream, 1, n) \in Seq(Message)
          /\ Len(SubSeq(stream, 1, n)) = n
          /\ \A i \in 1 .. n : SubSeq(stream, 1, n)[i] = stream[i]
      BY <1>2, <3>1, SubSeqProperties
    <3> QED BY <3>2, LenProperties
  <2>2. t = Blank \/ \E i \in 1 .. n : t = Text(stream[i].id)
    BY <1>1, <2>1 DEF IsText
  <2>3. \A i \in 1 .. n : stream[i].id \in 1 .. MaxMsgs
    BY <1>2 DEF Message
  <2> QED BY <1>1, <2>2, <2>3, LineIds DEF BufId
<1>7. /\ BufId' <= sent
      /\ BufId' # 0 => BottomId <= BufId' /\ HeadId <= BufId' /\ TailId <= BufId'
      /\ \A i \in n + 1 .. Len(stream) : BufId' < stream[i].id
  <2>1. CASE BufId' = 0
    BY <1>2, <2>1, IdsTyped DEF Message
  <2>2. CASE BufId' # 0
    <3>1. PICK i \in 1 .. n : BufId' = stream[i].id
      BY <1>6, <2>2
    <3> QED BY <1>2, <3>1, IdsTyped DEF OrderInv
  <2> QED BY <2>1, <2>2
<1>8. \A i \in 1 .. Len(stream') :
        /\ stream'[i].id <= sent
        /\ BottomId < stream'[i].id /\ HeadId < stream'[i].id
        /\ TailId < stream'[i].id /\ BufId' < stream'[i].id
  BY <1>2, <1>5, <1>7 DEF OrderInv
<1>9. \A i, j \in 1 .. Len(stream') : i < j => stream'[i].id < stream'[j].id
  BY <1>2, <1>5 DEF OrderInv
<1> QED
  BY <1>4, <1>7, <1>8, <1>9 DEF OrderInv

(* Receiving and storing a message keeps the order.                        *)
LEMMA OrderSock == TypeOK /\ OrderInv /\ SockStep => OrderInv'
<1> SUFFICES ASSUME TypeOK, OrderInv, SockStep PROVE OrderInv'
  OBVIOUS
<1>a. UNCHANGED sent /\ SockOnly
  BY SockFrame DEF clientVars, SockStep
<1>b. /\ revbuf \in [head : MsgLine, tail : MsgLine]
      /\ buf \in [cmd : Commands, text : MsgLine]
  BY DEF TypeOK, SharedTypeOK, SockTypeOK
<1>1. CASE UNCHANGED <<lcd, revbuf, buf>> /\ (UNCHANGED stream \/ stream' = <<>>)
  <2>1. UNCHANGED <<TopId, BottomId, HeadId, TailId, BufId>>
    BY <1>1 DEF TopId, BottomId, HeadId, TailId, BufId
  <2>2. UNCHANGED stream \/ Len(stream') = 0
    BY <1>1, EmptySeq
  <2> QED BY <1>a, <2>1, <2>2 DEF OrderInv
<1>2. CASE SIoctlOk
  <2>1. UNCHANGED <<revbuf, stream, buf>>
    BY <1>2 DEF SIoctlOk, mailbox, peer
  <2>2. UNCHANGED lcd \/ lcd' = <<lcd[1], Fixed("IP")>>
    BY <1>2 DEF SIoctlOk, ShowBottom
  <2>3. Fixed("IP").msg = 0
    BY LineIds DEF Label
  <2> QED
    BY <1>a, <2>1, <2>2, <2>3, OrderShow
       DEF TopId, BottomId, HeadId, TailId, BufId
<1>3. CASE SRecv
  BY <1>3, <1>a, OrderRecv
<1>4. CASE SBlankText
  <2>1. HeadId' = 0 /\ TailId' = 0
    BY <1>4, LineIds DEF SBlankText, HeadId, TailId
  <2>2. UNCHANGED <<TopId, BottomId, BufId, stream>>
    BY <1>4 DEF SBlankText, peer, TopId, BottomId, BufId
  <2> QED BY <1>a, <2>1, <2>2, IdsTyped DEF OrderInv
<1>5. CASE SCopyText
  <2>1. HeadId' = BufId /\ TailId' = BufId
    BY <1>5 DEF SCopyText, HeadId, TailId, BufId
  <2>2. UNCHANGED <<TopId, BottomId, BufId, stream>>
    BY <1>5 DEF SCopyText, peer, TopId, BottomId, BufId
  <2> QED BY <1>a, <2>1, <2>2, IdsTyped DEF OrderInv
<1>6. CASE SCreate \/ SCloseClient \/ SCloseServer \/ SAcceptFail
  BY <1>1, <1>6
     DEF SCreate, SCloseClient, SCloseServer, SAcceptFail, SClose,
         PeerAfterClosing, mailbox, peer
<1>7. CASE STop \/ SSocketOk \/ SSocketFail \/ SIoctlFail \/ SListenOk
           \/ SBindFail \/ SListenFail \/ SAcceptOk \/ SPublish \/ SServed
           \/ SRecvEnd \/ SStoreCmd \/ SEcho \/ SEchoError \/ SEchoSigpipe
  BY <1>1, <1>7
     DEF STop, SSocketOk, SSocketFail, SIoctlFail, SListenOk, SBindFail,
         SListenFail, SAcceptOk, SPublish, SServed, SRecvEnd, SStoreCmd, SEcho,
         SEchoError, SEchoSigpipe, shared, mailbox, peer
<1> QED
  BY <1>2, <1>3, <1>4, <1>5, <1>6, <1>7 DEF SockStep

(* A new message is newer than all there are.                              *)
LEMMA OrderClient == TypeOK /\ OrderInv /\ Client => OrderInv'
<1> SUFFICES ASSUME TypeOK, OrderInv, Client PROVE OrderInv'
  OBVIOUS
<1>a. UNCHANGED <<TopId, BottomId, HeadId, TailId, BufId>>
  BY ClientFrame
     DEF mailbox, sockVars, TopId, BottomId, HeadId, TailId, BufId
<1>1. CASE ClientSend
  <2>1. PICK c \in Sent :
          stream' = Append(stream, [cmd |-> c, id |-> sent + 1])
    BY <1>1 DEF ClientSend
  <2>2. [cmd |-> c, id |-> sent + 1] \in Message /\ stream \in Seq(Message)
    BY <1>1, SentAssumption, MaxMsgsAssumption
       DEF ClientSend, Message, TypeOK, SharedTypeOK
  <2>3. /\ Len(stream') = Len(stream) + 1
        /\ \A i \in 1 .. Len(stream) : stream'[i] = stream[i]
        /\ stream'[Len(stream) + 1].id = sent + 1
    BY <2>1, <2>2, AppendProperties
  <2>4. sent' = sent + 1
    BY <1>1 DEF ClientSend
  <2>5. \A i \in 1 .. Len(stream') :
          \/ i \in 1 .. Len(stream) /\ stream'[i] = stream[i]
          \/ i = Len(stream) + 1 /\ stream'[i].id = sent + 1
    BY <2>3, IdsTyped
  <2>6. \A i \in 1 .. Len(stream') :
          /\ stream'[i].id <= sent'
          /\ BottomId' < stream'[i].id /\ HeadId' < stream'[i].id
          /\ TailId' < stream'[i].id /\ BufId' < stream'[i].id
    BY <1>a, <2>4, <2>5, IdsTyped DEF OrderInv
  <2>7. \A i, j \in 1 .. Len(stream') :
          i < j => stream'[i].id < stream'[j].id
    BY <2>5, IdsTyped DEF OrderInv
  <2> QED BY <1>a, <2>4, <2>6, <2>7, IdsTyped DEF OrderInv
<1>2. CASE ClientConnect \/ ClientLeave
  BY <1>2, <1>a DEF ClientConnect, ClientLeave, clientVars, OrderInv
<1> QED
  BY <1>1, <1>2 DEF Client

(* The top line never shows an older message than the bottom line.         *)
THEOREM TopNotOlderAlways == Spec => []TopNotOlder
<1>1. Init => OrderInv
  <2> SUFFICES ASSUME Init PROVE OrderInv
    OBVIOUS
  <2>1. TopId = 0 /\ BottomId = 0 /\ HeadId = 0 /\ TailId = 0 /\ BufId = 0
    BY LineIds
       DEF Init, SharedInit, SockInitState, NoChunk, TopId, BottomId, HeadId,
           TailId, BufId
  <2>2. Len(stream) = 0 /\ sent = 0
    BY EmptySeq DEF Init, SharedInit
  <2> QED BY <2>1, <2>2 DEF OrderInv
<1>2. TypeOK /\ OrderInv /\ [Next]_vars => OrderInv'
  <2>1. OrderInv /\ UNCHANGED vars => OrderInv'
    BY DEF vars, shared, mailbox, peer, sockVars, clientVars, OrderInv, TopId,
           BottomId, HeadId, TailId, BufId
  <2> QED BY <2>1, OrderKey, OrderSock, OrderClient DEF Next, Gone
<1>3. TypeOK /\ OrderInv => TopNotOlder
  BY LineIds
     DEF TypeOK, SharedTypeOK, OrderInv, TopNotOlder, TopId, BottomId
<1> QED
  BY <1>1, <1>2, <1>3, TypeCorrect, PTL DEF Spec
=============================================================================
