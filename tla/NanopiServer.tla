---------------------------- MODULE NanopiServer -----------------------------
(***************************************************************************)
(* demo/nanopi: the panel's first program.  KeyThread1 polls the keys,     *)
(* draws the menu's screens and, on F1, makes the server itself and waits  *)
(* in accept; SocketThread2 shows what the first client sends, and ends.   *)
(* Both draw through Lcd1602 on the mcp23017 board.                        *)
(***************************************************************************)
EXTENDS Lcd1602

CONSTANTS
  Port, Address1, Connect, Working, Restart, Welcome, Chunk,  \* the texts
  MaxKeys,      \* bound on the keys acted on
  MaxSessions,  \* bound on the servers made
  MaxChunks     \* bound on what clients send

Key  == "key"
Sock == "socket"

ASSUME ThreadsAssumption == {Key, Sock} \subseteq Threads
ASSUME TextsAssumption ==
  {Port, Address1, Connect, Working, Restart, Welcome, Chunk} \subseteq Texts
ASSUME BoundsAssumption == {MaxKeys, MaxSessions, MaxChunks} \subseteq Nat

VARIABLES
  kpc, spc,                     \* where the two threads are
  script, after,                \* the display calls to come, and where they lead
  lastKey, showDefault, needClear,
  mut,                          \* who holds the mutex
  serverSock, clientSock,       \* the globals, as the session's number, 0 = -1
  listening,                    \* the session whose listening socket is open
  made,                         \* how many servers have been made
  peer,                         \* the client of each session
  inbox,                        \* chunks under way from the client
  serving,                      \* history: the session SocketThread2 took up
  keys, chunks

drawing  == <<script, after>>
menu     == <<lastKey, showDefault, needClear>>
keyVars  == <<kpc, drawing, menu>>
globals  == <<serverSock, clientSock>>
sessions == <<globals, listening, made, peer, inbox>>
bounds   == <<keys, chunks>>
socket   == <<spc, serving>>
nanoVars == <<keyVars, socket, mut, sessions, bounds>>

Sessions == 1 .. MaxSessions

NanoInit ==
  /\ kpc = "off" /\ spc = "off" /\ script = <<>> /\ after = "poll"
  /\ lastKey = Failed /\ showDefault = 1 /\ needClear = 1
  /\ mut = "free" /\ serverSock = 0 /\ clientSock = 0 /\ listening = 0 /\ made = 0
  /\ peer = [n \in Sessions |-> "none"] /\ inbox = 0 /\ serving = 0
  /\ keys = 0 /\ chunks = 0

KAt(l) == kpc = l /\ Idle(Key)
SAt(l) == spc = l /\ Idle(Sock)

Fresh ==
  /\ script' = <<>> /\ after' = "poll"
  /\ lastKey' = Failed /\ showDefault' = 1 /\ needClear' = 1
  /\ mut' = "free" /\ serverSock' = 0 /\ clientSock' = 0 /\ listening' = 0
  /\ peer' = [n \in Sessions |-> IF peer[n] = "conn" THEN "gone" ELSE peer[n]]
  /\ inbox' = 0 /\ serving' = 0

(* thread_create of a new run of the program.                              *)
NanoStart ==
  /\ kpc = "off"
  /\ kpc' = "init" /\ spc' = "wait"
  /\ Fresh
  /\ UNCHANGED <<lcdVars, made, bounds>>

(* The run ends: by reboot, by SIGPIPE, or the user ends it.               *)
Ends ==
  /\ Halt
  /\ kpc' = "off" /\ spc' = "off"
  /\ Fresh
  /\ UNCHANGED <<made, bounds>>
-----------------------------------------------------------------------------
KInit ==
  /\ KAt("init")
  /\ \/ Boot(Key) /\ kpc' = "booted"
     \/ BootFails(Key) /\ kpc' = "exit"
  /\ UNCHANGED <<drawing, menu, socket, mut, sessions, bounds>>

KBooted ==
  /\ KAt("booted")
  /\ IF ret[Key] = -1
       THEN kpc' = "exit" /\ UNCHANGED <<script, after>>
       ELSE kpc' = "draw" /\ script' = <<LCD1602KeyClear>> /\ after' = "poll"
  /\ UNCHANGED <<lcdVars, menu, socket, mut, sessions, bounds>>

(* The display calls of a screen, one after the other, errors or not.      *)
KDraw ==
  /\ KAt("draw")
  /\ IF script = <<>>
       THEN kpc' = after /\ UNCHANGED <<lcdVars, script>>
       ELSE Call(Key, Head(script)) /\ script' = Tail(script) /\ UNCHANGED kpc
  /\ UNCHANGED <<after, menu, socket, mut, sessions, bounds>>

KPoll ==
  /\ KAt("poll") /\ Call(Key, LCD1602GetKey) /\ kpc' = "key"
  /\ UNCHANGED <<drawing, menu, socket, mut, sessions, bounds>>

Screen(k) ==
  CASE k = "F1" -> <<LCD1602KeyClear, LCD1602KeyDispStr(0, 0, Port)>>
    [] k = "F2" -> <<LCD1602KeyClear>>
    [] k = "F3" -> <<LCD1602KeyClear, LCD1602KeyDispStr(0, 0, Connect),
                     LCD1602KeyDispStr(0, 1, Working)>>
    [] k = "F4" -> <<LCD1602KeyClear, LCD1602KeyDispStr(0, 0, Connect),
                     LCD1602KeyDispStr(0, 1, Restart)>>
    [] OTHER    -> <<>>
Leads(k) == CASE k = "F1" -> "addr" [] k = "F4" -> "reboot" [] OTHER -> "tail"
Menu     == {"F1", "F2", "F3", "F4"}

KKey ==
  /\ KAt("key")
  /\ IF keyValue = lastKey /\ showDefault # 1
       THEN kpc' = "poll" /\ UNCHANGED <<script, after, lastKey, showDefault, keys>>
       ELSE /\ keyValue \notin {lastKey, "none"} => keys < MaxKeys
            /\ keys' = IF keyValue \in {lastKey, "none"} THEN keys ELSE keys + 1
            /\ lastKey' = keyValue
            /\ showDefault' = IF keyValue \in Menu THEN 0
                              ELSE IF keyValue = "F5" THEN 1 ELSE showDefault
            /\ script' = Screen(keyValue) /\ after' = Leads(keyValue)
            /\ kpc' = "draw"
  /\ UNCHANGED <<lcdVars, needClear, socket, mut, sessions, chunks>>

KTail ==
  /\ KAt("tail")
  /\ IF showDefault = 1 /\ needClear = 1
       THEN /\ script' = <<LCD1602KeyClear, LCD1602KeyDispStr(0, 0, Connect),
                           LCD1602KeyDispStr(0, 1, Welcome)>>
            /\ after' = "poll" /\ kpc' = "draw"
       ELSE kpc' = "poll" /\ UNCHANGED <<script, after>>
  /\ needClear' = 1 - showDefault
  /\ UNCHANGED <<lcdVars, lastKey, showDefault, socket, mut, sessions, bounds>>

(* GetLocalAddr: its -1 is greater than 0 as well, so CreatServer follows. *)
KAddr ==
  /\ KAt("addr")
  /\ \/ script' = <<LCD1602KeyDispStr(0, 1, Address1)>>
     \/ script' = <<>>
  /\ kpc' = "draw" /\ after' = "create"
  /\ UNCHANGED <<lcdVars, menu, socket, mut, sessions, bounds>>

(* Mutant: the address may be reused. *)
PortFreeAlways == TRUE

(* bind fails while a listening socket has the port, or at any time.       *)
PortFree == listening = 0

KListen ==
  /\ KAt("create")
  /\ \/ /\ PortFree /\ made < MaxSessions
        /\ made' = made + 1 /\ listening' = made + 1
        /\ kpc' = "accept"
     \/ kpc' = "tail" /\ UNCHANGED <<made, listening>>
  /\ UNCHANGED <<lcdVars, drawing, menu, socket, mut, globals, peer, inbox, bounds>>

(* accept, and the greeting; a failure leaves the listening socket open.   *)
KAccept ==
  /\ KAt("accept")
  /\ \/ peer[made] # "none" /\ kpc' = "lock"
     \/ kpc' = "tail"
  /\ UNCHANGED <<lcdVars, drawing, menu, socket, mut, sessions, bounds>>

KSetServer ==
  /\ KAt("lock") /\ mut = "free"
  /\ mut' = Key /\ serverSock' = made
  /\ kpc' = "set"
  /\ UNCHANGED <<lcdVars, drawing, menu, socket, clientSock, listening, made, peer, inbox, bounds>>

KSetClient ==
  /\ KAt("set")
  /\ clientSock' = made /\ mut' = "free"
  /\ kpc' = "tail"
  /\ UNCHANGED <<lcdVars, drawing, menu, socket, serverSock, listening, made, peer, inbox, bounds>>

KReboot == KAt("reboot") /\ Ends
-----------------------------------------------------------------------------
STop ==
  /\ SAt("wait") /\ serverSock > 0 /\ clientSock > 0
  /\ serving' = clientSock
  /\ spc' = "recv"
  /\ UNCHANGED <<lcdVars, keyVars, mut, sessions, bounds>>

SRecv ==
  /\ SAt("recv")
  /\ \/ inbox > 0 /\ inbox' = 0 /\ spc' = "echo"
     \/ inbox = 0 /\ peer[clientSock] = "gone" /\ spc' = "close" /\ UNCHANGED inbox
  /\ UNCHANGED <<lcdVars, keyVars, mut, globals, listening, made, peer, serving, bounds>>

SEcho ==
  /\ SAt("echo")
  /\ Call(Sock, LCD1602KeyClear) /\ spc' = "cleared"
  /\ UNCHANGED <<keyVars, mut, sessions, serving, bounds>>

SEchoFails ==
  /\ SAt("echo") /\ peer[clientSock] = "gone" /\ spc' = "close"
  /\ UNCHANGED <<lcdVars, keyVars, mut, sessions, serving, bounds>>

SEchoSigpipe == SAt("echo") /\ peer[clientSock] = "gone" /\ Ends

SShow ==
  /\ SAt("cleared")
  /\ Call(Sock, LCD1602KeyDispStr(0, 0, Chunk)) /\ spc' = "recv"
  /\ UNCHANGED <<keyVars, mut, sessions, serving, bounds>>

(* Both sockets of the session are closed, and the thread ends.            *)
SClose ==
  /\ SAt("close") /\ mut = "free"
  /\ listening' = IF listening = serverSock THEN 0 ELSE listening
  /\ spc' = "exit"
  /\ UNCHANGED <<lcdVars, keyVars, mut, globals, made, peer, inbox, serving, bounds>>
-----------------------------------------------------------------------------
(* demo/nanopi/android-client/client.c: connects, sends, waits for each    *)
(* echo, and quits.                                                        *)
ClientConnect ==
  /\ listening > 0 /\ peer[listening] = "none"
  /\ peer' = [peer EXCEPT ![listening] = "conn"]
  /\ UNCHANGED <<lcdVars, keyVars, socket, mut, globals, listening, made, inbox, bounds>>

ClientSend ==
  /\ serving > 0 /\ peer[serving] = "conn" /\ inbox = 0 /\ chunks < MaxChunks
  /\ inbox' = 1 /\ chunks' = chunks + 1
  /\ UNCHANGED <<lcdVars, keyVars, socket, mut, globals, listening, made, peer, keys>>

ClientQuits(n) ==
  /\ peer[n] = "conn"
  /\ peer' = [peer EXCEPT ![n] = "gone"]
  /\ UNCHANGED <<lcdVars, keyVars, socket, mut, globals, listening, made, inbox, bounds>>

KeyThread1 ==
  \/ KInit \/ KBooted \/ KDraw \/ KPoll \/ KKey \/ KTail
  \/ KAddr \/ KListen \/ KAccept \/ KSetServer \/ KSetClient \/ KReboot

SocketThread2 ==
  STop \/ SRecv \/ SEcho \/ SEchoFails \/ SEchoSigpipe \/ SShow \/ SClose

Client ==
  ClientConnect \/ ClientSend \/ \E n \in Sessions : ClientQuits(n)

NanoNext ==
  \/ NanoStart \/ (kpc # "off" /\ Ends)
  \/ KeyThread1 \/ SocketThread2 \/ Client
  \/ \E t \in {Key, Sock} : Transfer(t) /\ UNCHANGED nanoVars
-----------------------------------------------------------------------------
NanoTypeOK ==
  /\ kpc \in {"off", "init", "booted", "draw", "poll", "key", "tail", "addr",
              "create", "accept", "lock", "set", "reboot", "exit"}
  /\ spc \in {"off", "wait", "recv", "echo", "cleared", "close", "exit"}
  /\ script \in Seq(Seq(Items)) /\ after \in {"poll", "tail", "addr", "create", "reboot"}
  /\ lastKey \in Keys \cup {PortA, Failed}
  /\ showDefault \in {0, 1} /\ needClear \in {0, 1}
  /\ mut \in {"free", Key}
  /\ serverSock \in 0 .. MaxSessions /\ clientSock \in 0 .. MaxSessions
  /\ listening \in 0 .. MaxSessions /\ made \in 0 .. MaxSessions
  /\ peer \in [Sessions -> {"none", "conn", "gone"}]
  /\ inbox \in {0, 1} /\ serving \in 0 .. MaxSessions
  /\ keys \in 0 .. MaxKeys /\ chunks \in 0 .. MaxChunks

(* Both threads read and write the globals, one of them without the mutex: *)
(* all the same the sockets SocketThread2 receives on, answers on and      *)
(* closes are those of the one session it took up, however often F1 makes  *)
(* the key thread call CreatServer in the meantime.                        *)
SessionOwn ==
  spc \in {"recv", "echo", "cleared", "close"} =>
    serverSock = serving /\ clientSock = serving /\ listening = serving
=============================================================================
