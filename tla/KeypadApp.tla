----------------------------- MODULE KeypadApp ------------------------------
(***************************************************************************)
(* The panel program: its two threads over the state they share, and the   *)
(* client (the phone) at the other end of the connection.                  *)
(***************************************************************************)
EXTENDS KeyThread, SocketThread

CONSTANTS
  MaxConns,     \* bound on the connections the client makes
  Sent          \* the commands the client may send

ASSUME MaxConnsAssumption == MaxConns \in Nat
ASSUME SentAssumption     == Sent \subseteq Commands

VARIABLES conns, sent      \* connections made, messages sent (bounds)

clientVars == <<conns, sent>>
vars == <<shared, keyVars, sockVars, clientVars>>

Init == SharedInit /\ KeyInitState /\ SockInitState /\ conns = 0 /\ sent = 0

(* The client connects as soon as something listens, sends messages        *)
(* without waiting for the echo, closes, or loses the connection.          *)
ClientConnect ==
  /\ down = "no"
  /\ conn = "none"
  /\ conns < MaxConns
  /\ \E f \in Fd : fds[f] = "listen"
  /\ conn' = "open"
  /\ conns' = conns + 1
  /\ UNCHANGED <<mailbox, ipFlg, mut, session, files, lcd, down, stream>>
  /\ UNCHANGED <<keyVars, sockVars, sent>>

ClientSend ==
  /\ down = "no"
  /\ conn = "open"
  /\ sent < MaxMsgs
  /\ \E c \in Sent : stream' = Append(stream, [cmd |-> c, id |-> sent + 1])
  /\ sent' = sent + 1
  /\ UNCHANGED <<mailbox, ipFlg, mut, session, files, lcd, down, conn>>
  /\ UNCHANGED <<keyVars, sockVars, conns>>

ClientLeave ==
  /\ down = "no"
  /\ conn = "open"
  /\ conn' \in {"fin", "rst"}
  /\ UNCHANGED <<mailbox, ipFlg, mut, session, files, lcd, down, stream>>
  /\ UNCHANGED <<keyVars, sockVars, clientVars>>

KeyOnly == UNCHANGED <<sockVars, clientVars>>
KeyStep ==
  \/ KInitOk      /\ KeyOnly
  \/ KInitFail    /\ KeyOnly
  \/ KPoll        /\ KeyOnly
  \/ KDisplayTail /\ KeyOnly
  \/ KDisplayCut  /\ KeyOnly
  \/ KDisplayHead /\ KeyOnly
  \/ KKey         /\ KeyOnly
  \/ KClear       /\ KeyOnly
  \/ KOther       /\ KeyOnly
  \/ KBack        /\ KeyOnly
  \/ KUp          /\ KeyOnly
  \/ KDown        /\ KeyOnly
  \/ KOkDemo      /\ KeyOnly
  \/ KReboot      /\ KeyOnly
  \/ KMenuKillCkt /\ KeyOnly
  \/ KMenuKillMx  /\ KeyOnly
  \/ KSocketOk    /\ KeyOnly
  \/ KSocketFail  /\ KeyOnly
  \/ KIoctlOk     /\ KeyOnly
  \/ KIoctlFail   /\ KeyOnly
  \/ KStartCkt    /\ KeyOnly
  \/ KStartMx     /\ KeyOnly
  \/ KRequest     /\ KeyOnly
  \/ KTail        /\ KeyOnly

SockOnly == UNCHANGED <<keyVars, clientVars>>
SockStep ==
  \/ STop         /\ SockOnly
  \/ SSocketOk    /\ SockOnly
  \/ SSocketFail  /\ SockOnly
  \/ SIoctlOk     /\ SockOnly
  \/ SIoctlFail   /\ SockOnly
  \/ SCreate      /\ SockOnly
  \/ SListenOk    /\ SockOnly
  \/ SBindFail    /\ SockOnly
  \/ SListenFail  /\ SockOnly
  \/ SAcceptOk    /\ SockOnly
  \/ SAcceptFail  /\ SockOnly
  \/ SPublish     /\ SockOnly
  \/ SServed      /\ SockOnly
  \/ SRecv        /\ SockOnly
  \/ SRecvEnd     /\ SockOnly
  \/ SStoreCmd    /\ SockOnly
  \/ SBlankText   /\ SockOnly
  \/ SCopyText    /\ SockOnly
  \/ SEcho        /\ SockOnly
  \/ SEchoError   /\ SockOnly
  \/ SEchoSigpipe /\ SockOnly
  \/ SCloseClient /\ SockOnly
  \/ SCloseServer /\ SockOnly

Client == ClientConnect \/ ClientSend \/ ClientLeave

(* The process is gone: rebooted or killed by SIGPIPE.                     *)
Gone == down # "no" /\ UNCHANGED vars

Next == KeyStep \/ SockStep \/ Client \/ Gone

Spec == Init /\ [][Next]_vars

(* pthread mutexes are not handed over in order: the socket thread, which  *)
(* sleeps 100us without the mutex on every round, may take it again and    *)
(* again, but not for ever, so the key thread needs strong fairness.       *)
Fairness == SF_vars(KeyStep) /\ WF_vars(SockStep)

FairSpec == Spec /\ Fairness
-----------------------------------------------------------------------------
(* Every variable keeps its type.                                          *)
TypeOK ==
  /\ SharedTypeOK
  /\ KeyTypeOK
  /\ SockTypeOK
  /\ conns \in 0 .. MaxConns
  /\ sent \in 0 .. MaxMsgs

(* The cursor mark the user sees when the key thread takes the next key is *)
(* the selection OK will act on, although the socket thread writes the LCD *)
(* too and messages replace the menu: no reboot under a mark on Demo.      *)
CursorAgrees ==
  kpc = "poll" /\ LcdUp =>
    /\ lcd[1] = Fixed("Demo v") => conMsg = 1
    /\ lcd[2] = Fixed("Restart v") => conMsg = 2

(* The top line never shows text older than the bottom line's: the chunk   *)
(* on top was received later or is the same one, although revbuf is read   *)
(* in two unlocked steps while it is being rewritten.                      *)
TopNotOlder ==
  lcd[1].label = "text" /\ lcd[2].label = "text" => lcd[1].msg >= lcd[2].msg

(* Between two MENU keys at most one instance of each service is launched, *)
(* however often OK is pressed or sent.                                    *)
LaunchedOnce == services.ckt <= 1 /\ services.mx <= 1

(* A command leaves the mailbox only after its own key has been acted on   *)
(* (DISPLAY, 1, has no key), whatever the debouncing saw before it.        *)
ClearedWasActedOn ==
  kpc = "clear" => krev = 1 \/ CommandKey[krev] = lastKeyValue

(* Nobody waits for the network while holding the mutex: a silent client   *)
(* cannot stop the keypad.                                                 *)
NoWaitWithMutex == spc \in {"accept", "recv"} => mut = "free"

(* While a chunk of the client is being handled its two descriptors are    *)
(* open on this session's sockets: no stale close, of a session that ended *)
(* before, has hit them.                                                   *)
SessionLive ==
  spc \in {"lock", "blank", "copy", "echo"} =>
    KindOf(clientFd) = "conn" /\ KindOf(serverFd) = "listen"

(* The LCD descriptor is closed only by the uninitialised locals of        *)
(* CreatServer, never by the stale closes after a session.                 *)
LcdLostOnlyInCreate == [][LcdUp => LcdUp' \/ spc = "create"]_vars

(* The services are launched and a server is requested only with an        *)
(* address: the branch of lines 365-368 reports "get ip address failure".  *)
LaunchOnlyWithAddress ==
  kpc \in {"startckt", "startmx", "request"} => serverip # ErrorAddr

(* Once a key has been acted on, a command never stays in the mailbox, so  *)
(* the keypad, read only while it is empty, always comes back.             *)
MailboxDrains ==
  revcmd # 0 /\ showDefault = 0 ~> revcmd = 0 \/ down # "no"

(* The keypad is polled for ever whatever the client does or fails to do.  *)
KeypadAlive == []<>(kpc \in {"key", "exit"} \/ down # "no")

(* A request for a server is taken up unless the socket thread waits for a *)
(* client: on a connection, or on a descriptor that was reused as datagram *)
(* socket after the session it belonged to had ended.                      *)
WaitsForClient ==
  spc = "accept" \/ (spc = "recv" /\ KindOf(clientFd) \in {"conn", "udp"})
RequestTaken == ipFlg = 1 ~> ipFlg = 0 \/ WaitsForClient \/ down # "no"
=============================================================================
