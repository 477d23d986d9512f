---------------------------- MODULE SocketThread ----------------------------
(***************************************************************************)
(* SocketThread2 (lines 418-505) with CreatServer (143-203) and its call   *)
(* of GetLocalAddr (115-141): waits for ipFlg, opens a one-client TCP      *)
(* server, copies what the client sends to the mailbox and echoes it.      *)
(***************************************************************************)
EXTENDS KeypadState

VARIABLES
  spc,           \* where SocketThread2 is
  newServer,     \* server_sockfd, the local of CreatServer
  newClient,     \* client_sockfd, the local of CreatServer
  buf            \* the last chunk recv returned: its command and its text

opening    == <<newServer, newClient>>
sockLocals == <<opening, buf>>
sockVars   == <<spc, sockLocals>>

SGoto(l)  == spc' = l
SockAt(l) == spc = l /\ down = "no"

NoChunk == [cmd |-> 0, text |-> Blank]

SockInitState ==
  /\ spc = "top"
  /\ newServer = 0
  /\ newClient = 0
  /\ buf = NoChunk

(* What the client's connection becomes when the descriptors of D close:   *)
(* it dies with its own descriptor, or with the listening socket while it  *)
(* still waits there to be accepted.                                       *)
PeerAfterClosing(D) ==
  IF \/ \E f \in D : KindOf(f) = "conn"
     \/ (\E f \in D : KindOf(f) = "listen") /\ \A f \in Fd : fds[f] # "conn"
  THEN conn' = "none" /\ stream' = <<>>
  ELSE UNCHANGED peer

(* Lines 427-430 and 439: ipFlg is read without the mutex.                 *)
HaveSession == serverFd > 0 /\ clientFd > 0

(* Mutant: a session goes before a request. *)
NextRoundServes ==
  IF HaveSession THEN "recv" ELSE IF ipFlg = 1 THEN "socket" ELSE "top"

NextRound ==
  IF ipFlg = 1 THEN "socket" ELSE IF HaveSession THEN "recv" ELSE "top"

STop ==
  /\ SockAt("top")
  /\ SGoto(NextRound)
  /\ UNCHANGED <<shared, sockLocals>>

(* GetLocalAddr from this thread: the result only reaches CreatServer,     *)
(* which does not use it.                                                  *)
SSocketOk ==
  /\ SockAt("socket")
  /\ \E f \in Fd : Open(f, "udp")
  /\ SGoto("ioctl")
  /\ UNCHANGED <<butFds, sockLocals>>

SSocketFail ==
  /\ SockAt("socket")
  /\ NoFreeFd
  /\ SGoto("create")
  /\ UNCHANGED <<shared, sockLocals>>

SIoctlOk ==
  /\ SockAt("ioctl")
  /\ ShowBottom(Fixed("IP"))
  /\ SGoto("create")
  /\ UNCHANGED <<butLcd, sockLocals>>

SIoctlFail ==
  /\ SockAt("ioctl")
  /\ SGoto("create")
  /\ UNCHANGED <<shared, sockLocals>>

(* CreatServer, lines 145-157: two locals are read before anything is      *)
(* written to them, and closed when both are positive.                     *)
SCreate ==
  /\ SockAt("create")
  /\ mut = "free"
  /\ \E c, s \in Garbage :
       IF c > 0 /\ s > 0
       THEN /\ fds' = Closed(Closed(fds, c), s)
            /\ PeerAfterClosing({c, s})
       ELSE UNCHANGED <<fds, peer>>
  /\ SGoto("listen")
  /\ UNCHANGED <<mailbox, ipFlg, mut, session, devFd, lcd, down, sockLocals>>

(* Lines 167-181: socket, bind, listen.  bind fails while another socket   *)
(* listens on port 8000, and may fail for reasons outside the program (no  *)
(* SO_REUSEADDR: a connection in TIME_WAIT); the socket is then leaked.    *)
SListenOk ==
  /\ SockAt("listen")
  /\ \A f \in Fd : fds[f] # "listen"
  /\ \E f \in Fd : Open(f, "listen") /\ newServer' = f
  /\ SGoto("accept")
  /\ UNCHANGED <<butFds, newClient, buf>>

SBindFail ==
  /\ SockAt("listen")
  /\ \E f \in Fd : Open(f, "tcp") /\ newServer' = f
  /\ SGoto("served")
  /\ UNCHANGED <<butFds, newClient, buf>>

SListenFail ==
  /\ SockAt("listen")
  /\ NoFreeFd
  /\ SGoto("served")
  /\ UNCHANGED <<shared, sockLocals>>

(* Lines 186-190: accept blocks until a client has connected; it fails     *)
(* when the client is gone again or no descriptor is left, and the         *)
(* listening socket is then leaked.                                        *)
SAcceptOk ==
  /\ SockAt("accept")
  /\ conn # "none"
  /\ \E f \in Fd : Open(f, "conn") /\ newClient' = f
  /\ SGoto("publish")
  /\ UNCHANGED <<butFds, newServer, buf>>

SAcceptFail ==
  /\ SockAt("accept")
  /\ conn = "rst" \/ (conn # "none" /\ NoFreeFd)
  /\ conn' = IF conn = "rst" THEN "none" ELSE conn
  /\ stream' = IF conn = "rst" THEN <<>> ELSE stream
  /\ SGoto("served")
  /\ UNCHANGED <<mailbox, ipFlg, mut, session, files, lcd, down, sockLocals>>

(* Lines 195-200.                                                          *)
(* Mutant: the first server is kept. *)
PublishOnce(s, c) ==
  serverFd' = (IF serverFd > 0 THEN serverFd ELSE s) /\ clientFd' = c

Publish(s, c) == serverFd' = s /\ clientFd' = c

SPublish ==
  /\ SockAt("publish")
  /\ mut = "free"
  /\ Publish(newServer, newClient)
  /\ SGoto("served")
  /\ UNCHANGED <<mailbox, ipFlg, mut, files, lcd, down, peer, sockLocals>>

(* Lines 434-439: the request is dropped, whether a server was opened or   *)
(* not, and whether or not it was renewed meanwhile.                       *)
SServed ==
  /\ SockAt("served")
  /\ mut = "free"
  /\ ipFlg' = 0
  /\ SGoto(IF HaveSession THEN "recv" ELSE "top")
  /\ UNCHANGED <<mailbox, mut, session, files, lcd, down, peer, sockLocals>>

(* Lines 442-478.  recv returns any prefix of what has arrived; the chunk  *)
(* counts as the first command of the strstr chain found anywhere in it.   *)
(* Its text, what follows its first 8 bytes, is named by its last message; *)
(* a shorter chunk, which holds no text to display, leaves the lines blank.*)
Found(chunk) == {chunk[i].cmd : i \in DOMAIN chunk} \ {0}

IsCommand(chunk, c) ==
  IF Found(chunk) = {} THEN c = 0
  ELSE c \in Found(chunk) /\ \A d \in Found(chunk) : c <= d

IsText(chunk, t) ==
  \/ t = Text(chunk[Len(chunk)].id)
  \/ t = Blank /\ 1 \notin Found(chunk)

SRecv ==
  /\ SockAt("recv")
  /\ KindOf(clientFd) = "conn"
  /\ \E n \in 1 .. Len(stream), c \in Commands, t \in MsgLine :
       /\ IsCommand(SubSeq(stream, 1, n), c)
       /\ IsText(SubSeq(stream, 1, n), t)
       /\ buf' = [cmd |-> c, text |-> t]
       /\ stream' = SubSeq(stream, n + 1, Len(stream))
  /\ SGoto("lock")
  /\ UNCHANGED <<mailbox, ipFlg, mut, session, files, lcd, down, conn,
                 opening>>

(* recv ends the loop: end of file, a reset connection, or a descriptor    *)
(* that is no connection any more.  On a datagram socket it blocks.        *)
SRecvEnd ==
  /\ SockAt("recv")
  /\ \/ KindOf(clientFd) = "conn" /\ conn = "rst"
     \/ KindOf(clientFd) = "conn" /\ conn \in {"fin", "finrst"} /\ stream = <<>>
     \/ KindOf(clientFd) \in {"free", "tcp", "listen", "i2c"}
  /\ SGoto("close")
  /\ UNCHANGED <<shared, sockLocals>>

(* Lines 481-485: the store, under the mutex but in three steps.           *)
Lock == mut = "free" /\ mut' = "socket"

(* Mutant: the mutex is not released. *)
UnlockNot == UNCHANGED mut

Unlock == mut' = "free"

SStoreCmd ==
  /\ SockAt("lock")
  /\ Lock
  /\ revcmd' = buf.cmd
  /\ SGoto("blank")
  /\ UNCHANGED <<revbuf, ipFlg, session, files, lcd, down, peer, sockLocals>>

SBlankText ==
  /\ SockAt("blank")
  /\ revbuf' = [head |-> Blank, tail |-> Blank]
  /\ SGoto("copy")
  /\ UNCHANGED <<revcmd, ipFlg, mut, session, files, lcd, down, peer,
                 sockLocals>>

SCopyText ==
  /\ SockAt("copy")
  /\ revbuf' = [head |-> buf.text, tail |-> buf.text]
  /\ Unlock
  /\ SGoto("echo")
  /\ UNCHANGED <<revcmd, ipFlg, session, files, lcd, down, peer, sockLocals>>

(* Lines 487-492.  A send to a client that has closed is answered by a     *)
(* reset; a send after the reset has arrived raises SIGPIPE, which the     *)
(* program does not handle.                                                *)
SEcho ==
  /\ SockAt("echo")
  /\ conn \in {"open", "fin"}
  /\ conn' \in IF conn = "fin" THEN {"fin", "finrst"} ELSE {conn}
  /\ SGoto("recv")
  /\ UNCHANGED <<mailbox, ipFlg, mut, session, files, lcd, down, stream,
                 sockLocals>>

SEchoError ==
  /\ SockAt("echo")
  /\ conn = "rst"
  /\ SGoto("close")
  /\ UNCHANGED <<shared, sockLocals>>

SEchoSigpipe ==
  /\ SockAt("echo")
  /\ conn = "finrst"
  /\ down' = "sigpipe"
  /\ UNCHANGED <<mailbox, ipFlg, mut, session, files, lcd, peer, spc,
                 sockLocals>>

(* Lines 495-500: both descriptors are closed, the globals keep them.      *)
(* Mutant: the wrong descriptor is closed. *)
SCloseLcd(f) == fds' = Closed(fds, devFd) /\ PeerAfterClosing({devFd})

SClose(f) ==
  /\ fds' = Closed(fds, f)
  /\ PeerAfterClosing({f})

SCloseClient ==
  /\ SockAt("close")
  /\ Lock
  /\ SClose(clientFd)
  /\ SGoto("close2")
  /\ UNCHANGED <<mailbox, ipFlg, session, devFd, lcd, down, sockLocals>>

SCloseServer ==
  /\ SockAt("close2")
  /\ Unlock
  /\ SClose(serverFd)
  /\ SGoto("top")
  /\ UNCHANGED <<mailbox, ipFlg, session, devFd, lcd, down, sockLocals>>

SockLabels == {"top", "socket", "ioctl", "create", "listen", "accept",
               "publish", "served", "recv", "lock", "blank", "copy", "echo",
               "close", "close2"}

SockTypeOK ==
  /\ spc \in SockLabels
  /\ newServer \in Fd \cup {0}
  /\ newClient \in Fd \cup {0}
  /\ spc \in {"accept", "publish"} => newServer \in Fd
  /\ spc = "publish" => newClient \in Fd
  /\ buf \in [cmd : Commands, text : MsgLine]
=============================================================================
