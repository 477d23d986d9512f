---------------------------- MODULE KeypadState ----------------------------
(***************************************************************************)
(* State shared by the two threads of the panel program                    *)
(* demo/matrix-i2c_lcd1602_keypad/Matrix-lcd1602_keypad.c: the globals of  *)
(* lines 37-46, the descriptor table the kernel keeps for the process, the *)
(* two lines of the LCD and the client's TCP connection.  KeyThread and    *)
(* SocketThread extend this module, KeypadApp composes them.               *)
(***************************************************************************)
EXTENDS Integers, Sequences

CONSTANTS
  MaxFd,       \* highest descriptor the kernel hands out (RLIMIT_NOFILE)
  Garbage,     \* values the uninitialised locals of CreatServer may hold
  MaxMsgs      \* bound on the messages all clients send

Fd == 3 .. MaxFd     \* 0..2 are stdin, stdout, stderr

ASSUME MaxFdAssumption   == MaxFd \in Nat
ASSUME GarbageAssumption == Garbage \subseteq Fd \cup {0} /\ 0 \in Garbage
ASSUME MaxMsgsAssumption == MaxMsgs \in Nat

VARIABLES
  revcmd,      \* mailbox from the socket thread to the key thread, 0 = empty
  revbuf,      \* text of the last chunk: bytes 8..23 (head), 24..39 (tail)
  ipFlg,       \* 1 = the key thread asks for a TCP server
  mut,         \* owner of the mutex between two steps: "free" or "socket"
  serverFd,    \* server_sockfd
  clientFd,    \* client_sockfd
  devFd,       \* devFD
  fds,         \* what each descriptor is open on
  lcd,         \* the two lines on the glass
  down,        \* "no", "reboot" or "sigpipe": why the process is gone
  conn,        \* TCP state of the one client, as the server's kernel sees it
  stream       \* messages received by the kernel and not yet read

mailbox == <<revcmd, revbuf>>
files   == <<devFd, fds>>
session == <<serverFd, clientFd>>
peer    == <<conn, stream>>
shared  == <<mailbox, ipFlg, mut, session, files, lcd, down, peer>>
butLcd  == <<mailbox, ipFlg, mut, session, files, down, peer>>
butFds  == <<mailbox, ipFlg, mut, session, devFd, lcd, down, peer>>

Commands == 0 .. 6   \* 1 DISPLAY, 2 UP, 3 DOWN, 4 BACK, 5 OK, 6 MENU, 0 none
Message  == [cmd : Commands, id : 1 .. MaxMsgs]

(* A line of text: one of the program's own labels or text of a chunk the  *)
(* client sent, named by the number of the chunk's last message.           *)
Label == {"blank", "Demo v", "Demo", "Restart v", "Restart", "PORT", "IP"}
Fixed(l) == [label |-> l, msg |-> 0]
Text(i)  == [label |-> "text", msg |-> i]
Blank    == Fixed("blank")
MsgLine  == {Blank} \cup {Text(i) : i \in 1 .. MaxMsgs}
Line     == {Fixed(l) : l \in Label} \cup MsgLine

Kinds   == {"free", "i2c", "udp", "tcp", "listen", "conn"}
Sockets == {"udp", "tcp", "listen", "conn"}

(* Descriptors: open() and socket() return the lowest free number.         *)
NoFreeFd        == \A f \in Fd : fds[f] # "free"
LowestFree(f)   == fds[f] = "free" /\ \A g \in Fd : g < f => fds[g] # "free"
Open(f, k)      == LowestFree(f) /\ fds' = [fds EXCEPT ![f] = k]
Closed(t, f)    == [g \in Fd |-> IF g = f THEN "free" ELSE t[g]]
KindOf(f)       == IF f \in Fd THEN fds[f] ELSE "free"

(* Every LCD call goes through devFD: it does something only while devFD   *)
(* is the open i2c device.                                                 *)
LcdUp         == KindOf(devFd) = "i2c"
Show(l0, l1)  == lcd' = IF LcdUp THEN <<l0, l1>> ELSE lcd
ShowTop(l)    == lcd' = IF LcdUp THEN <<l, lcd[2]>> ELSE lcd
ShowBottom(l) == lcd' = IF LcdUp THEN <<lcd[1], l>> ELSE lcd

(* GetLocalAddr returns an unsigned long: -1 becomes the largest word (one *)
(* byte stands for the word, only its being nonzero matters).              *)
LocalAddr == 10
ErrorAddr == (-1) % 256

SharedInit ==
  /\ revcmd = 0
  /\ revbuf = [head |-> Blank, tail |-> Blank]
  /\ ipFlg = 0
  /\ mut = "free"
  /\ serverFd = -1
  /\ clientFd = -1
  /\ devFd = 0
  /\ fds = [f \in Fd |-> "free"]
  /\ lcd = <<Blank, Blank>>
  /\ down = "no"
  /\ conn = "none"
  /\ stream = <<>>

SharedTypeOK ==
  /\ revcmd \in Commands
  /\ revbuf \in [head : MsgLine, tail : MsgLine]
  /\ ipFlg \in {0, 1}
  /\ mut \in {"free", "socket"}
  /\ serverFd \in Fd \cup {-1}
  /\ clientFd \in Fd \cup {-1}
  /\ devFd \in Fd \cup {0, -1}
  /\ fds \in [Fd -> Kinds]
  /\ lcd \in Line \X Line
  /\ down \in {"no", "reboot", "sigpipe"}
  /\ conn \in {"none", "open", "fin", "finrst", "rst"}
  /\ stream \in Seq(Message)
=============================================================================
