------------------------------ MODULE MxFrame -------------------------------
(***************************************************************************)
(* The frame parser of the mx server, demo/ckt-mx/server.c lines 53-115.   *)
(* The select loop reads one byte at a time and gives it to CALL_BACK with *)
(* the number of the client; one parser state serves all clients.  A frame *)
(* is Start, the length n, n bytes of data, Stop.  A frame that ends well  *)
(* is written to the FIFO of ckt_analysis as a packet.                     *)
(***************************************************************************)
EXTENDS Integers, FiniteSets

CONSTANTS
  W,           \* number of values of an unsigned char (256)
  Start, Stop, \* 0x86 and 0x68
  Cap,         \* size of gbuf (512)
  Clients,
  Data,        \* the bytes a payload may hold
  MaxLen,      \* the longest payload a client sends
  MaxFrames    \* bound on the frames sent

Byte == 0 .. W - 1

ASSUME WAssumption     == W \in Nat /\ W >= 5
ASSUME MarksAssumption == Start \in Byte /\ Stop \in Byte /\ Start # Stop
ASSUME StopAssumption  == Stop # W - 1     \* 0x68 is not 0xff
ASSUME CapAssumption   == Cap \in Nat /\ Cap >= W
ASSUME DataAssumption  == Data \subseteq Byte
ASSUME LenAssumption   == MaxLen \in 0 .. W - 4
ASSUME BoundAssumption == MaxFrames \in Nat
ASSUME ClientsAssumption == Clients # {}

VARIABLES
  locker,      \* 0 between frames, then one more than the bytes collected
  gcount,      \* bytes in gbuf
  pktSize,     \* pkt_size, an unsigned char
  gbuf,
  packet,      \* the last packet written to the FIFO
  written      \* how many were written

VARIABLES
  turns,       \* the clients take turns, one whole frame at a time
  sentBytes,   \* what each client has sent of its current frame,
  pos,         \*   and how many bytes that is, 0 between frames
  framesSent,  \* complete frames sent
  lastFrame    \* the last of them: who sent it and what it held

parser == <<locker, gcount, pktSize, gbuf, packet, written>>
source == <<turns, sentBytes, pos, framesSent, lastFrame>>
vars == <<parser, source>>

Wrap(x) == IF x >= W THEN x - W ELSE x     \* unsigned char, for x < 2 W

Nothing == [i \in 0 .. Cap - 1 |-> 0]      \* an untouched buffer

(* Payload of length n held in buffer b after the two header bytes.        *)
Payload(b, n) == [i \in {j \in 0 .. Cap - 3 : j < n} |-> b[i + 2]]

NoPacket == [client |-> CHOOSE c \in Clients : TRUE, size |-> 0, len |-> 0,
             count |-> 3, body |-> Payload(Nothing, 0)]

Init ==
  /\ locker = 0
  /\ gcount = 0
  /\ pktSize = 0
  /\ gbuf = Nothing
  /\ packet = NoPacket
  /\ written = 0
  /\ turns \in BOOLEAN
  /\ sentBytes = [c \in Clients |-> Nothing]
  /\ pos = [c \in Clients |-> 0]
  /\ framesSent = 0
  /\ lastFrame = NoPacket
-----------------------------------------------------------------------------
(* CALL_BACK on byte b: the phase after lines 85-89, the bytes already in  *)
(* gbuf, and the packet size known once the second byte is in.  Before     *)
(* that, pktSize is left over from the frame before.                       *)
(* Mutant: a Start byte in the data opens a frame again. *)
OpensAnywhere(b) == b = Start

Opens(b) == locker = 0 /\ b = Start
Inside(b) == locker >= 1 \/ Opens(b)
Phase(b) == IF Opens(b) THEN 1 ELSE locker
Count(b) == IF Opens(b) THEN 0 ELSE gcount

(* Mutant: the terminator is not counted. *)
SizeShort(b) == IF Phase(b) = 2 THEN Wrap(b + 2) ELSE pktSize

(* Mutant: the size is kept in a wider variable. *)
SizeWide(b) == IF Phase(b) = 2 THEN b + 3 ELSE pktSize

Size(b)  == IF Phase(b) = 2 THEN Wrap(b + 3) ELSE pktSize
(* Mutant: the end is tested with >=. *)
EndsAtLeast(b) == Phase(b) >= 2 /\ Count(b) + 1 >= Size(b)

(* Mutant: a frame ends only with a Stop byte. *)
EndsWithStop(b) == Count(b) + 1 = Size(b) /\ b = Stop

Ends(b)  == Count(b) + 1 = Size(b)

(* Line 93 writes past gbuf once Cap bytes are in: the model stops there.  *)
Room(b) == Inside(b) /\ Count(b) < Cap

Store(b) ==
  /\ gbuf' = [gbuf EXCEPT ![Count(b)] = b]
  /\ pktSize' = Size(b)

Skip(b) == ~Inside(b) /\ UNCHANGED parser

Collect(b) ==
  /\ Room(b) /\ ~Ends(b)
  /\ Store(b)
  /\ locker' = Phase(b) + 1
  /\ gcount' = Count(b) + 1
  /\ UNCHANGED <<packet, written>>

Reset == locker' = 0 /\ gcount' = 0

Reject(b) ==
  /\ Room(b) /\ Ends(b) /\ b # Stop
  /\ Store(b)
  /\ Reset
  /\ UNCHANGED <<packet, written>>

(* parse copies as many bytes as the length byte says; the first byte of   *)
(* the packet counts the client number too.                                *)
Accept(c, b) ==
  /\ Room(b) /\ Ends(b) /\ b = Stop
  /\ Store(b)
  /\ Reset
  /\ packet' = [client |-> c, size |-> Wrap(gbuf'[1] + 1), len |-> gbuf'[1],
                count |-> Count(b) + 1, body |-> Payload(gbuf', gbuf'[1])]
  /\ written' = written + 1

CallBack(c, b) == Skip(b) \/ Collect(b) \/ Reject(b) \/ Accept(c, b)
-----------------------------------------------------------------------------
(* The clients.  When they take turns, a client starts only while no other *)
(* is inside a frame; otherwise the server reads their bytes as they come. *)
MayStart(c) == pos[c] = 0 /\ (turns => \A d \in Clients : pos[d] = 0)

SendInside(c, b) ==
  /\ CallBack(c, b)
  /\ sentBytes' = [sentBytes EXCEPT ![c] = [@ EXCEPT ![pos[c]] = b]]
  /\ pos' = [pos EXCEPT ![c] = @ + 1]
  /\ UNCHANGED <<turns, framesSent, lastFrame>>

SendStart(c) ==
  /\ MayStart(c)
  /\ framesSent < MaxFrames
  /\ SendInside(c, Start)

SendLength(c) == pos[c] = 1 /\ \E n \in 0 .. MaxLen : SendInside(c, n)

LengthOf(c) == sentBytes[c][1]

SendData(c) ==
  /\ pos[c] >= 2 /\ pos[c] < LengthOf(c) + 2
  /\ \E b \in Data : SendInside(c, b)

SendStop(c) ==
  /\ pos[c] >= 2 /\ pos[c] = LengthOf(c) + 2
  /\ CallBack(c, Stop)
  /\ sentBytes' = [sentBytes EXCEPT ![c] = Nothing]
  /\ pos' = [pos EXCEPT ![c] = 0]
  /\ framesSent' = framesSent + 1
  /\ lastFrame' = [client |-> c, size |-> LengthOf(c) + 1, len |-> LengthOf(c),
                   count |-> LengthOf(c) + 3,
                   body |-> Payload(sentBytes[c], LengthOf(c))]
  /\ UNCHANGED turns

(* Line noise between frames.                                              *)
SendNoise(c) ==
  /\ MayStart(c)
  /\ \E b \in Data \ {Start} : CallBack(c, b)
  /\ UNCHANGED source

Next == \E c \in Clients : \/ SendStart(c) \/ SendLength(c) \/ SendData(c)
                           \/ SendStop(c) \/ SendNoise(c)

Spec == Init /\ [][Next]_vars
-----------------------------------------------------------------------------
(* Every variable keeps its type; gcount stays within gbuf, and a packet's *)
(* size byte never wraps.                                                  *)
TypeOK ==
  /\ locker \in 0 .. Cap + 1
  /\ gcount \in 0 .. Cap
  /\ pktSize \in Byte
  /\ gbuf \in [0 .. Cap - 1 -> Byte]
  /\ packet.client \in Clients
  /\ packet.size \in Byte /\ packet.len \in Byte /\ packet.count \in 0 .. Cap
  /\ written \in Nat
  /\ turns \in BOOLEAN
  /\ sentBytes \in [Clients -> [0 .. Cap - 1 -> Byte]]
  /\ pos \in [Clients -> 0 .. MaxLen + 2]
  /\ framesSent \in Nat

(* parse copies exactly the bytes between the header and the terminator of *)
(* the frame in gbuf, whatever bytes arrived and however the clients'      *)
(* bytes were mixed: its length is not one that wrapped around.            *)
CopyWithinFrame == packet.len + 3 = packet.count

(* The size left over from the frame before never makes the first byte of  *)
(* the next frame its last one, so the parser is never stuck rejecting.    *)
StaleSizeHarmless == locker = 0 => pktSize # 1

(* A frame runs on past what its length says, and past gbuf in the end,    *)
(* only if the length is one of the two that wrap to a size the count has  *)
(* passed: 253 and 254.                                                    *)
RunsOnOnlyWrapped ==
  gcount >= 2 => gcount < gbuf[1] + 3 \/ gbuf[1] \in {W - 3, W - 2}

(* When the clients take turns every frame reaches the FIFO, once, under   *)
(* its own client's number and unchanged, also when its data holds Start   *)
(* or Stop bytes and when noise comes between the frames.                  *)
Delivered ==
  turns /\ (\A c \in Clients : pos[c] = 0) =>
    written = framesSent /\ packet = lastFrame
=============================================================================
