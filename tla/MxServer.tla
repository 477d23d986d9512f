------------------------------ MODULE MxServer ------------------------------
(***************************************************************************)
(* The select server of the mx program, demo/ckt-mx/server.c lines 117-256 *)
(* with the reply path 36-50 and fifo_thread.c: a table of slots, one byte *)
(* read from every ready client per round, packets written to the FIFO of  *)
(* ckt_analysis under the number of the slot they came in on, and a second *)
(* thread that sends what comes back to that slot.  MxFrame models how the *)
(* bytes make frames; here a byte may complete a frame or not.             *)
(***************************************************************************)
EXTENDS Integers, FiniteSets

CONSTANTS
  Clients,
  BACKLOG,     \* slots (128)
  MaxFd,       \* descriptors left for clients and FIFO writers
  MaxBytes,    \* bound on the bytes of one client waiting to be read
  MaxPackets   \* bound on the packets written

Slot == 0 .. BACKLOG - 1
Fd   == 1 .. MaxFd       \* 0 marks an empty slot

ASSUME BacklogAssumption    == BACKLOG \in Nat \ {0}
ASSUME MaxFdAssumption      == MaxFd \in Nat
ASSUME MaxBytesAssumption   == MaxBytes \in Nat
ASSUME MaxPacketsAssumption == MaxPackets \in Nat
ASSUME ClientsAssumption    == /\ IsFiniteSet(Clients)
                               /\ "free" \notin Clients /\ "fifo" \notin Clients

VARIABLES
  fdA, connAmount,   \* fd_A, conn_amount
  owner,             \* what each descriptor is open on
  spc,               \* where thread_listen_socket is
  slot,              \* i
  ready, sockReady,  \* fdsr after select: client descriptors, listening socket
  answers,           \* answers in the second FIFO: slot and who caused it
  rpc, reply,        \* where __read_pthread is, the answer it holds
  replied,           \* the last answer sent: who got it and who caused it
  down               \* the process was killed by SIGPIPE

VARIABLES
  place,             \* where each client is: "out", "queued", "in", "refused"
  left,              \* clients that have closed their end or broken off
  pending,           \* bytes sent and not yet read
  packets            \* packets written so far (bound)

table  == <<fdA, connAmount>>
round  == <<slot, ready, sockReady>>
return == <<answers, rpc, reply, replied, down>>
peers  == <<place, left, pending>>
vars   == <<table, owner, spc, round, return, peers, packets>>

NoOne == [slot |-> 0, by |-> "free"]

Init ==
  /\ fdA = [s \in Slot |-> 0]
  /\ connAmount = 0
  /\ owner = [f \in Fd |-> "free"]
  /\ spc = "select"
  /\ slot = 0
  /\ ready = {}
  /\ sockReady = FALSE
  /\ answers = {}
  /\ rpc = "read"
  /\ reply = NoOne
  /\ replied = [to |-> "free", by |-> "free"]
  /\ down = FALSE
  /\ place = [c \in Clients |-> "out"]
  /\ left = {}
  /\ pending = [c \in Clients |-> 0]
  /\ packets = 0

Live          == {s \in Slot : fdA[s] # 0}
LowestFree(f) == owner[f] = "free" /\ \A g \in Fd : g < f => owner[g] # "free"
NoFreeFd      == \A f \in Fd : owner[f] # "free"
Queued        == {c \in Clients : place[c] = "queued"}
At(l)         == spc = l /\ ~down
-----------------------------------------------------------------------------
(* Lines 167-189: the set is built from every slot that is not 0; select   *)
(* returns with what is readable, and a timeout changes nothing.  It fails *)
(* only on a closed descriptor, which SlotsApart excludes.                 *)
Readable(f) == owner[f] \in Clients /\ (owner[f] \in left \/ pending[owner[f]] > 0)

Watched == {fdA[s] : s \in Live}

Select ==
  /\ At("select")
  /\ ready' = {f \in Watched : Readable(f)}
  /\ sockReady' = (Queued # {})
  /\ ready' # {} \/ sockReady'
  /\ slot' = 0
  /\ spc' = "scan"
  /\ UNCHANGED <<table, owner, return, peers, packets>>

(* Lines 192-214: one slot of the scan.  conn_amount is read again for     *)
(* every slot, and goes down when a client is closed.                      *)

(* Mutant: the scan stops at the first empty slot. *)
ScannedHole == ~\E s \in Live : s = slot /\ s < connAmount

Scanned == slot >= connAmount

Scanning == At("scan") /\ ~Scanned

ScanSkip ==
  /\ Scanning
  /\ fdA[slot] \notin ready
  /\ slot' = slot + 1
  /\ UNCHANGED <<table, owner, spc, ready, sockReady, return, peers, packets>>

Reading ==
  /\ Scanning
  /\ fdA[slot] \in ready
  /\ pending[owner[fdA[slot]]] > 0
  /\ pending' = [pending EXCEPT ![owner[fdA[slot]]] = @ - 1]
  /\ slot' = slot + 1

ScanByte ==
  /\ Reading
  /\ UNCHANGED <<table, owner, spc, ready, sockReady, return, place, left,
                 packets>>

(* The byte completes a frame: parse writes it to the FIFO.  write_to_fifo *)
(* opens the FIFO every time and never closes it; without a descriptor the *)
(* packet is lost.                                                         *)
ScanPacket ==
  /\ Reading
  /\ packets < MaxPackets
  /\ packets' = packets + 1
  /\ \E f \in Fd : LowestFree(f) /\ owner' = [owner EXCEPT ![f] = "fifo"]
  /\ answers' = answers \cup {[slot |-> slot, by |-> owner[fdA[slot]]]}
  /\ UNCHANGED <<table, spc, ready, sockReady, rpc, reply, replied, down,
                 place, left>>

(* Mutant: the last client moves down, but its own slot is not emptied. *)
EmptySlotMove(s) == fdA' = [fdA EXCEPT ![s] = fdA[connAmount - 1]]

EmptySlot(s) == fdA' = [fdA EXCEPT ![s] = 0]

(* Mutant: a leaving client is counted out twice. *)
CountOutTwice == connAmount' = IF connAmount > 1 THEN connAmount - 2 ELSE 0

CountOut == connAmount' = connAmount - 1

ScanClose ==
  /\ Scanning
  /\ fdA[slot] \in ready
  /\ owner[fdA[slot]] \in left
  /\ owner' = [owner EXCEPT ![fdA[slot]] = "free"]
  /\ ready' = ready \ {fdA[slot]}
  /\ EmptySlot(slot)
  /\ CountOut
  /\ slot' = slot + 1
  /\ UNCHANGED <<spc, sockReady, return, peers, packets>>

ScanEnd ==
  /\ At("scan")
  /\ Scanned
  /\ spc' = IF sockReady THEN "accept" ELSE "select"
  /\ UNCHANGED <<table, owner, round, return, peers, packets>>

(* Lines 217-242: a client that has queued goes to slot conn_amount, live  *)
(* or not; when conn_amount has reached BACKLOG the thread ends.           *)

(* Mutant: one client too many is let in. *)
RoomOneMore == connAmount <= BACKLOG

Room == connAmount < BACKLOG

(* Mutant: the slot below. *)
NextSlotLow == IF connAmount = 0 THEN 0 ELSE connAmount - 1

(* Mutant: the count goes up before the client is put in. *)
NextSlotAfter == connAmount + 1

NextSlot == connAmount

Accept ==
  /\ At("accept")
  /\ Room
  /\ \E c \in Queued, f \in Fd :
       /\ LowestFree(f)
       /\ owner' = [owner EXCEPT ![f] = c]
       /\ fdA' = [fdA EXCEPT ![NextSlot] = f]
       /\ place' = [place EXCEPT ![c] = "in"]
  /\ connAmount' = connAmount + 1
  /\ spc' = "select"
  /\ UNCHANGED <<round, return, left, pending, packets>>

AcceptFull ==
  /\ At("accept")
  /\ ~Room
  /\ ~NoFreeFd
  /\ \E c \in Queued : place' = [place EXCEPT ![c] = "refused"]
  /\ spc' = "ended"
  /\ UNCHANGED <<table, owner, round, return, left, pending, packets>>

(* accept fails: no descriptor is left, or the client has gone again.      *)
AcceptFail ==
  /\ At("accept")
  /\ \/ NoFreeFd /\ UNCHANGED place
     \/ \E c \in Queued \cap left : place' = [place EXCEPT ![c] = "refused"]
  /\ spc' = "select"
  /\ UNCHANGED <<table, owner, round, return, left, pending, packets>>
-----------------------------------------------------------------------------
(* fifo_thread.c 28-57 and pack_and_send: one read may take several        *)
(* answers, of which only the first is sent; fd_A is read with no lock.    *)
ReadReply ==
  /\ rpc = "read" /\ ~down
  /\ \E a \in answers :
       /\ reply' = a
       /\ answers' \in SUBSET (answers \ {a})
  /\ rpc' = "send"
  /\ UNCHANGED <<table, owner, spc, round, replied, down, peers, packets>>

(* Mutant: the answer goes to the newest client. *)
TargetLast == IF connAmount = 0 THEN 0 ELSE fdA[connAmount - 1]

Target == fdA[reply.slot]

SendReply ==
  /\ rpc = "send" /\ ~down
  /\ IF Target # 0 /\ owner[Target] \in Clients \ left
     THEN replied' = [to |-> owner[Target], by |-> reply.by]
     ELSE UNCHANGED replied
  /\ rpc' = "read"
  /\ UNCHANGED <<table, owner, spc, round, answers, reply, down, peers, packets>>

(* send to a client that has broken off raises SIGPIPE, not handled here.  *)
SendReplySigpipe ==
  /\ rpc = "send" /\ ~down
  /\ Target # 0 /\ owner[Target] \in left
  /\ down' = TRUE
  /\ UNCHANGED <<table, owner, spc, round, answers, rpc, reply, replied, peers,
                 packets>>
-----------------------------------------------------------------------------
Connect(c) ==
  /\ ~down /\ place[c] = "out"
  /\ place' = [place EXCEPT ![c] = "queued"]
  /\ UNCHANGED <<table, owner, spc, round, return, left, pending, packets>>

Send(c) ==
  /\ ~down /\ place[c] \in {"queued", "in"} /\ c \notin left
  /\ pending[c] < MaxBytes
  /\ pending' = [pending EXCEPT ![c] = @ + 1]
  /\ UNCHANGED <<table, owner, spc, round, return, place, left, packets>>

Leave(c) ==
  /\ ~down /\ place[c] \in {"queued", "in"} /\ c \notin left
  /\ left' = left \cup {c}
  /\ UNCHANGED <<table, owner, spc, round, return, place, pending, packets>>

Listener ==
  \/ Select \/ ScanSkip \/ ScanByte \/ ScanPacket \/ ScanClose
  \/ ScanEnd \/ Accept \/ AcceptFull \/ AcceptFail
Replier == ReadReply \/ SendReply \/ SendReplySigpipe
Client  == \E c \in Clients : Connect(c) \/ Send(c) \/ Leave(c)

Next == Listener \/ Replier \/ Client

Spec == Init /\ [][Next]_vars

(* A thread that can run does; the clients owe nothing.                    *)
FairSpec == Spec /\ WF_vars(Listener)
-----------------------------------------------------------------------------
(* What each variable ranges over: conn_amount never passes BACKLOG, and   *)
(* the scan stays within the slots.                                        *)
TypeOK ==
  /\ fdA \in [Slot -> Fd \cup {0}]
  /\ connAmount \in 0 .. BACKLOG
  /\ owner \in [Fd -> Clients \cup {"free", "fifo"}]
  /\ spc \in {"select", "scan", "accept", "ended"}
  /\ slot \in 0 .. BACKLOG
  /\ ready \subseteq Fd
  /\ sockReady \in BOOLEAN
  /\ answers \subseteq [slot : Slot, by : Clients]
  /\ rpc \in {"read", "send"}
  /\ reply \in [slot : Slot, by : Clients \cup {"free"}]
  /\ replied \in [to : Clients \cup {"free"}, by : Clients \cup {"free"}]
  /\ down \in BOOLEAN
  /\ place \in [Clients -> {"out", "queued", "in", "refused"}]
  /\ left \subseteq Clients
  /\ pending \in [Clients -> 0 .. MaxBytes]
  /\ packets \in 0 .. MaxPackets

(* conn_amount never falls below the number of slots in use, although a    *)
(* closed slot leaves a hole and an accept may overwrite a live slot.      *)
AmountCovers == Cardinality(Live) <= connAmount

(* A slot in use holds a descriptor that is open on a client and that no   *)
(* other slot holds: select never fails on a closed descriptor, and no     *)
(* close hits a descriptor reused by a FIFO writer or another client.      *)
SlotsApart ==
  \A s \in Live : /\ owner[fdA[s]] \in Clients
                  /\ \A t \in Live : fdA[s] = fdA[t] => s = t

(* Each client the server has closed costs at most one other client its    *)
(* service: a client that is connected but not below conn_amount, or whose *)
(* slot was given to another, is matched by one that has been closed.      *)
Below(c)  == \E s \in Live : s < connAmount /\ owner[fdA[s]] = c
Open(c)   == \E f \in Fd : owner[f] = c
CutOff    == {c \in Clients : Open(c) /\ ~Below(c)}
ClosedOut == {c \in Clients : place[c] = "in" /\ ~Open(c)}
CutOffByClose == Cardinality(CutOff) <= Cardinality(ClosedOut)

(* The slots are a pool: the clients below conn_amount are served, in the  *)
(* order of their slots.  A newcomer takes no place of a client that is    *)
(* still read, a close cuts off at most the newest, and no byte of a       *)
(* client that was cut off is read any more.                               *)
Earlier(c, d) == \E s, t \in Live : /\ s < t /\ t < connAmount
                                    /\ owner[fdA[s]] = c /\ owner[fdA[t]] = d
InPool    == {c \in Clients : Below(c)}
Order     == {p \in Clients \X Clients : Earlier(p[1], p[2])}
OutOfPool == {c \in Clients : place[c] = "in" /\ ~Below(c)}
Pool == INSTANCE ClientPool WITH served <- InPool, before <- Order, lost <- OutOfPool,
                                 gone <- left, waiting <- pending
PoolSpec == Pool!Spec

(* As long as no client has left, an answer goes to the client whose frame *)
(* caused it.                                                              *)
ReplyToCause == left = {} => replied.to = replied.by

(* A client below conn_amount that has sent something is read, unless it   *)
(* is cut off or leaves, or the server ends.                               *)
Served == \A c \in Clients :
  Below(c) /\ pending[c] > 0
    ~> pending[c] = 0 \/ ~Below(c) \/ c \in left \/ spc = "ended" \/ down

(* server.c:191 "check every fd in the set": when the scan is over, every  *)
(* slot whose descriptor select reported has been looked at.  Line 192     *)
(* stops at conn_amount, which is not the end of the slots in use.         *)
EveryFdChecked ==
  At("scan") /\ Scanned => \A s \in Live : fdA[s] \in ready => s < slot
=============================================================================
