---------------------------- MODULE MxServer_proofs ----------------------------
(***************************************************************************)
(* Proofs about MxServer.  SlotsApart makes the types inductive; what is   *)
(* said about clients rests on each of them having one descriptor.         *)
(***************************************************************************)
EXTENDS MxServer, FiniteSetTheorems, TLAPS

USE DEF Slot, Fd, table, round, return, peers, At, Live

(* The types, with what makes them inductive: a slot in use names a client. *)
TypeInv == TypeOK /\ SlotsApart

(* A slot select reported is in use, so its descriptor is a client's.      *)
LEMMA ReadySlot ==
  ASSUME TypeInv, Scanning, fdA[slot] \in ready
  PROVE  slot \in Live /\ owner[fdA[slot]] \in Clients
BY BacklogAssumption, MaxFdAssumption DEF TypeInv, TypeOK, SlotsApart, Scanning, Scanned

(* A step of the listening thread keeps the types and the slots apart.     *)
LEMMA ListenerTypeStep == TypeInv /\ Listener => TypeInv'
<1> SUFFICES ASSUME TypeInv, Listener PROVE TypeInv'
    OBVIOUS
<1> USE BacklogAssumption, MaxFdAssumption, MaxBytesAssumption, MaxPacketsAssumption,
        ClientsAssumption
    DEF TypeInv
<1>1. CASE Select
  BY <1>1 DEF TypeOK, SlotsApart, Select, Watched
<1>2. CASE ScanSkip
  BY <1>2 DEF TypeOK, SlotsApart, ScanSkip, Scanning, Scanned
<1>3. CASE ScanByte
  <2>1. owner[fdA[slot]] \in Clients
    BY <1>3, ReadySlot DEF ScanByte, Reading
  <2> QED BY <1>3, <2>1 DEF TypeOK, SlotsApart, ScanByte, Reading, Scanning, Scanned
<1>4. CASE ScanPacket
  <2>1. slot \in Live /\ owner[fdA[slot]] \in Clients
    BY <1>4, ReadySlot DEF ScanPacket, Reading
  <2>2. PICK f \in Fd : LowestFree(f) /\ owner' = [owner EXCEPT ![f] = "fifo"]
    BY <1>4 DEF ScanPacket
  <2>3. TypeOK'
    BY <1>4, <2>1, <2>2 DEF TypeOK, ScanPacket, Reading, Scanning, Scanned
  <2>4. SlotsApart'
    BY <1>4, <2>2 DEF TypeOK, SlotsApart, ScanPacket, LowestFree
  <2> QED BY <2>3, <2>4
<1>5. CASE ScanClose
  <2>1. slot \in Live /\ owner[fdA[slot]] \in Clients
    BY <1>5, ReadySlot DEF ScanClose
  <2>2. connAmount' \in 0 .. BACKLOG /\ slot' \in 0 .. BACKLOG
    BY <1>5 DEF TypeOK, ScanClose, Scanning, Scanned, CountOut
  <2>3. owner' \in [Fd -> Clients \cup {"free", "fifo"}]
    BY <1>5 DEF TypeOK, ScanClose
  <2>4. fdA' \in [Slot -> Fd \cup {0}] /\ ready' \subseteq Fd
    BY <1>5 DEF TypeOK, ScanClose, EmptySlot
  <2>5. TypeOK'
    BY <1>5, <2>2, <2>3, <2>4 DEF TypeOK, ScanClose
  <2>6. SlotsApart'
    BY <1>5, <2>1 DEF TypeOK, SlotsApart, ScanClose, EmptySlot
  <2> QED BY <2>5, <2>6
<1>6. CASE ScanEnd
  BY <1>6 DEF TypeOK, SlotsApart, ScanEnd
<1>7. CASE Accept
  <2>1. PICK c \in Queued, f \in Fd :
          /\ LowestFree(f)
          /\ owner' = [owner EXCEPT ![f] = c]
          /\ fdA' = [fdA EXCEPT ![NextSlot] = f]
          /\ place' = [place EXCEPT ![c] = "in"]
    BY <1>7 DEF Accept
  <2>2. c \in Clients
    BY DEF Queued
  <2>3. connAmount \in Slot
    BY <1>7 DEF TypeOK, Accept, Room
  <2>4. TypeOK'
    BY <1>7, <2>1, <2>2, <2>3 DEF TypeOK, Accept, NextSlot
  <2>5. SlotsApart'
    BY <1>7, <2>1, <2>2, <2>3 DEF TypeOK, SlotsApart, LowestFree, NextSlot
  <2> QED BY <2>4, <2>5
<1>8. CASE AcceptFull
  BY <1>8 DEF TypeOK, SlotsApart, AcceptFull, Queued
<1>9. CASE AcceptFail
  <2>1. place' \in [Clients -> {"out", "queued", "in", "refused"}]
    BY <1>9 DEF TypeOK, AcceptFail, Queued
  <2>2. TypeOK'
    BY <1>9, <2>1 DEF TypeOK, AcceptFail
  <2>3. SlotsApart'
    BY <1>9 DEF SlotsApart, AcceptFail
  <2> QED BY <2>2, <2>3
<1> QED
  BY <1>1, <1>2, <1>3, <1>4, <1>5, <1>6, <1>7, <1>8, <1>9 DEF Listener

(* A step of the reply thread touches neither the table nor a descriptor.  *)
LEMMA ReplierTypeStep == TypeInv /\ Replier => TypeInv'
<1> SUFFICES ASSUME TypeInv, Replier PROVE TypeInv'
    OBVIOUS
<1> USE DEF TypeInv
<1>1. CASE ReadReply
  BY <1>1 DEF TypeOK, SlotsApart, ReadReply
<1>2. CASE SendReply
  BY <1>2 DEF TypeOK, SlotsApart, SendReply
<1>3. CASE SendReplySigpipe
  BY <1>3 DEF TypeOK, SlotsApart, SendReplySigpipe
<1> QED BY <1>1, <1>2, <1>3 DEF Replier

(* Nor does a client's.                                                    *)
LEMMA ClientTypeStep == TypeInv /\ Client => TypeInv'
<1> SUFFICES ASSUME TypeInv, NEW c \in Clients, Connect(c) \/ Send(c) \/ Leave(c)
             PROVE  TypeInv'
    BY DEF Client
<1> USE MaxBytesAssumption DEF TypeInv
<1>1. CASE Connect(c)
  BY <1>1 DEF TypeOK, SlotsApart, Connect
<1>2. CASE Send(c)
  BY <1>2 DEF TypeOK, SlotsApart, Send
<1>3. CASE Leave(c)
  BY <1>3 DEF TypeOK, SlotsApart, Leave
<1> QED BY <1>1, <1>2, <1>3

(* Together: the types and the slots apart hold in every state.            *)
LEMMA TypeInvariant == Spec => []TypeInv
<1>1. Init => TypeInv
  <2> SUFFICES ASSUME Init PROVE TypeInv
    OBVIOUS
  <2>1. reply \in [slot : Slot, by : Clients \cup {"free"}]
    BY BacklogAssumption DEF Init, NoOne
  <2>2. replied \in [to : Clients \cup {"free"}, by : Clients \cup {"free"}]
    BY DEF Init
  <2>3. /\ connAmount \in 0 .. BACKLOG /\ slot \in 0 .. BACKLOG
        /\ pending \in [Clients -> 0 .. MaxBytes] /\ packets \in 0 .. MaxPackets
    BY BacklogAssumption, MaxBytesAssumption, MaxPacketsAssumption DEF Init
  <2>4. TypeOK
    BY <2>1, <2>2, <2>3 DEF Init, TypeOK
  <2>5. SlotsApart
    BY DEF Init, SlotsApart
  <2> QED BY <2>4, <2>5 DEF TypeInv
<1>2. TypeInv /\ [Next]_vars => TypeInv'
  <2>1. TypeInv /\ UNCHANGED vars => TypeInv'
    BY DEF TypeInv, TypeOK, SlotsApart, vars
  <2> QED
    BY <2>1, ListenerTypeStep, ReplierTypeStep, ClientTypeStep DEF Next
<1> QED BY <1>1, <1>2, PTL DEF Spec

(* Every variable keeps its type: conn_amount and the slot a client is put *)
(* in stay within the table (server.c:224-226), however often clients come *)
(* and leave.                                                              *)
THEOREM TypeCorrect == Spec => []TypeOK
<1>1. TypeInv => TypeOK
  BY DEF TypeInv
<1> QED BY <1>1, TypeInvariant, PTL

(* No slot in use holds a closed descriptor or another slot's.             *)
THEOREM SlotsApartAlways == Spec => []SlotsApart
<1>1. TypeInv => SlotsApart
  BY DEF TypeInv
<1> QED BY <1>1, TypeInvariant, PTL
-----------------------------------------------------------------------------
(* What the steps other than a close and an accept leave of the table.     *)
LEMMA TableFrame ==
  ASSUME [Next]_vars, ~ScanClose, ~Accept
  PROVE  UNCHANGED table
<1>1. CASE Listener
  BY <1>1 DEF Listener, Select, ScanSkip, ScanByte, ScanPacket, Reading, ScanEnd,
              AcceptFull, AcceptFail
<1>2. CASE Replier
  BY <1>2 DEF Replier, ReadReply, SendReply, SendReplySigpipe
<1>3. CASE Client
  BY <1>3 DEF Client, Connect, Send, Leave
<1>4. CASE UNCHANGED vars
  BY <1>4 DEF vars
<1> QED BY <1>1, <1>2, <1>3, <1>4 DEF Next

(* Slots in use can be counted: there are BACKLOG slots.                   *)
LEMMA LiveFinite == IsFiniteSet(Live)
<1>1. IsFiniteSet(Slot)
  BY BacklogAssumption, FS_Interval
<1>2. Live \in SUBSET Slot
  OBVIOUS
<1> HIDE DEF Live, Slot
<1> QED BY <1>1, <1>2, FS_Subset

(* A close empties one live slot and counts one client out; an accept      *)
(* fills one slot, which may have been live, and counts one in.            *)
LEMMA AmountStep == TypeInv /\ AmountCovers /\ [Next]_vars => AmountCovers'
<1> SUFFICES ASSUME TypeInv, AmountCovers, [Next]_vars PROVE AmountCovers'
    OBVIOUS
<1> USE BacklogAssumption DEF TypeInv
<1>1. CASE ScanClose
  <2>1. slot \in Live
    BY <1>1, ReadySlot DEF ScanClose
  <2>2. Live' = Live \ {slot}
    BY <1>1 DEF TypeOK, ScanClose, EmptySlot
  <2>3. Cardinality(Live') = Cardinality(Live) - 1
    <3> HIDE DEF Live
    <3> QED BY <2>1, <2>2, LiveFinite, FS_RemoveElement
  <2>4. connAmount' = connAmount - 1
    BY <1>1 DEF ScanClose, CountOut
  <2>5. Cardinality(Live) \in Nat /\ connAmount \in Int
    BY LiveFinite, FS_CardinalityType DEF TypeOK
  <2> QED BY <2>3, <2>4, <2>5 DEF AmountCovers
<1>2. CASE Accept
  <2>1. PICK f \in Fd : fdA' = [fdA EXCEPT ![connAmount] = f]
    BY <1>2 DEF Accept, NextSlot
  <2>2. connAmount \in Slot /\ connAmount' = connAmount + 1
    BY <1>2 DEF TypeOK, Accept, Room
  <2>3. Live' = Live \cup {connAmount}
    BY <2>1, <2>2, MaxFdAssumption DEF TypeOK
  <2>4. Cardinality(Live') = Cardinality(Live) \/ Cardinality(Live') = Cardinality(Live) + 1
    BY <2>3, LiveFinite, FS_AddElement
  <2>5. Cardinality(Live) \in Nat /\ connAmount \in Int
    BY LiveFinite, FS_CardinalityType DEF TypeOK
  <2> QED BY <2>2, <2>4, <2>5 DEF AmountCovers
<1>3. CASE ~ScanClose /\ ~Accept
  <2>1. Live' = Live /\ connAmount' = connAmount
    BY <1>3, TableFrame
  <2> QED BY <2>1 DEF AmountCovers
<1> QED BY <1>1, <1>2, <1>3

(* conn_amount covers the slots in use (server.c:203, 226), holes and      *)
(* overwritten slots notwithstanding.                                      *)
THEOREM AmountCoversAlways == Spec => []AmountCovers
<1>1. Init => AmountCovers
  <2> SUFFICES ASSUME Init PROVE AmountCovers
    OBVIOUS
  <2>1. Live = {}
    BY DEF Init
  <2> HIDE DEF Live
  <2> QED BY <2>1, FS_EmptySet DEF Init, AmountCovers
<1>2. TypeInv /\ AmountCovers /\ [Next]_vars => AmountCovers'
  BY AmountStep
<1> QED BY <1>1, <1>2, TypeInvariant, PTL DEF Spec
-----------------------------------------------------------------------------
(* A client has one descriptor, and only one that was accepted has any.    *)
OneFd ==
  /\ \A f \in Fd : owner[f] \in Clients => place[owner[f]] = "in"
  /\ \A f, g \in Fd : owner[f] \in Clients /\ owner[f] = owner[g] => f = g

ServiceInv == TypeInv /\ OneFd /\ CutOffByClose

(* Sets of clients can be counted.                                         *)
LEMMA ClientSets ==
  /\ IsFiniteSet(CutOff) /\ Cardinality(CutOff) \in Nat
  /\ IsFiniteSet(ClosedOut) /\ Cardinality(ClosedOut) \in Nat
BY ClientsAssumption, FS_Subset, FS_CardinalityType DEF CutOff, ClosedOut

(* A close: one more client is closed out, and at most one more, the one   *)
(* in the last slot below conn_amount, is cut off.                         *)
LEMMA CloseService == ServiceInv /\ ScanClose => (OneFd /\ CutOffByClose)'
<1> SUFFICES ASSUME ServiceInv, ScanClose PROVE (OneFd /\ CutOffByClose)'
    OBVIOUS
<1> USE BacklogAssumption, MaxFdAssumption, ClientsAssumption DEF ServiceInv, TypeInv
<1>1. PICK f \in Fd, c \in Clients :
        slot \in Live /\ f = fdA[slot] /\ c = owner[f]
  BY ReadySlot DEF ScanClose, TypeOK
<1>12. PICK d : d = owner[fdA[connAmount - 1]]
  OBVIOUS
<1>2. /\ owner' = [owner EXCEPT ![f] = "free"]
      /\ fdA' = [fdA EXCEPT ![slot] = 0]
      /\ connAmount' = connAmount - 1
      /\ place' = place
  BY <1>1 DEF ScanClose, EmptySlot, CountOut
<1>3. OneFd'
  BY <1>1, <1>2 DEF OneFd, TypeOK
<1>4. ~Open(c)' /\ place[c] = "in" /\ Open(c)
  BY <1>1, <1>2 DEF OneFd, TypeOK, Open
<1>5. \A x \in Clients \ {c} : Open(x)' = Open(x)
  BY <1>1, <1>2 DEF TypeOK, Open
<1>6. ClosedOut' = ClosedOut \cup {c} /\ c \notin ClosedOut
  BY <1>1, <1>2, <1>4, <1>5 DEF ClosedOut
<1>7. CutOff' \subseteq CutOff \cup {d}
  <2> SUFFICES ASSUME NEW x \in CutOff', x # d PROVE x \in CutOff
    OBVIOUS
  <2>1. x \in Clients /\ x # c /\ Open(x) /\ ~Below(x)'
    BY <1>4, <1>5 DEF CutOff
  <2>2. ~Below(x)
    <3> SUFFICES ASSUME NEW s \in Live, s < connAmount, owner[fdA[s]] = x PROVE FALSE
      BY DEF Below
    <3>1. s # connAmount - 1 /\ s # slot /\ fdA[s] # f
      BY <1>1, <1>12, <2>1
    <3>2. s < connAmount'
      BY <1>2, <3>1 DEF TypeOK
    <3>3. fdA'[s] = fdA[s] /\ owner'[fdA[s]] = x
      BY <1>2, <3>1 DEF TypeOK
    <3> QED BY <2>1, <3>2, <3>3 DEF Below
  <2> QED BY <2>1, <2>2 DEF CutOff
<1>8. Cardinality(ClosedOut') = Cardinality(ClosedOut) + 1
  BY <1>6, ClientSets, FS_AddElement
<1>9. Cardinality(CutOff') <= Cardinality(CutOff) + 1 /\ Cardinality(CutOff') \in Nat
  <2>1. /\ IsFiniteSet(CutOff \cup {d})
        /\ Cardinality(CutOff \cup {d}) =
             IF d \in CutOff THEN Cardinality(CutOff) ELSE Cardinality(CutOff) + 1
    BY ClientSets, FS_AddElement
  <2>2. CutOff' \in SUBSET (CutOff \cup {d})
    BY <1>7
  <2>3. /\ Cardinality(CutOff') <= Cardinality(CutOff \cup {d})
        /\ IsFiniteSet(CutOff')
    BY <2>1, <2>2, FS_Subset
  <2>4. Cardinality(CutOff') \in Nat /\ Cardinality(CutOff \cup {d}) \in Nat
    BY <2>1, <2>3, FS_CardinalityType
  <2> QED BY <2>1, <2>3, <2>4, ClientSets
<1>10. CutOffByClose'
  BY <1>8, <1>9, ClientSets DEF CutOffByClose
<1> QED BY <1>3, <1>10

(* When no client is closed out, fewer cut off is enough.                  *)
LEMMA FewerCutOff ==
  ASSUME CutOffByClose, CutOff' \subseteq CutOff, ClosedOut' = ClosedOut
  PROVE  CutOffByClose'
<1>1. Cardinality(CutOff') <= Cardinality(CutOff) /\ Cardinality(CutOff') \in Nat
  BY ClientSets, FS_Subset, FS_CardinalityType
<1> QED BY <1>1, ClientSets DEF CutOffByClose

(* An accept: the newcomer is below conn_amount, and the client whose slot *)
(* it may take was not.                                                    *)
LEMMA AcceptService == ServiceInv /\ Accept => (OneFd /\ CutOffByClose)'
<1> SUFFICES ASSUME ServiceInv, Accept PROVE (OneFd /\ CutOffByClose)'
    OBVIOUS
<1> USE BacklogAssumption, MaxFdAssumption, ClientsAssumption DEF ServiceInv, TypeInv
<1>1. PICK c \in Queued, f \in Fd :
        /\ LowestFree(f)
        /\ owner' = [owner EXCEPT ![f] = c]
        /\ fdA' = [fdA EXCEPT ![connAmount] = f]
        /\ place' = [place EXCEPT ![c] = "in"]
  BY DEF Accept, NextSlot
<1>2. c \in Clients /\ place[c] = "queued" /\ owner[f] = "free"
  BY <1>1 DEF Queued, LowestFree
<1>3. connAmount \in Slot /\ connAmount' = connAmount + 1
  BY DEF TypeOK, Accept, Room
<1>4. OneFd'
  BY <1>1, <1>2 DEF OneFd, TypeOK
<1>5. Open(c)' /\ Below(c)'
  <2>1. Open(c)'
    BY <1>1, <1>2 DEF TypeOK, Open
  <2>2. connAmount \in Live' /\ connAmount < connAmount' /\ owner'[fdA'[connAmount]] = c
    BY <1>1, <1>2, <1>3 DEF TypeOK
  <2> QED BY <2>1, <2>2 DEF Below
<1>6. \A x \in Clients \ {c} : Open(x)' = Open(x)
  BY <1>1, <1>2 DEF TypeOK, Open
<1>7. ClosedOut' = ClosedOut
  BY <1>1, <1>2, <1>5, <1>6 DEF TypeOK, ClosedOut
<1>8. CutOff' \subseteq CutOff
  <2> SUFFICES ASSUME NEW x \in CutOff' PROVE x \in CutOff
    OBVIOUS
  <2>1. x \in Clients /\ x # c /\ Open(x) /\ ~Below(x)'
    BY <1>5, <1>6 DEF CutOff
  <2>2. ~Below(x)
    <3> SUFFICES ASSUME NEW s \in Live, s < connAmount, owner[fdA[s]] = x PROVE FALSE
      BY DEF Below
    <3>1. fdA[s] \in Fd /\ fdA[s] # f
      BY <1>2, <2>1 DEF TypeOK
    <3>2. s \in Live' /\ s < connAmount' /\ owner'[fdA'[s]] = x
      BY <1>1, <1>3, <3>1 DEF TypeOK
    <3> QED BY <2>1, <3>2 DEF Below
  <2> QED BY <2>1, <2>2 DEF CutOff
<1> QED BY <1>4, <1>7, <1>8, FewerCutOff

(* No other step opens or closes a client's descriptor, or lets one in.    *)
LEMMA OwnersKept ==
  ASSUME TypeInv, [Next]_vars, ~ScanClose, ~Accept
  PROVE  \A f \in Fd : /\ owner'[f] \in Clients <=> owner[f] \in Clients
                       /\ owner[f] \in Clients => owner'[f] = owner[f]
<1>1. \/ owner' = owner
      \/ \E f \in Fd : owner[f] = "free" /\ owner' = [owner EXCEPT ![f] = "fifo"]
  <2>1. CASE Listener
    BY <2>1 DEF Listener, Select, ScanSkip, ScanByte, ScanPacket, ScanEnd,
                AcceptFull, AcceptFail, LowestFree
  <2>2. CASE Replier
    BY <2>2 DEF Replier, ReadReply, SendReply, SendReplySigpipe
  <2>3. CASE Client
    BY <2>3 DEF Client, Connect, Send, Leave
  <2>4. CASE UNCHANGED vars
    BY <2>4 DEF vars
  <2> QED BY <2>1, <2>2, <2>3, <2>4 DEF Next
<1>2. "free" \notin Clients /\ "fifo" \notin Clients
  BY ClientsAssumption
<1>3. CASE owner' = owner
  BY <1>3
<1>4. ASSUME NEW f \in Fd, owner[f] = "free", owner' = [owner EXCEPT ![f] = "fifo"]
      PROVE  \A g \in Fd : /\ owner'[g] \in Clients <=> owner[g] \in Clients
                           /\ owner[g] \in Clients => owner'[g] = owner[g]
  BY <1>2, <1>4 DEF TypeInv, TypeOK
<1> QED BY <1>1, <1>3, <1>4

LEMMA PlacesKept ==
  ASSUME TypeInv, [Next]_vars, ~ScanClose, ~Accept
  PROVE  \A c \in Clients : (place'[c] = "in") = (place[c] = "in")
<1> USE DEF TypeInv
<1>1. CASE Listener
  BY <1>1 DEF Listener, Select, ScanSkip, ScanByte, ScanPacket, ScanEnd,
              AcceptFull, AcceptFail, Queued, TypeOK
<1>2. CASE Replier
  BY <1>2 DEF Replier, ReadReply, SendReply, SendReplySigpipe
<1>3. CASE Client
  BY <1>3 DEF Client, Connect, Send, Leave, TypeOK
<1>4. CASE UNCHANGED vars
  BY <1>4 DEF vars
<1> QED BY <1>1, <1>2, <1>3, <1>4 DEF Next

LEMMA OtherService ==
  ServiceInv /\ [Next]_vars /\ ~ScanClose /\ ~Accept => (OneFd /\ CutOffByClose)'
<1> SUFFICES ASSUME ServiceInv, [Next]_vars, ~ScanClose, ~Accept
             PROVE  (OneFd /\ CutOffByClose)'
    OBVIOUS
<1> USE MaxFdAssumption, ClientsAssumption DEF ServiceInv, TypeInv
<1>1. UNCHANGED table
  BY TableFrame
<1>2. \A c \in Clients : (place'[c] = "in") = (place[c] = "in")
  BY PlacesKept
<1>3. \A f \in Fd : /\ owner'[f] \in Clients <=> owner[f] \in Clients
                    /\ owner[f] \in Clients => owner'[f] = owner[f]
  BY OwnersKept
<1>4. OneFd'
  BY <1>2, <1>3 DEF OneFd
<1>5. \A c \in Clients : Open(c)' = Open(c)
  BY <1>3 DEF Open
<1>6. \A c \in Clients : Below(c)' = Below(c)
  BY <1>1, <1>3 DEF Below, TypeOK, SlotsApart
<1>7. CutOff' = CutOff /\ ClosedOut' = ClosedOut
  BY <1>2, <1>5, <1>6 DEF CutOff, ClosedOut
<1> QED BY <1>4, <1>7, FewerCutOff

LEMMA ServiceInvariant == Spec => []ServiceInv
<1>1. Init => OneFd /\ CutOffByClose
  <2> SUFFICES ASSUME Init PROVE OneFd /\ CutOffByClose
    OBVIOUS
  <2>1. OneFd /\ CutOff = {} /\ ClosedOut = {}
    BY ClientsAssumption DEF Init, OneFd, CutOff, ClosedOut, Open
  <2> QED BY <2>1, FS_EmptySet DEF CutOffByClose
<1>2. TypeInv /\ OneFd /\ CutOffByClose /\ [Next]_vars => (OneFd /\ CutOffByClose)'
  BY CloseService, AcceptService, OtherService DEF ServiceInv
<1> QED BY <1>1, <1>2, TypeInvariant, PTL DEF Spec, ServiceInv

(* A departure costs at most one other client its service (server.c:203).  *)
THEOREM CutOffByCloseAlways == Spec => []CutOffByClose
<1>1. ServiceInv => CutOffByClose
  BY DEF ServiceInv
<1> QED BY <1>1, ServiceInvariant, PTL
-----------------------------------------------------------------------------
(* The slots as a pool: where a client that is read sits.                  *)
Sits(c, s) == s \in Live /\ s < connAmount /\ owner[fdA[s]] = c

LEMMA Sitting ==
  ASSUME TypeInv
  PROVE  /\ \A c : Below(c) <=> \E s \in Slot : Sits(c, s)
         /\ \A c, d : Earlier(c, d) <=> \E s, t \in Slot : s < t /\ Sits(c, s) /\ Sits(d, t)
<1>1. connAmount \in Nat /\ \A s \in Slot : s \in Nat
  BY BacklogAssumption DEF TypeInv, TypeOK
<1> QED BY <1>1 DEF Sits, Below, Earlier

LEMMA SittingNext ==
  ASSUME TypeInv'
  PROVE  /\ \A c : Below(c)' <=> \E s \in Slot : Sits(c, s)'
         /\ \A c, d : Earlier(c, d)' <=> \E s, t \in Slot : s < t /\ Sits(c, s)' /\ Sits(d, t)'
<1>1. connAmount' \in Nat /\ \A s \in Slot : s \in Nat
  BY BacklogAssumption DEF TypeInv, TypeOK
<1> QED BY <1>1 DEF Sits, Below, Earlier

(* A client sits in one slot.                                              *)
LEMMA OneSlot ==
  ASSUME ServiceInv, NEW s \in Live, NEW t \in Live, owner[fdA[s]] = owner[fdA[t]]
  PROVE  s = t
BY DEF ServiceInv, OneFd, TypeInv, TypeOK, SlotsApart

(* An accept seats the newcomer behind everybody.                          *)
LEMMA PoolAccept == ServiceInv /\ Accept => \E c \in Clients : Pool!Admit(c)
<1> SUFFICES ASSUME ServiceInv, Accept PROVE \E c \in Clients : Pool!Admit(c)
    OBVIOUS
<1> USE BacklogAssumption, MaxFdAssumption, ClientsAssumption DEF ServiceInv, TypeInv
<1>1. PICK c \in Queued, f \in Fd :
        /\ LowestFree(f)
        /\ owner' = [owner EXCEPT ![f] = c]
        /\ fdA' = [fdA EXCEPT ![connAmount] = f]
        /\ place' = [place EXCEPT ![c] = "in"]
  BY DEF Accept, NextSlot
<1>2. c \in Clients /\ place[c] = "queued" /\ owner[f] = "free"
  BY <1>1 DEF Queued, LowestFree
<1>3. PICK n \in Slot : n = connAmount /\ connAmount' = n + 1
  BY DEF TypeOK, Accept, Room
<1>4. \A x \in Clients : \A s \in Slot : Sits(x, s)' <=> Sits(x, s) \/ (x = c /\ s = n)
  <2> SUFFICES ASSUME NEW x \in Clients, NEW s \in Slot
               PROVE  Sits(x, s)' <=> Sits(x, s) \/ (x = c /\ s = n)
    OBVIOUS
  <2>1. CASE s = n
    <3>1. fdA'[n] = f /\ owner'[f] = c /\ f # 0 /\ n < n + 1 /\ ~(n < n)
      BY <1>1, <1>2 , <1>3 DEF TypeOK
    <3> QED BY <1>3, <2>1, <3>1 DEF Sits
  <2>2. CASE s # n
    <3>1. fdA'[s] = fdA[s] /\ (s < n + 1 <=> s < n)
      BY <1>1, <1>3, <2>2 DEF TypeOK
    <3>2. s \in Live => fdA[s] \in Fd /\ fdA[s] # f
      BY <1>2 DEF TypeOK, SlotsApart
    <3>3. s \in Live => owner'[fdA[s]] = owner[fdA[s]]
      BY <1>1, <3>2 DEF TypeOK
    <3> QED BY <1>3, <2>2, <3>1, <3>3 DEF Sits
  <2> QED BY <2>1, <2>2
<1>5. TypeInv'
  BY ListenerTypeStep DEF Listener
<1>6. n \in Nat /\ \A s \in Slot : Sits(c, s) => FALSE
  <2>1. \A s \in Live : owner[fdA[s]] # c
    BY <1>2 DEF OneFd, TypeOK, SlotsApart
  <2> QED BY <1>3, <2>1 DEF Sits
<1>7. \A x \in Clients : Below(x)' <=> Below(x) \/ x = c
  BY <1>3, <1>4, <1>5, Sitting, SittingNext
<1>8. ~Below(c)
  BY <1>6, Sitting
<1>9. \A x, y \in Clients : Earlier(x, y)' <=> Earlier(x, y) \/ (Below(x) /\ y = c)
  <2> SUFFICES ASSUME NEW x \in Clients, NEW y \in Clients
               PROVE  Earlier(x, y)' <=> Earlier(x, y) \/ (Below(x) /\ y = c)
    OBVIOUS
  <2>1. ASSUME Earlier(x, y)' PROVE Earlier(x, y) \/ (Below(x) /\ y = c)
    <3>1. PICK s \in Slot, t \in Slot : s < t /\ Sits(x, s)' /\ Sits(y, t)'
      BY <1>5, <2>1, SittingNext
    <3>2. s # n
      <4>1. t < n + 1 /\ t \in Nat /\ s \in Nat
        BY <1>3, <3>1 DEF Sits
      <4> QED BY <1>6, <3>1, <4>1
    <3>3. Sits(x, s)
      BY <1>4, <3>1, <3>2
    <3>4. Sits(y, t) \/ y = c
      BY <1>4, <3>1
    <3> QED BY <3>1, <3>3, <3>4, Sitting
  <2>2. ASSUME Earlier(x, y) PROVE Earlier(x, y)'
    <3>1. PICK s \in Slot, t \in Slot : s < t /\ Sits(x, s) /\ Sits(y, t)
      BY <2>2, Sitting
    <3>2. Sits(x, s)' /\ Sits(y, t)'
      BY <1>4, <3>1
    <3> QED BY <1>5, <3>1, <3>2, SittingNext
  <2>3. ASSUME Below(x), y = c PROVE Earlier(x, y)'
    <3>1. PICK s \in Slot : Sits(x, s)
      BY <2>3, Sitting
    <3>2. Sits(x, s)' /\ Sits(y, n)' /\ s < n
      BY <1>3, <1>4, <2>3, <3>1 DEF Sits
    <3> QED BY <1>5, <3>2, SittingNext
  <2> QED BY <2>1, <2>2, <2>3
<1>10. InPool' = InPool \cup {c} /\ c \notin InPool \cup OutOfPool
  BY <1>2, <1>7, <1>8 DEF InPool, OutOfPool
<1>11. OutOfPool' = OutOfPool
  BY <1>1, <1>2, <1>7, <1>8 DEF OutOfPool, TypeOK
<1>12. Order' = Order \cup (InPool \X {c})
  <2>1. \A x, y : <<x, y>> \in Order <=> x \in Clients /\ y \in Clients /\ Earlier(x, y)
    BY DEF Order
  <2>2. \A x, y : <<x, y>> \in Order' <=> x \in Clients /\ y \in Clients /\ Earlier(x, y)'
    BY DEF Order
  <2>3. \A x, y : <<x, y>> \in InPool \X {c} <=> x \in Clients /\ Below(x) /\ y = c
    BY DEF InPool
  <2>4. /\ Order \subseteq Clients \X Clients /\ Order' \subseteq Clients \X Clients
        /\ InPool \X {c} \subseteq Clients \X Clients
    BY <1>2 DEF Order, InPool
  <2>5. \A x, y \in Clients : <<x, y>> \in Order' <=> <<x, y>> \in Order \cup (InPool \X {c})
    BY <1>2, <1>9, <2>1, <2>2, <2>3
  <2> QED BY <2>4, <2>5
<1>13. UNCHANGED <<left, pending>>
  BY DEF Accept
<1> QED BY <1>2, <1>10, <1>11, <1>12, <1>13 DEF Pool!Admit

(* A close empties the seat of the client that has gone, and the last seat *)
(* is behind conn_amount then.                                             *)
LEMMA PoolClose == ServiceInv /\ ScanClose => \E c, d \in Clients : Pool!Dismiss(c, d)
<1> SUFFICES ASSUME ServiceInv, ScanClose PROVE \E c, d \in Clients : Pool!Dismiss(c, d)
    OBVIOUS
<1> USE BacklogAssumption, MaxFdAssumption, ClientsAssumption DEF ServiceInv, TypeInv
<1>1. PICK i \in Live, c \in Clients : i = slot /\ c = owner[fdA[i]]
  BY ReadySlot DEF ScanClose
<1>2. /\ owner' = [owner EXCEPT ![fdA[i]] = "free"]
      /\ fdA' = [fdA EXCEPT ![i] = 0]
      /\ connAmount' = connAmount - 1
      /\ UNCHANGED <<place, left, pending>> /\ c \in left
  BY <1>1 DEF ScanClose, EmptySlot, CountOut
<1>3. PICK n \in Slot : n = connAmount - 1 /\ i <= n
  BY <1>1 DEF ScanClose, Scanning, Scanned, TypeOK
<1>4. PICK d \in Clients : /\ n \in Live => d = owner[fdA[n]]
                           /\ n \notin Live => d = c
  <2>1. CASE n \in Live
    BY <2>1 DEF SlotsApart
  <2> QED BY <2>1
<1>5. connAmount = n + 1 /\ connAmount' = n /\ n \in Nat
  BY <1>2, <1>3 DEF TypeOK
<1>6. \A x \in Clients : \A s \in Slot : Sits(x, s)' <=> Sits(x, s) /\ x \notin {c, d}
  <2> SUFFICES ASSUME NEW x \in Clients, NEW s \in Slot
               PROVE  Sits(x, s)' <=> Sits(x, s) /\ x \notin {c, d}
    OBVIOUS
  <2>1. CASE s = i
    <3>1. ~Sits(x, s)'
      BY <1>2, <2>1 DEF Sits, TypeOK
    <3>2. Sits(x, s) => x = c
      BY <1>1, <2>1 DEF Sits
    <3> QED BY <3>1, <3>2
  <2>2. CASE s # i /\ s = n
    <3>1. ~Sits(x, s)'
      BY <1>5, <2>2 DEF Sits
    <3>2. Sits(x, s) => x = d
      BY <1>4, <2>2 DEF Sits
    <3> QED BY <3>1, <3>2
  <2>3. CASE s # i /\ s # n
    <3>1. fdA'[s] = fdA[s] /\ (s < n + 1 <=> s < n)
      BY <1>2, <1>5, <2>3 DEF TypeOK
    <3>2. s \in Live => owner'[fdA[s]] = owner[fdA[s]]
      BY <1>1, <1>2, <2>3 DEF TypeOK, SlotsApart
    <3>3. Sits(x, s)' <=> Sits(x, s)
      BY <1>5, <3>1, <3>2 DEF Sits
    <3>4. Sits(x, s) => x # c
      BY <1>1, <2>3, OneSlot DEF Sits
    <3>5. Sits(x, s) => x # d
      <4>1. CASE n \in Live
        BY <1>4, <2>3, <4>1, OneSlot DEF Sits
      <4>2. CASE n \notin Live
        BY <1>4, <3>4, <4>2
      <4> QED BY <4>1, <4>2
    <3> QED BY <3>3, <3>4, <3>5
  <2> QED BY <2>1, <2>2, <2>3
<1>7. TypeInv'
  BY ListenerTypeStep DEF Listener
<1>8. \A x \in Clients : Below(x)' <=> Below(x) /\ x \notin {c, d}
  BY <1>6, <1>7, Sitting, SittingNext
<1>9. \A x, y \in Clients : Earlier(x, y)' <=> Earlier(x, y) /\ Below(x)' /\ Below(y)'
  <2> SUFFICES ASSUME NEW x \in Clients, NEW y \in Clients
               PROVE  Earlier(x, y)' <=> Earlier(x, y) /\ Below(x)' /\ Below(y)'
    OBVIOUS
  <2>1. ASSUME Earlier(x, y)' PROVE Earlier(x, y) /\ Below(x)' /\ Below(y)'
    <3>1. PICK s \in Slot, t \in Slot : s < t /\ Sits(x, s)' /\ Sits(y, t)'
      BY <1>7, <2>1, SittingNext
    <3>2. Sits(x, s) /\ Sits(y, t)
      BY <1>6, <3>1
    <3>3. Earlier(x, y)
      BY <3>1, <3>2, Sitting
    <3>4. Below(x)' /\ Below(y)'
      BY <1>7, <3>1, SittingNext
    <3> QED BY <3>3, <3>4
  <2>2. ASSUME Earlier(x, y), Below(x)', Below(y)' PROVE Earlier(x, y)'
    <3>1. PICK s \in Slot, t \in Slot : s < t /\ Sits(x, s) /\ Sits(y, t)
      BY <2>2, Sitting
    <3>2. Sits(x, s)' /\ Sits(y, t)'
      BY <1>6, <1>8, <2>2, <3>1
    <3> QED BY <1>7, <3>1, <3>2, SittingNext
  <2> QED BY <2>1, <2>2
<1>10. c \in InPool /\ c \in left /\ place[c] = "in"
  <2>1. Sits(c, i) /\ i \in Slot
    BY <1>1, <1>3, <1>5 DEF Sits
  <2>2. place[c] = "in"
    BY <1>1 DEF OneFd, TypeOK
  <2> QED BY <1>2, <2>1, <2>2, Sitting DEF InPool
<1>11. d = c \/ (d \in InPool /\ \A x \in InPool \ {d} : <<x, d>> \in Order)
  <2>1. CASE n \notin Live
    BY <1>4, <2>1
  <2>2. CASE n \in Live
    <3>1. Sits(d, n)
      BY <1>4, <1>5, <2>2 DEF Sits
    <3>2. d \in InPool
      BY <3>1, Sitting DEF InPool
    <3>3. ASSUME NEW x \in InPool \ {d} PROVE <<x, d>> \in Order
      <4>1. x \in Clients /\ x # d /\ Below(x)
        BY DEF InPool
      <4>2. PICK s \in Slot : Sits(x, s)
        BY <4>1, Sitting
      <4>3. s # n /\ s < n + 1 /\ s \in Nat
        BY <1>4, <1>5, <2>2, <4>1, <4>2 DEF Sits
      <4>4. s < n
        BY <1>5, <4>3
      <4>5. Earlier(x, d)
        BY <3>1, <4>2, <4>4, Sitting
      <4> QED BY <4>1, <4>5 DEF Order
    <3> QED BY <3>2, <3>3
  <2> QED BY <2>1, <2>2
<1>12. d \in Clients /\ place[d] = "in"
  <2>1. CASE n \in Live
    BY <1>4, <2>1 DEF OneFd, TypeOK
  <2>2. CASE n \notin Live
    BY <1>4, <1>10, <2>2
  <2> QED BY <2>1, <2>2
<1>13. InPool' = InPool \ {c, d}
  BY <1>8 DEF InPool
<1>14. OutOfPool' = OutOfPool \cup {c, d}
  BY <1>2, <1>8, <1>10, <1>12 DEF OutOfPool
<1>15. Order' = Order \cap (InPool' \X InPool')
  <2>1. \A x, y : <<x, y>> \in Order <=> x \in Clients /\ y \in Clients /\ Earlier(x, y)
    BY DEF Order
  <2>2. \A x, y : <<x, y>> \in Order' <=> x \in Clients /\ y \in Clients /\ Earlier(x, y)'
    BY DEF Order
  <2>3. \A x, y : <<x, y>> \in InPool' \X InPool' <=>
                  x \in Clients /\ y \in Clients /\ Below(x)' /\ Below(y)'
    BY DEF InPool
  <2>4. Order \subseteq Clients \X Clients /\ Order' \subseteq Clients \X Clients
    BY DEF Order
  <2>5. \A x, y \in Clients : <<x, y>> \in Order' <=> <<x, y>> \in Order \cap (InPool' \X InPool')
    BY <1>9, <2>1, <2>2, <2>3
  <2> QED BY <2>4, <2>5
<1>16. UNCHANGED <<left, pending>>
  BY <1>2
<1> QED BY <1>10, <1>11, <1>13, <1>14, <1>15, <1>16 DEF Pool!Dismiss, Pool!Newest

(* Every other step leaves the pool alone.                                 *)
LEMMA PoolKept ==
  ServiceInv /\ [Next]_vars /\ ~ScanClose /\ ~Accept => UNCHANGED <<InPool, Order, OutOfPool>>
<1> SUFFICES ASSUME ServiceInv, [Next]_vars, ~ScanClose, ~Accept
             PROVE  UNCHANGED <<InPool, Order, OutOfPool>>
    OBVIOUS
<1> TypeInv
  BY DEF ServiceInv
<1>1. UNCHANGED table
  BY TableFrame
<1>2. \A f \in Fd : owner[f] \in Clients => owner'[f] = owner[f]
  BY OwnersKept
<1>3. \A s \in Live : owner'[fdA[s]] = owner[fdA[s]]
  BY <1>2 DEF ServiceInv, TypeInv, TypeOK, SlotsApart
<1>4. \A c : (Below(c)' <=> Below(c)) /\ \A d : Earlier(c, d)' <=> Earlier(c, d)
  BY <1>1, <1>3 DEF Below, Earlier
<1>5. \A c \in Clients : (place'[c] = "in") = (place[c] = "in")
  BY PlacesKept
<1> QED BY <1>4, <1>5 DEF InPool, Order, OutOfPool

(* Bytes are sent and read, clients go.                                    *)
LEMMA PoolOther ==
  ServiceInv /\ [Next]_vars /\ ~ScanClose /\ ~Accept =>
    \/ \E c \in Clients : Pool!Read(c) \/ Pool!Send(c) \/ Pool!Leave(c)
    \/ UNCHANGED Pool!vars
<1> SUFFICES ASSUME ServiceInv, [Next]_vars, ~ScanClose, ~Accept
             PROVE  \/ \E c \in Clients : Pool!Read(c) \/ Pool!Send(c) \/ Pool!Leave(c)
                    \/ UNCHANGED Pool!vars
    OBVIOUS
<1>1. UNCHANGED <<InPool, Order, OutOfPool>>
  BY PoolKept
<1>2. CASE ScanByte \/ ScanPacket
  <2>1. Reading /\ UNCHANGED left
    BY <1>2 DEF ScanByte, ScanPacket
  <2>2. PICK i \in Live, c \in Clients : i = slot /\ c = owner[fdA[i]]
    BY <2>1, ReadySlot DEF Reading, ServiceInv
  <2>3. pending[c] > 0 /\ pending' = [pending EXCEPT ![c] = @ - 1]
    BY <2>1, <2>2 DEF Reading
  <2>4. c \in InPool
    <3>1. Sits(c, i)
      BY <2>1, <2>2 DEF Reading, Scanning, Scanned, Sits, ServiceInv, TypeInv, TypeOK
    <3> QED BY <2>2, <3>1, Sitting DEF InPool, ServiceInv
  <2> QED BY <1>1, <2>1, <2>3, <2>4 DEF Pool!Read
<1>3. CASE Client
  <2>1. PICK c \in Clients : Connect(c) \/ Send(c) \/ Leave(c)
    BY <1>3 DEF Client
  <2>2. CASE Connect(c)
    BY <1>1, <2>2 DEF Connect, Pool!vars
  <2>3. CASE Send(c)
    BY <1>1, <2>3 DEF Send, Pool!Send
  <2>4. CASE Leave(c)
    BY <1>1, <2>4 DEF Leave, Pool!Leave
  <2> QED BY <2>1, <2>2, <2>3, <2>4
<1>4. CASE Listener /\ ~ScanByte /\ ~ScanPacket
  <2>1. UNCHANGED <<left, pending>>
    BY <1>4 DEF Listener, Select, ScanSkip, ScanEnd, AcceptFull, AcceptFail
  <2> QED BY <1>1, <2>1 DEF Pool!vars
<1>5. CASE Replier \/ UNCHANGED vars
  <2>1. UNCHANGED <<left, pending>>
    BY <1>5 DEF Replier, ReadReply, SendReply, SendReplySigpipe, vars
  <2> QED BY <1>1, <2>1 DEF Pool!vars
<1> QED BY <1>2, <1>3, <1>4, <1>5 DEF Next

(* The slots implement the pool (server.c:192-239): a newcomer costs       *)
(* nobody his place, a close at most the newest client his, only clients   *)
(* in the pool are read, and nobody comes back.                            *)
THEOREM PoolImplemented == Spec => PoolSpec
<1>1. Init => Pool!Init
  <2> SUFFICES ASSUME Init PROVE Pool!Init
    OBVIOUS
  <2>1. \A c : ~Below(c) /\ \A d : ~Earlier(c, d)
    BY DEF Init, Below, Earlier
  <2>2. InPool = {} /\ Order = {} /\ OutOfPool = {}
    BY <2>1 DEF Init, InPool, Order, OutOfPool
  <2> QED BY <2>2 DEF Init, Pool!Init
<1>2. ServiceInv /\ [Next]_vars => [Pool!Next]_(Pool!vars)
  <2> SUFFICES ASSUME ServiceInv, [Next]_vars PROVE [Pool!Next]_(Pool!vars)
    OBVIOUS
  <2>1. CASE Accept
    BY <2>1, PoolAccept DEF Pool!Next
  <2>2. CASE ScanClose
    BY <2>2, PoolClose DEF Pool!Next
  <2>3. CASE ~ScanClose /\ ~Accept
    BY <2>3, PoolOther DEF Pool!Next
  <2> QED BY <2>1, <2>2, <2>3
<1> QED BY <1>1, <1>2, ServiceInvariant, PTL DEF Spec, PoolSpec, Pool!Spec
-----------------------------------------------------------------------------
(* The slot an answer names is in use by the client that caused it.        *)
Held(a) == fdA[a.slot] # 0 /\ owner[fdA[a.slot]] = a.by

(* Until a client leaves there are no holes, and every answer on its way   *)
(* names a slot that its cause holds.                                      *)
ReplyInv ==
  left = {} =>
    /\ \A s \in Live : s < connAmount
    /\ \A a \in answers : Held(a)
    /\ rpc = "send" => Held(reply)
    /\ replied.to = replied.by

(* Nobody comes back: what held with a client gone held before.            *)
LEMMA LeftGrows == [Next]_vars => (left' = {} => left = {})
<1> SUFFICES ASSUME [Next]_vars, left' = {} PROVE left = {}
    OBVIOUS
<1>1. CASE Listener
  BY <1>1 DEF Listener, Select, ScanSkip, ScanByte, ScanPacket, Reading, ScanClose,
              ScanEnd, Accept, AcceptFull, AcceptFail
<1>2. CASE Replier
  BY <1>2 DEF Replier, ReadReply, SendReply, SendReplySigpipe
<1>3. CASE Client
  BY <1>3 DEF Client, Connect, Send, Leave
<1>4. CASE UNCHANGED vars
  BY <1>4 DEF vars
<1> QED BY <1>1, <1>2, <1>3, <1>4 DEF Next

(* With the table, the answers and the reply as they were, so is ReplyInv. *)
LEMMA ReplyFrame ==
  ASSUME ReplyInv, left' = {} => left = {},
         UNCHANGED <<fdA, connAmount, owner, answers, rpc, reply, replied>>
  PROVE  ReplyInv'
BY DEF ReplyInv, Held

(* The listening thread closes nobody before a client has left, and an     *)
(* accept takes the slot after the last one in use.                        *)
LEMMA ListenerReply == TypeInv /\ ReplyInv /\ Listener => ReplyInv'
<1> SUFFICES ASSUME TypeInv, ReplyInv, Listener, left' = {} PROVE ReplyInv'
    BY DEF ReplyInv
<1> USE BacklogAssumption, MaxFdAssumption, ClientsAssumption DEF TypeInv
<1>1. left = {}
  BY LeftGrows DEF Next
<1>2. CASE ScanPacket
  <2>1. PICK f \in Fd : LowestFree(f) /\ owner' = [owner EXCEPT ![f] = "fifo"]
    BY <1>2 DEF ScanPacket
  <2>2. slot \in Live
    BY <1>2, ReadySlot DEF ScanPacket, Reading
  <2>3. \A s \in Live : owner'[fdA[s]] = owner[fdA[s]]
    BY <2>1 DEF TypeOK, SlotsApart, LowestFree
  <2>4. \A a \in answers \cup {reply} : a.slot \in Slot
    BY DEF TypeOK
  <2>5. /\ UNCHANGED <<fdA, connAmount, rpc, reply, replied>>
        /\ answers' = answers \cup {[slot |-> slot, by |-> owner[fdA[slot]]]}
    BY <1>2 DEF ScanPacket
  <2>6. \A a \in answers' : Held(a)'
    BY <1>1, <2>2, <2>3, <2>4, <2>5 DEF ReplyInv, Held
  <2>7. rpc = "send" => Held(reply)'
    BY <1>1, <2>3, <2>4, <2>5 DEF ReplyInv, Held
  <2> QED BY <1>1, <2>5, <2>6, <2>7 DEF ReplyInv
<1>3. CASE ScanClose
  BY <1>1, <1>3 DEF ScanClose
<1>4. CASE Accept
  <2>1. PICK c \in Queued, f \in Fd :
          /\ LowestFree(f)
          /\ owner' = [owner EXCEPT ![f] = c]
          /\ fdA' = [fdA EXCEPT ![connAmount] = f]
    BY <1>4 DEF Accept, NextSlot
  <2>2. connAmount \in Slot /\ connAmount' = connAmount + 1
    BY <1>4 DEF TypeOK, Accept, Room
  <2>3. \A s \in Live : s # connAmount /\ fdA'[s] = fdA[s] /\ owner'[fdA[s]] = owner[fdA[s]]
    BY <1>1, <2>1 DEF TypeOK, SlotsApart, LowestFree, ReplyInv
  <2>4. \A a \in answers \cup {reply} : a.slot \in Slot
    BY DEF TypeOK
  <2>5. UNCHANGED <<answers, rpc, reply, replied>>
    BY <1>4 DEF Accept
  <2>6. \A a \in answers \cup {reply} : Held(a) => Held(a)'
    BY <2>3, <2>4 DEF Held
  <2>7. \A s \in Live' : s < connAmount'
    BY <1>1, <2>1, <2>2 DEF TypeOK, ReplyInv
  <2> QED BY <1>1, <2>5, <2>6, <2>7 DEF ReplyInv
<1>5. CASE ~ScanPacket /\ ~ScanClose /\ ~Accept
  <2>1. UNCHANGED <<fdA, connAmount, owner, answers, rpc, reply, replied>>
    BY <1>5 DEF Listener, Select, ScanSkip, ScanByte, Reading, ScanEnd, AcceptFull, AcceptFail
  <2> QED BY <1>1, <2>1, ReplyFrame
<1> QED BY <1>2, <1>3, <1>4, <1>5

(* The reply thread sends to the slot the answer names.                    *)
LEMMA ReplierReply == TypeInv /\ ReplyInv /\ Replier => ReplyInv'
<1> SUFFICES ASSUME TypeInv, ReplyInv, Replier, left' = {} PROVE ReplyInv'
    BY DEF ReplyInv
<1>1. left = {}
  BY LeftGrows DEF Next
<1>2. CASE ReadReply
  <2>1. reply' \in answers /\ answers' \subseteq answers
    BY <1>2 DEF ReadReply
  <2> QED BY <1>1, <1>2, <2>1 DEF ReplyInv, ReadReply, Held
<1>3. CASE SendReply
  BY <1>1, <1>3 DEF ReplyInv, SendReply, Target, Held
<1>4. CASE SendReplySigpipe
  BY <1>1, <1>4 DEF SendReplySigpipe
<1> QED BY <1>2, <1>3, <1>4 DEF Replier

(* The clients touch neither.                                              *)
LEMMA ClientReply == ReplyInv /\ Client => ReplyInv'
<1> SUFFICES ASSUME ReplyInv, Client PROVE ReplyInv'
    OBVIOUS
<1>1. UNCHANGED <<fdA, connAmount, owner, answers, rpc, reply, replied>>
  BY DEF Client, Connect, Send, Leave
<1> QED BY <1>1, LeftGrows, ReplyFrame DEF Next

(* Until a client leaves, an answer goes to the client that caused it      *)
(* (server.c:36-50), however many connect and however late it comes.       *)
THEOREM ReplyToCauseAlways == Spec => []ReplyToCause
<1>1. Init => ReplyInv
  BY DEF Init, ReplyInv
<1>2. TypeInv /\ ReplyInv /\ [Next]_vars => ReplyInv'
  <2>1. ReplyInv /\ UNCHANGED vars => ReplyInv'
    BY ReplyFrame DEF vars
  <2> QED BY <2>1, ListenerReply, ReplierReply, ClientReply DEF Next
<1>3. ReplyInv => ReplyToCause
  BY DEF ReplyInv, ReplyToCause
<1> QED BY <1>1, <1>2, <1>3, TypeInvariant, PTL DEF Spec
=============================================================================
