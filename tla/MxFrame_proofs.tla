--------------------------- MODULE MxFrame_proofs ---------------------------
(***************************************************************************)
(* Theorems about the frame parser, for every width of the size variable,  *)
(* every pair of marks and any number of clients, bytes and frames.        *)
(***************************************************************************)
EXTENDS MxFrame, TLAPS

(* The parser's part and the clients' part of the types.                   *)
ParserOK ==
  /\ locker \in 0 .. Cap + 1
  /\ gcount \in 0 .. Cap
  /\ pktSize \in Byte
  /\ gbuf \in [0 .. Cap - 1 -> Byte]
  /\ packet.client \in Clients
  /\ packet.size \in Byte /\ packet.len \in Byte /\ packet.count \in 0 .. Cap
  /\ written \in Nat

SourceOK ==
  /\ turns \in BOOLEAN
  /\ sentBytes \in [Clients -> [0 .. Cap - 1 -> Byte]]
  /\ pos \in [Clients -> 0 .. MaxLen + 2]
  /\ framesSent \in Nat

(* What the parser relies on between two bytes: between frames nothing is  *)
(* collected and the size left over cannot end a frame at its first byte;  *)
(* inside a frame locker counts the bytes, and from the second byte on     *)
(* pktSize is the length byte plus three, as far as it fits.               *)
PhaseInv ==
  /\ locker = 0 => gcount = 0 /\ pktSize # 1
  /\ locker # 0 => locker = gcount + 1 /\ gcount >= 1
  /\ locker >= 3 => pktSize = Wrap(gbuf[1] + 3)

ParserInv == ParserOK /\ PhaseInv /\ CopyWithinFrame

(* A client that has sent a length is held to it.                          *)
SourceInv ==
  /\ SourceOK
  /\ \A c \in Clients : pos[c] >= 2 =>
       LengthOf(c) \in 0 .. MaxLen /\ pos[c] <= LengthOf(c) + 2

(* The size of an unsigned char.                                           *)
LEMMA WrapByte ==
  ASSUME NEW b \in Byte
  PROVE  /\ Wrap(b + 3) \in Byte
         /\ Wrap(b + 1) \in Byte
         /\ Wrap(b + 3) >= 3 => Wrap(b + 3) = b + 3
         /\ b <= W - 4 => Wrap(b + 3) = b + 3 /\ Wrap(b + 1) = b + 1
BY WAssumption DEF Wrap, Byte

(* Storing a byte changes gbuf in one place.                               *)
LEMMA StoreByte ==
  ASSUME ParserOK, NEW b \in Byte, Store(b), Count(b) \in 0 .. Cap - 1
  PROVE  /\ gbuf' \in [0 .. Cap - 1 -> Byte]
         /\ gbuf'[Count(b)] = b
         /\ \A i \in 0 .. Cap - 1 : i # Count(b) => gbuf'[i] = gbuf[i]
         /\ pktSize' = Size(b) /\ pktSize' \in Byte
BY WrapByte DEF Store, ParserOK, Size

(* Whatever byte comes, from whichever client, the parser keeps its        *)
(* invariant.                                                              *)
LEMMA CallBackKeeps ==
  ASSUME ParserInv, NEW c \in Clients, NEW b \in Byte, CallBack(c, b)
  PROVE  ParserInv'
<1> USE CapAssumption, WAssumption DEF ParserInv
<1>1. CASE Skip(b)
  BY <1>1 DEF Skip, parser, ParserOK, PhaseInv, CopyWithinFrame
<1>2. ASSUME Room(b), Store(b)
      PROVE  /\ Count(b) \in 0 .. Cap - 1 /\ Phase(b) = Count(b) + 1
             /\ Phase(b) = 1 => pktSize # 1
             /\ gbuf' \in [0 .. Cap - 1 -> Byte] /\ pktSize' \in Byte
             /\ Phase(b) >= 2 => pktSize' = Wrap(gbuf'[1] + 3)
             /\ pktSize' = Size(b)
  <2>1. /\ Count(b) \in 0 .. Cap - 1 /\ Phase(b) = Count(b) + 1
        /\ Phase(b) = 1 => pktSize # 1
    BY <1>2 DEF ParserOK, PhaseInv, Room, Inside, Opens, Count, Phase
  <2>2. /\ gbuf' \in [0 .. Cap - 1 -> Byte] /\ pktSize' \in Byte
        /\ gbuf'[Count(b)] = b
        /\ \A i \in 0 .. Cap - 1 : i # Count(b) => gbuf'[i] = gbuf[i]
        /\ pktSize' = Size(b)
    BY <1>2, <2>1, StoreByte
  <2>3. CASE Phase(b) = 2
    BY <2>1, <2>2, <2>3 DEF Size
  <2>4. CASE Phase(b) >= 3
    <3>1. locker >= 3 /\ pktSize' = pktSize /\ gbuf'[1] = gbuf[1]
      BY <2>1, <2>2, <2>4 DEF Size, Phase, ParserOK
    <3> QED BY <2>1, <2>2, <3>1 DEF PhaseInv
  <2> QED BY <2>1, <2>2, <2>3, <2>4
<1>3. CASE Collect(b)
  <2>1. ParserOK'
    BY <1>2, <1>3 DEF Collect, ParserOK, Room
  <2>2. PhaseInv'
    BY <1>2, <1>3 DEF Collect, PhaseInv
  <2> QED BY <1>3, <2>1, <2>2 DEF Collect, CopyWithinFrame
<1>4. ASSUME Room(b), Store(b), Ends(b)
      PROVE  pktSize' = Count(b) + 1 /\ pktSize' >= 2
  <2>1. Count(b) + 1 = Size(b) /\ Phase(b) = Count(b) + 1 /\ pktSize' = Size(b)
    BY <1>2, <1>4 DEF Ends
  <2>2. Phase(b) # 1
    BY <1>2, <1>4, <2>1 DEF Size
  <2> QED BY <1>2, <1>4, <2>1, <2>2
<1>5. CASE Reject(b)
  <2>1. ParserOK'
    BY <1>2, <1>5 DEF Reject, Reset, ParserOK
  <2>2. PhaseInv'
    BY <1>4, <1>5 DEF Reject, Reset, PhaseInv
  <2> QED BY <1>5, <2>1, <2>2 DEF Reject, CopyWithinFrame
<1>6. CASE Accept(c, b)
  <2>1. Count(b) + 1 \in 2 .. Cap /\ pktSize' = Count(b) + 1
    BY <1>2, <1>4, <1>6 DEF Accept
  <2>2. gbuf'[1] \in Byte /\ pktSize' = Wrap(gbuf'[1] + 3)
    BY <1>2, <1>6, <2>1 DEF Accept
  <2>3. gbuf'[1] + 3 = Count(b) + 1
    <3>1. CASE Phase(b) = 2
      <4>1. gbuf'[1] = Stop /\ Wrap(Stop + 3) = 2
        BY <1>2, <1>6, <2>1, <2>2, <3>1, StoreByte DEF Accept
      <4> QED BY <4>1, StopAssumption, MarksAssumption DEF Wrap, Byte
    <3>2. CASE Phase(b) # 2
      BY <1>2, <1>6, <2>1, <2>2, <3>2, WrapByte DEF Accept
    <3> QED BY <3>1, <3>2
  <2>4. /\ packet'.client = c /\ packet'.size = Wrap(gbuf'[1] + 1)
        /\ packet'.len = gbuf'[1] /\ packet'.count = Count(b) + 1
    BY <1>6 DEF Accept
  <2>5. ParserOK'
    BY <1>2, <1>6, <2>1, <2>2, <2>4, WrapByte DEF Accept, Reset, ParserOK
  <2>6. PhaseInv'
    BY <1>6, <2>1 DEF Accept, Reset, PhaseInv
  <2> QED BY <2>3, <2>4, <2>5, <2>6 DEF CopyWithinFrame
<1> QED
  BY <1>1, <1>3, <1>5, <1>6 DEF CallBack

(* The bytes the clients send are bytes, and every step of a client gives  *)
(* one byte to the parser.                                                 *)
LEMMA StepGives ==
  ASSUME SourceInv, Next
  PROVE  \E c \in Clients, b \in Byte : CallBack(c, b)
<1> USE WAssumption, LenAssumption, MarksAssumption, DataAssumption DEF Byte
<1>1. PICK c \in Clients : SendStart(c) \/ SendLength(c) \/ SendData(c)
                           \/ SendStop(c) \/ SendNoise(c)
  BY DEF Next
<1>2. CASE SendStart(c)
  BY <1>2 DEF SendStart, SendInside
<1>3. CASE SendLength(c)
  BY <1>3 DEF SendLength, SendInside
<1>4. CASE SendData(c)
  BY <1>4 DEF SendData, SendInside
<1>5. CASE SendStop(c)
  BY <1>5 DEF SendStop
<1>6. CASE SendNoise(c)
  BY <1>6 DEF SendNoise
<1> QED
  BY <1>1, <1>2, <1>3, <1>4, <1>5, <1>6

(* A byte sent inside a frame is recorded.                                 *)
LEMMA SendInsideKeeps ==
  ASSUME SourceOK, NEW c \in Clients, NEW b \in Byte, SendInside(c, b),
         pos[c] <= MaxLen + 1
  PROVE  /\ SourceOK'
         /\ \A d \in Clients : pos'[d] = IF d = c THEN pos[c] + 1 ELSE pos[d]
         /\ \A d \in Clients \ {c} : sentBytes'[d] = sentBytes[d]
         /\ sentBytes'[c] = [sentBytes[c] EXCEPT ![pos[c]] = b]
         /\ pos[c] \in 0 .. Cap - 1
<1>1. pos[c] \in 0 .. Cap - 1 /\ pos[c] + 1 \in 0 .. MaxLen + 2
  BY CapAssumption, WAssumption, LenAssumption DEF SourceOK
<1>2. [sentBytes[c] EXCEPT ![pos[c]] = b] \in [0 .. Cap - 1 -> Byte]
  BY DEF SourceOK
<1> QED
  BY <1>1, <1>2 DEF SendInside, SourceOK

(* Every step keeps what is known of the clients' frames.                  *)
LEMMA SourceKeeps == SourceInv /\ Next => SourceInv'
<1> SUFFICES ASSUME SourceInv, Next PROVE SourceInv'
  OBVIOUS
<1> USE WAssumption, LenAssumption, CapAssumption
<1>a. SourceOK
  BY DEF SourceInv
<1>b. \A d \in Clients : pos[d] \in 0 .. MaxLen + 2
  BY <1>a DEF SourceOK
<1>1. PICK c \in Clients : SendStart(c) \/ SendLength(c) \/ SendData(c)
                           \/ SendStop(c) \/ SendNoise(c)
  BY DEF Next
<1>c. ASSUME NEW b \in Byte, SendInside(c, b), pos[c] <= MaxLen + 1,
             pos[c] >= 1 => /\ sentBytes'[c][1] \in 0 .. MaxLen
                            /\ pos[c] + 1 <= sentBytes'[c][1] + 2
      PROVE  SourceInv'
  <2>1. /\ SourceOK'
        /\ \A d \in Clients : pos'[d] = IF d = c THEN pos[c] + 1 ELSE pos[d]
        /\ \A d \in Clients \ {c} : sentBytes'[d] = sentBytes[d]
    BY <1>a, <1>c, SendInsideKeeps
  <2>2. SUFFICES ASSUME NEW d \in Clients, pos'[d] >= 2
                 PROVE  /\ sentBytes'[d][1] \in 0 .. MaxLen
                        /\ pos'[d] <= sentBytes'[d][1] + 2
    BY <2>1 DEF SourceInv, LengthOf
  <2>3. CASE d = c
    BY <1>b, <1>c, <2>1, <2>2, <2>3
  <2>4. CASE d # c
    BY <2>1, <2>2, <2>4 DEF SourceInv, LengthOf
  <2> QED BY <2>3, <2>4
<1>2. CASE SendStart(c)
  <2>1. pos[c] = 0 /\ SendInside(c, Start) /\ Start \in Byte
    BY <1>2, MarksAssumption DEF SendStart, MayStart
  <2> QED BY <1>c, <2>1
<1>3. CASE SendLength(c)
  <2>1. PICK n \in 0 .. MaxLen : pos[c] = 1 /\ SendInside(c, n)
    BY <1>3 DEF SendLength
  <2>2. n \in Byte
    BY DEF Byte
  <2>3. sentBytes'[c] = [sentBytes[c] EXCEPT ![1] = n]
    BY <1>a, <2>1, <2>2, SendInsideKeeps
  <2>4. sentBytes'[c][1] = n
    BY <1>a, <2>3 DEF SourceOK
  <2> QED BY <1>c, <2>1, <2>2, <2>4
<1>4. CASE SendData(c)
  <2>1. PICK b \in Data : /\ SendInside(c, b)
                          /\ pos[c] >= 2 /\ pos[c] < LengthOf(c) + 2
    BY <1>4 DEF SendData
  <2>2. b \in Byte /\ LengthOf(c) \in 0 .. MaxLen
    BY <2>1, DataAssumption DEF SourceInv
  <2>3. pos[c] <= MaxLen + 1
    BY <1>b, <2>1, <2>2
  <2>4. sentBytes'[c] = [sentBytes[c] EXCEPT ![pos[c]] = b]
    BY <1>a, <2>1, <2>2, <2>3, SendInsideKeeps
  <2>5. sentBytes'[c][1] = sentBytes[c][1]
    BY <1>a, <1>b, <2>1, <2>4 DEF SourceOK
  <2> QED BY <1>b, <1>c, <2>1, <2>2, <2>3, <2>5 DEF LengthOf
<1>5. CASE SendStop(c)
  <2>1. Nothing \in [0 .. Cap - 1 -> Byte]
    BY DEF Nothing, Byte
  <2>2. SourceOK'
    BY <1>5, <1>a, <2>1 DEF SendStop, SourceOK
  <2>3. \A d \in Clients : pos'[d] # 0 => d # c /\ pos'[d] = pos[d]
                                          /\ sentBytes'[d] = sentBytes[d]
    BY <1>5, <1>a DEF SendStop, SourceOK
  <2> QED BY <2>2, <2>3 DEF SourceInv, LengthOf
<1>6. CASE SendNoise(c)
  BY <1>6 DEF SendNoise, source, SourceInv, SourceOK, LengthOf
<1> QED
  BY <1>1, <1>2, <1>3, <1>4, <1>5, <1>6

(* Nothing is in the parser and nothing has been sent at the start.        *)
LEMMA InitHolds == Init => ParserInv /\ SourceInv
<1> SUFFICES ASSUME Init PROVE ParserInv /\ SourceInv
  OBVIOUS
<1> USE WAssumption, CapAssumption, LenAssumption
<1>1. Nothing \in [0 .. Cap - 1 -> Byte]
  BY DEF Nothing, Byte
<1>2. NoPacket.client \in Clients
  BY ClientsAssumption DEF NoPacket
<1>3. NoPacket.size = 0 /\ NoPacket.len = 0 /\ NoPacket.count = 3
  BY DEF NoPacket
<1>4. ParserInv
  BY <1>1, <1>2, <1>3
     DEF Init, ParserInv, ParserOK, PhaseInv, CopyWithinFrame, Byte
<1>5. SourceInv
  BY <1>1 DEF Init, SourceInv, SourceOK
<1> QED
  BY <1>4, <1>5

(* The parser's invariant in every behaviour.                              *)
LEMMA InvCorrect == Spec => [](ParserInv /\ SourceInv)
<1>1. ParserInv /\ SourceInv /\ [Next]_vars => (ParserInv /\ SourceInv)'
  <2>1. ParserInv /\ SourceInv /\ Next => ParserInv'
    BY StepGives, CallBackKeeps
  <2>2. ParserInv /\ SourceInv /\ UNCHANGED vars => (ParserInv /\ SourceInv)'
    BY DEF vars, parser, source, ParserInv, ParserOK, PhaseInv,
           CopyWithinFrame, SourceInv, SourceOK, LengthOf
  <2> QED BY <2>1, <2>2, SourceKeeps
<1> QED
  BY <1>1, InitHolds, PTL DEF Spec

(* Every variable keeps its type: gcount stays within gbuf and the size    *)
(* within a byte.                                                          *)
THEOREM TypeCorrect == Spec => []TypeOK
<1>1. ParserInv /\ SourceInv => TypeOK
  BY DEF ParserInv, SourceInv, ParserOK, SourceOK, TypeOK
<1> QED
  BY <1>1, InvCorrect, PTL

(* However the clients' bytes are mixed, parse copies what is between the  *)
(* header and the terminator: the length byte it trusts has not wrapped.   *)
THEOREM CopyWithinFrameAlways == Spec => []CopyWithinFrame
<1>1. ParserInv => CopyWithinFrame
  BY DEF ParserInv
<1> QED
  BY <1>1, InvCorrect, PTL

(* The size left over from a frame never ends the next one at its start.   *)
THEOREM StaleSizeHarmlessAlways == Spec => []StaleSizeHarmless
<1>1. ParserInv => StaleSizeHarmless
  BY DEF ParserInv, PhaseInv, StaleSizeHarmless
<1> QED
  BY <1>1, InvCorrect, PTL

(* The packet size is passed only if it is too small to be met: 0 or 1.    *)
SizeAhead == gcount >= 2 => gcount < pktSize \/ pktSize \in {0, 1}

LEMMA SizeAheadKept ==
  ASSUME ParserInv, SizeAhead, NEW c \in Clients, NEW b \in Byte, CallBack(c, b)
  PROVE  SizeAhead'
<1> USE CapAssumption DEF ParserInv, SizeAhead
<1>1. CASE Skip(b)
  BY <1>1 DEF Skip, parser
<1>2. CASE Collect(b)
  <2>1. /\ Phase(b) = Count(b) + 1 /\ Count(b) \in 0 .. Cap - 1
        /\ gcount' = Count(b) + 1 /\ Count(b) + 1 # Size(b) /\ pktSize' = Size(b)
        /\ Size(b) \in Byte
    BY <1>2, WrapByte DEF Collect, Store, Room, Ends, Inside, Opens, Count, Phase, Size, ParserOK, PhaseInv
  <2>2. CASE Phase(b) <= 2
    BY <2>1, <2>2, WAssumption DEF Byte
  <2>3. CASE Phase(b) >= 3
    <3>1. Count(b) = gcount /\ Size(b) = pktSize /\ gcount >= 2
      BY <2>1, <2>3 DEF Count, Phase, Size, Opens, ParserOK
    <3> QED BY <2>1, <3>1, WAssumption DEF Byte
  <2> QED BY <2>1, <2>2, <2>3
<1>3. CASE Reject(b) \/ Accept(c, b)
  BY <1>3 DEF Reject, Accept, Reset
<1> QED BY <1>1, <1>2, <1>3 DEF CallBack

(* Only a length of 253 or 254 makes the parser run on past the frame.     *)
THEOREM RunsOnOnlyWrappedAlways == Spec => []RunsOnOnlyWrapped
<1>1. ParserInv /\ SizeAhead => RunsOnOnlyWrapped
  <2> SUFFICES ASSUME ParserInv, SizeAhead, gcount >= 2 PROVE RunsOnOnlyWrapped
    BY DEF RunsOnOnlyWrapped
  <2>1. gcount \in 0 .. Cap /\ gbuf[1] \in Byte /\ pktSize = Wrap(gbuf[1] + 3)
    BY CapAssumption, WAssumption DEF ParserInv, ParserOK, PhaseInv
  <2> QED
    BY <2>1, WAssumption DEF SizeAhead, RunsOnOnlyWrapped, Wrap, Byte
<1>2. Init => SizeAhead
  BY DEF Init, SizeAhead
<1>3. ParserInv /\ SourceInv /\ SizeAhead /\ [Next]_vars => SizeAhead'
  <2>1. CASE UNCHANGED vars
    BY <2>1 DEF SizeAhead, vars, parser
  <2> QED BY <2>1, StepGives, SizeAheadKept
<1> QED
  BY <1>1, <1>2, <1>3, InvCorrect, PTL DEF Spec

(* Turns.  ---------------------------------------------------------------- *)

(* While the clients take turns at most one of them is inside a frame, and *)
(* the parser has collected exactly what that client has sent.             *)
InStep(c) ==
  /\ locker = pos[c] + 1 /\ gcount = pos[c]
  /\ \A i \in 0 .. Cap - 1 : i < pos[c] => gbuf[i] = sentBytes[c][i]
  /\ pos[c] >= 2 => pktSize = LengthOf(c) + 3

TurnInv ==
  turns =>
    /\ \A c, d \in Clients : pos[c] # 0 /\ pos[d] # 0 => c = d
    /\ (\A c \in Clients : pos[c] = 0) => locker = 0
    /\ \A c \in Clients : pos[c] # 0 => InStep(c)
    /\ written = framesSent /\ packet = lastFrame

(* A byte inside the frame of the client whose turn it is is collected.    *)
LEMMA CollectKeeps ==
  ASSUME ParserInv, SourceInv, TurnInv, turns, NEW c \in Clients,
         NEW b \in Byte, SendInside(c, b), pos[c] <= MaxLen + 1,
         \A d \in Clients \ {c} : pos[d] = 0,
         Collect(b), Count(b) = pos[c], Phase(b) = pos[c] + 1,
         pos[c] = 1 => b <= MaxLen
  PROVE  TurnInv'
<1> USE CapAssumption, WAssumption, LenAssumption
<1>1. /\ SourceOK'
      /\ \A d \in Clients : pos'[d] = IF d = c THEN pos[c] + 1 ELSE pos[d]
      /\ sentBytes'[c] = [sentBytes[c] EXCEPT ![pos[c]] = b]
      /\ pos[c] \in 0 .. Cap - 1
  BY SendInsideKeeps DEF SourceInv
<1>2. /\ gbuf'[pos[c]] = b
      /\ \A i \in 0 .. Cap - 1 : i # pos[c] => gbuf'[i] = gbuf[i]
      /\ pktSize' = Size(b)
  BY <1>1, StoreByte DEF Collect, ParserInv
<1>3. \A i \in 0 .. Cap - 1 :
        sentBytes'[c][i] = IF i = pos[c] THEN b ELSE sentBytes[c][i]
  BY <1>1 DEF SourceInv, SourceOK
<1>4. pos[c] # 0 => InStep(c)
  BY DEF TurnInv
<1>5. locker' = pos'[c] + 1 /\ gcount' = pos'[c]
  BY <1>1 DEF Collect
<1>6. \A i \in 0 .. Cap - 1 : i < pos'[c] => gbuf'[i] = sentBytes'[c][i]
  BY <1>1, <1>2, <1>3, <1>4 DEF InStep
<1>7. pos'[c] >= 2 => pktSize' = sentBytes'[c][1] + 3
  <2>1. CASE pos[c] = 0
    BY <1>1, <2>1
  <2>2. CASE pos[c] = 1
    <3>1. Wrap(b + 3) = b + 3
      BY <2>2, WrapByte DEF Byte
    <3> QED BY <1>2, <1>3, <2>2, <3>1 DEF Size
  <2>3. CASE pos[c] >= 2
    BY <1>1, <1>2, <1>3, <1>4, <2>3 DEF Size, InStep, LengthOf
  <2> QED BY <1>1, <2>1, <2>2, <2>3
<1>8. InStep(c)'
  BY <1>5, <1>6, <1>7 DEF InStep, LengthOf
<1>9. UNCHANGED <<turns, framesSent, lastFrame, packet, written>>
  BY DEF SendInside, Collect
<1>10. pos'[c] # 0 /\ \A d \in Clients \ {c} : pos'[d] = 0
  BY <1>1
<1> QED
  BY <1>8, <1>9, <1>10 DEF TurnInv

(* Every step keeps the parser in the frame of the client whose turn it is.*)
LEMMA TurnStep ==
  ParserInv /\ SourceInv /\ TurnInv /\ Next => TurnInv'
<1> SUFFICES ASSUME ParserInv, SourceInv, TurnInv, Next, turns' PROVE TurnInv'
  BY DEF TurnInv
<1> USE CapAssumption, WAssumption, LenAssumption
<1>1. PICK c \in Clients : SendStart(c) \/ SendLength(c) \/ SendData(c)
                           \/ SendStop(c) \/ SendNoise(c)
  BY DEF Next
<1>a. turns
  BY <1>1 DEF SendStart, SendLength, SendData, SendStop, SendNoise, SendInside,
              source
<1>b. \A d \in Clients : pos[d] \in 0 .. MaxLen + 2
  BY DEF SourceInv, SourceOK
<1>c. locker \in Nat /\ gcount \in Nat /\ pktSize \in Byte
  BY DEF ParserInv, ParserOK, Byte
<1>d. \A d \in Clients : pos[d] # 0 => InStep(d)
  BY <1>a DEF TurnInv
<1>e. pos[c] # 0 => \A d \in Clients \ {c} : pos[d] = 0
  BY <1>a DEF TurnInv
<1>2. CASE SendStart(c)
  <2>1. /\ SendInside(c, Start) /\ Start \in Byte
        /\ \A d \in Clients : pos[d] = 0
    BY <1>2, <1>a, MarksAssumption DEF SendStart, MayStart
  <2>2. locker = 0 /\ pktSize # 1
    BY <1>a, <2>1 DEF TurnInv, ParserInv, PhaseInv
  <2>3. Opens(Start) /\ Count(Start) = 0 /\ Phase(Start) = 1 /\ ~Ends(Start)
    BY <1>c, <2>2 DEF Opens, Count, Phase, Ends, Size
  <2>4. Collect(Start)
    BY <2>1, <2>3 DEF SendInside, CallBack, Skip, Reject, Accept, Inside
  <2> QED BY <1>a, <2>1, <2>3, <2>4, CollectKeeps
<1>3. CASE SendLength(c)
  <2>1. PICK n \in 0 .. MaxLen : pos[c] = 1 /\ SendInside(c, n)
    BY <1>3 DEF SendLength
  <2>2. locker = 2 /\ gcount = 1 /\ n \in Byte
    BY <1>d, <2>1 DEF InStep, Byte
  <2>3. Count(n) = 1 /\ Phase(n) = 2 /\ Inside(n)
    BY <2>2 DEF Opens, Count, Phase, Inside
  <2>4. Wrap(n + 3) = n + 3
    BY <2>2, WrapByte DEF Byte
  <2>5. ~Ends(n)
    BY <2>3, <2>4 DEF Ends, Size
  <2>6. Collect(n)
    BY <2>1, <2>3, <2>5 DEF SendInside, CallBack, Skip, Reject, Accept
  <2> QED BY <1>a, <1>e, <2>1, <2>2, <2>3, <2>6, CollectKeeps
<1>4. CASE SendData(c)
  <2>1. PICK b \in Data : /\ SendInside(c, b)
                          /\ pos[c] >= 2 /\ pos[c] < LengthOf(c) + 2
    BY <1>4 DEF SendData
  <2>2. b \in Byte /\ LengthOf(c) \in 0 .. MaxLen /\ pos[c] <= MaxLen + 1
    BY <1>b, <2>1, DataAssumption DEF SourceInv
  <2>3. locker = pos[c] + 1 /\ gcount = pos[c] /\ pktSize = LengthOf(c) + 3
    BY <1>d, <2>1 DEF InStep
  <2>4. Count(b) = pos[c] /\ Phase(b) = pos[c] + 1 /\ Inside(b)
    BY <1>b, <2>1, <2>3 DEF Opens, Count, Phase, Inside
  <2>5. ~Ends(b)
    BY <1>b, <2>1, <2>2, <2>3, <2>4 DEF Ends, Size
  <2>6. Collect(b)
    BY <2>1, <2>4, <2>5 DEF SendInside, CallBack, Skip, Reject, Accept
  <2> QED BY <1>a, <1>b, <1>e, <2>1, <2>2, <2>4, <2>6, CollectKeeps
<1>5. CASE SendStop(c)
  <2>1. /\ CallBack(c, Stop) /\ pos[c] >= 2 /\ pos[c] = LengthOf(c) + 2
        /\ Stop \in Byte /\ LengthOf(c) \in 0 .. MaxLen
    BY <1>5, MarksAssumption DEF SendStop, SourceInv
  <2>2. /\ locker = pos[c] + 1 /\ gcount = pos[c] /\ pktSize = LengthOf(c) + 3
        /\ \A i \in 0 .. Cap - 1 : i < pos[c] => gbuf[i] = sentBytes[c][i]
    BY <1>d, <2>1 DEF InStep
  <2>3. Count(Stop) = pos[c] /\ Phase(Stop) = pos[c] + 1 /\ Inside(Stop)
    BY <2>1, <2>2 DEF Opens, Count, Phase, Inside
  <2>4. Ends(Stop)
    BY <1>b, <2>1, <2>2, <2>3 DEF Ends, Size
  <2>5. Accept(c, Stop)
    BY <2>1, <2>3, <2>4 DEF CallBack, Skip, Collect, Reject
  <2>6. \A i \in 0 .. Cap - 1 : i < pos[c] => gbuf'[i] = sentBytes[c][i]
    <3>1. \A i \in 0 .. Cap - 1 : i # pos[c] => gbuf'[i] = gbuf[i]
      BY <1>b, <2>1, <2>3, <2>5, StoreByte DEF Accept, ParserInv
    <3> QED BY <1>b, <2>2, <3>1
  <2>7. gbuf'[1] = LengthOf(c)
    BY <2>1, <2>6 DEF LengthOf
  <2>8. Wrap(gbuf'[1] + 1) = LengthOf(c) + 1
    BY <2>1, <2>7, WrapByte DEF Byte
  <2>9. Payload(gbuf', LengthOf(c)) = Payload(sentBytes[c], LengthOf(c))
    BY <2>1, <2>6 DEF Payload
  <2>10. packet' = lastFrame'
    BY <1>5, <2>1, <2>3, <2>5, <2>7, <2>8, <2>9 DEF SendStop, Accept
  <2>11. written' = framesSent' /\ locker' = 0
    BY <1>5, <1>a, <2>5 DEF SendStop, Accept, Reset, TurnInv
  <2>12. \A d \in Clients : pos'[d] = 0
    BY <1>5, <1>b, <1>e, <2>1 DEF SendStop, SourceInv, SourceOK
  <2> QED BY <2>10, <2>11, <2>12 DEF TurnInv
<1>6. CASE SendNoise(c)
  <2>1. PICK b \in Data \ {Start} : CallBack(c, b)
    BY <1>6 DEF SendNoise
  <2>2. locker = 0
    BY <1>6, <1>a DEF SendNoise, MayStart, TurnInv
  <2>3. UNCHANGED vars
    BY <1>6, <2>1, <2>2
       DEF SendNoise, vars, CallBack, Skip, Collect, Reject, Accept, Room,
           Inside, Opens
  <2> QED BY <2>3 DEF vars, parser, source, TurnInv, InStep, LengthOf
<1> QED
  BY <1>1, <1>2, <1>3, <1>4, <1>5, <1>6

(* Frames sent in turns reach the FIFO once, unchanged and under their own *)
(* client's number.                                                        *)
THEOREM DeliveredAlways == Spec => []Delivered
<1>1. Init => TurnInv
  BY DEF Init, TurnInv
<1>2. ParserInv /\ SourceInv /\ TurnInv /\ [Next]_vars => TurnInv'
  <2>1. TurnInv /\ UNCHANGED vars => TurnInv'
    BY DEF vars, parser, source, TurnInv, InStep, LengthOf
  <2> QED BY <2>1, TurnStep
<1>3. TurnInv => Delivered
  BY DEF TurnInv, Delivered
<1> QED
  BY <1>1, <1>2, <1>3, InvCorrect, PTL DEF Spec
=============================================================================
