------------------------- MODULE LcdPrograms_proofs --------------------------
(***************************************************************************)
(* Theorems about the LCD1602 boards and the programs that drive them, for *)
(* any number of threads, texts of any length, any faults and any starts.  *)
(***************************************************************************)
EXTENDS LcdPrograms, SequenceTheorems, TLAPS

(* The items of the calls that may run beside others: characters, clear,   *)
(* and moves to a place that is looked at.                                 *)
Moves == {Address(x, y) : x \in Columns, y \in {0, 1}}
Plain == {i \in Items : i.kind = "data" \/ (i.kind = "cmd" /\ i.byte \in {1} \cup Moves)}

(* The calls themselves.                                                   *)
Strings  == {DispStr(x, y, s) : x \in Columns, y \in {0, 1}, s \in Texts}
LibCalls == {<<Cmd(1)>>} \cup Strings
            \cup {LCD1602DispLines(s1, s2) : s1 \in Texts, s2 \in Texts}

LEMMA MovesRange == \A b \in Moves : b \in 128 .. 167 \/ b \in 192 .. 231
BY ColumnsAssumption DEF Moves, Address

LEMMA PlainItems ==
  ASSUME NEW i \in Plain
  PROVE  /\ i \in Items /\ i.kind \in {"cmd", "data"} /\ i.byte \in 0 .. 255
         /\ i.kind = "cmd" => i.byte = 1 \/ i.byte \in 128 .. 167 \/ i.byte \in 192 .. 231
BY MovesRange DEF Plain, Items

(* The first half of a plain item is no function set of eight bits, so     *)
(* that the controller waits for a high half after the second.             *)
LEMMA PlainHalves ==
  ASSUME NEW i \in Plain
  PROVE  NextPhases(Half(Pins(i, 0)), Half(Pins(i, 5))) = {"high"}
<1>1. i.byte \in 0 .. 255 /\ (i.kind = "cmd" => i.byte \notin 48 .. 63)
  BY PlainItems
<1>2. i.kind # "data" => i.byte \div 16 # 3
  BY <1>1, PlainItems
<1>3. CASE i.kind = "data"
  <2>1. Half(Pins(i, 0)).rs /\ Half(Pins(i, 5)).rs
    BY <1>3 DEF Half, Pins
  <2> QED BY <2>1 DEF NextPhases
<1>4. CASE i.kind # "data"
  <2>1. Half(Pins(i, 0)).nib = i.byte \div 16
    BY DEF Half, Pins
  <2> QED BY <1>2, <1>4, <2>1 DEF NextPhases
<1> QED BY <1>3, <1>4

Nibble == [rs : BOOLEAN, nib : 0 .. 15]
PinStates == [rs : BOOLEAN, en : BOOLEAN, nib : 0 .. 15]

LEMMA PinsFacts ==
  ASSUME NEW i \in Items, NEW k \in 0 .. 5
  PROVE  /\ Pins(i, k) \in PinStates /\ Half(Pins(i, k)) \in Nibble
         /\ Pins(i, k).en <=> k \in {1, 4}
         /\ k < 3 => Half(Pins(i, k)) = Half(Pins(i, 0))
         /\ k >= 3 => Half(Pins(i, k)) = Half(Pins(i, 5))
<1>1. i.byte \in 0 .. 255
  BY DEF Items
<1>2. i.byte \div 16 \in 0 .. 15 /\ i.byte % 16 \in 0 .. 15
  BY <1>1
<1>3. (k % 3 = 1) <=> k \in {1, 4}
  OBVIOUS
<1>4. Pins(i, k) \in PinStates /\ (Pins(i, k).en <=> k \in {1, 4})
  BY <1>2, <1>3 DEF Pins, PinStates
<1>5. Half(Pins(i, k)) \in Nibble
  BY <1>4 DEF Half, PinStates, Nibble
<1>6. k < 3 => Half(Pins(i, k)) = Half(Pins(i, 0))
  BY DEF Half, Pins
<1>7. k >= 3 => Half(Pins(i, k)) = Half(Pins(i, 5))
  BY DEF Half, Pins
<1> QED BY <1>4, <1>5, <1>6, <1>7

LEMMA TransferCounts ==
  ASSUME NEW i \in Items
  PROVE  /\ i.kind \in {"cmd", "data"} => Transfers(i) = 6
         /\ i.kind = "cmd4" => Transfers(i) = 3
         /\ i.kind \notin {"cmd", "data", "cmd4"} => Transfers(i) = 1
BY DEF Transfers

-----------------------------------------------------------------------------
(* What an initialisation transfers, and what is left of it.               *)
BootItem ==
  <<Reg("iocon"), Reg("iodira"), Reg("iodirb"), Cmd4(48), Cmd4(48), Cmd4(48), Cmd4(32),
    Cmd(40), Cmd(12), Cmd(6), Cmd(2)>>

BootRest(n) == [i \in 1 .. n |-> BootItem[11 - n + i]]

LEMMA BootItems ==
  /\ BootItem \in [1 .. 11 -> Items]
  /\ BootItem[1] = Reg("iocon") /\ BootItem[2] = Reg("iodira") /\ BootItem[3] = Reg("iodirb")
  /\ BootItem[4] = Cmd4(48) /\ BootItem[5] = Cmd4(48) /\ BootItem[6] = Cmd4(48)
  /\ BootItem[7] = Cmd4(32)
  /\ BootItem[8] = Cmd(40) /\ BootItem[9] = Cmd(12) /\ BootItem[10] = Cmd(6)
  /\ BootItem[11] = Cmd(2)
BY DEF BootItem, Items, Reg, Cmd, Cmd4

LEMMA BootFields ==
  /\ BootItem[1].kind = "iocon" /\ BootItem[2].kind = "iodira" /\ BootItem[3].kind = "iodirb"
  /\ BootItem[4].kind = "cmd4" /\ BootItem[5].kind = "cmd4" /\ BootItem[6].kind = "cmd4"
  /\ BootItem[4].byte = 48 /\ BootItem[5].byte = 48 /\ BootItem[6].byte = 48
  /\ BootItem[7].kind = "cmd4" /\ BootItem[7].byte = 32
  /\ BootItem[8].kind = "cmd"  /\ BootItem[8].byte = 40
  /\ BootItem[9].kind = "cmd"  /\ BootItem[9].byte = 12
  /\ BootItem[10].kind = "cmd" /\ BootItem[10].byte = 6
  /\ BootItem[11].kind = "cmd" /\ BootItem[11].byte = 2
BY DEF BootItem, Reg, Cmd, Cmd4

LEMMA NoItems == ASSUME NEW S, NEW w \in Seq(S), Len(w) = 0 PROVE w = <<>>
BY EmptySeq

LEMMA BootRests ==
  ASSUME NEW n \in 1 .. 11
  PROVE  /\ BootRest(n) \in Seq(Items) /\ Len(BootRest(n)) = n /\ BootRest(n) # <<>>
         /\ Head(BootRest(n)) = BootItem[12 - n]
         /\ n > 1 => Tail(BootRest(n)) = BootRest(n - 1)
         /\ n = 1 => Tail(BootRest(n)) = <<>>
<1>1. BootRest(n) \in [1 .. n -> Items]
  BY BootItems DEF BootRest
<1>2. BootRest(n) \in Seq(Items) /\ Len(BootRest(n)) = n
  BY <1>1
<1>3. BootRest(n) # <<>> /\ Head(BootRest(n)) = BootItem[12 - n]
  BY <1>1, <1>2 DEF BootRest
<1>4. /\ Tail(BootRest(n)) \in Seq(Items) /\ Len(Tail(BootRest(n))) = n - 1
      /\ \A i \in 1 .. n - 1 : Tail(BootRest(n))[i] = BootRest(n)[i + 1]
  BY <1>2, <1>3, HeadTailProperties
<1>5. ASSUME n > 1 PROVE Tail(BootRest(n)) = BootRest(n - 1)
  <2>1. BootRest(n - 1) \in Seq(Items) /\ Len(BootRest(n - 1)) = n - 1
    <3>1. BootRest(n - 1) \in [1 .. n - 1 -> Items]
      BY <1>5, BootItems DEF BootRest
    <3> QED BY <1>5, <3>1
  <2>2. \A i \in 1 .. n - 1 : BootRest(n)[i + 1] = BootRest(n - 1)[i]
    BY <1>5 DEF BootRest
  <2> QED BY <1>4, <2>1, <2>2, SeqEqual
<1>6. ASSUME n = 1 PROVE Tail(BootRest(n)) = <<>>
  <2> DEFINE w == Tail(BootRest(n))
  <2>1. w \in Seq(Items) /\ Len(w) = 0
    BY <1>4, <1>6
  <2> HIDE DEF w
  <2>2. w = <<>>
    BY <2>1, NoItems
  <2> QED BY <2>2 DEF w
<1> QED BY <1>2, <1>3, <1>5, <1>6

LEMMA Tuples ==
  ASSUME NEW S, NEW a \in S, NEW b \in S, NEW c \in S, NEW d \in S
  PROVE  /\ <<a>> \in Seq(S) /\ Len(<<a>>) = 1 /\ <<a>>[1] = a
         /\ <<a, b>> \in Seq(S) /\ Len(<<a, b>>) = 2 /\ <<a, b>>[1] = a /\ <<a, b>>[2] = b
         /\ <<a, b, c>> \in Seq(S) /\ Len(<<a, b, c>>) = 3
         /\ <<a, b, c>>[1] = a /\ <<a, b, c>>[2] = b /\ <<a, b, c>>[3] = c
         /\ <<a, b, c, d>> \in Seq(S) /\ Len(<<a, b, c, d>>) = 4
         /\ <<a, b, c, d>>[1] = a /\ <<a, b, c, d>>[2] = b
         /\ <<a, b, c, d>>[3] = c /\ <<a, b, c, d>>[4] = d
OBVIOUS

LEMMA BootCalls == LCD1602KeyInit = BootRest(11) /\ LCD1602Init = BootRest(8)
<1>00. /\ Reg("iocon") \in Items /\ Reg("iodira") \in Items /\ Reg("iodirb") \in Items
       /\ Cmd4(48) \in Items /\ Cmd4(32) \in Items
       /\ Cmd(40) \in Items /\ Cmd(12) \in Items /\ Cmd(6) \in Items /\ Cmd(2) \in Items
  BY DEF Items, Reg, Cmd, Cmd4
<1>m. /\ mcpInit \in Seq(Items) /\ Len(mcpInit) = 3
      /\ mcpInit[1] = Reg("iocon") /\ mcpInit[2] = Reg("iodira") /\ mcpInit[3] = Reg("iodirb")
  BY <1>00, Tuples DEF mcpInit
<1>p. /\ PowerUp \in Seq(Items) /\ Len(PowerUp) = 4
      /\ PowerUp[1] = Cmd4(48) /\ PowerUp[2] = Cmd4(48) /\ PowerUp[3] = Cmd4(48)
      /\ PowerUp[4] = Cmd4(32)
  BY <1>00, Tuples DEF PowerUp
<1>s. /\ Setup \in Seq(Items) /\ Len(Setup) = 4
      /\ Setup[1] = Cmd(40) /\ Setup[2] = Cmd(12) /\ Setup[3] = Cmd(6) /\ Setup[4] = Cmd(2)
  BY <1>00, Tuples DEF Setup
<1>i. /\ \A i \in 1 .. 3 : mcpInit[i] = BootItem[i]
      /\ \A i \in 1 .. 4 : PowerUp[i] = BootItem[i + 3]
      /\ \A i \in 1 .. 4 : Setup[i] = BootItem[i + 7]
  BY <1>m, <1>p, <1>s, BootItems
<1>1. /\ BootRest(8) \in Seq(Items) /\ Len(BootRest(8)) = 8
      /\ BootRest(11) \in Seq(Items) /\ Len(BootRest(11)) = 11
  BY BootRests
<1>2. /\ LCD1602Init \in Seq(Items) /\ Len(LCD1602Init) = 8
      /\ \A i \in 1 .. 8 : LCD1602Init[i] = IF i <= 4 THEN PowerUp[i] ELSE Setup[i - 4]
  <2>1. /\ LCD1602Init \in Seq(Items) /\ Len(LCD1602Init) = Len(PowerUp) + Len(Setup)
        /\ \A i \in 1 .. Len(PowerUp) + Len(Setup) :
             LCD1602Init[i] = IF i <= Len(PowerUp) THEN PowerUp[i] ELSE Setup[i - Len(PowerUp)]
    BY <1>p, <1>s, ConcatProperties DEF LCD1602Init
  <2> QED BY <2>1, <1>p, <1>s
<1>3. \A i \in 1 .. 8 : LCD1602Init[i] = BootRest(8)[i]
  <2> SUFFICES ASSUME NEW i \in 1 .. 8 PROVE LCD1602Init[i] = BootRest(8)[i]
    OBVIOUS
  <2>1. BootRest(8)[i] = BootItem[i + 3]
    BY DEF BootRest
  <2>2. CASE i <= 4 BY <1>i, <1>2, <2>1, <2>2
  <2>3. CASE i > 4
    <3>1. i - 4 \in 1 .. 4 /\ (i - 4) + 7 = i + 3
      BY <2>3
    <3> QED BY <1>i, <1>2, <2>1, <2>3, <3>1
  <2> QED BY <2>2, <2>3
<1>4. LCD1602Init = BootRest(8)
  BY <1>1, <1>2, <1>3, SeqEqual
<1> DEFINE mp == mcpInit \o PowerUp
<1> DEFINE all == mp \o Setup
<1>5. /\ mp \in Seq(Items) /\ Len(mp) = Len(mcpInit) + Len(PowerUp)
      /\ \A i \in 1 .. Len(mcpInit) + Len(PowerUp) :
           mp[i] = IF i <= Len(mcpInit) THEN mcpInit[i] ELSE PowerUp[i - Len(mcpInit)]
  BY <1>m, <1>p, ConcatProperties
<1>6. LCD1602KeyInit = all
  BY DEF LCD1602KeyInit
<1> HIDE DEF mp
<1>7. /\ all \in Seq(Items) /\ Len(all) = Len(mp) + Len(Setup)
      /\ \A i \in 1 .. Len(mp) + Len(Setup) :
           all[i] = IF i <= Len(mp) THEN mp[i] ELSE Setup[i - Len(mp)]
  <2>1. mp \in Seq(Items) /\ Setup \in Seq(Items)
    BY <1>5, <1>s
  <2> QED BY ONLY <2>1, ConcatProperties
<1> HIDE DEF all
<1>8. /\ all \in Seq(Items) /\ Len(all) = 11
      /\ \A i \in 1 .. 3 : all[i] = mcpInit[i]
      /\ \A i \in 4 .. 7 : all[i] = PowerUp[i - 3]
      /\ \A i \in 8 .. 11 : all[i] = Setup[i - 7]
  BY <1>5, <1>7, <1>m, <1>p, <1>s
<1>9. \A i \in 1 .. 11 : all[i] = BootRest(11)[i]
  <2> SUFFICES ASSUME NEW i \in 1 .. 11 PROVE all[i] = BootRest(11)[i]
    OBVIOUS
  <2>1. BootRest(11)[i] = BootItem[i]
    <3>1. BootRest(11)[i] = BootItem[11 - 11 + i]
      BY DEF BootRest
    <3>2. 11 - 11 + i = i
      OBVIOUS
    <3> HIDE DEF BootRest
    <3> QED BY <3>1, <3>2
  <2>2. CASE i \in 1 .. 3 BY <1>i, <1>8, <2>1, <2>2
  <2>3. CASE i \in 4 .. 7
    <3>1. i - 3 \in 1 .. 4 /\ (i - 3) + 3 = i
      BY <2>3
    <3>2. PowerUp[i - 3] = BootItem[i]
      BY <1>i, <3>1
    <3> QED BY <1>8, <2>1, <2>3, <3>2
  <2>4. CASE i \in 8 .. 11
    <3>1. i - 7 \in 1 .. 4 /\ (i - 7) + 7 = i
      BY <2>4
    <3>2. Setup[i - 7] = BootItem[i]
      BY <1>i, <3>1
    <3> QED BY <1>8, <2>1, <2>4, <3>2
  <2> QED BY <2>2, <2>3, <2>4
<1>10. all = BootRest(11)
  <2>1. /\ all \in Seq(Items) /\ BootRest(11) \in Seq(Items)
        /\ Len(all) = Len(BootRest(11)) /\ \A i \in 1 .. Len(all) : all[i] = BootRest(11)[i]
    BY <1>1, <1>8, <1>9
  <2> QED BY ONLY <2>1, SeqEqual
<1> QED BY <1>4, <1>6, <1>10

-----------------------------------------------------------------------------
(* The invariant of the board.  Outside an initialisation every call is of *)
(* plain items or reads the keys; inside, one thread is at some item of it *)
(* and the others have nothing to transfer.                                *)
LcdTypes ==
  /\ want \in [Threads -> Seq(Items)] /\ step \in [Threads -> 0 .. 5]
  /\ board \in {"mcp", "pcf"}
  /\ booting \in BOOLEAN /\ trusted \in BOOLEAN /\ outputs \in BOOLEAN
  /\ port \in PinStates /\ phase \in {"wide", "high", "low"} /\ upper \in Nibble

Placed == \A t \in Threads : IF Idle(t) THEN step[t] = 0 ELSE step[t] < Transfers(Item(t))

Reading(w)  == w \in {LCD1602GetKey, <<Reg("read")>>}
Wanted(t) ==
  \/ want[t] \in Seq(Plain)
  \/ t = Key /\ Reading(want[t])
  \/ booting /\ \E n \in 1 .. 11 : want[t] = BootRest(n)

(* Three function sets of eight bits bring the controller to wait for a    *)
(* whole byte, wherever it was: high, low or wide.                         *)
Three == [rs |-> FALSE, nib |-> 3]

PortAt(i, k) == IF k = 0 THEN ~port.en ELSE port = Pins(i, k - 1)

PhaseAt(n, k) ==
  /\ n = 7 => (phase = "low" => upper = Three)
  /\ n = 6 => phase # "high" /\ (phase = "low" => upper = Three)
  /\ n = 5 => phase = "wide"
  /\ n <= 4 => IF k < 3 THEN phase = "high"
               ELSE phase = "low" /\ upper = Half(Pins(BootItem[12 - n], 0))

Boots(t, n) ==
  /\ want[t] = BootRest(n)
  /\ \A u \in Threads : u # t => Idle(u)
  /\ n < 8 \/ (n = 8 /\ step[t] > 0) => PortAt(BootItem[12 - n], step[t])
  /\ outputs => PhaseAt(n, step[t])

BootInv == booting => ~trusted /\ \E t \in Threads, n \in 1 .. 11 : Boots(t, n)

(* While trusted, the controller is where the one thread inside a byte     *)
(* has brought it.                                                         *)
InByte(t) ==
  Inside(t) =>
    /\ port = Pins(Item(t), step[t] - 1)
    /\ step[t] = 2 => phase = "high"
    /\ step[t] > 2 => phase = "low" /\ upper = Half(Pins(Item(t), 0))

Steady ==
  trusted =>
    /\ outputs /\ ~booting
    /\ \A t, u \in Threads : Inside(t) /\ Inside(u) => t = u
    /\ \A t \in Threads : InByte(t)
    /\ (\A t \in Threads : ~Inside(t)) => phase = "high" /\ ~port.en

LcdInv == LcdTypes /\ Placed /\ (\A t \in Threads : Wanted(t)) /\ BootInv /\ Steady

LEMMA LcdInitInv == LcdInit => LcdInv
<1> SUFFICES ASSUME LcdInit PROVE LcdInv
  OBVIOUS
<1>1. /\ want = [t \in Threads |-> <<>>] /\ step = [t \in Threads |-> 0]
      /\ ~booting /\ booting \in BOOLEAN /\ trusted = FALSE
      /\ outputs \in BOOLEAN /\ board \in {"mcp", "pcf"} /\ phase = "wide"
      /\ port = [rs |-> FALSE, en |-> FALSE, nib |-> 0] /\ upper = [rs |-> FALSE, nib |-> 0]
  BY DEF LcdInit
<1>2. <<>> \in Seq(Items) /\ <<>> \in Seq(Plain)
  BY EmptySeq
<1>3. port \in PinStates /\ upper \in Nibble
  BY <1>1 DEF PinStates, Nibble
<1>4. \A t \in Threads : want[t] = <<>> /\ step[t] = 0
  BY <1>1
<1>5. LcdTypes
  <2>1. want \in [Threads -> Seq(Items)] /\ step \in [Threads -> 0 .. 5]
    BY <1>1, <1>2
  <2>2. trusted \in BOOLEAN
    BY <1>1
  <2> QED BY <1>1, <1>3, <2>1, <2>2 DEF LcdTypes
<1> QED BY <1>1, <1>2, <1>4, <1>5 DEF LcdInv, Placed, Wanted, BootInv, Steady, Idle

LEMMA PlainSeqs ==
  ASSUME NEW w \in Seq(Plain)
  PROVE  /\ w \in Seq(Items)
         /\ w # <<>> => Head(w) \in Plain /\ Tail(w) \in Seq(Plain) /\ Len(w) > 0
<1>1. Plain \subseteq Items
  BY DEF Plain
<1> QED BY <1>1, HeadTailProperties, EmptySeq

LEMMA ReadSeqs ==
  ASSUME NEW w, Reading(w)
  PROVE  /\ w # <<>> /\ Head(w) \in {Reg("point"), Reg("read")} /\ w \in Seq(Items)
         /\ Head(w) = Reg("point") => Tail(w) = <<Reg("read")>>
         /\ Head(w) = Reg("read") => Tail(w) = <<>>
<1> DEFINE p == Reg("point")
<1> DEFINE r == Reg("read")
<1>0. p \in Items /\ r \in Items /\ p # r
  BY DEF Reg, Items
<1>1. w = <<p, r>> \/ w = <<r>>
  BY DEF Reading, LCD1602GetKey
<1> HIDE DEF p, r
<1>2. CASE w = <<r>>
  <2>1. w \in Seq(Items) /\ Len(w) = 1 /\ w[1] = r
    BY <1>0, <1>2, Tuples
  <2>2. w # <<>> /\ Head(w) = r
    <3>1. w # <<>>
      <4>1. Len(<<>>) = 0
        OBVIOUS
      <4>2. Len(w) # 0
        BY <2>1
      <4> QED BY <4>1, <4>2, Zenon
    <3> QED BY <2>1, <3>1, HeadTailProperties
  <2>3. Tail(w) \in Seq(Items) /\ Len(Tail(w)) = 0
    BY <2>1, <2>2, HeadTailProperties
  <2>4. Tail(w) = <<>>
    BY <2>3, NoItems
  <2> QED BY <1>0, <2>1, <2>2, <2>4 DEF p, r
<1>3. CASE w = <<p, r>>
  <2>1. w \in Seq(Items) /\ Len(w) = 2 /\ w[1] = p /\ w[2] = r
    BY <1>0, <1>3, Tuples
  <2>2. w # <<>> /\ Head(w) = p
    <3>1. w # <<>>
      <4>1. Len(<<>>) = 0
        OBVIOUS
      <4>2. Len(w) # 0
        BY <2>1
      <4> QED BY <4>1, <4>2, Zenon
    <3> QED BY <2>1, <3>1, HeadTailProperties
  <2>3. Tail(w) \in Seq(Items) /\ Len(Tail(w)) = 1 /\ Tail(w)[1] = r
    <3>1. w \in Seq(Items) /\ w # <<>> /\ Len(w) = 2 /\ w[2] = r
      BY <2>1, <2>2
    <3>2. /\ Tail(w) \in Seq(Items) /\ Len(Tail(w)) = Len(w) - 1
          /\ \A i \in 1 .. Len(Tail(w)) : Tail(w)[i] = w[i + 1]
      BY ONLY <3>1, HeadTailProperties
    <3>3. Len(Tail(w)) = 1
      BY ONLY <3>1, <3>2
    <3>4. \A i \in 1 .. Len(Tail(w)), j \in Int : j = i + 1 => Tail(w)[i] = w[j]
      BY ONLY <3>2
    <3>5. Tail(w)[1] = w[2]
      BY ONLY <3>3, <3>4
    <3> QED BY ONLY <3>1, <3>2, <3>3, <3>5
  <2> DEFINE v == <<r>>
  <2>4. v \in Seq(Items) /\ Len(v) = 1 /\ v[1] = r
    BY <1>0, Tuples
  <2> HIDE DEF v
  <2>5. Len(Tail(w)) = Len(v) /\ \A i \in 1 .. Len(Tail(w)) : Tail(w)[i] = v[i]
    <3>1. Len(Tail(w)) = Len(v) /\ Len(Tail(w)) = 1 /\ Tail(w)[1] = v[1]
      BY ONLY <2>3, <2>4
    <3>2. \A i \in 1 .. Len(Tail(w)) : i = 1
      BY ONLY <3>1
    <3> QED BY ONLY <3>1, <3>2
  <2>6. Tail(w) = v
    BY ONLY <2>3, <2>4, <2>5, SeqEqual
  <2> QED BY <1>0, <2>1, <2>2, <2>6 DEF p, r, v
<1> QED BY <1>1, <1>2, <1>3

(* What the head of a call can be.                                         *)
LEMMA Heads ==
  ASSUME LcdInv, NEW t \in Threads, ~Idle(t)
  PROVE  /\ Item(t) \in Items /\ want[t] \in Seq(Items) /\ step[t] \in 0 .. 5
         /\ step[t] < Transfers(Item(t))
         /\ ~booting /\ OnPins(t) => want[t] \in Seq(Plain) /\ Item(t) \in Plain
         /\ ~booting /\ ~OnPins(t) => t = Key /\ Reading(want[t])
         /\ booting => \E n \in 1 .. 11 : Boots(t, n)
<1>1. want[t] \in Seq(Items) /\ step[t] \in 0 .. 5 /\ step[t] < Transfers(Item(t)) /\ Wanted(t)
  BY DEF LcdInv, LcdTypes, Placed
<1>2. Item(t) \in Items
  BY <1>1, HeadTailProperties DEF Item, Idle
<1>3. want[t] \in Seq(Plain) => Item(t) \in Plain /\ Item(t).kind \in {"cmd", "data"}
  BY PlainSeqs, PlainItems DEF Item, Idle
<1>4. Reading(want[t]) => Item(t).kind \in {"point", "read"}
  BY ReadSeqs DEF Item, Reg
<1>5. booting => \E n \in 1 .. 11 : Boots(t, n)
  BY DEF LcdInv, BootInv, Boots
<1> QED BY <1>1, <1>2, <1>3, <1>4, <1>5 DEF Wanted, OnPins

-----------------------------------------------------------------------------
(* One transfer done: the item goes on or the next one begins.             *)
LEMMA Advanced ==
  ASSUME LcdInv, NEW t \in Threads, ~Idle(t), Advance(t)
  PROVE  /\ want' \in [Threads -> Seq(Items)] /\ step' \in [Threads -> 0 .. 5] /\ Placed'
         /\ \A u \in Threads : u # t => want'[u] = want[u] /\ step'[u] = step[u]
         /\ Last(t) => want'[t] = Tail(want[t]) /\ step'[t] = 0
         /\ ~Last(t) => want'[t] = want[t] /\ step'[t] = step[t] + 1
<1>0. /\ want \in [Threads -> Seq(Items)] /\ step \in [Threads -> 0 .. 5] /\ Placed
      /\ want[t] \in Seq(Items) /\ want[t] # <<>> /\ Tail(want[t]) \in Seq(Items)
  BY HeadTailProperties DEF LcdInv, LcdTypes, Idle
<1>1. \A i \in Items : Transfers(i) \in 1 .. 6
  BY TransferCounts DEF Items
<1>2. \A u \in Threads : want'[u] # <<>> /\ want' \in [Threads -> Seq(Items)] => Item(u)' \in Items
  BY HeadTailProperties DEF Item
<1>3. CASE Last(t)
  <2>1. want' = [want EXCEPT ![t] = Tail(want[t])] /\ step' = [step EXCEPT ![t] = 0]
    BY <1>3 DEF Advance
  <2>2. /\ want' \in [Threads -> Seq(Items)] /\ step' \in [Threads -> 0 .. 5]
        /\ \A u \in Threads : u # t => want'[u] = want[u] /\ step'[u] = step[u]
        /\ want'[t] = Tail(want[t]) /\ step'[t] = 0
    BY <1>0, <2>1
  <2>3. Placed'
    <3> SUFFICES ASSUME NEW u \in Threads
                 PROVE  IF Idle(u)' THEN step'[u] = 0 ELSE step'[u] < Transfers(Item(u)')
      BY DEF Placed
    <3>1. CASE u = t
      <4>1. ~Idle(u)' => Transfers(Item(u)') \in 1 .. 6
        BY <1>1, <1>2, <2>2 DEF Idle
      <4> QED BY <2>2, <3>1, <4>1
    <3>2. CASE u # t
      BY <1>0, <2>2, <3>2 DEF Placed, Idle, Item
    <3> QED BY <3>1, <3>2
  <2> QED BY <1>3, <2>2, <2>3
<1>4. CASE ~Last(t)
  <2>1. want' = want /\ step' = [step EXCEPT ![t] = step[t] + 1]
    BY <1>4 DEF Advance
  <2>2. Item(t) \in Items /\ step[t] < Transfers(Item(t)) /\ step[t] + 1 # Transfers(Item(t))
    BY <1>4, Heads DEF Last
  <2>3. step[t] + 1 \in 0 .. 5 /\ step[t] + 1 < Transfers(Item(t))
    BY <1>0, <1>1, <2>2
  <2>4. /\ want' \in [Threads -> Seq(Items)] /\ step' \in [Threads -> 0 .. 5]
        /\ \A u \in Threads : u # t => want'[u] = want[u] /\ step'[u] = step[u]
        /\ want'[t] = want[t] /\ step'[t] = step[t] + 1
    BY <1>0, <2>1, <2>3
  <2>5. Placed'
    BY <1>0, <2>3, <2>4 DEF Placed, Idle, Item
  <2> QED BY <1>4, <2>4, <2>5
<1> QED BY <1>3, <1>4

(* A bus write keeps types.                                                *)
LEMMA WriteTypes ==
  ASSUME LcdInv, NEW t \in Threads, Write(t)
  PROVE  LcdTypes' /\ Placed'
<1>1. ~Idle(t) /\ Advance(t) /\ port' = Pins(Item(t), step[t])
  BY DEF Write, OnPins
<1>2. Item(t) \in Items /\ step[t] \in 0 .. 5
  BY <1>1, Heads
<1>3. port' \in PinStates /\ Half(port') \in Nibble /\ Half(port) \in Nibble
  BY <1>1, <1>2, PinsFacts DEF LcdInv, LcdTypes, Half, PinStates, Nibble
<1>4. phase' \in {"wide", "high", "low"} /\ upper' \in Nibble
  <2>1. CASE UNCHANGED <<phase, upper>>
    BY <2>1 DEF LcdInv, LcdTypes
  <2>2. CASE \E n \in {Half(port), Half(port')} : Takes(n)
    <3>1. PICK n \in {Half(port), Half(port')} : Takes(n)
      BY <2>2
    <3>2. /\ n \in Nibble /\ upper \in Nibble
          /\ \A h, l \in Nibble : NextPhases(h, l) \subseteq {"wide", "high"}
      BY <1>3, <3>1 DEF LcdInv, LcdTypes, NextPhases
    <3> QED BY <3>1, <3>2 DEF Takes
  <2> QED BY <2>1, <2>2 DEF Write
<1>5. booting' \in BOOLEAN /\ trusted' \in BOOLEAN
  <2>1. booting' \in BOOLEAN
    BY DEF Write, LcdInv, LcdTypes
  <2>2. trusted' \in {trusted, outputs, FALSE}
    BY <2>1 DEF Write, Kept, Lost, Executes, LcdInv, LcdTypes
  <2> QED BY <2>1, <2>2 DEF LcdInv, LcdTypes
<1>6. outputs' = outputs /\ board' = board
  BY DEF Write
<1> QED BY <1>1, <1>3, <1>4, <1>5, <1>6, Advanced DEF LcdTypes, LcdInv

(* A write beside an initialisation, or none: if nobody else is inside a   *)
(* byte, the controller follows this one.                                  *)
LEMMA WritePlain ==
  ASSUME LcdInv, NEW t \in Threads, Write(t), ~booting
  PROVE  (\A u \in Threads : Wanted(u)') /\ BootInv' /\ Steady'
<1> DEFINE i == Item(t)
<1> DEFINE k == step[t]
<1>1. ~Idle(t) /\ OnPins(t) /\ Advance(t) /\ port' = Pins(i, k) /\ ~booting' /\ outputs' = outputs
  BY DEF Write, OnPins
<1>2. want[t] \in Seq(Plain) /\ i \in Plain /\ i \in Items /\ k \in 0 .. 5 /\ want[t] # <<>>
  BY <1>1, Heads DEF Idle
<1>3. Transfers(i) = 6 /\ (Last(t) <=> k = 5)
  BY <1>2, PlainItems, TransferCounts DEF Last
<1>4. /\ \A u \in Threads : u # t => want'[u] = want[u] /\ step'[u] = step[u]
      /\ k = 5 => want'[t] = Tail(want[t]) /\ step'[t] = 0
      /\ k < 5 => want'[t] = want[t] /\ step'[t] = k + 1
  BY <1>1, <1>2, <1>3, Advanced
<1>5. want'[t] \in Seq(Plain)
  <2>1. Tail(want[t]) \in Seq(Plain)
    BY ONLY <1>2, PlainSeqs
  <2>2. k = 5 \/ k < 5
    BY <1>2
  <2> QED BY ONLY <1>2, <1>4, <2>1, <2>2
<1>6. \A u \in Threads : Wanted(u)'
  BY <1>4, <1>5 DEF LcdInv, Wanted
<1>7. BootInv'
  BY <1>1 DEF BootInv
<1>8. ASSUME trusted' PROVE Steady'
  <2>1. trusted /\ ~Disturbs(t)
    BY <1>8 DEF Write, Lost
  <2>2. /\ outputs /\ InByte(t) /\ (~Inside(t) => phase = "high" /\ ~port.en)
        /\ \A u \in Threads : u # t => ~Inside(u)
    BY <2>1 DEF LcdInv, Steady, Disturbs
  <2>3. \A u \in Threads : u # t => ~Inside(u)'
    BY <1>4, <2>2 DEF Inside
  <2>4. IF outputs /\ port.en /\ ~port'.en
          THEN \E n \in {Half(port), Half(port')} : Takes(n)
          ELSE UNCHANGED <<phase, upper>>
    BY DEF Write
  <2>5. /\ Pins(i, k).en <=> k \in {1, 4}
        /\ k > 0 => Pins(i, k - 1).en <=> k - 1 \in {1, 4}
    BY <1>2, PinsFacts
  <2> HIDE DEF i, k
  <2>6. CASE k \in {0, 1}
    <3>1. phase' = "high"
      BY <1>2, <2>2, <2>4, <2>6 DEF Inside, k
    <3>2. k = 0 => ~port'.en
      BY <1>1, <2>5
    <3>3. k = 1 => step'[t] = 2 /\ Item(t)' = i /\ port' = Pins(i, 1)
      BY <1>1, <1>4 DEF Item, i
    <3>4. k = 0 => step'[t] = 1
      BY <1>4
    <3> QED BY <1>1, <2>2, <2>3, <2>6, <3>1, <3>2, <3>3, <3>4 DEF Steady, InByte, Inside
  <2>7. CASE k = 2
    <3>1. phase = "high" /\ port = Pins(i, 1)
      BY <2>2, <2>7 DEF InByte, Inside, i, k
    <3>2. port.en /\ ~port'.en
      BY <1>1, <2>5, <2>7, <3>1
    <3>3. Half(port) = Half(Pins(i, 0)) /\ Half(port') = Half(Pins(i, 0))
      BY <1>1, <1>2, <2>7, <3>1, PinsFacts
    <3>4. Takes(Half(Pins(i, 0)))
      BY <2>2, <2>4, <3>2, <3>3
    <3>5. phase' = "low" /\ upper' = Half(Pins(i, 0))
      BY <3>1, <3>4 DEF Takes
    <3>6. step'[t] = 3 /\ Item(t)' = i /\ port' = Pins(i, 2)
      BY <1>1, <1>4, <2>7 DEF Item, i
    <3> QED BY <1>1, <2>2, <2>3, <3>5, <3>6 DEF Steady, InByte, Inside
  <2>8. CASE k \in {3, 4}
    <3>1. phase = "low" /\ upper = Half(Pins(i, 0)) /\ port = Pins(i, k - 1)
      BY <2>2, <2>8 DEF InByte, Inside, i, k
    <3>2. ~port.en
      BY <2>5, <2>8, <3>1
    <3>3. phase' = "low" /\ upper' = Half(Pins(i, 0))
      BY <2>4, <3>1, <3>2
    <3>4. step'[t] = k + 1 /\ Item(t)' = i
      BY <1>4, <2>8 DEF Item, i
    <3>5. (k + 1) - 1 = k
      BY <2>8
    <3> QED BY <1>1, <2>2, <2>3, <2>8, <3>3, <3>4, <3>5 DEF Steady, InByte, Inside
  <2>9. CASE k = 5
    <3>1. phase = "low" /\ upper = Half(Pins(i, 0)) /\ port = Pins(i, 4)
      BY <2>2, <2>9 DEF InByte, Inside, i, k
    <3>2. port.en /\ ~port'.en
      BY <1>1, <2>5, <2>9, <3>1
    <3>3. Half(port) = Half(Pins(i, 5)) /\ Half(port') = Half(Pins(i, 5))
      BY <1>1, <1>2, <2>9, <3>1, PinsFacts
    <3>4. Takes(Half(Pins(i, 5)))
      BY <2>2, <2>4, <3>2, <3>3
    <3>5. phase' = "high"
      BY <1>2, <3>1, <3>4, PlainHalves DEF Takes
    <3>6. step'[t] = 0
      BY <1>4, <2>9
    <3> QED BY <1>1, <2>2, <2>3, <3>2, <3>5, <3>6 DEF Steady, InByte, Inside
  <2> QED BY <1>2, <2>6, <2>7, <2>8, <2>9
<1> QED BY <1>6, <1>7, <1>8 DEF Steady

(* The items of the second part of an initialisation.                      *)
LEMMA BootKinds ==
  ASSUME NEW n \in 1 .. 11
  PROVE  LET i == BootItem[12 - n] IN
         /\ i \in Items
         /\ n \in 9 .. 11 => i.kind \in {"iocon", "iodira", "iodirb"} /\ Transfers(i) = 1
         /\ n \in 5 .. 8  => i.kind = "cmd4" /\ Transfers(i) = 3
         /\ n \in 1 .. 4  => i.kind = "cmd" /\ Transfers(i) = 6 /\ Half(Pins(i, 0)).nib # 3
         /\ n \in 6 .. 8  => Half(Pins(i, 0)) = Three
         /\ n = 5 => Half(Pins(i, 0)) = [rs |-> FALSE, nib |-> 2]
<1> DEFINE i == BootItem[12 - n]
<1>1. n = 1 \/ n = 2 \/ n = 3 \/ n = 4 \/ n = 5 \/ n \in 6 .. 8 \/ n = 9 \/ n = 10 \/ n = 11
  OBVIOUS
<1>2. i \in Items
  BY BootItems
<1>b. /\ n \in 9 .. 11 => 12 - n \in 1 .. 3
      /\ n \in 6 .. 8  => 12 - n \in 4 .. 6
      /\ n = 5 => 12 - n = 7
      /\ n \in 1 .. 4  => 12 - n \in 8 .. 11
  OBVIOUS
<1>r. n \in 9 .. 11 => i.kind \in {"iocon", "iodira", "iodirb"}
  BY <1>b, BootFields
<1>c. /\ n \in 5 .. 8 => i.kind = "cmd4"
      /\ n \in 6 .. 8 => i.byte = 48
      /\ n = 5 => i.byte = 32
  BY <1>b, <1>1, BootFields
<1>d. n \in 1 .. 4 => i.kind = "cmd" /\ i.byte \in {40, 12, 6, 2}
  BY <1>b, <1>1, BootFields
<1> HIDE DEF i
<1>3. n \in 9 .. 11 => i.kind \in {"iocon", "iodira", "iodirb"} /\ Transfers(i) = 1
  <2>1. \A x \in {"iocon", "iodira", "iodirb"} : x \notin {"cmd", "data", "cmd4"}
    OBVIOUS
  <2> QED BY <1>2, <1>r, <2>1, TransferCounts
<1>4. n \in 5 .. 8 => i.kind = "cmd4" /\ Transfers(i) = 3
  BY <1>2, <1>c, TransferCounts
<1>5. n \in 1 .. 4 => i.kind = "cmd" /\ Transfers(i) = 6 /\ i.byte \in {40, 12, 6, 2}
  BY <1>2, <1>d, TransferCounts
<1>6. Half(Pins(i, 0)) = [rs |-> i.kind = "data", nib |-> i.byte \div 16]
  BY DEF Half, Pins
<1>7. /\ 48 \div 16 = 3 /\ 32 \div 16 = 2 /\ 40 \div 16 = 2
      /\ 12 \div 16 = 0 /\ 6 \div 16 = 0 /\ 2 \div 16 = 0
  OBVIOUS
<1>8. n \in 6 .. 8 => i.kind = "cmd4" /\ i.byte = 48
  BY <1>c
<1>9. n = 5 => i.kind = "cmd4" /\ i.byte = 32
  BY <1>c
<1>10. n \in 6 .. 8  => Half(Pins(i, 0)) = Three
  BY <1>6, <1>7, <1>8 DEF Three
<1>11. n = 5 => Half(Pins(i, 0)) = [rs |-> FALSE, nib |-> 2]
  BY <1>6, <1>7, <1>9
<1>12. n \in 1 .. 4 => Half(Pins(i, 0)).nib # 3
  <2>1. Half(Pins(i, 0)).nib = i.byte \div 16
    BY <1>6
  <2> QED BY <1>5, <1>7, <2>1
<1> QED BY <1>2, <1>3, <1>4, <1>5, <1>10, <1>11, <1>12 DEF i

(* What the halves of the power-up do to a controller that waits anywhere. *)
LEMMA PowerUpTakes ==
  ASSUME phase \in {"wide", "high", "low"}
  PROVE  /\ Takes(Three) => (phase' = "low" => upper' = Three)
         /\ Takes(Three) /\ (phase = "low" => upper = Three) => phase' # "high"
         /\ Takes(Three) /\ phase # "high" /\ (phase = "low" => upper = Three) => phase' = "wide"
         /\ Takes([rs |-> FALSE, nib |-> 2]) /\ phase = "wide" => phase' = "high"
<1>1. \A h \in {upper} : NextPhases(h, Three) \subseteq {"wide", "high"}
  BY DEF NextPhases
<1>2. NextPhases(Three, Three) = {"wide"}
  BY DEF NextPhases, Three
<1>3. Three.rs = FALSE /\ Three.nib = 3
  BY DEF Three
<1>4. ASSUME Takes(Three)
      PROVE  /\ phase = "wide" => phase' = "wide"
             /\ phase = "high" => phase' = "low" /\ upper' = Three
             /\ phase = "low"  => phase' \in NextPhases(upper, Three)
  BY <1>3, <1>4 DEF Takes
<1>5. ASSUME Takes([rs |-> FALSE, nib |-> 2]), phase = "wide" PROVE phase' = "high"
  BY <1>5 DEF Takes
<1> QED BY <1>1, <1>2, <1>4, <1>5

LEMMA WriteBoot ==
  ASSUME LcdInv, NEW t \in Threads, Write(t), booting
  PROVE  (\A u \in Threads : Wanted(u)') /\ BootInv' /\ Steady'
<1>1. ~Idle(t) /\ OnPins(t) /\ Advance(t) /\ outputs' = outputs /\ ~trusted
  BY DEF Write, OnPins, LcdInv, BootInv
<1>2. PICK n \in 1 .. 11 : Boots(t, n)
  BY <1>1, Heads
<1> DEFINE i == BootItem[12 - n]
<1> DEFINE k == step[t]
<1>3. Item(t) = i /\ want[t] = BootRest(n) /\ \A u \in Threads : u # t => Idle(u)
  BY <1>2, BootRests DEF Boots, Item
<1>4. n \in 1 .. 8 /\ i \in Items
  BY <1>1, <1>3, BootKinds DEF OnPins
<1>5. /\ k \in 0 .. 5 /\ (n \in 5 .. 8 => k \in 0 .. 2 /\ (Last(t) <=> k = 2))
      /\ (n \in 1 .. 4 => (Last(t) <=> k = 5))
  BY <1>1, <1>3, <1>4, BootKinds, Heads DEF Last
<1>6. port' = Pins(i, k) /\ (port'.en <=> k \in {1, 4})
  BY <1>3, <1>4, <1>5, PinsFacts DEF Write
<1>7. /\ \A u \in Threads : u # t => want'[u] = want[u] /\ step'[u] = step[u]
      /\ Last(t) => want'[t] = Tail(want[t]) /\ step'[t] = 0
      /\ ~Last(t) => want'[t] = want[t] /\ step'[t] = k + 1
  BY <1>1, Advanced
<1>r. /\ BootRest(n) # <<>>
      /\ n > 1 => Tail(BootRest(n)) = BootRest(n - 1) /\ BootRest(n - 1) # <<>>
      /\ n = 1 => Tail(BootRest(n)) = <<>>
  <2>1. n > 1 => n - 1 \in 1 .. 11
    OBVIOUS
  <2> QED BY <2>1, BootRests
<1>8. booting' <=> ~(n = 1 /\ Last(t))
  <2>1. booting' <=> want'[t] # <<>>
    BY DEF Write
  <2>2. n = 1 \/ n > 1
    OBVIOUS
  <2> QED BY <1>3, <1>7, <1>r, <2>1, <2>2
<1>9. /\ \A u \in Threads : u # t => Idle(u)' /\ want'[u] = <<>> /\ step'[u] = 0
      /\ \A u \in Threads : u # t => ~Inside(u)'
  BY <1>3, <1>7 DEF Idle, LcdInv, Placed, Inside
<1>10. <<>> \in Seq(Plain)
  BY EmptySeq
(* What the controller takes in this write.                                *)
<1>11. ASSUME outputs, n < 8 \/ k > 0
       PROVE  /\ k \in {0, 1, 3, 4} => UNCHANGED <<phase, upper>>
              /\ k = 2 => Takes(Half(Pins(i, 0)))
              /\ k = 5 => Takes(Half(Pins(i, 5)))
  <2>1. IF port.en /\ ~port'.en
          THEN \E h \in {Half(port), Half(port')} : Takes(h)
          ELSE UNCHANGED <<phase, upper>>
    BY <1>11 DEF Write
  <2>2. PortAt(i, k)
    BY <1>2, <1>4, <1>11 DEF Boots
  <2> HIDE DEF i, k
  <2>3. k > 0 => port = Pins(i, k - 1) /\ (port.en <=> k - 1 \in {1, 4})
    BY <1>4, <1>5, <2>2, PinsFacts DEF PortAt
  <2>4. k = 0 => ~port.en
    BY <2>2 DEF PortAt
  <2>5. CASE k \in {0, 1, 3, 4} BY <1>6, <2>1, <2>3, <2>4, <2>5
  <2>6. CASE k = 2
    <3>1. port.en /\ ~port'.en /\ port = Pins(i, 1) /\ port' = Pins(i, 2)
      BY <1>6, <2>3, <2>6
    <3>2. Half(port) = Half(Pins(i, 0)) /\ Half(port') = Half(Pins(i, 0))
      BY <1>4, <3>1, PinsFacts
    <3> QED BY <2>1, <2>6, <3>1, <3>2
  <2>7. CASE k = 5
    <3>1. port.en /\ ~port'.en /\ port = Pins(i, 4) /\ port' = Pins(i, 5)
      BY <1>6, <2>3, <2>7
    <3>2. Half(port) = Half(Pins(i, 5)) /\ Half(port') = Half(Pins(i, 5))
      BY <1>4, <3>1, PinsFacts
    <3> QED BY <2>1, <2>7, <3>1, <3>2
  <2> QED BY <1>5, <2>5, <2>6, <2>7
<1>12. /\ phase \in {"wide", "high", "low"} /\ (outputs => PhaseAt(n, k))
  BY <1>2 DEF LcdInv, LcdTypes, Boots
<1>13. CASE ~Last(t)
  <2>1. booting' /\ want'[t] = BootRest(n) /\ step'[t] = k + 1
    BY <1>3, <1>7, <1>8, <1>13
  <2>2. PortAt(i, step[t])'
    <3>1. step'[t] # 0 /\ step'[t] - 1 = k
      BY <1>5, <2>1
    <3>2. port' = Pins(i, step'[t] - 1)
      BY <1>6, <3>1
    <3> QED BY <3>1, <3>2 DEF PortAt
  <2>3. ASSUME outputs PROVE PhaseAt(n, step[t])'
    <3>1. CASE n = 8 BY <3>1 DEF PhaseAt
    <3>2. CASE n \in 5 .. 7
      <4>1. k \in {0, 1}
        BY <1>5, <1>13, <3>2
      <4> QED BY <1>11, <1>12, <2>3, <3>2, <4>1 DEF PhaseAt
    <3>3. CASE n \in 1 .. 4
      <4>1. k \in 0 .. 4
        BY <1>5, <1>13, <3>3
      <4>2. CASE k = 2
        <5>1. phase = "high" /\ Takes(Half(Pins(i, 0)))
          BY <1>11, <1>12, <2>3, <3>3, <4>2 DEF PhaseAt
        <5> QED BY <2>1, <3>3, <4>2, <5>1 DEF PhaseAt, Takes
      <4>3. CASE k # 2
        <5>1. UNCHANGED <<phase, upper>>
          BY <1>11, <2>3, <3>3, <4>1, <4>3
        <5> QED BY <1>12, <2>1, <2>3, <3>3, <4>1, <4>3, <5>1 DEF PhaseAt
      <4> QED BY <4>2, <4>3
    <3> QED BY <1>4, <3>1, <3>2, <3>3
  <2>4. Boots(t, n)'
    BY <1>1, <1>9, <2>1, <2>2, <2>3 DEF Boots
  <2>5. ~trusted'
    BY <1>1, <2>1 DEF Write, Kept
  <2> QED BY <1>9, <1>10, <2>1, <2>4, <2>5 DEF Wanted, BootInv, Steady
<1>14. CASE Last(t)
  <2>0. step'[t] = 0 /\ ~port'.en
    BY <1>4, <1>5, <1>6, <1>7, <1>14
  <2>1. CASE n > 1
    <3>1. booting' /\ want'[t] = BootRest(n - 1) /\ n - 1 \in 1 .. 11
      BY <1>3, <1>7, <1>8, <1>r, <1>14, <2>1
    <3>2. PortAt(BootItem[12 - (n - 1)], 0)'
      BY <2>0 DEF PortAt
    <3>3. ASSUME outputs PROVE PhaseAt(n - 1, 0)'
      <4>1. CASE n \in 6 .. 8
        <5>1. Takes(Three)
          BY <1>4, <1>5, <1>11, <1>14, <3>3, <4>1, BootKinds
        <5> QED BY <1>12, <3>3, <4>1, <5>1, PowerUpTakes DEF PhaseAt
      <4>2. CASE n = 5
        <5>1. Takes([rs |-> FALSE, nib |-> 2])
          BY <1>4, <1>5, <1>11, <1>14, <3>3, <4>2, BootKinds
        <5> QED BY <1>12, <3>3, <4>2, <5>1, PowerUpTakes DEF PhaseAt
      <4>3. CASE n \in 2 .. 4
        <5>1. phase = "low" /\ upper = Half(Pins(i, 0)) /\ Takes(Half(Pins(i, 5)))
          BY <1>5, <1>11, <1>12, <1>14, <3>3, <4>3 DEF PhaseAt
        <5>2. upper.nib # 3
          BY <4>3, <5>1, BootKinds
        <5>3. phase' = "high"
          BY <5>1, <5>2 DEF Takes, NextPhases
        <5> QED BY <4>3, <5>3 DEF PhaseAt
      <4> QED BY <1>4, <2>1, <4>1, <4>2, <4>3
    <3>4. Boots(t, n - 1)'
      BY <1>1, <1>9, <2>0, <3>1, <3>2, <3>3 DEF Boots
    <3>5. ~trusted'
      BY <1>1, <3>1 DEF Write, Kept
    <3> QED BY <1>9, <1>10, <3>1, <3>4, <3>5 DEF Wanted, BootInv, Steady
  <2>2. CASE n = 1
    <3>1. ~booting' /\ want'[t] = <<>>
      BY <1>3, <1>7, <1>8, <1>14, <2>2, BootRests
    <3>2. trusted' = outputs
      BY <3>1 DEF Write
    <3>3. ASSUME outputs PROVE phase' = "high"
      <4>1. phase = "low" /\ upper = Half(Pins(i, 0)) /\ Takes(Half(Pins(i, 5)))
        BY <1>5, <1>11, <1>12, <1>14, <2>2, <3>3 DEF PhaseAt
      <4>2. upper.nib # 3
        BY <2>2, <4>1, BootKinds
      <4> QED BY <4>1, <4>2 DEF Takes, NextPhases
    <3>4. \A u \in Threads : ~Inside(u)'
      BY <1>9, <2>0 DEF Inside
    <3> QED BY <1>1, <1>9, <1>10, <2>0, <3>1, <3>2, <3>3, <3>4
            DEF Wanted, BootInv, Steady, InByte
  <2> QED BY <2>1, <2>2
<1> QED BY <1>13, <1>14

-----------------------------------------------------------------------------
(* The other steps.                                                        *)
LEMMA BootAdvances ==
  ASSUME LcdInv, NEW t \in Threads, booting, ~Idle(t), Advance(t), NEW n \in 9 .. 11, Boots(t, n),
         outputs' \in BOOLEAN, UNCHANGED <<board, booting, port, phase, upper, trusted>>
  PROVE  LcdInv'
<1>1. ~trusted /\ \A u \in Threads : u # t => Idle(u)
  BY DEF LcdInv, BootInv, Boots
<1>0. n \in 1 .. 11 /\ n > 1
  OBVIOUS
<1>2. Item(t) = BootItem[12 - n] /\ want[t] = BootRest(n)
  BY <1>0, BootRests DEF Boots, Item
<1>3. Last(t)
  <2>1. Transfers(Item(t)) = 1
    BY <1>0, <1>2, BootKinds
  <2> QED BY <2>1, Heads DEF Last
<1>4. n - 1 \in 8 .. 10 /\ n - 1 \in 1 .. 11 /\ n > 1
  OBVIOUS
<1>5. want'[t] = BootRest(n - 1) /\ step'[t] = 0
  <2>1. Tail(BootRest(n)) = BootRest(n - 1)
    BY <1>0, BootRests
  <2> QED BY <1>2, <1>3, <2>1, Advanced
<1>6. \A u \in Threads : u # t => want'[u] = <<>>
  <2>1. \A u \in Threads : u # t => want'[u] = want[u]
    BY Advanced
  <2> QED BY <1>1, <2>1 DEF Idle
<1>7. Boots(t, n - 1)'
  <2>1. ~(n - 1 < 8 \/ (n - 1 = 8 /\ 0 > 0))
    BY <1>4
  <2>2. PhaseAt(n - 1, step[t])'
    BY <1>4 DEF PhaseAt
  <2> QED BY <1>5, <1>6, <2>1, <2>2 DEF Boots, Idle
<1>8. LcdTypes' /\ Placed'
  <2>1. want' \in [Threads -> Seq(Items)] /\ step' \in [Threads -> 0 .. 5] /\ Placed'
    BY Advanced
  <2> QED BY <2>1 DEF LcdInv, LcdTypes
<1>9. \A u \in Threads : Wanted(u)'
  BY <1>4, <1>5, <1>6, EmptySeq DEF Wanted
<1>10. BootInv' /\ Steady'
  BY <1>1, <1>4, <1>7 DEF BootInv, Steady
<1> QED BY <1>8, <1>9, <1>10 DEF LcdInv

(* The controller is where it was, and so are the threads inside bytes.    *)
LEMMA SteadyStays ==
  ASSUME LcdInv, NEW t \in Threads, ~Inside(t),
         step'[t] = 0, \A u \in Threads : u # t => want'[u] = want[u] /\ step'[u] = step[u],
         outputs => outputs', ~booting', UNCHANGED <<port, phase, upper, trusted>>
  PROVE  Steady'
<1> SUFFICES ASSUME trusted' PROVE Steady'
  BY DEF Steady
<1>1. /\ outputs' /\ ~Inside(t)'
      /\ \A u \in Threads : u # t => (Inside(u)' <=> Inside(u)) /\ Item(u)' = Item(u)
  BY DEF LcdInv, Steady, Inside, Item
<1>2. \A u \in Threads : InByte(u)'
  <2> SUFFICES ASSUME NEW u \in Threads PROVE InByte(u)'
    OBVIOUS
  <2>1. CASE u = t BY <1>1, <2>1 DEF InByte
  <2>2. CASE u # t
    <3>1. InByte(u)
      BY DEF LcdInv, Steady
    <3> QED BY <1>1, <2>2, <3>1 DEF InByte
  <2> QED BY <2>1, <2>2
<1>3. \A u, v \in Threads : Inside(u)' /\ Inside(v)' => u = v
  BY <1>1 DEF LcdInv, Steady
<1>4. (\A u \in Threads : ~Inside(u)') => phase' = "high" /\ ~port'.en
  BY <1>1 DEF LcdInv, Steady
<1> QED BY <1>1, <1>2, <1>3, <1>4 DEF Steady

LEMMA RegisterStep ==
  ASSUME LcdInv, NEW t \in Threads, Register(t)
  PROVE  LcdInv'
<1>1. /\ ~Idle(t) /\ ~OnPins(t) /\ Advance(t) /\ (outputs => outputs')
      /\ UNCHANGED <<board, booting, port, phase, upper, trusted>>
  BY DEF Register
<1>2. outputs' \in BOOLEAN
  BY DEF Register, LcdInv, LcdTypes
<1>3. CASE booting
  <2>1. PICK n \in 1 .. 11 : Boots(t, n)
    BY <1>1, <1>3, Heads
  <2>2. Item(t) = BootItem[12 - n]
    BY <2>1, BootRests DEF Boots, Item
  <2>3. n \in 9 .. 11
    BY <1>1, <2>2, BootKinds DEF OnPins
  <2> QED BY <1>1, <1>2, <1>3, <2>1, <2>3, BootAdvances
<1>4. CASE ~booting
  <2>1. t = Key /\ Reading(want[t]) /\ Item(t) \in {Reg("point"), Reg("read")}
    BY <1>1, <1>4, Heads, ReadSeqs DEF Item
  <2>2. Transfers(Item(t)) = 1
    BY <1>1, Heads, TransferCounts DEF OnPins
  <2>3. Last(t) /\ step[t] = 0
    BY <1>1, <2>2, Heads DEF Last
  <2>4. want'[t] = Tail(want[t]) /\ step'[t] = 0
    BY <1>1, <2>3, Advanced
  <2>5. want'[t] = <<Reg("read")>> \/ want'[t] = <<>>
    BY <2>1, <2>4, ReadSeqs DEF Item
  <2>6. \A u \in Threads : u # t => want'[u] = want[u] /\ step'[u] = step[u]
    BY <1>1, Advanced
  <2>7. \A u \in Threads : Wanted(u)'
    <3> SUFFICES ASSUME NEW u \in Threads PROVE Wanted(u)'
      OBVIOUS
    <3>1. CASE u = t
      <4>1. want'[t] = <<>> => want'[t] \in Seq(Plain)
        BY EmptySeq
      <4>2. want'[t] = <<Reg("read")>> => Reading(want'[t])
        BY DEF Reading
      <4> QED BY <2>1, <2>5, <3>1, <4>1, <4>2 DEF Wanted
    <3>2. CASE u # t
      <4>1. Wanted(u) BY DEF LcdInv
      <4> QED BY <1>1, <2>6, <3>2, <4>1 DEF Wanted
    <3> QED BY <3>1, <3>2
  <2>8. Steady'
    <3>1. ~Inside(t) BY <2>3 DEF Inside
    <3> QED BY <1>1, <1>4, <2>4, <2>6, <3>1, SteadyStays
  <2>9. BootInv'
    BY <1>1, <1>4 DEF BootInv
  <2>10. LcdTypes' /\ Placed'
    BY <1>1, <1>2, Advanced DEF LcdInv, LcdTypes
  <2> QED BY <2>7, <2>8, <2>9, <2>10 DEF LcdInv
<1> QED BY <1>3, <1>4

LEMMA CallStep ==
  ASSUME LcdInv, NEW t \in Threads, NEW items, Call(t, items),
         items \in Seq(Plain) \/ (t = Key /\ Reading(items))
  PROVE  LcdInv'
<1>1. /\ Idle(t) /\ ~booting /\ want' = [want EXCEPT ![t] = items] /\ step' = step
      /\ UNCHANGED <<board, booting, port, outputs, phase, upper, trusted>>
  BY DEF Call, bus
<1>2. items \in Seq(Items) /\ (items # <<>> => Head(items) \in Items)
  BY PlainSeqs, ReadSeqs, HeadTailProperties
<1>3. step[t] = 0 /\ want \in [Threads -> Seq(Items)]
  BY <1>1 DEF LcdInv, LcdTypes, Placed
<1>4. /\ want' \in [Threads -> Seq(Items)] /\ want'[t] = items /\ step'[t] = 0
      /\ \A u \in Threads : u # t => want'[u] = want[u] /\ step'[u] = step[u]
  BY <1>1, <1>2, <1>3
<1>5. Placed'
  <2> SUFFICES ASSUME NEW u \in Threads
               PROVE  IF Idle(u)' THEN step'[u] = 0 ELSE step'[u] < Transfers(Item(u)')
    BY DEF Placed
  <2>1. CASE u = t
    <3>1. ~Idle(t)' => Item(t)' \in Items
      BY <1>2, <1>4 DEF Idle, Item
    <3>2. \A i \in Items : Transfers(i) \in 1 .. 6
      BY TransferCounts DEF Items
    <3>3. ~Idle(t)' => Transfers(Item(t)') \in 1 .. 6
      BY <3>1, <3>2
    <3> QED BY <1>4, <2>1, <3>3
  <2>2. CASE u # t
    BY <1>4, <2>2 DEF LcdInv, Placed, Idle, Item
  <2> QED BY <2>1, <2>2
<1>6. LcdTypes'
  BY <1>1, <1>4 DEF LcdInv, LcdTypes
<1>7. \A u \in Threads : Wanted(u)'
  <2>1. \A u \in Threads : Wanted(u)
    BY DEF LcdInv
  <2> QED BY <1>1, <1>4, <2>1 DEF Wanted
<1>8. Steady'
  <2>1. ~Inside(t) BY <1>3 DEF Inside
  <2> QED BY <1>1, <1>4, <2>1, SteadyStays
<1>9. BootInv'
  BY <1>1 DEF BootInv
<1> QED BY <1>5, <1>6, <1>7, <1>8, <1>9 DEF LcdInv

LEMMA BootStep ==
  ASSUME LcdInv, NEW t \in Threads, Boot(t)
  PROVE  LcdInv'
<1>1. /\ \A u \in Threads : Idle(u)
      /\ booting' = TRUE /\ trusted' = FALSE
      /\ want' = [want EXCEPT ![t] = IF board = "mcp" THEN LCD1602KeyInit ELSE LCD1602Init]
      /\ UNCHANGED <<board, step, port, outputs, phase, upper>>
  BY DEF Boot, Lost
<1>2. PICK n \in {8, 11} : want' = [want EXCEPT ![t] = BootRest(n)]
  BY <1>1, BootCalls
<1>0. n \in 1 .. 11
  BY <1>2
<1>3. /\ BootRest(n) \in Seq(Items) /\ BootRest(n) # <<>> /\ Head(BootRest(n)) \in Items
  <2>1. 12 - n \in 1 .. 11
    BY <1>0
  <2>2. BootItem[12 - n] \in Items
    BY <2>1, BootItems
  <2> QED BY <1>0, <2>2, BootRests
<1>4. /\ want' \in [Threads -> Seq(Items)] /\ want'[t] = BootRest(n)
      /\ \A u \in Threads : step'[u] = 0
      /\ \A u \in Threads : u # t => want'[u] = <<>>
  <2>1. want \in [Threads -> Seq(Items)] /\ \A u \in Threads : want[u] = <<>> /\ step[u] = 0
    BY <1>1 DEF LcdInv, LcdTypes, Placed, Idle
  <2> QED BY <1>1, <1>2, <1>3, <2>1
<1>5. Placed'
  <2>1. \A i \in Items : 0 < Transfers(i)
    BY TransferCounts DEF Items
  <2> QED BY <1>3, <1>4, <2>1 DEF Placed, Idle, Item
<1>6. LcdTypes'
  <2>1. booting' \in BOOLEAN /\ trusted' \in BOOLEAN
    BY <1>1
  <2> QED BY <1>1, <1>4, <2>1 DEF LcdInv, LcdTypes
<1>7. Boots(t, n)'
  <2>1. ~(n < 8 \/ (n = 8 /\ step'[t] > 0))
    BY <1>2, <1>4
  <2>2. PhaseAt(n, step[t])'
    BY <1>2 DEF PhaseAt
  <2> QED BY <1>4, <2>1, <2>2 DEF Boots, Idle
<1>8. \A u \in Threads : Wanted(u)'
  BY <1>0, <1>1, <1>4, EmptySeq DEF Wanted
<1> QED BY <1>0, <1>1, <1>5, <1>6, <1>7, <1>8 DEF LcdInv, BootInv, Steady

(* A step that leaves the calls and the controller alone.                  *)
LEMMA BoardStays ==
  ASSUME LcdInv,
         UNCHANGED <<board, want, step, booting, port, outputs, phase, upper, trusted>>
  PROVE  LcdInv'
<1>1. \A u \in Threads : Idle(u)' = Idle(u) /\ Inside(u)' = Inside(u) /\ Item(u)' = Item(u)
  BY DEF Idle, Inside, Item
<1>2. LcdTypes' /\ Placed' /\ \A u \in Threads : Wanted(u)'
  BY <1>1 DEF LcdInv, LcdTypes, Placed, Wanted
<1>3. BootInv'
  BY <1>1 DEF LcdInv, BootInv, Boots, PortAt, PhaseAt
<1>4. Steady'
  BY <1>1 DEF LcdInv, Steady, InByte
<1> QED BY <1>2, <1>3, <1>4 DEF LcdInv

(* A call is given up: its thread has nothing more to transfer.            *)
LEMMA FailsStep ==
  ASSUME LcdInv, NEW t \in Threads, Fails(t)
  PROVE  LcdInv'
<1> DEFINE r == Item(t).kind
<1>1. /\ ~Idle(t) /\ UNCHANGED <<board, port, outputs, phase, upper>>
      /\ IF Inside(t) THEN Lost ELSE Kept
  BY DEF Fails
<1>2. CASE r \in {"iocon", "iodira", "iodirb"}
  <2>1. Advance(t) /\ UNCHANGED booting
    BY <1>2 DEF Fails
  <2>2. booting
    <3>1. ASSUME ~booting PROVE FALSE
      <4>1. CASE OnPins(t) BY <1>2, <4>1 DEF OnPins
      <4>2. CASE ~OnPins(t)
        BY <1>1, <1>2, <3>1, <4>2, Heads, ReadSeqs DEF Item, Reg
      <4> QED BY <4>1, <4>2
    <3> QED BY <3>1
  <2>3. PICK n \in 1 .. 11 : Boots(t, n)
    BY <1>1, <2>2, Heads
  <2>4. Item(t) = BootItem[12 - n]
    BY <2>3, BootRests DEF Boots, Item
  <2>5. n \in 9 .. 11
    BY <1>2, <2>4, BootKinds
  <2>6. trusted' = trusted
    BY <1>1, <2>2 DEF Lost, Kept, LcdInv, BootInv, LcdTypes
  <2>7. outputs' \in BOOLEAN
    BY <1>1 DEF LcdInv, LcdTypes
  <2> QED BY <1>1, <2>1, <2>2, <2>3, <2>5, <2>6, <2>7, BootAdvances
<1>3. CASE r \notin {"iocon", "iodira", "iodirb"}
  <2>1. /\ want' = [want EXCEPT ![t] = <<>>] /\ step' = [step EXCEPT ![t] = 0]
        /\ booting' = FALSE
    BY <1>3 DEF Fails
  <2>2. want \in [Threads -> Seq(Items)] /\ step \in [Threads -> 0 .. 5] /\ Placed
    BY DEF LcdInv, LcdTypes
  <2>3. /\ want' \in [Threads -> Seq(Items)] /\ step' \in [Threads -> 0 .. 5]
        /\ want'[t] = <<>> /\ step'[t] = 0
        /\ \A u \in Threads : u # t => want'[u] = want[u] /\ step'[u] = step[u]
    BY <2>1, <2>2, EmptySeq
  <2>4. Placed'
    BY <2>2, <2>3 DEF Placed, Idle, Item
  <2>5. LcdTypes'
    <3>1. trusted' \in BOOLEAN /\ booting' \in BOOLEAN
      BY <1>1, <2>1 DEF Lost, Kept, LcdInv, LcdTypes
    <3> QED BY <1>1, <2>3, <3>1 DEF LcdInv, LcdTypes
  <2>6. \A u \in Threads : Wanted(u)'
    <3> SUFFICES ASSUME NEW u \in Threads PROVE Wanted(u)'
      OBVIOUS
    <3>1. CASE want'[u] = <<>> BY <3>1, EmptySeq DEF Wanted
    <3>2. CASE want'[u] # <<>>
      <4>1. u # t /\ want'[u] = want[u] /\ ~Idle(u)
        BY <2>3, <3>2 DEF Idle
      <4>2. ~booting
        BY <1>1, <4>1 DEF LcdInv, BootInv, Boots
      <4>3. Wanted(u)
        BY DEF LcdInv
      <4> QED BY <4>1, <4>2, <4>3 DEF Wanted
    <3> QED BY <3>1, <3>2
  <2>7. Steady'
    <3>1. CASE Inside(t)
      BY <1>1, <3>1 DEF Lost, Steady
    <3>2. CASE ~Inside(t)
      BY <1>1, <2>1, <2>3, <3>2, SteadyStays DEF Kept
    <3> QED BY <3>1, <3>2
  <2> QED BY <2>1, <2>4, <2>5, <2>6, <2>7 DEF LcdInv, BootInv
<1> QED BY <1>2, <1>3

LEMMA HaltStep ==
  ASSUME LcdInv, Halt
  PROVE  LcdInv'
<1>1. /\ \A t \in Threads : want'[t] = <<>> /\ step'[t] = 0
      /\ want' = [t \in Threads |-> <<>>] /\ step' = [t \in Threads |-> 0]
      /\ booting' = FALSE /\ UNCHANGED <<board, port, outputs, phase, upper>>
  BY DEF Halt
<1>2. trusted' = FALSE \/ (trusted' = trusted /\ \A t \in Threads : ~Inside(t))
  BY DEF Halt, Lost, Kept
<1>3. want' \in [Threads -> Seq(Items)] /\ step' \in [Threads -> 0 .. 5]
  BY <1>1, EmptySeq
<1>4. LcdTypes'
  <2>1. trusted' \in BOOLEAN /\ booting' \in BOOLEAN
    BY <1>1, <1>2 DEF LcdInv, LcdTypes
  <2> QED BY <1>1, <1>3, <2>1 DEF LcdInv, LcdTypes
<1>5. Placed' /\ BootInv' /\ \A t \in Threads : Wanted(t)'
  BY <1>1, EmptySeq DEF Placed, Idle, BootInv, Wanted
<1>6. Steady'
  <2> SUFFICES ASSUME trusted' PROVE Steady'
    BY DEF Steady
  <2>1. trusted /\ \A t \in Threads : ~Inside(t)
    BY <1>2
  <2>2. outputs /\ phase = "high" /\ ~port.en
    BY <2>1 DEF LcdInv, Steady
  <2>3. \A t \in Threads : ~Inside(t)'
    BY <1>1 DEF Inside
  <2> QED BY <1>1, <2>2, <2>3 DEF Steady, InByte
<1> QED BY <1>4, <1>5, <1>6 DEF LcdInv

LEMMA TransferStep ==
  ASSUME LcdInv, NEW t \in Threads, Transfer(t)
  PROVE  LcdInv'
<1>1. CASE Write(t)
  <2>1. LcdTypes' /\ Placed'
    BY <1>1, WriteTypes
  <2>2. (\A u \in Threads : Wanted(u)') /\ BootInv' /\ Steady'
    BY <1>1, WritePlain, WriteBoot
  <2> QED BY <2>1, <2>2 DEF LcdInv
<1>2. CASE Register(t) BY <1>2, RegisterStep
<1>3. CASE Fails(t) BY <1>3, FailsStep
<1> QED BY <1>1, <1>2, <1>3 DEF Transfer, McpWrite, PcfWrite

(* In step: the invariant's part that the runs check.                      *)
LEMMA SteadyInStep ==
  ASSUME LcdInv
  PROVE  InStep
<1> SUFFICES ASSUME trusted PROVE InStep
  BY DEF InStep
<1>1. /\ \A t \in Threads : InByte(t) /\ step[t] \in 0 .. 5
      /\ (\A t \in Threads : ~Inside(t)) => phase = "high" /\ ~port.en
      /\ \A t, u \in Threads : Inside(t) /\ Inside(u) => t = u
      /\ port.en \in BOOLEAN
  BY DEF LcdInv, Steady, LcdTypes, PinStates
<1>2. CASE \A t \in Threads : ~Inside(t)
  <2>1. \A t \in Threads : step[t] \notin 3 .. 5 /\ step[t] \notin {2, 5}
    <3>1. \A t \in Threads : step[t] \notin 2 .. 5 /\ step[t] \in 0 .. 5
      BY <1>1, <1>2 DEF Inside
    <3>2. \A k \in 0 .. 5 : k \notin 2 .. 5 => k \notin 3 .. 5 /\ k \notin {2, 5}
      OBVIOUS
    <3> QED BY <3>1, <3>2
  <2>2. ~(\E t \in Threads : step[t] \in 3 .. 5) /\ ~(\E t \in Threads : step[t] \in {2, 5})
    BY <2>1
  <2>3. phase = "high" /\ port.en = FALSE
    BY <1>1, <1>2
  <2> QED BY <2>2, <2>3 DEF InStep
<1>3. CASE \E t \in Threads : Inside(t)
  <2>1. PICK t \in Threads : Inside(t)
    BY <1>3
  <2>2. /\ port = Pins(Item(t), step[t] - 1) /\ step[t] \in 2 .. 5
        /\ step[t] = 2 => phase = "high"
        /\ step[t] > 2 => phase = "low"
    BY <1>1, <2>1 DEF InByte, Inside
  <2>3. Item(t) \in Items /\ step[t] - 1 \in 0 .. 5
    <3>1. ~Idle(t)
      BY <2>2 DEF LcdInv, Placed
    <3> QED BY <2>2, <3>1, Heads
  <2>4. port.en <=> step[t] - 1 \in {1, 4}
    BY <2>2, <2>3, PinsFacts
  <2>5. \A u \in Threads : u # t => step[u] \notin 2 .. 5
    BY <1>1, <2>1 DEF Inside
  <2>6. (\E u \in Threads : step[u] \in 3 .. 5) <=> step[t] \in 3 .. 5
    BY <2>5
  <2>7. (\E u \in Threads : step[u] \in {2, 5}) <=> step[t] \in {2, 5}
    BY <2>5
  <2>8. port.en <=> step[t] \in {2, 5}
    BY <2>2, <2>4
  <2>9. phase = IF step[t] \in 3 .. 5 THEN "low" ELSE "high"
    BY <2>2
  <2> QED BY <1>1, <2>6, <2>7, <2>8, <2>9 DEF InStep
<1> QED BY <1>2, <1>3

-----------------------------------------------------------------------------
(* The library's calls are plain.                                          *)
LEMMA StringsPlain ==
  ASSUME NEW x \in Columns, NEW y \in {0, 1}, NEW s \in Texts
  PROVE  DispStr(x, y, s) \in Seq(Plain)
<1> DEFINE a == Cmd(Address(x, y))
<1> DEFINE one == <<a>>
<1> DEFINE text == [i \in 1 .. Len(s) |-> Data(s[i])]
<1>1. a \in Plain
  <2> DEFINE b == Address(x, y)
  <2>1. b \in Moves
    BY DEF Moves
  <2> HIDE DEF b
  <2>2. b \in 0 .. 255
    BY <2>1, MovesRange
  <2>3. Cmd(b) \in Plain
    <3>1. Cmd(b).kind = "cmd" /\ Cmd(b).byte = b
      BY DEF Cmd
    <3>2. Cmd(b) \in Items
      BY <2>2 DEF Items, Cmd
    <3> QED BY <2>1, <3>1, <3>2 DEF Plain
  <2> QED BY <2>3 DEF b
<1>2. one \in Seq(Plain)
  <2> HIDE DEF a
  <2> QED BY <1>1, Tuples
<1>3. text \in Seq(Plain)
  <2>1. s \in Seq(0 .. 255)
    BY CharsAssumption
  <2>2. \A i \in 1 .. Len(s) : Data(s[i]) \in Plain
    <3> SUFFICES ASSUME NEW i \in 1 .. Len(s) PROVE Data(s[i]) \in Plain
      OBVIOUS
    <3> DEFINE c == s[i]
    <3>1. c \in 0 .. 255
      BY <2>1, ElementOfSeq
    <3> HIDE DEF c
    <3>2. Data(c) \in Items /\ Data(c).kind = "data"
      BY <3>1 DEF Items, Data
    <3>3. Data(c) \in Plain
      BY <3>2 DEF Plain
    <3> QED BY <3>3 DEF c
  <2>3. text \in [1 .. Len(s) -> Plain] /\ Len(s) \in Nat
    BY <2>1, <2>2
  <2> QED BY <2>3
<1>4. DispStr(x, y, s) = one \o text
  BY DEF DispStr
<1> HIDE DEF one, text
<1> QED BY <1>2, <1>3, <1>4, ConcatProperties

LEMMA StringsLong ==
  ASSUME NEW x \in Columns, NEW y \in {0, 1}, NEW s \in Texts
  PROVE  DispStr(x, y, s) # <<>> /\ Len(DispStr(x, y, s)) > 0
<1>1. Len(s) \in Nat
  BY CharsAssumption
<1> QED BY <1>1 DEF DispStr

LEMMA CallsPlain == LibCalls \subseteq Seq(Plain)
<1> SUFFICES ASSUME NEW w \in LibCalls PROVE w \in Seq(Plain)
  OBVIOUS
<1>1. CASE w = <<Cmd(1)>>
  <2> DEFINE c == Cmd(1)
  <2>1. c \in Plain
    BY DEF Plain, Items, Cmd
  <2> HIDE DEF c
  <2>2. <<c>> \in Seq(Plain)
    BY <2>1, Tuples
  <2> QED BY <1>1, <2>2 DEF c
<1>2. CASE w \in Strings
  BY <1>2, StringsPlain DEF Strings
<1>3. CASE w \in {LCD1602DispLines(s1, s2) : s1 \in Texts, s2 \in Texts}
  <2>1. PICK s1 \in Texts, s2 \in Texts : w = LCD1602DispLines(s1, s2)
    BY <1>3
  <2> DEFINE a == DispStr(0, 0, s1)
  <2> DEFINE b == DispStr(0, 1, s2)
  <2>2. a \in Seq(Plain) /\ b \in Seq(Plain)
    BY ColumnsAssumption, StringsPlain
  <2>3. w = a \o b
    BY <2>1 DEF LCD1602DispLines
  <2> HIDE DEF a, b
  <2> QED BY <2>2, <2>3, ConcatProperties
<1> QED BY <1>1, <1>2, <1>3 DEF LibCalls

LEMMA CallsMade ==
  /\ LCD1602KeyClear \in LibCalls /\ LCD1602Clear \in LibCalls
  /\ \A s \in Texts : /\ LCD1602KeyDispStr(0, 0, s) \in LibCalls
                      /\ LCD1602KeyDispStr(0, 1, s) \in LibCalls
  /\ LCD1602DispLines(Title, By) \in LibCalls
<1>1. LCD1602KeyClear \in LibCalls /\ LCD1602Clear \in LibCalls
  BY DEF LibCalls, LCD1602KeyClear, LCD1602Clear
<1>2. \A s \in Texts : DispStr(0, 0, s) \in Strings /\ DispStr(0, 1, s) \in Strings
  BY ColumnsAssumption DEF Strings
<1>3. LCD1602DispLines(Title, By) \in LibCalls
  BY MainAssumption DEF LibCalls
<1> QED BY <1>1, <1>2, <1>3 DEF LibCalls, LCD1602KeyDispStr

-----------------------------------------------------------------------------
(* The screens the key thread has still to draw.                           *)
ScriptInv == script \in Seq(LibCalls)

LEMMA Screens ==
  /\ \A k : Screen(k) \in Seq(LibCalls)
  /\ <<LCD1602KeyClear>> \in Seq(LibCalls) /\ <<>> \in Seq(LibCalls)
  /\ <<LCD1602KeyClear, LCD1602KeyDispStr(0, 0, Connect), LCD1602KeyDispStr(0, 1, Welcome)>>
       \in Seq(LibCalls)
  /\ <<LCD1602KeyDispStr(0, 1, Address1)>> \in Seq(LibCalls)
<1> DEFINE clear == LCD1602KeyClear
<1> DEFINE top(s) == LCD1602KeyDispStr(0, 0, s)
<1> DEFINE low(s) == LCD1602KeyDispStr(0, 1, s)
<1>1. /\ clear \in LibCalls
      /\ top(Port) \in LibCalls /\ top(Connect) \in LibCalls
      /\ low(Working) \in LibCalls /\ low(Restart) \in LibCalls /\ low(Welcome) \in LibCalls
      /\ low(Address1) \in LibCalls
  BY CallsMade, TextsAssumption
<1> HIDE DEF clear, top, low
<1>2. /\ <<clear>> \in Seq(LibCalls) /\ <<low(Address1)>> \in Seq(LibCalls)
      /\ <<clear, top(Port)>> \in Seq(LibCalls)
      /\ <<clear, top(Connect), low(Working)>> \in Seq(LibCalls)
      /\ <<clear, top(Connect), low(Restart)>> \in Seq(LibCalls)
      /\ <<clear, top(Connect), low(Welcome)>> \in Seq(LibCalls)
  BY <1>1, Tuples
<1>3. <<>> \in Seq(LibCalls)
  BY EmptySeq
<1>4. \A k : Screen(k) \in {<<>>, <<clear>>, <<clear, top(Port)>>,
                            <<clear, top(Connect), low(Working)>>,
                            <<clear, top(Connect), low(Restart)>>}
  BY DEF Screen, clear, top, low
<1>5. \A k : Screen(k) \in Seq(LibCalls)
  BY <1>2, <1>3, <1>4
<1> QED BY <1>2, <1>3, <1>5 DEF clear, low, top

(* What a step of the programs does to the board.                          *)
BoardStep ==
  \/ UNCHANGED lcdVars
  \/ Halt
  \/ \E t \in Threads :
       \/ Boot(t) \/ BootFails(t) \/ Transfer(t)
       \/ \E items \in LibCalls \cup {LCD1602GetKey} :
            Call(t, items) /\ (items \in LibCalls \/ t = Key)

LEMMA ProgramSteps ==
  ASSUME ScriptInv, [Next]_vars
  PROVE  BoardStep /\ ScriptInv'
<1>0. Key \in Threads /\ Sock \in Threads /\ Main \in Threads
  BY ThreadsAssumption, MainAssumption
<1>s. script \in Seq(LibCalls) /\ <<>> \in Seq(LibCalls)
  BY Screens DEF ScriptInv
<1>h. script # <<>> => Head(script) \in LibCalls /\ Tail(script) \in Seq(LibCalls)
  BY <1>s, HeadTailProperties
<1>1. CASE UNCHANGED vars
  BY <1>1, <1>s DEF vars, nanoVars, keyVars, drawing, BoardStep, ScriptInv
<1>2. CASE NanoStart
  BY <1>2, <1>s DEF NanoStart, Fresh, BoardStep, ScriptInv
<1>3. CASE Ends
  BY <1>3, <1>s DEF Ends, Fresh, BoardStep, ScriptInv
<1>4. CASE KInit
  BY <1>4, <1>0, <1>s DEF KInit, drawing, BoardStep, ScriptInv
<1>5. CASE KBooted
  BY <1>5, <1>s, Screens DEF KBooted, BoardStep, ScriptInv
<1>6. CASE KDraw
  BY <1>6, <1>0, <1>s, <1>h DEF KDraw, BoardStep, ScriptInv
<1>7. CASE KPoll
  BY <1>7, <1>0, <1>s DEF KPoll, drawing, BoardStep, ScriptInv
<1>8. CASE KKey
  BY <1>8, <1>s, Screens DEF KKey, BoardStep, ScriptInv
<1>9. CASE KTail
  BY <1>9, <1>s, Screens DEF KTail, BoardStep, ScriptInv
<1>10. CASE KAddr
  BY <1>10, <1>s, Screens DEF KAddr, BoardStep, ScriptInv
<1>11. CASE KListen \/ KAccept \/ KSetServer \/ KSetClient
  BY <1>11, <1>s DEF KListen, KAccept, KSetServer, KSetClient, drawing, BoardStep, ScriptInv
<1>12. CASE STop \/ SRecv \/ SEchoFails \/ SClose
  BY <1>12, <1>s DEF STop, SRecv, SEchoFails, SClose, keyVars, drawing, BoardStep, ScriptInv
<1>13. CASE SEcho
  <2>1. LCD1602KeyClear \in LibCalls
    BY CallsMade
  <2> QED BY <1>13, <1>0, <1>s, <2>1 DEF SEcho, keyVars, drawing, BoardStep, ScriptInv
<1>14. CASE SShow
  <2>1. LCD1602KeyDispStr(0, 0, Chunk) \in LibCalls
    BY CallsMade, TextsAssumption
  <2> QED BY <1>14, <1>0, <1>s, <2>1 DEF SShow, keyVars, drawing, BoardStep, ScriptInv
<1>15. CASE Client
  BY <1>15, <1>s DEF Client, ClientConnect, ClientSend, ClientQuits, keyVars, drawing,
                     BoardStep, ScriptInv
<1>16. CASE (\E t \in {Key, Sock} : Transfer(t)) /\ UNCHANGED nanoVars
  BY <1>16, <1>0, <1>s DEF nanoVars, keyVars, drawing, BoardStep, ScriptInv
<1>17. CASE Demo /\ UNCHANGED nanoVars
  <2>1. ScriptInv'
    BY <1>17, <1>s DEF nanoVars, keyVars, drawing, ScriptInv
  <2>2. LCD1602Clear \in LibCalls /\ LCD1602DispLines(Title, By) \in LibCalls
    BY CallsMade
  <2>3. BoardStep
    BY <1>17, <1>0, <2>2 DEF Demo, DemoInit, DemoClear, DemoLines, DemoEnd, DemoKilled, BoardStep
  <2> QED BY <2>1, <2>3
<1> QED
  BY <1>1, <1>2, <1>3, <1>4, <1>5, <1>6, <1>7, <1>8, <1>9, <1>10, <1>11, <1>12, <1>13, <1>14,
     <1>15, <1>16, <1>17
  DEF Next, Nanopi, NanoNext, KeyThread1, SocketThread2, KReboot, SEchoSigpipe

LEMMA GetKeyReads == Reading(LCD1602GetKey)
BY DEF Reading

(* The board's invariant holds throughout.                                 *)
LEMMA LcdSteps ==
  ASSUME LcdInv, BoardStep
  PROVE  LcdInv'
<1>1. CASE UNCHANGED lcdVars
  BY <1>1, BoardStays DEF lcdVars, bus
<1>2. CASE Halt BY <1>2, HaltStep
<1>3. ASSUME NEW t \in Threads, Boot(t) PROVE LcdInv'
  BY <1>3, BootStep
<1>4. ASSUME NEW t \in Threads, BootFails(t) PROVE LcdInv'
  BY <1>4, BoardStays DEF BootFails, bus
<1>5. ASSUME NEW t \in Threads, Transfer(t) PROVE LcdInv'
  BY <1>5, TransferStep
<1>6. ASSUME NEW t \in Threads, NEW items \in LibCalls \cup {LCD1602GetKey},
             Call(t, items), items \in LibCalls \/ t = Key
      PROVE  LcdInv'
  BY <1>6, CallStep, CallsPlain, GetKeyReads
<1> QED BY <1>1, <1>2, <1>3, <1>4, <1>5, <1>6 DEF BoardStep

LEMMA BoardSpec == Spec => [](LcdInv /\ ScriptInv)
<1>1. Init => LcdInv /\ ScriptInv
  BY LcdInitInv, Screens DEF Init, NanoInit, ScriptInv
<1>2. LcdInv /\ ScriptInv /\ [Next]_vars => (LcdInv /\ ScriptInv)'
  BY ProgramSteps, LcdSteps
<1> QED BY <1>1, <1>2, PTL DEF Spec

(* In step, of the programs: while trusted, the controller holds the high  *)
(* half exactly while a thread owes it the low one, and En is high exactly *)
(* while a thread is about to clear it, for any threads, texts, faults and *)
(* restarts (pulseEnable, mcpWriteCmd8, LCD1602KeyInit, LCD1602Init).      *)
THEOREM InStepAlways == Spec => []InStep
<1>1. LcdInv /\ ScriptInv => InStep
  BY SteadyInStep
<1> QED BY <1>1, BoardSpec, PTL

-----------------------------------------------------------------------------
(* Before a read of the keys the expander is turned to their port.         *)
JustRead == <<Reg("read")>>
Reads    == want[Key] = JustRead => pointer = "B"

LEMMA NotRead ==
  /\ JustRead # <<>> /\ Head(JustRead).kind = "read"
  /\ \A w \in Seq(Plain) : w # JustRead
  /\ \A n \in 1 .. 11 : BootRest(n) # JustRead
  /\ LCD1602GetKey # JustRead
<1>1. Reg("read").kind = "read" /\ Reg("point").kind = "point" /\ Reg("read") \in Items
  BY DEF Reg, Items
<1>2. Reading(JustRead) /\ JustRead # <<>> /\ Head(JustRead) = Reg("read")
  <2> DEFINE r == Reg("read")
  <2>1. r \in Items
    BY <1>1
  <2> HIDE DEF r
  <2>2. <<r>> \in Seq(Items) /\ Len(<<r>>) = 1 /\ <<r>>[1] = r
    BY <2>1, Tuples
  <2>3. <<r>> # <<>> /\ Head(<<r>>) = r
    BY <2>2, EmptySeq
  <2> QED BY <2>3 DEF r, JustRead, Reading
<1>3. \A w \in Seq(Plain) : w # JustRead
  BY <1>1, <1>2, PlainSeqs, PlainItems
<1>4. ASSUME NEW n \in 1 .. 11 PROVE BootRest(n) # JustRead
  <2>1. Head(BootRest(n)) = BootItem[12 - n]
    BY BootRests
  <2>2. BootItem[12 - n].kind # "read"
    BY BootKinds
  <2> QED BY <1>1, <1>2, <2>1, <2>2
<1>5. LCD1602GetKey # JustRead
  <2>1. Len(LCD1602GetKey) = 2 /\ Len(JustRead) = 1
    BY DEF LCD1602GetKey, JustRead
  <2> QED BY <2>1
<1> QED BY <1>1, <1>2, <1>3, <1>4, <1>5

LEMMA ReadsSteps ==
  ASSUME LcdInv, Reads, KeyFromKeys, BoardStep
  PROVE  Reads' /\ KeyFromKeys'
<1>0. Key \in Threads /\ want \in [Threads -> Seq(Items)]
  BY ThreadsAssumption DEF LcdInv, LcdTypes
<1>i. LcdInv'
  BY LcdSteps
<1>b. booting' => want'[Key] # JustRead
  <2> SUFFICES ASSUME booting' PROVE want'[Key] # JustRead
    OBVIOUS
  <2>1. PICK t \in Threads, n \in 1 .. 11 : Boots(t, n)'
    BY <1>i DEF LcdInv, BootInv
  <2>2. want'[Key] = <<>> \/ want'[Key] = BootRest(n)
    BY <1>0, <2>1 DEF Boots, Idle
  <2> QED BY <2>2, NotRead
<1>1. CASE UNCHANGED lcdVars
  BY <1>1 DEF lcdVars, bus, Reads, KeyFromKeys
<1>2. CASE Halt
  BY <1>2, <1>0, NotRead DEF Halt, Reads, KeyFromKeys
<1>3. ASSUME NEW t \in Threads, Boot(t) PROVE Reads' /\ KeyFromKeys'
  BY <1>3, <1>b DEF Boot, Reads, KeyFromKeys
<1>4. ASSUME NEW t \in Threads, BootFails(t) PROVE Reads' /\ KeyFromKeys'
  BY <1>4 DEF BootFails, bus, Reads, KeyFromKeys
<1>5. ASSUME NEW t \in Threads, NEW items \in LibCalls \cup {LCD1602GetKey}, Call(t, items)
      PROVE  Reads' /\ KeyFromKeys'
  <2>1. items # JustRead
    BY CallsPlain, NotRead
  <2>2. want' = [want EXCEPT ![t] = items] /\ pointer' = pointer /\ keyValue' = keyValue
    BY <1>5 DEF Call, bus
  <2>3. want'[Key] = items \/ want'[Key] = want[Key]
    BY <1>0, <2>2
  <2> QED BY <2>1, <2>2, <2>3 DEF Reads, KeyFromKeys
<1>6. ASSUME NEW t \in Threads, McpWrite(t) \/ PcfWrite(t) PROVE Reads' /\ KeyFromKeys'
  <2>1. Write(t) /\ keyValue' = keyValue /\ pointer' \in {"B", pointer}
    BY <1>6 DEF McpWrite, PcfWrite, Write
  <2>2. KeyFromKeys'
    BY <2>1 DEF KeyFromKeys
  <2>3. ASSUME want'[Key] = JustRead PROVE want[Key] = JustRead
    <3>1. ~booting' /\ ~Idle(t) /\ OnPins(t) /\ Advance(t)
      BY <1>b, <2>1, <2>3 DEF Write, OnPins
    <3>2. CASE t # Key
      BY <1>0, <2>3, <3>1, <3>2, Advanced
    <3>3. CASE t = Key /\ booting
      <4>1. want'[Key] = <<>>
        BY <2>1, <3>1, <3>3 DEF Write
      <4> QED BY <2>3, <4>1, NotRead
    <3>4. CASE t = Key /\ ~booting
      <4>1. want[t] \in Seq(Plain) /\ want[t] # <<>>
        BY <3>1, <3>4, Heads DEF Idle
      <4>2. Tail(want[t]) \in Seq(Plain)
        BY ONLY <4>1, PlainSeqs
      <4>3. want'[t] \in {want[t], Tail(want[t])}
        BY <3>1, Advanced
      <4> QED BY <2>3, <3>4, <4>1, <4>2, <4>3, NotRead
    <3> QED BY <3>2, <3>3, <3>4
  <2> QED BY <2>1, <2>2, <2>3 DEF Reads
<1>7. ASSUME NEW t \in Threads, Register(t) PROVE Reads' /\ KeyFromKeys'
  <2>1. /\ ~Idle(t) /\ ~OnPins(t) /\ Advance(t) /\ booting' = booting
        /\ Item(t).kind = "point" => pointer' = "B"
        /\ Item(t).kind # "read" => keyValue' = keyValue
        /\ Item(t).kind = "read" /\ pointer = "B" => keyValue' \in Keys
    BY <1>7 DEF Register
  <2>2. CASE booting
    <3>1. PICK n \in 1 .. 11 : Boots(t, n)
      BY <2>1, <2>2, Heads
    <3>2. Item(t) = BootItem[12 - n]
      BY <3>1, BootRests DEF Boots, Item
    <3>3. n \in 9 .. 11
      BY <2>1, <3>2, BootKinds DEF OnPins
    <3>4. Item(t).kind # "read"
      BY <3>2, <3>3, BootKinds
    <3> QED BY <1>b, <2>1, <2>2, <3>4 DEF Reads, KeyFromKeys
  <2>3. CASE ~booting
    <3>1. t = Key /\ Reading(want[t]) /\ Item(t) \in {Reg("point"), Reg("read")}
      BY <2>1, <2>3, Heads, ReadSeqs DEF Item
    <3>2. Transfers(Item(t)) = 1 /\ step[t] \in 0 .. 5 /\ step[t] < Transfers(Item(t))
      BY <2>1, Heads, TransferCounts DEF OnPins
    <3>3. want'[t] = Tail(want[t])
      BY <2>1, <3>2, Advanced DEF Last
    <3>4. CASE Item(t) = Reg("point")
      <4>1. Item(t).kind = "point"
        BY <3>4 DEF Reg
      <4> QED BY <2>1, <4>1 DEF Reads, KeyFromKeys
    <3>5. CASE Item(t) = Reg("read")
      <4>1. Item(t).kind = "read" /\ Reg("read") # Reg("point")
        BY <3>5 DEF Reg
      <4>2. want[t] = JustRead
        <5>1. want[t] # LCD1602GetKey
          <6>1. ASSUME want[t] = LCD1602GetKey PROVE FALSE
            <7>1. Head(LCD1602GetKey) = Reg("point")
              BY DEF LCD1602GetKey
            <7> QED BY <3>5, <4>1, <6>1, <7>1 DEF Item
          <6> QED BY <6>1
        <5> QED BY <3>1, <5>1 DEF Reading, JustRead
      <4>3. pointer = "B"
        BY <3>1, <4>2 DEF Reads
      <4>4. want'[t] = <<>>
        BY <3>1, <3>3, <3>5, ReadSeqs DEF Item
      <4>5. keyValue' # PortA
        BY <2>1, <4>1, <4>3, KeysAssumption
      <4> QED BY <3>1, <4>4, <4>5, NotRead DEF Reads, KeyFromKeys
    <3> QED BY <3>1, <3>4, <3>5
  <2> QED BY <2>2, <2>3
<1>8. ASSUME NEW t \in Threads, Fails(t) PROVE Reads' /\ KeyFromKeys'
  <2>1. keyValue' \in {keyValue, Failed} /\ pointer' = pointer
    BY <1>8 DEF Fails
  <2>2. KeyFromKeys'
    BY <2>1 DEF KeyFromKeys, PortA, Failed
  <2>3. CASE Item(t).kind \in {"iocon", "iodira", "iodirb"}
    <3>1. ~Idle(t) /\ booting' = booting
      BY <1>8, <2>3 DEF Fails
    <3>2. booting
      <4>1. ASSUME ~booting PROVE FALSE
        <5>1. ~OnPins(t)
          BY <2>3 DEF OnPins
        <5> QED BY <2>3, <3>1, <4>1, <5>1, Heads, ReadSeqs DEF Item, Reg
      <4> QED BY <4>1
    <3> QED BY <1>b, <2>2, <3>1, <3>2 DEF Reads
  <2>4. CASE Item(t).kind \notin {"iocon", "iodira", "iodirb"}
    <3>1. want' = [want EXCEPT ![t] = <<>>]
      BY <1>8, <2>4 DEF Fails
    <3>2. want'[Key] = <<>> \/ want'[Key] = want[Key]
      BY <1>0, <3>1
    <3> QED BY <2>1, <2>2, <3>2, NotRead DEF Reads
  <2> QED BY <2>3, <2>4
<1> QED BY <1>1, <1>2, <1>3, <1>4, <1>5, <1>6, <1>7, <1>8 DEF BoardStep, Transfer

(* GetKey returns what the key port reads, however another thread's writes *)
(* to the display fall between its two transfers (I2CReadByteFrom).        *)
THEOREM KeyFromKeysAlways == Spec => []KeyFromKeys
<1>1. Init => Reads /\ KeyFromKeys
  <2>1. Init => want[Key] = <<>> /\ keyValue = Failed
    BY ThreadsAssumption DEF Init, LcdInit
  <2> QED BY <2>1, NotRead DEF Reads, KeyFromKeys, PortA, Failed
<1>2. LcdInv /\ ScriptInv /\ Reads /\ KeyFromKeys /\ [Next]_vars => Reads' /\ KeyFromKeys'
  BY ProgramSteps, ReadsSteps
<1> QED BY <1>1, <1>2, BoardSpec, PTL DEF Spec

-----------------------------------------------------------------------------
(* The session.  Once a listening socket is open no other one is made, so  *)
(* that the globals are set once, the server's first, and the socket       *)
(* thread, which waits for both, finds those of the one session there is.  *)
Running == spc \in {"wait", "recv", "echo", "cleared", "close"}
Leading == {"poll", "tail", "addr", "create", "reboot"}
SessionInv ==
  Running =>
    /\ kpc \in {"accept", "lock", "set"} => listening = made /\ made > 0 /\ clientSock = 0
    /\ kpc = "set" => serverSock = made
    /\ clientSock # 0 => serverSock = clientSock /\ listening = clientSock
    /\ spc # "wait" => clientSock = serving /\ clientSock # 0

LEMMA SessionSteps ==
  ASSUME SessionInv, made \in Nat, after \in Leading, [Next]_vars
  PROVE  SessionInv' /\ made' \in Nat /\ after' \in Leading
<1>1. CASE UNCHANGED vars
  BY <1>1 DEF vars, nanoVars, keyVars, drawing, socket, sessions, globals, SessionInv, Running
<1>2. CASE NanoStart
  BY <1>2 DEF NanoStart, Fresh, SessionInv, Running, Leading
<1>3. CASE Ends
  BY <1>3 DEF Ends, Fresh, SessionInv, Running, Leading
<1>4. CASE KInit \/ KBooted \/ KPoll \/ KKey \/ KTail \/ KAddr
  BY <1>4 DEF KInit, KBooted, KPoll, KKey, KTail, KAddr, KAt, drawing, socket, sessions, globals,
              Leads, Leading, SessionInv, Running
<1>5. CASE KDraw
  BY <1>5 DEF KDraw, KAt, socket, sessions, globals, Leading, SessionInv, Running
<1>6. CASE KListen
  BY <1>6 DEF KListen, KAt, PortFree, drawing, socket, globals, SessionInv, Running
<1>7. CASE KAccept
  BY <1>7 DEF KAccept, KAt, drawing, socket, sessions, globals, SessionInv, Running
<1>8. CASE KSetServer
  BY <1>8 DEF KSetServer, KAt, drawing, socket, SessionInv, Running
<1>9. CASE KSetClient
  BY <1>9 DEF KSetClient, KAt, drawing, socket, SessionInv, Running
<1>10. CASE STop
  BY <1>10 DEF STop, SAt, keyVars, drawing, sessions, globals, SessionInv, Running
<1>11. CASE SRecv \/ SEcho \/ SEchoFails \/ SShow
  BY <1>11 DEF SRecv, SEcho, SEchoFails, SShow, SAt, keyVars, drawing, sessions, globals,
               SessionInv, Running
<1>12. CASE SClose
  BY <1>12 DEF SClose, keyVars, drawing, SessionInv, Running
<1>13. CASE Client
  BY <1>13 DEF Client, ClientConnect, ClientSend, ClientQuits, keyVars, drawing, socket, globals,
               SessionInv, Running
<1>14. CASE UNCHANGED nanoVars
  BY <1>14 DEF nanoVars, keyVars, drawing, socket, sessions, globals, SessionInv, Running
<1> QED
  BY <1>1, <1>2, <1>3, <1>4, <1>5, <1>6, <1>7, <1>8, <1>9, <1>10, <1>11, <1>12, <1>13, <1>14
  DEF Next, Nanopi, NanoNext, KeyThread1, SocketThread2, KReboot, SEchoSigpipe

(* However often F1 makes the key thread call CreatServer, the sockets the *)
(* socket thread receives on, answers on and closes are those of the one   *)
(* session it took up, although it reads the globals without the mutex     *)
(* (CreatServer, SocketThread2).                                           *)
THEOREM SessionOwnAlways == Spec => []SessionOwn
<1> DEFINE IInv == SessionInv /\ made \in Nat /\ after \in Leading
<1>1. Init => IInv
  BY DEF Init, NanoInit, SessionInv, Running, Leading
<1>2. IInv /\ [Next]_vars => IInv'
  BY SessionSteps
<1>3. IInv => SessionOwn
  BY DEF SessionInv, Running, SessionOwn
<1> QED BY <1>1, <1>2, <1>3, PTL DEF Spec

-----------------------------------------------------------------------------
(* What the calls mean to the display of two lines.                        *)
Addresses == (0 .. 39) \cup (64 .. 103)

LEMMA MeaningPlain ==
  ASSUME NEW i \in Plain
  PROVE  /\ Meaning(i) \in Line!Ops
         /\ i.kind = "data" => Meaning(i) = Line!Put(i.byte)
         /\ i.kind = "cmd" /\ i.byte = 1 => Meaning(i) = Line!Clear
         /\ i.kind = "cmd" /\ i.byte # 1 =>
              /\ Meaning(i) = Line!Move(Place(i.byte - 128))
              /\ i.byte - 128 \in Addresses
<1>0. i.byte \in 0 .. 255 /\ i.kind \in {"cmd", "data"}
  BY PlainItems
<1>1. CASE i.kind = "data"
  <2>1. Meaning(i) = Line!Put(i.byte)
    BY <1>1 DEF Meaning, Line!Put
  <2>2. Line!Put(i.byte) \in Line!Ops
    BY <1>0 DEF Line!Put, Line!Ops
  <2> QED BY <1>1, <2>1, <2>2
<1>2. CASE i.kind = "cmd" /\ i.byte = 1
  <2>1. Meaning(i) = Line!Clear
    BY <1>2 DEF Meaning, Line!Clear
  <2> QED BY <1>2, <2>1 DEF Line!Ops
<1>3. CASE i.kind = "cmd" /\ i.byte # 1
  <2>1. i.byte \in Moves
    BY <1>3 DEF Plain
  <2>2. PICK x \in Columns, y \in {0, 1} : i.byte = (y + 2) * 64 + x
    BY <2>1 DEF Moves, Address
  <2>3. x \in 0 .. 39
    BY ColumnsAssumption
  <2>4. i.byte >= 128 /\ i.byte - 128 = 64 * y + x /\ i.byte - 128 \in Addresses
    <3>1. CASE y = 0 BY <2>2, <2>3, <3>1 DEF Addresses
    <3>2. CASE y = 1 BY <2>2, <2>3, <3>2 DEF Addresses
    <3> QED BY <3>1, <3>2
  <2>5. Place(i.byte - 128) = <<x, y>>
    <3>1. CASE y = 0 BY <2>3, <2>4, <3>1 DEF Place
    <3>2. CASE y = 1 BY <2>3, <2>4, <3>2 DEF Place
    <3> QED BY <3>1, <3>2
  <2>6. Meaning(i) = Line!Move(Place(i.byte - 128))
    BY <1>0, <1>3, <2>4 DEF Meaning, Line!Move
  <2>7. <<x, y>> \in Line!Places
    BY DEF Line!Places
  <2>8. Line!Move(<<x, y>>) \in Line!Ops
    BY <2>7 DEF Line!Move, Line!Ops
  <2> QED BY <1>3, <2>4, <2>5, <2>6, <2>8
<1> QED BY <1>0, <1>1, <1>2, <1>3

LEMMA NothingMeant == Meant(<<>>) = <<>>
<1> DEFINE m == [n \in 1 .. Len(<<>>) |-> Meaning(<<>>[n])]
<1>1. m \in [1 .. 0 -> Line!Ops]
  OBVIOUS
<1>2. m \in Seq(Line!Ops) /\ Len(m) = 0
  BY <1>1
<1>3. Meant(<<>>) = m
  BY DEF Meant, ReadsKey
<1> HIDE DEF m
<1> QED BY <1>2, <1>3, NoItems

LEMMA ReadingMeant == ASSUME NEW w, Reading(w) PROVE Meant(w) = <<>>
<1>1. w # <<>> /\ Head(w) \in {Reg("point"), Reg("read")}
  BY ReadSeqs
<1>2. Head(w).kind \in {"point", "read"}
  BY <1>1 DEF Reg
<1> QED BY <1>1, <1>2 DEF Meant, ReadsKey

LEMMA PlainMeant ==
  ASSUME NEW w \in Seq(Plain)
  PROVE  /\ Meant(w) = [n \in 1 .. Len(w) |-> Meaning(w[n])]
         /\ Meant(w) \in Seq(Line!Ops) /\ Len(Meant(w)) = Len(w)
         /\ \A n \in 1 .. Len(w) : Meant(w)[n] = Meaning(w[n])
<1>1. ~ReadsKey(w)
  BY PlainSeqs, PlainItems DEF ReadsKey
<1>2. Meant(w) = [n \in 1 .. Len(w) |-> Meaning(w[n])]
  BY <1>1 DEF Meant
<1>3. \A n \in 1 .. Len(w) : Meaning(w[n]) \in Line!Ops
  <2> SUFFICES ASSUME NEW n \in 1 .. Len(w) PROVE Meaning(w[n]) \in Line!Ops
    OBVIOUS
  <2>1. w[n] \in Plain
    BY ElementOfSeq
  <2> QED BY <2>1, MeaningPlain
<1>4. /\ Meant(w) \in Seq(Line!Ops) /\ Len(Meant(w)) = Len(w)
      /\ \A n \in 1 .. Len(w) : Meant(w)[n] = Meaning(w[n])
  <2>1. Meant(w) \in [1 .. Len(w) -> Line!Ops] /\ Len(w) \in Nat
    BY <1>2, <1>3
  <2> QED BY <1>2, <2>1
<1> QED BY <1>2, <1>4

LEMMA HeadMeant ==
  ASSUME NEW w \in Seq(Plain), w # <<>>
  PROVE  /\ Meant(w) # <<>> /\ Head(Meant(w)) = Meaning(Head(w))
         /\ Tail(Meant(w)) = Meant(Tail(w))
<1> DEFINE v == Tail(w)
<1> DEFINE mw == Meant(w)
<1> DEFINE mv == Meant(v)
<1>1. /\ v \in Seq(Plain) /\ Len(v) = Len(w) - 1 /\ Len(w) \in Nat /\ Len(w) > 0
      /\ Head(w) = w[1] /\ \A n \in 1 .. Len(v) : v[n] = w[n + 1]
  BY HeadTailProperties, EmptySeq
<1>2. /\ mw \in Seq(Line!Ops) /\ Len(mw) = Len(w)
      /\ \A n \in 1 .. Len(w) : mw[n] = Meaning(w[n])
  BY PlainMeant
<1> HIDE DEF v
<1>3. /\ mv \in Seq(Line!Ops) /\ Len(mv) = Len(v)
      /\ \A n \in 1 .. Len(v) : mv[n] = Meaning(v[n])
  BY <1>1, PlainMeant
<1> HIDE DEF mw, mv
<1>4. /\ mw # <<>> /\ Head(mw) = mw[1] /\ Tail(mw) \in Seq(Line!Ops)
      /\ Len(Tail(mw)) = Len(mw) - 1
      /\ \A n \in 1 .. Len(Tail(mw)) : Tail(mw)[n] = mw[n + 1]
  <2>1. mw # <<>>
    BY <1>1, <1>2, EmptySeq
  <2> QED BY <1>2, <2>1, HeadTailProperties
<1>5. \A n \in 1 .. Len(v) : n + 1 \in 1 .. Len(w)
  BY <1>1
<1>6. \A n \in 1 .. Len(v) : Tail(mw)[n] = mv[n]
  <2> SUFFICES ASSUME NEW n \in 1 .. Len(v) PROVE Tail(mw)[n] = mv[n]
    OBVIOUS
  <2>1. Tail(mw)[n] = mw[n + 1]
    BY <1>1, <1>2, <1>4
  <2>2. mw[n + 1] = Meaning(w[n + 1])
    BY <1>2, <1>5
  <2>3. v[n] = w[n + 1]
    BY <1>1
  <2>4. mv[n] = Meaning(v[n])
    BY <1>3
  <2> QED BY <2>1, <2>2, <2>3, <2>4
<1>7. Tail(mw) = mv
  <2>1. Len(Tail(mw)) = Len(mv) /\ \A n \in 1 .. Len(Tail(mw)) : Tail(mw)[n] = mv[n]
    BY <1>1, <1>2, <1>3, <1>4, <1>6
  <2> QED BY ONLY <1>3, <1>4, <2>1, SeqEqual
<1>8. Head(mw) = Meaning(Head(w))
  BY <1>1, <1>2, <1>4
<1> QED BY <1>4, <1>7, <1>8 DEF mw, mv, v

(* An initialisation means setting up.                                     *)
LEMMA BootMeant == ASSUME NEW n \in 1 .. 11 PROVE Meant(BootRest(n)) \in Seq(Line!Ops)
<1> DEFINE w == BootRest(n)
<1>1. \A k \in 1 .. 11 : Meaning(BootItem[k]) = [op |-> "setup"]
  <2>1. \A k \in 1 .. 11 : /\ BootItem[k].kind # "data"
                           /\ BootItem[k].kind = "cmd" => BootItem[k].byte \in {40, 12, 6, 2}
    BY BootFields
  <2> QED BY <2>1 DEF Meaning
<1>2. [op |-> "setup"] \in Line!Ops
  BY DEF Line!Ops, Line!Setup
<1>3. \A k \in 1 .. n : w[k] = BootItem[11 - n + k] /\ 11 - n + k \in 1 .. 11
  BY DEF BootRest
<1>4. Len(w) = n /\ n \in Nat
  <2>1. Len(BootRest(n)) = n
    BY BootRests
  <2> QED BY <2>1
<1>5. \A k \in 1 .. n : Meaning(w[k]) \in Line!Ops
  <2> SUFFICES ASSUME NEW k \in 1 .. n PROVE Meaning(w[k]) \in Line!Ops
    OBVIOUS
  <2> DEFINE j == 11 - n + k
  <2>1. j \in 1 .. 11 /\ w[k] = BootItem[j]
    BY <1>3
  <2> HIDE DEF j, w
  <2>2. Meaning(BootItem[j]) \in Line!Ops
    BY <1>1, <1>2, <2>1
  <2> QED BY <2>1, <2>2
<1> HIDE DEF w
<1>6. [k \in 1 .. Len(w) |-> Meaning(w[k])] \in Seq(Line!Ops)
  <2>1. [k \in 1 .. Len(w) |-> Meaning(w[k])] \in [1 .. n -> Line!Ops]
    BY <1>4, <1>5
  <2> QED BY <1>4, <2>1
<1>7. Meant(w) \in Seq(Line!Ops)
  BY <1>6, EmptySeq DEF Meant
<1> QED BY <1>7 DEF w

LEMMA AllMeant ==
  ASSUME NEW w, w \in Seq(Plain) \/ Reading(w) \/ \E n \in 1 .. 11 : w = BootRest(n)
  PROVE  Meant(w) \in Seq(Line!Ops)
<1>1. CASE w \in Seq(Plain) BY <1>1, PlainMeant
<1>2. CASE Reading(w) BY <1>2, ReadingMeant, EmptySeq
<1>3. CASE \E n \in 1 .. 11 : w = BootRest(n) BY <1>3, BootMeant
<1> QED BY <1>1, <1>2, <1>3

(* The library's calls mean the display's.                                 *)
LEMMA MeantTogether ==
  ASSUME NEW a \in Seq(Plain), NEW b \in Seq(Plain)
  PROVE  Meant(a \o b) = Meant(a) \o Meant(b)
<1> DEFINE ab == a \o b
<1> DEFINE ma == Meant(a)
<1> DEFINE mb == Meant(b)
<1> DEFINE mab == Meant(ab)
<1> DEFINE c == ma \o mb
<1>1. /\ ab \in Seq(Plain) /\ Len(ab) = Len(a) + Len(b) /\ Len(a) \in Nat /\ Len(b) \in Nat
      /\ \A n \in 1 .. Len(a) + Len(b) : ab[n] = IF n <= Len(a) THEN a[n] ELSE b[n - Len(a)]
  BY ConcatProperties
<1>2. /\ ma \in Seq(Line!Ops) /\ Len(ma) = Len(a) /\ \A n \in 1 .. Len(a) : ma[n] = Meaning(a[n])
      /\ mb \in Seq(Line!Ops) /\ Len(mb) = Len(b) /\ \A n \in 1 .. Len(b) : mb[n] = Meaning(b[n])
  BY PlainMeant
<1> HIDE DEF ab
<1>3. /\ mab \in Seq(Line!Ops) /\ Len(mab) = Len(ab)
      /\ \A n \in 1 .. Len(ab) : mab[n] = Meaning(ab[n])
  BY <1>1, PlainMeant
<1> HIDE DEF ma, mb, mab
<1>4. /\ c \in Seq(Line!Ops) /\ Len(c) = Len(ma) + Len(mb)
      /\ \A n \in 1 .. Len(ma) + Len(mb) : c[n] = IF n <= Len(ma) THEN ma[n] ELSE mb[n - Len(ma)]
  <2> DEFINE O == Line!Ops
  <2>1. ma \in Seq(O) /\ mb \in Seq(O)
    BY <1>2
  <2> HIDE DEF O
  <2>2. /\ c \in Seq(O) /\ Len(c) = Len(ma) + Len(mb)
        /\ \A n \in 1 .. Len(ma) + Len(mb) : c[n] = IF n <= Len(ma) THEN ma[n] ELSE mb[n - Len(ma)]
    BY ONLY <2>1, ConcatProperties
  <2> QED BY <2>2 DEF O
<1> HIDE DEF c
<1>5. \A n \in 1 .. Len(ab) : mab[n] = c[n]
  <2> SUFFICES ASSUME NEW n \in 1 .. Len(ab) PROVE mab[n] = c[n]
    OBVIOUS
  <2>0. n \in 1 .. Len(a) + Len(b)
    BY <1>1
  <2>1. mab[n] = Meaning(ab[n])
    BY <1>3
  <2>2. CASE n <= Len(a)
    <3>1. ab[n] = a[n]
      BY <1>1, <2>0, <2>2
    <3>2. c[n] = ma[n]
      BY <1>2, <1>4, <2>0, <2>2
    <3>3. ma[n] = Meaning(a[n])
      BY <1>1, <1>2, <2>0, <2>2
    <3> QED BY <2>1, <3>1, <3>2, <3>3
  <2>3. CASE ~(n <= Len(a))
    <3> DEFINE j == n - Len(a)
    <3>0. j \in 1 .. Len(b)
      BY <1>1, <2>0, <2>3
    <3>1. ab[n] = b[j]
      BY <1>1, <2>0, <2>3
    <3>2. c[n] = mb[j]
      BY <1>2, <1>4, <2>0, <2>3
    <3> HIDE DEF j
    <3>3. mb[j] = Meaning(b[j])
      BY <1>2, <3>0
    <3> QED BY <2>1, <3>1, <3>2, <3>3
  <2> QED BY <2>2, <2>3
<1>6. mab = c
  <2>1. Len(mab) = Len(c) /\ \A n \in 1 .. Len(mab) : mab[n] = c[n]
    BY <1>1, <1>2, <1>3, <1>4, <1>5
  <2> QED BY ONLY <1>3, <1>4, <2>1, SeqEqual
<1> QED BY <1>6 DEF mab, c, ma, mb, ab

LEMMA CharMeant ==
  ASSUME NEW s \in Texts
  PROVE  LET text == [n \in 1 .. Len(s) |-> Data(s[n])]
             puts == [n \in 1 .. Len(s) |-> Line!Put(s[n])]
         IN  text \in Seq(Plain) /\ Meant(text) = puts
<1> DEFINE text == [n \in 1 .. Len(s) |-> Data(s[n])]
<1> DEFINE puts == [n \in 1 .. Len(s) |-> Line!Put(s[n])]
<1>0. Len(s) \in Nat
  BY CharsAssumption
<1>1. \A n \in 1 .. Len(s) : Data(s[n]) \in Plain /\ Meaning(Data(s[n])) = Line!Put(s[n])
  <2> SUFFICES ASSUME NEW n \in 1 .. Len(s)
               PROVE  Data(s[n]) \in Plain /\ Meaning(Data(s[n])) = Line!Put(s[n])
    OBVIOUS
  <2> DEFINE c == s[n]
  <2>1. c \in 0 .. 255
    BY CharsAssumption, ElementOfSeq
  <2> HIDE DEF c
  <2>2. Data(c) \in Items /\ Data(c).kind = "data" /\ Data(c).byte = c
    BY <2>1 DEF Items, Data
  <2>3. Data(c) \in Plain
    BY <2>2 DEF Plain
  <2>4. Meaning(Data(c)) = Line!Put(Data(c).byte)
    BY <2>2, <2>3, MeaningPlain
  <2> QED BY <2>2, <2>3, <2>4 DEF c
<1>2. text \in Seq(Plain) /\ Len(text) = Len(s) /\ \A n \in 1 .. Len(s) : text[n] = Data(s[n])
  <2>1. text \in [1 .. Len(s) -> Plain]
    BY <1>1
  <2> QED BY <1>0, <2>1
<1>3. Meant(text) = [n \in 1 .. Len(text) |-> Meaning(text[n])]
  <2> HIDE DEF text
  <2> QED BY <1>2, PlainMeant
<1>4. Meant(text) = puts
  <2> HIDE DEF text
  <2>1. \A n \in 1 .. Len(s) : Meaning(text[n]) = Line!Put(s[n])
    BY <1>1, <1>2
  <2>2. Meant(text) = [n \in 1 .. Len(s) |-> Meaning(text[n])]
    BY <1>2, <1>3
  <2> QED BY <2>1, <2>2
<1> QED BY <1>2, <1>4

LEMMA OneMeant ==
  ASSUME NEW i \in Plain
  PROVE  <<i>> \in Seq(Plain) /\ Meant(<<i>>) = <<Meaning(i)>>
<1> DEFINE w == <<i>>
<1> DEFINE m == Meaning(i)
<1>1. w \in Seq(Plain) /\ Len(w) = 1 /\ w[1] = i
  BY Tuples
<1>2. m \in Line!Ops
  BY MeaningPlain
<1> HIDE DEF w
<1>3. Meant(w) \in Seq(Line!Ops) /\ Len(Meant(w)) = 1 /\ Meant(w)[1] = m
  BY <1>1, PlainMeant
<1> HIDE DEF m
<1> DEFINE v == <<m>>
<1>4. v \in Seq(Line!Ops) /\ Len(v) = 1 /\ v[1] = m
  BY <1>2, Tuples
<1> DEFINE mw == Meant(w)
<1> HIDE DEF v, mw
<1>5. mw \in Seq(Line!Ops) /\ Len(mw) = 1 /\ mw[1] = m
  BY <1>3 DEF mw
<1>6. mw = v
  <2>1. Len(mw) = Len(v) /\ \A n \in 1 .. Len(mw) : mw[n] = v[n]
    <3>1. \A n \in 1 .. Len(mw) : n = 1
      BY ONLY <1>5
    <3>2. mw[1] = v[1]
      BY ONLY <1>4, <1>5
    <3> QED BY ONLY <1>4, <1>5, <3>1, <3>2
  <2> QED BY ONLY <1>4, <1>5, <2>1, SeqEqual
<1> QED BY <1>1, <1>6 DEF v, m, w, mw

LEMMA DispMeant ==
  ASSUME NEW x \in Columns, NEW y \in {0, 1}, NEW s \in Texts
  PROVE  Meant(DispStr(x, y, s)) = Line!Text(<<x, y>>, s)
<1> DEFINE b == Address(x, y)
<1> DEFINE i == Cmd(b)
<1> DEFINE text == [n \in 1 .. Len(s) |-> Data(s[n])]
<1> DEFINE puts == [n \in 1 .. Len(s) |-> Line!Put(s[n])]
<1>1. b \in Moves /\ x \in 0 .. 39 /\ b = (y + 2) * 64 + x
  BY ColumnsAssumption DEF Moves, Address
<1> HIDE DEF b
<1>2. i \in Plain /\ i.kind = "cmd" /\ i.byte = b /\ b # 1
  <2>1. b \in 0 .. 255 /\ b # 1
    BY <1>1, MovesRange
  <2>2. i.kind = "cmd" /\ i.byte = b /\ i \in Items
    BY <2>1 DEF Items, Cmd
  <2> QED BY <1>1, <2>1, <2>2 DEF Plain
<1>3. Place(b - 128) = <<x, y>>
  <2>1. CASE y = 0
    <3>1. b - 128 = x /\ x < 64
      BY <1>1, <2>1
    <3> QED BY <2>1, <3>1 DEF Place
  <2>2. CASE y = 1
    <3>1. b - 128 = x + 64 /\ ~(x + 64 < 64) /\ (x + 64) - 64 = x
      BY <1>1, <2>2
    <3> QED BY <2>2, <3>1 DEF Place
  <2> QED BY <2>1, <2>2
<1>4. Meaning(i) = Line!Move(<<x, y>>)
  BY <1>2, <1>3, MeaningPlain
<1>5. DispStr(x, y, s) = <<i>> \o text
  BY DEF DispStr, b
<1> HIDE DEF i
<1>6. <<i>> \in Seq(Plain) /\ Meant(<<i>>) = <<Line!Move(<<x, y>>)>>
  BY <1>2, <1>4, OneMeant
<1>7. text \in Seq(Plain) /\ Meant(text) = puts
  BY CharMeant
<1> DEFINE one == <<i>>
<1> HIDE DEF text, one
<1>8. Meant(one \o text) = Meant(one) \o Meant(text)
  BY <1>6, <1>7, MeantTogether DEF one
<1>9. Line!Text(<<x, y>>, s) = <<Line!Move(<<x, y>>)>> \o puts
  BY DEF Line!Text
<1> QED BY <1>5, <1>6, <1>7, <1>8, <1>9 DEF one

LEMMA CallsMeant ==
  ASSUME NEW w \in LibCalls
  PROVE  Meant(w) \in Line!Calls /\ Meant(w) # <<>>
<1>0. w \in Seq(Plain)
  BY CallsPlain
<1>1. w # <<>>
  <2>1. CASE w = <<Cmd(1)>> BY <2>1
  <2>2. CASE w \in Strings
    <3>1. PICK x \in Columns, y \in {0, 1}, s \in Texts : w = DispStr(x, y, s)
      BY <2>2 DEF Strings
    <3> QED BY <3>1, StringsLong
  <2>3. CASE w \in {LCD1602DispLines(s1, s2) : s1 \in Texts, s2 \in Texts}
    <3>1. PICK s1 \in Texts, s2 \in Texts : w = LCD1602DispLines(s1, s2)
      BY <2>3
    <3> DEFINE a == DispStr(0, 0, s1)
    <3> DEFINE b == DispStr(0, 1, s2)
    <3>2. a \in Seq(Plain) /\ b \in Seq(Plain) /\ Len(a) > 0
      BY ColumnsAssumption, StringsPlain, StringsLong
    <3>3. w = a \o b
      BY <3>1 DEF LCD1602DispLines
    <3> HIDE DEF a, b
    <3>4. Len(w) = Len(a) + Len(b) /\ Len(b) \in Nat /\ Len(a) \in Nat
      BY <3>2, <3>3, ConcatProperties
    <3>5. Len(w) > 0
      BY <3>2, <3>4
    <3> QED BY <1>0, <3>5, EmptySeq
  <2> QED BY <2>1, <2>2, <2>3 DEF LibCalls
<1>2. Meant(w) # <<>>
  BY <1>0, <1>1, HeadMeant
<1>3. CASE w = <<Cmd(1)>>
  <2> DEFINE i == Cmd(1)
  <2>1. i \in Plain /\ i.kind = "cmd" /\ i.byte = 1
    BY DEF Plain, Items, Cmd
  <2> HIDE DEF i
  <2>2. Meant(<<i>>) = <<Line!Clear>>
    BY <2>1, OneMeant, MeaningPlain
  <2> QED BY <1>2, <1>3, <2>2 DEF i, Line!Calls
<1>4. CASE w \in Strings
  <2>1. PICK x \in Columns, y \in {0, 1}, s \in Texts : w = DispStr(x, y, s)
    BY <1>4 DEF Strings
  <2>2. Meant(w) = Line!Text(<<x, y>>, s) /\ <<x, y>> \in Line!Places
    BY <2>1, DispMeant DEF Line!Places
  <2> QED BY <1>2, <2>2 DEF Line!Calls
<1>5. CASE w \in {LCD1602DispLines(s1, s2) : s1 \in Texts, s2 \in Texts}
  <2>1. PICK s1 \in Texts, s2 \in Texts : w = LCD1602DispLines(s1, s2)
    BY <1>5
  <2> DEFINE a == DispStr(0, 0, s1)
  <2> DEFINE b == DispStr(0, 1, s2)
  <2>2. /\ a \in Seq(Plain) /\ Meant(a) = Line!Text(<<0, 0>>, s1)
        /\ b \in Seq(Plain) /\ Meant(b) = Line!Text(<<0, 1>>, s2)
    BY ColumnsAssumption, StringsPlain, DispMeant
  <2>3. w = a \o b
    BY <2>1 DEF LCD1602DispLines
  <2> HIDE DEF a, b
  <2>4. Meant(w) = Meant(a) \o Meant(b)
    BY <2>2, <2>3, MeantTogether
  <2>5. Meant(w) = Line!Lines(<<s1, s2>>)
    BY <2>2, <2>4 DEF Line!Lines
  <2> QED BY <1>2, <2>5 DEF Line!Calls
<1> QED BY <1>3, <1>4, <1>5 DEF LibCalls

-----------------------------------------------------------------------------
(* The controller's memory, seen as the display of two lines.              *)
Memory == IF trusted THEN at \in Addresses ELSE shown = AllOf(Unknown) /\ at = NoWhere

Shown  == [p \in Columns \X {0, 1} |-> shown[Cell(p)]]
Cursor == IF at = NoWhere THEN <<-1, 0>> ELSE Place(at)
Todo   == [t \in Threads |-> Meant(want[t])]

(* The byte the controller executes is the item's, undisturbed.            *)
LEMMA ExecutedByte ==
  ASSUME LcdInv, NEW t \in Threads, Write(t), trusted, trusted'
  PROVE  /\ ~booting /\ ~booting'
         /\ want[t] \in Seq(Plain) /\ want[t] # <<>> /\ Item(t) \in Plain
         /\ \A u \in Threads : u # t => want'[u] = want[u]
         /\ ~Last(t) => want'[t] = want[t] /\ shown' = shown /\ at' = at
         /\ Last(t) =>
              /\ want'[t] = Tail(want[t])
              /\ Item(t).kind = "data" =>
                   /\ shown' = [a \in Cells |-> IF a = at THEN Item(t).byte ELSE shown[a]]
                   /\ at' = NextAddress(at)
              /\ Item(t).kind = "cmd" /\ Item(t).byte = 1 => shown' = AllOf(Blank) /\ at' = 0
              /\ Item(t).kind = "cmd" /\ Item(t).byte # 1 =>
                   shown' = shown /\ at' = Item(t).byte - 128
<1> DEFINE i == Item(t)
<1>1. ~booting /\ ~booting' /\ ~Idle(t) /\ OnPins(t) /\ Advance(t) /\ port' = Pins(i, step[t])
  BY DEF Write, OnPins, LcdInv, Steady
<1>2. want[t] \in Seq(Plain) /\ want[t] # <<>> /\ i \in Plain /\ i \in Items /\ step[t] \in 0 .. 5
  BY <1>1, Heads DEF Idle
<1>3. /\ \A u \in Threads : u # t => want'[u] = want[u]
      /\ Last(t) => want'[t] = Tail(want[t])
      /\ ~Last(t) => want'[t] = want[t]
  BY <1>1, Advanced
<1>4. IF Last(t) THEN Executes(Half(port')) ELSE Kept
  BY <1>1 DEF Write, Lost
<1>5. ~Last(t) => shown' = shown /\ at' = at
  BY <1>4 DEF Kept
<1>6. ASSUME Last(t)
      PROVE  /\ i.kind = "data" =>
                  /\ shown' = [a \in Cells |-> IF a = at THEN i.byte ELSE shown[a]]
                  /\ at' = NextAddress(at)
             /\ i.kind = "cmd" /\ i.byte = 1 => shown' = AllOf(Blank) /\ at' = 0
             /\ i.kind = "cmd" /\ i.byte # 1 => shown' = shown /\ at' = i.byte - 128
  <2>1. step[t] = 5
    <3>1. Transfers(i) = 6
      BY <1>2, PlainItems, TransferCounts
    <3> QED BY <1>2, <1>6, <3>1 DEF Last
  <2>2. upper = Half(Pins(i, 0))
    BY <2>1 DEF LcdInv, Steady, InByte, Inside
  <2>3. Half(port') = Half(Pins(i, 5))
    BY <1>1, <2>1
  <2> DEFINE n == Half(port')
  <2>a. upper = Half(Pins(i, 0)) /\ n = Half(Pins(i, 5)) /\ i \in Plain
    BY <1>2, <2>2, <2>3
  <2> HIDE DEF i, n
  <2>b. /\ Half(Pins(i, 0)).nib = i.byte \div 16 /\ Half(Pins(i, 5)).nib = i.byte % 16
        /\ Half(Pins(i, 5)).rs = (i.kind = "data")
    BY DEF Half, Pins
  <2>4. upper.nib = i.byte \div 16 /\ n.nib = i.byte % 16 /\ (n.rs <=> i.kind = "data")
    BY <2>a, <2>b
  <2>c. /\ i.byte \in 0 .. 255 /\ i.kind \in {"cmd", "data"}
        /\ i.kind = "cmd" => i.byte = 1 \/ i.byte \in 128 .. 167 \/ i.byte \in 192 .. 231
    BY <2>a, PlainItems
  <2>5. /\ i.byte \in 0 .. 255 /\ i.kind \in {"cmd", "data"}
        /\ i.kind = "cmd" => i.byte = 1 \/ i.byte >= 128
    BY <2>c
  <2>6. 16 * upper.nib + n.nib = i.byte
    <3>1. \A x \in 0 .. 255 : 16 * (x \div 16) + (x % 16) = x
      OBVIOUS
    <3>2. 16 * (i.byte \div 16) + (i.byte % 16) = i.byte
      BY <2>5, <3>1
    <3> QED BY <2>4, <3>2
  <2>7. Executes(n)
    BY <1>4, <1>6 DEF n
  <2> DEFINE b == 16 * upper.nib + n.nib
  <2>8. \/ /\ n.rs
           /\ shown' = [a \in Cells |-> IF a = at THEN b ELSE shown[a]]
           /\ at' = NextAddress(at)
        \/ ~n.rs /\ b = 1    /\ shown' = AllOf(Blank) /\ at' = 0
        \/ ~n.rs /\ b >= 128 /\ at' = b - 128 /\ UNCHANGED shown
        \/ ~n.rs /\ b \in (0 .. 127) \ {1} /\ UNCHANGED <<shown, at>>
    BY <2>7 DEF Executes
  <2>9. b = i.byte
    BY <2>6
  <2> HIDE DEF b
  <2>10. CASE i.kind = "data" BY <2>4, <2>8, <2>9, <2>10
  <2>11. CASE i.kind = "cmd" BY <2>4, <2>5, <2>8, <2>9, <2>11
  <2> QED BY <2>5, <2>10, <2>11
<1> QED BY <1>1, <1>2, <1>3, <1>5, <1>6

LEMMA MemorySteps ==
  ASSUME LcdInv, Memory, BoardStep
  PROVE  Memory'
<1>1. CASE UNCHANGED <<trusted, shown, at>>
  BY <1>1 DEF Memory
<1>2. CASE Lost
  BY <1>2 DEF Lost, Memory
<1>3. ASSUME NEW t \in Threads, Write(t) PROVE Memory'
  <2>1. CASE booting
    <3>1. ~trusted
      BY <2>1 DEF LcdInv, BootInv
    <3>2. CASE booting'
      BY <1>3, <1>1, <2>1, <3>2 DEF Write, Kept
    <3>3. CASE ~booting'
      <4>1. trusted' = outputs /\ shown' = shown /\ at' = IF outputs THEN 0 ELSE at
        BY <1>3, <2>1, <3>3 DEF Write
      <4> QED BY <3>1, <4>1 DEF Memory, Addresses
    <3> QED BY <3>2, <3>3
  <2>2. CASE ~booting /\ (~trusted \/ Disturbs(t))
    BY <1>2, <1>3, <2>2 DEF Write
  <2>3. CASE ~booting /\ trusted /\ ~Disturbs(t)
    <3>1. trusted'
      BY <1>3, <2>3 DEF Write, Kept, Executes
    <3>2. CASE ~Last(t)
      BY <1>3, <2>3, <3>1, <3>2, ExecutedByte DEF Memory
    <3>3. CASE Last(t)
      <4> DEFINE i == Item(t)
      <4>1. /\ i \in Plain
            /\ i.kind = "data" => at' = NextAddress(at)
            /\ i.kind = "cmd" /\ i.byte = 1 => at' = 0
            /\ i.kind = "cmd" /\ i.byte # 1 => at' = i.byte - 128
        BY <1>3, <2>3, <3>1, <3>3, ExecutedByte
      <4> HIDE DEF i
      <4>2. at \in Addresses
        BY <2>3 DEF Memory
      <4>3. NextAddress(at) \in Addresses /\ 0 \in Addresses
        BY <4>2 DEF NextAddress, Addresses
      <4>4. i.kind = "cmd" /\ i.byte # 1 => i.byte - 128 \in Addresses
        BY <4>1, MeaningPlain
      <4>5. i.kind \in {"cmd", "data"}
        BY <4>1, PlainItems
      <4> QED BY <3>1, <4>1, <4>3, <4>4, <4>5 DEF Memory
    <3> QED BY <3>2, <3>3
  <2> QED BY <2>1, <2>2, <2>3
<1>4. ASSUME NEW t \in Threads, Transfer(t) PROVE Memory'
  BY <1>1, <1>2, <1>3, <1>4 DEF Transfer, McpWrite, PcfWrite, Register, Fails, Kept
<1>5. ASSUME NEW t \in Threads, Boot(t) \/ BootFails(t) PROVE Memory'
  BY <1>1, <1>2, <1>5 DEF Boot, BootFails, bus
<1>6. ASSUME NEW t \in Threads, NEW items, Call(t, items) PROVE Memory'
  BY <1>1, <1>6 DEF Call, bus
<1>7. CASE UNCHANGED lcdVars \/ Halt
  BY <1>1, <1>2, <1>7 DEF lcdVars, bus, Halt, Kept
<1> QED BY <1>4, <1>5, <1>6, <1>7 DEF BoardStep

-----------------------------------------------------------------------------
(* Every step of the board is one of the display or none.                  *)
LEMMA TodoOne ==
  ASSUME NEW t \in Threads, \A u \in Threads : u # t => want'[u] = want[u]
  PROVE  Todo' = [Todo EXCEPT ![t] = Meant(want'[t])]
BY DEF Todo

LEMMA Placing ==
  /\ \A p \in Line!Places : Cell(p) \in Cells
  /\ \A a \in Addresses, p \in Line!Places : p = Place(a) <=> Cell(p) = a
  /\ \A a \in Addresses : Line!After(Place(a)) = Place(NextAddress(a)) /\ a # NoWhere
  /\ Place(0) = Line!Home
<1>1. \A p \in Line!Places : /\ p = <<p[1], p[2]>> /\ p[1] \in Columns /\ p[1] \in 0 .. 39
                            /\ p[2] \in {0, 1}
  <2> SUFFICES ASSUME NEW p \in Columns \X {0, 1}
               PROVE  /\ p = <<p[1], p[2]>> /\ p[1] \in Columns /\ p[1] \in 0 .. 39
                      /\ p[2] \in {0, 1}
    BY DEF Line!Places
  <2>1. p = <<p[1], p[2]>> /\ p[1] \in Columns /\ p[2] \in {0, 1}
    OBVIOUS
  <2>2. p[1] \in 0 .. 39
    BY <2>1, ColumnsAssumption
  <2> QED BY <2>1, <2>2
<1>2. \A p \in Line!Places : Cell(p) \in Cells
  <2> SUFFICES ASSUME NEW p \in Line!Places PROVE Cell(p) \in Cells
    OBVIOUS
  <2>1. CASE p[2] = 0
    <3>1. p[1] + 64 * 0 = p[1]
      BY <1>1
    <3>2. Cell(p) = p[1]
      BY <2>1, <3>1 DEF Cell
    <3> QED BY <1>1, <3>2 DEF Cells
  <2>2. CASE p[2] = 1
    <3>1. p[1] + 64 * 1 = 64 + p[1]
      BY <1>1
    <3>2. Cell(p) = 64 + p[1]
      BY <2>2, <3>1 DEF Cell
    <3> QED BY <1>1, <3>2 DEF Cells
  <2> QED BY <1>1, <2>1, <2>2
<1>3. ASSUME NEW a \in Addresses, NEW p \in Line!Places
      PROVE  p = Place(a) <=> Cell(p) = a
  <2>1. CASE a < 64
    <3>1. Place(a) = <<a, 0>> /\ a \in 0 .. 39
      BY <2>1 DEF Place, Addresses
    <3> QED BY <1>1, <3>1 DEF Cell
  <2>2. CASE ~(a < 64)
    <3>1. Place(a) = <<a - 64, 1>> /\ a \in 64 .. 103
      BY <2>2 DEF Place, Addresses
    <3> QED BY <1>1, <3>1 DEF Cell
  <2> QED BY <2>1, <2>2
<1>4. ASSUME NEW a \in Addresses
      PROVE  Line!After(Place(a)) = Place(NextAddress(a)) /\ a # NoWhere
  <2>0. a # NoWhere
    BY DEF Addresses, NoWhere
  <2>1. CASE a \in 0 .. 38
    BY <2>0, <2>1 DEF Place, NextAddress, Line!After
  <2>2. CASE a = 39
    BY <2>0, <2>2 DEF Place, NextAddress, Line!After
  <2>3. CASE a \in 64 .. 102
    <3> DEFINE c == a + 1
    <3> DEFINE x == a - 64
    <3>1. NextAddress(a) = c /\ ~(c < 64) /\ ~(a < 64)
      BY <2>3 DEF NextAddress
    <3>2. x # 39 /\ c - 64 = x + 1
      BY <2>3
    <3> HIDE DEF c
    <3>3. Place(a) = <<x, 1>> /\ Place(c) = <<c - 64, 1>>
      BY <3>1 DEF Place
    <3> HIDE DEF x
    <3>4. Line!After(<<x, 1>>) = <<x + 1, 1>>
      BY <3>2 DEF Line!After
    <3> QED BY <2>0, <3>1, <3>2, <3>3, <3>4
  <2>4. CASE a = 103
    BY <2>0, <2>4 DEF Place, NextAddress, Line!After
  <2> QED BY <2>1, <2>2, <2>3, <2>4 DEF Addresses
<1>5. Place(0) = Line!Home
  BY DEF Place, Line!Home
<1> QED BY <1>2, <1>3, <1>4, <1>5

LEMMA Forfeits ==
  ASSUME LcdInv', Memory', ~trusted'
  PROVE  Line!Forfeit
<1>1. trusted' = FALSE /\ shown' = AllOf(Unknown) /\ at' = NoWhere
  BY DEF Memory, LcdInv, LcdTypes
<1>2. Shown' = Line!AllOf(Line!Unknown)
  BY <1>1, Placing DEF Shown, AllOf, Unknown, Line!AllOf, Line!Unknown, Line!Places
<1>3. Cursor' = Line!NoWhere
  BY <1>1 DEF Cursor, Line!NoWhere
<1>4. Todo' \in [Threads -> Seq(Line!Ops)]
  <2>1. \A t \in Threads : \/ want'[t] \in Seq(Plain) \/ Reading(want'[t])
                           \/ \E n \in 1 .. 11 : want'[t] = BootRest(n)
    BY DEF LcdInv, Wanted
  <2>2. \A t \in Threads : Meant(want'[t]) \in Seq(Line!Ops)
    BY <2>1, AllMeant
  <2>3. Todo' = [t \in Threads |-> Meant(want'[t])]
    BY DEF Todo
  <2> QED BY <2>2, <2>3
<1> QED BY <1>1, <1>2, <1>3, <1>4 DEF Line!Forfeit, Shown, Cursor, Todo

(* A step that leaves the memory and the meaning alone.                    *)
LEMMA LineStays ==
  ASSUME UNCHANGED <<trusted, shown, at>>, Todo' = Todo
  PROVE  UNCHANGED Line!vars
<1>1. Shown' = Shown /\ Cursor' = Cursor
  BY DEF Shown, Cursor
<1> QED BY <1>1 DEF Line!vars, Shown, Cursor, Todo

LEMMA ServeStep ==
  ASSUME LcdInv, Memory, NEW t \in Threads, Write(t), trusted, trusted'
  PROVE  Line!Serve(t) \/ UNCHANGED Line!vars
<1> DEFINE i == Item(t)
<1> DEFINE w == want[t]
<1>1. /\ w \in Seq(Plain) /\ w # <<>> /\ i \in Plain /\ i = Head(w)
      /\ \A u \in Threads : u # t => want'[u] = want[u]
      /\ ~Last(t) => want'[t] = w /\ shown' = shown /\ at' = at
      /\ Last(t) =>
           /\ want'[t] = Tail(w)
           /\ i.kind = "data" =>
                /\ shown' = [a \in Cells |-> IF a = at THEN i.byte ELSE shown[a]]
                /\ at' = NextAddress(at)
           /\ i.kind = "cmd" /\ i.byte = 1 => shown' = AllOf(Blank) /\ at' = 0
           /\ i.kind = "cmd" /\ i.byte # 1 => shown' = shown /\ at' = i.byte - 128
  BY ExecutedByte DEF Item
<1>2. Todo' = [Todo EXCEPT ![t] = Meant(want'[t])] /\ Todo[t] = Meant(w)
  BY <1>1, TodoOne DEF Todo
<1>3. CASE ~Last(t)
  <2>1. Todo' = Todo
    BY <1>1, <1>2, <1>3 DEF Todo
  <2>2. trusted' = trusted
    BY DEF LcdInv, LcdTypes, Write, Kept, Executes
  <2> QED BY <1>1, <1>3, <2>1, <2>2, LineStays
<1>4. CASE Last(t)
  <2> DEFINE o == Meaning(i)
  <2>1. /\ Meant(w) # <<>> /\ Head(Meant(w)) = o /\ Tail(Meant(w)) = Meant(Tail(w))
    BY <1>1, HeadMeant
  <2>2. Todo[t] # <<>> /\ Head(Todo[t]) = o /\ Todo' = [Todo EXCEPT ![t] = Tail(Todo[t])]
    BY <1>1, <1>2, <1>4, <2>1
  <2>3. /\ i.kind = "data" => o = Line!Put(i.byte)
        /\ i.kind = "cmd" /\ i.byte = 1 => o = Line!Clear
        /\ i.kind = "cmd" /\ i.byte # 1 =>
             o = Line!Move(Place(i.byte - 128)) /\ i.byte - 128 \in Addresses
        /\ i.kind \in {"cmd", "data"}
    BY <1>1, MeaningPlain, PlainItems
  <2>4. at \in Addresses /\ at # NoWhere /\ Cursor = Place(at)
    BY Placing DEF Memory, Cursor
  <2> HIDE DEF o, i, w
  <2>5. trusted' = trusted
    BY DEF LcdInv, LcdTypes, Write, Kept, Executes
  <2>6. CASE i.kind = "data"
    <3>1. /\ shown' = [a \in Cells |-> IF a = at THEN i.byte ELSE shown[a]]
          /\ at' = NextAddress(at) /\ o.op = "put" /\ o.char = i.byte
      BY <1>1, <1>4, <2>3, <2>6 DEF Line!Put
    <3>2. at' \in Addresses /\ at' # NoWhere
      BY <2>4, <3>1, Placing DEF NextAddress, Addresses
    <3>3. Cursor' = Line!After(Cursor)
      BY <2>4, <3>1, <3>2, Placing DEF Cursor
    <3>4. Shown' = [p \in Line!Places |-> IF p = Cursor THEN o.char ELSE Shown[p]]
      <4>1. Shown' = [p \in Line!Places |-> shown'[Cell(p)]]
        BY DEF Shown, Line!Places
      <4>2. \A p \in Line!Places : Shown[p] = shown[Cell(p)]
        BY DEF Shown, Line!Places
      <4>3. \A p \in Line!Places :
              shown'[Cell(p)] = IF p = Cursor THEN o.char ELSE Shown[p]
        BY <2>4, <3>1, <4>2, Placing
      <4> QED BY <4>1, <4>3
    <3> QED BY <2>2, <2>5, <3>1, <3>3, <3>4 DEF Line!Serve, Shown, Cursor, Todo
  <2>7. CASE i.kind = "cmd" /\ i.byte = 1
    <3>1. shown' = AllOf(Blank) /\ at' = 0 /\ o.op = "clear"
      BY <1>1, <1>4, <2>3, <2>7 DEF Line!Clear
    <3>2. Shown' = Line!AllOf(Line!Blank)
      BY <3>1, Placing DEF Shown, AllOf, Blank, Line!AllOf, Line!Blank, Line!Places
    <3>3. Cursor' = Line!Home
      BY <3>1, Placing DEF Cursor, NoWhere
    <3> QED BY <2>2, <2>5, <3>1, <3>2, <3>3 DEF Line!Serve, Shown, Cursor, Todo
  <2>8. CASE i.kind = "cmd" /\ i.byte # 1
    <3>1. /\ shown' = shown /\ at' = i.byte - 128 /\ i.byte - 128 \in Addresses
          /\ o.op = "move" /\ o.to = Place(i.byte - 128)
      BY <1>1, <1>4, <2>3, <2>8 DEF Line!Move
    <3>2. Cursor' = o.to
      BY <3>1, Placing DEF Cursor
    <3>3. Shown' = Shown
      BY <3>1 DEF Shown
    <3> QED BY <2>2, <2>5, <3>1, <3>2, <3>3 DEF Line!Serve, Shown, Cursor, Todo
  <2> QED BY <2>3, <2>6, <2>7, <2>8
<1> QED BY <1>3, <1>4

LEMMA WriteLine ==
  ASSUME LcdInv, Memory, LcdInv', Memory', NEW t \in Threads, Write(t), trusted'
  PROVE  [Line!Next]_(Line!vars)
<1>1. CASE trusted
  BY <1>1, ServeStep DEF Line!Next
<1>2. CASE ~trusted
  <2>1. booting /\ ~booting'
    BY <1>2 DEF Write, Kept, Lost, Executes
  <2>2. outputs /\ shown' = shown /\ at' = 0
    BY <2>1 DEF Write
  <2>3. shown' = AllOf(Unknown)
    BY <1>2, <2>2 DEF Memory
  <2>4. Shown' = Line!AllOf(Line!Unknown)
    BY <2>3, Placing DEF Shown, AllOf, Unknown, Line!AllOf, Line!Unknown, Line!Places
  <2>5. Cursor' = Line!Home
    BY <2>2, Placing DEF Cursor, NoWhere
  <2>6. \A u \in Threads : want'[u] = <<>>
    <3>1. ~Idle(t) /\ Advance(t) /\ want'[t] = <<>>
      BY <2>1 DEF Write, OnPins
    <3>2. PICK n \in 1 .. 11 : Boots(t, n)
      BY <2>1, <3>1, Heads
    <3>3. \A u \in Threads : u # t => want'[u] = want[u]
      BY <3>1, Advanced
    <3> QED BY <3>1, <3>2, <3>3 DEF Boots, Idle
  <2>7. Todo' = [u \in Threads |-> <<>>]
    BY <2>6, NothingMeant DEF Todo
  <2> QED BY <1>2, <2>4, <2>5, <2>7 DEF Line!Next, Line!Ready, Shown, Cursor, Todo
<1> QED BY <1>1, <1>2

LEMMA CallLine ==
  ASSUME LcdInv, NEW t \in Threads, NEW items \in LibCalls \cup {LCD1602GetKey}, Call(t, items)
  PROVE  [Line!Next]_(Line!vars)
<1>1. /\ Idle(t) /\ want' = [want EXCEPT ![t] = items] /\ UNCHANGED <<trusted, shown, at>>
      /\ want \in [Threads -> Seq(Items)]
  BY DEF Call, bus, LcdInv, LcdTypes
<1>2. want'[t] = items /\ \A u \in Threads : u # t => want'[u] = want[u]
  BY <1>1
<1>3. Todo' = [Todo EXCEPT ![t] = Meant(items)] /\ Todo[t] = <<>>
  <2>1. Todo' = [Todo EXCEPT ![t] = Meant(want'[t])]
    BY <1>2, TodoOne
  <2> QED BY <1>1, <1>2, <2>1, NothingMeant DEF Todo, Idle
<1>4. CASE items \in LibCalls
  <2>1. Meant(items) \in Line!Calls /\ Meant(items) # <<>>
    BY <1>4, CallsMeant
  <2>2. Shown' = Shown /\ Cursor' = Cursor
    BY <1>1 DEF Shown, Cursor
  <2>3. Todo'[t] # <<>>
    BY <1>3, <2>1 DEF Todo
  <2>4. Line!Call(t)
    BY <1>1, <1>3, <2>1, <2>2, <2>3 DEF Line!Call, Shown, Cursor, Todo
  <2> QED BY <2>4 DEF Line!Next
<1>5. CASE items = LCD1602GetKey
  <2>1. Meant(items) = <<>>
    BY <1>5, GetKeyReads, ReadingMeant
  <2>2. Todo' = Todo
    BY <1>3, <2>1 DEF Todo
  <2> QED BY <1>1, <2>2, LineStays
<1> QED BY <1>4, <1>5

LEMMA RegisterLine ==
  ASSUME LcdInv, NEW t \in Threads, Register(t), trusted
  PROVE  UNCHANGED Line!vars
<1>1. /\ ~Idle(t) /\ ~OnPins(t) /\ Advance(t) /\ ~booting /\ UNCHANGED <<trusted, shown, at>>
  BY DEF Register, LcdInv, Steady
<1>2. Reading(want[t])
  BY <1>1, Heads
<1>3. Transfers(Item(t)) = 1 /\ step[t] \in 0 .. 5 /\ step[t] < Transfers(Item(t))
  BY <1>1, Heads, TransferCounts DEF OnPins
<1>4. want'[t] = Tail(want[t]) /\ \A u \in Threads : u # t => want'[u] = want[u]
  BY <1>1, <1>3, Advanced DEF Last
<1>5. want'[t] = <<Reg("read")>> \/ want'[t] = <<>>
  BY <1>2, <1>4, ReadSeqs
<1>6. Meant(want'[t]) = <<>> /\ Meant(want[t]) = <<>>
  <2>1. want'[t] = <<Reg("read")>> => Reading(want'[t])
    BY DEF Reading
  <2> QED BY <1>2, <1>5, <2>1, ReadingMeant, NothingMeant
<1>7. Todo' = Todo
  <2>1. Todo' = [Todo EXCEPT ![t] = Meant(want'[t])]
    BY <1>4, TodoOne
  <2> QED BY <1>6, <2>1 DEF Todo
<1> QED BY <1>1, <1>7, LineStays

LEMMA FailsLine ==
  ASSUME LcdInv, NEW t \in Threads, Fails(t), trusted, trusted'
  PROVE  Line!GiveUp(t)
<1>1. ~booting /\ ~Idle(t) /\ want \in [Threads -> Seq(Items)]
  BY DEF LcdInv, LcdTypes, Steady, Fails
<1>2. Item(t).kind \notin {"iocon", "iodira", "iodirb"}
  <2>1. CASE OnPins(t) BY <2>1 DEF OnPins
  <2>2. CASE ~OnPins(t) BY <1>1, <2>2, Heads, ReadSeqs DEF Item, Reg
  <2> QED BY <2>1, <2>2
<1>3. want' = [want EXCEPT ![t] = <<>>] /\ UNCHANGED <<trusted, shown, at>>
  BY <1>2 DEF Fails, Lost, Kept
<1>4. want'[t] = <<>> /\ \A u \in Threads : u # t => want'[u] = want[u]
  BY <1>1, <1>3
<1>5. Todo' = [Todo EXCEPT ![t] = <<>>]
  <2>1. Todo' = [Todo EXCEPT ![t] = Meant(want'[t])]
    BY <1>4, TodoOne
  <2> QED BY <1>4, <2>1, NothingMeant
<1>6. Shown' = Shown /\ Cursor' = Cursor
  BY <1>3 DEF Shown, Cursor
<1> QED BY <1>3, <1>5, <1>6 DEF Line!GiveUp, Shown, Cursor, Todo

LEMMA HaltLine ==
  ASSUME Halt, trusted'
  PROVE  Line!AllGiveUp
<1>1. want' = [t \in Threads |-> <<>>] /\ UNCHANGED <<trusted, shown, at>>
  BY DEF Halt, Lost, Kept
<1>2. Todo' = [t \in Threads |-> <<>>]
  BY <1>1, NothingMeant DEF Todo
<1>3. Shown' = Shown /\ Cursor' = Cursor
  BY <1>1 DEF Shown, Cursor
<1> QED BY <1>1, <1>2, <1>3 DEF Line!AllGiveUp, Shown, Cursor, Todo

LEMMA LineSteps ==
  ASSUME LcdInv, Memory, BoardStep
  PROVE  [Line!Next]_(Line!vars)
<1>0. LcdInv' /\ Memory'
  BY LcdSteps, MemorySteps
<1>1. CASE ~trusted'
  BY <1>0, <1>1, Forfeits DEF Line!Next
<1>2. CASE trusted'
  <2>1. CASE UNCHANGED lcdVars
    <3>1. Todo' = Todo
      BY <2>1 DEF lcdVars, Todo
    <3> QED BY <2>1, <3>1, LineStays DEF lcdVars, bus
  <2>2. CASE Halt
    BY <1>2, <2>2, HaltLine DEF Line!Next
  <2>3. ASSUME NEW t \in Threads, Boot(t) PROVE FALSE
    BY <1>2, <2>3 DEF Boot, Lost
  <2>4. ASSUME NEW t \in Threads, BootFails(t) PROVE [Line!Next]_(Line!vars)
    <3>1. Todo' = Todo
      BY <2>4 DEF BootFails, Todo
    <3> QED BY <2>4, <3>1, LineStays DEF BootFails, bus
  <2>5. ASSUME NEW t \in Threads, Write(t) PROVE [Line!Next]_(Line!vars)
    BY <1>0, <1>2, <2>5, WriteLine
  <2>6. ASSUME NEW t \in Threads, Register(t) PROVE [Line!Next]_(Line!vars)
    <3>1. trusted
      BY <1>2, <2>6 DEF Register
    <3> QED BY <2>6, <3>1, RegisterLine
  <2>7. ASSUME NEW t \in Threads, Fails(t) PROVE [Line!Next]_(Line!vars)
    <3>1. trusted
      BY <1>2, <2>7 DEF Fails, Lost, Kept
    <3> QED BY <1>2, <2>7, <3>1, FailsLine DEF Line!Next
  <2>8. ASSUME NEW t \in Threads, NEW items \in LibCalls \cup {LCD1602GetKey}, Call(t, items)
        PROVE  [Line!Next]_(Line!vars)
    BY <2>8, CallLine
  <2> QED
    BY <2>1, <2>2, <2>3, <2>4, <2>5, <2>6, <2>7, <2>8 DEF BoardStep, Transfer, McpWrite, PcfWrite
<1> QED BY <1>1, <1>2

(* The six-write protocol implements the display of two lines, for any     *)
(* programs' threads and texts, faults and restarts: seen through the      *)
(* controller's memory, every call of any thread does to it what it says,  *)
(* byte by byte, as long as it is trusted (WriteData8, mcpWriteCmd8).      *)
THEOREM LineImplemented == Spec => LineSpec
<1>1. Init => Line!Init /\ Memory
  <2> SUFFICES ASSUME LcdInit PROVE Line!Init /\ Memory
    BY DEF Init
  <2>1. trusted = FALSE /\ shown = AllOf(Unknown) /\ at = NoWhere /\ want = [t \in Threads |-> <<>>]
    BY DEF LcdInit
  <2>2. Shown = Line!AllOf(Line!Unknown)
    BY <2>1, Placing DEF Shown, AllOf, Unknown, Line!AllOf, Line!Unknown, Line!Places
  <2>3. Cursor = Line!NoWhere /\ Todo = [t \in Threads |-> <<>>]
    BY <2>1, NothingMeant DEF Cursor, Line!NoWhere, Todo
  <2> QED BY <2>1, <2>2, <2>3 DEF Line!Init, Memory, Shown, Cursor, Todo
<1>2. LcdInv /\ ScriptInv /\ Memory /\ [Next]_vars => Memory' /\ [Line!Next]_(Line!vars)
  BY ProgramSteps, MemorySteps, LineSteps
<1> QED BY <1>1, <1>2, BoardSpec, PTL DEF Spec, LineSpec, Line!Spec

-----------------------------------------------------------------------------
(* Types.                                                                  *)
RestTypes ==
  /\ pointer \in {"A", "B", "other"} /\ shown \in [Cells -> 0 .. 255]
  /\ ret \in [Threads -> {0, -1}]
  /\ keyValue \in Keys \cup {PortA, Failed} /\ faults \in 0 .. MaxFaults

LEMMA RestSteps ==
  ASSUME LcdInv, RestTypes, BoardStep
  PROVE  RestTypes'
<1>1. AllOf(Unknown) \in [Cells -> 0 .. 255] /\ AllOf(Blank) \in [Cells -> 0 .. 255]
  BY DEF AllOf, Unknown, Blank
<1>f. faults < MaxFaults => faults + 1 \in 0 .. MaxFaults
  BY FaultsAssumption DEF RestTypes
<1>2. CASE UNCHANGED lcdVars
  BY <1>2 DEF lcdVars, bus, RestTypes
<1>3. CASE Halt
  BY <1>1, <1>3 DEF Halt, Lost, Kept, RestTypes
<1>4. ASSUME NEW t \in Threads, Boot(t) PROVE RestTypes'
  <2>1. ret' \in [Threads -> {0, -1}]
    BY <1>4 DEF Boot, RestTypes
  <2> QED BY <1>1, <1>4, <2>1 DEF Boot, Lost, RestTypes
<1>5. ASSUME NEW t \in Threads, BootFails(t) PROVE RestTypes'
  <2>1. ret' \in [Threads -> {0, -1}] /\ faults' \in 0 .. MaxFaults
    BY <1>5, <1>f DEF BootFails, RestTypes
  <2> QED BY <1>5, <2>1 DEF BootFails, bus, RestTypes
<1>6. ASSUME NEW t \in Threads, NEW items, Call(t, items) PROVE RestTypes'
  <2>1. ret' \in [Threads -> {0, -1}]
    BY <1>6 DEF Call, RestTypes
  <2> QED BY <1>6, <2>1 DEF Call, bus, RestTypes
<1>7. ASSUME NEW t \in Threads, McpWrite(t) \/ PcfWrite(t) PROVE RestTypes'
  <2>1. Write(t) /\ pointer' \in {"B", pointer}
    BY <1>7 DEF McpWrite, PcfWrite
  <2>2. UNCHANGED <<ret, keyValue, faults>>
    BY <2>1 DEF Write
  <2>3. shown' \in [Cells -> 0 .. 255]
    <3>1. CASE trusted /\ trusted'
      <4>1. Item(t).byte \in 0 .. 255 /\ Item(t).kind \in {"cmd", "data"}
        BY <2>1, <3>1, ExecutedByte, PlainItems
      <4> DEFINE v == [a \in Cells |-> IF a = at THEN Item(t).byte ELSE shown[a]]
      <4>2. v \in [Cells -> 0 .. 255]
        BY <4>1 DEF RestTypes
      <4>3. shown' \in {shown, AllOf(Blank), v}
        BY <2>1, <3>1, <4>1, ExecutedByte
      <4> HIDE DEF v
      <4> QED BY <1>1, <4>2, <4>3 DEF RestTypes
    <3>2. CASE ~(trusted /\ trusted')
      <4>1. shown' \in {shown, AllOf(Unknown)}
        BY <2>1, <3>2 DEF Write, Lost, Kept, Executes, LcdInv, LcdTypes
      <4> QED BY <1>1, <4>1 DEF RestTypes
    <3> QED BY <3>1, <3>2
  <2> QED BY <2>1, <2>2, <2>3 DEF RestTypes
<1>8. ASSUME NEW t \in Threads, Register(t) PROVE RestTypes'
  <2>1. pointer' \in {"A", "B", "other"} /\ UNCHANGED <<shown, ret, faults>>
    BY <1>8 DEF Register, RestTypes
  <2>2. keyValue' \in Keys \cup {PortA, Failed}
    BY <1>8 DEF Register, RestTypes
  <2> QED BY <2>1, <2>2 DEF RestTypes
<1>9. ASSUME NEW t \in Threads, Fails(t) PROVE RestTypes'
  <2>1. /\ keyValue' \in {keyValue, Failed} /\ faults' \in 0 .. MaxFaults
        /\ shown' \in {shown, AllOf(Unknown)} /\ UNCHANGED pointer
    BY <1>9, <1>f DEF Fails, Lost, Kept, RestTypes
  <2>2. ret' \in [Threads -> {0, -1}]
    BY <1>9 DEF Fails, RestTypes
  <2> QED BY <1>1, <2>1, <2>2 DEF RestTypes
<1> QED BY <1>2, <1>3, <1>4, <1>5, <1>6, <1>7, <1>8, <1>9 DEF BoardStep, Transfer

ProgramTypes ==
  /\ kpc \in {"off", "init", "booted", "draw", "poll", "key", "tail", "addr",
              "create", "accept", "lock", "set", "reboot", "exit"}
  /\ spc \in {"off", "wait", "recv", "echo", "cleared", "close", "exit"}
  /\ after \in Leading
  /\ lastKey \in Keys \cup {PortA, Failed}
  /\ showDefault \in {0, 1} /\ needClear \in {0, 1} /\ mut \in {"free", Key}
  /\ serverSock \in 0 .. MaxSessions /\ clientSock \in 0 .. MaxSessions
  /\ listening \in 0 .. MaxSessions /\ made \in 0 .. MaxSessions
  /\ peer \in [Sessions -> {"none", "conn", "gone"}]
  /\ inbox \in {0, 1} /\ serving \in 0 .. MaxSessions
  /\ keys \in 0 .. MaxKeys /\ chunks \in 0 .. MaxChunks
  /\ dpc \in {"off", "booted", "cleared", "lines"} /\ starts \in 0 .. MaxStarts

LEMMA FreshTypes ==
  ASSUME ProgramTypes, Fresh
  PROVE  /\ after' \in Leading /\ lastKey' \in Keys \cup {PortA, Failed}
         /\ showDefault' \in {0, 1} /\ needClear' \in {0, 1} /\ mut' \in {"free", Key}
         /\ serverSock' \in 0 .. MaxSessions /\ clientSock' \in 0 .. MaxSessions
         /\ listening' \in 0 .. MaxSessions /\ inbox' \in {0, 1} /\ serving' \in 0 .. MaxSessions
         /\ peer' \in [Sessions -> {"none", "conn", "gone"}]
<1>1. 0 \in 0 .. MaxSessions
  BY BoundsAssumption
<1>2. peer' \in [Sessions -> {"none", "conn", "gone"}]
  BY DEF Fresh, ProgramTypes
<1> QED BY <1>1, <1>2 DEF Fresh, Leading

LEMMA ProgramTypeSteps ==
  ASSUME ProgramTypes, RestTypes, [Next]_vars
  PROVE  ProgramTypes'
<1> DEFINE Rest == UNCHANGED <<dpc, starts>>
<1>b. \A n \in Nat : \A x \in 0 .. n : x < n => x + 1 \in 0 .. n
  OBVIOUS
<1>s. Starts => starts' \in 0 .. MaxStarts
  BY <1>b, StartsAssumption DEF Starts, ProgramTypes
<1>d. board = "mcp" /\ Nanopi /\ UNCHANGED dpc =>
        dpc' \in {"off", "booted", "cleared", "lines"} /\ starts' \in 0 .. MaxStarts
  BY <1>s DEF Nanopi, ProgramTypes
<1> DEFINE Ends2 == dpc' \in {"off", "booted", "cleared", "lines"} /\ starts' \in 0 .. MaxStarts
<1>1. CASE UNCHANGED vars
  BY <1>1 DEF vars, nanoVars, keyVars, drawing, menu, socket, sessions, globals, bounds,
              ProgramTypes
<1>2. ASSUME NanoStart, Ends2 PROVE ProgramTypes'
  BY <1>2, FreshTypes DEF NanoStart, bounds, ProgramTypes
<1>3. ASSUME Ends, Ends2 PROVE ProgramTypes'
  BY <1>3, FreshTypes DEF Ends, bounds, ProgramTypes
<1>4. ASSUME KInit \/ KBooted \/ KDraw \/ KPoll, Ends2 PROVE ProgramTypes'
  BY <1>4 DEF KInit, KBooted, KDraw, KPoll, drawing, menu, socket, sessions, globals, bounds,
              Leading, ProgramTypes
<1>5. ASSUME KKey, Ends2 PROVE ProgramTypes'
  <2>1. keys' \in 0 .. MaxKeys
    BY <1>5, <1>b, BoundsAssumption DEF KKey, ProgramTypes
  <2>2. lastKey' \in Keys \cup {PortA, Failed} /\ showDefault' \in {0, 1}
    BY <1>5 DEF KKey, ProgramTypes, RestTypes
  <2>3. after' \in Leading /\ kpc' \in {"poll", "draw"}
    BY <1>5 DEF KKey, ProgramTypes, Leads, Leading
  <2> QED BY <1>5, <2>1, <2>2, <2>3 DEF KKey, socket, sessions, globals, ProgramTypes
<1>6. ASSUME KTail \/ KAddr \/ KAccept, Ends2 PROVE ProgramTypes'
  BY <1>6 DEF KTail, KAddr, KAccept, drawing, menu, socket, sessions, globals, bounds,
              Leading, ProgramTypes
<1>7. ASSUME KListen, Ends2 PROVE ProgramTypes'
  <2>1. made' \in 0 .. MaxSessions /\ listening' \in 0 .. MaxSessions
    BY <1>7, <1>b, BoundsAssumption DEF KListen, ProgramTypes
  <2> QED BY <1>7, <2>1 DEF KListen, drawing, menu, socket, globals, bounds, ProgramTypes
<1>8. ASSUME KSetServer \/ KSetClient, Ends2 PROVE ProgramTypes'
  BY <1>8 DEF KSetServer, KSetClient, drawing, menu, socket, bounds, ProgramTypes
<1>9. ASSUME STop \/ SRecv \/ SEcho \/ SEchoFails \/ SShow, Ends2 PROVE ProgramTypes'
  BY <1>9 DEF STop, SRecv, SEcho, SEchoFails, SShow, keyVars, drawing, menu, sessions, globals,
              bounds, ProgramTypes
<1>10. ASSUME SClose, Ends2 PROVE ProgramTypes'
  <2>1. listening' \in 0 .. MaxSessions
    BY <1>10, BoundsAssumption DEF SClose, ProgramTypes
  <2> QED BY <1>10, <2>1 DEF SClose, keyVars, drawing, menu, globals, bounds, ProgramTypes
<1>11. ASSUME Client, Ends2 PROVE ProgramTypes'
  <2>1. CASE ClientConnect \/ \E n \in Sessions : ClientQuits(n)
    <3>1. peer' \in [Sessions -> {"none", "conn", "gone"}]
      BY <2>1 DEF ClientConnect, ClientQuits, ProgramTypes
    <3> QED BY <1>11, <2>1, <3>1 DEF ClientConnect, ClientQuits, keyVars, drawing, menu, socket,
                                    globals, bounds, ProgramTypes
  <2>2. CASE ClientSend
    <3>1. chunks' \in 0 .. MaxChunks
      BY <2>2, <1>b, BoundsAssumption DEF ClientSend, ProgramTypes
    <3> QED BY <1>11, <2>2, <3>1 DEF ClientSend, keyVars, drawing, menu, socket, globals,
                                    ProgramTypes
  <2> QED BY <1>11, <2>1, <2>2 DEF Client
<1>12. ASSUME UNCHANGED nanoVars, Ends2 PROVE ProgramTypes'
  BY <1>12 DEF nanoVars, keyVars, drawing, menu, socket, sessions, globals, bounds, ProgramTypes
<1>13. Demo => Ends2
  BY <1>s DEF Demo, DemoInit, DemoClear, DemoLines, DemoEnd, DemoKilled, ProgramTypes
<1> HIDE DEF Ends2
<1>14. CASE board = "mcp" /\ Nanopi /\ UNCHANGED dpc
  <2>1. Ends2
    BY <1>14, <1>d DEF Ends2
  <2> QED
    BY <1>14, <2>1, <1>2, <1>3, <1>4, <1>5, <1>6, <1>7, <1>8, <1>9, <1>10, <1>11, <1>12
    DEF Nanopi, NanoNext, KeyThread1, SocketThread2, KReboot, SEchoSigpipe
<1> QED BY <1>1, <1>12, <1>13, <1>14 DEF Next

(* Every variable keeps its type.                                          *)
THEOREM TypeCorrect == Spec => []TypeOK
<1> DEFINE IInv == RestTypes /\ ProgramTypes /\ Memory
<1>1. Init => IInv
  <2> SUFFICES ASSUME Init PROVE IInv
    OBVIOUS
  <2>1. RestTypes /\ Memory
    BY FaultsAssumption DEF Init, LcdInit, RestTypes, Memory, AllOf, Unknown
  <2>2. 0 \in 0 .. MaxSessions /\ 0 \in 0 .. MaxKeys /\ 0 \in 0 .. MaxChunks /\ 0 \in 0 .. MaxStarts
    BY BoundsAssumption, StartsAssumption
  <2>3. ProgramTypes
    BY <2>2 DEF Init, NanoInit, ProgramTypes, Leading
  <2> QED BY <2>1, <2>3
<1>2. LcdInv /\ ScriptInv /\ IInv /\ [Next]_vars => IInv'
  BY ProgramSteps, RestSteps, ProgramTypeSteps, MemorySteps
<1>3. LcdInv /\ ScriptInv /\ IInv => TypeOK
  <2> SUFFICES ASSUME LcdInv, ScriptInv, IInv PROVE TypeOK
    OBVIOUS
  <2>1. at \in {NoWhere} \cup (0 .. 39) \cup (64 .. 103)
    BY DEF Memory, Addresses
  <2>2. LcdTypeOK
    BY <2>1 DEF LcdInv, LcdTypes, RestTypes, LcdTypeOK, PinStates, Nibble
  <2>3. script \in Seq(Seq(Items))
    <3>1. LibCalls \subseteq Seq(Items)
      BY CallsPlain, PlainSeqs
    <3> QED BY <3>1 DEF ScriptInv
  <2>4. NanoTypeOK
    BY <2>3 DEF ProgramTypes, NanoTypeOK, Leading
  <2> QED BY <2>2, <2>4 DEF ProgramTypes, TypeOK
<1> QED BY <1>1, <1>2, <1>3, BoardSpec, PTL DEF Spec
=============================================================================
