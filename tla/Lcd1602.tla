------------------------------- MODULE Lcd1602 -------------------------------
(***************************************************************************)
(* The LCD1602 boards as lib/mcp23017.c and lib/pcf8574.c drive them over  *)
(* I2C.  A library call is the list of bytes it sends; a byte is six bus   *)
(* writes, three for each half: the pins set, En high, En low.  Any thread *)
(* may do its next write between any two writes of another.  The display   *)
(* controller (HD44780) and the port expanders are external.               *)
(***************************************************************************)
EXTENDS Integers, Sequences

CONSTANTS
  Threads,
  Columns,     \* the columns looked at
  Texts,       \* the texts put on the display
  Keys,        \* what the key port may read
  MaxFaults    \* bound on failing bus transfers

PortA  == "port A"     \* GetKey read the display's own port
Failed == "error"

ASSUME ColumnsAssumption == Columns \subseteq 0 .. 39 /\ 0 \in Columns
ASSUME CharsAssumption   == Texts \subseteq Seq(0 .. 255)
ASSUME KeysAssumption    == {PortA, Failed} \cap Keys = {}
ASSUME FaultsAssumption  == MaxFaults \in Nat

VARIABLES
  board,       \* "mcp", with keys, or "pcf": never changes
  want,        \* what each thread's call has still to transfer
  step,        \* how many bus writes of its first item are done
  booting,     \* an initialisation is under way and has not failed
  port,        \* the display's pins
  outputs,     \* the port is set to output
  pointer,     \* the expander's register a plain read would return
  phase,       \* the controller waits for "wide", or the "high" or "low" half
  upper,       \* the high half it holds
  shown, at,   \* its memory, and the address counter
  ret,         \* the result of its last call, 0 or -1
  keyValue,    \* what the last GetKey returned
  faults,
  trusted      \* history: in step since an initialisation

bus     == <<port, outputs, pointer, phase, upper, shown, at, trusted>>
lcdVars == <<board, want, step, booting, bus, ret, keyValue, faults>>

Cells   == Columns \cup {64 + c : c \in Columns}
Blank   == 32
Unknown == 0           \* what is in the memory while out of step is not followed
NoWhere == -1
AllOf(c) == [a \in Cells |-> c]
-----------------------------------------------------------------------------
(* The items of a call.                                                    *)
Cmd(b)  == [kind |-> "cmd",  byte |-> b]
Data(b) == [kind |-> "data", byte |-> b]
Cmd4(b) == [kind |-> "cmd4", byte |-> b]
Reg(r)  == [kind |-> r, byte |-> 0]

(* Mutant: the lines are twice as far apart. *)
AddressFar(x, y) == (y + 2) * 128 + x

Address(x, y) == (y + 2) * 64 + x
DispStr(x, y, s) == <<Cmd(Address(x, y))>> \o [i \in 1 .. Len(s) |-> Data(s[i])]

LCD1602KeyDispStr(x, y, s) == DispStr(x, y, s)
LCD1602KeyClear            == <<Cmd(1)>>
LCD1602Clear               == <<Cmd(1)>>
LCD1602DispLines(s1, s2)   == DispStr(0, 0, s1) \o DispStr(0, 1, s2)

(* Mutant: the register is pointed to once and for all. *)
LCD1602GetKeyUnpointed == <<Reg("read")>>

LCD1602GetKey == <<Reg("point"), Reg("read")>>

(* Mutant: one of the three wide function sets is saved. *)
PowerUpShort == <<Cmd4(48), Cmd4(48), Cmd4(32)>>

PowerUp == <<Cmd4(48), Cmd4(48), Cmd4(48), Cmd4(32)>>
Setup   == <<Cmd(40), Cmd(12), Cmd(6), Cmd(2)>>

mcpInit        == <<Reg("iocon"), Reg("iodira"), Reg("iodirb")>>
LCD1602KeyInit == mcpInit \o PowerUp \o Setup
LCD1602Init    == PowerUp \o Setup

Transfers(i) ==
  CASE i.kind \in {"cmd", "data"} -> 6
    [] i.kind = "cmd4"            -> 3
    [] OTHER                      -> 1

(* Mutant: WriteData8 sends the low half first. *)
PinsSwapped(i, k) ==
  [rs  |-> i.kind = "data",
   en  |-> k % 3 = 1,
   nib |-> IF (k < 3) = (i.kind # "data") THEN i.byte \div 16 ELSE i.byte % 16]

(* WriteCmd4, WriteData4 and pulseEnable: the k-th write of an item.       *)
Pins(i, k) ==
  [rs  |-> i.kind = "data",
   en  |-> k % 3 = 1,
   nib |-> IF k < 3 THEN i.byte \div 16 ELSE i.byte % 16]
-----------------------------------------------------------------------------
Half(p) == [rs |-> p.rs, nib |-> p.nib]

LcdInit ==
  /\ board \in {"mcp", "pcf"}
  /\ want = [t \in Threads |-> <<>>] /\ step = [t \in Threads |-> 0]
  /\ booting = FALSE /\ ret = [t \in Threads |-> 0]
  /\ port = [rs |-> FALSE, en |-> FALSE, nib |-> 0]
  /\ outputs = (board = "pcf") /\ pointer = "other"
  /\ phase = "wide" /\ upper = [rs |-> FALSE, nib |-> 0]
  /\ shown = AllOf(Unknown) /\ at = NoWhere
  /\ keyValue = Failed /\ faults = 0 /\ trusted = FALSE

(* What the controller may wait for after two halves: a function set of    *)
(* eight bits widens the bus; a byte of halves of two kinds may be either. *)
NextPhases(high, low) ==
  IF high.nib # 3 \/ (high.rs /\ low.rs) THEN {"high"}
  ELSE IF high.rs = low.rs THEN {"wide"} ELSE {"high", "wide"}

(* What it does with the half it takes from the pins.                      *)
Takes(n) ==
  \/ /\ phase = "wide"
     /\ phase' = IF ~n.rs /\ n.nib = 2 THEN "high" ELSE "wide"
     /\ UNCHANGED upper
  \/ phase = "high" /\ phase' = "low" /\ upper' = n
  \/ phase = "low" /\ phase' \in NextPhases(upper, n) /\ UNCHANGED upper

(* The controller has forty places in a line, the second at 64.            *)
NextAddress(a) == CASE a = 39 -> 64 [] a = 103 -> 0 [] OTHER -> a + 1

(* What the byte of the half it holds and of n does to its memory.         *)
Executes(n) ==
  LET b == 16 * upper.nib + n.nib IN
  /\ UNCHANGED trusted
  /\ \/ /\ n.rs
        /\ shown' = [a \in Cells |-> IF a = at THEN b ELSE shown[a]]
        /\ at' = NextAddress(at)
     \/ ~n.rs /\ b = 1    /\ shown' = AllOf(Blank) /\ at' = 0
     \/ ~n.rs /\ b >= 128 /\ at' = b - 128 /\ UNCHANGED shown
     \/ ~n.rs /\ b \in (0 .. 127) \ {1} /\ UNCHANGED <<shown, at>>

Lost == trusted' = FALSE /\ shown' = AllOf(Unknown) /\ at' = NoWhere
Kept == UNCHANGED <<trusted, shown, at>>

(* Inside(t): En is high or the low half is outstanding for t's byte.      *)
Inside(t)   == step[t] \in 2 .. 5
Disturbs(t) == \E u \in Threads \ {t} : Inside(u)
Idle(t)     == want[t] = <<>>
Item(t)     == Head(want[t])
OnPins(t)   == ~Idle(t) /\ Item(t).kind \in {"cmd", "data", "cmd4"}
Last(t)     == step[t] + 1 = Transfers(Item(t))
-----------------------------------------------------------------------------
(* A thread calls the library; an initialisation finds nobody else at it.  *)
Call(t, items) ==
  /\ Idle(t) /\ ~booting
  /\ want' = [want EXCEPT ![t] = items]
  /\ ret' = [ret EXCEPT ![t] = 0]
  /\ UNCHANGED <<board, step, booting, bus, keyValue, faults>>

Boot(t) ==
  /\ \A u \in Threads : Idle(u)
  /\ booting' = TRUE
  /\ want' = [want EXCEPT ![t] = IF board = "mcp" THEN LCD1602KeyInit ELSE LCD1602Init]
  /\ ret' = [ret EXCEPT ![t] = 0]
  /\ Lost
  /\ UNCHANGED <<board, step, port, outputs, pointer, phase, upper, keyValue, faults>>

(* openHW or setI2CSlave fails.                                            *)
BootFails(t) ==
  /\ Idle(t) /\ faults < MaxFaults
  /\ faults' = faults + 1
  /\ ret' = [ret EXCEPT ![t] = -1]
  /\ UNCHANGED <<board, want, step, booting, bus, keyValue>>

Advance(t) ==
  IF Last(t) THEN /\ want' = [want EXCEPT ![t] = Tail(@)]
                  /\ step' = [step EXCEPT ![t] = 0]
  ELSE step' = [step EXCEPT ![t] = @ + 1] /\ UNCHANGED want

(* One bus write to the pins: the controller takes a half when En falls,   *)
(* the old one or the new one if both change at once.                      *)
Write(t) ==
  /\ OnPins(t)
  /\ port' = Pins(Item(t), step[t])
  /\ IF outputs /\ port.en /\ ~port'.en
       THEN \E n \in {Half(port), Half(port')} : Takes(n)
       ELSE UNCHANGED <<phase, upper>>
  /\ Advance(t)
  /\ booting' = (booting /\ want'[t] # <<>>)
  /\ CASE booting /\ ~booting' ->
            trusted' = outputs /\ shown' = shown /\ at' = IF outputs THEN 0 ELSE at
       [] booting'             -> Kept
       [] ~booting /\ (~trusted \/ Disturbs(t)) -> Lost
       [] ~booting /\ trusted /\ ~Disturbs(t)   -> IF Last(t) THEN Executes(Half(port')) ELSE Kept
  /\ UNCHANGED <<board, outputs, ret, keyValue, faults>>

(* After an access the mcp23017 turns to the other register of the pair.   *)
McpWrite(t) == board = "mcp" /\ Write(t) /\ pointer' = "B"
PcfWrite(t) == board = "pcf" /\ Write(t) /\ UNCHANGED pointer

Register(t) ==
  /\ ~Idle(t) /\ ~OnPins(t)
  /\ LET r == Item(t).kind IN
       /\ outputs' = (outputs \/ r = "iodira")
       /\ pointer' = CASE r = "point"                 -> "B"
                       [] r = "read" /\ pointer = "B" -> "A"
                       [] r = "read" /\ pointer = "A" -> "B"
                       [] OTHER                       -> "other"
       /\ keyValue' \in IF r # "read" THEN {keyValue}
                        ELSE IF pointer = "B" THEN Keys ELSE {PortA}
  /\ Advance(t)
  /\ UNCHANGED <<board, booting, port, phase, upper, shown, at, trusted, ret, faults>>

(* A transfer fails and does not reach the board: the call ends with -1;   *)
(* mcpInit does not look at the results of its three.                      *)
Fails(t) ==
  /\ ~Idle(t) /\ faults < MaxFaults
  /\ faults' = faults + 1
  /\ LET r == Item(t).kind IN
       IF r \in {"iocon", "iodira", "iodirb"}
       THEN Advance(t) /\ UNCHANGED <<booting, ret, keyValue>>
       ELSE /\ want' = [want EXCEPT ![t] = <<>>]
            /\ step' = [step EXCEPT ![t] = 0]
            /\ ret' = [ret EXCEPT ![t] = -1]
            /\ booting' = FALSE
            /\ keyValue' = IF r \in {"point", "read"} THEN Failed ELSE keyValue
  /\ IF Inside(t) THEN Lost ELSE Kept
  /\ UNCHANGED <<board, port, outputs, pointer, phase, upper>>

(* The process ends wherever its threads are; the board keeps its power.   *)
Halt ==
  /\ want' = [t \in Threads |-> <<>>]
  /\ step' = [t \in Threads |-> 0]
  /\ booting' = FALSE
  /\ IF \E t \in Threads : Inside(t) THEN Lost ELSE Kept
  /\ UNCHANGED <<board, port, outputs, pointer, phase, upper, ret, keyValue, faults>>

Transfer(t) == McpWrite(t) \/ PcfWrite(t) \/ Register(t) \/ Fails(t)
-----------------------------------------------------------------------------
Items == [kind : {"cmd", "data", "cmd4", "iocon", "iodira", "iodirb", "point", "read"},
          byte : 0 .. 255]

LcdTypeOK ==
  /\ board \in {"mcp", "pcf"}
  /\ want \in [Threads -> Seq(Items)] /\ step \in [Threads -> 0 .. 5]
  /\ booting \in BOOLEAN /\ trusted \in BOOLEAN /\ outputs \in BOOLEAN
  /\ port \in [rs : BOOLEAN, en : BOOLEAN, nib : 0 .. 15]
  /\ pointer \in {"A", "B", "other"}
  /\ phase \in {"wide", "high", "low"} /\ upper \in [rs : BOOLEAN, nib : 0 .. 15]
  /\ shown \in [Cells -> 0 .. 255] /\ at \in {NoWhere} \cup (0 .. 39) \cup (64 .. 103)
  /\ ret \in [Threads -> {0, -1}]
  /\ keyValue \in Keys \cup {PortA, Failed} /\ faults \in 0 .. MaxFaults

(* As long as trusted, the controller holds the high half exactly while a  *)
(* thread still owes it the low one, and En is high exactly while a thread *)
(* is about to clear it, however the threads' bytes alternate, and however *)
(* an earlier process ended: LCD1602KeyInit finds the controller in step   *)
(* or out of step, half a byte in or not (pulseEnable and mcpWriteCmd8).   *)
InStep ==
  trusted =>
    /\ phase = IF \E t \in Threads : step[t] \in 3 .. 5 THEN "low" ELSE "high"
    /\ port.en = \E t \in Threads : step[t] \in {2, 5}

(* GetKey returns what the key port reads, although another thread may     *)
(* write to the display's port between the two transfers of a read         *)
(* (I2CReadByteFrom): the expander turns to the key port after it.         *)
KeyFromKeys == keyValue # PortA

(* The six-write protocol implements the display of two lines: seen        *)
(* through the controller's memory, every call of any thread does to it    *)
(* what it says, byte by byte, in step.                                    *)
Place(a) == IF a < 64 THEN <<a, 0>> ELSE <<a - 64, 1>>
Meaning(i) ==
  CASE i.kind = "data"                   -> [op |-> "put", char |-> i.byte]
    [] i.kind = "cmd" /\ i.byte = 1      -> [op |-> "clear"]
    [] i.kind = "cmd" /\ i.byte >= 128   -> [op |-> "move", to |-> Place(i.byte - 128)]
    [] OTHER                             -> [op |-> "setup"]
ReadsKey(w) == w # <<>> /\ Head(w).kind \in {"point", "read"}
Meant(w)    == IF ReadsKey(w) THEN <<>> ELSE [n \in 1 .. Len(w) |-> Meaning(w[n])]
Cell(p)  == p[1] + 64 * p[2]
Line == INSTANCE LineLcd WITH
  shown  <- [p \in Columns \X {0, 1} |-> shown[Cell(p)]],
  cursor <- IF at = NoWhere THEN <<-1, 0>> ELSE Place(at),
  todo   <- [t \in Threads |-> Meant(want[t])]

LineSpec == Line!Spec
=============================================================================
