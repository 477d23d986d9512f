------------------------------ MODULE PwmDriver ------------------------------
(***************************************************************************)
(* The kernel driver of the motors, demo/ckt-pwm_gpio/pwm_gpio_ctrl.c:     *)
(* loading and unloading, the open that is meant to be exclusive, and move *)
(* as ioctl and write start it.  Nothing in the driver is locked, so each  *)
(* access to a global and each write to an output is a step of its own.    *)
(* The callers are processes like ckt_analysis with two threads, the one   *)
(* that opens the device and a signal handler on another.                  *)
(***************************************************************************)
EXTENDS Integers, Sequences

CONSTANTS
  Procs,
  Pairs,       \* the <<x, y>> the callers ask for, signed chars
  MaxOpens,    \* bound on the opens
  MaxCalls     \* bound on the ioctls and writes

Values == -128 .. 127

ASSUME PairsAssumption  == Pairs \subseteq Values \X Values
ASSUME BoundsAssumption == MaxOpens \in Nat /\ MaxCalls \in Nat

Threads == Procs \X {"main", "handler"}
Main(p) == <<p, "main">>

VARIABLES
  module,      \* "out", "loading", "pins" (in gpio_init), "in" or "oops"
  got,         \* how many of Resources this load holds
  leaked,      \* which of the two that matter a failed load has left behind
  deviceOpen,  \* Device_Open
  holders,     \* processes that have the device open
  pc, read,    \* where a thread is, and the Device_Open it has read
  arg, speed,  \* the pair a thread asks for, and what reaches move
  next,        \* the output a move sets next, 0 outside
  pin,         \* the pin gpio_init sets next, 0 outside
  out,         \* the two duties and the four pins
  heap,        \* the kmalloc'ed texts, cut at the comma or not
  valueXY, valueX, valueY,           \* the pointers into it, 0 = NULL
  opens, calls,                      \* bounds
  raced,       \* history: two threads were inside open or release at once
  mixed,       \* history: what two calls at once may have spoilt
  last, lastText   \* history: what the last move and the last write asked for

load     == <<module, got, leaked, pin>>
count    == <<deviceOpen, holders, read, opens, raced>>
text     == <<heap, valueXY, valueX, valueY, lastText>>
args     == <<arg, speed>>
outputs  == <<out, last>>
vars == <<load, count, pc, args, next, outputs, text, calls, mixed>>

Pins    == {"p26", "p27", "p30", "p31"}
Outputs == {"pwm0", "pwm1"} \cup Pins
Zero    == <<0, 0>>
Efault  == <<>>          \* pwm_read has nothing to give back
-----------------------------------------------------------------------------
(* move: the duties are the sizes, the pins the signs, of x and y; 0 counts *)
(* as ahead.  The outputs are set one after the other.                     *)
Size(v) == IF v > 0 THEN v ELSE -v
Bit(b)  == IF b THEN 1 ELSE 0

Target(m) ==
  [pwm0 |-> Size(m[1]), pwm1 |-> Size(m[2]),
   p26 |-> Bit(m[1] < 0), p27 |-> Bit(m[1] >= 0),
   p30 |-> Bit(m[2] >= 0), p31 |-> Bit(m[2] < 0)]

(* Mutant: the last pin is forgotten. *)
MoveOrderShort == <<"pwm0", "pwm1", "p26", "p27", "p30">>

MoveOrder == <<"pwm0", "pwm1", "p26", "p27", "p30", "p31">>

(* gpio_init: all four pins low, after their directions.                   *)
InitOrder == <<"p26", "p27", "p30", "p31">>

(* Mutant: a char is taken as unsigned. *)
SignedNot(b) == b

(* pwm_ioctl takes two chars for signed ones, whatever the build's char is. *)
Signed(b) == IF b > 127 THEN b - 256 ELSE b
Bytes(m)  == <<m[1] % 256, m[2] % 256>>

(* Where pwm_read finds the texts of the two numbers; NULL is EFAULT.      *)
ReadBack ==
  IF valueX = 0 \/ valueY = 0 THEN Efault
  ELSE <<heap[valueX].pair[1], heap[valueY].pair[2]>>

InCall(t)   == pc[t] \in {"copy", "split", "parse", "move"}
Counting(t) == pc[t] \in {"load", "store", "rload", "rstore"}
Busy        == module = "pins" \/ \E t \in Threads : InCall(t)
Rest        == ~Busy

Go(t, l) == pc' = [pc EXCEPT ![t] = l]
-----------------------------------------------------------------------------
Init ==
  /\ module = "out" /\ got = 0 /\ leaked = {}
  /\ deviceOpen = 0 /\ holders = {}
  /\ pc = [t \in Threads |-> "idle"]
  /\ read = [t \in Threads |-> 0]
  /\ arg = [t \in Threads |-> Zero] /\ speed = arg
  /\ next = [t \in Threads |-> 0] /\ pin = 0
  /\ out = [o \in Outputs |-> 0] /\ last = out
  /\ heap = <<>> /\ valueXY = 0 /\ valueX = 0 /\ valueY = 0
  /\ lastText = Efault
  /\ opens = 0 /\ calls = 0 /\ raced = FALSE /\ mixed = {}

(* pwm_ctrl_init, one resource after the other.  A failure returns at once *)
(* and gives nothing back, so that the class of a failed load makes every  *)
(* later class_create fail too.                                            *)
Resources == <<"region", "mem", "cdev", "class", "node", "gpio attr", "pwm attr">>
Held(r)   == \E i \in 1 .. got : Resources[i] = r

Insmod ==
  /\ module = "out"
  /\ module' = "loading"
  /\ deviceOpen' = 0 /\ raced' = FALSE
  /\ heap' = <<>> /\ valueXY' = 0 /\ valueX' = 0 /\ valueY' = 0
  /\ lastText' = Efault
  /\ UNCHANGED <<pin, got, leaked, holders, read, opens, pc, args, next, outputs, calls, mixed>>

Acquire ==
  /\ module = "loading" /\ got < Len(Resources)
  /\ Resources[got + 1] \notin leaked
  /\ got' = got + 1
  /\ UNCHANGED <<pin, module, leaked, count, pc, args, next, outputs, text, calls, mixed>>

(* A process that has opened the node already is left with freed code.     *)
LoadFails ==
  /\ module = "loading" /\ got < Len(Resources) /\ Resources[got + 1] # "node"
  /\ module' = "out"
  /\ leaked' = leaked \cup {r \in {"class", "node"} : Held(r)}
  /\ got' = 0
  /\ pc' = [t \in Threads |-> IF pc[t] # "idle" \/ t[1] \in holders THEN "dead" ELSE "idle"]
  /\ holders' = {}
  /\ mixed' = IF Busy THEN {"out", "text"} ELSE mixed
  /\ UNCHANGED <<pin, deviceOpen, read, opens, raced, args, next, outputs, text, calls>>

(* The result of device_create is not looked at: its error pointer is used. *)
NodeFails ==
  /\ module = "loading" /\ got < Len(Resources) /\ Resources[got + 1] = "node"
  /\ module' = "oops"
  /\ UNCHANGED <<pin, got, leaked, count, pc, args, next, outputs, text, calls, mixed>>

(* The node exists by now: a caller may be faster than gpio_init.          *)
PinsBegin ==
  /\ module = "loading" /\ got = Len(Resources)
  /\ module' = "pins"
  /\ pin' = 1
  /\ mixed' = IF Busy THEN {"out", "text"} ELSE mixed
  /\ UNCHANGED <<got, leaked, count, pc, args, next, outputs, text, calls>>

PinsStep ==
  /\ module = "pins" /\ pin <= Len(InitOrder)
  /\ out' = [out EXCEPT ![InitOrder[pin]] = 0]
  /\ pin' = pin + 1
  /\ UNCHANGED <<module, got, leaked, count, pc, args, next, last, text, calls, mixed>>

PinsEnd ==
  /\ module = "pins" /\ pin > Len(InitOrder)
  /\ module' = "in"
  /\ pin' = 0
  /\ last' = [o \in Outputs |-> IF o \in Pins THEN 0 ELSE last[o]]
  /\ UNCHANGED <<got, leaked, count, pc, args, next, out, text, calls, mixed>>

(* pwm_ctrl_exit; the kernel runs it only while nobody uses the module.    *)
Rmmod ==
  /\ module = "in"
  /\ holders = {} /\ \A t \in Threads : pc[t] = "idle"
  /\ module' = "out"
  /\ got' = 0
  /\ UNCHANGED <<pin, leaked, count, pc, args, next, outputs, text, calls, mixed>>
-----------------------------------------------------------------------------
(* pwm_open: the test, and the increment in two steps.                     *)
Others(t) == \E u \in Threads \ {t} : Counting(u)

OpenTest(p) ==
  LET t == Main(p) IN
  /\ Held("node") /\ module # "oops"
  /\ pc[t] = "idle" /\ p \notin holders
  /\ opens < MaxOpens
  /\ opens' = opens + 1
  /\ IF deviceOpen # 0
       THEN UNCHANGED <<pc, raced>>                      \* EBUSY
       ELSE Go(t, "load") /\ raced' = (raced \/ Others(t))
  /\ UNCHANGED <<load, deviceOpen, holders, read, args, next, outputs, text, calls, mixed>>

OpenLoad(p) ==
  LET t == Main(p) IN
  /\ pc[t] = "load"
  /\ read' = [read EXCEPT ![t] = deviceOpen]
  /\ Go(t, "store")
  /\ UNCHANGED <<load, deviceOpen, holders, opens, raced, args, next, outputs, text, calls, mixed>>

OpenStore(p) ==
  LET t == Main(p) IN
  /\ pc[t] = "store"
  /\ deviceOpen' = read[t] + 1
  /\ holders' = holders \cup {p}
  /\ read' = [read EXCEPT ![t] = 0]
  /\ Go(t, "idle")
  /\ UNCHANGED <<load, opens, raced, args, next, outputs, text, calls, mixed>>

(* An open of the node a failed load has left runs code that is gone.      *)
OpenStale(p) ==
  /\ "node" \in leaked /\ pc[Main(p)] = "idle"
  /\ Go(Main(p), "dead")
  /\ UNCHANGED <<load, count, args, next, outputs, text, calls, mixed>>

(* pwm_release, once no thread of the process is inside a call.            *)
Release(p) ==
  LET t == Main(p) IN
  /\ p \in holders
  /\ \A u \in Threads : u[1] = p => pc[u] = "idle"
  /\ holders' = holders \ {p}
  /\ Go(t, "rload")
  /\ raced' = (raced \/ Others(t))
  /\ UNCHANGED <<load, deviceOpen, read, opens, args, next, outputs, text, calls, mixed>>

ReleaseLoad(p) ==
  LET t == Main(p) IN
  /\ pc[t] = "rload"
  /\ read' = [read EXCEPT ![t] = deviceOpen]
  /\ Go(t, "rstore")
  /\ UNCHANGED <<load, deviceOpen, holders, opens, raced, args, next, outputs, text, calls, mixed>>

(* Mutant: the count stays. *)
ReleaseStoreKept(p) ==
  LET t == Main(p) IN
  /\ pc[t] = "rstore"
  /\ Go(t, "idle")
  /\ UNCHANGED <<load, count, args, next, outputs, text, calls, mixed>>

ReleaseStore(p) ==
  LET t == Main(p) IN
  /\ pc[t] = "rstore"
  /\ deviceOpen' = read[t] - 1
  /\ read' = [read EXCEPT ![t] = 0]
  /\ Go(t, "idle")
  /\ UNCHANGED <<load, holders, opens, raced, args, next, outputs, text, calls, mixed>>
-----------------------------------------------------------------------------
(* A call begins: alone, it makes good what it is about to set anew.       *)
Begin(t, fresh) ==
  /\ pc[t] = "idle" /\ t[1] \in holders
  /\ calls < MaxCalls
  /\ calls' = calls + 1
  /\ mixed' = IF Busy THEN {"out", "text"} ELSE mixed \ fresh

Ioctl(t) ==
  /\ Begin(t, {"out"})
  /\ \E m \in Pairs :
       /\ arg' = [arg EXCEPT ![t] = m]
       /\ speed' = [speed EXCEPT ![t] = <<Signed(Bytes(m)[1]), Signed(Bytes(m)[2])>>]
  /\ Go(t, "move")
  /\ next' = [next EXCEPT ![t] = 1]
  /\ UNCHANGED <<load, count, outputs, text>>

(* pwm_write: a new buffer behind the one global pointer, or none.         *)
WriteAlloc(t) ==
  /\ Begin(t, {"out", "text"})
  /\ \E m \in Pairs : arg' = [arg EXCEPT ![t] = m]
  /\ heap' = Append(heap, [pair |-> Zero, cut |-> FALSE])
  /\ valueXY' = Len(heap')
  /\ Go(t, "copy")
  /\ UNCHANGED <<load, count, speed, next, outputs, valueX, valueY, lastText>>

WriteNoMemory(t) ==
  /\ Begin(t, {})
  /\ valueXY' = 0
  /\ UNCHANGED <<load, count, pc, args, next, outputs, heap, valueX, valueY, lastText>>

WriteCopy(t) ==
  /\ pc[t] = "copy"
  /\ IF valueXY = 0
       THEN Go(t, "dead") /\ UNCHANGED heap              \* a NULL buffer
       ELSE /\ heap' = [heap EXCEPT ![valueXY] = [pair |-> arg[t], cut |-> FALSE]]
            /\ Go(t, "split")
  /\ UNCHANGED <<load, count, args, next, outputs, valueXY, valueX, valueY, lastText, calls, mixed>>

(* Mutant: the second pointer is set only once. *)
CommaOnce(b) == IF valueY # 0 THEN valueY ELSE b

(* strsep leaves NULL when there is no comma any more.                     *)
Comma(b) == IF heap[b].cut THEN 0 ELSE b

(* split_buff: the text is cut and the global pointers set, through which  *)
(* atoi reads the numbers.                                                 *)
WriteSplit(t) ==
  /\ pc[t] = "split"
  /\ IF valueXY = 0
       THEN Go(t, "dead") /\ UNCHANGED <<heap, valueX, valueY>>
       ELSE /\ heap' = [heap EXCEPT ![valueXY].cut = TRUE]
            /\ valueX' = valueXY
            /\ valueY' = Comma(valueXY)
            /\ Go(t, "parse")
  /\ UNCHANGED <<load, count, args, next, outputs, valueXY, lastText, calls, mixed>>

Atoi(b, i) == IF b = 0 THEN 0 ELSE heap[b].pair[i]

WriteParse(t) ==
  /\ pc[t] = "parse"
  /\ lastText' = arg[t]
  /\ speed' = [speed EXCEPT ![t] = <<Atoi(valueX, 1), Atoi(valueY, 2)>>]
  /\ Go(t, "move")
  /\ next' = [next EXCEPT ![t] = 1]
  /\ UNCHANGED <<load, count, arg, outputs, heap, valueXY, valueX, valueY, calls, mixed>>

MoveStep(t) ==
  /\ pc[t] = "move" /\ next[t] <= Len(MoveOrder)
  /\ LET o == MoveOrder[next[t]] IN out' = [out EXCEPT ![o] = Target(speed[t])[o]]
  /\ next' = [next EXCEPT ![t] = @ + 1]
  /\ UNCHANGED <<load, count, pc, args, last, text, calls, mixed>>

MoveEnd(t) ==
  /\ pc[t] = "move" /\ next[t] > Len(MoveOrder)
  /\ Go(t, "idle")
  /\ next' = [next EXCEPT ![t] = 0]
  /\ last' = Target(arg[t])
  /\ arg' = [arg EXCEPT ![t] = Zero]
  /\ speed' = [speed EXCEPT ![t] = Zero]
  /\ UNCHANGED <<load, count, out, text, calls, mixed>>
-----------------------------------------------------------------------------
Loader ==
  \/ Insmod \/ Acquire \/ LoadFails \/ NodeFails
  \/ PinsBegin \/ PinsStep \/ PinsEnd \/ Rmmod

OpenClose(p) ==
  \/ OpenTest(p) \/ OpenLoad(p) \/ OpenStore(p) \/ OpenStale(p)
  \/ Release(p) \/ ReleaseLoad(p) \/ ReleaseStore(p)

Call(t) ==
  \/ Ioctl(t) \/ WriteAlloc(t) \/ WriteNoMemory(t)
  \/ WriteCopy(t) \/ WriteSplit(t) \/ WriteParse(t)
  \/ MoveStep(t) \/ MoveEnd(t)

Next == Loader \/ (\E p \in Procs : OpenClose(p)) \/ (\E t \in Threads : Call(t))

Spec == Init /\ [][Next]_vars
-----------------------------------------------------------------------------
Labels == {"idle", "load", "store", "rload", "rstore", "dead",
           "copy", "split", "parse", "move"}
Levels == 0 .. 128

(* Every variable keeps its type; Device_Open may leave 0 and 1 once       *)
(* opens or releases have overlapped.                                      *)
TypeOK ==
  /\ module \in {"out", "loading", "pins", "in", "oops"}
  /\ got \in 0 .. 7 /\ leaked \subseteq {"class", "node"}
  /\ deviceOpen \in Int /\ holders \subseteq Procs
  /\ pc \in [Threads -> Labels]
  /\ read \in [Threads -> Int]
  /\ arg \in [Threads -> Values \X Values]
  /\ speed \in [Threads -> Values \X Values]
  /\ next \in [Threads -> 0 .. 7] /\ pin \in 0 .. 5
  /\ out \in [Outputs -> Levels] /\ last \in [Outputs -> Levels]
  /\ heap \in Seq([pair : Values \X Values, cut : BOOLEAN])
  /\ valueXY \in 0 .. Len(heap) /\ valueX \in 0 .. Len(heap)
  /\ valueY \in 0 .. Len(heap)
  /\ opens \in Nat /\ calls \in Nat /\ raced \in BOOLEAN /\ mixed \subseteq {"out", "text"}

(* As long as no two opens or releases overlapped since the module was     *)
(* loaded, Device_Open counts: at most one process has the device, opens   *)
(* it or gives it back, and it is 1 exactly while one has it or is giving  *)
(* it back, so that nobody is refused a device that is free (lines 288-324). *)
Claims(p) == p \in holders \/ Counting(Main(p))
Owns(p)   == p \in holders \/ pc[Main(p)] \in {"rload", "rstore"}

CountsHolders ==
  ~raced /\ module # "out" =>
    /\ \A p, q \in Procs : Claims(p) /\ Claims(q) => p = q
    /\ deviceOpen = Bit(\E p \in Procs : Owns(p))

(* Between calls the duties and pins are those of one move, the last, or   *)
(* what gpio_init made of it, whatever was called before and however many  *)
(* loads failed, unless calls overlapped and no later call set it right.   *)
PatternWhole == Rest /\ "out" \notin mixed => out = last

(* What pwm_read gives back between calls is the pair of the last write,   *)
(* although the texts live in buffers that later writes replace.           *)
ReadsLastWrite == Rest /\ "text" \notin mixed => ReadBack = lastText

(* Lines 7-10: Device_Open is "used to prevent concurent access into the   *)
(* same device": no two processes have it open.                            *)
OneHolder == \A p, q \in holders : p = q
=============================================================================
