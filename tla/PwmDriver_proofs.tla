-------------------------- MODULE PwmDriver_proofs ---------------------------
(***************************************************************************)
(* Theorems about the motor driver, for any number of processes, any pairs *)
(* of speeds and any number of opens, calls and loads.                     *)
(***************************************************************************)
EXTENDS PwmDriver, SequenceTheorems, TLAPS

(* What processes and threads have to do with one another.                 *)
LEMMA MainThread ==
  /\ \A p \in Procs : Main(p) \in Threads /\ <<p, "handler">> \in Threads /\ Main(p)[1] = p
  /\ \A p, q \in Procs : Main(p) = Main(q) => p = q
  /\ \A p, q \in Procs : Main(p) # <<q, "handler">>
  /\ \A t \in Threads : t[1] \in Procs /\ (t = Main(t[1]) \/ t = <<t[1], "handler">>)
BY DEF Threads, Main

-----------------------------------------------------------------------------
(* Types, in three parts.                                                  *)
CountOK ==
  /\ module \in {"out", "loading", "pins", "in", "oops"}
  /\ got \in 0 .. 7 /\ leaked \subseteq {"class", "node"}
  /\ deviceOpen \in Int /\ holders \subseteq Procs
  /\ pc \in [Threads -> Labels]
  /\ read \in [Threads -> Int]
  /\ opens \in Nat /\ calls \in Nat /\ raced \in BOOLEAN /\ mixed \subseteq {"out", "text"}

ArgsOK ==
  /\ arg \in [Threads -> Values \X Values]
  /\ speed \in [Threads -> Values \X Values]
  /\ next \in [Threads -> 0 .. 7] /\ pin \in 0 .. 5
  /\ out \in [Outputs -> Levels] /\ last \in [Outputs -> Levels]

Texts == [pair : Values \X Values, cut : BOOLEAN]

TextOK ==
  /\ heap \in Seq(Texts)
  /\ valueXY \in 0 .. Len(heap) /\ valueX \in 0 .. Len(heap)
  /\ valueY \in 0 .. Len(heap)

(* A thread in move is at an output, and gpio_init at a pin.               *)
StepInv ==
  /\ \A t \in Threads : pc[t] = "move" => next[t] # 0
  /\ module = "pins" => pin # 0

TypeInv == CountOK /\ ArgsOK /\ TextOK /\ StepInv

(* The steps that leave a part alone.                                      *)
LEMMA CountFrame ==
  CountOK /\ UNCHANGED <<module, got, leaked, deviceOpen, holders, pc, read, opens, calls, raced, mixed>>
    => CountOK'
BY DEF CountOK

LEMMA ArgsFrame == ArgsOK /\ UNCHANGED <<args, next, pin, outputs>> => ArgsOK'
BY DEF ArgsOK, args, outputs

LEMMA TextFrame == TextOK /\ UNCHANGED <<heap, valueXY, valueX, valueY>> => TextOK'
BY DEF TextOK

(* The tables of the driver.                                               *)
LEMMA Tables ==
  /\ MoveOrder \in [1 .. 6 -> Outputs] /\ Len(MoveOrder) = 6
  /\ \A o \in Outputs : \E i \in 1 .. 6 : MoveOrder[i] = o
  /\ InitOrder \in [1 .. 4 -> Pins] /\ Len(InitOrder) = 4
  /\ \A o \in Pins : \E i \in 1 .. 4 : InitOrder[i] = o
  /\ Pins \subseteq Outputs
  /\ Len(Resources) = 7
BY DEF MoveOrder, InitOrder, Outputs, Pins, Resources

LEMMA TargetType == \A m \in Values \X Values : Target(m) \in [Outputs -> Levels]
BY DEF Target, Values, Outputs, Pins, Levels, Size, Bit

(* A signed char survives the ioctl.                                       *)
LEMMA SignedBytes ==
  ASSUME NEW m \in Values \X Values
  PROVE  <<Signed(Bytes(m)[1]), Signed(Bytes(m)[2])>> = m
<1>1. \A v \in Values : Signed(v % 256) = v
  <2> SUFFICES ASSUME NEW v \in -128 .. 127 PROVE Signed(v % 256) = v
    BY DEF Values
  <2>1. CASE v >= 0
    <3>1. v % 256 = v
      BY <2>1
    <3> QED BY <2>1, <3>1 DEF Signed
  <2>2. CASE v < 0
    <3>1. v % 256 = v + 256
      BY <2>2
    <3> QED BY <2>2, <3>1 DEF Signed
  <2> QED BY <2>1, <2>2
<1> QED BY <1>1 DEF Bytes

(* A jump of one thread.                                                   *)
LEMMA Jump ==
  ASSUME pc \in [Threads -> Labels], NEW t \in Threads, NEW l \in Labels, Go(t, l)
  PROVE  pc' \in [Threads -> Labels] /\ pc'[t] = l /\ \A u \in Threads \ {t} : pc'[u] = pc[u]
BY DEF Go

LEMMA LabelNames ==
  /\ "idle" \in Labels /\ "load" \in Labels /\ "store" \in Labels /\ "rload" \in Labels
  /\ "rstore" \in Labels /\ "dead" \in Labels /\ "copy" \in Labels /\ "split" \in Labels
  /\ "parse" \in Labels /\ "move" \in Labels
BY DEF Labels

(* Opening and closing move the main thread of a process only, and never   *)
(* into or out of a call.                                                  *)
Outside == {"idle", "load", "store", "rload", "rstore", "dead"}

LEMMA OpenCloseJump ==
  ASSUME pc \in [Threads -> Labels], NEW p \in Procs, OpenClose(p)
  PROVE  /\ pc' \in [Threads -> Labels]
         /\ \A u \in Threads : u # Main(p) => pc'[u] = pc[u]
         /\ pc[Main(p)] \in Outside /\ pc'[Main(p)] \in Outside
<1> USE LabelNames, Jump DEF Outside
<1>0. Main(p) \in Threads
  BY MainThread
<1>1. CASE OpenTest(p)
  <2>1. pc[Main(p)] = "idle" /\ (UNCHANGED pc \/ Go(Main(p), "load"))
    BY <1>1 DEF OpenTest
  <2> QED BY <1>0, <2>1
<1>2. CASE OpenLoad(p)
  <2>1. pc[Main(p)] = "load" /\ Go(Main(p), "store")
    BY <1>2 DEF OpenLoad
  <2> QED BY <1>0, <2>1
<1>3. CASE OpenStore(p)
  <2>1. pc[Main(p)] = "store" /\ Go(Main(p), "idle")
    BY <1>3 DEF OpenStore
  <2> QED BY <1>0, <2>1
<1>4. CASE OpenStale(p)
  <2>1. pc[Main(p)] = "idle" /\ Go(Main(p), "dead")
    BY <1>4 DEF OpenStale
  <2> QED BY <1>0, <2>1
<1>5. CASE Release(p)
  <2>1. pc[Main(p)] = "idle" /\ Go(Main(p), "rload")
    BY <1>0, <1>5, MainThread DEF Release
  <2> QED BY <1>0, <2>1
<1>6. CASE ReleaseLoad(p)
  <2>1. pc[Main(p)] = "rload" /\ Go(Main(p), "rstore")
    BY <1>6 DEF ReleaseLoad
  <2> QED BY <1>0, <2>1
<1>7. CASE ReleaseStore(p)
  <2>1. pc[Main(p)] = "rstore" /\ Go(Main(p), "idle")
    BY <1>7 DEF ReleaseStore
  <2> QED BY <1>0, <2>1
<1> QED BY <1>1, <1>2, <1>3, <1>4, <1>5, <1>6, <1>7 DEF OpenClose

-----------------------------------------------------------------------------
LEMMA CountStep == TypeInv /\ Next => CountOK'
<1> SUFFICES ASSUME TypeInv, Next PROVE CountOK'
  OBVIOUS
<1> USE MainThread, Jump, LabelNames DEF TypeInv, CountOK
<1>0. \A t \in Threads : Others(t) \in BOOLEAN
  BY Zenon DEF Others
<1>1. CASE Insmod
  <2>1. module' = "loading" /\ deviceOpen' = 0 /\ raced' = FALSE
    BY <1>1 DEF Insmod
  <2>2. UNCHANGED <<got, leaked, holders, read, opens, pc, calls, mixed>>
    BY <1>1 DEF Insmod
  <2>3. module' \in {"out", "loading", "pins", "in", "oops"} /\ deviceOpen' \in Int
    BY <2>1
  <2>4. raced' \in BOOLEAN
    BY <2>1
  <2> QED BY <2>2, <2>3, <2>4
<1>2. CASE Acquire BY <1>2, Tables DEF Acquire, count
<1>3. CASE LoadFails BY <1>3, Tables DEF LoadFails
<1>4. CASE NodeFails BY <1>4 DEF NodeFails, count
<1>5. CASE PinsBegin BY <1>5 DEF PinsBegin, count
<1>6. CASE PinsStep BY <1>6 DEF PinsStep, count
<1>7. CASE PinsEnd BY <1>7 DEF PinsEnd, count
<1>8. CASE Rmmod BY <1>8 DEF Rmmod, count
<1>9. ASSUME NEW p \in Procs, OpenClose(p) PROVE CountOK'
  <2>0. Main(p) \in Threads
    BY MainThread
  <2>1. CASE OpenTest(p)
    <3>1. UNCHANGED <<module, got, leaked, deviceOpen, holders, read, calls, mixed>>
      BY <2>1 DEF OpenTest, load
    <3>2. opens' = opens + 1
      BY <2>1 DEF OpenTest
    <3>3. raced' \in BOOLEAN /\ pc' \in [Threads -> Labels]
      BY <1>0, <2>0, <2>1 DEF OpenTest
    <3> QED BY <3>1, <3>2, <3>3
  <2>2. CASE OpenLoad(p)
    <3>1. UNCHANGED <<module, got, leaked, deviceOpen, holders, opens, raced, calls, mixed>>
      BY <2>2 DEF OpenLoad, load
    <3>2. read' = [read EXCEPT ![Main(p)] = deviceOpen] /\ Go(Main(p), "store")
      BY <2>2 DEF OpenLoad
    <3> QED BY <2>0, <3>1, <3>2
  <2>3. CASE OpenStore(p)
    <3>1. UNCHANGED <<module, got, leaked, opens, raced, calls, mixed>>
      BY <2>3 DEF OpenStore, load
    <3>2. deviceOpen' = read[Main(p)] + 1 /\ read' = [read EXCEPT ![Main(p)] = 0]
      BY <2>3 DEF OpenStore
    <3>3. Go(Main(p), "idle") /\ holders' = holders \cup {p}
      BY <2>3 DEF OpenStore
    <3> QED BY <2>0, <3>1, <3>2, <3>3
  <2>4. CASE OpenStale(p) BY <2>4 DEF OpenStale, load, count
  <2>5. CASE Release(p)
    <3>1. UNCHANGED <<module, got, leaked, deviceOpen, read, opens, calls, mixed>>
      BY <2>5 DEF Release, load
    <3>2. holders' \subseteq Procs /\ raced' \in BOOLEAN
      BY <1>0, <2>0, <2>5 DEF Release
    <3>3. pc' \in [Threads -> Labels]
      BY <2>0, <2>5 DEF Release
    <3> QED BY <3>1, <3>2, <3>3
  <2>6. CASE ReleaseLoad(p)
    <3>1. UNCHANGED <<module, got, leaked, deviceOpen, holders, opens, raced, calls, mixed>>
      BY <2>6 DEF ReleaseLoad, load
    <3>2. read' = [read EXCEPT ![Main(p)] = deviceOpen] /\ Go(Main(p), "rstore")
      BY <2>6 DEF ReleaseLoad
    <3> QED BY <2>0, <3>1, <3>2
  <2>7. CASE ReleaseStore(p)
    <3>1. UNCHANGED <<module, got, leaked, holders, opens, raced, calls, mixed>>
      BY <2>7 DEF ReleaseStore, load
    <3>2. deviceOpen' = read[Main(p)] - 1 /\ read' = [read EXCEPT ![Main(p)] = 0]
      BY <2>7 DEF ReleaseStore
    <3>3. Go(Main(p), "idle")
      BY <2>7 DEF ReleaseStore
    <3> QED BY <2>0, <3>1, <3>2, <3>3
  <2> QED BY <1>9, <2>1, <2>2, <2>3, <2>4, <2>5, <2>6, <2>7 DEF OpenClose
<1>10. ASSUME NEW t \in Threads, Call(t) PROVE CountOK'
  <2> USE DEF load, count
  <2>1. CASE Ioctl(t) BY <2>1 DEF Ioctl, Begin
  <2>2. CASE WriteAlloc(t) BY <2>2 DEF WriteAlloc, Begin
  <2>3. CASE WriteNoMemory(t) BY <2>3 DEF WriteNoMemory, Begin
  <2>4. CASE WriteCopy(t) BY <2>4 DEF WriteCopy
  <2>5. CASE WriteSplit(t) BY <2>5 DEF WriteSplit
  <2>6. CASE WriteParse(t) BY <2>6 DEF WriteParse
  <2>7. CASE MoveStep(t) BY <2>7 DEF MoveStep
  <2>8. CASE MoveEnd(t) BY <2>8 DEF MoveEnd
  <2> QED BY <1>10, <2>1, <2>2, <2>3, <2>4, <2>5, <2>6, <2>7, <2>8 DEF Call
<1> QED
  BY <1>1, <1>2, <1>3, <1>4, <1>5, <1>6, <1>7, <1>8, <1>9, <1>10 DEF Next, Loader

LEMMA TextStep == TypeInv /\ Next => TextOK'
<1> SUFFICES ASSUME TypeInv, Next PROVE TextOK'
  OBVIOUS
<1> USE TextFrame DEF TypeInv, text
<1>1. CASE Insmod BY <1>1 DEF Insmod, TextOK
<1>2. CASE Loader /\ ~Insmod
  BY <1>2 DEF Loader, Acquire, LoadFails, NodeFails, PinsBegin, PinsStep, PinsEnd, Rmmod
<1>3. ASSUME NEW p \in Procs, OpenClose(p) PROVE TextOK'
  BY <1>3 DEF OpenClose, OpenTest, OpenLoad, OpenStore, OpenStale, Release, ReleaseLoad, ReleaseStore
<1>4. ASSUME NEW t \in Threads, Call(t) PROVE TextOK'
  <2> DEFINE n == Len(heap)
  <2>0. n \in Nat /\ heap \in Seq(Texts) /\ \A i \in 1 .. n : heap[i] \in Texts
    BY DEF TextOK
  <2>1. CASE Ioctl(t) BY <2>1 DEF Ioctl
  <2>2. CASE WriteAlloc(t)
    <3>1. /\ heap' = Append(heap, [pair |-> Zero, cut |-> FALSE]) /\ valueXY' = Len(heap')
          /\ UNCHANGED <<valueX, valueY>>
      BY <2>2 DEF WriteAlloc
    <3>2. [pair |-> Zero, cut |-> FALSE] \in Texts
      BY DEF Texts, Zero, Values
    <3> QED BY <2>0, <3>1, <3>2 DEF TextOK
  <2>3. CASE WriteNoMemory(t) BY <2>3 DEF WriteNoMemory, TextOK
  <2>4. CASE WriteCopy(t)
    <3>1. arg[t] \in Values \X Values
      BY DEF ArgsOK
    <3>2. [pair |-> arg[t], cut |-> FALSE] \in Texts
      BY <3>1 DEF Texts
    <3>3. CASE valueXY = 0 BY <2>4, <3>3 DEF WriteCopy
    <3>4. CASE valueXY # 0
      <4>1. heap' = [heap EXCEPT ![valueXY] = [pair |-> arg[t], cut |-> FALSE]]
        BY <2>4, <3>4 DEF WriteCopy
      <4>2. valueXY \in 1 .. Len(heap)
        BY <2>0, <3>4 DEF TextOK
      <4>3. heap' \in Seq(Texts) /\ Len(heap') = Len(heap)
        BY <2>0, <3>2, <4>1, <4>2, ExceptSeq
      <4> QED BY <2>4, <4>3 DEF WriteCopy, TextOK
    <3> QED BY <3>3, <3>4
  <2>5. CASE WriteSplit(t)
    <3>1. CASE valueXY = 0 BY <2>5, <3>1 DEF WriteSplit
    <3>2. CASE valueXY # 0
      <4>1. heap' = [heap EXCEPT ![valueXY] = [heap[valueXY] EXCEPT !.cut = TRUE]]
        BY <2>5, <3>2 DEF WriteSplit
      <4>2. valueXY \in 1 .. n
        BY <2>0, <3>2 DEF TextOK
      <4>3. [heap[valueXY] EXCEPT !.cut = TRUE] \in Texts
        BY <2>0, <4>2 DEF Texts
      <4>4. heap' \in Seq(Texts) /\ Len(heap') = n
        BY <2>0, <4>1, <4>2, <4>3, ExceptSeq
      <4> QED BY <2>5, <3>2, <4>4 DEF WriteSplit, TextOK, Comma
    <3> QED BY <3>1, <3>2
  <2>6. CASE WriteParse(t) BY <2>6 DEF WriteParse
  <2>7. CASE MoveStep(t) BY <2>7 DEF MoveStep
  <2>8. CASE MoveEnd(t) BY <2>8 DEF MoveEnd
  <2> QED BY <1>4, <2>1, <2>2, <2>3, <2>4, <2>5, <2>6, <2>7, <2>8 DEF Call
<1> QED BY <1>1, <1>2, <1>3, <1>4 DEF Next

LEMMA ArgsStep == TypeInv /\ Next => ArgsOK'
<1> SUFFICES ASSUME TypeInv, Next PROVE ArgsOK'
  OBVIOUS
<1> USE ArgsFrame, Tables DEF TypeInv
<1>1. CASE Loader
  <2> USE DEF args, outputs
  <2>1. CASE Insmod BY <2>1 DEF Insmod
  <2>2. CASE Acquire BY <2>2 DEF Acquire
  <2>3. CASE LoadFails BY <2>3 DEF LoadFails
  <2>4. CASE NodeFails BY <2>4 DEF NodeFails
  <2>5. CASE PinsBegin
    <3>1. pin' = 1 /\ UNCHANGED <<arg, speed, next, out, last>>
      BY <2>5 DEF PinsBegin
    <3> QED BY <3>1 DEF ArgsOK
  <2>6. CASE PinsStep
    <3>1. pin' = pin + 1 /\ pin <= 4 /\ UNCHANGED <<arg, speed, next, last>>
      BY <2>6 DEF PinsStep
    <3>2. out' = [out EXCEPT ![InitOrder[pin]] = 0]
      BY <2>6 DEF PinsStep
    <3>3. 0 \in Levels /\ out \in [Outputs -> Levels]
      BY DEF ArgsOK, Levels
    <3>4. out' \in [Outputs -> Levels]
      BY <3>2, <3>3
    <3>5. pin \in 0 .. 5
      BY DEF ArgsOK
    <3> QED BY <3>1, <3>4, <3>5 DEF ArgsOK
  <2>7. CASE PinsEnd
    <3>1. pin' = 0 /\ UNCHANGED <<arg, speed, next, out>>
      BY <2>7 DEF PinsEnd
    <3>2. last' = [o \in Outputs |-> IF o \in Pins THEN 0 ELSE last[o]]
      BY <2>7 DEF PinsEnd
    <3>3. last' \in [Outputs -> Levels]
      BY <3>2 DEF ArgsOK, Levels
    <3> QED BY <3>1, <3>3 DEF ArgsOK
  <2>8. CASE Rmmod BY <2>8 DEF Rmmod
  <2> QED BY <1>1, <2>1, <2>2, <2>3, <2>4, <2>5, <2>6, <2>7, <2>8 DEF Loader
<1>2. ASSUME NEW p \in Procs, OpenClose(p) PROVE ArgsOK'
  <2>1. UNCHANGED <<args, next, pin, outputs>>
    BY <1>2 DEF OpenClose, OpenTest, OpenLoad, OpenStore, OpenStale, Release,
                ReleaseLoad, ReleaseStore, load
  <2> QED BY <2>1
<1>3. ASSUME NEW t \in Threads, Call(t) PROVE ArgsOK'
  <2> USE DEF load, outputs
  <2>1. CASE Ioctl(t)
    <3>1. PICK m \in Pairs :
            /\ arg' = [arg EXCEPT ![t] = m]
            /\ speed' = [speed EXCEPT ![t] = <<Signed(Bytes(m)[1]), Signed(Bytes(m)[2])>>]
      BY <2>1 DEF Ioctl
    <3>2. m \in Values \X Values /\ speed' = [speed EXCEPT ![t] = m]
      BY <3>1, SignedBytes, PairsAssumption
    <3>3. next' = [next EXCEPT ![t] = 1] /\ UNCHANGED <<pin, out, last>>
      BY <2>1 DEF Ioctl
    <3> QED BY <3>1, <3>2, <3>3 DEF ArgsOK
  <2>2. CASE WriteAlloc(t)
    <3>1. PICK m \in Pairs : arg' = [arg EXCEPT ![t] = m]
      BY <2>2 DEF WriteAlloc
    <3>2. m \in Values \X Values
      BY PairsAssumption
    <3>3. UNCHANGED <<pin, speed, next, out, last>>
      BY <2>2 DEF WriteAlloc
    <3> QED BY <3>1, <3>2, <3>3 DEF ArgsOK
  <2>3. CASE WriteNoMemory(t) BY <2>3 DEF WriteNoMemory
  <2>4. CASE WriteCopy(t) BY <2>4 DEF WriteCopy
  <2>5. CASE WriteSplit(t) BY <2>5 DEF WriteSplit
  <2>6. CASE WriteParse(t)
    <3>1. speed' = [speed EXCEPT ![t] = <<Atoi(valueX, 1), Atoi(valueY, 2)>>]
      BY <2>6 DEF WriteParse
    <3>2. next' = [next EXCEPT ![t] = 1] /\ UNCHANGED <<pin, arg, out, last>>
      BY <2>6 DEF WriteParse
    <3>3. \A b \in 1 .. Len(heap) : heap[b] \in Texts
      BY DEF TextOK
    <3>4. \A b \in 0 .. Len(heap), i \in {1, 2} : Atoi(b, i) \in Values
      <4> SUFFICES ASSUME NEW b \in 0 .. Len(heap), NEW i \in {1, 2} PROVE Atoi(b, i) \in Values
        OBVIOUS
      <4>1. CASE b = 0 BY <4>1 DEF Atoi, Values
      <4>2. CASE b # 0
        <5>1. heap[b] \in Texts
          BY <3>3, <4>2 DEF TextOK
        <5>2. heap[b].pair \in Values \X Values
          BY <5>1 DEF Texts
        <5> QED BY <4>2, <5>2 DEF Atoi
      <4> QED BY <4>1, <4>2
    <3>5. Atoi(valueX, 1) \in Values /\ Atoi(valueY, 2) \in Values
      BY <3>4 DEF TextOK
    <3> QED BY <3>1, <3>2, <3>5 DEF ArgsOK
  <2>7. CASE MoveStep(t)
    <3>1. next[t] \in 1 .. 6
      BY <2>7 DEF MoveStep, ArgsOK, StepInv
    <3>2. out' = [out EXCEPT ![MoveOrder[next[t]]] = Target(speed[t])[MoveOrder[next[t]]]]
      BY <2>7 DEF MoveStep
    <3>3. Target(speed[t]) \in [Outputs -> Levels]
      BY TargetType DEF ArgsOK
    <3>4. out' \in [Outputs -> Levels]
      BY <3>1, <3>2, <3>3 DEF ArgsOK
    <3>5. next' = [next EXCEPT ![t] = next[t] + 1] /\ UNCHANGED <<pin, arg, speed, last>>
      BY <2>7 DEF MoveStep, args
    <3> QED BY <3>1, <3>4, <3>5 DEF ArgsOK
  <2>8. CASE MoveEnd(t)
    <3>1. /\ next' = [next EXCEPT ![t] = 0] /\ last' = Target(arg[t])
          /\ arg' = [arg EXCEPT ![t] = Zero] /\ speed' = [speed EXCEPT ![t] = Zero]
          /\ UNCHANGED <<pin, out>>
      BY <2>8 DEF MoveEnd
    <3>2. Zero \in Values \X Values
      BY DEF Zero, Values
    <3>3. last' \in [Outputs -> Levels]
      BY <3>1, TargetType DEF ArgsOK
    <3> QED BY <3>1, <3>2, <3>3 DEF ArgsOK
  <2> QED BY <1>3, <2>1, <2>2, <2>3, <2>4, <2>5, <2>6, <2>7, <2>8 DEF Call
<1> QED BY <1>1, <1>2, <1>3 DEF Next

LEMMA StepStep == TypeInv /\ Next => StepInv'
<1> SUFFICES ASSUME TypeInv, Next PROVE StepInv'
  OBVIOUS
<1> USE DEF TypeInv, StepInv
<1>0. pc \in [Threads -> Labels] /\ next \in [Threads -> 0 .. 7] /\ pin \in 0 .. 5
  BY DEF CountOK, ArgsOK
<1>1. CASE Loader
  <2> USE <1>0 DEF count, load
  <2>1. CASE Insmod BY <2>1 DEF Insmod
  <2>2. CASE Acquire BY <2>2 DEF Acquire
  <2>3. CASE LoadFails BY <2>3 DEF LoadFails
  <2>4. CASE NodeFails BY <2>4 DEF NodeFails
  <2>5. CASE PinsBegin BY <2>5 DEF PinsBegin
  <2>6. CASE PinsStep BY <2>6 DEF PinsStep
  <2>7. CASE PinsEnd BY <2>7 DEF PinsEnd
  <2>8. CASE Rmmod BY <2>8 DEF Rmmod
  <2> QED BY <1>1, <2>1, <2>2, <2>3, <2>4, <2>5, <2>6, <2>7, <2>8 DEF Loader
<1>2. ASSUME NEW p \in Procs, OpenClose(p) PROVE StepInv'
  <2>1. UNCHANGED <<next, pin, module>>
    BY <1>2 DEF OpenClose, OpenTest, OpenLoad, OpenStore, OpenStale, Release,
                ReleaseLoad, ReleaseStore, load
  <2>2. \A t \in Threads : pc'[t] = "move" => pc[t] = "move"
    BY <1>0, <1>2, OpenCloseJump DEF Outside
  <2> QED BY <2>1, <2>2
<1>3. ASSUME NEW t \in Threads, Call(t) PROVE StepInv'
  <2> USE Jump, LabelNames, <1>0 DEF load
  <2>1. CASE Ioctl(t) BY <2>1 DEF Ioctl
  <2>2. CASE WriteAlloc(t) BY <2>2 DEF WriteAlloc
  <2>3. CASE WriteNoMemory(t) BY <2>3 DEF WriteNoMemory
  <2>4. CASE WriteCopy(t) BY <2>4 DEF WriteCopy
  <2>5. CASE WriteSplit(t) BY <2>5 DEF WriteSplit
  <2>6. CASE WriteParse(t) BY <2>6 DEF WriteParse
  <2>7. CASE MoveStep(t) BY <2>7 DEF MoveStep
  <2>8. CASE MoveEnd(t) BY <2>8 DEF MoveEnd
  <2> QED BY <1>3, <2>1, <2>2, <2>3, <2>4, <2>5, <2>6, <2>7, <2>8 DEF Call
<1> QED BY <1>1, <1>2, <1>3 DEF Next

LEMMA TypeStep == TypeInv /\ [Next]_vars => TypeInv'
<1>1. TypeInv /\ UNCHANGED vars => TypeInv'
  BY DEF TypeInv, CountOK, ArgsOK, TextOK, StepInv, vars, load, count, args, outputs, text
<1> QED BY <1>1, CountStep, ArgsStep, TextStep, StepStep DEF TypeInv

LEMMA TypeInit == Init => TypeInv
<1> SUFFICES ASSUME Init PROVE TypeInv
  OBVIOUS
<1>1. CountOK
  <2>1. pc = [t \in Threads |-> "idle"] /\ read = [t \in Threads |-> 0]
    BY DEF Init
  <2>2. pc \in [Threads -> Labels] /\ read \in [Threads -> Int]
    BY <2>1, LabelNames
  <2>3. raced \in BOOLEAN
    BY DEF Init
  <2> QED BY <2>2, <2>3 DEF Init, CountOK
<1>2. ArgsOK BY DEF Init, ArgsOK, Zero, Values, Levels
<1>3. TextOK BY EmptySeq DEF Init, TextOK
<1>4. StepInv BY DEF Init, StepInv
<1> QED BY <1>1, <1>2, <1>3, <1>4 DEF TypeInv

(* Every variable keeps its type (the globals of the driver, and where each *)
(* thread is in open, release, ioctl, write and move).                     *)
THEOREM TypeCorrect == Spec => []TypeOK
<1>1. TypeInv => TypeOK
  BY DEF TypeInv, CountOK, ArgsOK, TextOK, Texts, TypeOK
<1> QED BY <1>1, TypeInit, TypeStep, PTL DEF Spec

-----------------------------------------------------------------------------
(* Device_Open.  Only main threads count; while no two of them overlapped, *)
(* a thread that has read the counter is the only one that will write it.  *)
NoneIn == holders = {} /\ \A t \in Threads : pc[t] \in {"idle", "dead"}

Exclusive ==
  /\ \A p, q \in Procs : Claims(p) /\ Claims(q) => p = q
  /\ \A p \in holders : ~Counting(Main(p))
  /\ \A p \in Procs : Owns(p) => deviceOpen = 1
  /\ (\A p \in Procs : ~Owns(p)) => deviceOpen = 0
  /\ \A p \in Procs : /\ pc[Main(p)] = "store"  => read[Main(p)] = 0
                      /\ pc[Main(p)] = "rstore" => read[Main(p)] = 1

CountInv ==
  /\ module = "out" => NoneIn /\ got = 0
  /\ \A p \in Procs : ~Counting(<<p, "handler">>)
  /\ ~raced /\ module # "out" => Exclusive

LEMMA CountInit == Init => CountInv
<1> SUFFICES ASSUME Init PROVE CountInv
  OBVIOUS
<1>1. module = "out" /\ got = 0 /\ holders = {} /\ \A t \in Threads : pc[t] = "idle"
  BY DEF Init
<1> QED BY <1>1, MainThread DEF CountInv, NoneIn, Counting

(* A call moves its thread among the labels of calls.                      *)
Calls == {"idle", "copy", "split", "parse", "move", "dead"}

LEMMA CallJump ==
  ASSUME pc \in [Threads -> Labels], NEW t \in Threads, Call(t)
  PROVE  /\ UNCHANGED <<load, count>>
         /\ \A u \in Threads : u # t => pc'[u] = pc[u]
         /\ pc[t] \in Calls \ {"dead"} /\ pc'[t] \in Calls
         /\ pc[t] = "idle" => t[1] \in holders
<1> USE LabelNames, Jump DEF Calls
<1>1. CASE Ioctl(t) BY <1>1 DEF Ioctl, Begin
<1>2. CASE WriteAlloc(t) BY <1>2 DEF WriteAlloc, Begin
<1>3. CASE WriteNoMemory(t) BY <1>3 DEF WriteNoMemory, Begin
<1>4. CASE WriteCopy(t) BY <1>4 DEF WriteCopy
<1>5. CASE WriteSplit(t) BY <1>5 DEF WriteSplit
<1>6. CASE WriteParse(t) BY <1>6 DEF WriteParse
<1>7. CASE MoveStep(t) BY <1>7 DEF MoveStep
<1>8. CASE MoveEnd(t) BY <1>8 DEF MoveEnd
<1> QED BY <1>1, <1>2, <1>3, <1>4, <1>5, <1>6, <1>7, <1>8 DEF Call

(* What does not touch the counter, nor who counts.                        *)
LEMMA ExclusiveFrame ==
  ASSUME Exclusive, holders \subseteq Procs, UNCHANGED <<deviceOpen, holders, read>>,
         \A u \in Threads : pc'[u] = pc[u] \/ (~Counting(u) /\ ~Counting(u)')
  PROVE  Exclusive'
<1>1. \A p \in Procs : pc'[Main(p)] = pc[Main(p)] \/ (~Counting(Main(p)) /\ ~Counting(Main(p))')
  BY MainThread
<1>2. \A p \in Procs : Counting(Main(p))' <=> Counting(Main(p))
  BY <1>1 DEF Counting
<1>3. \A p \in Procs : Claims(p)' <=> Claims(p)
  BY <1>2 DEF Claims
<1>4. \A p \in Procs : Owns(p)' <=> Owns(p)
  BY <1>1 DEF Owns, Counting
<1>5. \A p \in Procs : /\ pc'[Main(p)] = "store" => pc[Main(p)] = "store"
                       /\ pc'[Main(p)] = "rstore" => pc[Main(p)] = "rstore"
  BY <1>1 DEF Counting
<1>6. \A p, q \in Procs : Claims(p)' /\ Claims(q)' => p = q
  BY <1>3 DEF Exclusive
<1>7. \A p \in holders' : ~Counting(Main(p))'
  BY <1>1 DEF Exclusive, Counting, Claims
<1>8. /\ \A p \in Procs : Owns(p)' => deviceOpen' = 1
      /\ (\A p \in Procs : ~Owns(p)') => deviceOpen' = 0
  BY <1>4 DEF Exclusive
<1>9. \A p \in Procs : /\ pc'[Main(p)] = "store"  => read'[Main(p)] = 0
                       /\ pc'[Main(p)] = "rstore" => read'[Main(p)] = 1
  BY <1>5 DEF Exclusive
<1> QED BY <1>6, <1>7, <1>8, <1>9 DEF Exclusive

LEMMA OutStep == TypeInv /\ CountInv /\ Next => (module' = "out" => NoneIn' /\ got' = 0)
<1> SUFFICES ASSUME TypeInv, CountInv, Next, module' = "out" PROVE NoneIn' /\ got' = 0
  OBVIOUS
<1>0. pc \in [Threads -> Labels]
  BY DEF TypeInv, CountOK
<1>1. CASE Loader
  <2>1. CASE LoadFails BY <2>1 DEF LoadFails, NoneIn
  <2>2. CASE Rmmod BY <2>2 DEF Rmmod, count, NoneIn
  <2> QED
    BY <1>1, <2>1, <2>2
       DEF Loader, Insmod, Acquire, NodeFails, PinsBegin, PinsStep, PinsEnd
<1>2. ASSUME NEW p \in Procs, OpenClose(p) PROVE NoneIn' /\ got' = 0
  <2>1. UNCHANGED load
    BY <1>2 DEF OpenClose, OpenTest, OpenLoad, OpenStore, OpenStale, Release,
                ReleaseLoad, ReleaseStore
  <2>2. module = "out" /\ got' = 0 /\ NoneIn /\ got = 0
    BY <2>1 DEF load, CountInv
  <2>3. ~Held("node")
    BY <2>2 DEF Held
  <2>4. holders = {} /\ pc[Main(p)] \in {"idle", "dead"}
    BY <2>2, MainThread DEF NoneIn
  <2>5. OpenStale(p)
    <3>1. ~OpenTest(p) BY <2>3 DEF OpenTest
    <3>2. ~OpenLoad(p) BY <2>4 DEF OpenLoad
    <3>3. ~OpenStore(p) BY <2>4 DEF OpenStore
    <3>4. ~Release(p) BY <2>4 DEF Release
    <3>5. ~ReleaseLoad(p) BY <2>4 DEF ReleaseLoad
    <3>6. ~ReleaseStore(p) BY <2>4 DEF ReleaseStore
    <3> QED BY <1>2, <3>1, <3>2, <3>3, <3>4, <3>5, <3>6 DEF OpenClose
  <2>6. Go(Main(p), "dead") /\ UNCHANGED holders
    BY <2>5 DEF OpenStale, count
  <2>7. \A t \in Threads : pc'[t] \in {"idle", "dead"}
    <3>1. Main(p) \in Threads /\ "dead" \in Labels
      BY MainThread, LabelNames
    <3>2. pc'[Main(p)] = "dead" /\ \A t \in Threads \ {Main(p)} : pc'[t] = pc[t]
      BY <1>0, <2>6, <3>1, Jump
    <3> QED BY <2>2, <3>2 DEF NoneIn
  <2> QED BY <2>2, <2>6, <2>7 DEF NoneIn
<1>3. ASSUME NEW t \in Threads, Call(t) PROVE NoneIn' /\ got' = 0
  <2>1. UNCHANGED load
    BY <1>0, <1>3, CallJump
  <2>2. NoneIn
    BY <2>1 DEF load, CountInv
  <2>3. pc[t] \in {"idle", "dead"} /\ holders = {}
    BY <2>2 DEF NoneIn
  <2>4. pc[t] # "dead" /\ (pc[t] = "idle" => t[1] \in holders)
    BY <1>0, <1>3, CallJump DEF Calls
  <2> QED BY <2>3, <2>4
<1> QED BY <1>1, <1>2, <1>3 DEF Next

LEMMA HandlerStep == TypeInv /\ CountInv /\ Next => \A p \in Procs : ~Counting(<<p, "handler">>)'
<1> SUFFICES ASSUME TypeInv, CountInv, Next, NEW q \in Procs PROVE ~Counting(<<q, "handler">>)'
  OBVIOUS
<1> DEFINE h == <<q, "handler">>
<1>0. pc \in [Threads -> Labels] /\ h \in Threads /\ ~Counting(h)
  BY MainThread DEF TypeInv, CountOK, CountInv
<1>1. CASE Loader
  <2>1. CASE LoadFails
    <3>1. pc'[h] \in {"idle", "dead"}
      BY <1>0, <2>1 DEF LoadFails
    <3> QED BY <3>1 DEF Counting
  <2>2. CASE ~LoadFails
    <3>1. pc' = pc
      BY <1>1, <2>2
         DEF Loader, Insmod, Acquire, NodeFails, PinsBegin, PinsStep, PinsEnd, Rmmod
    <3> QED BY <1>0, <3>1 DEF Counting
  <2> QED BY <2>1, <2>2
<1>2. ASSUME NEW p \in Procs, OpenClose(p) PROVE ~Counting(h)'
  <2>1. pc'[h] = pc[h]
    BY <1>0, <1>2, OpenCloseJump, MainThread
  <2> QED BY <1>0, <2>1 DEF Counting
<1>3. ASSUME NEW t \in Threads, Call(t) PROVE ~Counting(h)'
  <2>1. pc'[h] = pc[h] \/ pc'[h] \in Calls
    BY <1>0, <1>3, CallJump
  <2> QED BY <1>0, <2>1 DEF Counting, Calls
<1> QED BY <1>1, <1>2, <1>3 DEF Next

LEMMA ExclusiveStep ==
  TypeInv /\ CountInv /\ Next => (~raced' /\ module' # "out" => Exclusive')
<1> SUFFICES ASSUME TypeInv, CountInv, Next, ~raced', module' # "out" PROVE Exclusive'
  OBVIOUS
<1>0. /\ pc \in [Threads -> Labels] /\ read \in [Threads -> Int] /\ holders \subseteq Procs
      /\ \A q \in Procs : Main(q) \in Threads
  BY MainThread DEF TypeInv, CountOK
<1>1. CASE Loader
  <2>1. CASE Insmod
    <3>1. NoneIn /\ deviceOpen' = 0 /\ UNCHANGED <<holders, pc>>
      BY <2>1 DEF Insmod, CountInv
    <3>2. \A q \in Procs : pc'[Main(q)] \in {"idle", "dead"}
      BY <1>0, <3>1 DEF NoneIn
    <3>3. holders' = {}
      BY <3>1 DEF NoneIn
    <3>4. \A q \in Procs : ~Claims(q)' /\ ~Owns(q)'
      BY <3>2, <3>3 DEF Claims, Owns, Counting
    <3> QED BY <3>1, <3>2, <3>3, <3>4 DEF Exclusive
  <2>2. CASE ~Insmod
    <3>1. module # "out" /\ UNCHANGED count /\ UNCHANGED pc
      BY <1>1, <2>2 DEF Loader, Acquire, LoadFails, NodeFails, PinsBegin, PinsStep, PinsEnd, Rmmod
    <3>2. Exclusive
      BY <3>1 DEF count, CountInv
    <3> QED BY <1>0, <3>1, <3>2, ExclusiveFrame DEF count
  <2> QED BY <2>1, <2>2
<1>2. ASSUME NEW p \in Procs, OpenClose(p) PROVE Exclusive'
  <2> DEFINE t == Main(p)
  <2>0. t \in Threads /\ \A q \in Procs : q # p => Main(q) # t
    BY <1>0, MainThread
  <2>1. UNCHANGED load
    BY <1>2 DEF OpenClose, OpenTest, OpenLoad, OpenStore, OpenStale, Release,
                ReleaseLoad, ReleaseStore
  <2>2. module # "out"
    BY <2>1 DEF load
  <2>3. \A q \in Procs : q # p => pc'[Main(q)] = pc[Main(q)]
    BY <1>0, <1>2, <2>0, OpenCloseJump
  <2>4. \A q \in Procs : q # p => /\ Counting(Main(q))' <=> Counting(Main(q))
                                  /\ pc'[Main(q)] = "store" => pc[Main(q)] = "store"
                                  /\ pc'[Main(q)] = "rstore" => pc[Main(q)] = "rstore"
    BY <2>3 DEF Counting
  <2>5. ASSUME Exclusive, Claims(p), NEW q \in Procs, q # p
        PROVE  q \notin holders /\ ~Counting(Main(q)) /\ pc[Main(q)] \notin {"store", "rload", "rstore"}
    BY <2>5 DEF Exclusive, Claims, Counting
  <2> HIDE DEF t
  <2>11. CASE OpenTest(p)
    <3>1. CASE deviceOpen # 0
      <4>1. UNCHANGED <<pc, raced, deviceOpen, holders, read>>
        BY <2>11, <3>1 DEF OpenTest
      <4>2. Exclusive
        BY <2>2, <4>1 DEF CountInv
      <4> QED BY <1>0, <4>1, <4>2, ExclusiveFrame
    <3>2. CASE deviceOpen = 0
      <4>1. Go(t, "load") /\ raced' = (raced \/ Others(t)) /\ UNCHANGED <<deviceOpen, holders, read>>
        BY <2>11, <3>2 DEF OpenTest, t
      <4>2. ~raced /\ ~Others(t)
        BY <4>1
      <4>3. Exclusive
        BY <2>2, <4>2 DEF CountInv
      <4>4. \A q \in Procs : ~Owns(q)
        BY <3>2, <4>3 DEF Exclusive
      <4>5. holders = {}
        BY <1>0, <4>4 DEF Owns
      <4>6. \A q \in Procs : q # p => ~Counting(Main(q))
        BY <1>0, <2>0, <4>2 DEF Others
      <4>7. pc'[t] = "load"
        BY <1>0, <2>0, <4>1, Jump, LabelNames
      <4>8. \A q \in Procs : Claims(q)' => q = p
        BY <2>4, <4>1, <4>5, <4>6 DEF Claims
      <4>9. \A q \in Procs : ~Owns(q)'
        BY <2>3, <4>1, <4>4, <4>7 DEF Owns, t
      <4>10. \A q \in Procs : pc'[Main(q)] \notin {"store", "rstore"}
        BY <2>4, <4>6, <4>7 DEF Counting, t
      <4> QED BY <3>2, <4>1, <4>5, <4>8, <4>9, <4>10 DEF Exclusive
    <3> QED BY <3>1, <3>2
  <2>12. CASE OpenLoad(p)
    <3>1. /\ pc[t] = "load" /\ read' = [read EXCEPT ![t] = deviceOpen] /\ Go(t, "store")
          /\ UNCHANGED <<deviceOpen, holders, raced>>
      BY <2>12 DEF OpenLoad, t
    <3>2. Exclusive
      BY <2>2, <3>1 DEF CountInv
    <3>3. Claims(p) /\ p \notin holders
      BY <3>1, <3>2 DEF Claims, Counting, Exclusive, t
    <3>4. \A q \in Procs : ~Owns(q)
      BY <2>5, <3>1, <3>2, <3>3 DEF Owns, t
    <3>5. deviceOpen = 0
      BY <3>2, <3>4 DEF Exclusive
    <3>6. pc'[t] = "store" /\ read'[t] = 0
      BY <1>0, <2>0, <3>1, <3>5, Jump, LabelNames
    <3>7. holders = {}
      BY <1>0, <3>4 DEF Owns
    <3>8. \A q \in Procs : q # p => ~Counting(Main(q)) /\ pc[Main(q)] \notin {"store", "rload", "rstore"}
      BY <2>5, <3>2, <3>3
    <3>9. \A q \in Procs : Claims(q)' => q = p
      BY <2>4, <3>1, <3>7, <3>8 DEF Claims
    <3>10. \A q \in Procs : ~Owns(q)'
      BY <2>3, <3>1, <3>4, <3>6 DEF Owns, t
    <3>11. \A q \in Procs : /\ pc'[Main(q)] = "store" => read'[Main(q)] = 0
                            /\ pc'[Main(q)] # "rstore"
      BY <2>4, <3>6, <3>8 DEF t
    <3> QED BY <3>1, <3>5, <3>7, <3>9, <3>10, <3>11 DEF Exclusive
  <2>13. CASE OpenStore(p)
    <3>1. /\ pc[t] = "store" /\ deviceOpen' = read[t] + 1 /\ holders' = holders \cup {p}
          /\ Go(t, "idle") /\ UNCHANGED raced
      BY <2>13 DEF OpenStore, t
    <3>2. Exclusive
      BY <2>2, <3>1 DEF CountInv
    <3>3. Claims(p) /\ read[t] = 0
      BY <3>1, <3>2 DEF Claims, Counting, Exclusive, t
    <3>4. deviceOpen' = 1
      BY <3>1, <3>3
    <3>5. pc'[t] = "idle"
      BY <1>0, <2>0, <3>1, Jump, LabelNames
    <3>6. \A q \in Procs : q # p => /\ q \notin holders /\ ~Counting(Main(q))
                                    /\ pc[Main(q)] \notin {"store", "rload", "rstore"}
      BY <2>5, <3>2, <3>3
    <3>7. holders' = {p}
      BY <1>0, <3>1, <3>6
    <3>8. \A q \in Procs : Claims(q)' => q = p
      BY <2>4, <3>6, <3>7 DEF Claims
    <3>9. Owns(p)'
      BY <3>7 DEF Owns
    <3>10. \A q \in Procs : ~Counting(Main(q))' /\ pc'[Main(q)] \notin {"store", "rstore"}
      BY <2>3, <3>5, <3>6 DEF Counting, t
    <3> QED BY <3>4, <3>7, <3>8, <3>9, <3>10 DEF Exclusive
  <2>14. CASE OpenStale(p)
    <3>1. pc[t] = "idle" /\ Go(t, "dead") /\ UNCHANGED count
      BY <2>14 DEF OpenStale, t
    <3>2. Exclusive
      BY <2>2, <3>1 DEF count, CountInv
    <3>3. pc'[t] = "dead" /\ \A u \in Threads \ {t} : pc'[u] = pc[u]
      BY <1>0, <2>0, <3>1, Jump, LabelNames
    <3>4. \A u \in Threads : pc'[u] = pc[u] \/ (~Counting(u) /\ ~Counting(u)')
      BY <3>1, <3>3 DEF Counting
    <3> QED BY <1>0, <3>1, <3>2, <3>4, ExclusiveFrame DEF count
  <2>15. CASE Release(p)
    <3>1. /\ p \in holders /\ holders' = holders \ {p} /\ Go(t, "rload")
          /\ raced' = (raced \/ Others(t)) /\ UNCHANGED deviceOpen
      BY <2>15 DEF Release, t
    <3>2. ~raced
      BY <3>1
    <3>3. Exclusive
      BY <2>2, <3>2 DEF CountInv
    <3>4. Claims(p) /\ Owns(p)
      BY <3>1 DEF Claims, Owns
    <3>5. deviceOpen' = 1
      BY <3>1, <3>3, <3>4 DEF Exclusive
    <3>6. pc'[t] = "rload"
      BY <1>0, <2>0, <3>1, Jump, LabelNames
    <3>7. \A q \in Procs : q # p => /\ q \notin holders /\ ~Counting(Main(q))
                                    /\ pc[Main(q)] \notin {"store", "rload", "rstore"}
      BY <2>5, <3>3, <3>4
    <3>8. holders' = {}
      BY <1>0, <3>1, <3>7
    <3>9. \A q \in Procs : Claims(q)' => q = p
      BY <2>4, <3>7, <3>8 DEF Claims
    <3>10. Owns(p)'
      BY <3>6 DEF Owns, t
    <3>11. \A q \in Procs : pc'[Main(q)] \notin {"store", "rstore"}
      BY <2>4, <3>6, <3>7 DEF t
    <3> QED BY <3>5, <3>8, <3>9, <3>10, <3>11 DEF Exclusive
  <2>16. CASE ReleaseLoad(p)
    <3>1. /\ pc[t] = "rload" /\ read' = [read EXCEPT ![t] = deviceOpen] /\ Go(t, "rstore")
          /\ UNCHANGED <<deviceOpen, holders, raced>>
      BY <2>16 DEF ReleaseLoad, t
    <3>2. Exclusive
      BY <2>2, <3>1 DEF CountInv
    <3>3. Claims(p) /\ Owns(p) /\ p \notin holders
      BY <3>1, <3>2 DEF Claims, Counting, Owns, Exclusive, t
    <3>4. deviceOpen = 1
      BY <3>2, <3>3 DEF Exclusive
    <3>5. pc'[t] = "rstore" /\ read'[t] = 1
      BY <1>0, <2>0, <3>1, <3>4, Jump, LabelNames
    <3>6. \A q \in Procs : q # p => /\ q \notin holders /\ ~Counting(Main(q))
                                    /\ pc[Main(q)] \notin {"store", "rload", "rstore"}
      BY <2>5, <3>2, <3>3
    <3>7. holders = {}
      BY <1>0, <3>3, <3>6
    <3>8. \A q \in Procs : Claims(q)' => q = p
      BY <2>4, <3>1, <3>6, <3>7 DEF Claims
    <3>9. Owns(p)'
      BY <3>5 DEF Owns, t
    <3>10. \A q \in Procs : /\ pc'[Main(q)] # "store"
                            /\ pc'[Main(q)] = "rstore" => read'[Main(q)] = 1
      BY <2>4, <3>5, <3>6 DEF t
    <3> QED BY <3>1, <3>4, <3>7, <3>8, <3>9, <3>10 DEF Exclusive
  <2>17. CASE ReleaseStore(p)
    <3>1. /\ pc[t] = "rstore" /\ deviceOpen' = read[t] - 1 /\ Go(t, "idle")
          /\ UNCHANGED <<holders, raced>>
      BY <2>17 DEF ReleaseStore, t
    <3>2. Exclusive
      BY <2>2, <3>1 DEF CountInv
    <3>3. Claims(p) /\ p \notin holders /\ read[t] = 1
      BY <3>1, <3>2 DEF Claims, Counting, Exclusive, t
    <3>4. deviceOpen' = 0
      BY <3>1, <3>3
    <3>5. pc'[t] = "idle"
      BY <1>0, <2>0, <3>1, Jump, LabelNames
    <3>6. \A q \in Procs : q # p => /\ q \notin holders /\ ~Counting(Main(q))
                                    /\ pc[Main(q)] \notin {"store", "rload", "rstore"}
      BY <2>5, <3>2, <3>3
    <3>7. holders' = {}
      BY <1>0, <3>1, <3>3, <3>6
    <3>8. \A q \in Procs : ~Counting(Main(q))' /\ pc'[Main(q)] \notin {"store", "rload", "rstore"}
      BY <2>3, <2>4, <3>5, <3>6 DEF Counting, t
    <3>9. \A q \in Procs : ~Claims(q)' /\ ~Owns(q)'
      BY <3>7, <3>8 DEF Claims, Owns
    <3> QED BY <3>4, <3>7, <3>8, <3>9 DEF Exclusive
  <2> QED BY <1>2, <2>11, <2>12, <2>13, <2>14, <2>15, <2>16, <2>17 DEF OpenClose
<1>3. ASSUME NEW t \in Threads, Call(t) PROVE Exclusive'
  <2>1. UNCHANGED <<load, count>>
    BY <1>0, <1>3, CallJump
  <2>2. Exclusive
    BY <2>1 DEF load, count, CountInv
  <2>3. \A u \in Threads : pc'[u] = pc[u] \/ (~Counting(u) /\ ~Counting(u)')
    BY <1>0, <1>3, CallJump DEF Calls, Counting
  <2> QED BY <1>0, <2>1, <2>2, <2>3, ExclusiveFrame DEF count
<1> QED BY <1>1, <1>2, <1>3 DEF Next

LEMMA CountInvStep == TypeInv /\ CountInv /\ [Next]_vars => CountInv'
<1>1. CountInv /\ UNCHANGED vars => CountInv'
  BY DEF CountInv, NoneIn, Exclusive, Claims, Owns, Counting, vars, load, count
<1>2. TypeInv /\ CountInv /\ Next => CountInv'
  BY OutStep, HandlerStep, ExclusiveStep DEF CountInv
<1> QED BY <1>1, <1>2

(* As long as opens and releases have not overlapped, at most one process  *)
(* has the device, opens it or gives it back, and Device_Open is 1 exactly *)
(* while it has it or gives it back (pwm_open and pwm_release).            *)
THEOREM CountsHoldersAlways == Spec => []CountsHolders
<1>1. CountInv => CountsHolders
  BY DEF CountInv, Exclusive, CountsHolders, Bit
<1> QED BY <1>1, TypeInit, TypeStep, CountInit, CountInvStep, PTL DEF Spec

-----------------------------------------------------------------------------
(* The outputs and the texts.  While nothing is spoilt, a call is alone.   *)
Writing(t) == pc[t] \in {"copy", "split", "parse"}

AloneInv ==
  "out" \notin mixed =>
    /\ \A t, u \in Threads : InCall(t) /\ InCall(u) => t = u
    /\ module = "pins" => \A t \in Threads : ~InCall(t)

(* A write finds its own buffer behind the global pointers.                *)
OwnText(t) ==
  /\ valueXY # 0
  /\ pc[t] # "parse" => ~heap[valueXY].cut
  /\ pc[t] # "copy"  => heap[valueXY].pair = arg[t]
  /\ pc[t] = "parse" => valueX = valueXY /\ valueY = valueXY

TextInv == "out" \notin mixed => \A t \in Threads : Writing(t) => OwnText(t)

(* The outputs a move or gpio_init has passed are as it wants them.        *)
Moved(t) ==
  /\ speed[t] = arg[t]
  /\ \A i \in 1 .. 6 : i < next[t] => out[MoveOrder[i]] = Target(speed[t])[MoveOrder[i]]

Lowered ==
  /\ \A o \in Outputs \ Pins : out[o] = last[o]
  /\ \A i \in 1 .. 4 : i < pin => out[InitOrder[i]] = 0

OutInv ==
  "out" \notin mixed =>
    /\ Rest => out = last
    /\ \A t \in Threads : pc[t] = "move" => Moved(t)
    /\ module = "pins" => Lowered

BackInv ==
  "text" \notin mixed =>
    /\ "out" \notin mixed
    /\ (\A t \in Threads : ~Writing(t)) => ReadBack = lastText

PatternInv == AloneInv /\ TextInv /\ OutInv /\ BackInv

LEMMA PatternInit == Init => PatternInv
<1> SUFFICES ASSUME Init PROVE PatternInv
  OBVIOUS
<1>1. /\ module = "out" /\ \A t \in Threads : pc[t] = "idle"
      /\ mixed = {} /\ out = last /\ valueX = 0 /\ lastText = Efault
  BY DEF Init
<1> QED BY <1>1 DEF PatternInv, AloneInv, TextInv, OutInv, BackInv, InCall, Writing, ReadBack

(* Opening and closing leave calls, texts and outputs alone.               *)
LEMMA PatternFrame ==
  ASSUME PatternInv, UNCHANGED <<module, pin, args, next, outputs, text, mixed>>,
         \A u \in Threads : pc'[u] = pc[u] \/ (pc[u] \in Outside /\ pc'[u] \in Outside)
  PROVE  PatternInv'
<1>1. \A u \in Threads : (InCall(u)' <=> InCall(u)) /\ (Writing(u)' <=> Writing(u))
  BY DEF InCall, Writing, Outside
<1>2. \A u \in Threads : pc'[u] = "move" => pc[u] = "move"
  BY DEF Outside
<1>3. \A u \in Threads : Writing(u) => pc'[u] = pc[u]
  BY DEF Outside, Writing
<1>4. AloneInv' BY <1>1 DEF PatternInv, AloneInv
<1>5. TextInv'
  BY <1>1, <1>3 DEF PatternInv, TextInv, OwnText, args, text
<1>6. Rest' <=> Rest
  BY <1>1 DEF Rest, Busy
<1>7. OutInv'
  BY <1>2, <1>6 DEF PatternInv, OutInv, Moved, Lowered, args, outputs
<1>8. BackInv'
  BY <1>1 DEF PatternInv, BackInv, ReadBack, text
<1> QED BY <1>4, <1>5, <1>7, <1>8 DEF PatternInv

(* What a loader step finds and leaves, if nothing is spoilt after it.     *)
LEMMA LoaderPattern == TypeInv /\ CountInv /\ PatternInv /\ Loader => PatternInv'
<1> SUFFICES ASSUME TypeInv, CountInv, PatternInv, Loader PROVE PatternInv'
  OBVIOUS
<1>0. /\ out \in [Outputs -> Levels] /\ last \in [Outputs -> Levels] /\ pin \in 0 .. 5
  BY DEF TypeInv, ArgsOK
<1>1. CASE Insmod
  <2>1. \A t \in Threads : pc[t] \in {"idle", "dead"}
    BY <1>1 DEF Insmod, CountInv, NoneIn
  <2>2. /\ module' = "loading" /\ valueX' = 0 /\ lastText' = Efault
        /\ UNCHANGED <<pin, pc, arg, speed, next, out, last, mixed>>
    BY <1>1 DEF Insmod, args, outputs
  <2>3. \A t \in Threads : /\ ~InCall(t) /\ ~InCall(t)' /\ ~Writing(t)'
                           /\ pc'[t] # "move"
    BY <2>1, <2>2 DEF InCall, Writing
  <2>4. Rest
    BY <1>1, <2>3 DEF Rest, Busy, Insmod
  <2>5. ReadBack' = lastText'
    BY <2>2 DEF ReadBack
  <2> QED BY <2>2, <2>3, <2>4, <2>5 DEF PatternInv, AloneInv, TextInv, OutInv, BackInv
<1>2. CASE LoadFails
  <2>1. \A t \in Threads : pc'[t] \in {"idle", "dead"}
    BY <1>2 DEF LoadFails
  <2>2. module' = "out" /\ UNCHANGED <<pin, arg, speed, next, out, last, text>>
    BY <1>2 DEF LoadFails, args, outputs
  <2>3. \A t \in Threads : ~InCall(t)' /\ ~Writing(t)' /\ pc'[t] # "move"
    BY <2>1 DEF InCall, Writing
  <2>4. CASE Busy
    <3>1. "out" \in mixed' /\ "text" \in mixed'
      BY <1>2, <2>4 DEF LoadFails
    <3> QED BY <3>1 DEF PatternInv, AloneInv, TextInv, OutInv, BackInv
  <2>5. CASE ~Busy
    <3>1. Rest /\ mixed' = mixed /\ \A t \in Threads : ~Writing(t)
      BY <1>2, <2>5 DEF LoadFails, Rest, Busy, InCall, Writing
    <3>2. ReadBack' = ReadBack /\ lastText' = lastText
      BY <2>2 DEF ReadBack, text
    <3> QED
      BY <2>2, <2>3, <3>1, <3>2 DEF PatternInv, AloneInv, TextInv, OutInv, BackInv
  <2> QED BY <2>4, <2>5
<1>3. CASE PinsBegin
  <2>1. module' = "pins" /\ pin' = 1 /\ UNCHANGED <<pc, arg, speed, next, out, last, text>>
    BY <1>3 DEF PinsBegin, args, outputs
  <2>2. CASE Busy
    <3>1. "out" \in mixed' /\ "text" \in mixed'
      BY <1>3, <2>2 DEF PinsBegin
    <3> QED BY <3>1 DEF PatternInv, AloneInv, TextInv, OutInv, BackInv
  <2>3. CASE ~Busy
    <3>1. Rest /\ mixed' = mixed /\ \A t \in Threads : ~InCall(t)
      BY <1>3, <2>3 DEF PinsBegin, Rest, Busy
    <3>2. \A t \in Threads : ~InCall(t)' /\ ~Writing(t) /\ ~Writing(t)' /\ pc'[t] # "move"
      BY <2>1, <3>1 DEF InCall, Writing
    <3>3. ReadBack' = ReadBack /\ lastText' = lastText
      BY <2>1 DEF ReadBack, text
    <3>4. ~Rest'
      BY <2>1 DEF Rest, Busy
    <3>5. "out" \notin mixed => Lowered'
      BY <2>1, <3>1 DEF PatternInv, OutInv, Lowered
    <3> QED BY <2>1, <3>1, <3>2, <3>3, <3>4, <3>5
            DEF PatternInv, AloneInv, TextInv, OutInv, BackInv
  <2> QED BY <2>2, <2>3
<1>4. CASE PinsStep
  <2>1. /\ module = "pins" /\ pin <= 4 /\ out' = [out EXCEPT ![InitOrder[pin]] = 0]
        /\ pin' = pin + 1 /\ UNCHANGED <<module, pc, arg, speed, next, last, text, mixed>>
    BY <1>4, Tables DEF PinsStep, args
  <2>2. pin \in 1 .. 4
    BY <1>0, <2>1 DEF TypeInv, StepInv
  <2>3. AloneInv' /\ TextInv' /\ BackInv'
    BY <2>1 DEF PatternInv, AloneInv, TextInv, OwnText, BackInv, InCall, Writing, ReadBack, text
  <2>4. ASSUME "out" \notin mixed PROVE Lowered'
    <3>1. Lowered
      BY <2>1, <2>4 DEF PatternInv, OutInv
    <3>2. \A o \in Outputs : out'[o] = IF o = InitOrder[pin] THEN 0 ELSE out[o]
      BY <1>0, <2>1
    <3>3. InitOrder[pin] \in Pins
      BY <2>2, Tables
    <3>4. \A o \in Outputs \ Pins : out'[o] = last[o]
      BY <3>1, <3>2, <3>3 DEF Lowered
    <3>5. \A i \in 1 .. 4 : InitOrder[i] \in Outputs
      BY Tables
    <3>6. \A i \in 1 .. 4 : i < pin + 1 => out'[InitOrder[i]] = 0
      BY <2>2, <3>1, <3>2, <3>5 DEF Lowered
    <3> QED BY <2>1, <3>4, <3>6 DEF Lowered
  <2>5. OutInv'
    <3>1. ~Rest'
      BY <2>1 DEF Rest, Busy
    <3>2. "out" \notin mixed => \A t \in Threads : pc'[t] # "move"
      BY <2>1 DEF PatternInv, AloneInv, InCall
    <3> QED BY <2>1, <2>4, <3>1, <3>2 DEF OutInv
  <2> QED BY <2>3, <2>5 DEF PatternInv
<1>5. CASE PinsEnd
  <2>1. /\ module = "pins" /\ pin > 4 /\ module' = "in" /\ pin' = 0
        /\ last' = [o \in Outputs |-> IF o \in Pins THEN 0 ELSE last[o]]
        /\ UNCHANGED <<pc, arg, speed, next, out, text, mixed>>
    BY <1>5, Tables DEF PinsEnd, args
  <2>2. AloneInv' /\ TextInv' /\ BackInv'
    BY <2>1 DEF PatternInv, AloneInv, TextInv, OwnText, BackInv, InCall, Writing, ReadBack, text
  <2>3. ASSUME "out" \notin mixed PROVE out = last'
    <3>1. Lowered
      BY <2>1, <2>3 DEF PatternInv, OutInv
    <3>2. \A o \in Pins : out[o] = 0
      BY <1>0, <2>1, <3>1, Tables DEF Lowered
    <3>3. \A o \in Outputs : out[o] = IF o \in Pins THEN 0 ELSE last[o]
      BY <3>1, <3>2 DEF Lowered
    <3> QED BY <1>0, <2>1, <3>3
  <2>4. "out" \notin mixed => \A t \in Threads : pc'[t] # "move"
    BY <2>1 DEF PatternInv, AloneInv, InCall
  <2>5. OutInv'
    BY <2>1, <2>3, <2>4 DEF OutInv
  <2> QED BY <2>2, <2>5 DEF PatternInv
<1>6. CASE Acquire \/ NodeFails \/ Rmmod
  <2>1. /\ module # "pins" /\ module' # "pins"
        /\ UNCHANGED <<pc, pin, arg, speed, next, out, last, text, mixed>>
    BY <1>6 DEF Acquire, NodeFails, Rmmod, args, outputs
  <2>2. AloneInv' /\ TextInv' /\ BackInv'
    BY <2>1 DEF PatternInv, AloneInv, TextInv, OwnText, BackInv, InCall, Writing, ReadBack, text
  <2>3. Rest' <=> Rest
    BY <2>1 DEF Rest, Busy, InCall
  <2>4. OutInv'
    BY <2>1, <2>3 DEF PatternInv, OutInv, Moved
  <2> QED BY <2>2, <2>4 DEF PatternInv
<1> QED BY <1>1, <1>2, <1>3, <1>4, <1>5, <1>6 DEF Loader

(* If nothing is spoilt after a step of a call, the call is alone.         *)
LEMMA CallAlone ==
  ASSUME TypeInv, PatternInv, NEW t \in Threads, Call(t), "out" \notin mixed'
  PROVE  /\ module # "pins" /\ module' = module
         /\ \A u \in Threads : u # t => ~InCall(u) /\ pc'[u] = pc[u]
         /\ InCall(t) => mixed' = mixed
         /\ ~InCall(t) => pc[t] = "idle" /\ Rest
<1>0. pc \in [Threads -> Labels]
  BY DEF TypeInv, CountOK
<1>1. /\ UNCHANGED load /\ \A u \in Threads : u # t => pc'[u] = pc[u]
      /\ pc[t] \in Calls \ {"dead"}
  BY <1>0, CallJump
<1>2. CASE InCall(t)
  <2>1. mixed' = mixed
    BY <1>2 DEF Call, Ioctl, WriteAlloc, WriteNoMemory, Begin, WriteCopy, WriteSplit,
                WriteParse, MoveStep, MoveEnd, InCall
  <2> QED BY <1>1, <1>2, <2>1 DEF PatternInv, AloneInv, load
<1>3. CASE ~InCall(t)
  <2>1. pc[t] = "idle"
    BY <1>1, <1>3 DEF InCall, Calls
  <2>2. Busy => mixed' = {"out", "text"}
    BY <1>3 DEF Call, Ioctl, WriteAlloc, WriteNoMemory, Begin, WriteCopy, WriteSplit,
                WriteParse, MoveStep, MoveEnd, InCall
  <2>3. ~Busy
    BY <2>2
  <2> QED BY <1>1, <1>3, <2>1, <2>3 DEF load, Rest, Busy
<1> QED BY <1>2, <1>3

LEMMA CallAloneStep ==
  ASSUME TypeInv, PatternInv, NEW t \in Threads, Call(t)
  PROVE  AloneInv'
<1> SUFFICES ASSUME "out" \notin mixed' PROVE AloneInv'
  BY DEF AloneInv
<1>1. module' # "pins" /\ \A u \in Threads : u # t => ~InCall(u)'
  BY CallAlone DEF InCall
<1> QED BY <1>1 DEF AloneInv

(* The writer's own text, step by step.                                    *)
LEMMA CallTextStep ==
  ASSUME TypeInv, PatternInv, NEW t \in Threads, Call(t)
  PROVE  TextInv'
<1> SUFFICES ASSUME "out" \notin mixed', Writing(t)' PROVE OwnText(t)'
  <2>1. ASSUME "out" \notin mixed', NEW u \in Threads, u # t PROVE ~Writing(u)'
    BY <2>1, CallAlone DEF InCall, Writing
  <2> QED BY <2>1 DEF TextInv
<1>0. /\ pc \in [Threads -> Labels] /\ arg \in [Threads -> Values \X Values]
      /\ heap \in Seq(Texts) /\ valueXY \in 0 .. Len(heap)
  BY DEF TypeInv, CountOK, ArgsOK, TextOK
<1> USE Jump, LabelNames
<1>1. CASE Ioctl(t) BY <1>0, <1>1 DEF Ioctl, Writing
<1>2. CASE WriteAlloc(t)
  <2>1. /\ heap' = Append(heap, [pair |-> Zero, cut |-> FALSE])
        /\ valueXY' = Len(heap') /\ pc'[t] = "copy"
    BY <1>0, <1>2 DEF WriteAlloc
  <2>2. [pair |-> Zero, cut |-> FALSE] \in Texts
    BY DEF Texts, Zero, Values
  <2>3. Len(heap') = Len(heap) + 1 /\ heap'[Len(heap) + 1] = [pair |-> Zero, cut |-> FALSE]
    BY <1>0, <2>1, <2>2, AppendProperties
  <2> QED BY <1>0, <2>1, <2>3 DEF OwnText
<1>3. CASE WriteNoMemory(t)
  <2>1. pc'[t] = "idle"
    BY <1>3 DEF WriteNoMemory, Begin
  <2> QED BY <2>1 DEF Writing
<1>4. CASE WriteCopy(t)
  <2>1. pc[t] = "copy" /\ InCall(t)
    BY <1>4 DEF WriteCopy, InCall
  <2>2. OwnText(t)
    BY <2>1, CallAlone DEF PatternInv, TextInv, Writing
  <2>3. /\ heap' = [heap EXCEPT ![valueXY] = [pair |-> arg[t], cut |-> FALSE]]
        /\ pc'[t] = "split" /\ UNCHANGED <<valueXY, arg>> /\ valueXY \in 1 .. Len(heap)
    BY <1>0, <1>4, <2>2 DEF WriteCopy, OwnText, args
  <2>4. heap'[valueXY] = [pair |-> arg[t], cut |-> FALSE]
    BY <1>0, <2>3
  <2> QED BY <2>3, <2>4 DEF OwnText
<1>5. CASE WriteSplit(t)
  <2>1. pc[t] = "split" /\ InCall(t)
    BY <1>5 DEF WriteSplit, InCall
  <2>2. OwnText(t)
    BY <2>1, CallAlone DEF PatternInv, TextInv, Writing
  <2>3. valueXY # 0 /\ valueXY \in 1 .. Len(heap) /\ Comma(valueXY) = valueXY
    BY <1>0, <2>1, <2>2 DEF OwnText, Comma
  <2>4. /\ heap' = [heap EXCEPT ![valueXY] = [heap[valueXY] EXCEPT !.cut = TRUE]]
        /\ valueX' = valueXY /\ valueY' = valueXY
        /\ pc'[t] = "parse" /\ UNCHANGED <<valueXY, arg>>
    BY <1>0, <1>5, <2>3 DEF WriteSplit, args
  <2> DEFINE r == heap[valueXY]
  <2>5. r \in Texts /\ heap'[valueXY] = [r EXCEPT !.cut = TRUE]
    <3>1. \A x : [heap EXCEPT ![valueXY] = x][valueXY] = x
      BY <1>0, <2>3
    <3>2. r \in Texts
      BY <1>0, <2>3
    <3> QED BY <2>4, <3>1, <3>2
  <2>6. [r EXCEPT !.cut = TRUE].pair = r.pair
    <3> HIDE DEF r
    <3> QED BY <2>5 DEF Texts
  <2>7. heap'[valueXY].pair = heap[valueXY].pair
    BY <2>5, <2>6
  <2> QED BY <2>1, <2>2, <2>3, <2>4, <2>7 DEF OwnText
<1>6. CASE WriteParse(t) BY <1>0, <1>6 DEF WriteParse, Writing
<1>7. CASE MoveStep(t) BY <1>0, <1>7 DEF MoveStep, Writing
<1>8. CASE MoveEnd(t) BY <1>0, <1>8 DEF MoveEnd, Writing
<1> QED BY <1>1, <1>2, <1>3, <1>4, <1>5, <1>6, <1>7, <1>8 DEF Call

(* What a write has parsed is what it was given.                           *)
LEMMA Parsed ==
  ASSUME TypeInv, NEW t \in Threads, OwnText(t), pc[t] = "parse"
  PROVE  /\ valueX # 0 /\ valueY # 0
         /\ <<heap[valueX].pair[1], heap[valueY].pair[2]>> = arg[t]
<1>1. arg[t] \in Values \X Values /\ valueXY # 0 /\ valueX = valueXY /\ valueY = valueXY
  BY DEF TypeInv, ArgsOK, OwnText
<1>2. heap[valueXY].pair = arg[t]
  BY DEF OwnText
<1> QED BY <1>1, <1>2

LEMMA CallBackStep ==
  ASSUME TypeInv, PatternInv, NEW t \in Threads, Call(t)
  PROVE  BackInv'
<1> SUFFICES ASSUME "text" \notin mixed'
             PROVE  /\ "out" \notin mixed'
                    /\ (\A u \in Threads : ~Writing(u)') => ReadBack' = lastText'
  BY DEF BackInv
<1>0. pc \in [Threads -> Labels]
  BY DEF TypeInv, CountOK
<1> USE Jump, LabelNames
<1>1. CASE Ioctl(t)
  <2>1. mixed' = mixed \ {"out"} /\ ~Busy /\ UNCHANGED text
    BY <1>1 DEF Ioctl, Begin
  <2>2. \A u \in Threads : ~Writing(u)
    BY <2>1 DEF Busy, InCall, Writing
  <2>3. ReadBack' = ReadBack /\ lastText' = lastText
    BY <2>1 DEF ReadBack, text
  <2> QED BY <2>1, <2>2, <2>3 DEF PatternInv, BackInv
<1>2. CASE WriteAlloc(t)
  <2>1. "out" \notin mixed' /\ pc'[t] = "copy"
    BY <1>0, <1>2 DEF WriteAlloc, Begin
  <2> QED BY <2>1 DEF Writing
<1>3. CASE WriteNoMemory(t)
  <2>1. mixed' = mixed /\ ~Busy /\ UNCHANGED <<pc, heap, valueX, valueY, lastText>>
    BY <1>3 DEF WriteNoMemory, Begin
  <2>2. \A u \in Threads : ~Writing(u)
    BY <2>1 DEF Busy, InCall, Writing
  <2>3. ReadBack' = ReadBack
    BY <2>1 DEF ReadBack
  <2> QED BY <2>1, <2>2, <2>3 DEF PatternInv, BackInv
<1>4. CASE WriteCopy(t)
  <2>1. pc[t] = "copy" /\ mixed' = mixed
    BY <1>4 DEF WriteCopy
  <2>2. "out" \notin mixed
    BY <2>1 DEF PatternInv, BackInv
  <2>3. valueXY # 0
    BY <2>1, <2>2 DEF PatternInv, TextInv, OwnText, Writing
  <2>4. pc'[t] = "split"
    BY <1>0, <1>4, <2>3 DEF WriteCopy
  <2> QED BY <2>1, <2>2, <2>4 DEF Writing
<1>5. CASE WriteSplit(t)
  <2>1. pc[t] = "split" /\ mixed' = mixed
    BY <1>5 DEF WriteSplit
  <2>2. "out" \notin mixed
    BY <2>1 DEF PatternInv, BackInv
  <2>3. valueXY # 0
    BY <2>1, <2>2 DEF PatternInv, TextInv, OwnText, Writing
  <2>4. pc'[t] = "parse"
    BY <1>0, <1>5, <2>3 DEF WriteSplit
  <2> QED BY <2>1, <2>2, <2>4 DEF Writing
<1>6. CASE WriteParse(t)
  <2>1. pc[t] = "parse" /\ mixed' = mixed /\ lastText' = arg[t]
        /\ UNCHANGED <<heap, valueX, valueY>>
    BY <1>6 DEF WriteParse
  <2>2. "out" \notin mixed
    BY <2>1 DEF PatternInv, BackInv
  <2>3. OwnText(t)
    BY <2>1, <2>2 DEF PatternInv, TextInv, Writing
  <2>4. ReadBack' = arg[t]
    BY <2>1, <2>3, Parsed DEF ReadBack
  <2> QED BY <2>1, <2>2, <2>4
<1>7. CASE MoveStep(t) \/ MoveEnd(t)
  <2>1. pc[t] = "move" /\ mixed' = mixed /\ UNCHANGED text
    BY <1>7 DEF MoveStep, MoveEnd
  <2>2. "out" \notin mixed
    BY <2>1 DEF PatternInv, BackInv
  <2>3. \A u \in Threads : ~Writing(u)
    BY <2>1, <2>2 DEF PatternInv, AloneInv, InCall, Writing
  <2>4. ReadBack' = ReadBack /\ lastText' = lastText
    BY <2>1 DEF ReadBack, text
  <2> QED BY <2>1, <2>2, <2>3, <2>4 DEF PatternInv, BackInv
<1> QED BY <1>1, <1>2, <1>3, <1>4, <1>5, <1>6, <1>7 DEF Call

LEMMA CallOutStep ==
  ASSUME TypeInv, PatternInv, NEW t \in Threads, Call(t)
  PROVE  OutInv'
<1> SUFFICES ASSUME "out" \notin mixed'
             PROVE  (Rest' => out' = last') /\ (pc'[t] = "move" => Moved(t)')
  <2>1. ASSUME "out" \notin mixed', NEW u \in Threads, u # t PROVE pc'[u] # "move"
    BY <2>1, CallAlone DEF InCall
  <2>2. "out" \notin mixed' => module' # "pins"
    BY CallAlone
  <2> QED BY <2>1, <2>2 DEF OutInv
<1>0. /\ pc \in [Threads -> Labels] /\ next \in [Threads -> 0 .. 7]
      /\ arg \in [Threads -> Values \X Values] /\ speed \in [Threads -> Values \X Values]
      /\ out \in [Outputs -> Levels] /\ last \in [Outputs -> Levels]
  BY DEF TypeInv, CountOK, ArgsOK
<1>00. /\ InCall(t) => "out" \notin mixed
       /\ ~InCall(t) => Rest
       /\ \A u \in Threads : u # t => ~InCall(u)
  BY CallAlone
<1> USE Jump, LabelNames
<1>1. CASE Ioctl(t)
  <2>1. PICK m \in Pairs :
          /\ arg' = [arg EXCEPT ![t] = m]
          /\ speed' = [speed EXCEPT ![t] = <<Signed(Bytes(m)[1]), Signed(Bytes(m)[2])>>]
    BY <1>1 DEF Ioctl
  <2>2. m \in Values \X Values /\ speed'[t] = m /\ arg'[t] = m
    BY <1>0, <2>1, SignedBytes, PairsAssumption
  <2>3. next'[t] = 1 /\ pc'[t] = "move"
    BY <1>0, <1>1 DEF Ioctl
  <2>4. ~Rest'
    BY <2>3 DEF Rest, Busy, InCall
  <2> QED BY <2>2, <2>3, <2>4 DEF Moved
<1>2. CASE WriteAlloc(t) \/ WriteCopy(t) \/ WriteSplit(t)
  <2>1. pc'[t] # "move" /\ (pc'[t] = "dead" \/ InCall(t)')
    BY <1>0, <1>2 DEF WriteAlloc, WriteCopy, WriteSplit, InCall
  <2>2. CASE InCall(t)' BY <2>1, <2>2 DEF Rest, Busy
  <2>3. CASE ~InCall(t)'
    <3>1. pc'[t] = "dead" /\ ~WriteAlloc(t)
      BY <1>0, <2>1, <2>3 DEF WriteAlloc
    <3>2. valueXY = 0 /\ Writing(t) /\ InCall(t)
      BY <1>0, <1>2, <3>1 DEF WriteAlloc, WriteCopy, WriteSplit, InCall, Writing
    <3>3. OwnText(t)
      BY <1>00, <3>2 DEF PatternInv, TextInv
    <3> QED BY <3>2, <3>3 DEF OwnText
  <2> QED BY <2>2, <2>3
<1>3. CASE WriteNoMemory(t)
  <2>1. pc[t] = "idle" /\ UNCHANGED <<pc, outputs>> /\ (~Busy => mixed' = mixed)
    BY <1>3 DEF WriteNoMemory, Begin
  <2>2. Rest /\ "out" \notin mixed
    BY <1>00, <2>1 DEF InCall, Rest
  <2> QED BY <2>1, <2>2 DEF PatternInv, OutInv, outputs
<1>4. CASE WriteParse(t)
  <2>1. /\ pc[t] = "parse" /\ pc'[t] = "move" /\ next'[t] = 1 /\ arg' = arg
        /\ speed'[t] = <<Atoi(valueX, 1), Atoi(valueY, 2)>>
    BY <1>0, <1>4 DEF WriteParse
  <2>2. OwnText(t)
    BY <1>00, <2>1 DEF PatternInv, TextInv, Writing, InCall
  <2>3. speed'[t] = arg'[t]
    BY <2>1, <2>2, Parsed DEF Atoi
  <2>4. ~Rest'
    BY <2>1 DEF Rest, Busy, InCall
  <2> QED BY <2>1, <2>3, <2>4 DEF Moved
<1>5. CASE MoveStep(t)
  <2>1. /\ pc[t] = "move" /\ pc' = pc /\ UNCHANGED <<arg, speed, last>>
        /\ out' = [out EXCEPT ![MoveOrder[next[t]]] = Target(speed[t])[MoveOrder[next[t]]]]
        /\ next' = [next EXCEPT ![t] = next[t] + 1]
    BY <1>5 DEF MoveStep, args
  <2>2. next[t] \in 1 .. 6
    BY <1>0, <1>5, Tables DEF MoveStep, TypeInv, StepInv
  <2>3. Moved(t)
    BY <1>00, <2>1 DEF PatternInv, OutInv, InCall
  <2>4. \A o \in Outputs : out'[o] = IF o = MoveOrder[next[t]] THEN Target(speed[t])[o] ELSE out[o]
    BY <1>0, <2>1
  <2>5. \A i \in 1 .. 6 : MoveOrder[i] \in Outputs
    BY Tables
  <2>6. \A i \in 1 .. 6 : i < next[t] + 1 => out'[MoveOrder[i]] = Target(speed[t])[MoveOrder[i]]
    BY <2>2, <2>3, <2>4, <2>5 DEF Moved
  <2>7. Moved(t)'
    BY <1>0, <2>1, <2>3, <2>6 DEF Moved
  <2>8. ~Rest'
    BY <2>1 DEF Rest, Busy, InCall
  <2> QED BY <2>7, <2>8
<1>6. CASE MoveEnd(t)
  <2>1. pc[t] = "move" /\ next[t] > 6 /\ pc'[t] = "idle" /\ out' = out /\ last' = Target(arg[t])
    BY <1>0, <1>6, Tables DEF MoveEnd
  <2>2. Moved(t)
    BY <1>00, <2>1 DEF PatternInv, OutInv, InCall
  <2>3. \A i \in 1 .. 6 : out[MoveOrder[i]] = Target(arg[t])[MoveOrder[i]]
    BY <1>0, <2>1, <2>2 DEF Moved
  <2>4. \A o \in Outputs : out[o] = Target(arg[t])[o]
    BY <2>3, Tables
  <2>5. Target(arg[t]) \in [Outputs -> Levels]
    BY <1>0, TargetType
  <2>6. out = Target(arg[t])
    BY <1>0, <2>4, <2>5
  <2> QED BY <2>1, <2>6
<1> QED BY <1>1, <1>2, <1>3, <1>4, <1>5, <1>6 DEF Call

LEMMA PatternStep == TypeInv /\ CountInv /\ PatternInv /\ [Next]_vars => PatternInv'
<1> SUFFICES ASSUME TypeInv, CountInv, PatternInv, [Next]_vars PROVE PatternInv'
  OBVIOUS
<1>1. CASE Loader BY <1>1, LoaderPattern
<1>2. ASSUME NEW p \in Procs, OpenClose(p) PROVE PatternInv'
  <2>1. UNCHANGED <<load, args, next, outputs, text, mixed>>
    BY <1>2 DEF OpenClose, OpenTest, OpenLoad, OpenStore, OpenStale, Release,
                ReleaseLoad, ReleaseStore
  <2>2. pc \in [Threads -> Labels]
    BY DEF TypeInv, CountOK
  <2>3. \A u \in Threads : pc'[u] = pc[u] \/ (pc[u] \in Outside /\ pc'[u] \in Outside)
    BY <1>2, <2>2, OpenCloseJump
  <2> QED BY <2>1, <2>3, PatternFrame DEF load
<1>3. ASSUME NEW t \in Threads, Call(t) PROVE PatternInv'
  BY <1>3, CallAloneStep, CallTextStep, CallOutStep, CallBackStep DEF PatternInv
<1>4. CASE UNCHANGED vars
  <2>1. UNCHANGED <<module, pin, args, next, outputs, text, mixed, pc>>
    BY <1>4 DEF vars, load
  <2> QED BY <2>1, PatternFrame
<1> QED BY <1>1, <1>2, <1>3, <1>4 DEF Next

LEMMA PatternAlways == Spec => [](TypeInv /\ CountInv /\ PatternInv)
<1>1. Init => TypeInv /\ CountInv /\ PatternInv
  BY TypeInit, CountInit, PatternInit
<1>2. TypeInv /\ CountInv /\ PatternInv /\ [Next]_vars => (TypeInv /\ CountInv /\ PatternInv)'
  BY TypeStep, CountInvStep, PatternStep
<1> QED BY <1>1, <1>2, PTL DEF Spec

(* Between calls the duties and pins are those of the last move, or of     *)
(* gpio_init, unless calls have overlapped since (pwm_ioctl, pwm_write,    *)
(* move and gpio_init).                                                    *)
THEOREM PatternWholeAlways == Spec => []PatternWhole
<1>1. PatternInv => PatternWhole
  BY DEF PatternInv, OutInv, PatternWhole
<1> QED BY <1>1, PatternAlways, PTL

(* pwm_read gives back the pair of the last write, whatever ioctls, loads  *)
(* and failed allocations came between, unless calls have overlapped.      *)
THEOREM ReadsLastWriteAlways == Spec => []ReadsLastWrite
<1>1. PatternInv => ReadsLastWrite
  BY DEF PatternInv, BackInv, ReadsLastWrite, Rest, Busy, InCall, Writing
<1> QED BY <1>1, PatternAlways, PTL
=============================================================================
