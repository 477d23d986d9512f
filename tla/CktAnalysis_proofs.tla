------------------------- MODULE CktAnalysis_proofs -------------------------
(***************************************************************************)
(* Proofs about CktAnalysis, for any stop times, any number of packets and *)
(* kills, and whatever the sign of char.                                   *)
(***************************************************************************)
EXTENDS CktAnalysis, SequenceTheorems, TLAPS

USE TimesAssumption, MaxPacketsAssumption, MaxPipeAssumption, MaxKillsAssumption

Ends(s) == s[Len(s)]

Times10ms == [sec : 0 .. 2, usec : 0 .. 99]

(* What pwm_ioctr is to do is never nothing, and ends in the speed asked.  *)
LEMMA WritesEnd ==
  ASSUME NEW need \in BOOLEAN, NEW speed \in Speeds
  PROVE  /\ Writes(need, speed) \in Seq(Speeds)
         /\ Writes(need, speed) # <<>>
         /\ Ends(Writes(need, speed)) = speed
<1>1. CASE need
  BY <1>1 DEF Writes, Ends, Speeds
<1>2. CASE ~need
  BY <1>2 DEF Writes, Ends, Speeds
<1> QED BY <1>1, <1>2

(* Of two pieces of work one after the other, the second one's last is last. *)
LEMMA ConcatEnds ==
  ASSUME NEW r \in Seq(Speeds), NEW s \in Seq(Speeds), s # <<>>
  PROVE  /\ r \o s \in Seq(Speeds)
         /\ r \o s # <<>>
         /\ Ends(r \o s) = Ends(s)
<1>1. r \o s \in Seq(Speeds) /\ Len(r \o s) = Len(r) + Len(s)
  BY ConcatProperties
<1>2. Len(s) > 0
  OBVIOUS
<1>3. (r \o s)[Len(r) + Len(s)] = s[Len(s)]
  BY <1>2, ConcatProperties
<1> QED BY <1>1, <1>2, <1>3 DEF Ends

(* do_around_move ends with the motors told to stop.                       *)
LEMMA AroundEnd ==
  /\ Around \in Seq(Speeds)
  /\ Around # <<>>
  /\ Ends(Around) = "stop"
<1> DEFINE turn == Writes(TRUE, "turn")
           stop == Writes(TRUE, "stop")
<1>1. /\ turn \in Seq(Speeds) /\ turn # <<>>
      /\ stop \in Seq(Speeds) /\ stop # <<>> /\ Ends(stop) = "stop"
  BY WritesEnd DEF Speeds
<1> HIDE DEF turn, stop
<1>2. turn \o stop \in Seq(Speeds)
  BY <1>1, ConcatEnds
<1>3. (turn \o stop) \o turn \in Seq(Speeds)
  BY <1>1, <1>2, ConcatEnds
<1>4. Ends(((turn \o stop) \o turn) \o stop) = "stop"
  BY <1>1, <1>3, ConcatEnds
<1>5. /\ ((turn \o stop) \o turn) \o stop \in Seq(Speeds)
      /\ ((turn \o stop) \o turn) \o stop # <<>>
  BY <1>1, <1>3, ConcatEnds
<1> QED BY <1>4, <1>5 DEF Around, turn, stop

(* Doing the first of the ioctls leaves the last one last.                 *)
LEMMA TailEnds ==
  ASSUME NEW s \in Seq(Speeds), s # <<>>
  PROVE  /\ Head(s) \in Speeds
         /\ Tail(s) \in Seq(Speeds)
         /\ Tail(s) = <<>> => Head(s) = Ends(s)
         /\ Tail(s) # <<>> => Ends(Tail(s)) = Ends(s)
<1> DEFINE t == Tail(s)
<1>1. Len(s) \in Nat \ {0} /\ Head(s) = s[1]
  OBVIOUS
<1>2. /\ t \in Seq(Speeds)
      /\ Len(t) = Len(s) - 1
      /\ \A i \in 1 .. Len(t) : t[i] = s[i + 1]
  BY HeadTailProperties
<1> HIDE DEF t
<1>3. t = <<>> <=> Len(t) = 0
  BY <1>2, EmptySeq
<1>4. t = <<>> => s[1] = Ends(s)
  <2>1. Len(t) = 0 => Len(s) = 1
    BY <1>1, <1>2
  <2>2. Len(s) = 1 => s[1] = Ends(s)
    BY DEF Ends
  <2> QED BY <1>3, <2>1, <2>2
<1>5. t # <<>> => Ends(t) = Ends(s)
  BY <1>1, <1>2, <1>3 DEF Ends
<1> QED BY <1>1, <1>2, <1>4, <1>5 DEF t

(* A move arms the timer, unless its time is none or negative as a char.   *)
LEMMA ArmTimer ==
  ASSUME NEW t \in 0 .. 255, charSigned \in BOOLEAN,
         timer \in Times10ms, Setitimer(Units(AsChar(t)))
  PROVE  /\ timer' \in Times10ms
         /\ AsChar(t) > 0 => timer' # Off
<1> DEFINE b == AsChar(t)
<1>1. b \in -128 .. 255
  BY DEF AsChar
<1> HIDE DEF b
<1>2. CASE b >= 100
  <2>1. b \div 100 \in 1 .. 2
    BY <1>1, <1>2
  <2> QED BY <1>1, <1>2, <2>1 DEF Setitimer, Units, Times10ms, Off, b
<1>3. CASE b < 100
  BY <1>1, <1>3 DEF Setitimer, Units, Times10ms, Off, b
<1> QED BY <1>1, <1>2, <1>3
-----------------------------------------------------------------------------
(* TypeOK is inductive.                                                    *)
LEMMA Types ==
  /\ \A p \in Packets : p.time \in 0 .. 255
  /\ NoPacket \in Packets /\ Off \in Times10ms
<1>1. \A p \in Moves : p.time \in 0 .. 255
  BY DEF Moves
<1>2. \A p \in Others : p.time \in 0 .. 255
  BY DEF Others
<1>3. NoPacket \in Packets
  BY DEF NoPacket, Packets, Others
<1>4. Off \in Times10ms
  BY DEF Off, Times10ms
<1> QED BY <1>1, <1>2, <1>3, <1>4 DEF Packets

(* Whatever reads the FIFO leaves fewer packets, and takes one.            *)
LEMMA TakeType ==
  ASSUME TypeOK, pipe # <<>>,
         \E n \in 1 .. Len(pipe) : pipe' = SubSeq(pipe, n + 1, Len(pipe))
  PROVE  /\ pipe' \in Seq(Packets) /\ Len(pipe') <= MaxPipe
         /\ pipe[1] \in Packets
<1>1. pipe \in Seq(Packets) /\ Len(pipe) \in Nat /\ Len(pipe) <= MaxPipe
  BY DEF TypeOK
<1>2. PICK n \in 1 .. Len(pipe) : pipe' = SubSeq(pipe, n + 1, Len(pipe))
  OBVIOUS
<1>3. \A i \in n + 1 .. Len(pipe) : pipe[i] \in Packets
  BY <1>1
<1>4. pipe' \in Seq(Packets)
  BY <1>1, <1>2, <1>3, SubSeqProperties
<1>5. Len(pipe') <= Len(pipe)
  BY <1>1, <1>2, SubSeqProperties
<1> QED BY <1>1, <1>4, <1>5

(* The end of the process keeps the types.                                 *)
LEMMA GoneType ==
  ASSUME TypeOK, Gone, UNCHANGED <<motor, charSigned, sent>>,
         kills' \in 0 .. MaxKills,
         pipe' \in Seq(Packets), Len(pipe') <= MaxPipe
  PROVE  TypeOK'
<1>1. pipe' \in Seq(Packets) /\ Len(pipe') <= MaxPipe /\ motor' \in Speeds
  BY DEF TypeOK
<1>2. packet' \in Packets /\ timer' \in Times10ms
  BY Types DEF Gone
<1>3. /\ pc' = "off" /\ writes' \in Seq(Speeds) /\ writes' = <<>>
  BY DEF Gone
<1>4. /\ alarm' \in [Threads -> {"idle", "need", "write", "stopped"}]
      /\ alarmWrites' \in [Threads -> Seq(Speeds)]
      /\ \A t \in Threads : alarmWrites'[t] = <<>> /\ alarm'[t] = "idle"
  BY DEF Gone, NoAlarm
<1>5. /\ firstStart' \in BOOLEAN /\ compensation' \in BOOLEAN
      /\ opposite' \in BOOLEAN /\ race' = "none"
  BY DEF Gone
<1>6. charSigned' \in BOOLEAN /\ sent' \in 0 .. MaxPackets
  BY DEF TypeOK
<1> QED BY <1>1, <1>2, <1>3, <1>4, <1>5, <1>6 DEF TypeOK, Times10ms
LEMMA TypeStep ==
  ASSUME TypeOK, [Next]_vars
  PROVE  TypeOK'
<1> USE DEF process, handler, flags, bounds
<1>1. CASE Start
  BY <1>1, AroundEnd DEF Start, TypeOK
<1>2. CASE AroundWrite
  <2>1. writes \in Seq(Speeds) /\ writes # <<>>
    BY <1>2 DEF AroundWrite, TypeOK
  <2>2. Head(writes) \in Speeds /\ Tail(writes) \in Seq(Speeds)
    BY <2>1, TailEnds
  <2> QED BY <1>2, <2>2 DEF AroundWrite, TypeOK
<1>3. CASE TakeMove
  BY <1>3, TakeType DEF TakeMove, Take, At, TypeOK
<1>4. CASE TakeUnknown
  BY <1>4, TakeType DEF TakeUnknown, Take, At, TypeOK
<1>5. CASE TakeCut
  <2>1. pipe' \in Seq(Packets) /\ Len(pipe') <= MaxPipe
    BY <1>5, TakeType DEF TakeCut
  <2>2. kills' \in 0 .. MaxKills
    BY <1>5 DEF TakeCut, TypeOK
  <2> QED BY <1>5, <2>1, <2>2, GoneType DEF TakeCut
<1>6. CASE Arm
  <2>1. packet.time \in 0 .. 255
    BY Types DEF TypeOK
  <2>2. timer' \in Times10ms
    BY <1>6, <2>1, ArmTimer DEF Arm, TypeOK, Times10ms
  <2> QED BY <1>6, <2>2 DEF Arm, At, TypeOK, Times10ms
<1>7. CASE Check
  <2>1. opposite' \in BOOLEAN /\ compensation' \in BOOLEAN
    BY <1>7 DEF Check, TypeOK
  <2> QED BY <1>7, <2>1 DEF Check, At, TypeOK
<1>8. CASE Need
  <2>1. NeedsKick \in BOOLEAN /\ Speed \in Speeds
    BY DEF TypeOK, NeedsKick, Speed, Speeds
  <2>2. writes' \in Seq(Speeds) /\ writes' # <<>>
    BY <1>8, <2>1, WritesEnd DEF Need
  <2> QED BY <1>8, <2>2 DEF Need, At, TypeOK
<1>9. CASE Write
  <2>1. writes \in Seq(Speeds) /\ writes # <<>>
    BY <1>9 DEF Write, At, TypeOK
  <2>2. Head(writes) \in Speeds /\ Tail(writes) \in Seq(Speeds)
    BY <2>1, TailEnds
  <2> QED BY <1>9, <2>2 DEF Write, At, TypeOK
<1>10. CASE Started
  BY <1>10 DEF Started, At, TypeOK
<1>11. CASE Leave
  <2>1. pipe' \in Seq(Packets) /\ Len(pipe') <= MaxPipe /\ kills' \in 0 .. MaxKills
    BY <1>11 DEF Leave, TypeOK
  <2> QED BY <1>11, <2>1, GoneType DEF Leave
<1>12. ASSUME NEW t \in Threads, Alarm(t)
       PROVE  TypeOK'
  <2>1. timer' \in Times10ms /\ race' \in {"none", "alarm", "handler"}
    BY <1>12, Types DEF Alarm, TypeOK
  <2>2. alarm' \in [Threads -> {"idle", "need", "write", "stopped"}]
    BY <1>12 DEF Alarm, TypeOK
  <2>3. \A u \in Threads : alarm'[u] # "write" <=> alarm[u] # "write"
    BY <1>12 DEF Alarm, Taker, TypeOK
  <2> QED BY <1>12, <2>1, <2>2, <2>3 DEF Alarm, TypeOK, Times10ms
<1>13. ASSUME NEW t \in Threads, AlarmNeed(t)
       PROVE  TypeOK'
  <2> DEFINE w == Writes(NeedsKick, StopSpeed)
  <2>1. NeedsKick \in BOOLEAN /\ StopSpeed \in Speeds
    BY DEF TypeOK, NeedsKick, StopSpeed, Speeds
  <2>2. w \in Seq(Speeds) /\ w # <<>>
    BY <2>1, WritesEnd
  <2> HIDE DEF w
  <2>3. /\ alarm' = [alarm EXCEPT ![t] = "write"]
        /\ alarmWrites' = [alarmWrites EXCEPT ![t] = w]
    BY <1>13 DEF AlarmNeed, w
  <2>4. /\ alarm' \in [Threads -> {"idle", "need", "write", "stopped"}]
        /\ alarmWrites' \in [Threads -> Seq(Speeds)]
        /\ \A u \in Threads : alarmWrites'[u] = <<>> <=> alarm'[u] # "write"
    BY <2>2, <2>3 DEF TypeOK
  <2> QED BY <1>13, <2>4 DEF AlarmNeed, TypeOK
<1>14. ASSUME NEW t \in Threads, AlarmWrite(t)
       PROVE  TypeOK'
  <2>1. alarmWrites[t] \in Seq(Speeds) /\ alarmWrites[t] # <<>>
    BY <1>14 DEF AlarmWrite, TypeOK
  <2>2. Head(alarmWrites[t]) \in Speeds /\ Tail(alarmWrites[t]) \in Seq(Speeds)
    BY <2>1, TailEnds
  <2>3. /\ alarm' \in [Threads -> {"idle", "need", "write", "stopped"}]
        /\ alarmWrites' \in [Threads -> Seq(Speeds)]
        /\ \A u \in Threads : alarmWrites'[u] = <<>> <=> alarm'[u] # "write"
    BY <1>14, <2>2 DEF AlarmWrite, TypeOK
  <2> QED BY <1>14, <2>2, <2>3 DEF AlarmWrite, TypeOK
<1>15. ASSUME NEW t \in Threads, AlarmStopped(t)
       PROVE  TypeOK'
  <2>1. /\ alarm' \in [Threads -> {"idle", "need", "write", "stopped"}]
        /\ \A u \in Threads : alarm'[u] # "write" <=> alarm[u] # "write"
    BY <1>15 DEF AlarmStopped, TypeOK
  <2> QED BY <1>15, <2>1 DEF AlarmStopped, AfterStop, TypeOK
<1>16. CASE Packet
  <2>1. PICK p \in Packets : pipe' = Append(pipe, p)
    BY <1>16 DEF Packet
  <2>2. pipe' \in Seq(Packets) /\ Len(pipe') = Len(pipe) + 1
    BY <2>1 DEF TypeOK
  <2>3. sent' \in 0 .. MaxPackets
    BY <1>16 DEF Packet, TypeOK
  <2>4. Len(pipe') <= MaxPipe
    BY <1>16, <2>2 DEF Packet, TypeOK
  <2> QED BY <1>16, <2>2, <2>3, <2>4 DEF Packet, TypeOK
<1>17. CASE Kill
  <2>1. pipe' \in Seq(Packets) /\ Len(pipe') <= MaxPipe /\ kills' \in 0 .. MaxKills
    BY <1>17 DEF Kill, TypeOK
  <2> QED BY <1>17, <2>1, GoneType DEF Kill
<1>18. CASE UNCHANGED vars
  BY <1>18 DEF vars, TypeOK
<1> QED BY <1>1, <1>2, <1>3, <1>4, <1>5, <1>6, <1>7, <1>8, <1>9, <1>10, <1>11, <1>12,
           <1>13, <1>14, <1>15, <1>16, <1>17, <1>18 DEF Next, Control, Handler

LEMMA TypeInit == Init => TypeOK
<1> SUFFICES ASSUME Init PROVE TypeOK
  OBVIOUS
<1>1. alarmWrites \in [Threads -> Seq(Speeds)] /\ \A t \in Threads : alarmWrites[t] = <<>>
  BY DEF Init
<1>2. alarm \in [Threads -> {"idle", "need", "write", "stopped"}]
      /\ \A t \in Threads : alarm[t] # "write"
  BY DEF Init, NoAlarm
<1>3. pipe \in Seq(Packets) /\ Len(pipe) <= MaxPipe
  BY EmptySeq DEF Init
<1>4. motor \in Speeds /\ packet \in Packets
  BY Types DEF Init, Speeds
<1>5. timer \in Times10ms /\ sent \in 0 .. MaxPackets /\ kills \in 0 .. MaxKills
  BY Types DEF Init
<1>6. pc = "off" /\ writes \in Seq(Speeds) /\ writes = <<>>
  BY EmptySeq DEF Init
<1>7. /\ firstStart \in BOOLEAN /\ compensation \in BOOLEAN /\ opposite \in BOOLEAN
      /\ charSigned \in BOOLEAN /\ race = "none"
  BY DEF Init
<1> QED BY <1>1, <1>2, <1>3, <1>4, <1>5, <1>6, <1>7 DEF TypeOK, Times10ms

(* Every step of the threads, the handlers and the outside keeps every     *)
(* variable in its range: set_time and setitimer leave a proper time in    *)
(* the timer, and pwm_ioctr never runs out of ioctls too early.            *)
THEOREM TypeCorrect == Spec => []TypeOK
<1>1. Init => TypeOK
  BY TypeInit
<1>2. TypeOK /\ [Next]_vars => TypeOK'
  BY TypeStep
<1> QED BY <1>1, <1>2, PTL DEF Spec
-----------------------------------------------------------------------------
(* The inductive invariant of the motors.  Without a process, and while it *)
(* turns, no alarm is to come; only moves reach set_time; whoever is at    *)
(* its ioctls ends in the speed it was called for.                         *)
Idle ==
  /\ pc \in {"off", "around"} => timer = Off /\ Quiet /\ firstStart /\ race = "none"
  /\ pc = "arm" => packet.kind = "move"

EndsRight ==
  /\ pc = "around" => Ends(writes) = "stop"
  /\ pc = "write" => Ends(writes) = Speed
  /\ \A t \in Threads : alarm[t] = "write" => Ends(alarmWrites[t]) = "stop"

(* Unless the alarm came while the move was starting, the timer outlasts   *)
(* the start, and after it a handler still has to stop what runs.          *)
Stopping(t) == alarm[t] \in {"need", "write"}

Awaited ==
  race # "alarm" /\ ~NoTime =>
    /\ pc \in {"check", "need", "write"} => timer # Off
    /\ pc \in {"started", "read"} /\ timer = Off
         => motor = "stop" \/ \E t \in Threads : Stopping(t)

(* With no alarm and no handler beside a start, the start has the flag and *)
(* the pins to itself, and so has the one handler that runs after it.      *)
Alone ==
  race = "none" =>
    /\ pc \in {"check", "need", "write", "started"} => Quiet
    /\ pc = "started" => motor = Speed
    /\ pc = "read" => /\ ~Quiet => timer = Off
                      /\ \A t, u \in Threads :
                           alarm[t] # "idle" /\ alarm[u] # "idle" => t = u
                      /\ \A t \in Threads : alarm[t] = "stopped" => motor = "stop"

IInv == TypeOK /\ Idle /\ EndsRight /\ Awaited /\ Alone /\ FirstStartAgrees
LEMMA IdleStep ==
  ASSUME IInv, [Next]_vars
  PROVE  Idle'
<1> USE DEF process, handler, flags, bounds, Idle, Quiet
<1> DEFINE Ends0 == TakeCut \/ Leave \/ Kill
<1>1. CASE Start \/ AroundWrite
  BY <1>1 DEF Start, AroundWrite, IInv
<1>2. CASE TakeMove \/ TakeUnknown
  BY <1>2 DEF TakeMove, TakeUnknown, Take, IInv
<1>3. CASE Ends0
  BY <1>3 DEF Ends0, TakeCut, Leave, Kill, Gone
<1>4. CASE Arm \/ Check \/ Need \/ Write \/ Started
  BY <1>4 DEF Arm, Check, Need, Write, Started, At
<1>5. ASSUME NEW t \in Threads, Handler(t)
      PROVE  Idle'
  <2>1. pc \notin {"off", "around"}
    BY <1>5 DEF Handler, Alarm, AlarmNeed, AlarmWrite, AlarmStopped, IInv, NoAlarm
  <2> QED BY <1>5, <2>1
          DEF Handler, Alarm, AlarmNeed, AlarmWrite, AlarmStopped, IInv
<1>6. CASE Packet \/ UNCHANGED vars
  BY <1>6 DEF Packet, vars, IInv
<1> QED BY <1>1, <1>2, <1>3, <1>4, <1>5, <1>6 DEF Next, Control

LEMMA EndsStep ==
  ASSUME IInv, [Next]_vars
  PROVE  EndsRight'
<1> USE DEF process, handler, flags, bounds, EndsRight
<1>0. TypeOK /\ TypeOK'
  BY TypeStep DEF IInv
<1>1. CASE Start
  BY <1>1, AroundEnd DEF Start, IInv
<1>2. CASE AroundWrite
  <2>1. writes \in Seq(Speeds) /\ writes # <<>>
    BY <1>2, <1>0 DEF AroundWrite, TypeOK
  <2>2. Tail(writes) # <<>> => Ends(Tail(writes)) = Ends(writes)
    BY <2>1, TailEnds
  <2> QED BY <1>2, <2>2 DEF AroundWrite, IInv, Ends
<1>3. CASE TakeMove \/ TakeUnknown
  BY <1>3 DEF TakeMove, TakeUnknown, Take, IInv
<1>4. CASE TakeCut \/ Leave \/ Kill
  BY <1>4 DEF TakeCut, Leave, Kill, Gone, NoAlarm
<1>5. CASE Arm \/ Check \/ Started
  BY <1>5 DEF Arm, Check, Started, At, IInv
<1>6. CASE Need
  <2>1. NeedsKick \in BOOLEAN /\ Speed \in Speeds
    BY <1>0 DEF TypeOK, NeedsKick, Speed, Speeds
  <2>2. Ends(writes') = Speed /\ Speed' = Speed
    BY <1>6, <2>1, WritesEnd DEF Need, Ends, Speed
  <2> QED BY <1>6, <2>2 DEF Need, IInv, Ends
<1>7. CASE Write
  <2>1. writes \in Seq(Speeds) /\ writes # <<>>
    BY <1>7, <1>0 DEF Write, At, TypeOK
  <2>2. Tail(writes) # <<>> => Ends(Tail(writes)) = Ends(writes)
    BY <2>1, TailEnds
  <2> QED BY <1>7, <2>2 DEF Write, At, IInv, Ends, Speed
<1>8. ASSUME NEW t \in Threads, Handler(t)
      PROVE  EndsRight'
  <2>1. UNCHANGED <<pc, writes, packet>>
    BY <1>8 DEF Handler, Alarm, AlarmNeed, AlarmWrite, AlarmStopped
  <2>2. alarm \in [Threads -> {"idle", "need", "write", "stopped"}]
        /\ alarmWrites \in [Threads -> Seq(Speeds)]
    BY <1>0 DEF TypeOK
  <2>3. ASSUME NEW u \in Threads, alarm'[u] = "write"
        PROVE  Ends(alarmWrites'[u]) = "stop"
    <3>1. CASE Alarm(t) \/ AlarmStopped(t)
      BY <3>1, <2>2, <2>3 DEF Alarm, AlarmStopped, IInv
    <3>2. CASE AlarmNeed(t)
      <4>1. NeedsKick \in BOOLEAN /\ StopSpeed \in Speeds
        BY <1>0 DEF TypeOK, NeedsKick, StopSpeed, Speeds
      <4>2. Ends(Writes(NeedsKick, StopSpeed)) = "stop"
        BY <4>1, WritesEnd DEF StopSpeed
      <4> DEFINE w == Writes(NeedsKick, StopSpeed)
      <4> HIDE DEF w
      <4>3. /\ alarm' = [alarm EXCEPT ![t] = "write"]
            /\ alarmWrites' = [alarmWrites EXCEPT ![t] = w]
        BY <3>2 DEF AlarmNeed, w
      <4>4. CASE u = t
        BY <4>2, <4>3, <4>4, <2>2 DEF w
      <4>5. CASE u # t
        BY <4>3, <4>5, <2>2, <2>3 DEF IInv
      <4> QED BY <4>4, <4>5
    <3>3. CASE AlarmWrite(t)
      <4>1. alarmWrites[t] \in Seq(Speeds) /\ alarmWrites[t] # <<>>
            /\ Ends(alarmWrites[t]) = "stop"
        BY <3>3, <1>0 DEF AlarmWrite, TypeOK, IInv
      <4>2. Tail(alarmWrites[t]) # <<>> => Ends(Tail(alarmWrites[t])) = "stop"
        BY <4>1, TailEnds
      <4>3. CASE u = t
        BY <3>3, <4>2, <4>3, <2>2, <2>3 DEF AlarmWrite
      <4>4. CASE u # t
        BY <3>3, <4>4, <2>2, <2>3 DEF AlarmWrite, IInv
      <4> QED BY <4>3, <4>4
    <3> QED BY <1>8, <3>1, <3>2, <3>3 DEF Handler
  <2> QED BY <2>1, <2>3 DEF IInv, Ends, Speed
<1>9. CASE Packet \/ UNCHANGED vars
  BY <1>9 DEF Packet, vars, IInv, Speed, Ends
<1> QED BY <1>1, <1>2, <1>3, <1>4, <1>5, <1>6, <1>7, <1>8, <1>9 DEF Next, Control
LEMMA AwaitedStep ==
  ASSUME IInv, [Next]_vars
  PROVE  Awaited'
<1> USE DEF process, handler, flags, bounds
<1>0. /\ TypeOK /\ TypeOK' /\ Awaited /\ Idle /\ EndsRight
      /\ alarm \in [Threads -> {"idle", "need", "write", "stopped"}]
  BY TypeStep DEF IInv, TypeOK
<1>1. CASE Start \/ TakeMove \/ TakeUnknown
  BY <1>1 DEF Start, TakeMove, TakeUnknown, Awaited
<1>2. CASE AroundWrite
  <2>1. writes \in Seq(Speeds) /\ writes # <<>> /\ Ends(writes) = "stop"
    BY <1>2, <1>0 DEF AroundWrite, TypeOK, EndsRight
  <2>2. Tail(writes) = <<>> => Head(writes) = "stop"
    BY <2>1, TailEnds
  <2> QED BY <1>2, <2>2 DEF AroundWrite, Awaited
<1>3. CASE TakeCut \/ Leave \/ Kill
  BY <1>3 DEF TakeCut, Leave, Kill, Gone, Awaited
<1>4. CASE Arm
  <2>1. packet.time \in 0 .. 255
    BY <1>0, Types DEF TypeOK
  <2>2. AsChar(packet.time) > 0 => timer' # Off
    BY <1>0, <1>4, <2>1, ArmTimer DEF Arm, TypeOK, Times10ms
  <2>3. packet.kind = "move" /\ AsChar(packet.time) \in Int
    BY <1>0, <1>4, <2>1 DEF Idle, Arm, At, AsChar
  <2>4. ~NoTime => timer' # Off
    BY <2>2, <2>3 DEF NoTime
  <2> QED BY <1>4, <2>4 DEF Arm, Awaited, NoTime, AsChar
<1>5. CASE Check \/ Need \/ Write \/ Started
  BY <1>0, <1>5 DEF Check, Need, Write, Started, At, Awaited, NoTime, AsChar, Stopping
<1>6. ASSUME NEW t \in Threads, Handler(t)
      PROVE  Awaited'
  <2>1. UNCHANGED <<pc, packet, charSigned>> /\ (NoTime' <=> NoTime)
    BY <1>6 DEF Handler, Alarm, AlarmNeed, AlarmWrite, AlarmStopped, NoTime, AsChar
  <2>2. CASE Alarm(t)
    <3>1. Starting => race' = "alarm"
      BY <2>2 DEF Alarm
    <3>2. Stopping(t)'
      BY <1>0, <2>2 DEF Alarm, Stopping
    <3> QED BY <2>1, <3>1, <3>2 DEF Awaited, Starting
  <2>3. CASE AlarmNeed(t)
    <3>1. UNCHANGED <<motor, timer, race>> /\ Stopping(t)'
      BY <1>0, <2>3 DEF AlarmNeed, Stopping
    <3> QED BY <1>0, <2>1, <3>1 DEF Awaited
  <2>4. CASE AlarmWrite(t)
    <3>1. alarmWrites[t] \in Seq(Speeds) /\ alarmWrites[t] # <<>>
          /\ Ends(alarmWrites[t]) = "stop"
      BY <1>0, <2>4 DEF AlarmWrite, TypeOK, EndsRight
    <3>2. Tail(alarmWrites[t]) = <<>> => motor' = "stop"
      BY <2>4, <3>1, TailEnds DEF AlarmWrite
    <3>3. Tail(alarmWrites[t]) # <<>> => Stopping(t)'
      BY <1>0, <2>4 DEF AlarmWrite, Stopping
    <3>4. UNCHANGED <<timer, race>>
      BY <2>4 DEF AlarmWrite
    <3> QED BY <1>0, <2>1, <3>2, <3>3, <3>4 DEF Awaited
  <2>5. CASE AlarmStopped(t)
    <3>1. UNCHANGED <<motor, timer, race>>
      BY <2>5 DEF AlarmStopped
    <3>2. \A u \in Threads : Stopping(u) => Stopping(u)'
      BY <1>0, <2>5 DEF AlarmStopped, Stopping
    <3> QED BY <1>0, <2>1, <3>1, <3>2 DEF Awaited
  <2> QED BY <1>6, <2>2, <2>3, <2>4, <2>5 DEF Handler
<1>7. CASE Packet \/ UNCHANGED vars
  BY <1>0, <1>7 DEF Packet, vars, Awaited, NoTime, AsChar, Stopping
<1> QED BY <1>1, <1>2, <1>3, <1>4, <1>5, <1>6, <1>7 DEF Next, Control

LEMMA AloneStep ==
  ASSUME IInv, [Next]_vars
  PROVE  Alone' /\ FirstStartAgrees'
<1> USE DEF process, handler, flags, bounds
<1>0. /\ TypeOK /\ TypeOK' /\ Idle /\ EndsRight /\ Alone /\ FirstStartAgrees
      /\ alarm \in [Threads -> {"idle", "need", "write", "stopped"}]
  BY TypeStep DEF IInv, TypeOK
<1>1. CASE Start \/ TakeMove \/ TakeUnknown
  BY <1>1 DEF Start, TakeMove, TakeUnknown, Alone, FirstStartAgrees
<1>2. CASE AroundWrite
  <2>1. writes \in Seq(Speeds) /\ writes # <<>> /\ Ends(writes) = "stop"
    BY <1>2, <1>0 DEF AroundWrite, TypeOK, EndsRight
  <2>2. Tail(writes) = <<>> => motor' = "stop"
    BY <1>2, <2>1, TailEnds DEF AroundWrite
  <2>3. alarm' = NoAlarm /\ firstStart'
    BY <1>0, <1>2 DEF AroundWrite, Idle, Quiet
  <2> QED BY <1>2, <2>2, <2>3 DEF AroundWrite, Alone, FirstStartAgrees, Quiet, NoAlarm
<1>3. CASE TakeCut \/ Leave \/ Kill
  BY <1>3 DEF TakeCut, Leave, Kill, Gone, Alone, FirstStartAgrees
<1>4. CASE Arm
  BY <1>4 DEF Arm, Alone, FirstStartAgrees, Quiet
<1>5. CASE Check \/ Need
  BY <1>0, <1>5 DEF Check, Need, At, Alone, FirstStartAgrees, Quiet
<1>6. CASE Write
  <2>1. writes \in Seq(Speeds) /\ writes # <<>> /\ Ends(writes) = Speed
    BY <1>0, <1>6 DEF Write, At, TypeOK, EndsRight
  <2>2. Tail(writes) = <<>> => motor' = Speed
    BY <1>6, <2>1, TailEnds DEF Write
  <2> QED BY <1>0, <1>6, <2>2 DEF Write, At, Alone, FirstStartAgrees, Quiet, Speed
<1>7. CASE Started
  <2>1. race = "none" => Quiet /\ motor = Speed
    BY <1>0, <1>7 DEF Started, At, Alone
  <2> QED BY <1>7, <2>1 DEF Started, Alone, FirstStartAgrees, Quiet, NoAlarm, Speed
<1>8. ASSUME NEW t \in Threads, Alarm(t)
      PROVE  Alone' /\ FirstStartAgrees'
  <2>1. ~Quiet'
    BY <1>0, <1>8 DEF Alarm, Quiet, NoAlarm
  <2>2. race' = "none" => race = "none" /\ pc \notin {"check", "need", "write", "started"}
    BY <1>8 DEF Alarm, Starting
  <2>3. race = "none" /\ pc = "read" => Quiet
    BY <1>0, <1>8 DEF Alarm, Alone
  <2>4. Quiet => \A u \in Threads : alarm'[u] # "idle" => u = t /\ alarm'[u] = "need"
    BY <1>0, <1>8 DEF Alarm, Quiet, NoAlarm
  <2>5. pc' = pc /\ timer' = Off
    BY <1>8 DEF Alarm
  <2> QED BY <2>1, <2>2, <2>3, <2>4, <2>5 DEF Alone, FirstStartAgrees
<1>9. ASSUME NEW t \in Threads, AlarmNeed(t) \/ AlarmWrite(t) \/ AlarmStopped(t)
      PROVE  Alone' /\ FirstStartAgrees'
  <2>1. UNCHANGED <<pc, timer, race, packet>> /\ alarm[t] # "idle"
    BY <1>9 DEF AlarmNeed, AlarmWrite, AlarmStopped
  <2>2. ~Quiet
    BY <2>1 DEF Quiet, NoAlarm
  <2>3. \A u \in Threads : u # t => alarm'[u] = alarm[u]
    BY <1>0, <1>9 DEF AlarmNeed, AlarmWrite, AlarmStopped
  <2> SUFFICES ASSUME race = "none", pc = "read"
               PROVE  Alone' /\ FirstStartAgrees'
    BY <1>0, <2>1, <2>2 DEF Alone, FirstStartAgrees
  <2>4. timer = Off /\ \A u \in Threads : u # t => alarm[u] = "idle"
    BY <1>0, <2>1, <2>2 DEF Alone
  <2>5. \A u \in Threads : alarm'[u] # "idle" => u = t
    BY <2>3, <2>4
  <2>6. CASE AlarmNeed(t)
    <3>1. alarm'[t] = "write"
      BY <1>0, <2>6 DEF AlarmNeed
    <3> QED BY <2>1, <2>4, <2>5, <3>1 DEF Alone, FirstStartAgrees, Quiet, NoAlarm
  <2>7. CASE AlarmWrite(t)
    <3>1. alarmWrites[t] \in Seq(Speeds) /\ alarmWrites[t] # <<>>
          /\ Ends(alarmWrites[t]) = "stop"
      BY <1>0, <2>7 DEF AlarmWrite, TypeOK, EndsRight
    <3>2. alarm'[t] # "idle" /\ (alarm'[t] = "stopped" => motor' = "stop")
      BY <1>0, <2>7, <3>1, TailEnds DEF AlarmWrite
    <3> QED BY <2>1, <2>4, <2>5, <3>2 DEF Alone, FirstStartAgrees, Quiet, NoAlarm
  <2>8. CASE AlarmStopped(t)
    <3>1. motor' = "stop" /\ firstStart' /\ alarm'[t] = "idle"
      BY <1>0, <2>8 DEF AlarmStopped, AfterStop, Alone
    <3> QED BY <2>1, <2>4, <2>5, <3>1 DEF Alone, FirstStartAgrees
  <2> QED BY <1>9, <2>6, <2>7, <2>8
<1>10. CASE Packet \/ UNCHANGED vars
  BY <1>0, <1>10 DEF Packet, vars, Alone, FirstStartAgrees, Quiet, Speed
<1> QED BY <1>1, <1>2, <1>3, <1>4, <1>5, <1>6, <1>7, <1>8, <1>9, <1>10
        DEF Next, Control, Handler

LEMMA Invariant == Spec => []IInv
<1>1. Init => IInv
  BY TypeInit DEF Init, IInv, Idle, EndsRight, Awaited, Alone, FirstStartAgrees, Quiet,
                  NoAlarm
<1>2. IInv /\ [Next]_vars => IInv'
  BY TypeStep, IdleStep, EndsStep, AwaitedStep, AloneStep DEF IInv
<1> QED BY <1>1, <1>2, PTL DEF Spec

(* Between packets running motors are awaited by the timer or a handler,   *)
(* whatever moves, alarms, ends and kills came before: do_move_command     *)
(* arms the timer of every move, and each handler ends in a stop.          *)
THEOREM StopAwaitedAlways == Spec => []StopAwaited
<1>1. IInv => StopAwaited
  <2> SUFFICES ASSUME IInv, pc = "read", Running, timer = Off, Quiet, race # "alarm", ~NoTime
               PROVE  FALSE
    BY DEF StopAwaited, Stoppable
  <2>1. \A t \in Threads : ~Stopping(t)
    BY DEF Quiet, NoAlarm, Stopping
  <2> QED BY <2>1 DEF IInv, Awaited, Running
<1> QED BY <1>1, Invariant, PTL

(* PWM_first_start agrees with the motors between packets whenever no      *)
(* alarm and no handler ran beside the last start.                         *)
THEOREM FirstStartAgreesAlways == Spec => []FirstStartAgrees
<1>1. IInv => FirstStartAgrees
  BY DEF IInv
<1> QED BY <1>1, Invariant, PTL
=============================================================================
