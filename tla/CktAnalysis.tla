----------------------------- MODULE CktAnalysis -----------------------------
(***************************************************************************)
(* ckt_analysis, demo/ckt-frontend: the start-up that turns the robot left *)
(* and right, the thread that reads packets from the FIFO and starts the   *)
(* motors, the SIGALRM handler that stops them, and the end of the process *)
(* by a command without a function, a short packet or a kill, after which  *)
(* tiny.sh starts it anew.  What the motors do outlives the process: the   *)
(* driver leaves the pins alone when its device is closed.                 *)
(***************************************************************************)
EXTENDS Integers, Sequences

CONSTANTS
  Times,       \* stop times of the moves sent, in bytes
  MaxPackets,  \* bound on the packets written to the FIFO
  MaxPipe,     \* bound on the packets waiting in it
  MaxKills     \* bound on the kills from outside

ASSUME TimesAssumption      == Times \subseteq 0 .. 255
ASSUME MaxPacketsAssumption == MaxPackets \in Nat
ASSUME MaxPipeAssumption    == MaxPipe \in Nat
ASSUME MaxKillsAssumption   == MaxKills \in Nat

(* A move has the sign of x, or no speed at all, and the byte after which  *)
(* it is to stop.  A cut packet is shorter than its fixed part.            *)
Moves   == [kind : {"move"}, x : {"ahead", "back", "halt"}, time : Times]
Others  == [kind : {"unknown", "cut"}, x : {"halt"}, time : {0}]
Packets == Moves \cup Others
Speeds  == {"stop", "turn", "kick", "move"}
Threads == {"main", "control"}   \* the threads a signal can be handled on

VARIABLES
  pipe,                      \* packets in /tmp/fifo_1
  motor,                     \* what the last ioctl set the pins to
  pc,                        \* where the process is, "off" when there is none
  packet,                    \* the last packet taken from the FIFO
  writes,                    \* ioctls that pwm_ioctr has still to do
  timer,                     \* it_value of ITIMER_REAL, in units of 10 ms
  alarm, alarmWrites,        \* the same of sig_close_pwm, on each thread
  firstStart, compensation,  \* PWM_first_start, PWM_compensation
  opposite,                  \* PWM_opposite of do_move_command
  charSigned,                \* char is signed in this build
  sent, kills,               \* bounds
  race                       \* history: what came between a move and its start

process == <<pc, packet, writes>>
handler == <<alarm, alarmWrites>>
flags   == <<firstStart, compensation, opposite>>
bounds  == <<charSigned, sent, kills>>
vars    == <<pipe, motor, timer, process, handler, flags, bounds, race>>

Off      == [sec |-> 0, usec |-> 0]
NoPacket == [kind |-> "unknown", x |-> "halt", time |-> 0]
NoAlarm  == [t \in Threads |-> "idle"]
Quiet    == alarm = NoAlarm
AsChar(b) == IF charSigned /\ b > 127 THEN b - 256 ELSE b

(* pwm_ioctr: the speed, after a kick at full power if need be.            *)
Writes(need, speed) == IF need THEN <<"kick", speed>> ELSE <<speed>>

NeedsKick == compensation \/ firstStart

(* Mutant: the last stop is left out. *)
AroundEndless ==
  Writes(TRUE, "turn") \o Writes(TRUE, "stop") \o Writes(TRUE, "turn")

(* do_around_move: left, stop, right, stop, while PWM_first_start is set.  *)
Around ==
  Writes(TRUE, "turn") \o Writes(TRUE, "stop")
    \o Writes(TRUE, "turn") \o Writes(TRUE, "stop")
-----------------------------------------------------------------------------
(* Nothing of the process but the pins and the FIFO outlives it.           *)
Gone ==
  /\ pc' = "off"
  /\ packet' = NoPacket
  /\ writes' = <<>>
  /\ timer' = Off
  /\ alarm' = NoAlarm
  /\ alarmWrites' = [t \in Threads |-> <<>>]
  /\ firstStart' = TRUE
  /\ compensation' = FALSE
  /\ opposite' = FALSE
  /\ race' = "none"

Init ==
  /\ pipe = <<>>
  /\ motor = "stop"
  /\ pc = "off"
  /\ packet = NoPacket
  /\ writes = <<>>
  /\ timer = Off
  /\ alarm = NoAlarm
  /\ alarmWrites = [t \in Threads |-> <<>>]
  /\ firstStart = TRUE
  /\ compensation = FALSE
  /\ opposite = FALSE
  /\ charSigned \in BOOLEAN
  /\ sent = 0
  /\ kills = 0
  /\ race = "none"

(* tiny.sh, or the panel, starts the program; main gets ready to turn.     *)
Start ==
  /\ pc = "off"
  /\ pc' = "around"
  /\ writes' = Around
  /\ UNCHANGED <<pipe, motor, timer, packet, handler, flags, bounds, race>>

AroundWrite ==
  /\ pc = "around"
  /\ motor' = Head(writes)
  /\ writes' = Tail(writes)
  /\ pc' = IF Tail(writes) = <<>> THEN "read" ELSE "around"
  /\ UNCHANGED <<pipe, timer, packet, handler, flags, bounds, race>>

(* The control thread does not run while it handles the signal.            *)
At(l) == pc = l /\ alarm["control"] = "idle"

(* get_package: one read takes any number of packets, the first is kept.   *)
Take ==
  /\ At("read")
  /\ \E n \in 1 .. Len(pipe) : pipe' = SubSeq(pipe, n + 1, Len(pipe))
  /\ packet' = pipe[1]

TakeMove ==
  /\ Take
  /\ pipe[1].kind = "move"
  /\ pc' = "arm"
  /\ UNCHANGED <<motor, timer, writes, handler, flags, bounds, race>>

(* analysis_package does nothing with it; do_control finds that it asks    *)
(* for no module, which ends the loop.                                     *)
TakeUnknown ==
  /\ Take
  /\ pipe[1].kind = "unknown"
  /\ pc' = "leave"
  /\ UNCHANGED <<motor, timer, writes, handler, flags, bounds, race>>

(* The length of the data wraps, and memcpy runs out of memory.            *)
TakeCut ==
  /\ At("read")
  /\ pipe # <<>> /\ pipe[1].kind = "cut"
  /\ \E n \in 1 .. Len(pipe) : pipe' = SubSeq(pipe, n + 1, Len(pipe))
  /\ Gone
  /\ UNCHANGED <<motor, bounds>>

(* Mutant: the seconds are the units. *)
UnitsWhole(t) ==
  IF t >= 100 THEN [sec |-> t, usec |-> 0] ELSE [sec |-> 0, usec |-> t]

(* Mutant: a hundred units are not yet a second. *)
UnitsLate(t) ==
  IF t > 100 THEN [sec |-> t \div 100, usec |-> 0] ELSE [sec |-> 0, usec |-> t]

(* set_time: a hundred units and more are rounded down to seconds.         *)
Units(t) ==
  IF t >= 100 THEN [sec |-> t \div 100, usec |-> 0] ELSE [sec |-> 0, usec |-> t]

(* setitimer replaces the time left, and refuses what is no time.          *)
Setitimer(value) == timer' = IF value.usec \in 0 .. 99 THEN value ELSE timer

Arm ==
  /\ At("arm")
  /\ Setitimer(Units(AsChar(packet.time)))
  /\ race' = IF Quiet THEN "none" ELSE "handler"
  /\ pc' = "check"
  /\ UNCHANGED <<pipe, motor, packet, writes, handler, flags, bounds>>

(* A change of sign while the motors run asks for compensation, for good.  *)
Check ==
  /\ At("check")
  /\ opposite' = (charSigned /\ packet.x = "back")
  /\ compensation' = (compensation \/ (opposite' # opposite /\ ~firstStart))
  /\ pc' = "need"
  /\ UNCHANGED <<pipe, motor, timer, packet, writes, handler, firstStart, bounds, race>>

Speed == IF packet.x = "halt" THEN "stop" ELSE "move"

Need ==
  /\ At("need")
  /\ writes' = Writes(NeedsKick, Speed)
  /\ pc' = "write"
  /\ UNCHANGED <<pipe, motor, timer, packet, handler, flags, bounds, race>>

Write ==
  /\ At("write")
  /\ motor' = Head(writes)
  /\ writes' = Tail(writes)
  /\ pc' = IF Tail(writes) = <<>> THEN "started" ELSE "write"
  /\ UNCHANGED <<pipe, timer, packet, handler, flags, bounds, race>>

Started ==
  /\ At("started")
  /\ firstStart' = FALSE
  /\ pc' = "read"
  /\ UNCHANGED <<pipe, motor, timer, packet, writes, handler, compensation, opposite,
                 bounds, race>>

(* EnvDeIinit: main has joined the thread, closes the device and returns.  *)
Leave ==
  /\ pc = "leave"
  /\ alarm["main"] = "idle"
  /\ Gone
  /\ UNCHANGED <<pipe, motor, bounds>>
-----------------------------------------------------------------------------
(* The kernel gives the signal to the main thread if that is not in the    *)
(* handler already, else to the control thread if there is one.            *)
Taker(t) ==
  /\ alarm[t] = "idle"
  /\ t = "control" => alarm["main"] # "idle" /\ pc # "leave"

Starting == pc \in {"check", "need", "write"}

Alarm(t) ==
  /\ timer # Off
  /\ Taker(t)
  /\ timer' = Off
  /\ alarm' = [alarm EXCEPT ![t] = "need"]
  /\ race' = IF Starting THEN "alarm" ELSE IF pc = "started" THEN "handler" ELSE race
  /\ UNCHANGED <<pipe, motor, process, alarmWrites, flags, bounds>>

(* Mutant: the handler sets the speed of the move again. *)
StopSpeedKept == Speed

StopSpeed == "stop"

AlarmNeed(t) ==
  /\ alarm[t] = "need"
  /\ alarmWrites' = [alarmWrites EXCEPT ![t] = Writes(NeedsKick, StopSpeed)]
  /\ alarm' = [alarm EXCEPT ![t] = "write"]
  /\ UNCHANGED <<pipe, motor, timer, process, flags, bounds, race>>

AlarmWrite(t) ==
  /\ alarm[t] = "write"
  /\ motor' = Head(alarmWrites[t])
  /\ alarmWrites' = [alarmWrites EXCEPT ![t] = Tail(@)]
  /\ alarm' = [alarm EXCEPT ![t] = IF Tail(alarmWrites[t]) = <<>> THEN "stopped" ELSE "write"]
  /\ UNCHANGED <<pipe, timer, process, flags, bounds, race>>

(* Mutant: PWM_first_start is not set again. *)
AfterStopKept == UNCHANGED firstStart

AfterStop == firstStart' = TRUE

AlarmStopped(t) ==
  /\ alarm[t] = "stopped"
  /\ AfterStop
  /\ alarm' = [alarm EXCEPT ![t] = "idle"]
  /\ UNCHANGED <<pipe, motor, timer, process, alarmWrites, compensation, opposite,
                 bounds, race>>
-----------------------------------------------------------------------------
(* The mx server writes a packet; the panel kills the program.             *)
Packet ==
  /\ sent < MaxPackets /\ Len(pipe) < MaxPipe
  /\ \E p \in Packets : pipe' = Append(pipe, p)
  /\ sent' = sent + 1
  /\ UNCHANGED <<motor, timer, process, handler, flags, charSigned, kills, race>>

Kill ==
  /\ pc # "off" /\ kills < MaxKills
  /\ kills' = kills + 1
  /\ Gone
  /\ UNCHANGED <<pipe, motor, charSigned, sent>>

Control ==
  \/ AroundWrite \/ TakeMove \/ TakeUnknown \/ TakeCut
  \/ Arm \/ Check \/ Need \/ Write \/ Started \/ Leave
Handler(t) == Alarm(t) \/ AlarmNeed(t) \/ AlarmWrite(t) \/ AlarmStopped(t)

Next == Start \/ Control \/ (\E t \in Threads : Handler(t)) \/ Packet \/ Kill

Spec == Init /\ [][Next]_vars

(* Threads run, time passes, and tiny.sh looks every five seconds.  Nobody *)
(* has to send or to kill.                                                 *)
FairSpec ==
  /\ Spec
  /\ WF_vars(Start) /\ WF_vars(Control)
  /\ \A t \in Threads : WF_vars(Handler(t))
-----------------------------------------------------------------------------
(* What each variable ranges over: the timer holds a time setitimer takes, *)
(* and pwm_ioctr has its ioctls left exactly where it is at them.          *)
TypeOK ==
  /\ pipe \in Seq(Packets) /\ Len(pipe) <= MaxPipe
  /\ motor \in Speeds
  /\ pc \in {"off", "around", "read", "arm", "check", "need", "write", "started", "leave"}
  /\ packet \in Packets
  /\ writes \in Seq(Speeds) /\ (writes = <<>> <=> pc \notin {"around", "write"})
  /\ timer \in [sec : 0 .. 2, usec : 0 .. 99]
  /\ alarm \in [Threads -> {"idle", "need", "write", "stopped"}]
  /\ alarmWrites \in [Threads -> Seq(Speeds)]
  /\ \A t \in Threads : alarmWrites[t] = <<>> <=> alarm[t] # "write"
  /\ firstStart \in BOOLEAN /\ compensation \in BOOLEAN /\ opposite \in BOOLEAN
  /\ charSigned \in BOOLEAN
  /\ sent \in 0 .. MaxPackets /\ kills \in 0 .. MaxKills
  /\ race \in {"none", "alarm", "handler"}

(* Between packets the motors run only if something is about to stop them: *)
(* the timer or a handler.  Else the alarm came before the move started,   *)
(* or the move asked for no time, which disarms the timer (a time that is  *)
(* negative as a char leaves it as it is).                                 *)
Running     == motor # "stop"
NoTime      == packet.kind = "move" /\ AsChar(packet.time) <= 0
Stoppable   == timer # Off \/ ~Quiet
StopAwaited == pc = "read" /\ Running => Stoppable \/ race = "alarm" \/ NoTime

(* PWM_first_start tells whether the motors stand, unless an alarm or a    *)
(* handler ran beside the last start: between packets it is set only when  *)
(* they do, and not set only when they run or were last told to halt.      *)
FirstStartAgrees ==
  pc = "read" /\ Quiet /\ race = "none" =>
    /\ firstStart => motor = "stop"
    /\ motor = "stop" => firstStart \/ packet.x = "halt"

(* Once the timer is armed the motors come to a stop, whatever packets     *)
(* come in between and however the process ends, unless a move without a   *)
(* time is taken: if no handler stops them, the next start does.           *)
Halts == timer # Off ~> motor = "stop" \/ NoTime

(* However the program ended, it comes to read packets again, and does so  *)
(* with the motors standing that an earlier process may have left running. *)
RestartHalts == pc = "off" ~> pc = "read" /\ motor = "stop"

(* analysis.c:41 "unknow command!!!!Do nothing!": a command that is not    *)
(* known does not end the program.                                         *)
UnknownDoesNothing == pc = "leave" => packet.kind # "unknown"
=============================================================================
