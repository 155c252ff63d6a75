------------------------- MODULE Rfm69GatewayProofs -------------------------
(***************************************************************************)
(* What is proved of the gateway and its radio, however many frames,       *)
(* failing accesses, queue places and bursts under way there are.          *)
(*                                                                         *)
(* The radio is parked when the monitor has stopped (ParkInv): calls are   *)
(* made one at a time, so shutdown starts from a driver whose current_mode *)
(* is Rx (set_mode does write the sleep mode), it writes that mode only    *)
(* once the task has ended, and a chip asleep receives nothing.            *)
(*                                                                         *)
(* Every variable keeps its type (TypeInv), and the queue is the end of    *)
(* what was delivered (NewestInv).                                         *)
(*                                                                         *)
(* Frames are neither torn, mixed nor lost unaccounted (FrameInv), unless  *)
(* a reception was disturbed or an access failed: the units collected and  *)
(* those in the FIFO are one stream, in the order of the air, in which a   *)
(* body follows its head; a burst takes the front of that stream, and      *)
(* leaves it only for the queue or for the frames counted as wiped.        *)
(***************************************************************************)
EXTENDS Rfm69Gateway, TLAPS

CallShape ==
  /\ call \in [at : Step, drained : Nat, ok : BOOLEAN]
  /\ faults \in Nat /\ "mode" \in DOMAIN chip

(* Which call goes with which place of the monitor.                        *)
OneCall ==
  /\ call.at \in {"drain", "mode", "restart"} => gpc \in {"starting", "recovering"}
  /\ call.at \in {"join", "sleep"} => gpc = "stopping"
  /\ call.at # "idle" \/ gpc \notin {"stopping", "stopped"} => current = "Rx"

Parked == tpc = "ended" /\ (chip.mode = "Sleep" \/ faults > 0)
Parking ==
  /\ call.at = "sleep" => tpc = "ended"
  /\ gpc = "stopping" /\ call.at = "idle" => Parked

ParkInv == CallShape /\ OneCall /\ Parking /\ ParkedAtStop

-----------------------------------------------------------------------------
LEMMA InitParks == Init => ParkInv
BY DEF Init, Rfm69Init, ParkInv, CallShape, OneCall, Parking, ParkedAtStop, Step

(* A write to RegOpMode leaves the chip in the mode written.               *)
LEMMA WriteModeSets ==
  ASSUME NEW m, "mode" \in DOMAIN chip, WriteMode(m)
  PROVE  chip'.mode = m /\ "mode" \in DOMAIN chip'
<1>1. CASE m = "Rx" /\ chip.mode # "Rx"
  BY <1>1 DEF WriteMode
<1>2. CASE ~(m = "Rx" /\ chip.mode # "Rx")
  <2>1. chip' = [chip EXCEPT !.mode = m, !.sync = @ /\ m = "Rx"]
    BY <1>2 DEF WriteMode
  <2> QED BY <2>1
<1> QED BY <1>1, <1>2

(* The air moves a chip that is in Rx, and that only.                      *)
LEMMA AirParks == ParkInv /\ Air /\ UNCHANGED gateway => ParkInv'
<1> SUFFICES ASSUME ParkInv, Air, UNCHANGED gateway PROVE ParkInv'
  OBVIOUS
<1>1. UNCHANGED <<current, task, call, faults, gpc>>
  BY DEF Air, gateway
<1>2. chip.mode # "Sleep" /\ "mode" \in DOMAIN chip'
  <2>1. CASE \E u, s : Receive(u, s)
    <3>1. PICK u, s : Receive(u, s)
      BY <2>1
    <3>2. chip' = [chip EXCEPT !.fifo = Pushed(u), !.overrun = @ \/ ~Fits, !.sync = s]
      BY <3>1 DEF Receive
    <3> QED BY <3>1, <3>2 DEF Receive, ParkInv, CallShape
  <2>2. CASE Fade
    BY <2>2 DEF Fade, ParkInv, CallShape
  <2> QED BY <2>1, <2>2 DEF Air, FrameStarts, FrameEnds
<1> QED BY <1>1, <1>2 DEF ParkInv, CallShape, OneCall, Parking, Parked, ParkedAtStop, task

(* The task, once ended, does nothing; before, no call is past its join.   *)
LEMMA TaskParks == ParkInv /\ Task /\ UNCHANGED gateway => ParkInv'
<1> SUFFICES ASSUME ParkInv, Task, UNCHANGED gateway PROVE ParkInv'
  OBVIOUS
<1> USE DEF ParkInv, CallShape
<1>1. UNCHANGED <<current, call, gpc>> /\ faults' \in Nat
  <2>1. CASE HandlerFails
    BY <2>1 DEF HandlerFails, Fault, Task, Owner, gateway
  <2>2. CASE TaskStep
    BY <2>2 DEF Task, Owner, gateway, TaskStep, PollFlags, Collect, Take, BurstStandby, Discard,
                BurstRx, OverrunStandby, OverrunRx, TaskEnds, ToRx
  <2> QED BY <2>1, <2>2 DEF Task
<1>2. tpc # "ended"
  BY DEF Task, HandlerFails, TaskStep, PollFlags, Collect, Take, BurstStandby, Discard,
         BurstRx, OverrunStandby, OverrunRx, TaskEnds
<1>3. "mode" \in DOMAIN chip'
  <2>1. CASE \E m : WriteMode(m)
    BY <2>1, WriteModeSets
  <2>2. CASE UNCHANGED chip
    BY <2>2
  <2>3. CASE Take \/ Discard
    BY <2>3 DEF Take, Discard
  <2> QED BY <2>1, <2>2, <2>3 DEF Task, HandlerFails, TaskStep, PollFlags, Collect, BurstStandby,
             BurstRx, OverrunStandby, OverrunRx, TaskEnds, ToRx
<1> QED BY <1>1, <1>2, <1>3 DEF OneCall, Parking, Parked, ParkedAtStop

(* The owner's call: only Park ends one of a stopping monitor well.        *)
LEMMA CallParks == ParkInv /\ Running /\ CallStep /\ UNCHANGED gateway => ParkInv'
<1> SUFFICES ASSUME ParkInv, Running, CallStep, UNCHANGED gateway PROVE ParkInv'
  OBVIOUS
<1> USE DEF ParkInv, CallShape, OneCall, Parking, Parked, ParkedAtStop, Running, gateway, TaskAlone,
            task, Step
<1>1. CASE Drain
  <2>1. /\ call' \in [at : Step, drained : Nat, ok : BOOLEAN] /\ call'.at \in {"drain", "mode"}
        /\ UNCHANGED <<current, faults>> /\ "mode" \in DOMAIN chip' /\ call.at = "drain"
    <3>1. call' = [call EXCEPT !.drained = @ + 1] \/ GoOn("mode")
      BY <1>1 DEF Drain
    <3>2. call' \in [at : Step, drained : Nat, ok : BOOLEAN] /\ call'.at \in {"drain", "mode"}
      <4>1. CASE call' = [call EXCEPT !.drained = @ + 1]
        BY <1>1, <4>1 DEF Drain
      <4>2. CASE GoOn("mode")
        BY <1>1, <4>2 DEF Drain, GoOn
      <4> QED BY <3>1, <4>1, <4>2
    <3> QED BY <1>1, <3>2 DEF Drain
  <2> QED BY <2>1
<1>2. CASE EnterRx
  <2>1. UNCHANGED <<chip, current>> /\ UNCHANGED faults /\ call.at = "mode"
    BY <1>2 DEF EnterRx, SetMode
  <2>2. call' \in [at : Step, drained : Nat, ok : BOOLEAN] /\ call'.at = "restart"
    BY <1>2 DEF EnterRx, GoOn
  <2> QED BY <2>1, <2>2
<1>3. CASE RestartRx
  BY <1>3 DEF RestartRx, Return
<1>4. CASE Join
  <2>1. call' \in [at : Step, drained : Nat, ok : BOOLEAN] /\ call'.at = "sleep"
    BY <1>4 DEF Join, GoOn
  <2> QED BY <1>4, <2>1 DEF Join
<1>5. CASE Park
  <2>1. WriteMode("Sleep") /\ current' = "Sleep"
    BY <1>5 DEF Park, SetMode
  <2>2. chip'.mode = "Sleep" /\ "mode" \in DOMAIN chip'
    BY <2>1, WriteModeSets
  <2>3. call' \in [at : Step, drained : Nat, ok : BOOLEAN] /\ call'.at = "idle"
    BY <1>5 DEF Park, Return
  <2> QED BY <1>5, <2>2, <2>3 DEF Park
<1>6. CASE CallFails
  <2>1. faults' \in Nat /\ faults' > 0 /\ UNCHANGED <<chip, current>>
    BY <1>6 DEF CallFails, Fault
  <2>2. call' \in [at : Step, drained : Nat, ok : BOOLEAN] /\ call'.at = "idle"
    BY <1>6 DEF CallFails, Return
  <2> QED BY <1>6, <2>1, <2>2 DEF CallFails
<1> QED BY <1>1, <1>2, <1>3, <1>4, <1>5, <1>6 DEF CallStep

(* The monitor's own steps.                                                *)
LEMMA LoopParks == ParkInv /\ (Loop \/ Stall \/ Sigterm) => ParkInv'
<1> SUFFICES ASSUME ParkInv, Loop \/ Stall \/ Sigterm PROVE ParkInv'
  OBVIOUS
<1> USE DEF ParkInv, CallShape, OneCall, Parking, Parked, ParkedAtStop, Goto, Idle, rfm69, task
<1>1. CASE \E s \in {"drain", "join"} : Begin(s) /\ UNCHANGED <<chip, current, faults, tpc>>
  <2>1. PICK s \in {"drain", "join"} : Begin(s) /\ UNCHANGED <<chip, current, faults, tpc>>
    BY <1>1
  <2>2. call' \in [at : Step, drained : Nat, ok : BOOLEAN] /\ call'.at = s
    BY <2>1 DEF Begin, Step
  <2>3. s = "drain" => gpc' \in {"starting", "recovering"} /\ gpc \in {"opened", "report"}
    BY <2>1, <2>2 DEF Loop, Start, Started, CheckShutdown, Stop, PollPacket, NoReport, Assess,
                      Recovered, Stopped, Stall, Sigterm, Shutdown, StartReceive, Begin
  <2>4. s = "join" => gpc' = "stopping" /\ gpc = "loop"
    BY <2>1, <2>2 DEF Loop, Start, Started, CheckShutdown, Stop, PollPacket, NoReport, Assess,
                      Recovered, Stopped, Stall, Sigterm, Shutdown, StartReceive, Begin
  <2> QED BY <2>1, <2>2, <2>3, <2>4
<1>2. CASE UNCHANGED <<chip, current, call, faults, tpc>>
  <2>1. \/ gpc' = gpc
        \/ gpc = "stopping" /\ gpc' = "stopped" /\ call.at = "idle"
        \/ gpc \notin {"stopping", "stopped"} /\ gpc' \notin {"stopping", "stopped"}
           /\ call.at = "idle"
    BY <1>2 DEF Loop, Start, Started, CheckShutdown, Stop, PollPacket, NoReport, Assess, Recovered,
                Stopped, Stall, Sigterm, Shutdown, StartReceive, Begin, Step
  <2> QED BY <1>2, <2>1
<1> QED BY <1>1, <1>2 DEF Loop, Start, Started, CheckShutdown, Stop, PollPacket, NoReport, Assess,
           Recovered, Stopped, Stall, Sigterm, Shutdown, StartReceive, TaskAlone

-----------------------------------------------------------------------------
LEMMA NextParks == ParkInv /\ [Next]_vars => ParkInv'
<1> SUFFICES ASSUME ParkInv, [Next]_vars PROVE ParkInv'
  OBVIOUS
<1>1. CASE Loop \/ Stall \/ Sigterm
  BY <1>1, LoopParks
<1>2. CASE Driver
  BY <1>2, AirParks, TaskParks, CallParks DEF Driver
<1>3. CASE UNCHANGED vars
  BY <1>3 DEF vars, rfm69, task, gateway, ParkInv, CallShape, OneCall, Parking, Parked, ParkedAtStop
<1> QED BY <1>1, <1>2, <1>3 DEF Next

(* ParkedAtStop, shown inductive: when the monitor has stopped the radio   *)
(* cleanly (Rfm69Source::stop), the interrupt task has ended and the chip  *)
(* sleeps, unless an SPI access has failed.                                *)
THEOREM GatewayParksRadio == Spec => []ParkedAtStop
<1>1. ParkInv => ParkedAtStop
  BY DEF ParkInv
<1> QED BY InitParks, NextParks, <1>1, PTL DEF Spec

-----------------------------------------------------------------------------
(* The types, and what they rest on: a burst is collected at one place of  *)
(* the task only, a frame half received has been counted, and the monitor  *)
(* gives up at its last attempt.                                           *)

Chip == [mode : Mode, fifo : Seq(Unit), overrun : BOOLEAN, sync : BOOLEAN]

TypeInv ==
  /\ TypeOK /\ chip \in Chip
  /\ chip.sync => air >= 1
  /\ attempts <= MaxAttempts \/ gpc = "exited"
  /\ tpc \in {"collect", "take"} => Len(buf) <= 1
  /\ tpc \notin {"collect", "take", "standby"} => buf = <<>>

(* The queue is the end of what was delivered, place by place.             *)
EndOf(q, d) ==
  /\ Len(q) <= Len(d)
  /\ \A i \in 1..Len(q) : q[i] = d[Len(d) - Len(q) + i]
NewestInv == EndOf(queue, delivered)

(* As long as nothing went wrong, the task and the chip keep step: the     *)
(* chip receives while the task waits and collects, and stands by from the *)
(* end of a burst until the task re-arms it; what the task is collecting   *)
(* began with a head, or is about to be thrown away.                       *)
Clean == ~disturbed /\ faults = 0
StageInv ==
  Clean =>
    /\ ~chip.overrun /\ ~overran
    /\ tpc \in {"poll", "collect", "take", "standby"} => chip.mode = "Rx"
    /\ tpc \in {"discard", "rx"} => chip.mode = "Standby"
    /\ tpc \notin {"overrun_standby", "overrun_rx"}
    /\ tpc = "take" \/ (tpc = "collect" /\ buf = <<>>) => chip.fifo # <<>>
    /\ buf # <<>> /\ buf[1].part # "head" => tpc = "standby" /\ Len(buf) = 1

(* The units received since the chip was armed, the collected ones first.  *)
Stream == buf \o chip.fifo

IsHead(u) == u.part = "head"
BodyOf(u) == [frame |-> u.frame, part |-> "body"]

(* In a stream each body follows its head, each head but the last is       *)
(* followed by its body, and the frames, of the n sent, are in the order   *)
(* of the air.                                                             *)
Framed(s, n) ==
  /\ \A i \in DOMAIN s : s[i].frame \in 1..n
  /\ \A i \in DOMAIN s : s[i].part = "body" => i > 1 /\ IsHead(s[i - 1])
  /\ \A i \in 1..(Len(s) - 1) : IsHead(s[i]) => s[i + 1] = BodyOf(s[i])
  /\ \A i, j \in DOMAIN s : i < j => s[i].frame < s[j].frame \/ (j = i + 1 /\ IsHead(s[i]))

EndsInHead(s, n) == s # <<>> /\ IsHead(s[Len(s)]) /\ s[Len(s)].frame = n
EndsClosed(s)    == s # <<>> => ~IsHead(s[Len(s)])

StreamInv ==
  Clean /\ chip.mode = "Rx" =>
    /\ Framed(Stream, air)
    /\ IF chip.sync THEN EndsInHead(Stream, air) ELSE EndsClosed(Stream)
    /\ \A i \in DOMAIN delivered, j \in DOMAIN Stream :
         delivered[i][1].frame < Stream[j].frame

(* What was delivered is whole, in order and older than what comes.        *)
DeliveredInv ==
  Clean =>
    /\ \A i \in DOMAIN delivered :
         /\ Len(delivered[i]) = 2 /\ delivered[i][1].frame \in 1..air
         /\ IsHead(delivered[i][1]) /\ delivered[i][2] = BodyOf(delivered[i][1])
    /\ \A i, j \in DOMAIN delivered : i < j => delivered[i][1].frame < delivered[j][1].frame

(* Where a complete frame is that was neither delivered nor wiped: its     *)
(* last unit is in the stream.                                             *)
OnItsWay(n) == \E i \in DOMAIN Stream :
                 Stream[i].frame = n /\ (chip.mode = "Rx" => Stream[i].part = "body")
AccountInv == Clean => \A n \in whole : HandedOn(n) \/ n \in wiped \/ OnItsWay(n)

FrameInv == StageInv /\ StreamInv /\ DeliveredInv /\ AccountInv

LEMMA InitInv == Init => TypeInv /\ NewestInv /\ FrameInv
<1> SUFFICES ASSUME Init PROVE TypeInv /\ NewestInv /\ FrameInv
  OBVIOUS
<1> USE DEF Init, Rfm69Init
<1>1. chip \in Chip /\ chip.mode = "Rx" /\ chip.fifo = <<>> /\ ~chip.sync /\ ~chip.overrun
  BY DEF Chip, Mode
<1>2. TypeInv
  <2>1. call \in [at : Step, drained : 0..DrainUnits, ok : BOOLEAN]
    BY FifoAssumption DEF Step
  <2>2. /\ queue \in Seq(Seq(Unit)) /\ Len(queue) = 0 /\ MaxQueue \in Nat
        /\ buf \in Seq(Unit) /\ Len(buf) = 0 /\ delivered \in Seq(Seq(Unit))
        /\ Len(chip.fifo) = 0 /\ FifoUnits \in Nat
    BY <1>1, FifoAssumption, QueueAssumption
  <2>3. /\ overran \in BOOLEAN /\ shutdown \in BOOLEAN /\ disturbed \in BOOLEAN
        /\ fresh \in BOOLEAN /\ asked \in BOOLEAN
    BY Zenon
  <2>4. Rfm69TypeOK
    BY <1>1, <2>1, <2>2, <2>3, FrameBounds DEF Rfm69TypeOK, Chip, Mode, TaskPc
  <2> QED BY <1>1, <2>2, <2>3, <2>4, AttemptsAssumption DEF TypeInv, TypeOK, GatewayPc
<1>3. Stream = <<>>
  BY <1>1 DEF Stream
<1>4. NewestInv /\ StageInv /\ DeliveredInv /\ AccountInv
  BY <1>1 DEF NewestInv, EndOf, StageInv, DeliveredInv, AccountInv
<1>5. StreamInv
  BY <1>1, <1>3 DEF StreamInv, Framed, EndsClosed
<1> QED BY <1>2, <1>4, <1>5 DEF FrameInv

(* A write to RegOpMode keeps the FIFO, or resets it when it enters Rx.    *)
LEMMA WriteModeTypes ==
  ASSUME NEW m \in Mode, chip \in Chip, WriteMode(m)
  PROVE  /\ chip' \in Chip /\ chip'.mode = m
         /\ IF Resets(m) THEN chip'.fifo = <<>> /\ ~chip'.overrun /\ ~chip'.sync
            ELSE /\ chip'.fifo = chip.fifo /\ chip'.overrun = chip.overrun
                 /\ chip'.sync <=> chip.sync /\ m = "Rx"
<1>1. CASE Resets(m)
  <2>1. chip' = [mode |-> "Rx", fifo |-> <<>>, overrun |-> FALSE, sync |-> FALSE]
    BY <1>1 DEF WriteMode, Resets
  <2> QED BY <1>1, <2>1 DEF Chip, Mode, Resets
<1>2. CASE ~Resets(m)
  <2>1. chip' = [chip EXCEPT !.mode = m, !.sync = @ /\ m = "Rx"]
    BY <1>2 DEF WriteMode, Resets
  <2>2. (chip.sync /\ m = "Rx") \in BOOLEAN
    OBVIOUS
  <2> QED BY <1>2, <2>1, <2>2 DEF Chip
<1> QED BY <1>1, <1>2

LEMMA FrontOfFifo ==
  ASSUME chip \in Chip, chip.fifo # <<>>
  PROVE  /\ Head(chip.fifo) \in Unit /\ Tail(chip.fifo) \in Seq(Unit)
         /\ Len(Tail(chip.fifo)) = Len(chip.fifo) - 1
         /\ Len(chip.fifo) \in Nat \ {0}
BY DEF Chip

LEMMA FrontTaken ==
  ASSUME chip \in Chip, chip.fifo # <<>>, chip' = [chip EXCEPT !.fifo = Tail(@)]
  PROVE  /\ chip' \in Chip /\ chip'.fifo = Tail(chip.fifo)
         /\ chip'.mode = chip.mode /\ chip'.sync = chip.sync /\ chip'.overrun = chip.overrun
         /\ Len(chip'.fifo) <= Len(chip.fifo)
<1> DEFINE t == Tail(chip.fifo)
<1>1. t \in Seq(Unit) /\ Len(t) = Len(chip.fifo) - 1 /\ Len(chip.fifo) \in Nat
  BY FrontOfFifo
<1>2. chip' = [chip EXCEPT !.fifo = t]
  OBVIOUS
<1> HIDE DEF t
<1>3. /\ chip' \in Chip /\ chip'.fifo = t
      /\ chip'.mode = chip.mode /\ chip'.sync = chip.sync /\ chip'.overrun = chip.overrun
  BY <1>1, <1>2 DEF Chip
<1> QED BY <1>1, <1>3 DEF t

LEMMA FramesTyped ==
  ASSUME NEW s \in Seq(Unit)
  PROVE  Frames(s) \subseteq 0..MaxFrames
<1>1. \A i \in DOMAIN s : s[i] \in Unit
  OBVIOUS
<1> QED BY <1>1 DEF Frames, Unit

LEMMA ReceiveTypes ==
  ASSUME TypeInv, NEW u \in Unit, NEW s \in BOOLEAN, Receive(u, s)
  PROVE  /\ chip' \in Chip /\ chip'.sync = s /\ chip'.mode = "Rx" /\ chip.mode = "Rx"
         /\ Len(chip'.fifo) <= FifoUnits /\ disturbed' \in BOOLEAN
         /\ IF Fits THEN chip'.fifo = Append(chip.fifo, u) /\ chip'.overrun = chip.overrun
                         /\ disturbed' = disturbed
            ELSE disturbed'
<1>1. chip \in Chip /\ chip.fifo \in Seq(Unit) /\ Len(chip.fifo) <= FifoUnits /\ FifoUnits \in Nat
  BY FifoAssumption DEF TypeInv, TypeOK, Rfm69TypeOK
<1>2. Pushed(u) \in Seq(Unit) /\ Len(Pushed(u)) <= FifoUnits
  BY <1>1 DEF Pushed, Fits
<1>3. (chip.overrun \/ ~Fits) \in BOOLEAN /\ Fits => (chip.overrun \/ ~Fits) = chip.overrun
  BY <1>1 DEF Chip
<1>4. chip' = [chip EXCEPT !.fifo = Pushed(u), !.overrun = (chip.overrun \/ ~Fits), !.sync = s]
  BY DEF Receive
<1>5. disturbed \in BOOLEAN
  BY DEF TypeInv, TypeOK, Rfm69TypeOK
<1>6. disturbed' \in BOOLEAN /\ (IF Fits THEN disturbed' = disturbed ELSE disturbed')
  BY <1>5 DEF Receive
<1> HIDE DEF Fits
<1>7. chip' \in Chip /\ chip'.sync = s /\ chip'.mode = chip.mode /\ chip'.fifo = Pushed(u)
      /\ chip'.overrun = (chip.overrun \/ ~Fits)
  BY <1>1, <1>2, <1>3, <1>4 DEF Chip
<1> QED BY <1>2, <1>3, <1>6, <1>7 DEF Pushed, Receive

LEMMA AirTypes == TypeInv /\ Air /\ UNCHANGED gateway => TypeInv'
<1> SUFFICES ASSUME TypeInv, Air, UNCHANGED gateway PROVE TypeInv'
  OBVIOUS
<1>1. /\ UNCHANGED <<current, queue, tpc, buf, overran, shutdown, call, faults, gpc, attempts,
                     fresh, asked, wiped, delivered>>
  BY DEF Air, FrameStarts, FrameEnds, Fade, task, gateway
<1>2. /\ air \in 0..MaxFrames /\ MaxFrames \in Nat /\ whole \subseteq 1..MaxFrames
  BY FrameBounds DEF TypeInv, TypeOK, Rfm69TypeOK
<1>3. /\ chip' \in Chip /\ Len(chip'.fifo) <= FifoUnits /\ disturbed' \in BOOLEAN
      /\ air' \in 0..MaxFrames /\ whole' \subseteq 1..MaxFrames /\ (chip'.sync => air' >= 1)
  <2>1. ASSUME NEW part \in {"head", "junk"}, FrameStarts(part) PROVE <1>3
    <3> DEFINE u == [frame |-> air + 1, part |-> part]
               s == part = "head" /\ Fits
    <3>1. u \in Unit /\ s \in BOOLEAN
      BY <1>2, <2>1 DEF FrameStarts, Unit
    <3>2. Receive(u, s) /\ air' = air + 1 /\ air' \in 1..MaxFrames /\ whole' = whole
      BY <1>2, <2>1 DEF FrameStarts
    <3> HIDE DEF u, s
    <3> QED BY <1>2, <3>1, <3>2, ReceiveTypes
  <2>2. CASE FrameEnds
    <3>1. air >= 1 /\ [frame |-> air, part |-> "body"] \in Unit
      BY <1>2, <2>2 DEF FrameEnds, TypeInv, Unit
    <3>2. whole' \subseteq 1..MaxFrames /\ air' = air
      BY <1>2, <2>2, <3>1 DEF FrameEnds
    <3>3. Receive([frame |-> air, part |-> "body"], FALSE)
      BY <2>2 DEF FrameEnds
    <3> QED BY <1>2, <3>1, <3>2, <3>3, ReceiveTypes
  <2>3. CASE Fade
    BY <1>2, <2>3 DEF Fade, TypeInv, TypeOK, Rfm69TypeOK, Chip
  <2> QED BY <2>1, <2>2, <2>3 DEF Air
<1> QED BY <1>1, <1>3 DEF TypeInv, TypeOK, Rfm69TypeOK, Chip

LEMMA KeptTypes ==
  ASSUME TypeInv, NEW p \in Seq(Unit)
  PROVE  /\ Kept(Append(queue, p)) \in Seq(Seq(Unit)) /\ Len(Kept(Append(queue, p))) <= MaxQueue
         /\ Append(delivered, p) \in Seq(Seq(Unit))
<1>1. queue \in Seq(Seq(Unit)) /\ Len(queue) <= MaxQueue /\ delivered \in Seq(Seq(Unit))
  BY DEF TypeInv, TypeOK, Rfm69TypeOK
<1> DEFINE q == Append(queue, p)
<1>2. q \in Seq(Seq(Unit)) /\ Len(q) = Len(queue) + 1
  BY <1>1
<1> HIDE DEF q
<1>3. Kept(q) \in Seq(Seq(Unit)) /\ Len(Kept(q)) <= MaxQueue
  BY <1>1, <1>2, QueueAssumption DEF Kept
<1> QED BY <1>1, <1>3 DEF q

LEMMA TaskTypes == TypeInv /\ Task /\ UNCHANGED gateway => TypeInv'
<1> SUFFICES ASSUME TypeInv, Task, UNCHANGED gateway PROVE TypeInv'
  OBVIOUS
<1>1. /\ UNCHANGED <<current, shutdown, call, air, whole, gpc, attempts, fresh, asked>>
  BY DEF Task, Owner, gateway
<1>2. /\ chip \in Chip /\ Len(chip.fifo) <= FifoUnits /\ FifoUnits \in Nat
      /\ buf \in Seq(Unit) /\ faults \in 0..MaxFaults /\ faults' \in 0..MaxFaults
      /\ wiped \subseteq 0..MaxFrames
  BY FifoAssumption, FrameBounds
     DEF TypeInv, TypeOK, Rfm69TypeOK, Task, TaskStep, HandlerFails, Fault, PollFlags, Collect,
         Take, BurstStandby, Discard, BurstRx, OverrunStandby, OverrunRx, TaskEnds, ToRx
<1>3. /\ chip' \in Chip /\ Len(chip'.fifo) <= FifoUnits /\ (chip'.sync => chip.sync)
  <2>1. ASSUME NEW m \in Mode, WriteMode(m) PROVE <1>3
    BY <1>2, <2>1, WriteModeTypes
  <2>2. CASE UNCHANGED chip
    BY <1>2, <2>2
  <2>3. CASE chip.fifo # <<>> /\ chip' = [chip EXCEPT !.fifo = Tail(@)]
    <3>1. /\ chip' \in Chip /\ chip'.sync = chip.sync /\ Len(chip'.fifo) <= Len(chip.fifo)
          /\ Len(chip'.fifo) \in Nat /\ Len(chip.fifo) \in Nat
      BY <1>2, <2>3, FrontTaken DEF Chip
    <3> QED BY <1>2, <3>1
  <2>4. CASE Take
    <3>1. chip.fifo = <<>> => chip' = chip
      BY <1>2, <2>4 DEF Take, Chip
    <3> QED BY <1>2, <2>2, <2>3, <2>4, <3>1 DEF Take
  <2>5. {"Rx", "Standby"} \subseteq Mode
    BY DEF Mode
  <2> QED BY <2>1, <2>2, <2>3, <2>4, <2>5 DEF Task, TaskStep, HandlerFails, PollFlags, Collect,
             BurstStandby, Discard, BurstRx, OverrunStandby, OverrunRx, TaskEnds, ToRx
<1>4. wiped' \subseteq 0..MaxFrames
  <2>1. CASE wiped' = wiped \/ wiped' = wiped \cup Frames(chip.fifo)
    BY <1>2, <2>1, FramesTyped DEF Chip
  <2>2. CASE chip.fifo # <<>> /\ wiped' = wiped \cup {Head(chip.fifo).frame}
    BY <1>2, <2>2, FrontOfFifo DEF Unit
  <2> QED BY <2>1, <2>2 DEF Task, TaskStep, HandlerFails, PollFlags, Collect, Quiet, Take,
             BurstStandby, Discard, BurstRx, OverrunStandby, OverrunRx, TaskEnds, ToRx
<1>5. /\ queue' \in Seq(Seq(Unit)) /\ Len(queue') <= MaxQueue
      /\ delivered' \in Seq(Seq(Unit)) /\ disturbed' \in BOOLEAN
  <2>1. CASE UNCHANGED <<queue, delivered, disturbed>>
    BY <2>1 DEF TypeInv, TypeOK, Rfm69TypeOK
  <2>2. CASE BurstStandby /\ Complete
    <3>1. Len(buf) >= 2 /\ SubSeq(buf, 1, 2) \in Seq(Unit)
      BY <1>2, <2>2 DEF Complete
    <3> QED BY <2>2, <3>1, KeptTypes DEF BurstStandby, TypeInv, TypeOK, Rfm69TypeOK
  <2> QED BY <2>1, <2>2 DEF Task, TaskStep, HandlerFails, PollFlags, Collect, Quiet, Take,
             BurstStandby, Discard, BurstRx, OverrunStandby, OverrunRx, TaskEnds, ToRx
<1>6. /\ tpc' \in TaskPc /\ overran' \in BOOLEAN
      /\ buf' \in Seq(Unit) /\ Len(buf') <= 2
      /\ tpc' \in {"collect", "take"} => Len(buf') <= 1
      /\ tpc' \notin {"collect", "take", "standby"} => buf' = <<>>
  <2> USE DEF TaskPc
  <2>1. CASE PollFlags \/ Collect \/ TaskEnds
    BY <1>2, <2>1 DEF PollFlags, Collect, TaskEnds, TypeInv, TypeOK, Rfm69TypeOK, Chip
  <2>2. CASE BurstStandby \/ Discard \/ OverrunStandby \/ OverrunRx
    <3>1. /\ tpc' \in {"rx", "discard", "overrun_rx", "poll"}
          /\ overran' \in BOOLEAN /\ buf' = <<>>
      BY <2>2 DEF BurstStandby, Discard, OverrunStandby, OverrunRx, ToRx, TypeInv, TypeOK,
                  Rfm69TypeOK
    <3> QED BY <3>1
  <2>3. CASE BurstRx \/ HandlerFails
    <3>1. /\ tpc' \in {"overrun_standby", "poll"} /\ overran' \in BOOLEAN /\ buf' = <<>>
      BY <2>3 DEF BurstRx, HandlerFails, AfterBurst, ToRx, TypeInv, TypeOK, Rfm69TypeOK
    <3> QED BY <3>1
  <2>4. CASE Take
    <3> DEFINE u == IF chip.fifo = <<>> THEN Stray ELSE Head(chip.fifo)
    <3>1. u \in Unit
      BY <1>2, FrontOfFifo, FrameBounds DEF Stray, Unit
    <3>2. buf' = Append(buf, u) /\ overran' = overran /\ tpc = "take"
      BY <2>4 DEF Take
    <3>3. buf' \in Seq(Unit) /\ Len(buf') = Len(buf) + 1 /\ Len(buf) <= 1 /\ Len(buf) \in Nat
      BY <1>2, <3>1, <3>2 DEF TypeInv
    <3>4. buf = <<>> => Len(buf) = 0
      OBVIOUS
    <3>5. tpc' = "standby" \/ (buf = <<>> /\ tpc' = "collect")
      BY <2>4 DEF Take
    <3> QED BY <3>2, <3>3, <3>4, <3>5 DEF TypeInv, TypeOK, Rfm69TypeOK
  <2> QED BY <2>1, <2>2, <2>3, <2>4 DEF Task, TaskStep
<1> QED BY <1>1, <1>2, <1>3, <1>4, <1>5, <1>6 DEF TypeInv, TypeOK, Rfm69TypeOK, Chip

LEMMA CallTypes == TypeInv /\ CallStep /\ UNCHANGED gateway => TypeInv'
<1> SUFFICES ASSUME TypeInv, CallStep, UNCHANGED gateway PROVE TypeInv'
  OBVIOUS
<1>1. /\ UNCHANGED <<queue, tpc, buf, overran, air, whole, wiped, delivered, gpc, attempts,
                     fresh, asked, shutdown>>
  BY DEF CallStep, Drain, EnterRx, RestartRx, Join, Park, CallFails, TaskAlone, task, gateway
<1>2. /\ chip \in Chip /\ Len(chip.fifo) <= FifoUnits /\ FifoUnits \in Nat
      /\ call \in [at : Step, drained : 0..DrainUnits, ok : BOOLEAN] /\ DrainUnits \in Nat
      /\ faults \in 0..MaxFaults /\ MaxFaults \in Nat /\ disturbed \in BOOLEAN /\ current \in Mode
  BY FifoAssumption, FrameBounds DEF TypeInv, TypeOK, Rfm69TypeOK
<1>3. faults' \in 0..MaxFaults /\ disturbed' \in BOOLEAN
  <2>1. faults' \in 0..MaxFaults
    <3>1. faults' = faults \/ Fault
      BY DEF CallStep, Drain, EnterRx, RestartRx, Join, Park, CallFails
    <3> QED BY <1>2, <3>1 DEF Fault
  <2>2. disturbed' \in BOOLEAN
    BY <1>2, Zenon DEF CallStep, Drain, EnterRx, RestartRx, Join, Park, CallFails
  <2> QED BY <2>1, <2>2
<1>4. chip' \in Chip /\ Len(chip'.fifo) <= FifoUnits /\ (chip'.sync => chip.sync)
  <2>1. ASSUME NEW m \in Mode, SetMode(m) PROVE <1>4
    <3>1. CASE UNCHANGED chip
      BY <1>2, <3>1
    <3>2. CASE WriteMode(m)
      BY <1>2, <2>1, <3>2, WriteModeTypes
    <3> QED BY <2>1, <3>1, <3>2 DEF SetMode
  <2>2. CASE UNCHANGED chip
    BY <1>2, <2>2
  <2>3. CASE chip.fifo # <<>> /\ chip' = [chip EXCEPT !.fifo = Tail(@)]
    <3>1. /\ chip' \in Chip /\ chip'.sync = chip.sync /\ Len(chip'.fifo) <= Len(chip.fifo)
          /\ Len(chip'.fifo) \in Nat /\ Len(chip.fifo) \in Nat
      BY <1>2, <2>3, FrontTaken DEF Chip
    <3> QED BY <1>2, <3>1
  <2>4. CASE chip' = [chip EXCEPT !.sync = FALSE]
    BY <1>2, <2>4 DEF Chip
  <2>5. {"Rx", "Sleep"} \subseteq Mode
    BY DEF Mode
  <2> QED BY <2>1, <2>2, <2>3, <2>4, <2>5
       DEF CallStep, Drain, EnterRx, RestartRx, Join, Park, CallFails
<1>5. current' \in Mode
  BY <1>2 DEF CallStep, Drain, EnterRx, RestartRx, Join, Park, CallFails, SetMode, Mode
<1>6. call' \in [at : Step, drained : 0..DrainUnits, ok : BOOLEAN]
  <2>1. CASE call' = [call EXCEPT !.drained = @ + 1] /\ call.drained < DrainUnits
    <3>1. call' = [call EXCEPT !.drained = call.drained + 1]
      BY <2>1
    <3> QED BY <1>2, <2>1, <3>1
  <2>2. ASSUME NEW s \in Step, GoOn(s) PROVE <1>6
    <3>1. call' = [call EXCEPT !.at = s, !.drained = 0] /\ 0 \in 0..DrainUnits
      BY <1>2, <2>2 DEF GoOn
    <3> QED BY <1>2, <3>1
  <2>3. ASSUME NEW ok \in BOOLEAN, Return(ok) PROVE <1>6
    BY <1>2, <2>3 DEF Return, Step
  <2>4. {"mode", "restart", "sleep"} \subseteq Step /\ (call.at = "sleep") \in BOOLEAN
    BY DEF Step
  <2>5. CASE Drain
    BY <1>2, <2>1, <2>2, <2>4, <2>5 DEF Drain
  <2>6. CASE EnterRx \/ Join
    BY <2>2, <2>4, <2>6 DEF EnterRx, Join
  <2>7. CASE RestartRx \/ Park \/ CallFails
    BY <2>3, <2>4, <2>7 DEF RestartRx, Park, CallFails
  <2> QED BY <2>5, <2>6, <2>7 DEF CallStep
<1> QED BY <1>1, <1>3, <1>4, <1>5, <1>6 DEF TypeInv, TypeOK, Rfm69TypeOK, Chip

LEMMA LoopTypes == TypeInv /\ (Loop \/ Stall \/ Sigterm) => TypeInv'
<1> SUFFICES ASSUME TypeInv, Loop \/ Stall \/ Sigterm PROVE TypeInv'
  OBVIOUS
<1>1. UNCHANGED <<chip, current, tpc, buf, overran, faults, air, whole, wiped, delivered, disturbed>>
  BY DEF Loop, Start, Started, CheckShutdown, Stop, PollPacket, NoReport, Assess, Recovered,
         Stopped, Stall, Sigterm, Shutdown, StartReceive, TaskAlone, rfm69, task, history
<1>2. queue' \in Seq(Seq(Unit)) /\ Len(queue') <= MaxQueue
  <2>1. queue \in Seq(Seq(Unit)) /\ Len(queue) <= MaxQueue
    BY DEF TypeInv, TypeOK, Rfm69TypeOK
  <2>2. queue' = queue \/ (queue # <<>> /\ queue' = Tail(queue))
    BY DEF Loop, Start, Started, CheckShutdown, Stop, PollPacket, NoReport, Assess, Recovered,
           Stopped, Stall, Sigterm, Shutdown, StartReceive, TaskAlone, rfm69
  <2>3. queue # <<>> => Tail(queue) \in Seq(Seq(Unit)) /\ Len(Tail(queue)) = Len(queue) - 1
    BY <2>1
  <2>4. Len(queue) \in Nat /\ MaxQueue \in Nat
    BY <2>1, QueueAssumption
  <2>5. CASE queue' = queue
    BY <2>1, <2>5
  <2> DEFINE t == Tail(queue)
  <2>6. CASE queue # <<>> /\ queue' = t
    <3>1. t \in Seq(Seq(Unit)) /\ Len(t) <= MaxQueue
      BY <2>1, <2>3, <2>4, <2>6
    <3> HIDE DEF t
    <3> QED BY <2>6, <3>1
  <2> QED BY <2>2, <2>5, <2>6
<1>3. call' \in [at : Step, drained : 0..DrainUnits, ok : BOOLEAN]
  <2>1. call' = call \/ Begin("drain") \/ Begin("join")
    BY DEF Loop, Start, Started, CheckShutdown, Stop, PollPacket, NoReport, Assess, Recovered,
           Stopped, Stall, Sigterm, Shutdown, StartReceive, rfm69
  <2>2. call \in [at : Step, drained : 0..DrainUnits, ok : BOOLEAN] /\ 0 \in 0..DrainUnits
    BY FifoAssumption DEF TypeInv, TypeOK, Rfm69TypeOK
  <2>3. {"drain", "join"} \subseteq Step
    BY DEF Step
  <2>4. ASSUME NEW s \in Step, Begin(s) PROVE <1>3
    <3>1. call' = [at |-> s, drained |-> 0, ok |-> TRUE]
      BY <2>4 DEF Begin
    <3> QED BY <2>2, <3>1
  <2>5. CASE call' = call
    BY <2>2, <2>5
  <2> QED BY <2>1, <2>3, <2>4, <2>5
<1>4. /\ gpc' \in GatewayPc /\ fresh' \in BOOLEAN /\ asked' \in BOOLEAN /\ shutdown' \in BOOLEAN
  BY DEF Loop, Start, Started, CheckShutdown, Stop, PollPacket, NoReport, Assess, Recovered,
         Stopped, Stall, Sigterm, Shutdown, StartReceive, TaskAlone, rfm69, Goto, GatewayPc,
         TypeInv, TypeOK, Rfm69TypeOK
<1>5. attempts' \in 0..(MaxAttempts + 1) /\ (attempts' <= MaxAttempts \/ gpc' = "exited")
  <2>1. MaxAttempts \in Nat /\ attempts \in 0..(MaxAttempts + 1)
        /\ (attempts <= MaxAttempts \/ gpc = "exited")
    BY AttemptsAssumption DEF TypeInv, TypeOK
  <2>2. CASE Assess
    BY <2>1, <2>2 DEF Assess, Goto
  <2>3. CASE attempts' = attempts /\ (gpc' = gpc \/ gpc # "exited")
    BY <2>1, <2>3
  <2> QED BY <2>2, <2>3
       DEF Loop, Start, Started, CheckShutdown, Stop, PollPacket, NoReport, Recovered, Stopped,
           Stall, Sigterm
<1> QED BY <1>1, <1>2, <1>3, <1>4, <1>5 DEF TypeInv, TypeOK, Rfm69TypeOK

LEMMA NextTypes == TypeInv /\ [Next]_vars => TypeInv'
<1> SUFFICES ASSUME TypeInv, [Next]_vars PROVE TypeInv'
  OBVIOUS
<1>1. CASE UNCHANGED vars
  BY <1>1 DEF vars, rfm69, task, history, gateway, TypeInv, TypeOK, Rfm69TypeOK, Chip, Unit
<1>2. CASE Driver
  BY <1>2, AirTypes, TaskTypes, CallTypes DEF Driver
<1> QED BY <1>1, <1>2, LoopTypes DEF Next

(* Every variable of the driver and of the monitor keeps its type, for any *)
(* FIFO, queue and number of recoveries.                                   *)
THEOREM GatewayTypeCorrect == Spec => []TypeOK
<1>1. Init => TypeInv
  BY InitInv
<1>2. TypeInv => TypeOK
  BY DEF TypeInv
<1> QED BY <1>1, <1>2, NextTypes, PTL DEF Spec

-----------------------------------------------------------------------------
(* The queue.                                                              *)

LEMMA EndOfAppend ==
  ASSUME NEW S, NEW q \in Seq(S), NEW d \in Seq(S), NEW x \in S, EndOf(q, d)
  PROVE  EndOf(Append(q, x), Append(d, x))
<1> DEFINE Q == Append(q, x)
           D == Append(d, x)
<1>1. /\ Len(q) \in Nat /\ Len(d) \in Nat /\ Len(q) <= Len(d)
      /\ Len(Q) = Len(q) + 1 /\ Len(D) = Len(d) + 1
  BY DEF EndOf
<1>2. ASSUME NEW i \in 1..Len(Q) PROVE Q[i] = D[Len(D) - Len(Q) + i]
  <2>1. CASE i = Len(q) + 1
    <3>1. Q[i] = x /\ D[Len(d) + 1] = x /\ Len(D) - Len(Q) + i = Len(d) + 1
      BY <1>1, <2>1
    <3> QED BY <3>1
  <2>2. CASE i \in 1..Len(q)
    <3> DEFINE j == Len(d) - Len(q) + i
    <3>1. j \in 1..Len(d) /\ Len(D) - Len(Q) + i = j
      BY <1>1, <2>2
    <3>2. Q[i] = q[i] /\ D[j] = d[j]
      BY <1>1, <2>2, <3>1
    <3> QED BY <2>2, <3>1, <3>2 DEF EndOf
  <2> QED BY <1>1, <2>1, <2>2
<1> HIDE DEF Q, D
<1>3. EndOf(Q, D)
  BY <1>1, <1>2 DEF EndOf
<1> QED BY <1>3 DEF Q, D

LEMMA EndOfTail ==
  ASSUME NEW S, NEW q \in Seq(S), NEW d \in Seq(S), q # <<>>, EndOf(q, d)
  PROVE  EndOf(Tail(q), d)
<1> DEFINE t == Tail(q)
<1>1. /\ Len(q) \in Nat \ {0} /\ Len(d) \in Nat /\ Len(q) <= Len(d)
      /\ Len(t) = Len(q) - 1 /\ \A i \in 1..Len(t) : t[i] = q[i + 1]
  BY DEF EndOf
<1> HIDE DEF t
<1>2. ASSUME NEW i \in 1..Len(t) PROVE t[i] = d[Len(d) - Len(t) + i]
  <2>1. i + 1 \in 1..Len(q) /\ Len(d) - Len(q) + (i + 1) = Len(d) - Len(t) + i
    BY <1>1
  <2> QED BY <1>1, <2>1 DEF EndOf
<1>3. EndOf(t, d)
  BY <1>1, <1>2 DEF EndOf
<1> QED BY <1>3 DEF t

LEMMA EndOfExactly ==
  ASSUME NEW S, NEW q \in Seq(S), NEW d \in Seq(S), EndOf(q, d)
  PROVE  q = SubSeq(d, Len(d) - Len(q) + 1, Len(d))
<1> DEFINE m == Len(d) - Len(q) + 1
           t == SubSeq(d, m, Len(d))
<1>1. Len(q) \in Nat /\ Len(d) \in Nat /\ Len(q) <= Len(d) /\ m \in 1..(Len(d) + 1)
  BY DEF EndOf
<1>2. t \in Seq(S) /\ Len(t) = Len(q) /\ \A i \in 1..Len(q) : t[i] = d[m + i - 1]
  BY <1>1
<1>3. \A i \in 1..Len(q) : t[i] = q[i]
  BY <1>1, <1>2 DEF EndOf
<1> HIDE DEF t
<1>4. q = t
  BY <1>2, <1>3
<1> QED BY <1>4 DEF t

LEMMA NextNewest == TypeInv /\ NewestInv /\ [Next]_vars => NewestInv'
<1> SUFFICES ASSUME TypeInv, NewestInv, [Next]_vars PROVE NewestInv'
  OBVIOUS
<1>1. queue \in Seq(Seq(Unit)) /\ delivered \in Seq(Seq(Unit)) /\ buf \in Seq(Unit)
  BY DEF TypeInv, TypeOK, Rfm69TypeOK
<1>2. CASE UNCHANGED <<queue, delivered>>
  BY <1>2 DEF NewestInv
<1>3. CASE PollPacket
  BY <1>1, <1>3, EndOfTail DEF PollPacket, NewestInv, history
<1>4. CASE BurstStandby /\ Complete
  <2> DEFINE p == SubSeq(buf, 1, 2)
             q == Append(queue, p)
             d == Append(delivered, p)
  <2>1. p \in Seq(Unit)
    BY <1>1, <1>4 DEF Complete
  <2>2. queue' = Kept(q) /\ delivered' = d
    BY <1>4 DEF BurstStandby
  <2> HIDE DEF p
  <2>3. EndOf(q, d) /\ q \in Seq(Seq(Unit)) /\ d \in Seq(Seq(Unit))
    BY <1>1, <2>1, EndOfAppend DEF NewestInv
  <2>4. q # <<>>
    <3>1. Len(q) = Len(queue) + 1 /\ Len(queue) \in Nat /\ Len(<<>>) = 0
      BY <1>1
    <3> HIDE DEF q
    <3> QED BY <3>1
  <2> HIDE DEF q, d
  <2>5. EndOf(Kept(q), d)
    BY <2>3, <2>4, EndOfTail DEF Kept
  <2> QED BY <2>2, <2>5 DEF NewestInv
<1>5. UNCHANGED <<queue, delivered>> \/ PollPacket \/ (BurstStandby /\ Complete)
  <2>1. CASE UNCHANGED vars
    BY <2>1 DEF vars, rfm69, history
  <2>2. CASE Loop \/ Stall \/ Sigterm
    BY <2>2 DEF Loop, Start, Started, CheckShutdown, Stop, NoReport, Assess, Recovered, Stopped,
                Stall, Sigterm, Shutdown, StartReceive, TaskAlone, rfm69, history
  <2>3. CASE Driver
    BY <2>3 DEF Driver, Air, FrameStarts, FrameEnds, Fade, Task, TaskStep, HandlerFails,
                PollFlags, Collect, Take, BurstStandby, Discard, BurstRx, OverrunStandby,
                OverrunRx, TaskEnds, ToRx, Quiet, CallStep, Drain, EnterRx, RestartRx, Join,
                Park, CallFails, TaskAlone
  <2> QED BY <2>1, <2>2, <2>3 DEF Next
<1> QED BY <1>2, <1>3, <1>4, <1>5

(* The queue always holds the latest packets, in their order, whatever its *)
(* bound and however slowly they are taken (QueueHoldsNewest).             *)
THEOREM GatewayQueueNewest == Spec => []QueueHoldsNewest
<1>1. Init => TypeInv /\ NewestInv
  BY InitInv
<1>2. TypeInv /\ NewestInv => QueueHoldsNewest
  <2> SUFFICES ASSUME TypeInv, NewestInv PROVE QueueHoldsNewest
    OBVIOUS
  <2>1. queue \in Seq(Seq(Unit)) /\ delivered \in Seq(Seq(Unit))
    BY DEF TypeInv, TypeOK, Rfm69TypeOK
  <2>2. queue = SubSeq(delivered, Len(delivered) - Len(queue) + 1, Len(delivered))
    BY <2>1, EndOfExactly DEF NewestInv
  <2> QED BY <2>2 DEF QueueHoldsNewest, NewestInv, EndOf
<1> QED BY <1>1, <1>2, NextTypes, NextNewest, PTL DEF Spec

-----------------------------------------------------------------------------
(* The frames.                                                             *)

LEMMA StreamParts ==
  ASSUME TypeInv
  PROVE  /\ Stream \in Seq(Unit) /\ buf \in Seq(Unit) /\ chip.fifo \in Seq(Unit)
         /\ Len(buf) \in Nat /\ Len(chip.fifo) \in Nat /\ Len(Stream) = Len(buf) + Len(chip.fifo)
         /\ \A i \in 1..Len(buf) : Stream[i] = buf[i]
         /\ \A i \in 1..Len(chip.fifo) : Stream[Len(buf) + i] = chip.fifo[i]
         /\ buf = <<>> => Stream = chip.fifo
<1>1. buf \in Seq(Unit) /\ chip.fifo \in Seq(Unit)
  BY DEF TypeInv, TypeOK, Rfm69TypeOK
<1> DEFINE f == chip.fifo
<1>2. f \in Seq(Unit)
  BY <1>1
<1> HIDE DEF f
<1>3. /\ buf \o f \in Seq(Unit) /\ Len(buf \o f) = Len(buf) + Len(f)
      /\ \A i \in 1..Len(buf) : (buf \o f)[i] = buf[i]
      /\ \A i \in 1..Len(f) : (buf \o f)[Len(buf) + i] = f[i]
      /\ Len(buf) \in Nat /\ Len(f) \in Nat
  BY <1>1, <1>2
<1>4. <<>> \o f = f
  BY <1>2
<1> QED BY <1>1, <1>3, <1>4 DEF Stream, f

LEMMA JoinAt ==
  ASSUME NEW b \in Seq(Unit), NEW f \in Seq(Unit)
  PROVE  /\ b \o f \in Seq(Unit) /\ Len(b \o f) = Len(b) + Len(f)
         /\ Len(b) \in Nat /\ Len(f) \in Nat
         /\ \A i \in 1..Len(b) : (b \o f)[i] = b[i]
         /\ \A i \in 1..Len(f) : (b \o f)[Len(b) + i] = f[i]
OBVIOUS

LEMMA JoinPush ==
  ASSUME NEW b \in Seq(Unit), NEW f \in Seq(Unit), NEW u \in Unit
  PROVE  b \o Append(f, u) = Append(b \o f, u)
<1> DEFINE x == b \o Append(f, u)
           y == Append(b \o f, u)
<1>1. x \in Seq(Unit) /\ y \in Seq(Unit) /\ Len(x) = Len(y)
  OBVIOUS
<1>2. \A i \in 1..Len(x) : x[i] = y[i]
  OBVIOUS
<1> HIDE DEF x, y
<1>3. x = y
  BY <1>1, <1>2
<1> QED BY <1>3 DEF x, y

LEMMA JoinTake ==
  ASSUME NEW b \in Seq(Unit), NEW f \in Seq(Unit), f # <<>>
  PROVE  Append(b, Head(f)) \o Tail(f) = b \o f
<1> DEFINE h == Head(f)
           t == Tail(f)
           x == Append(b, h) \o t
           y == b \o f
<1>1. /\ h \in Unit /\ h = f[1] /\ t \in Seq(Unit) /\ Len(t) = Len(f) - 1
      /\ Len(f) \in Nat \ {0} /\ \A i \in 1..Len(t) : t[i] = f[i + 1]
  OBVIOUS
<1> HIDE DEF h, t
<1>a. Append(b, h) \in Seq(Unit) /\ Len(Append(b, h)) = Len(b) + 1 /\ Len(b) \in Nat
  BY <1>1
<1>2. x \in Seq(Unit) /\ y \in Seq(Unit) /\ Len(x) = Len(y) /\ Len(y) = Len(b) + Len(f)
      /\ Len(b) \in Nat
  <2> DEFINE c == Append(b, h)
  <2>1. x \in Seq(Unit) /\ Len(x) = (Len(b) + 1) + Len(t)
    <3>1. x = c \o t /\ c \in Seq(Unit) /\ Len(c) = Len(b) + 1 /\ t \in Seq(Unit)
      BY <1>1, <1>a
    <3> HIDE DEF c, x
    <3>2. c \o t \in Seq(Unit) /\ Len(c \o t) = Len(c) + Len(t)
      BY <3>1, JoinAt
    <3> QED BY <3>1, <3>2
  <2>2. y \in Seq(Unit) /\ Len(y) = Len(b) + Len(f)
    BY JoinAt
  <2> QED BY <1>1, <1>a, <2>1, <2>2
<1>3. ASSUME NEW i \in 1..Len(y) PROVE x[i] = y[i]
  <2>1. CASE i <= Len(b)
    BY <1>1, <1>2, <2>1
  <2> DEFINE c == Append(b, h)
  <2>a. /\ c \in Seq(Unit) /\ Len(c) = Len(b) + 1 /\ c[Len(b) + 1] = h
        /\ \A j \in 1..Len(b) : c[j] = b[j]
    BY <1>1
  <2>2. CASE i = Len(b) + 1
    <3>1. Len(b) + 1 \in 1..Len(c) /\ 1 \in 1..Len(f)
      BY <1>1, <1>2, <2>a
    <3>2. x[i] = c[i]
      <4> HIDE DEF c
      <4> QED BY <1>1, <2>2, <2>a, <3>1, JoinAt
    <3>3. y[i] = f[1]
      BY <1>1, <2>2, <3>1, JoinAt
    <3> QED BY <1>1, <2>2, <2>a, <3>2, <3>3
  <2>3. CASE i > Len(b) + 1
    <3> DEFINE k == i - Len(b) - 1
    <3>1. k \in 1..Len(t) /\ i = (Len(b) + 1) + k /\ i = Len(b) + (k + 1) /\ k + 1 \in 1..Len(f)
      BY <1>1, <1>2, <2>3
    <3>2. x[i] = t[k]
      <4> HIDE DEF c, k
      <4> QED BY <1>1, <2>a, <3>1, JoinAt DEF c
    <3>3. y[i] = f[k + 1]
      <4> HIDE DEF k
      <4> QED BY <3>1, JoinAt
    <3> QED BY <1>1, <3>1, <3>2, <3>3
  <2> QED BY <1>2, <2>1, <2>2, <2>3
<1> HIDE DEF x, y
<1>4. x = y
  BY <1>2, <1>3
<1> QED BY <1>4 DEF x, y, h, t

(* A frame begins, or noise passes for one, behind a stream that is closed.*)
LEMMA FramedStart ==
  ASSUME NEW n \in Nat, NEW s \in Seq(Unit), Framed(s, n), EndsClosed(s),
         NEW u \in Unit, u.frame = n + 1, u.part # "body"
  PROVE  Framed(Append(s, u), n + 1)
<1> DEFINE t == Append(s, u)
<1>1. /\ t \in Seq(Unit) /\ Len(s) \in Nat /\ Len(t) = Len(s) + 1 /\ t[Len(t)] = u
      /\ DOMAIN t = 1..Len(t) /\ DOMAIN s = 1..Len(s)
      /\ \A i \in 1..Len(s) : t[i] = s[i]
  OBVIOUS
<1>2. \A i \in 1..Len(s) : s[i].frame \in 1..n
  BY <1>1 DEF Framed
<1>3. Len(s) > 0 => ~IsHead(t[Len(s)])
  <2> SUFFICES ASSUME Len(s) > 0 PROVE ~IsHead(t[Len(s)])
    OBVIOUS
  <2>1. s # <<>> /\ Len(s) \in 1..Len(s)
    BY <1>1
  <2>2. t[Len(s)] = s[Len(s)]
    BY <1>1, <2>1
  <2> HIDE DEF t
  <2> QED BY <2>1, <2>2 DEF EndsClosed
<1> HIDE DEF t
<1>4. \A i \in DOMAIN t : t[i].frame \in 1..(n + 1)
  BY <1>1, <1>2
<1>5. \A i \in DOMAIN t : t[i].part = "body" => i > 1 /\ IsHead(t[i - 1])
  <2> SUFFICES ASSUME NEW i \in DOMAIN t, t[i].part = "body" PROVE i > 1 /\ IsHead(t[i - 1])
    OBVIOUS
  <2>1. i \in 1..Len(s) /\ s[i].part = "body"
    BY <1>1
  <2>2. i > 1 /\ IsHead(s[i - 1])
    BY <1>1, <2>1 DEF Framed
  <2> QED BY <1>1, <2>1, <2>2
<1>6. \A i \in 1..(Len(t) - 1) : IsHead(t[i]) => t[i + 1] = BodyOf(t[i])
  <2> SUFFICES ASSUME NEW i \in 1..Len(s), IsHead(t[i]) PROVE t[i + 1] = BodyOf(t[i])
    BY <1>1
  <2>a. Len(s) \in Nat /\ i # Len(s)
    <3>1. Len(s) \in Nat /\ Len(s) > 0
      OBVIOUS
    <3>2. ~IsHead(t[Len(s)])
      BY <1>3, <3>1
    <3> QED BY <3>1, <3>2
  <2>1. i \in 1..(Len(s) - 1) /\ i + 1 \in 1..Len(s)
    BY <2>a
  <2> QED BY <1>1, <2>1 DEF Framed
<1>7. \A i, j \in DOMAIN t : i < j => t[i].frame < t[j].frame \/ (j = i + 1 /\ IsHead(t[i]))
  <2> SUFFICES ASSUME NEW i \in DOMAIN t, NEW j \in DOMAIN t, i < j
               PROVE  t[i].frame < t[j].frame \/ (j = i + 1 /\ IsHead(t[i]))
    OBVIOUS
  <2>1. CASE j = Len(t)
    BY <1>1, <1>2, <2>1
  <2>2. CASE j # Len(t)
    <3>1. i \in 1..Len(s) /\ j \in 1..Len(s)
      BY <1>1, <2>2
    <3> QED BY <1>1, <3>1 DEF Framed
  <2> QED BY <2>1, <2>2
<1>8. Framed(t, n + 1)
  BY <1>4, <1>5, <1>6, <1>7 DEF Framed
<1> QED BY <1>8 DEF t

(* The frame under reception ends.                                         *)
LEMMA FramedEnd ==
  ASSUME NEW n \in Nat, NEW s \in Seq(Unit), Framed(s, n), EndsInHead(s, n),
         NEW u \in Unit, u = [frame |-> n, part |-> "body"]
  PROVE  Framed(Append(s, u), n)
<1> DEFINE t == Append(s, u)
<1>1. /\ t \in Seq(Unit) /\ Len(s) \in Nat /\ Len(t) = Len(s) + 1 /\ t[Len(t)] = u
      /\ DOMAIN t = 1..Len(t) /\ DOMAIN s = 1..Len(s)
      /\ \A i \in 1..Len(s) : t[i] = s[i]
  OBVIOUS
<1>2. \A i \in 1..Len(s) : s[i].frame \in 1..n
  BY <1>1 DEF Framed
<1>3. Len(s) > 0 /\ IsHead(t[Len(s)]) /\ t[Len(s)].frame = n /\ u = BodyOf(t[Len(s)])
      /\ u.frame = n /\ u.part = "body" /\ n \in 1..n
  <2>1. Len(s) > 0
    BY <1>1 DEF EndsInHead
  <2>2. Len(s) \in 1..Len(s) /\ IsHead(s[Len(s)]) /\ s[Len(s)].frame = n
    BY <1>1, <2>1 DEF EndsInHead
  <2>3. t[Len(s)] = s[Len(s)]
    BY <1>1, <2>2
  <2>4. n \in 1..n
    BY <1>2, <2>2
  <2>5. u.frame = n /\ u.part = "body"
    OBVIOUS
  <2> HIDE DEF t
  <2>6. u = BodyOf(t[Len(s)])
    BY <2>2, <2>3 DEF BodyOf
  <2> QED BY <2>1, <2>2, <2>3, <2>4, <2>5, <2>6
<1> HIDE DEF t
<1>4. \A i \in DOMAIN t : t[i].frame \in 1..n
  BY <1>1, <1>2, <1>3
<1>5. \A i \in DOMAIN t : t[i].part = "body" => i > 1 /\ IsHead(t[i - 1])
  <2> SUFFICES ASSUME NEW i \in DOMAIN t, t[i].part = "body" PROVE i > 1 /\ IsHead(t[i - 1])
    OBVIOUS
  <2>1. CASE i = Len(t)
    BY <1>1, <1>3, <2>1
  <2>2. CASE i # Len(t)
    <3>1. i \in 1..Len(s) /\ s[i].part = "body"
      BY <1>1, <2>2
    <3>2. i > 1 /\ IsHead(s[i - 1])
      BY <1>1, <3>1 DEF Framed
    <3> QED BY <1>1, <3>1, <3>2
  <2> QED BY <2>1, <2>2
<1>6. \A i \in 1..(Len(t) - 1) : IsHead(t[i]) => t[i + 1] = BodyOf(t[i])
  <2> SUFFICES ASSUME NEW i \in 1..Len(s), IsHead(t[i]) PROVE t[i + 1] = BodyOf(t[i])
    BY <1>1
  <2>1. CASE i = Len(s)
    BY <1>1, <1>3, <2>1
  <2>2. CASE i # Len(s)
    <3>a. Len(s) \in Nat
      OBVIOUS
    <3>1. i \in 1..(Len(s) - 1) /\ i + 1 \in 1..Len(s)
      BY <2>2, <3>a
    <3> QED BY <1>1, <3>1 DEF Framed
  <2> QED BY <2>1, <2>2
<1>7. \A i, j \in DOMAIN t : i < j => t[i].frame < t[j].frame \/ (j = i + 1 /\ IsHead(t[i]))
  <2> SUFFICES ASSUME NEW i \in DOMAIN t, NEW j \in DOMAIN t, i < j
               PROVE  t[i].frame < t[j].frame \/ (j = i + 1 /\ IsHead(t[i]))
    OBVIOUS
  <2>1. CASE j # Len(t)
    <3>1. i \in 1..Len(s) /\ j \in 1..Len(s)
      BY <1>1, <2>1
    <3> QED BY <1>1, <3>1 DEF Framed
  <2>2. CASE j = Len(t) /\ i = Len(s)
    BY <1>1, <1>3, <2>2
  <2>3. CASE j = Len(t) /\ i # Len(s)
    <3>1. i \in 1..Len(s) /\ i < Len(s) /\ Len(s) \in 1..Len(s)
      BY <1>1, <2>3
    <3>2. s[i].frame < s[Len(s)].frame \/ (Len(s) = i + 1 /\ IsHead(s[i]))
      BY <1>1, <3>1 DEF Framed
    <3>3. ~(Len(s) = i + 1 /\ IsHead(s[i]))
      <4> SUFFICES ASSUME Len(s) = i + 1, IsHead(s[i]) PROVE FALSE
        OBVIOUS
      <4>1. i \in 1..(Len(s) - 1) /\ s[i + 1] = BodyOf(s[i])
        BY <3>1 DEF Framed
      <4> QED BY <1>1, <1>3, <3>1, <4>1 DEF IsHead, BodyOf
    <3> QED BY <1>1, <1>3, <2>3, <3>1, <3>2, <3>3
  <2> QED BY <2>1, <2>2, <2>3
<1>8. Framed(t, n)
  BY <1>4, <1>5, <1>6, <1>7 DEF Framed
<1> QED BY <1>8 DEF t

LEMMA DirtyFrame == ~Clean' => FrameInv'
BY DEF FrameInv, StageInv, StreamInv, DeliveredInv, AccountInv

(* What the invariant says of a clean run.                                 *)
LEMMA CleanFrame ==
  ASSUME TypeInv, FrameInv, Clean
  PROVE  /\ ~chip.overrun /\ ~overran
         /\ tpc \in {"poll", "collect", "take", "standby"} => chip.mode = "Rx"
         /\ tpc \in {"discard", "rx"} => chip.mode = "Standby"
         /\ tpc \notin {"overrun_standby", "overrun_rx"}
         /\ tpc = "take" \/ (tpc = "collect" /\ buf = <<>>) => chip.fifo # <<>>
         /\ buf # <<>> /\ buf[1].part # "head" => tpc = "standby" /\ Len(buf) = 1
         /\ chip.mode = "Rx" =>
              /\ Framed(Stream, air)
              /\ IF chip.sync THEN EndsInHead(Stream, air) ELSE EndsClosed(Stream)
              /\ \A i \in DOMAIN delivered, j \in DOMAIN Stream :
                   delivered[i][1].frame < Stream[j].frame
         /\ \A n \in whole : HandedOn(n) \/ n \in wiped \/ OnItsWay(n)
BY DEF FrameInv, StageInv, StreamInv, AccountInv

(* Steps that neither touch the stream nor the places the invariant names. *)
LEMMA SameFrame ==
  ASSUME FrameInv, UNCHANGED <<chip, tpc, buf, overran, faults, air, whole, wiped, delivered,
                               disturbed>>
  PROVE  FrameInv'
<1>1. Stream' = Stream
  BY DEF Stream
<1>2. StageInv' /\ DeliveredInv'
  BY DEF FrameInv, StageInv, DeliveredInv, Clean
<1>3. StreamInv'
  BY <1>1 DEF FrameInv, StreamInv, Clean
<1>4. AccountInv'
  <2>1. \A n : HandedOn(n)' = HandedOn(n) /\ OnItsWay(n)' = OnItsWay(n)
    BY <1>1 DEF HandedOn, OnItsWay
  <2> QED BY <2>1 DEF FrameInv, AccountInv, Clean
<1> QED BY <1>2, <1>3, <1>4 DEF FrameInv

LEMMA StartFrame ==
  ASSUME TypeInv, FrameInv, Clean, Clean', NEW part \in {"head", "junk"}, FrameStarts(part),
         UNCHANGED <<tpc, buf, overran>>
  PROVE  FrameInv'
<1> DEFINE u == [frame |-> air + 1, part |-> part]
           s == part = "head" /\ Fits
<1>1. air \in Nat /\ u \in Unit /\ s \in BOOLEAN /\ u.frame = air + 1 /\ u.part = part
  BY FrameBounds DEF FrameStarts, Unit, TypeInv, TypeOK, Rfm69TypeOK
<1>2. Receive(u, s) /\ air' = air + 1 /\ ~chip.sync /\ UNCHANGED <<whole, wiped, delivered>>
  BY DEF FrameStarts
<1> HIDE DEF u
<1>3. s <=> part = "head"
  BY <1>1, <1>2, ReceiveTypes DEF Clean
<1> HIDE DEF s
<1>4. /\ chip.mode = "Rx" /\ chip'.mode = "Rx" /\ chip'.overrun = chip.overrun
      /\ chip'.fifo = Append(chip.fifo, u) /\ (chip'.sync <=> part = "head")
  BY <1>1, <1>2, <1>3, ReceiveTypes DEF Clean
<1>5. Stream' = Append(Stream, u) /\ Stream \in Seq(Unit)
  <2>1. Stream' = buf \o Append(chip.fifo, u)
    BY <1>4 DEF Stream
  <2> QED BY <1>1, <2>1, StreamParts, JoinPush DEF Stream
<1>6. /\ Framed(Stream, air) /\ EndsClosed(Stream)
      /\ \A i \in DOMAIN delivered, j \in DOMAIN Stream : delivered[i][1].frame < Stream[j].frame
  BY <1>2, <1>4, CleanFrame
<1> DEFINE t == Append(Stream, u)
<1>7. /\ Len(Stream) \in Nat /\ Len(t) = Len(Stream) + 1 /\ t[Len(t)] = u /\ t # <<>>
      /\ DOMAIN t = 1..Len(t) /\ DOMAIN Stream = 1..Len(Stream)
      /\ \A i \in DOMAIN Stream : i \in DOMAIN t /\ t[i] = Stream[i]
  <2>1. /\ Len(Stream) \in Nat /\ Len(t) = Len(Stream) + 1 /\ t[Len(t)] = u
        /\ DOMAIN t = 1..Len(t) /\ DOMAIN Stream = 1..Len(Stream)
        /\ \A i \in DOMAIN Stream : i \in DOMAIN t /\ t[i] = Stream[i]
    BY <1>1, <1>5
  <2> HIDE DEF t
  <2>2. Len(t) # 0 /\ Len(<<>>) = 0
    BY <2>1
  <2>3. t # <<>>
    BY <2>2
  <2> QED BY <2>1, <2>3
<1>8. Framed(t, air + 1)
  BY <1>1, <1>5, <1>6, FramedStart
<1> HIDE DEF t
<1>9. Stream' = t
  BY <1>5 DEF t
<1>10. DeliveredInv'
  BY <1>1, <1>2 DEF FrameInv, DeliveredInv
<1>11. StreamInv'
  <2>1. \A i \in DOMAIN delivered : delivered[i][1].frame \in 1..air
    BY DEF FrameInv, DeliveredInv
  <2>2. \A i \in DOMAIN delivered, j \in DOMAIN t : delivered[i][1].frame < t[j].frame
    BY <1>1, <1>6, <1>7, <2>1
  <2>3. IF chip'.sync THEN EndsInHead(t, air + 1) ELSE EndsClosed(t)
    BY <1>1, <1>4, <1>7 DEF EndsInHead, EndsClosed, IsHead
  <2> QED BY <1>2, <1>8, <1>9, <2>2, <2>3 DEF StreamInv
<1>12. AccountInv'
  <2>1. \A n : OnItsWay(n) => OnItsWay(n)'
    BY <1>4, <1>7, <1>9 DEF OnItsWay
  <2> QED BY <1>2, <2>1, CleanFrame DEF AccountInv, HandedOn
<1>13. StageInv'
  <2>1. chip'.fifo # <<>>
    <3>1. chip.fifo \in Seq(Unit)
      BY StreamParts
    <3>2. Len(chip'.fifo) = Len(chip.fifo) + 1 /\ Len(chip.fifo) \in Nat /\ Len(<<>>) = 0
      BY <1>1, <1>4, <3>1
    <3> QED BY <3>2
  <2> QED BY <1>4, <2>1, CleanFrame DEF StageInv
<1> QED BY <1>10, <1>11, <1>12, <1>13 DEF FrameInv

LEMMA EndFrame ==
  ASSUME TypeInv, FrameInv, Clean, Clean', FrameEnds, UNCHANGED <<tpc, buf, overran>>
  PROVE  FrameInv'
<1> DEFINE u == [frame |-> air, part |-> "body"]
<1>1. air \in Nat /\ air >= 1 /\ u \in Unit /\ u.frame = air /\ u.part = "body"
  BY FrameBounds DEF FrameEnds, Unit, TypeInv, TypeOK, Rfm69TypeOK
<1>2. /\ Receive(u, FALSE) /\ chip.sync /\ UNCHANGED <<air, wiped, delivered>>
      /\ whole' = whole \/ whole' = whole \cup {air}
  BY DEF FrameEnds
<1>a. u = [frame |-> air, part |-> "body"]
  OBVIOUS
<1> HIDE DEF u
<1>4. /\ chip.mode = "Rx" /\ chip'.mode = "Rx" /\ chip'.overrun = chip.overrun
      /\ chip'.fifo = Append(chip.fifo, u) /\ ~chip'.sync
  BY <1>1, <1>2, ReceiveTypes DEF Clean
<1>5. Stream' = Append(Stream, u) /\ Stream \in Seq(Unit)
  <2>1. Stream' = buf \o Append(chip.fifo, u)
    BY <1>4 DEF Stream
  <2> QED BY <1>1, <2>1, StreamParts, JoinPush DEF Stream
<1>6. /\ Framed(Stream, air) /\ EndsInHead(Stream, air)
      /\ \A i \in DOMAIN delivered, j \in DOMAIN Stream : delivered[i][1].frame < Stream[j].frame
  BY <1>2, <1>4, CleanFrame
<1> DEFINE t == Append(Stream, u)
<1>7. /\ Len(Stream) \in Nat /\ Len(t) = Len(Stream) + 1 /\ t[Len(t)] = u
      /\ DOMAIN t = 1..Len(t) /\ DOMAIN Stream = 1..Len(Stream)
      /\ \A i \in DOMAIN Stream : i \in DOMAIN t /\ t[i] = Stream[i]
  BY <1>1, <1>5
<1>8. Framed(t, air)
  BY <1>a, <1>1, <1>5, <1>6, FramedEnd
<1> HIDE DEF t
<1>9. Stream' = t
  BY <1>5 DEF t
<1>10. DeliveredInv'
  BY <1>2 DEF FrameInv, DeliveredInv
<1>11. StreamInv'
  <2>1. Len(Stream) \in DOMAIN Stream /\ Stream[Len(Stream)].frame = air
    BY <1>6, <1>7, <1>5 DEF EndsInHead
  <2>2. \A i \in DOMAIN delivered, j \in DOMAIN t : delivered[i][1].frame < t[j].frame
    BY <1>1, <1>6, <1>7, <2>1
  <2>3. EndsClosed(t)
    BY <1>1, <1>7 DEF EndsClosed, IsHead
  <2> QED BY <1>2, <1>4, <1>8, <1>9, <2>2, <2>3 DEF StreamInv
<1>12. AccountInv'
  <2>1. \A n : OnItsWay(n) => OnItsWay(n)'
    BY <1>4, <1>7, <1>9 DEF OnItsWay
  <2>2. \A n : n = air => OnItsWay(n)'
    <3>1. Len(t) \in DOMAIN t
      BY <1>7
    <3> QED BY <1>1, <1>7, <1>9, <3>1 DEF OnItsWay
  <2>3. \A n \in whole' : n \in whole \/ n = air
    BY <1>2
  <2> QED BY <1>2, <2>1, <2>2, <2>3, CleanFrame DEF AccountInv, HandedOn
<1>13. StageInv'
  <2>1. chip'.fifo # <<>>
    <3>1. chip.fifo \in Seq(Unit)
      BY StreamParts
    <3>2. Len(chip'.fifo) = Len(chip.fifo) + 1 /\ Len(chip.fifo) \in Nat /\ Len(<<>>) = 0
      BY <1>1, <1>4, <3>1
    <3> QED BY <3>2
  <2> QED BY <1>4, <2>1, CleanFrame DEF StageInv
<1> QED BY <1>10, <1>11, <1>12, <1>13 DEF FrameInv

LEMMA AirFrame == TypeInv /\ FrameInv /\ Clean /\ Clean' /\ Air => FrameInv'
<1> SUFFICES ASSUME TypeInv, FrameInv, Clean, Clean', Air PROVE FrameInv'
  OBVIOUS
<1>1. UNCHANGED <<tpc, buf, overran>>
  BY DEF Air, task
<1>2. ~Fade
  BY DEF Fade, Clean
<1> QED BY <1>1, <1>2, StartFrame, EndFrame DEF Air

-----------------------------------------------------------------------------
(* The task's steps, on a clean run.                                       *)

LEMMA WatchFrame ==
  ASSUME TypeInv, FrameInv, Clean, Clean', PollFlags \/ Collect \/ TaskEnds, UNCHANGED Owner
  PROVE  FrameInv'
<1>1. UNCHANGED <<chip, buf, faults, air, whole, wiped, delivered, disturbed>>
  BY DEF PollFlags, Collect, TaskEnds, Quiet, Owner
<1>2. Stream' = Stream
  BY <1>1 DEF Stream
<1>3. StreamInv' /\ DeliveredInv'
  BY <1>1, <1>2 DEF FrameInv, StreamInv, DeliveredInv, Clean
<1>4. AccountInv'
  <2>1. \A n : HandedOn(n)' = HandedOn(n) /\ OnItsWay(n)' = OnItsWay(n)
    BY <1>1, <1>2 DEF HandedOn, OnItsWay
  <2> QED BY <1>1, <2>1 DEF FrameInv, AccountInv, Clean
<1>5. StageInv'
  <2>1. CASE PollFlags
    <3>1. buf = <<>>
      BY <2>1 DEF PollFlags, TypeInv
    <3>2. tpc = "poll" /\ tpc' = "collect" /\ chip.fifo # <<>> /\ overran' = chip.overrun
      BY <2>1, CleanFrame DEF PollFlags
    <3> QED BY <1>1, <3>1, <3>2, CleanFrame DEF StageInv
  <2>2. CASE Collect
    <3>1. /\ tpc = "collect" /\ overran' = overran
          /\ \/ chip.fifo # <<>> /\ tpc' = "take"
             \/ chip.fifo = <<>> /\ tpc' = "standby" /\ buf # <<>>
      BY <2>2, CleanFrame DEF Collect
    <3> QED BY <1>1, <3>1, CleanFrame DEF StageInv
  <2>3. CASE TaskEnds
    <3>1. buf = <<>> /\ tpc' = "ended" /\ overran' = overran
      BY <2>3 DEF TaskEnds, TypeInv
    <3> QED BY <1>1, <3>1, CleanFrame DEF StageInv
  <2> QED BY <2>1, <2>2, <2>3
<1> QED BY <1>3, <1>4, <1>5 DEF FrameInv

LEMMA TakeFrame ==
  ASSUME TypeInv, FrameInv, Clean, Clean', Take, UNCHANGED Owner
  PROVE  FrameInv'
<1> DEFINE u == Head(chip.fifo)
<1>1. /\ tpc = "take" /\ chip.fifo # <<>> /\ chip.mode = "Rx"
      /\ UNCHANGED <<overran, faults, air, whole, wiped, delivered, disturbed>>
  BY CleanFrame DEF Take, Quiet, Owner
<1>2. /\ chip' = [chip EXCEPT !.fifo = Tail(@)] /\ buf' = Append(buf, u)
      /\ \/ buf # <<>> /\ tpc' = "standby"
         \/ buf = <<>> /\ \E valid \in IsHeader(u) : tpc' = IF valid THEN "collect" ELSE "standby"
  BY <1>1 DEF Take
<1>3. /\ chip'.fifo = Tail(chip.fifo) /\ chip'.mode = chip.mode /\ chip'.sync = chip.sync
      /\ chip'.overrun = chip.overrun
  BY <1>1, <1>2, FrontTaken DEF TypeInv
<1>4. /\ buf \in Seq(Unit) /\ chip.fifo \in Seq(Unit) /\ u \in Unit /\ Len(buf) <= 1
      /\ Len(buf) \in Nat /\ (buf = <<>> <=> Len(buf) = 0)
  BY <1>1, StreamParts, FrontOfFifo DEF TypeInv
<1>5. Stream' = Stream
  BY <1>1, <1>2, <1>3, <1>4, JoinTake DEF Stream
<1>6. u.part \in {"head", "junk"} \/ buf # <<>>
  <2> SUFFICES ASSUME buf = <<>>, u.part = "body" PROVE FALSE
    BY <1>4 DEF Unit
  <2>1. Stream = chip.fifo /\ 1 \in DOMAIN Stream /\ Stream[1] = u
    BY <1>1, <1>4, StreamParts
  <2>2. Framed(Stream, air)
    BY <1>1, CleanFrame
  <2> HIDE DEF u
  <2> QED BY <2>1, <2>2 DEF Framed
<1> HIDE DEF u
<1>7. /\ buf' # <<>> /\ Len(buf') = Len(buf) + 1
      /\ IF buf = <<>> THEN buf'[1] = u ELSE buf'[1] = buf[1]
  <2>1. Len(buf') = Len(buf) + 1
    BY <1>2, <1>4
  <2>2. buf' # <<>>
    BY <1>4, <2>1
  <2> QED BY <1>2, <1>4, <2>1, <2>2
<1>8. StageInv'
  <2>1. CASE buf # <<>>
    <3>1. buf[1].part = "head" /\ tpc' = "standby"
      BY <1>1, <1>2, <2>1, CleanFrame
    <3> QED BY <1>1, <1>3, <1>7, <2>1, <3>1, CleanFrame DEF StageInv
  <2>2. CASE buf = <<>> /\ u.part = "head"
    <3>1. tpc' = "collect"
      BY <1>2, <2>2 DEF IsHeader
    <3> QED BY <1>1, <1>3, <1>7, <2>2, <3>1, CleanFrame DEF StageInv
  <2>3. CASE buf = <<>> /\ u.part = "junk"
    <3>a. IsHeader(u) = {FALSE}
      BY <2>3 DEF IsHeader
    <3>b. tpc' = "standby"
      BY <1>2, <2>3, <3>a
    <3>c. Len(buf') = 1
      BY <1>4, <1>7, <2>3
    <3>1. tpc' = "standby" /\ Len(buf') = 1
      BY <3>b, <3>c
    <3> QED BY <1>1, <1>3, <1>7, <2>3, <3>1, CleanFrame DEF StageInv
  <2> QED BY <1>6, <2>1, <2>2, <2>3
<1>9. StreamInv' /\ DeliveredInv'
  BY <1>1, <1>3, <1>5 DEF FrameInv, StreamInv, DeliveredInv, Clean
<1>10. AccountInv'
  <2>1. \A n : HandedOn(n)' = HandedOn(n) /\ OnItsWay(n)' = OnItsWay(n)
    BY <1>1, <1>3, <1>5 DEF HandedOn, OnItsWay
  <2> QED BY <1>1, <2>1 DEF FrameInv, AccountInv, Clean
<1> QED BY <1>8, <1>9, <1>10 DEF FrameInv

(* A complete burst is a head and its body.                                *)
LEMMA BurstWhole ==
  ASSUME TypeInv, FrameInv, Clean, tpc = "standby", Complete
  PROVE  LET p == SubSeq(buf, 1, 2) IN
         /\ p \in Seq(Unit) /\ Len(p) = 2 /\ p[1] = Stream[1] /\ p[2] = Stream[2]
         /\ Len(buf) = 2 /\ Len(Stream) >= 2
         /\ IsHead(p[1]) /\ p[2] = BodyOf(p[1]) /\ p[1].frame \in 1..air
<1> DEFINE p == SubSeq(buf, 1, 2)
<1>1. Len(buf) = 2 /\ buf \in Seq(Unit)
  <2>1. buf \in Seq(Unit) /\ Len(buf) <= 2 /\ Len(buf) >= 2
    BY DEF Complete, TypeInv, TypeOK, Rfm69TypeOK
  <2>2. Len(buf) \in Nat
    BY <2>1
  <2>3. \A k \in Nat : k <= 2 /\ k >= 2 => k = 2
    OBVIOUS
  <2> QED BY <2>1, <2>2, <2>3
<1>2. p \in Seq(Unit) /\ Len(p) = 2 /\ p[1] = buf[1] /\ p[2] = buf[2] /\ buf # <<>>
  <2>1. p \in Seq(Unit) /\ Len(p) = 2
    BY <1>1
  <2>2. p[1] = buf[1] /\ p[2] = buf[2]
    BY <1>1
  <2>3. buf # <<>>
    BY <1>1
  <2> QED BY <2>1, <2>2, <2>3
<1> HIDE DEF p
<1>3. Stream[1] = buf[1] /\ Stream[2] = buf[2] /\ Len(Stream) \in Nat /\ Len(Stream) >= 2
      /\ DOMAIN Stream = 1..Len(Stream)
  BY <1>1, StreamParts
<1>4. Framed(Stream, air) /\ IsHead(buf[1])
  BY <1>1, <1>2, CleanFrame DEF IsHead
<1>5. Stream[2] = BodyOf(Stream[1]) /\ Stream[1].frame \in 1..air
  <2>1. 1 \in 1..(Len(Stream) - 1) /\ 1 \in DOMAIN Stream
    BY <1>3
  <2> QED BY <1>3, <1>4, <2>1 DEF Framed
<1> QED BY <1>1, <1>2, <1>3, <1>4, <1>5 DEF p

LEMMA BurstFrame ==
  ASSUME TypeInv, FrameInv, Clean, Clean', BurstStandby, UNCHANGED Owner
  PROVE  FrameInv'
<1>1. /\ tpc = "standby" /\ chip.mode = "Rx" /\ WriteMode("Standby") /\ buf' = <<>>
      /\ UNCHANGED <<overran, faults, air, whole, wiped, disturbed>>
  BY CleanFrame DEF BurstStandby, Owner
<1>2. chip'.mode = "Standby" /\ chip'.fifo = chip.fifo /\ chip'.overrun = chip.overrun
  BY <1>1, WriteModeTypes DEF Resets, Mode, TypeInv
<1>3. /\ tpc' \in {"rx", "discard"}
      /\ IF Complete THEN delivered' = Append(delivered, SubSeq(buf, 1, 2)) ELSE delivered' = delivered
  BY DEF BurstStandby
<1>4. StageInv' /\ StreamInv'
  BY <1>1, <1>2, <1>3, CleanFrame DEF StageInv, StreamInv
<1>5. Stream' = chip.fifo
  <2>1. <<>> \o chip.fifo = chip.fifo
    BY StreamParts
  <2> QED BY <1>1, <1>2, <2>1 DEF Stream
<1>6. /\ Framed(Stream, air) /\ DOMAIN Stream = 1..Len(Stream)
      /\ \A i \in DOMAIN delivered, j \in DOMAIN Stream : delivered[i][1].frame < Stream[j].frame
  BY <1>1, CleanFrame, StreamParts
(* What was behind the burst in the stream is still in the FIFO.            *)
<1>7. ASSUME NEW i \in DOMAIN Stream, i > Len(buf)
      PROVE  i - Len(buf) \in DOMAIN Stream' /\ Stream'[i - Len(buf)] = Stream[i]
  <2> DEFINE k == i - Len(buf)
  <2>a. DOMAIN Stream' = 1..Len(chip.fifo)
    <3>1. DOMAIN chip.fifo = 1..Len(chip.fifo)
      BY StreamParts
    <3> QED BY <1>5, <3>1
  <2>b. i \in 1..(Len(buf) + Len(chip.fifo)) /\ Len(buf) \in Nat /\ Len(chip.fifo) \in Nat
    BY <1>6, StreamParts
  <2>1. k \in 1..Len(chip.fifo) /\ Len(buf) + k = i /\ DOMAIN Stream' = 1..Len(chip.fifo)
    BY <1>7, <2>a, <2>b
  <2>2. Stream[Len(buf) + k] = chip.fifo[k]
    <3> HIDE DEF k
    <3> QED BY <2>1, StreamParts
  <2> QED BY <1>5, <2>1, <2>2
<1>8. CASE Complete
  <2> DEFINE p == SubSeq(buf, 1, 2)
             d == Append(delivered, p)
  <2>1. /\ p \in Seq(Unit) /\ Len(p) = 2 /\ p[1] = Stream[1] /\ p[2] = Stream[2]
        /\ Len(buf) = 2 /\ Len(Stream) >= 2
        /\ IsHead(p[1]) /\ p[2] = BodyOf(p[1]) /\ p[1].frame \in 1..air
    BY <1>1, <1>8, BurstWhole
  <2>2. delivered' = d /\ delivered \in Seq(Seq(Unit))
    BY <1>3, <1>8 DEF TypeInv, TypeOK, Rfm69TypeOK
  <2> HIDE DEF p
  <2>3. /\ Len(delivered) \in Nat /\ Len(d) = Len(delivered) + 1 /\ d[Len(d)] = p
        /\ DOMAIN d = 1..Len(d) /\ DOMAIN delivered = 1..Len(delivered)
        /\ \A i \in DOMAIN delivered : i \in DOMAIN d /\ d[i] = delivered[i]
    BY <2>1, <2>2
  <2> HIDE DEF d
  <2>4. DeliveredInv'
    <3>a. Len(Stream) \in Nat
      BY StreamParts
    <3>1. 1 \in DOMAIN Stream
      BY <1>6, <2>1, <3>a
    <3>2. \A i \in DOMAIN delivered : delivered[i][1].frame < p[1].frame
      BY <1>6, <2>1, <3>1
    <3>3. \A i \in DOMAIN d : i \in DOMAIN delivered \/ (i = Len(d) /\ d[i] = p)
      BY <2>3
    <3>4. \A i, j \in DOMAIN d : i < j => d[i][1].frame < d[j][1].frame
      <4> SUFFICES ASSUME NEW i \in DOMAIN d, NEW j \in DOMAIN d, i < j
                   PROVE  d[i][1].frame < d[j][1].frame
        OBVIOUS
      <4>1. i \in DOMAIN delivered
        BY <2>3
      <4>2. CASE j \in DOMAIN delivered
        BY <2>3, <4>1, <4>2 DEF FrameInv, DeliveredInv
      <4>3. CASE d[j] = p
        BY <2>3, <3>2, <4>1, <4>3
      <4> QED BY <3>3, <4>2, <4>3
    <3>5. \A i \in DOMAIN d : Len(d[i]) = 2 /\ d[i][1].frame \in 1..air
                              /\ IsHead(d[i][1]) /\ d[i][2] = BodyOf(d[i][1])
      BY <2>1, <2>3, <3>3 DEF FrameInv, DeliveredInv
    <3> QED BY <1>1, <2>2, <3>4, <3>5 DEF DeliveredInv
  <2>5. AccountInv'
    <3> SUFFICES ASSUME NEW n \in whole, n \notin wiped PROVE HandedOn(n)' \/ OnItsWay(n)'
      BY <1>1 DEF AccountInv
    <3>1. CASE HandedOn(n)
      BY <2>2, <2>3, <3>1 DEF HandedOn
    <3>2. ASSUME NEW i \in DOMAIN Stream, Stream[i].frame = n PROVE HandedOn(n)' \/ OnItsWay(n)'
      <4>1. CASE i > Len(buf)
        BY <1>2, <1>7, <3>2, <4>1 DEF OnItsWay
      <4>2. CASE ~(i > Len(buf))
        <5>a. Len(Stream) \in Nat
          BY StreamParts
        <5>1. i = 1 \/ i = 2
          BY <1>6, <2>1, <4>2, <5>a
        <5>b. p[2].frame = p[1].frame
          BY <2>1 DEF BodyOf
        <5>2. p[1].frame = n
          BY <2>1, <3>2, <5>1, <5>b
        <5>3. Len(d) \in DOMAIN d /\ d[Len(d)][1].frame = n
          BY <2>3, <5>2
        <5> QED BY <2>2, <5>3 DEF HandedOn
      <4> QED BY <4>1, <4>2
    <3> QED BY <3>1, <3>2, CleanFrame DEF OnItsWay
  <2> QED BY <1>4, <2>4, <2>5 DEF FrameInv
<1>9. CASE ~Complete
  <2>1. Len(buf) \in Nat /\ Len(buf) <= 1 /\ delivered' = delivered
    BY <1>3, <1>9, StreamParts DEF Complete
  <2>2. DeliveredInv'
    BY <1>1, <2>1 DEF FrameInv, DeliveredInv, Clean
  <2>3. AccountInv'
    <3> SUFFICES ASSUME NEW n \in whole, n \notin wiped PROVE HandedOn(n)' \/ OnItsWay(n)'
      BY <1>1 DEF AccountInv
    <3>1. CASE HandedOn(n)
      BY <2>1, <3>1 DEF HandedOn
    <3>2. CASE OnItsWay(n)
      <4>1. PICK i \in DOMAIN Stream : Stream[i].frame = n /\ Stream[i].part = "body"
        BY <1>1, <3>2 DEF OnItsWay
      <4>2. i > 1 /\ i > Len(buf)
        BY <1>6, <2>1, <4>1 DEF Framed
      <4> QED BY <1>2, <1>7, <4>1, <4>2 DEF OnItsWay
    <3> QED BY <3>1, <3>2, CleanFrame
  <2> QED BY <1>4, <2>2, <2>3 DEF FrameInv
<1> QED BY <1>8, <1>9

(* An incomplete burst is read off: the frames it may hold are wiped.      *)
LEMMA DiscardFrame ==
  ASSUME TypeInv, FrameInv, Clean, Clean', Discard, UNCHANGED Owner
  PROVE  FrameInv'
<1>1. /\ tpc = "discard" /\ chip.mode = "Standby" /\ buf = <<>> /\ buf' = <<>>
      /\ UNCHANGED <<overran, faults, air, whole, delivered, disturbed>>
  BY CleanFrame DEF Discard, Owner, TypeInv
<1>2. DeliveredInv'
  BY <1>1 DEF FrameInv, DeliveredInv
<1>3. CASE chip.fifo = <<>>
  <2>1. chip' = chip /\ tpc' = "rx" /\ wiped' = wiped
    BY <1>3 DEF Discard
  <2>2. StageInv' /\ StreamInv'
    BY <1>1, <2>1, CleanFrame DEF StageInv, StreamInv
  <2>3. Stream' = Stream
    BY <1>1, <2>1 DEF Stream
  <2>4. AccountInv'
    <3>1. \A n : HandedOn(n)' = HandedOn(n) /\ OnItsWay(n)' = OnItsWay(n)
      BY <1>1, <2>1, <2>3 DEF HandedOn, OnItsWay
    <3> QED BY <1>1, <2>1, <3>1 DEF FrameInv, AccountInv, Clean
  <2> QED BY <1>2, <2>2, <2>4 DEF FrameInv
<1>4. CASE chip.fifo # <<>>
  <2>1. /\ chip' = [chip EXCEPT !.fifo = Tail(@)] /\ tpc' = "discard"
        /\ wiped' = wiped \cup {Head(chip.fifo).frame}
    BY <1>1, <1>4 DEF Discard
  <2>2. chip'.fifo = Tail(chip.fifo) /\ chip'.mode = "Standby" /\ chip'.overrun = chip.overrun
    BY <1>1, <1>4, <2>1, FrontTaken DEF TypeInv
  <2>3. StageInv' /\ StreamInv'
    BY <1>1, <2>1, <2>2, CleanFrame DEF StageInv, StreamInv
  <2> DEFINE f == chip.fifo
             t == Tail(f)
  <2>4. f \in Seq(Unit) /\ f # <<>> /\ Stream = f /\ Stream' = t
    <3>1. <<>> \o t = t /\ f \in Seq(Unit)
      BY <1>4, StreamParts
    <3> QED BY <1>1, <1>4, <2>2, <3>1, StreamParts DEF Stream
  <2>a. wiped' = wiped \cup {Head(f).frame}
    BY <2>1
  <2> HIDE DEF f
  <2>5. ASSUME NEW i \in DOMAIN f, i # 1 PROVE i - 1 \in DOMAIN t /\ t[i - 1] = f[i]
    BY <2>4, <2>5
  <2>6. Head(f) = f[1]
    BY <2>4
  <2>7. AccountInv'
    <3> SUFFICES ASSUME NEW n \in whole, n \notin wiped'
                 PROVE  HandedOn(n)' \/ OnItsWay(n)'
      BY <1>1 DEF AccountInv
    <3>1. CASE HandedOn(n)
      BY <1>1, <3>1 DEF HandedOn
    <3>2. CASE OnItsWay(n)
      <4>1. PICK i \in DOMAIN f : f[i].frame = n
        BY <2>4, <3>2 DEF OnItsWay
      <4>2. i # 1
        BY <2>a, <2>6, <4>1
      <4>3. i - 1 \in DOMAIN Stream' /\ Stream'[i - 1].frame = n
        BY <2>4, <2>5, <4>1, <4>2
      <4> QED BY <2>2, <4>3 DEF OnItsWay
    <3> QED BY <2>a, <3>1, <3>2, CleanFrame
  <2> QED BY <1>2, <2>3, <2>7 DEF FrameInv
<1> QED BY <1>3, <1>4

(* The chip is armed again: what its FIFO still held is wiped.             *)
LEMMA RearmFrame ==
  ASSUME TypeInv, FrameInv, Clean, Clean', BurstRx, UNCHANGED Owner
  PROVE  FrameInv'
<1>1. /\ tpc = "rx" /\ chip.mode = "Standby" /\ buf = <<>> /\ buf' = <<>> /\ WriteMode("Rx")
      /\ tpc' = "poll" /\ ~overran /\ chip \in Chip
      /\ UNCHANGED <<overran, faults, air, whole, delivered, disturbed>>
  BY CleanFrame DEF BurstRx, AfterBurst, ToRx, Owner, TypeInv
<1>2. Resets("Rx") /\ wiped' = wiped \cup Frames(chip.fifo)
  BY <1>1 DEF Resets, BurstRx, ToRx
<1>3. chip'.fifo = <<>> /\ ~chip'.overrun /\ ~chip'.sync /\ chip'.mode = "Rx"
  BY <1>1, <1>2, WriteModeTypes DEF Mode
<1>4. Stream' = <<>> /\ Stream = chip.fifo
  BY <1>1, <1>3, StreamParts DEF Stream
<1>5. StageInv' /\ DeliveredInv'
  BY <1>1, <1>3 DEF StageInv, FrameInv, DeliveredInv
<1>6. StreamInv'
  BY <1>3, <1>4 DEF StreamInv, Framed, EndsClosed
<1>7. AccountInv'
  <2> SUFFICES ASSUME NEW n \in whole, n \notin wiped' PROVE HandedOn(n)'
    BY <1>1 DEF AccountInv
  <2>1. ~OnItsWay(n)
    BY <1>2, <1>4 DEF OnItsWay, Frames
  <2> QED BY <1>1, <1>2, <2>1, CleanFrame DEF HandedOn
<1> QED BY <1>5, <1>6, <1>7 DEF FrameInv

(* Nothing that overran or failed is left in a clean run.                  *)
LEMMA TaskFrame == TypeInv /\ FrameInv /\ Clean /\ Clean' /\ Task => FrameInv'
<1> SUFFICES ASSUME TypeInv, FrameInv, Clean, Clean', Task PROVE FrameInv'
  OBVIOUS
<1>1. ~HandlerFails
  <2>1. faults = 0 /\ faults' = 0
    BY DEF Clean
  <2> QED BY <2>1 DEF HandlerFails, Fault
<1>2. ~OverrunStandby /\ ~OverrunRx
  BY CleanFrame DEF OverrunStandby, OverrunRx
<1>3. UNCHANGED Owner /\ TaskStep
  BY <1>1 DEF Task
<1> QED BY <1>2, <1>3, WatchFrame, TakeFrame, BurstFrame, DiscardFrame, RearmFrame DEF TaskStep

-----------------------------------------------------------------------------
(* The owner's calls, on a clean run: none of them takes anything from a   *)
(* chip that receives, and shutdown parks the chip when the task has ended.*)
LEMMA CallFrame ==
  TypeInv /\ ParkInv /\ FrameInv /\ Clean /\ Clean' /\ CallStep /\ UNCHANGED gateway => FrameInv'
<1> SUFFICES ASSUME TypeInv, ParkInv, FrameInv, Clean, Clean', CallStep, UNCHANGED gateway
             PROVE  FrameInv'
  OBVIOUS
<1>1. UNCHANGED <<tpc, buf, overran, air, whole, wiped, delivered>>
  BY DEF CallStep, Drain, EnterRx, RestartRx, Join, Park, CallFails, TaskAlone, task
<1>2. UNCHANGED <<faults, disturbed>>
  <2>1. disturbed \in BOOLEAN /\ disturbed' \in BOOLEAN
    BY CallTypes DEF TypeInv, TypeOK, Rfm69TypeOK
  <2>2. ~disturbed /\ ~disturbed' /\ faults = 0 /\ faults' = 0
    BY DEF Clean
  <2>3. disturbed = disturbed'
    BY <2>1, <2>2, Zenon
  <2> QED BY <2>2, <2>3
<1>3. CASE UNCHANGED chip
  BY <1>1, <1>2, <1>3, SameFrame
<1>4. CASE RestartRx
  <2>1. chip' = chip
    BY <1>4 DEF RestartRx, Clean, TypeInv, Chip
  <2> QED BY <1>1, <1>2, <2>1, SameFrame
<1>5. CASE Park /\ WriteMode("Sleep")
  <2>1. tpc = "ended" /\ buf = <<>> /\ chip \in Chip
    BY <1>5 DEF Park, ParkInv, Parking, TypeInv
  <2>2. chip'.fifo = chip.fifo /\ chip'.overrun = chip.overrun /\ chip'.mode = "Sleep"
    BY <1>5, <2>1, WriteModeTypes DEF Resets, Mode
  <2>3. StageInv' /\ StreamInv'
    BY <1>1, <2>1, <2>2, CleanFrame DEF StageInv, StreamInv
  <2>4. DeliveredInv'
    BY <1>1 DEF FrameInv, DeliveredInv
  <2>5. Stream' = Stream
    BY <1>1, <2>2 DEF Stream
  <2>6. AccountInv'
    <3>1. \A n : HandedOn(n)' = HandedOn(n) /\ (OnItsWay(n) => OnItsWay(n)')
      BY <1>1, <2>2, <2>5 DEF HandedOn, OnItsWay
    <3> QED BY <1>1, <3>1, CleanFrame DEF AccountInv
  <2> QED BY <2>3, <2>4, <2>6 DEF FrameInv
<1>6. UNCHANGED chip \/ RestartRx \/ (Park /\ WriteMode("Sleep"))
  <2>1. CASE Drain
    BY <2>1 DEF Drain, Clean
  <2>2. CASE EnterRx
    BY <2>2 DEF EnterRx, SetMode, Clean
  <2>3. CASE Park
    BY <2>3 DEF Park, SetMode
  <2>4. CASE Join \/ CallFails
    BY <2>4 DEF Join, CallFails
  <2> QED BY <2>1, <2>2, <2>3, <2>4 DEF CallStep
<1> QED BY <1>3, <1>4, <1>5, <1>6

LEMMA NextFrame == TypeInv /\ ParkInv /\ FrameInv /\ [Next]_vars => FrameInv'
<1> SUFFICES ASSUME TypeInv, ParkInv, FrameInv, [Next]_vars PROVE FrameInv'
  OBVIOUS
<1>1. CASE ~Clean'
  BY <1>1, DirtyFrame
<1>2. CASE Clean'
  <2>1. CASE UNCHANGED <<chip, tpc, buf, overran, faults, air, whole, wiped, delivered, disturbed>>
    BY <2>1, SameFrame
  <2>2. CASE UNCHANGED vars
    BY <2>1, <2>2 DEF vars, rfm69, task, history
  <2>3. CASE Loop \/ Stall \/ Sigterm
    BY <2>1, <2>3
       DEF Loop, Start, Started, CheckShutdown, Stop, PollPacket, NoReport, Assess, Recovered,
           Stopped, Stall, Sigterm, Shutdown, StartReceive, TaskAlone, rfm69, task, history
  <2>4. CASE Driver
    <3>1. Clean
      <4>1. faults \in Nat /\ disturbed \in BOOLEAN
        BY DEF TypeInv, TypeOK, Rfm69TypeOK
      <4>2. faults' = faults \/ faults' = faults + 1
        BY <2>4 DEF Driver, Air, Task, TaskStep, PollFlags, Collect, Take, BurstStandby, Discard,
                    BurstRx, OverrunStandby, OverrunRx, TaskEnds, ToRx, HandlerFails, Fault,
                    CallStep, Drain, EnterRx, RestartRx, Join, Park, CallFails
      <4>3. disturbed => disturbed'
        BY <2>4 DEF Driver, Air, FrameStarts, FrameEnds, Receive, Fade, Task, TaskStep, PollFlags,
                    Collect, Take, Quiet, BurstStandby, Discard, BurstRx, OverrunStandby,
                    OverrunRx, TaskEnds, ToRx, HandlerFails, CallStep, Drain, EnterRx, RestartRx,
                    Join, Park, CallFails
      <4> QED BY <1>2, <4>1, <4>2, <4>3 DEF Clean
    <3> QED BY <1>2, <2>4, <3>1, AirFrame, TaskFrame, CallFrame DEF Driver
  <2> QED BY <2>2, <2>3, <2>4 DEF Next
<1> QED BY <1>1, <1>2

(* A packet handed on is one frame, whole, and packets come in the order   *)
(* of the air, unless a reception was disturbed or an access failed        *)
(* (WholeFrames).                                                          *)
THEOREM GatewayFramesWhole == Spec => []WholeFrames
<1>1. Init => TypeInv /\ ParkInv /\ FrameInv
  BY InitInv, InitParks
<1>2. FrameInv => WholeFrames
  <2> SUFFICES ASSUME FrameInv, Clean PROVE WholeFrames
    BY DEF WholeFrames, Clean
  <2>1. ASSUME NEW i \in DOMAIN delivered
        PROVE  /\ delivered[i][1].part = "head" /\ delivered[i][2].part = "body"
               /\ delivered[i][1].frame = delivered[i][2].frame
    <3>1. IsHead(delivered[i][1]) /\ delivered[i][2] = BodyOf(delivered[i][1])
      BY DEF FrameInv, DeliveredInv
    <3> QED BY <3>1 DEF IsHead, BodyOf
  <2>2. \A i, j \in DOMAIN delivered : i < j => delivered[i][1].frame < delivered[j][1].frame
    BY DEF FrameInv, DeliveredInv
  <2> QED BY <2>1, <2>2 DEF WholeFrames
<1> QED BY <1>1, <1>2, NextTypes, NextParks, NextFrame, PTL DEF Spec

(* Every frame that reached the FIFO complete is handed on, on its way, or *)
(* was wiped when the task re-armed the receiver: no other loss exists     *)
(* (FramesAccounted).                                                      *)
THEOREM GatewayFramesAccounted == Spec => []FramesAccounted
<1>1. Init => TypeInv /\ ParkInv /\ FrameInv
  BY InitInv, InitParks
<1>2. TypeInv /\ FrameInv => FramesAccounted
  <2> SUFFICES ASSUME TypeInv, FrameInv, Clean, NEW n \in whole, OnItsWay(n)
               PROVE  n \in Frames(chip.fifo) \cup Frames(buf)
    BY DEF FrameInv, AccountInv, FramesAccounted, Clean
  <2>1. PICK i \in DOMAIN Stream : Stream[i].frame = n
    BY DEF OnItsWay
  <2>2. /\ i \in 1..(Len(buf) + Len(chip.fifo)) /\ Len(buf) \in Nat /\ Len(chip.fifo) \in Nat
        /\ DOMAIN buf = 1..Len(buf) /\ DOMAIN chip.fifo = 1..Len(chip.fifo)
    BY <2>1, StreamParts
  <2>3. CASE i \in 1..Len(buf)
    <3>1. buf[i] = Stream[i]
      BY <2>3, StreamParts
    <3> QED BY <2>1, <2>2, <2>3, <3>1 DEF Frames
  <2>4. CASE i \notin 1..Len(buf)
    <3> DEFINE k == i - Len(buf)
    <3>1. k \in 1..Len(chip.fifo) /\ Len(buf) + k = i
      BY <2>2, <2>4
    <3> HIDE DEF k
    <3>2. chip.fifo[k] = Stream[i]
      BY <3>1, StreamParts
    <3> QED BY <2>1, <2>2, <3>1, <3>2 DEF Frames
  <2> QED BY <2>3, <2>4
<1> QED BY <1>1, <1>2, NextTypes, NextParks, NextFrame, PTL DEF Spec
=============================================================================
