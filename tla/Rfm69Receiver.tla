---------------------------- MODULE Rfm69Receiver ----------------------------
(***************************************************************************)
(* The RFM69 driver (src/wmbus/radio/rfm69.rs) as its owner sees it after  *)
(* initialize(): a background task that empties the chip's FIFO, packet by *)
(* packet, into a bounded queue, and the calls start_receive and shutdown. *)
(*                                                                         *)
(* Task and caller share nothing but the SPI bus.  Each SPI access that    *)
(* matters is a step, so the two interleave between any two of them, with  *)
(* each other and with the air.                                            *)
(*                                                                         *)
(* The FIFO counts in units: the bytes of a frame up to the FIFO threshold *)
(* (they hold the header) are one unit, "head", the remaining ones another, *)
(* "body"; "junk" follows a sync word found in noise.  PayloadReady never  *)
(* fires: configure_wmbus sets PACKETCONFIG1 and PAYLOADLENGTH to 0, and   *)
(* the length of a packet is then unlimited.                               *)
(***************************************************************************)
EXTENDS Naturals, Sequences

CONSTANTS
  MaxFrames,            \* bound: frames (and noise) on the air
  MaxFaults,            \* bound: SPI accesses that fail
  FifoUnits,            \* capacity of the chip's FIFO (66 bytes)
  DrainUnits,           \* what start_receive drains at most (80 bytes)
  MaxQueue              \* packets kept for get_received_packet (256)

ASSUME FifoAssumption == FifoUnits \in Nat \ {0} /\ DrainUnits \in Nat
ASSUME QueueAssumption == MaxQueue \in Nat \ {0}
ASSUME FrameBounds == MaxFrames \in Nat /\ MaxFaults \in Nat

VARIABLES
  chip,                 \* mode, FIFO, its overrun flag, a frame half received
  current,              \* Rfm69Driver::current_mode
  queue,                \* Rfm69Driver::received
  tpc,                  \* where interrupt_handler_task is
  buf,                  \* the burst it is collecting
  overran,              \* the overrun flag it has read
  shutdown,             \* a shutdown was sent to it
  call,                 \* where the owner's call is, units drained, its result
  faults,
  air,                  \* history: frames sent
  whole,                \* history: frames that reached the FIFO complete
  wiped,                \* history: frames the task has cleared from the FIFO
  delivered,            \* history: every packet put into the queue
  disturbed             \* history: a frame was cut, overrun or drained by the owner

task    == <<tpc, buf, overran>>
history == <<air, whole, wiped, delivered, disturbed>>
rfm69   == <<chip, current, queue, task, shutdown, call, faults, history>>

Mode   == {"Sleep", "Standby", "Rx"}
Unit   == [frame : 0..MaxFrames, part : {"head", "body", "junk"}]
Stray  == [frame |-> 0, part |-> "junk"]       \* what an empty FIFO reads as
TaskPc == {"poll", "collect", "take", "standby", "discard", "rx",
           "overrun_standby", "overrun_rx", "ended"}
Step   == {"idle", "drain", "mode", "restart", "join", "sleep"}

Frames(units) == {units[i].frame : i \in DOMAIN units}

(* A write to RegOpMode.  Leaving Rx cuts the frame under reception, and   *)
(* entering it resets the FIFO (handle_fifo_overrun relies on that).       *)
WriteMode(m) ==
  chip' = IF m = "Rx" /\ chip.mode # "Rx"
            THEN [mode |-> "Rx", fifo |-> <<>>, overrun |-> FALSE, sync |-> FALSE]
            ELSE [chip EXCEPT !.mode = m, !.sync = @ /\ m = "Rx"]
Resets(m) == m = "Rx" /\ chip.mode # "Rx"

Fault == faults < MaxFaults /\ faults' = faults + 1

(* initialize: configured, the task started, Rx entered.                   *)
Rfm69Init ==
  /\ chip = [mode |-> "Rx", fifo |-> <<>>, overrun |-> FALSE, sync |-> FALSE]
  /\ current = "Rx" /\ queue = <<>>
  /\ tpc = "poll" /\ buf = <<>> /\ overran = FALSE /\ shutdown = FALSE
  /\ call = [at |-> "idle", drained |-> 0, ok |-> TRUE]
  /\ faults = 0
  /\ air = 0 /\ whole = {} /\ wiped = {} /\ delivered = <<>> /\ disturbed = FALSE

-----------------------------------------------------------------------------
(* The air.                                                                *)

Fits == Len(chip.fifo) < FifoUnits
Pushed(u) == IF Fits THEN Append(chip.fifo, u) ELSE chip.fifo

Receive(u, syncAfter) ==
  /\ chip.mode = "Rx"
  /\ chip' = [chip EXCEPT !.fifo = Pushed(u), !.overrun = @ \/ ~Fits, !.sync = syncAfter]
  /\ disturbed' = (disturbed \/ ~Fits)

FrameStarts(part) ==
  /\ air < MaxFrames /\ ~chip.sync
  /\ air' = air + 1
  /\ Receive([frame |-> air + 1, part |-> part], part = "head" /\ Fits)
  /\ UNCHANGED <<whole, wiped, delivered>>

FrameEnds ==
  /\ chip.sync
  /\ Receive([frame |-> air, part |-> "body"], FALSE)
  /\ whole' = IF Fits THEN whole \cup {air} ELSE whole
  /\ UNCHANGED <<air, wiped, delivered>>

Fade ==
  /\ chip.mode = "Rx" /\ chip.sync
  /\ chip' = [chip EXCEPT !.sync = FALSE]
  /\ disturbed' = TRUE
  /\ UNCHANGED <<air, whole, wiped, delivered>>

Air ==
  /\ FrameStarts("head") \/ FrameStarts("junk") \/ FrameEnds \/ Fade
  /\ UNCHANGED <<current, queue, task, shutdown, call, faults>>

-----------------------------------------------------------------------------
(* interrupt_handler_task.                                                 *)

Owner == <<current, shutdown, call, air, whole>>
Quiet == UNCHANGED <<queue, wiped, delivered, disturbed>>

(* Behind handle_fifo_interrupt, well or badly ended, the flags read at    *)
(* the top of the loop are looked at once more.                            *)
AfterBurst == tpc' = (IF overran THEN "overrun_standby" ELSE "poll")

TaskEnds ==
  /\ tpc = "poll" /\ shutdown
  /\ tpc' = "ended"
  /\ UNCHANGED <<chip, buf, overran, faults>> /\ Quiet

(* FIFO level first, then overrun.                                         *)
PollFlags ==
  /\ tpc = "poll" /\ ~shutdown
  /\ chip.fifo # <<>> \/ chip.overrun
  /\ overran' = chip.overrun
  /\ tpc' = IF chip.fifo # <<>> THEN "collect" ELSE "overrun_standby"
  /\ UNCHANGED <<chip, buf, faults>> /\ Quiet

(* A byte is there to be taken, or the burst has dried up for good.        *)
Collect ==
  /\ tpc = "collect"
  /\ tpc' = IF chip.fifo # <<>> THEN "take" ELSE "standby"
  /\ UNCHANGED <<chip, buf, overran, faults>> /\ Quiet

(* packet_size on the header: a head names the size of its frame; bytes of *)
(* a body may happen to pass for a header.                                 *)
IsHeader(u) == CASE u.part = "head" -> {TRUE} [] u.part = "body" -> BOOLEAN
                 [] u.part = "junk" -> {FALSE}

(* RegFifo is read; the owner may have emptied it since.                   *)
Take ==
  /\ tpc = "take"
  /\ LET u == IF chip.fifo = <<>> THEN Stray ELSE Head(chip.fifo) IN
     /\ chip' = [chip EXCEPT !.fifo = IF @ = <<>> THEN @ ELSE Tail(@)]
     /\ buf' = Append(buf, u)
     /\ \/ buf # <<>> /\ tpc' = "standby"
        \/ buf = <<>> /\ \E valid \in IsHeader(u) : tpc' = IF valid THEN "collect" ELSE "standby"
  /\ UNCHANGED <<overran, faults>> /\ Quiet

(* Mutant of Complete: off by one, the last unit is never enough.          *)
CompleteNever == Len(buf) > 2

Complete == Len(buf) >= 2

(* Mutants of Kept: the queue is not cut; what does not fit is not put in. *)
KeptAll(q) == q
KeptOldest(q) == SubSeq(q, 1, MaxQueue)

(* The queue is cut at its front.                                          *)
Kept(q) == IF Len(q) > MaxQueue THEN Tail(q) ELSE q

(* Mutant of BurstStandby: one buffer for all bursts.                      *)
BurstStandbyKeepsBuffer ==
  /\ tpc = "standby"
  /\ WriteMode("Standby")
  /\ IF Complete
       THEN /\ queue' = Kept(Append(queue, SubSeq(buf, 1, 2)))
            /\ delivered' = Append(delivered, SubSeq(buf, 1, 2))
            /\ tpc' = "rx"
       ELSE tpc' = "discard" /\ UNCHANGED <<queue, delivered>>
  /\ buf' = IF Complete THEN <<>> ELSE buf
  /\ UNCHANGED <<overran, faults, wiped, disturbed>>

(* Standby first; a complete packet is then queued, an incomplete one and  *)
(* what follows it is read off.  The buffer was for this burst.            *)
BurstStandby ==
  /\ tpc = "standby"
  /\ WriteMode("Standby")
  /\ IF Complete
       THEN /\ queue' = Kept(Append(queue, SubSeq(buf, 1, 2)))
            /\ delivered' = Append(delivered, SubSeq(buf, 1, 2))
            /\ tpc' = "rx"
       ELSE tpc' = "discard" /\ UNCHANGED <<queue, delivered>>
  /\ buf' = <<>>
  /\ UNCHANGED <<overran, faults, wiped, disturbed>>

Discard ==
  /\ tpc = "discard"
  /\ IF chip.fifo = <<>>
       THEN tpc' = "rx" /\ UNCHANGED <<chip, wiped>>
       ELSE /\ chip' = [chip EXCEPT !.fifo = Tail(@)]
            /\ wiped' = wiped \cup {Head(chip.fifo).frame}
            /\ UNCHANGED tpc
  /\ UNCHANGED <<queue, delivered, buf, overran, faults, disturbed>>

ToRx ==
  /\ WriteMode("Rx")
  /\ wiped' = IF Resets("Rx") THEN wiped \cup Frames(chip.fifo) ELSE wiped
  /\ UNCHANGED <<queue, delivered, buf, overran, faults, disturbed>>

BurstRx == tpc = "rx" /\ AfterBurst /\ ToRx

(* handle_fifo_overrun: to standby and, a millisecond later, back.         *)
OverrunStandby ==
  /\ tpc = "overrun_standby"
  /\ WriteMode("Standby") /\ tpc' = "overrun_rx" /\ overran' = FALSE
  /\ UNCHANGED <<buf, faults>> /\ Quiet
OverrunRx == tpc = "overrun_rx" /\ tpc' = "poll" /\ ToRx

(* An SPI access of a handler fails: `?` leaves it where it stands, and    *)
(* the loop goes on.                                                       *)
HandlerFails ==
  /\ \/ tpc \in {"collect", "take", "standby", "discard", "rx"} /\ AfterBurst
     \/ tpc \in {"overrun_standby", "overrun_rx"} /\ tpc' = "poll"
  /\ Fault
  /\ buf' = <<>>
  /\ UNCHANGED <<chip, overran>> /\ Quiet

TaskStep ==
  PollFlags \/ Collect \/ Take \/ BurstStandby \/ Discard \/ BurstRx
    \/ OverrunStandby \/ OverrunRx \/ TaskEnds
Task == (TaskStep \/ HandlerFails) /\ UNCHANGED Owner

-----------------------------------------------------------------------------
(* The owner's calls.                                                      *)

Idle  == call.at = "idle"
Begin(s) == Idle /\ call' = [at |-> s, drained |-> 0, ok |-> TRUE]
GoOn(s)  == call' = [call EXCEPT !.at = s, !.drained = 0]
Return(ok) == call' = [at |-> "idle", drained |-> 0, ok |-> ok]
TaskAlone == UNCHANGED <<queue, task, air, whole, wiped, delivered>>

StartReceive == Begin("drain") /\ UNCHANGED <<chip, current, shutdown, faults, disturbed>> /\ TaskAlone

(* Drain the FIFO before entering Rx.                                      *)
Drain ==
  /\ call.at = "drain"
  /\ \/ /\ chip.fifo # <<>> /\ call.drained < DrainUnits
        /\ chip' = [chip EXCEPT !.fifo = Tail(@)]
        /\ call' = [call EXCEPT !.drained = @ + 1]
        /\ disturbed' = TRUE
     \/ /\ chip.fifo = <<>> \/ call.drained = DrainUnits
        /\ GoOn("mode") /\ UNCHANGED <<chip, disturbed>>
  /\ UNCHANGED <<current, shutdown, faults>> /\ TaskAlone

(* set_mode: nothing to do if the tracked mode is the one asked for.       *)
SetMode(m) ==
  IF current = m THEN UNCHANGED <<chip, current>> ELSE WriteMode(m) /\ current' = m

EnterRx ==
  /\ call.at = "mode"
  /\ SetMode("Rx") /\ GoOn("restart")
  /\ disturbed' = (disturbed \/ current # "Rx")
  /\ UNCHANGED <<shutdown, faults>> /\ TaskAlone

(* RestartRx makes the receiver look for a new sync word.                  *)
RestartRx ==
  /\ call.at = "restart"
  /\ chip' = [chip EXCEPT !.sync = FALSE]
  /\ disturbed' = (disturbed \/ chip.sync)
  /\ Return(TRUE)
  /\ UNCHANGED <<current, shutdown, faults>> /\ TaskAlone

Shutdown == Begin("join") /\ shutdown' = TRUE /\ UNCHANGED <<chip, current, faults, disturbed>> /\ TaskAlone

(* Mutant of Join: the task is told, not waited for.                       *)
JoinNotAwaited ==
  /\ call.at = "join"
  /\ GoOn("sleep")
  /\ UNCHANGED <<chip, current, shutdown, faults, disturbed>> /\ TaskAlone

(* The task ends within one round of its loop, well inside the 5 s.        *)
Join ==
  /\ call.at = "join" /\ tpc = "ended"
  /\ GoOn("sleep")
  /\ UNCHANGED <<chip, current, shutdown, faults, disturbed>> /\ TaskAlone

Park ==
  /\ call.at = "sleep"
  /\ SetMode("Sleep") /\ Return(TRUE)
  /\ UNCHANGED <<shutdown, faults, disturbed>> /\ TaskAlone

(* An access fails: start_receive gives up, shutdown only warns.           *)
CallFails ==
  /\ call.at \in {"drain", "mode", "restart", "sleep"}
  /\ call.at = "mode" => current # "Rx"
  /\ Fault
  /\ Return(call.at = "sleep")
  /\ UNCHANGED <<chip, current, shutdown, disturbed>> /\ TaskAlone

CallStep == Drain \/ EnterRx \/ RestartRx \/ Join \/ Park \/ CallFails

-----------------------------------------------------------------------------
Rfm69TypeOK ==
  /\ chip.mode \in Mode /\ chip.overrun \in BOOLEAN /\ chip.sync \in BOOLEAN
  /\ chip.fifo \in Seq(Unit) /\ Len(chip.fifo) <= FifoUnits
  /\ current \in Mode
  /\ queue \in Seq(Seq(Unit)) /\ Len(queue) <= MaxQueue
  /\ tpc \in TaskPc /\ buf \in Seq(Unit) /\ Len(buf) <= 2
  /\ overran \in BOOLEAN /\ shutdown \in BOOLEAN
  /\ call \in [at : Step, drained : 0..DrainUnits, ok : BOOLEAN]
  /\ faults \in 0..MaxFaults /\ air \in 0..MaxFrames
  /\ whole \subseteq 1..MaxFrames /\ wiped \subseteq 0..MaxFrames
  /\ delivered \in Seq(Seq(Unit)) /\ disturbed \in BOOLEAN

(* A packet handed on is one frame, whole, unless its reception was        *)
(* disturbed: no burst is joined to another (handle_fifo_interrupt's fresh *)
(* buffer).  And packets come in the order of the air.                     *)
WholeFrames ==
  ~disturbed /\ faults = 0 =>
    /\ \A i \in DOMAIN delivered :
         /\ delivered[i][1].part = "head" /\ delivered[i][2].part = "body"
         /\ delivered[i][1].frame = delivered[i][2].frame
    /\ \A i, j \in DOMAIN delivered :
         i < j => delivered[i][1].frame < delivered[j][1].frame

(* The queue holds the latest packets: when nobody takes them, the oldest  *)
(* go first.                                                               *)
QueueHoldsNewest ==
  LET n == Len(delivered) IN
  Len(queue) <= n /\ queue = SubSeq(delivered, n - Len(queue) + 1, n)


(* Every frame that reached the FIFO complete is handed on, or on its way, *)
(* or was in the FIFO when the task re-armed the receiver: the loss of     *)
(* that instant is the only one.                                           *)
HandedOn(n) == \E i \in DOMAIN delivered : delivered[i][1].frame = n
FramesAccounted ==
  ~disturbed /\ faults = 0 =>
    \A n \in whole :
      HandedOn(n) \/ n \in wiped \/ n \in Frames(chip.fifo) \cup Frames(buf)
=============================================================================
