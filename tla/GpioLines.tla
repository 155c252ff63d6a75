------------------------------ MODULE GpioLines ------------------------------
(***************************************************************************)
(* The lines between a Raspberry Pi and its radio (src/wmbus/radio/hal/     *)
(* raspberry_pi.rs and enhanced_gpio.rs, src/wmbus/radio/pio_irq.rs).  The  *)
(* HAL holds the pins it was configured with and sends the chip commands;   *)
(* EnhancedGpio holds others and is called back at their edges, one thread  *)
(* for each pin; where a Pi 5 debounces in hardware, the edges stand in a   *)
(* FIFO instead.  rppal gives a pin to one holder at a time.               *)
(***************************************************************************)
EXTENDS Integers, Sequences, SequencesExt, FiniteSets, FiniteSetsExt

CONSTANTS
  GpPins,               \* pins, by number
  GpWirings,            \* what a HAL may be configured with: busy, dio1 and dio2 if any
  GpSetups,             \* what EnhancedGpio is asked to set up, one configuration or those
                        \* of a helper: sequences of [pin, debounce], 0 for none
  GpCalls,              \* bound: calls in one behaviour
  GpEdges,              \* bound: edges at the pins
  GpFaults,             \* bound: operations of rppal that fail
  GpHorizon,            \* bound: time
  GpFifo                \* words of the FIFO

ASSUME GpAssumption ==
  /\ GpPins \subseteq Nat /\ GpCalls \in Nat /\ GpEdges \in Nat /\ GpFaults \in Nat /\ GpHorizon \in Nat
  /\ GpFifo \in Nat \ {0} /\ GpWirings \subseteq Seq(GpPins)
  /\ GpSetups \subseteq Seq([pin : GpPins, debounce : Nat]) \ {<<>>}

VARIABLES
  gpWay,                \* what is used: a HAL beside an EnhancedGpio, "pins"; the callbacks
                        \* of the latter, "callbacks"; a debouncer, "fifo" or "none".  The
                        \* HAL and the callbacks share nothing but the pins
  gpHolder,             \* pin -> who holds it: "free", "hal" or "gpio"
  gpConfig,             \* pin -> its configuration, of the pins EnhancedGpio holds
  gpQueue,              \* events not yet received, by their pins
  gpLast,               \* pin -> last_event_times, -1 for no entry
  gpWait,               \* the wait for an event of a pin under way, and until when
  gpChip,               \* the chip: busy, commands it missed, calls told of an error
  gpFifo,               \* hardware: the FIFO, and what was given of it
  gpLog,                \* every edge that was called back, in order, with its fate
  gpReceived,           \* events received
  gpTold,               \* the last call and what it answered
  gpNow,                \* time
  gpLeft                \* calls and faults used up

gpVars == <<gpWay, gpHolder, gpConfig, gpQueue, gpLast, gpWait, gpChip, gpFifo, gpLog,
            gpReceived, gpTold, gpNow, gpLeft>>

gpPinVars  == <<gpHolder, gpConfig>>
gpEventVars == <<gpQueue, gpReceived>>

NotWatched == [debounce |-> 0, since |-> 0]
NotWaiting == [stage |-> "none", pin |-> 0, until |-> 0]

(* select_pio_irq_backend: one debouncer for the process, for good.           *)
Ways == {"pins", "callbacks", "fifo", "none"}

(* EnhancedGpio::new.                                                       *)
GpInit ==
  /\ gpWay \in Ways
  /\ gpHolder = [p \in GpPins |-> "free"] /\ gpConfig = [p \in GpPins |-> NotWatched]
  /\ gpQueue = <<>> /\ gpReceived = <<>> /\ gpLast = [p \in GpPins |-> -1]
  /\ gpWait = NotWaiting
  /\ gpChip = [busy |-> FALSE, missed |-> 0, errors |-> 0]
  /\ gpFifo = [words |-> <<>>, cycles |-> 10, pushed |-> <<>>, taken |-> <<>>]
  /\ gpLog = <<>> /\ gpTold = [call |-> "none", ok |-> TRUE]
  /\ gpNow = 0 /\ gpLeft = [calls |-> GpCalls, faults |-> GpFaults, edges |-> GpEdges]

Held(who) == {p \in GpPins : gpHolder[p] = who}
LineTells(name, ok) == gpTold' = [call |-> name, ok |-> ok]

(* Callers hold EnhancedGpio for as long as their call lasts.                *)
LineCall(fault) ==
  /\ gpLeft.calls > 0 /\ gpWait = NotWaiting /\ (fault => gpLeft.faults > 0)
  /\ gpLeft' = [gpLeft EXCEPT !.calls = @ - 1, !.faults = IF fault THEN @ - 1 ELSE @]

-----------------------------------------------------------------------------
(* The HAL.                                                                *)

(* Mutant of Acquired: the pins that were got before the refusal stay held. *)
AcquiredPartly(pins) ==
  LET got == {pins[i] : i \in {i \in DOMAIN pins : \A j \in 1..i : gpHolder[pins[j]] = "free"}} IN
  [p \in GpPins |-> IF p \in got THEN "hal" ELSE gpHolder[p]]

(* RaspberryPiHal::new: every pin, or none, those already got being dropped. *)
Acquired(pins) ==
  IF \A i \in DOMAIN pins : gpHolder[pins[i]] = "free" /\ \A j \in 1..i - 1 : pins[j] # pins[i]
    THEN [p \in GpPins |-> IF p \in ToSet(pins) THEN "hal" ELSE gpHolder[p]]
    ELSE gpHolder

(* A second HAL on the same bus is not modelled.                             *)
BuildHal ==
  /\ gpWay = "pins" /\ Held("hal") = {} /\ LineCall(FALSE)
  /\ \E pins \in GpWirings :
       /\ gpHolder' = Acquired(pins)
       /\ LineTells("build", \A i \in DOMAIN pins : gpHolder'[pins[i]] = "hal")
  /\ UNCHANGED <<gpWay, gpConfig, gpQueue, gpLast, gpWait, gpChip, gpFifo, gpLog, gpReceived, gpNow>>

DropHal ==
  /\ Held("hal") # {} /\ LineCall(FALSE) /\ LineTells("drop", TRUE)
  /\ gpHolder' = [p \in GpPins |-> IF gpHolder[p] = "hal" THEN "free" ELSE gpHolder[p]]
  /\ UNCHANGED <<gpWay, gpConfig, gpQueue, gpLast, gpWait, gpChip, gpFifo, gpLog, gpReceived, gpNow>>

(* Mutant of WaitBusyLow: the answer of the chip is not waited for.         *)
WaitBusyLowNever(busy, still) == TRUE

(* wait_for_busy_low: whether the line fell before the timeout.              *)
WaitBusyLow(busy, still) == ~still

(* write_command, write_register: the bytes go out whatever the line says,   *)
(* and the wait comes after them.  A chip that is busy takes no command.    *)
WriteCommand ==
  /\ Held("hal") # {}
  /\ \E fault, still \in BOOLEAN :
       /\ LineCall(fault)
       /\ IF fault
            THEN /\ LineTells("write", FALSE) /\ gpChip' = [gpChip EXCEPT !.errors = @ + 1]
            ELSE LET ok == WaitBusyLow(TRUE, still) IN
                 /\ LineTells("write", ok)
                 /\ gpChip' = [busy |-> still, missed |-> gpChip.missed + IF gpChip.busy THEN 1 ELSE 0,
                               errors |-> gpChip.errors + IF ok THEN 0 ELSE 1]
  /\ UNCHANGED <<gpWay, gpHolder, gpConfig, gpQueue, gpLast, gpWait, gpFifo, gpLog, gpReceived, gpNow>>

(* read_command, read_register: no line is asked, so what a chip that is     *)
(* busy answers is passed on.                                              *)
ReadCommand ==
  /\ Held("hal") # {}
  /\ \E fault \in BOOLEAN :
       /\ LineCall(fault) /\ LineTells("read", ~fault)
       /\ gpChip' = IF fault THEN [gpChip EXCEPT !.errors = @ + 1] ELSE gpChip
  /\ UNCHANGED <<gpWay, gpHolder, gpConfig, gpQueue, gpLast, gpWait, gpFifo, gpLog, gpReceived, gpNow>>

(* reset_radio: an error where no reset pin was configured, otherwise the    *)
(* chip is ready again after it.                                           *)
ResetRadio ==
  /\ Held("hal") # {} /\ LineCall(FALSE)
  /\ \E pin \in BOOLEAN : /\ LineTells("reset", pin)
                          /\ gpChip' = IF pin THEN [gpChip EXCEPT !.busy = FALSE] ELSE gpChip
  /\ UNCHANGED <<gpWay, gpHolder, gpConfig, gpQueue, gpLast, gpWait, gpFifo, gpLog, gpReceived, gpNow>>

ChipReady ==
  /\ gpChip.busy /\ gpChip' = [gpChip EXCEPT !.busy = FALSE]
  /\ UNCHANGED <<gpWay, gpHolder, gpConfig, gpQueue, gpLast, gpWait, gpFifo, gpLog, gpReceived,
                 gpTold, gpNow, gpLeft>>

-----------------------------------------------------------------------------
(* EnhancedGpio.                                                           *)

(* setup_interrupt, once or as the helpers call it: up to the first pin that *)
(* is refused, or whose interrupt is, which stays free.  The configurations  *)
(* are not entered in pin_configs: a pin set up twice is refused by rppal.   *)
SetupInterrupts ==
  /\ gpWay \in {"pins", "callbacks"}
  /\ \E configs \in GpSetups, fault \in BOOLEAN :
       LET n == Len(configs)
           Free(i) == gpHolder[configs[i].pin] = "free" /\ \A j \in 1..i - 1 : configs[j].pin # configs[i].pin
           upto == Max({i \in 0..IF fault THEN n - 1 ELSE n : \A j \in 1..i : Free(j)})
           ready == {configs[i].pin : i \in 1..upto}
           Of(p) == CHOOSE c \in {configs[i] : i \in 1..upto} : c.pin = p
       IN /\ LineCall(fault) /\ LineTells("setup", upto = n)
          /\ gpHolder' = [p \in GpPins |-> IF p \in ready THEN "gpio" ELSE gpHolder[p]]
          /\ gpConfig' = [p \in GpPins |-> IF p \in ready THEN [debounce |-> Of(p).debounce, since |-> Len(gpLog)]
                                                         ELSE gpConfig[p]]
  /\ UNCHANGED <<gpWay, gpQueue, gpLast, gpWait, gpChip, gpFifo, gpLog, gpReceived, gpNow>>

(* remove_interrupt: the pin goes first, and where its interrupt cannot be   *)
(* cleared the time of its last event stays.  Its events in the queue stay  *)
(* there.                                                                  *)
RemoveInterrupt ==
  /\ gpWay \in {"pins", "callbacks"}
  /\ \E p \in GpPins, fault \in BOOLEAN :
       /\ gpHolder[p] # "hal" /\ (fault => gpHolder[p] = "gpio") /\ LineCall(fault) /\ LineTells("remove", ~fault)
       /\ gpHolder' = [gpHolder EXCEPT ![p] = "free"]
       /\ gpConfig' = [gpConfig EXCEPT ![p] = NotWatched]
       /\ gpLast' = IF fault THEN gpLast ELSE [gpLast EXCEPT ![p] = -1]
  /\ UNCHANGED <<gpWay, gpQueue, gpWait, gpChip, gpFifo, gpLog, gpReceived, gpNow>>

(* Mutant of Bouncing: the end of the window is within it.                   *)
BouncingLonger(p, mine) ==
  mine /\ gpConfig[p].debounce > 0 /\ gpLast[p] >= 0 /\ gpNow - gpLast[p] <= gpConfig[p].debounce

(* The check of the callback: whether the edge is skipped.  `mine`: try_lock *)
(* got the map; otherwise nothing is checked.                              *)
Bouncing(p, mine) ==
  mine /\ gpConfig[p].debounce > 0 /\ gpLast[p] >= 0 /\ gpNow - gpLast[p] < gpConfig[p].debounce

(* The times after an event that is let through.                            *)
Stamped(p, mine) == IF mine /\ gpConfig[p].debounce > 0 THEN [gpLast EXCEPT ![p] = gpNow] ELSE gpLast

(* An edge at a pin that is watched.  The map may be taken by the callback of *)
(* another pin, if there is one.                                           *)
Callback ==
  /\ gpWay = "callbacks" /\ gpLeft.edges > 0
  /\ \E p \in Held("gpio"), mine \in BOOLEAN :
       /\ ~mine => Cardinality(Held("gpio")) > 1
       /\ LET skip == Bouncing(p, mine) IN
          /\ gpLog' = Append(gpLog, [pin |-> p, at |-> gpNow, skipped |-> skip, mine |-> mine, within |-> gpConfig[p].debounce])
          /\ gpLast' = IF skip THEN gpLast ELSE Stamped(p, mine)
          /\ gpQueue' = IF skip THEN gpQueue ELSE Append(gpQueue, p)
  /\ gpLeft' = [gpLeft EXCEPT !.edges = @ - 1]
  /\ UNCHANGED <<gpWay, gpHolder, gpConfig, gpWait, gpChip, gpFifo, gpReceived, gpTold, gpNow>>

(* Events are received in the order of the queue, and counted.               *)
Receives(events) == gpReceived' = gpReceived \o events

PollEvents ==
  /\ gpWay = "callbacks" /\ LineCall(FALSE) /\ LineTells("poll", TRUE)
  /\ Receives(gpQueue) /\ gpQueue' = <<>>
  /\ UNCHANGED <<gpWay, gpHolder, gpConfig, gpLast, gpWait, gpChip, gpFifo, gpLog, gpNow>>

(* wait_for_pin_event, and wait_for_packet_complete.                         *)
WaitForPin ==
  /\ gpWay = "callbacks" /\ LineCall(FALSE)
  /\ \E p \in GpPins, ms \in 0..1 : gpWait' = [stage |-> "check", pin |-> p, until |-> gpNow + ms]
  /\ UNCHANGED <<gpWay, gpHolder, gpConfig, gpQueue, gpLast, gpChip, gpFifo, gpLog, gpReceived, gpTold, gpNow>>

Waiting == UNCHANGED <<gpWay, gpHolder, gpConfig, gpLast, gpChip, gpFifo, gpLog, gpNow, gpLeft>>
WaitEnds(name, ok) == gpWait' = NotWaiting /\ LineTells(name, ok)

(* The loop's condition.                                                    *)
WaitChecks ==
  /\ gpWait.stage = "check"
  /\ IF gpNow < gpWait.until THEN gpWait' = [gpWait EXCEPT !.stage = "left"] /\ UNCHANGED gpTold
                             ELSE WaitEnds("wait", FALSE)
  /\ UNCHANGED gpEventVars /\ Waiting

(* timeout_ms - elapsed, at a later moment: below zero it is a time without  *)
(* end.                                                                    *)
WaitReckons ==
  /\ gpWait.stage = "left"
  /\ gpWait' = [gpWait EXCEPT !.stage = IF gpNow > gpWait.until THEN "forever" ELSE "receive"]
  /\ UNCHANGED <<gpTold>> /\ UNCHANGED gpEventVars /\ Waiting

(* An event of another pin is gone.  That of a packet is an error where the   *)
(* line fell.                                                              *)
WaitReceives ==
  /\ gpWait.stage \in {"receive", "forever"} /\ gpQueue # <<>>
  /\ Receives(<<Head(gpQueue)>>) /\ gpQueue' = Tail(gpQueue)
  /\ IF Head(gpQueue) = gpWait.pin
       THEN \E high \in BOOLEAN : WaitEnds("wait", high)
       ELSE gpWait' = [gpWait EXCEPT !.stage = "check"] /\ UNCHANGED gpTold
  /\ Waiting

WaitTimesOut ==
  /\ gpWait.stage = "receive" /\ gpQueue = <<>> /\ gpNow >= gpWait.until /\ WaitEnds("wait", FALSE)
  /\ UNCHANGED gpEventVars /\ Waiting

-----------------------------------------------------------------------------
(* The debouncer of the Pi 5, and what stands for it elsewhere.             *)

(* The state machine pushes the lines it sampled, and waits while the FIFO   *)
(* is full.                                                                *)
FifoFills ==
  /\ gpWay = "fifo" /\ gpLeft.edges > 0 /\ Len(gpFifo.words) < GpFifo
  /\ \E lines \in SUBSET {0, 1} :
       gpFifo' = [gpFifo EXCEPT !.words = Append(@, lines), !.pushed = Append(@, lines)]
  /\ gpLeft' = [gpLeft EXCEPT !.edges = @ - 1]
  /\ UNCHANGED <<gpWay, gpHolder, gpConfig, gpQueue, gpLast, gpWait, gpChip, gpLog, gpReceived, gpTold, gpNow>>

(* set_debounce_cycles, of a window in microseconds: the register takes 31   *)
(* cycles, a tenth of a microsecond, so any window above zero is that.      *)
Cycles(us) == IF us = 0 THEN 0 ELSE 31

(* Mutant of DebounceIrq: a window that changes empties the FIFO.            *)
DebounceIrqFlushing(mask, us) ==
  /\ gpFifo' = [gpFifo EXCEPT !.cycles = Cycles(us), !.words = IF Cycles(us) # gpFifo.cycles \/ @ = <<>> THEN <<>> ELSE Tail(@),
                              !.taken = IF gpFifo.words = <<>> THEN @ ELSE Append(@, Head(gpFifo.words))]
  /\ LineTells("debounce", gpFifo.words # <<>> /\ Head(gpFifo.words) \cap mask # {})

(* debounce_irq takes one word; what the mask leaves out of it is lost.      *)
DebounceIrq(mask, us) ==
  /\ gpFifo' = [gpFifo EXCEPT !.cycles = Cycles(us), !.words = IF @ = <<>> THEN @ ELSE Tail(@),
                              !.taken = IF gpFifo.words = <<>> THEN @ ELSE Append(@, Head(gpFifo.words))]
  /\ LineTells("debounce", gpFifo.words # <<>> /\ Head(gpFifo.words) \cap mask # {})

(* clear_irq_fifo, reset: eight words at most.                               *)
ClearFifo ==
  LET n == IF Len(gpFifo.words) > 8 THEN 8 ELSE Len(gpFifo.words) IN
  /\ gpFifo' = [gpFifo EXCEPT !.words = SubSeq(@, n + 1, Len(@)), !.taken = @ \o SubSeq(gpFifo.words, 1, n)]
  /\ LineTells("clear", TRUE)

UseFifo ==
  /\ gpWay = "fifo" /\ LineCall(FALSE)
  /\ (\E mask \in SUBSET {0, 1}, us \in {0, 10} : DebounceIrq(mask, us)) \/ ClearFifo
  /\ UNCHANGED <<gpWay, gpHolder, gpConfig, gpQueue, gpLast, gpWait, gpChip, gpLog, gpReceived, gpNow>>

(* SoftwareBackend: nothing is noticed, whatever the lines do.               *)
UseSoftware ==
  /\ gpWay = "none" /\ LineCall(FALSE) /\ LineTells("debounce", FALSE)
  /\ UNCHANGED <<gpWay, gpHolder, gpConfig, gpQueue, gpLast, gpWait, gpChip, gpFifo, gpLog, gpReceived, gpNow>>

GpTick ==
  /\ gpWay = "callbacks" /\ gpNow < GpHorizon /\ gpNow' = gpNow + 1
  /\ UNCHANGED <<gpWay, gpHolder, gpConfig, gpQueue, gpLast, gpWait, gpChip, gpFifo, gpLog, gpReceived,
                 gpTold, gpLeft>>

GpNext ==
  \/ BuildHal \/ DropHal \/ WriteCommand \/ ReadCommand \/ ResetRadio \/ ChipReady
  \/ SetupInterrupts \/ RemoveInterrupt \/ Callback \/ PollEvents \/ WaitForPin
  \/ WaitChecks \/ WaitReckons \/ WaitReceives \/ WaitTimesOut
  \/ FifoFills \/ UseFifo \/ UseSoftware \/ GpTick

-----------------------------------------------------------------------------
(* The edges let through up to the n-th.                                    *)
Through(n) == {i \in 1..n : ~gpLog[i].skipped}

(* Every edge that was called back reaches the callers once, in the order    *)
(* the edges came, but for those of a bounce: less than the window after an  *)
(* event of the same pin that was let through.                              *)
EdgesReach ==
  /\ LET events == gpReceived \o gpQueue IN
     /\ Len(events) = Cardinality(Through(Len(gpLog)))
     /\ \A j \in Through(Len(gpLog)) : events[Cardinality(Through(j))] = gpLog[j].pin
  /\ \A j \in DOMAIN gpLog : gpLog[j].skipped =>
       \E i \in 1..j - 1 : /\ gpLog[i].pin = gpLog[j].pin /\ ~gpLog[i].skipped
                           /\ gpLog[j].at - gpLog[i].at < gpLog[j].within

(* A bounce is let through only where the map of times was taken by another  *)
(* pin's callback, at one of the two edges.                                *)
BouncesHeld ==
  \A p \in Held("gpio") : \A i, j \in gpConfig[p].since + 1..Len(gpLog) :
    i < j /\ (\A k \in {i, j} : gpLog[k].pin = p /\ gpLog[k].mine /\ ~gpLog[k].skipped)
      => gpLog[j].at - gpLog[i].at >= gpConfig[p].debounce

(* The chip misses a command only after a caller was told of an error, and a *)
(* HAL that could not get all its pins holds none.                          *)
LinesTrue ==
  /\ gpChip.missed > 0 => gpChip.errors > 0
  /\ Held("hal") = {} \/ \E pins \in GpWirings : Held("hal") = ToSet(pins)

(* The words of the FIFO are taken once each, in order.                      *)
WordsKept == gpFifo.pushed = gpFifo.taken \o gpFifo.words

EdgesAccounted == EdgesReach /\ BouncesHeld /\ LinesTrue /\ WordsKept
=============================================================================
