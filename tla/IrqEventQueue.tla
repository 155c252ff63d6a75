---------------------------- MODULE IrqEventQueue ----------------------------
(***************************************************************************)
(* The queue between the LoRa interrupt service and its consumers          *)
(* (src/wmbus/radio/lora/irq_queue.rs): a bounded channel, the mutex of    *)
(* its receiving end, and the statistics.                                  *)
(*                                                                         *)
(* Three consumers share the receiving end: irq_processor_task, which      *)
(* gives get_next_event up every millisecond; a caller of get_next_event,  *)
(* which waits with the mutex held until an event comes; and a caller of   *)
(* process_all_events, which takes the mutex anew for every event.         *)
(***************************************************************************)
EXTENDS Naturals, Sequences, SequencesExt, FiniteSets, FiniteSetsExt

CONSTANTS
  IqFlags,              \* interrupts the radio raises, of the seven below
  IqCapacity,           \* capacity of the channel
  MaxStatuses,          \* bound: status words processed in one behaviour
  MaxDrains             \* bound: calls of process_all_events in one behaviour

(* The order in which process_irq_status looks at the status word, and the  *)
(* first of the flagged interrupts in it.                                  *)
CheckOrder == <<"RxDone", "TxDone", "CrcError", "RxTimeout",
                "PreambleDetected", "HeaderError", "CadDetected">>
FirstOf(flags) == CheckOrder[Min({i \in DOMAIN CheckOrder : CheckOrder[i] \in flags})]

ASSUME IqFlagsAssumption == IqFlags \subseteq ToSet(CheckOrder)
ASSUME IqCapacityAssumption == IqCapacity \in Nat \ {0}
ASSUME IqBoundsAssumption == MaxStatuses \in Nat /\ MaxDrains \in Nat

VARIABLES
  iqQueue,              \* events in the channel, oldest first
  iqPending,            \* flagged interrupts the running call has yet to queue
  iqStats,              \* total_events and events_dropped
  iqRx,                 \* who holds the mutex of the receiving end
  iqTask,               \* irq_processor_task runs, or has been shut down
  iqDrain,              \* process_all_events is running
  iqDrains,             \* calls of process_all_events
  iqSpilt,              \* events dequeued by process_all_events and given to nobody
  iqLost,               \* flagged interrupts never queued, since the statistics were reset
  iqStatuses            \* status words processed so far

iqVars == <<iqQueue, iqPending, iqStats, iqRx, iqTask, iqDrain, iqDrains, iqSpilt,
            iqLost, iqStatuses>>

NoStats == [total |-> 0, dropped |-> 0]
IqHolder == {"free", "waiter", "task"}

IqInit ==
  /\ iqQueue = <<>> /\ iqPending = {} /\ iqStats = NoStats
  /\ iqRx = "free" /\ iqTask \in BOOLEAN /\ iqDrain = FALSE
  /\ iqDrains = 0 /\ iqSpilt = 0 /\ iqLost = 0 /\ iqStatuses = 0

-----------------------------------------------------------------------------
(* The interrupt service.                                                  *)

(* process_irq_status: a call begins with the flagged interrupts.           *)
ProcessIrqStatus(flags) ==
  /\ iqPending = {}
  /\ iqStatuses < MaxStatuses
  /\ iqPending' = flags
  /\ iqStatuses' = iqStatuses + 1
  /\ UNCHANGED <<iqQueue, iqStats, iqRx, iqTask, iqDrain, iqDrains, iqSpilt, iqLost>>

(* queue_event's account of an event that is queued, and of one that is not.*)
Counted(st) == [st EXCEPT !.total = @ + 1]
Dropped(st) == [st EXCEPT !.total = @ + 1, !.dropped = @ + 1]

(* queue_event, of the first interrupt that is left: counted, then tried.   *)
(* When the channel is full the event is counted as dropped and the error  *)
(* ends the whole call (`?`), so that the interrupts it had not come to are *)
(* neither queued nor counted.                                             *)
QueueEvent ==
  /\ iqPending # {}
  /\ \/ /\ Len(iqQueue) < IqCapacity
        /\ iqQueue' = Append(iqQueue, FirstOf(iqPending))
        /\ iqPending' = iqPending \ {FirstOf(iqPending)}
        /\ iqStats' = Counted(iqStats)
        /\ UNCHANGED iqLost
     \/ /\ Len(iqQueue) = IqCapacity
        /\ iqPending' = {}
        /\ iqStats' = Dropped(iqStats)
        /\ iqLost' = iqLost + Cardinality(iqPending)
        /\ UNCHANGED iqQueue
  /\ UNCHANGED <<iqRx, iqTask, iqDrain, iqDrains, iqSpilt, iqStatuses>>

-----------------------------------------------------------------------------
(* The consumers.                                                          *)

TakeRx(who) ==
  /\ iqRx = "free"
  /\ iqRx' = who
  /\ UNCHANGED <<iqQueue, iqPending, iqStats, iqTask, iqDrain, iqDrains, iqSpilt,
                 iqLost, iqStatuses>>

ReceiveAs(who) ==
  /\ iqRx = who
  /\ iqQueue # <<>>
  /\ iqQueue' = Tail(iqQueue)
  /\ iqRx' = "free"
  /\ UNCHANGED <<iqPending, iqStats, iqTask, iqDrain, iqDrains, iqSpilt, iqLost, iqStatuses>>

(* get_next_event, called directly: the mutex is held while recv waits.    *)
GetNextEvent == TakeRx("waiter") \/ ReceiveAs("waiter")

(* irq_processor_task: the sleep of a millisecond in its select! drops the  *)
(* waiting get_next_event, and the mutex with it; so does the shutdown.    *)
IrqProcessorTask ==
  /\ iqTask
  /\ \/ TakeRx("task")
     \/ ReceiveAs("task")
     \/ /\ iqRx = "task"
        /\ iqRx' = "free"
        /\ iqTask' \in BOOLEAN
        /\ UNCHANGED <<iqQueue, iqPending, iqStats, iqDrain, iqDrains, iqSpilt,
                       iqLost, iqStatuses>>

(* process_all_events: an event is dequeued before the elapsed time is      *)
(* compared with the processing timeout and before the callback may refuse  *)
(* it; either way it is gone and the call ends.                            *)
ProcessAllEvents ==
  \/ /\ ~iqDrain /\ iqDrains < MaxDrains
     /\ iqDrain' = TRUE
     /\ iqDrains' = iqDrains + 1
     /\ UNCHANGED <<iqQueue, iqPending, iqStats, iqRx, iqTask, iqSpilt, iqLost, iqStatuses>>
  \/ /\ iqDrain
     /\ iqRx = "free"
     /\ \/ /\ iqQueue = <<>>
           /\ iqDrain' = FALSE
           /\ UNCHANGED <<iqQueue, iqSpilt>>
        \/ /\ iqQueue # <<>>
           /\ iqQueue' = Tail(iqQueue)
           /\ \/ UNCHANGED <<iqDrain, iqSpilt>>
              \/ iqDrain' = FALSE /\ iqSpilt' = iqSpilt + 1
     /\ UNCHANGED <<iqPending, iqStats, iqRx, iqTask, iqDrains, iqLost, iqStatuses>>

(* reset_stats: the account of the losses starts again with the statistics.*)
ResetStats ==
  /\ iqStats' = NoStats
  /\ iqLost' = 0
  /\ UNCHANGED <<iqQueue, iqPending, iqRx, iqTask, iqDrain, iqDrains, iqSpilt, iqStatuses>>

IqNext ==
  \/ \E flags \in SUBSET IqFlags : ProcessIrqStatus(flags)
  \/ QueueEvent
  \/ GetNextEvent
  \/ IrqProcessorTask
  \/ ProcessAllEvents
  \/ ResetStats

-----------------------------------------------------------------------------
(* The statistics undercount, by a bounded factor: a status word cut short  *)
(* at a full queue (process_irq_status, `?`) loses at most its seven        *)
(* interrupts for every one counted in events_dropped, so a monitor of that *)
(* counter cannot miss that interrupts were lost.  What it never counts is  *)
(* an event process_all_events takes and gives to nobody, because its time  *)
(* is over or its callback refused: at most one for each call.             *)
LossBounded ==
  /\ iqLost <= Len(CheckOrder) * iqStats.dropped
  /\ iqSpilt <= iqDrains
=============================================================================
