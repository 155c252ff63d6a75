-------------------------- MODULE DualModeReceiver --------------------------
(***************************************************************************)
(* The background receiver of WMBusHandle (src/wmbus/handle.rs): one task  *)
(* that polls the shared driver (process_irqs_with_mode), routes what it   *)
(* finds and sends it down an unbounded channel; start_receiver and        *)
(* stop_receiver.                                                          *)
(*                                                                         *)
(* A poll holds the driver lock, but the chip does not wait for it: a      *)
(* packet may complete between any two SPI accesses, so each access is a   *)
(* step.  The task can be aborted only where it awaits.                    *)
(***************************************************************************)
EXTENDS Sx126xDriver, Sequences

CONSTANTS
  ErrorLimit,           \* consecutive errors tolerated before re-arming (10)
  CanStop               \* whether the application ever stops the receiver

ASSUME ErrorLimitAssumption == ErrorLimit \in Nat
ASSUME CanStopAssumption == CanStop \in BOOLEAN

VARIABLES
  rpc,                  \* where the receiver task is
  snap,                 \* the interrupt status it read
  item,                 \* the packet it is putting together
  errors,               \* consecutive_errors
  handle,               \* receiver_handle, tx_sender and a pending abort
  air,                  \* history: every packet the chip has received
  delivered,            \* history: every item the task has sent
  raced,                \* history: packets lost to ClearIrqStatus
  tailEnd               \* history: items sent since stop_receiver returned

receiver == <<rpc, snap, item, errors, handle>>
history  == <<air, delivered, raced, tailEnd>>

(* An item as far as it matters here: the modem it is tagged with, and     *)
(* which buffer content its length, its bytes and its metadata describe.   *)
Item == [tag : Modem \cup {Unset}, len : Content, data : Content, meta : Content]
NoItem == [tag |-> Unset, len |-> Blank, data |-> Blank, meta |-> Blank]

ReceiverPc == {"absent", "arm", "sleep", "poll", "clear", "status", "read", "meta",
               "deliver", "rearm", "backoff", "ended"}
Awaiting   == {"arm", "sleep", "poll", "rearm", "backoff"}   \* points an abort can hit

AirPacket == [modem : Modem, ok : BOOLEAN]

ReceiverInit ==
  /\ rpc = "absent"
  /\ snap = {}
  /\ item = NoItem
  /\ errors = 0
  /\ handle = [task |-> FALSE, sender |-> TRUE, aborted |-> FALSE]
  /\ air = <<>> /\ delivered = <<>> /\ raced = {} /\ tailEnd = 0

-----------------------------------------------------------------------------
(* The air, and the chip receiving from it.                                *)

Arrive(p, ok) ==
  LET n == Len(air) + 1 IN
  /\ n <= MaxPackets
  /\ Hears(radio, p)
  /\ radio' = Received(radio, n, p, ok)
  /\ air' = Append(air, [modem |-> p, ok |-> ok])
  /\ raced' = IF rpc = "clear" THEN raced \cup {n} ELSE raced
  /\ UNCHANGED <<lock, faults, receiver, delivered, tailEnd>>

-----------------------------------------------------------------------------
(* Starting and stopping.                                                  *)

(* start_receiver: refused while a task runs, and once the only tx_sender  *)
(* has been moved into one.                                                *)
StartReceiver ==
  /\ ~handle.task /\ handle.sender
  /\ handle' = [handle EXCEPT !.task = TRUE, !.sender = FALSE]
  /\ rpc' = "arm"
  /\ UNCHANGED <<snap, item, errors, driver, history>>

(* stop_receiver: abort() only asks; the task ends at its next await.      *)
StopReceiver ==
  /\ CanStop
  /\ handle.task
  /\ handle' = [handle EXCEPT !.task = FALSE, !.aborted = TRUE]
  /\ UNCHANGED <<rpc, snap, item, errors, driver, history>>

Aborted ==
  /\ handle.aborted /\ rpc \in Awaiting
  /\ rpc' = "ended"
  /\ UNCHANGED <<snap, item, errors, handle, driver, history>>

-----------------------------------------------------------------------------
(* The receiver task.                                                      *)

Quiet == <<handle, history>>
LockFree == lock = Free

(* Continuous RX is armed once; a failure is only logged.                  *)
Arm ==
  /\ rpc = "arm" /\ LockFree
  /\ \/ radio' = SetRx(radio) /\ UNCHANGED faults
     \/ UNCHANGED radio /\ Fault
  /\ rpc' = "sleep"
  /\ UNCHANGED <<snap, item, errors, lock, Quiet>>

(* Mutant of SleepDone: a loop whose pause the runtime cannot end.         *)
SleepDoneAnyway ==
  /\ rpc = "sleep"
  /\ rpc' = "poll"
  /\ UNCHANGED <<snap, item, errors, driver, Quiet>>

(* A sleep suspends the task, and a suspended task that has been aborted   *)
(* is not polled again; a lock that happens to be free does not suspend it. *)
SleepDone ==
  /\ rpc = "sleep" /\ ~handle.aborted
  /\ rpc' = "poll"
  /\ UNCHANGED <<snap, item, errors, driver, Quiet>>

(* A poll that ends early: the lock is released on the way out.            *)
NothingFound ==
  /\ rpc' = "sleep" /\ lock' = Free
  /\ UNCHANGED errors
PollFails ==
  /\ lock' = Free
  /\ errors' = errors + 1
  /\ rpc' = IF errors + 1 > ErrorLimit THEN "rearm" ELSE "sleep"

(* An SPI access of the poll fails: `?` leaves the poll there and then.    *)
PollFault ==
  /\ \/ rpc = "poll" /\ LockFree /\ radio.ptype # Unset
     \/ rpc \in {"clear", "status", "read", "meta"}
  /\ Fault
  /\ PollFails
  /\ UNCHANGED <<radio, snap, item, Quiet>>

(* process_irqs_with_mode: note the modem, then process_irqs.              *)
PollIrq ==
  /\ rpc = "poll" /\ LockFree
  /\ IF radio.ptype = Unset
       THEN NothingFound /\ UNCHANGED <<snap, item>>
       ELSE /\ lock' = "receiver" /\ rpc' = "clear"
            /\ item' = [NoItem EXCEPT !.tag = radio.ptype]
            /\ snap' = radio.irq
            /\ UNCHANGED errors
  /\ UNCHANGED <<radio, faults, Quiet>>

(* Mutant of PollClear: RxDone stays latched.                              *)
PollClearErrors ==
  /\ rpc = "clear"
  /\ radio' = ClearIrq(radio, IrqBit \ {"RxDone"})
  /\ IF "RxDone" \in snap
       THEN rpc' = "status" /\ UNCHANGED <<lock, errors>>
       ELSE NothingFound
  /\ UNCHANGED <<faults, snap, item, Quiet>>

(* Mutant of PollClear: RxDone is compared for, not tested for.            *)
PollClearExact ==
  /\ rpc = "clear"
  /\ radio' = ClearIrq(radio, IrqBit)
  /\ IF snap = {"RxDone"}
       THEN rpc' = "status" /\ UNCHANGED <<lock, errors>>
       ELSE NothingFound
  /\ UNCHANGED <<faults, snap, item, Quiet>>

(* Everything latched is cleared, whether the status read above saw it or  *)
(* not.                                                                    *)
PollClear ==
  /\ rpc = "clear"
  /\ radio' = ClearIrq(radio, IrqBit)
  /\ IF "RxDone" \in snap
       THEN rpc' = "status" /\ UNCHANGED <<lock, errors>>
       ELSE NothingFound
  /\ UNCHANGED <<faults, snap, item, Quiet>>

(* GetRxBufferStatus gives the length of the last packet.                  *)
PollStatus ==
  /\ rpc = "status"
  /\ item' = [item EXCEPT !.len = radio.buf]
  /\ rpc' = "read"
  /\ UNCHANGED <<driver, snap, errors, Quiet>>

PollRead ==
  /\ rpc = "read"
  /\ item' = [item EXCEPT !.data = radio.buf]
  /\ rpc' = "meta"
  /\ UNCHANGED <<driver, snap, errors, Quiet>>

(* Mutant of PollMeta: the length is read again with the metadata.         *)
PollMetaRereads ==
  /\ rpc = "meta"
  /\ item' = [item EXCEPT !.meta = radio.buf, !.len = radio.buf]
  /\ rpc' = "deliver" /\ lock' = Free
  /\ UNCHANGED <<radio, faults, errors, snap, Quiet>>

(* RSSI, and in LoRa mode the frequency error and SNR of the last packet,  *)
(* provided LoRa modulation parameters are on record.                      *)
PollMeta ==
  /\ rpc = "meta"
  /\ IF item.tag = "LoRa" /\ radio.mod # "LoRa"
       THEN PollFails /\ UNCHANGED item
       ELSE /\ item' = [item EXCEPT !.meta = radio.buf]
            /\ rpc' = "deliver" /\ lock' = Free
            /\ UNCHANGED errors
  /\ UNCHANGED <<radio, faults, snap, Quiet>>

(* A wM-Bus parse succeeds on a whole, uncorrupted frame: one the driver   *)
(* wrote itself, or one the air delivered from the GFSK modem.             *)
Parses(i) ==
  /\ i.data = i.len
  /\ \/ i.data = OwnTx
     \/ i.data.src = "air" /\ air[i.data.n] = [modem |-> "GFSK", ok |-> TRUE]

(* route_packet, then the channel.  Dropped frames do not reset the error  *)
(* count.                                                                  *)
Deliver ==
  /\ rpc = "deliver"
  /\ IF item.tag = "LoRa" \/ Parses(item)
       THEN /\ errors' = 0
            /\ delivered' = Append(delivered, item)
            /\ tailEnd' = IF handle.aborted THEN tailEnd + 1 ELSE tailEnd
       ELSE UNCHANGED <<errors, delivered, tailEnd>>
  /\ rpc' = "sleep"
  /\ UNCHANGED <<driver, snap, item, handle, air, raced>>

Rearm ==
  /\ rpc = "rearm" /\ LockFree
  /\ \/ radio' = SetRx(radio) /\ UNCHANGED faults
     \/ UNCHANGED radio /\ Fault
  /\ rpc' = "backoff"
  /\ UNCHANGED <<snap, item, errors, lock, Quiet>>

BackoffDone ==
  /\ rpc = "backoff" /\ ~handle.aborted
  /\ errors' = 0
  /\ rpc' = "sleep"
  /\ UNCHANGED <<snap, item, driver, Quiet>>

-----------------------------------------------------------------------------
Polling == PollIrq \/ PollClear \/ PollStatus \/ PollRead \/ PollMeta \/ PollFault
Task    == Arm \/ SleepDone \/ Polling \/ Deliver \/ Rearm \/ BackoffDone
Control == StartReceiver \/ StopReceiver \/ Aborted
Air     == \E p \in Modem, ok \in BOOLEAN : Arrive(p, ok)
ReceiverNext == Air \/ Task \/ Control

ReceiverFairness ==
  /\ SF_receiver(Arm) /\ SF_receiver(PollIrq) /\ SF_receiver(Rearm)
  /\ WF_receiver(Task) /\ WF_receiver(Aborted)

ReceiverTypeOK ==
  /\ rpc \in ReceiverPc
  /\ snap \in SUBSET IrqBit
  /\ item \in Item
  /\ errors \in 0..(ErrorLimit + 1)
  /\ handle \in [task : BOOLEAN, sender : BOOLEAN, aborted : BOOLEAN]
  /\ air \in Seq(AirPacket) /\ Len(air) <= MaxPackets
  /\ delivered \in Seq(Item)
  /\ raced \in SUBSET (1..MaxPackets)
  /\ tailEnd \in Nat
=============================================================================
