----------------------------- MODULE HandleLife -----------------------------
(***************************************************************************)
(* The life of a WMBusHandle (src/wmbus/handle.rs): the receiver task, the *)
(* channel it sends to, the registry of devices, the callback, and the     *)
(* owner, who makes one call at a time because the calls take &mut self.   *)
(* The radio is left to DualModeReceiver: a poll here simply yields an     *)
(* item.  On a runtime of several threads the task and the owner overlap;  *)
(* abort() ends the task where it next awaits.                             *)
(***************************************************************************)
EXTENDS Naturals, Sequences, FiniteSets

CONSTANTS
  HlDevices,            \* addresses of the meters heard
  HlItems,              \* bound: items the radio yields
  HlCalls               \* bound: calls the owner makes

ASSUME HlAssumption == HlItems \in Nat /\ HlCalls \in Nat

VARIABLES
  hlSender,             \* where tx_sender is: with the handle, the task, or dropped
  hlRunning,            \* receiver_handle.is_some()
  hlTask,               \* the task: "none", "polling", "routed", "registered", "ended"
  hlAborted,            \* abort() was called on it
  hlItem,               \* the item the task has in hand
  hlCallback,           \* callbacks: set on the handle, copied by the task
  hlDevices,            \* the registry
  hlChannel,            \* items sent and not received
  hlCall,               \* the owner's call and how far it is
  hlHeard,              \* history: the items the radio yielded
  hlSent,               \* history: the items sent, in order
  hlTaken,              \* history: the items taken from the channel, with who had them
  hlCalled,             \* history: items the callback was called with
  hlLeft                \* calls left

hlVars == <<hlSender, hlRunning, hlTask, hlAborted, hlItem, hlCallback, hlDevices, hlChannel,
            hlCall, hlHeard, hlSent, hlTaken, hlCalled, hlLeft>>
hlOwn  == <<hlCall, hlLeft, hlRunning, hlAborted, hlTaken>>

(* A frame of a device or a LoRa packet, numbered in the order of reception. *)
Lora == "lora"
Nobody == [from |-> "nobody", n |-> 0]
Resting == [name |-> "none", told |-> "none", since |-> 0, list |-> {}]

HlInit ==
  /\ hlSender = "handle" /\ hlRunning = FALSE /\ hlTask = "none" /\ hlAborted = FALSE
  /\ hlItem = Nobody /\ hlCallback = [set |-> FALSE, copied |-> FALSE] /\ hlDevices = {}
  /\ hlChannel = <<>> /\ hlCall = Resting /\ hlHeard = <<>> /\ hlSent = <<>> /\ hlTaken = <<>>
  /\ hlCalled = {} /\ hlLeft = HlCalls

-----------------------------------------------------------------------------
(* The receiver task.                                                      *)

(* poll_once yields an item.                                               *)
PollYields(from) ==
  /\ hlTask = "polling" /\ Len(hlHeard) < HlItems
  /\ hlItem' = [from |-> from, n |-> Len(hlHeard) + 1]
  /\ hlHeard' = Append(hlHeard, from)
  /\ hlTask' = "routed"
  /\ UNCHANGED <<hlSender, hlCallback, hlDevices, hlChannel, hlSent, hlCalled, hlOwn>>

(* update_device_registry: a frame's device is entered, with the lock held; *)
(* a LoRa packet skips registry and callback.                              *)
Register ==
  /\ hlTask = "routed"
  /\ hlDevices' = IF hlItem.from = Lora THEN hlDevices ELSE hlDevices \cup {hlItem.from}
  /\ hlTask' = "registered"
  /\ UNCHANGED <<hlSender, hlItem, hlCallback, hlChannel, hlHeard, hlSent, hlCalled, hlOwn>>

(* The callback the task copied at its start, and the send: nothing awaits  *)
(* between the registry and here, so an abort cannot come between.         *)
CallbackAndSend ==
  /\ hlTask = "registered"
  /\ hlCalled' = IF hlCallback.copied /\ hlItem.from # Lora THEN hlCalled \cup {hlItem.n} ELSE hlCalled
  /\ hlChannel' = Append(hlChannel, hlItem)
  /\ hlSent' = Append(hlSent, hlItem.n)
  /\ hlItem' = Nobody /\ hlTask' = "polling"
  /\ UNCHANGED <<hlSender, hlCallback, hlDevices, hlHeard, hlOwn>>

(* Mutant of Awaits: the registry is awaited after the entry is made, too.  *)
AwaitsAfterEntry(task) == task \in {"polling", "routed", "registered"}

(* Where the task awaits: its timer, and the lock of the registry.          *)
Awaits(task) == task \in {"polling", "routed"}

(* An aborted task ends where it awaits; its sender is dropped.             *)
TaskEnds ==
  /\ hlAborted /\ Awaits(hlTask)
  /\ hlTask' = "ended" /\ hlSender' = "dropped" /\ hlItem' = Nobody
  /\ UNCHANGED <<hlCallback, hlDevices, hlChannel, hlHeard, hlSent, hlCalled, hlOwn>>

-----------------------------------------------------------------------------
(* The owner's calls.                                                      *)

AtRest == hlCall.name = "none"
Begins(name) == AtRest /\ hlLeft > 0 /\ hlLeft' = hlLeft - 1
Tells(result) == [hlCall EXCEPT !.name = "none", !.told = result]
Task == <<hlTask, hlItem, hlHeard, hlSent, hlCalled>>

(* start_receiver from inside a call: the sender moves into the task, once. *)
Starts(call) ==
  /\ ~hlRunning /\ hlSender = "handle"
  /\ hlSender' = "task" /\ hlTask' = "polling" /\ hlRunning' = TRUE
  /\ hlCallback' = [hlCallback EXCEPT !.copied = hlCallback.set]
  /\ hlCall' = call

CannotStart == hlRunning \/ hlSender # "handle"

StartReceiver ==
  /\ Begins("start")
  /\ \/ /\ Starts(Tells("Ok"))
        /\ UNCHANGED <<hlItem, hlHeard, hlSent, hlCalled>>
     \/ /\ CannotStart /\ hlCall' = Tells("Err")
        /\ UNCHANGED <<hlSender, hlRunning, hlCallback, Task>>
  /\ UNCHANGED <<hlAborted, hlDevices, hlChannel, hlTaken>>

(* stop_receiver: take() the handle and abort it.                          *)
StopReceiver ==
  /\ Begins("stop")
  /\ hlRunning' = FALSE
  /\ hlAborted' = (hlAborted \/ hlRunning)
  /\ hlCall' = Tells("Ok")
  /\ UNCHANGED <<hlSender, hlCallback, hlDevices, hlChannel, hlTaken, Task>>

(* register_unsolicited_data_callback                                      *)
RegisterCallback ==
  /\ Begins("callback")
  /\ hlCallback' = [hlCallback EXCEPT !.set = TRUE]
  /\ hlCall' = Tells("Ok")
  /\ UNCHANGED <<hlSender, hlRunning, hlAborted, hlDevices, hlChannel, hlTaken, Task>>

(* scan_devices: the registry is cleared, a receiver started if there is    *)
(* none, and after the discovery time the registry is the answer.          *)
ScanDevices ==
  /\ Begins("scan")
  /\ hlDevices' = {}
  /\ LET scanning == [name |-> "scan", told |-> "none", since |-> Len(hlHeard), list |-> {}] IN
     \/ /\ Starts(scanning)
        /\ UNCHANGED <<hlItem, hlHeard, hlSent, hlCalled>>
     \/ /\ hlRunning /\ hlCall' = scanning
        /\ UNCHANGED <<hlSender, hlRunning, hlCallback, Task>>
     \/ /\ ~hlRunning /\ hlSender # "handle" /\ hlCall' = Tells("Err")
        /\ UNCHANGED <<hlSender, hlRunning, hlCallback, Task>>
  /\ UNCHANGED <<hlAborted, hlChannel, hlTaken>>

ScanEnds ==
  /\ hlCall.name = "scan"
  /\ hlCall' = [hlCall EXCEPT !.name = "none", !.told = "list", !.list = hlDevices]
  /\ UNCHANGED <<hlSender, hlCallback, hlDevices, hlChannel, hlLeft, hlRunning, hlAborted, hlTaken, Task>>

(* recv_item and recv_frame wait with their deadline.                      *)
Receive(name) ==
  /\ name \in {"item", "frame"} /\ Begins(name)
  /\ hlCall' = [Resting EXCEPT !.name = name]
  /\ UNCHANGED <<hlSender, hlCallback, hlDevices, hlChannel, hlRunning, hlAborted, hlTaken, Task>>

(* Mutant of SkippedLora: recv_frame puts a frame aside, too.                  *)
SkippedAll(call, item) == call.name = "frame"

(* recv_frame passes over LoRa packets.                                    *)
SkippedLora(call, item) == call.name = "frame" /\ item.from = Lora

ItemArrives ==
  /\ hlCall.name \in {"item", "frame"} /\ hlChannel # <<>>
  /\ LET item == Head(hlChannel) skipped == SkippedLora(hlCall, item) IN
     /\ hlTaken' = Append(hlTaken, [n |-> item.n, given |-> ~skipped])
     /\ hlCall' = IF skipped THEN hlCall ELSE Tells("item")
  /\ hlChannel' = Tail(hlChannel)
  /\ UNCHANGED <<hlSender, hlCallback, hlDevices, hlLeft, hlRunning, hlAborted, Task>>

(* The deadline, which recv_frame also meets between two items, or a        *)
(* channel that is empty and whose sender is gone.                         *)
ReceiveEnds ==
  /\ hlCall.name = "frame" \/ (hlCall.name = "item" /\ hlChannel = <<>>)
  /\ \/ hlCall' = Tells("timeout")
     \/ hlChannel = <<>> /\ hlSender = "dropped" /\ hlCall' = Tells("closed")
  /\ UNCHANGED <<hlSender, hlCallback, hlDevices, hlChannel, hlLeft, hlRunning, hlAborted, hlTaken, Task>>

HlNext ==
  \/ \E from \in HlDevices \cup {Lora} : PollYields(from)
  \/ Register \/ CallbackAndSend \/ TaskEnds
  \/ StartReceiver \/ StopReceiver \/ RegisterCallback \/ ScanDevices \/ ScanEnds
  \/ \E name \in {"item", "frame"} : Receive(name)
  \/ ItemArrives \/ ReceiveEnds

-----------------------------------------------------------------------------
SentNow == {hlSent[i] : i \in DOMAIN hlSent}
Framed(items) == {n \in items : hlHeard[n] # Lora}

(* Nothing the radio yielded is lost, but for one item when the task was    *)
(* stopped with it in hand; what is in the registry, and what the callback *)
(* was called with, has been or is being sent, and a callback set before   *)
(* the start, only such a one, sees every frame (start_receiver).          *)
YieldedIsSent ==
  /\ hlSent = [i \in DOMAIN hlSent |-> i]
  /\ LET missing == Len(hlHeard) - Len(hlSent) IN
     missing = 0 \/ (missing = 1 /\ hlTask \in {"routed", "registered", "ended"})
  /\ hlDevices \subseteq {hlHeard[n] : n \in Framed(SentNow \cup ({hlItem.n} \ {0}))}
  /\ hlCalled = IF hlCallback.copied THEN Framed(SentNow) ELSE {}

(* What is sent reaches the owner once and in order, or is a LoRa packet    *)
(* recv_frame passed over; the end of the channel is told when he has      *)
(* everything and the receiver was stopped, and not before.                *)
SentIsTaken ==
  /\ [i \in DOMAIN hlTaken |-> hlTaken[i].n] \o [i \in DOMAIN hlChannel |-> hlChannel[i].n] = hlSent
  /\ \A i \in DOMAIN hlTaken : ~hlTaken[i].given => hlHeard[hlTaken[i].n] = Lora
  /\ hlCall.told = "closed" => hlAborted /\ Len(hlTaken) = Len(hlSent)

(* A scan has every device whose frame was sent while it ran, and none that *)
(* was only heard before it began, save the one in hand at that moment.    *)
ScanIsOfItsTime ==
  /\ hlCall.name = "scan" =>
       {hlHeard[n] : n \in Framed({m \in SentNow : m > hlCall.since})} \subseteq hlDevices
  /\ hlCall.told = "list" =>
       hlCall.list \subseteq {hlHeard[n] : n \in Framed({m \in DOMAIN hlHeard : m >= hlCall.since})}

HandleFaithful == YieldedIsSent /\ SentIsTaken /\ ScanIsOfItsTime
=============================================================================
