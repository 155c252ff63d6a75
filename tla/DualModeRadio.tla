--------------------------- MODULE DualModeRadio ----------------------------
(***************************************************************************)
(* One SX126x behind one Mutex, shared by the background receiver          *)
(* (DualModeReceiver), a scheduled run (ProfileScheduler) and an           *)
(* application that uses WMBusHandle::send_frame, the RadioDriver trait    *)
(* (transmit, sleep, wake_up) and get_radio_status on the same driver.     *)
(***************************************************************************)
EXTENDS ProfileScheduler, DualModeReceiver, FiniteSets

CONSTANTS
  ClientOps,            \* the calls the application makes
  MaxCalls,             \* bound: how many of them
  MaxRetries            \* LbtConfig::max_retries

Op == {"send_frame", "transmit", "sleep", "wake_up", "get_radio_status"}
ASSUME ClientOpsAssumption == ClientOps \subseteq Op
ASSUME MaxCallsAssumption == MaxCalls \in Nat /\ MaxRetries \in Nat

VARIABLES
  cpc,                  \* where the application's call is
  calls,                \* calls made so far
  attempt,              \* lbt_transmit's retry counter
  result                \* what the last transmission returned

client == <<cpc, calls, attempt, result>>

ClientPc == {"idle", "lbt", "transmit", "listen", "load", "send", "on_air"}
Result   == {"none", "ok", "busy", "wrong_state", "timeout", "hal"}

ClientInit == cpc = "idle" /\ calls = 0 /\ attempt = 0 /\ result = "none"

Call(op) == op \in ClientOps /\ cpc = "idle" /\ calls < MaxCalls /\ calls' = calls + 1
Return(r) == cpc' = "idle" /\ lock' = Free /\ result' = r

-----------------------------------------------------------------------------
(* send_frame: lbt_transmit under the lock.                                *)

SendFrame ==
  /\ Call("send_frame") /\ lock = Free
  /\ lock' = "client" /\ cpc' = "lbt" /\ attempt' = 0
  /\ radio' = SetRx(radio)                    \* check_channel_clear listens
  /\ UNCHANGED <<faults, result>>

(* The measured RSSI is below the threshold, or not.                       *)
LbtVerdict ==
  /\ cpc = "lbt"
  /\ \/ /\ cpc' = "transmit"
        /\ UNCHANGED <<radio, lock, attempt, result>>
     \/ /\ attempt < MaxRetries               \* back off, listen again
        /\ attempt' = attempt + 1
        /\ radio' = SetRx(radio)
        /\ UNCHANGED <<cpc, lock, result>>
     \/ /\ attempt = MaxRetries
        /\ Return("busy")
        /\ UNCHANGED <<radio, attempt>>
  /\ UNCHANGED <<calls, faults>>

(* transmit: only from standby, by the mode the chip reports.              *)
TransmitBody ==
  IF radio.mode \in Standby
    THEN /\ radio' = SetRx(GetState(radio))   \* its own channel check
         /\ cpc' = "listen" /\ lock' = "client"
         /\ UNCHANGED result
    ELSE radio' = GetState(radio) /\ Return("wrong_state")

TransmitFromLbt ==
  /\ cpc = "transmit"
  /\ TransmitBody
  /\ UNCHANGED <<calls, attempt, faults>>

TransmitCall ==
  /\ Call("transmit") /\ lock = Free
  /\ TransmitBody
  /\ UNCHANGED <<attempt, faults>>

(* Channel clear: standby.  Busy: the chip is left listening.              *)
ListenVerdict ==
  /\ cpc = "listen"
  /\ \/ radio' = SetStandby(radio) /\ cpc' = "load" /\ UNCHANGED <<lock, result>>
     \/ Return("busy") /\ UNCHANGED radio
  /\ UNCHANGED <<calls, attempt, faults>>

Load ==
  /\ cpc = "load"
  /\ radio' = WriteBuffer(radio)
  /\ cpc' = "send"
  /\ UNCHANGED <<calls, attempt, result, lock, faults>>

(* Mutant of Send: the driver lock is dropped while the frame is on air.   *)
SendUnlocked ==
  /\ cpc = "send"
  /\ radio' = SetTx(radio)
  /\ cpc' = "on_air" /\ lock' = Free
  /\ UNCHANGED <<calls, attempt, result, faults>>

Send ==
  /\ cpc = "send"
  /\ radio' = SetTx(radio)
  /\ cpc' = "on_air"
  /\ UNCHANGED <<calls, attempt, result, lock, faults>>

(* The chip finishes, or its timer stops it.                               *)
TxEnds ==
  /\ radio.mode = "Tx"
  /\ \E bit \in {"TxDone", "Timeout"} : radio' = TxEnded(radio, bit)
  /\ UNCHANGED <<lock, faults, client>>

(* Mutant of TxPoll: any interrupt counts as completion.                   *)
TxPollAny ==
  /\ cpc = "on_air"
  /\ radio.irq # {}
  /\ radio' = ClearIrq(radio, {"TxDone"}) /\ Return("ok")
  /\ UNCHANGED <<calls, attempt, faults>>

(* Mutant of TxPoll: the loop has no deadline of its own.                  *)
TxPollForever ==
  /\ cpc = "on_air"
  /\ \E bit \in {"TxDone", "Timeout"} \cap radio.irq :
       /\ radio' = ClearIrq(radio, {bit})
       /\ Return(IF bit = "TxDone" THEN "ok" ELSE "timeout")
  /\ UNCHANGED <<calls, attempt, faults>>

(* The 2 s loop around GetIrqStatus: TxDone is looked for first, and only  *)
(* the bit found is cleared.  The chip's timer is shorter than the loop's, *)
(* so the loop runs out only on a chip that has stopped without a bit.     *)
TxPoll ==
  /\ cpc = "on_air"
  /\ \/ /\ "TxDone" \in radio.irq
        /\ radio' = ClearIrq(radio, {"TxDone"}) /\ Return("ok")
     \/ /\ "TxDone" \notin radio.irq /\ "Timeout" \in radio.irq
        /\ radio' = ClearIrq(radio, {"Timeout"}) /\ Return("timeout")
     \/ /\ radio.irq \cap {"TxDone", "Timeout"} = {} /\ radio.mode # "Tx"
        /\ Return("timeout") /\ UNCHANGED radio
  /\ UNCHANGED <<calls, attempt, faults>>

(* Any access of a call in progress may fail; `?` returns there and then.  *)
CallFails ==
  /\ cpc # "idle"
  /\ Fault
  /\ Return("hal")
  /\ UNCHANGED <<radio, calls, attempt>>

-----------------------------------------------------------------------------
(* sleep is refused on the tracked state alone; wake_up is set_standby;    *)
(* get_radio_status refreshes the tracked state.                           *)
Sleep ==
  /\ Call("sleep") /\ lock = Free
  /\ radio' = IF MaySleep(radio) THEN SetSleep(radio) ELSE radio
  /\ UNCHANGED <<cpc, attempt, result, lock, faults>>

WakeUp ==
  /\ Call("wake_up") /\ lock = Free
  /\ radio' = SetStandby(radio)
  /\ UNCHANGED <<cpc, attempt, result, lock, faults>>

GetRadioStatus ==
  /\ Call("get_radio_status") /\ lock = Free
  /\ radio' = GetState(radio)
  /\ UNCHANGED <<cpc, attempt, result, lock, faults>>

ClientStep == LbtVerdict \/ TransmitFromLbt \/ ListenVerdict \/ Load \/ Send \/ TxPoll \/ CallFails
ClientCall == SendFrame \/ TransmitCall \/ Sleep \/ WakeUp \/ GetRadioStatus

-----------------------------------------------------------------------------
vars == <<driver, sched, receiver, history, client>>

Init == SchedInit /\ ReceiverInit /\ ClientInit

Next ==
  \/ SchedNext /\ UNCHANGED <<receiver, history, client>>
  \/ ReceiverNext /\ UNCHANGED <<sched, client>>
  \/ (ClientCall \/ ClientStep) /\ UNCHANGED <<sched, receiver, history>>
  \/ TxEnds /\ UNCHANGED <<sched, receiver, history>>

(* A call in progress holds the lock and does not stop by itself; the chip *)
(* ends a transmission; the application need not start anything.           *)
ClientFairness == WF_client(ClientStep) /\ WF_radio(TxEnds)

Spec == Init /\ [][Next]_vars /\ SchedFairness /\ ReceiverFairness /\ ClientFairness

TypeOK ==
  /\ SchedTypeOK /\ ReceiverTypeOK
  /\ cpc \in ClientPc /\ calls \in 0..MaxCalls
  /\ attempt \in 0..MaxRetries /\ result \in Result

-----------------------------------------------------------------------------
(* What the receiver hands on.                                             *)

FromAir(i) == delivered[i].data.src = "air"
Heard(i)   == delivered[i].data.n          \* for an item from the air

(* Items never run backwards, and within one item neither the bytes nor    *)
(* the metadata are older than the length they go with, however packets    *)
(* fall between the SPI accesses of process_irqs_with_mode.                *)
InOrder ==
  /\ \A i, j \in DOMAIN delivered :
       i < j /\ FromAir(i) /\ FromAir(j) => Heard(i) <= Heard(j)
  /\ \A i \in DOMAIN delivered :
       FromAir(i) => /\ delivered[i].len.n <= Heard(i)
                     /\ Heard(i) <= delivered[i].meta.n

(* A packet that completes between ClearIrqStatus and ReadBuffer is read   *)
(* by that poll and announced to the next one: twice, but never more.      *)
DeliveredAtMostTwice ==
  \A n \in 1..MaxPackets :
    Cardinality({i \in DOMAIN delivered : delivered[i].data = Packet(n)}) <= 2

(* What the channel holds is what the air brought: in its order, of one     *)
(* piece, and no packet more than twice.                                   *)
DeliveredFaithfully == InOrder /\ DeliveredAtMostTwice

(* The only intact wM-Bus packets that go missing are those that complete  *)
(* between GetIrqStatus and ClearIrqStatus, and those a later packet       *)
(* overwrites: any other reaches the channel, unless an SPI access fails   *)
(* or the receiver is stopped.                                             *)
Surfaced(n) == \E i \in DOMAIN delivered : delivered[i].data = Packet(n)
PacketsSurface ==
  \A n \in 1..MaxPackets :
    (/\ Len(air) = n /\ n \notin raced
     /\ air[n] = [modem |-> "GFSK", ok |-> TRUE]
     /\ rpc \notin {"absent", "ended"})
      ~> (Surfaced(n) \/ Len(air) > n \/ faults > 0 \/ handle.aborted)

(* process_irqs_with_mode gives up for want of LoRa parameters ("an        *)
(* inconsistent radio state") only after a failed profile change.          *)
ParamsOnRecord ==
  rpc = "meta" /\ item.tag = "LoRa" /\ radio.mod # "LoRa" => failed

(* stop_receiver does not wait for the task: one poll may still finish     *)
(* and deliver, no second one starts.                                      *)
StopTakesEffect == tailEnd <= 1

-----------------------------------------------------------------------------
(* What a transmission promises.                                           *)

(* A transmission reported complete has left the air.  It takes an SPI     *)
(* error in an earlier call to break this: that call returns with its      *)
(* TxDone still to come, and no later call clears it before transmitting.  *)
OkMeansSent ==
  [][cpc = "on_air" /\ cpc' = "idle" /\ result' = "ok" => radio.mode # "Tx" \/ faults > 0]_vars

(* While a frame is on the air nobody else commands the chip out of it.    *)
OnAirUndisturbed ==
  [][cpc = "on_air" /\ radio.mode = "Tx" => radio'.mode \in {"Tx", "StandbyRc"}]_vars

(* Every call comes back.                                                  *)
CallsReturn == cpc # "idle" ~> cpc = "idle"

-----------------------------------------------------------------------------
(* Statements of the documentation the code does not keep.                 *)

(* ModeTaggedPacket::mode: "The modem (GFSK/wM-Bus or LoRa) the packet was *)
(* received under."                                                        *)
TagIsModemReceivedUnder ==
  \A i \in DOMAIN delivered : FromAir(i) => delivered[i].tag = air[Heard(i)].modem

(* lbt_transmit: "Channel is clear, proceed with transmission".            *)
ClearChannelTransmits == [][cpc = "transmit" => result' # "wrong_state"]_vars
=============================================================================
