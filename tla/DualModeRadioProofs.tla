------------------------ MODULE DualModeRadioProofs -------------------------
(***************************************************************************)
(* What the shared SX126x promises the receiver and the application, for   *)
(* every window list, every number of packets, calls, retries and errors,  *)
(* and every interleaving of the three users of its lock.                  *)
(***************************************************************************)
EXTENDS DualModeRadio, ProfileSchedulerProofs, FiniteSetTheorems

-----------------------------------------------------------------------------
(* The invariants.  The error count stops the task before it passes its    *)
(* limit again.                                                            *)
ErrorsCounted == errors > ErrorLimit => rpc \in {"rearm", "backoff", "ended"}

(* A handle starts one task in its life, and a task told to stop delivers  *)
(* once at most: it is then at a pause it does not come back from.         *)
StartedOnce ==
  /\ handle.sender <=> rpc = "absent"
  /\ handle.task => ~handle.sender
  /\ handle.aborted => ~handle.task /\ ~handle.sender
  /\ \/ tailEnd = 0
     \/ tailEnd = 1 /\ handle.aborted /\ rpc \in {"sleep", "ended"}

(* What the types rest on, besides that a served window exists.            *)
Typed == TypeOK /\ WindowServed /\ ErrorsCounted /\ StartedOnce

(* Whoever is between two SPI accesses of one call holds the lock.         *)
InPoll == rpc \in {"clear", "status", "read", "meta"}
LockHeld ==
  /\ InPoll <=> lock = "receiver"
  /\ cpc # "idle" <=> lock = "client"

(* The modem a poll notes is the one the driver has on record while the    *)
(* poll lasts, and LoRa is on record with its parameters unless a change   *)
(* of profile has failed.                                                  *)
ModemOnRecord ==
  /\ InPoll => item.tag = radio.ptype
  /\ radio.ptype = "LoRa" => radio.mod = "LoRa" \/ failed

(* The buffer holds no packet but the latest, and an item in the making is *)
(* no older than its length, nor younger than its metadata will be.        *)
BufferLatest == radio.buf.src = "air" => radio.buf.n = Len(air)
Ordered(i) ==
  i.data.src = "air" => /\ i.len.n <= i.data.n
                        /\ i.data.n <= i.meta.n
                        /\ i.data.n <= Len(air)
ItemOrdered ==
  /\ rpc = "read" => item.len.n <= Len(air)
  /\ rpc = "meta" /\ item.data.src = "air" =>
       item.len.n <= item.data.n /\ item.data.n <= Len(air) /\ radio.buf.src = "air"
  /\ rpc = "deliver" => Ordered(item)
Follows(i) == i.data.src = "air" =>
  \A k \in DOMAIN delivered : FromAir(k) => Heard(k) <= i.data.n
OrderInv ==
  /\ BufferLatest /\ ItemOrdered
  /\ rpc \in {"meta", "deliver"} => Follows(item)
  /\ \A i \in DOMAIN delivered : Ordered(delivered[i])
  /\ \A i, j \in DOMAIN delivered : i < j /\ FromAir(i) /\ FromAir(j) => Heard(i) <= Heard(j)

(* A packet is delivered, in hand, about to be read or announced at most    *)
(* twice in all.  At "clear" an announcement the poll has seen is about to *)
(* go, so it counts once.                                                  *)
Copies(n) == {i \in DOMAIN delivered : delivered[i].data = Packet(n)}
InHand(n) == rpc \in {"meta", "deliver"} /\ item.data = Packet(n)
Coming    == rpc \in {"status", "read"} \/ (rpc = "clear" /\ "RxDone" \in snap)
Announced == "RxDone" \in radio.irq /\ ~(rpc = "clear" /\ "RxDone" \in snap)
One(b)    == IF b THEN 1 ELSE 0
CopiesInv ==
  \A n \in 1..MaxPackets :
    /\ Cardinality(Copies(n)) + One(InHand(n)) <= 2
    /\ n = Len(air) => Cardinality(Copies(n)) + One(InHand(n) \/ Coming) + One(Announced) <= 2
    /\ n > Len(air) => Copies(n) = {} /\ ~InHand(n)

(* Until an access fails, the chip transmits only for the call that waits  *)
(* for it, and the bit that ends it is that call's to clear.               *)
TxBit == {"TxDone", "Timeout"}
SentInv ==
  faults = 0 =>
    /\ radio.mode = "Tx" => cpc = "on_air"
    /\ radio.irq \cap TxBit # {} => cpc = "on_air" /\ radio.mode # "Tx"
    /\ ~(TxBit \subseteq radio.irq)

RadioInv ==
  Typed /\ LockHeld /\ ModemOnRecord /\ OrderInv /\ CopiesInv /\ SentInv

-----------------------------------------------------------------------------
(* What a change of profile does to the radio, completed or cut short: it  *)
(* touches neither the buffer nor the latched interrupts, never leaves the *)
(* chip transmitting, and one that fails leaves the record of the modem    *)
(* as it was or puts the new one on it.                                    *)
LEMMA EntryKeeps ==
  ASSUME NEW r \in RadioType, NEW p \in Modem
  PROVE  LET e == EnterProfileRx(r, p) IN
         /\ e.buf = r.buf /\ e.irq = r.irq /\ e.mode = "Rx"
         /\ e.ptype = p /\ e.mod = p
BY DEF EnterProfileRx, SwitchProfile, ApplyProfile, SetRx, SetDioIrqParams,
       SetModulationParams, SetPacketType, SetStandby, SetStandbyCommand, GetState, RadioType

LEMMA FailedEntryKeeps ==
  ASSUME NEW r \in RadioType, NEW p \in Modem, NEW e \in FailedEntry(r, p)
  PROVE  /\ e.buf = r.buf /\ e.irq = r.irq
         /\ e.mode \in {r.mode, "StandbyRc"}
         /\ e.ptype = p \/ (e.ptype = r.ptype /\ e.mod = r.mod)
BY DEF FailedEntry, SwitchProfile, ApplyProfile, SetDioIrqParams,
       SetModulationParams, SetPacketType, SetStandby, SetStandbyCommand, GetState, RadioType

(* A step of the scheduled run leaves the radio alone or is a change of    *)
(* profile; a failed one is on the run's record, or was the way home.      *)
LEMMA SchedMoves ==
  ASSUME Typed, SchedNext
  PROVE  \/ UNCHANGED <<radio, lock, faults, failed>>
         \/ \E p \in Modem : Transition(p) /\ UNCHANGED failed
         \/ \E p \in Modem : TransitionFails(p) /\ (failed' = TRUE \/ (p = Base /\ UNCHANGED failed))
<1>1. CASE RunStart \/ Waits \/ Cancel
  BY <1>1 DEF RunStart, Waits, CheckFlag, Subscribe, WaitElapses, WaitWoken, WaitVars,
              Cancel, CancelStore, CancelNotify, driver
<1>2. CASE EnterBase \/ CloseWindow \/ RestoreBase
  BY <1>2, BaseIsModem DEF EnterBase, CloseWindow, RestoreBase, ChangeFails
<1>3. CASE OpenWindow
  <2>1. win \in 1..Len(windows)
    BY <1>3 DEF OpenWindow, Typed, WindowServed, In
  <2>2. windows[win].profile \in Modem
    BY <2>1, WindowProfile DEF Typed, TypeOK
  <2> QED BY <1>3, <2>2 DEF OpenWindow, ChangeFails
<1> QED BY <1>1, <1>2, <1>3 DEF SchedNext, RunStep, Transitions

(* The scheduled run as the other users of the radio see it.               *)
LEMMA SchedEffect ==
  ASSUME Typed, SchedNext
  PROVE  /\ UNCHANGED lock /\ DriverTypeOK'
         /\ radio'.buf = radio.buf /\ radio'.irq = radio.irq
         /\ radio' = radio \/ lock = Free
         /\ radio'.mode \in {radio.mode, "Rx", "StandbyRc"}
         /\ faults' >= faults
         /\ failed => failed'
         /\ \/ radio'.ptype = "LoRa" => radio'.mod = "LoRa" \/ failed'
            \/ radio'.ptype = radio.ptype /\ radio'.mod = radio.mod
<1> USE DEF Typed, TypeOK, SchedTypeOK, DriverTypeOK
<1> DEFINE Kept ==
         /\ UNCHANGED lock /\ DriverTypeOK'
         /\ radio'.buf = radio.buf /\ radio'.irq = radio.irq
         /\ radio' = radio \/ lock = Free
         /\ radio'.mode \in {radio.mode, "Rx", "StandbyRc"}
         /\ faults' >= faults
         /\ failed => failed'
         /\ \/ radio'.ptype = "LoRa" => radio'.mod = "LoRa" \/ failed'
            \/ radio'.ptype = radio.ptype /\ radio'.mod = radio.mod
<1>1. CASE UNCHANGED <<radio, lock, faults, failed>>
  BY <1>1
<1>2. ASSUME NEW p \in Modem, Transition(p), UNCHANGED failed
      PROVE  Kept
  <2>1. radio' = EnterProfileRx(radio, p) /\ lock = Free /\ UNCHANGED <<lock, faults>>
    BY <1>2 DEF Transition
  <2>2. DriverTypeOK'
    BY <1>2, TransitionEffect
  <2> QED BY <1>2, <2>1, <2>2, EntryKeeps
<1>3. ASSUME NEW p \in Modem, TransitionFails(p), failed' = TRUE \/ (p = Base /\ UNCHANGED failed)
      PROVE  Kept
  <2>1. radio' \in FailedEntry(radio, p) /\ lock = Free /\ UNCHANGED lock /\ faults' = faults + 1
    BY <1>3 DEF TransitionFails, Fault
  <2>2. DriverTypeOK'
    BY <1>3, TransitionFailsEffect
  <2>3. /\ radio'.buf = radio.buf /\ radio'.irq = radio.irq
        /\ radio'.mode \in {radio.mode, "StandbyRc"}
        /\ radio'.ptype = p \/ (radio'.ptype = radio.ptype /\ radio'.mod = radio.mod)
    BY <2>1, FailedEntryKeeps
  <2> QED BY <1>3, <2>1, <2>2, <2>3 DEF Base
<1> QED BY <1>1, <1>2, <1>3, SchedMoves

-----------------------------------------------------------------------------
(* Types.  The run keeps its own whatever state it finds the radio in.     *)
LEMMA RunTyped ==
  ASSUME Typed, SchedNext
  PROVE  SchedTypeOK' /\ WindowServed'
<1> USE DEF Typed, TypeOK
<1>1. DriverTypeOK'
  BY SchedEffect
<1>2. CASE RunStart
  BY <1>1, <1>2, PcTypes DEF RunStart, SchedTypeOK, WindowServed, Outcome, At
<1>3. CASE EnterBase
  <2>1. /\ win = 1 /\ UNCHANGED <<windows, win, cancel, woken, late>>
        /\ spc' = NextWindow(1) \/ spc' = At("restore")
        /\ outcome' \in {outcome, "finished"} /\ failed' \in BOOLEAN
    BY <1>3 DEF EnterBase, WindowServed, At, SchedTypeOK
  <2> QED BY <1>1, <2>1, NextWindowPc, PcTypes, WindowsLength DEF SchedTypeOK, WindowServed, Outcome, At
<1>4. CASE OpenWindow
  <2>1. /\ spc.at = "opening" /\ UNCHANGED <<windows, win, cancel, woken, outcome>>
        /\ spc' = In("closing", "check") \/ spc' = At("restore")
        /\ failed' \in BOOLEAN
    BY <1>4 DEF OpenWindow, ChangeFails, Abandon, In, SchedTypeOK
  <2>2. late' \in Nat
    BY <1>4 DEF OpenWindow, SchedTypeOK
  <2> QED BY <1>1, <2>1, <2>2, PcTypes DEF SchedTypeOK, WindowServed, WaitStep
<1>5. CASE CloseWindow
  <2>1. /\ win \in 1..Len(windows) /\ UNCHANGED <<windows, cancel, woken, late>>
        /\ \/ spc' = NextWindow(win + 1) /\ win' = win + 1
           \/ spc' = At("restore") /\ win' = win
        /\ outcome' \in {outcome, "finished"} /\ failed' \in BOOLEAN
    BY <1>5 DEF CloseWindow, ChangeFails, Abandon, In, SchedTypeOK, WindowServed
  <2>2. win + 1 \in Nat /\ Len(windows) \in Nat /\ win + 1 \in 1..(Len(windows) + 1)
    BY <2>1, WindowsLength
  <2> QED BY <1>1, <2>1, <2>2, NextWindowPc, PcTypes DEF SchedTypeOK, WindowServed, Outcome
<1>6. CASE RestoreBase
  BY <1>1, <1>6, PcTypes DEF RestoreBase, SchedTypeOK, WindowServed, Outcome
<1>7. CASE Waits
  <2>1. /\ UNCHANGED <<windows, win, outcome, failed, cancel, late>>
        /\ woken' \in BOOLEAN
    BY <1>7 DEF Waits, CheckFlag, Subscribe, WaitElapses, WaitWoken, WaitVars, SchedTypeOK
  <2>2. spc.at \in {"opening", "closing"}
    BY <1>7 DEF Waits, CheckFlag, Subscribe, WaitElapses, WaitWoken, SchedTypeOK, SchedPc
  <2>3. spc' = At("restore") \/ \E s \in WaitStep : spc' = [spc EXCEPT !.step = s]
    BY <1>7 DEF Waits, CheckFlag, Subscribe, WaitElapses, WaitWoken, Abandon, GoTo, WaitStep
  <2>4. spc' \in SchedPc /\ spc'.at \in {spc.at, "restore"}
    BY <2>2, <2>3, PcTypes DEF SchedTypeOK, SchedPc
  <2> QED BY <1>1, <2>1, <2>2, <2>4 DEF SchedTypeOK, WindowServed
<1>8. CASE Cancel
  BY <1>1, <1>8 DEF Cancel, CancelStore, CancelNotify, SchedTypeOK, WindowServed
<1> QED BY <1>2, <1>3, <1>4, <1>5, <1>6, <1>7, <1>8 DEF SchedNext, RunStep, Transitions

LEMMA CommandTypes ==
  ASSUME NEW r \in RadioType
  PROVE  /\ SetRx(r) \in RadioType /\ SetTx(r) \in RadioType /\ GetState(r) \in RadioType
         /\ SetStandby(r) \in RadioType /\ SetSleep(r) \in RadioType /\ WriteBuffer(r) \in RadioType
         /\ \A bits : ClearIrq(r, bits) \in RadioType
         /\ \A bit \in IrqBit : TxEnded(r, bit) \in RadioType
         /\ \A n \in 1..MaxPackets, p \in Modem : \A ok : Received(r, n, p, ok) \in RadioType
<1>1. OwnTx \in Content /\ \A n \in 1..MaxPackets : Packet(n) \in Content
  BY DEF OwnTx, Packet, Content
<1>2. /\ SetRx(r) \in RadioType /\ SetTx(r) \in RadioType /\ GetState(r) \in RadioType
      /\ SetStandby(r) \in RadioType /\ SetSleep(r) \in RadioType
  BY DEF SetRx, SetTx, GetState, SetStandby, SetStandbyCommand, SetSleep, RadioType, RadioState
<1>3. WriteBuffer(r) \in RadioType
  BY <1>1 DEF WriteBuffer, RadioType
<1>4. ASSUME NEW bits PROVE ClearIrq(r, bits) \in RadioType
  BY DEF ClearIrq, RadioType
<1>5. ASSUME NEW bit \in IrqBit PROVE TxEnded(r, bit) \in RadioType
  BY DEF TxEnded, RadioType, RadioState
<1>6. ASSUME NEW n \in 1..MaxPackets, NEW p \in Modem, NEW ok
      PROVE  Received(r, n, p, ok) \in RadioType
  BY <1>1 DEF Received, RadioType
<1> QED BY <1>2, <1>3, <1>4, <1>5, <1>6

LEMMA InitTyped == Init => Typed
<1> SUFFICES ASSUME Init PROVE Typed
  OBVIOUS
<1>1. SchedTypeOK /\ WindowServed
  BY SchedInitInv DEF Init, SchedInv
<1>2. item \in Item
  BY DEF Init, ReceiverInit, NoItem, Item, Content, Blank
<1>3. ReceiverTypeOK /\ ErrorsCounted /\ StartedOnce
  BY <1>2, ErrorLimitAssumption, MaxPacketsAssumption
     DEF Init, ReceiverInit, ReceiverTypeOK, ErrorsCounted, StartedOnce, ReceiverPc
<1>4. cpc \in ClientPc /\ calls \in 0..MaxCalls /\ attempt \in 0..MaxRetries /\ result \in Result
  BY MaxCallsAssumption DEF Init, ClientInit, ClientPc, Result
<1> QED BY <1>1, <1>3, <1>4 DEF Typed, TypeOK

(* What a step of another user leaves of the types of the rest.            *)
LEMMA RestTyped ==
  ASSUME Typed, DriverTypeOK'
  PROVE  /\ UNCHANGED sched => SchedTypeOK' /\ WindowServed'
         /\ UNCHANGED <<receiver, history>> => ReceiverTypeOK' /\ ErrorsCounted' /\ StartedOnce'
         /\ UNCHANGED client =>
              /\ cpc' \in ClientPc /\ calls' \in 0..MaxCalls
              /\ attempt' \in 0..MaxRetries /\ result' \in Result
<1> USE DEF Typed, TypeOK
<1>1. UNCHANGED sched => SchedTypeOK' /\ WindowServed'
  BY DEF sched, SchedTypeOK, WindowServed
<1>2. UNCHANGED <<receiver, history>> => ReceiverTypeOK' /\ ErrorsCounted' /\ StartedOnce'
  BY DEF receiver, history, ReceiverTypeOK, ErrorsCounted, StartedOnce
<1>3. UNCHANGED client =>
              /\ cpc' \in ClientPc /\ calls' \in 0..MaxCalls
              /\ attempt' \in 0..MaxRetries /\ result' \in Result
  BY DEF client
<1> QED BY <1>1, <1>2, <1>3

LEMMA FaultTyped ==
  ASSUME DriverTypeOK, Fault
  PROVE  faults' \in 0..MaxFaults /\ faults' > 0
BY MaxFaultsAssumption DEF DriverTypeOK, Fault

LEMMA StartedStep ==
  ASSUME Typed, ReceiverNext
  PROVE  StartedOnce'
<1> USE DEF Typed, TypeOK, ReceiverTypeOK
<1>1. CASE Air
  BY <1>1 DEF Air, Arrive, receiver, StartedOnce
<1>2. CASE StartReceiver
  BY <1>2 DEF StartReceiver, history, StartedOnce
<1>3. CASE StopReceiver
  BY <1>3 DEF StopReceiver, history, StartedOnce
<1>4. CASE Aborted
  BY <1>4 DEF Aborted, Awaiting, history, StartedOnce
<1>5. CASE Deliver
  BY <1>5 DEF Deliver, StartedOnce
<1>6. CASE Arm \/ SleepDone \/ Polling \/ Rearm \/ BackoffDone
  BY <1>6 DEF Polling, Arm, SleepDone, PollIrq, PollClear, PollStatus, PollRead, PollMeta, PollFault,
              Rearm, BackoffDone, NothingFound, PollFails, Quiet, history, StartedOnce
<1> QED BY <1>1, <1>2, <1>3, <1>4, <1>5, <1>6 DEF ReceiverNext, Control, Task

LEMMA ReceiverTyped ==
  ASSUME Typed, ReceiverNext
  PROVE  DriverTypeOK' /\ ReceiverTypeOK' /\ ErrorsCounted'
<1> USE DEF Typed, TypeOK, SchedTypeOK
<1> USE ErrorLimitAssumption, MaxPacketsAssumption
<1>1. CASE Air
  <2>1. PICK p \in Modem, ok \in BOOLEAN : Arrive(p, ok)
    BY <1>1 DEF Air
  <2> DEFINE n == Len(air) + 1
  <2>2. n \in 1..MaxPackets
    BY <2>1 DEF Arrive, ReceiverTypeOK
  <2>3. radio' \in RadioType
    BY <2>1, <2>2, CommandTypes DEF Arrive, DriverTypeOK
  <2>4. air' \in Seq(AirPacket) /\ Len(air') = n
    BY <2>1 DEF Arrive, ReceiverTypeOK, AirPacket
  <2>5. raced' \in SUBSET (1..MaxPackets)
    BY <2>1, <2>2 DEF Arrive, ReceiverTypeOK
  <2> QED BY <2>1, <2>2, <2>3, <2>4, <2>5
          DEF Arrive, DriverTypeOK, ReceiverTypeOK, ErrorsCounted, receiver
<1>2. CASE Control
  <2>1. UNCHANGED <<snap, item, errors, radio, lock, faults, air, delivered, raced, tailEnd>>
    BY <1>2 DEF Control, StartReceiver, StopReceiver, Aborted, driver, history
  <2>2. handle' \in [task : BOOLEAN, sender : BOOLEAN, aborted : BOOLEAN]
    BY <1>2 DEF Control, StartReceiver, StopReceiver, Aborted, ReceiverTypeOK
  <2>3. rpc' \in ReceiverPc /\ (rpc' = rpc \/ rpc' = "ended" \/ rpc = "absent")
    BY <1>2 DEF Control, StartReceiver, StopReceiver, Aborted, StartedOnce, ReceiverTypeOK, ReceiverPc
  <2> QED BY <2>1, <2>2, <2>3 DEF DriverTypeOK, ReceiverTypeOK, ErrorsCounted
<1>3. CASE Arm \/ Rearm
  <2>1. radio' \in RadioType /\ faults' \in 0..MaxFaults
    BY <1>3, CommandTypes, FaultTyped DEF Arm, Rearm, DriverTypeOK
  <2> QED BY <1>3, <2>1 DEF Arm, Rearm, DriverTypeOK, ReceiverTypeOK, ErrorsCounted,
                            ReceiverPc, Quiet, history
<1>4. CASE SleepDone \/ BackoffDone
  <2>1. /\ UNCHANGED <<snap, item, radio, lock, faults, handle, air, delivered, raced, tailEnd>>
        /\ rpc' \in {"poll", "sleep"} /\ errors' \in {errors, 0}
        /\ errors' = 0 \/ rpc = "sleep"
    BY <1>4 DEF SleepDone, BackoffDone, Quiet, history, driver
  <2> QED BY <2>1 DEF DriverTypeOK, ReceiverTypeOK, ErrorsCounted, ReceiverPc
<1>5. CASE PollFault
  <2>1. faults' \in 0..MaxFaults
    BY <1>5, FaultTyped DEF PollFault
  <2>2. errors \in 0..ErrorLimit
    BY <1>5 DEF PollFault, ErrorsCounted, ReceiverTypeOK
  <2> QED BY <1>5, <2>1, <2>2 DEF PollFault, PollFails, DriverTypeOK, ReceiverTypeOK, ErrorsCounted,
                                  ReceiverPc, Quiet, history, Holder, Free
<1>6. CASE PollIrq
  <2>1. CASE radio.ptype = Unset
    BY <1>6, <2>1 DEF PollIrq, NothingFound, DriverTypeOK, ReceiverTypeOK, ErrorsCounted,
                      ReceiverPc, Quiet, history, Holder, Free
  <2>2. CASE radio.ptype # Unset
    <3>1. item' \in Item /\ snap' \in SUBSET IrqBit
      BY <1>6, <2>2 DEF PollIrq, DriverTypeOK, RadioType, Item, NoItem, Content, Blank
    <3> QED BY <1>6, <2>2, <3>1 DEF PollIrq, DriverTypeOK, ReceiverTypeOK, ErrorsCounted,
                      ReceiverPc, Quiet, history, Holder
  <2> QED BY <2>1, <2>2
<1>7. CASE PollClear
  <2>1. radio' \in RadioType
    BY <1>7, CommandTypes DEF PollClear, DriverTypeOK
  <2> QED BY <1>7, <2>1 DEF PollClear, NothingFound, DriverTypeOK, ReceiverTypeOK, ErrorsCounted,
                            ReceiverPc, Quiet, history, Holder, Free
<1>8. CASE PollStatus \/ PollRead
  <2>1. item' \in Item
    BY <1>8 DEF PollStatus, PollRead, DriverTypeOK, ReceiverTypeOK, RadioType, Item
  <2> QED BY <1>8, <2>1 DEF PollStatus, PollRead, DriverTypeOK, ReceiverTypeOK, ErrorsCounted,
                            ReceiverPc, Quiet, history, driver
<1>9. CASE PollMeta
  <2>1. item' \in Item
    BY <1>9 DEF PollMeta, PollFails, DriverTypeOK, ReceiverTypeOK, RadioType, Item
  <2>2. errors \in 0..ErrorLimit
    BY <1>9 DEF PollMeta, ErrorsCounted, ReceiverTypeOK
  <2> QED BY <1>9, <2>1, <2>2 DEF PollMeta, PollFails, DriverTypeOK, ReceiverTypeOK, ErrorsCounted,
                            ReceiverPc, Quiet, history, Holder, Free
<1>10. CASE Deliver
  <2>1. delivered' \in Seq(Item)
    <3>1. delivered \in Seq(Item) /\ item \in Item
      BY DEF ReceiverTypeOK
    <3>2. delivered' \in {delivered, Append(delivered, item)}
      BY <1>10 DEF Deliver
    <3> QED BY <3>1, <3>2
  <2>2. errors' \in 0..(ErrorLimit + 1) /\ (errors' > ErrorLimit => errors > ErrorLimit) /\ tailEnd' \in Nat
    BY <1>10 DEF Deliver, ReceiverTypeOK
  <2>3. UNCHANGED <<radio, lock, faults, snap, item, handle, air, raced>> /\ rpc = "deliver" /\ rpc' = "sleep"
    BY <1>10 DEF Deliver, driver
  <2> QED BY <2>1, <2>2, <2>3 DEF DriverTypeOK, ReceiverTypeOK, ErrorsCounted, ReceiverPc
<1> QED BY <1>1, <1>2, <1>3, <1>4, <1>5, <1>6, <1>7, <1>8, <1>9, <1>10
        DEF ReceiverNext, Task, Polling

LEMMA ClientTyped ==
  ASSUME Typed, ClientCall \/ ClientStep
  PROVE  /\ DriverTypeOK'
         /\ cpc' \in ClientPc /\ calls' \in 0..MaxCalls
         /\ attempt' \in 0..MaxRetries /\ result' \in Result
<1> USE MaxCallsAssumption DEF Typed, TypeOK, SchedTypeOK, DriverTypeOK
<1>1. /\ radio' \in RadioType
      /\ lock' \in Holder
      /\ faults' \in 0..MaxFaults
  <2>1. CASE ClientCall
    BY <2>1, CommandTypes DEF ClientCall, SendFrame, TransmitCall, TransmitBody, Return, Sleep, WakeUp,
             GetRadioStatus, Holder, Free
  <2>2. CASE LbtVerdict \/ TransmitFromLbt \/ ListenVerdict \/ Load \/ Send \/ TxPoll
    BY <2>2, CommandTypes DEF LbtVerdict, TransmitFromLbt, ListenVerdict, Load, Send, TxPoll,
             TransmitBody, Return, Holder, Free
  <2>3. CASE CallFails
    BY <2>3, FaultTyped DEF CallFails, Return, Holder, Free
  <2> QED BY <2>1, <2>2, <2>3 DEF ClientStep
<1>2. /\ cpc' \in ClientPc /\ calls' \in 0..MaxCalls
      /\ attempt' \in 0..MaxRetries /\ result' \in Result
  <2>1. CASE ClientCall
    BY <2>1 DEF ClientCall, SendFrame, TransmitCall, TransmitBody, Call, Return, Sleep, WakeUp,
             GetRadioStatus, ClientPc, Result
  <2>2. CASE ClientStep
    BY <2>2 DEF ClientStep, LbtVerdict, TransmitFromLbt, ListenVerdict, Load, Send, TxPoll,
             CallFails, TransmitBody, Return, ClientPc, Result
  <2> QED BY <2>1, <2>2
<1> QED BY <1>1, <1>2

LEMMA TypedStep == Typed /\ [Next]_vars => Typed'
<1> SUFFICES ASSUME Typed, [Next]_vars PROVE Typed'
  OBVIOUS
<1>1. CASE SchedNext /\ UNCHANGED <<receiver, history, client>>
  BY <1>1, RunTyped, RestTyped, SchedEffect DEF Typed, TypeOK
<1>2. CASE ReceiverNext /\ UNCHANGED <<sched, client>>
  BY <1>2, ReceiverTyped, StartedStep, RestTyped DEF Typed, TypeOK
<1>3. CASE (ClientCall \/ ClientStep) /\ UNCHANGED <<sched, receiver, history>>
  BY <1>3, ClientTyped, RestTyped DEF Typed, TypeOK
<1>4. CASE TxEnds /\ UNCHANGED <<sched, receiver, history>>
  <2>1. radio' \in RadioType
    BY <1>4, CommandTypes DEF TxEnds, IrqBit, Typed, TypeOK, SchedTypeOK, DriverTypeOK
  <2>2. DriverTypeOK' /\ UNCHANGED client
    BY <1>4, <2>1 DEF TxEnds, Typed, TypeOK, SchedTypeOK, DriverTypeOK
  <2> QED BY <1>4, <2>2, RestTyped DEF Typed, TypeOK
<1>5. CASE UNCHANGED vars
  <2>1. DriverTypeOK' /\ UNCHANGED <<sched, receiver, history, client>>
    BY <1>5 DEF vars, driver, Typed, TypeOK, SchedTypeOK, DriverTypeOK
  <2> QED BY <2>1, RestTyped DEF Typed, TypeOK
<1> QED BY <1>1, <1>2, <1>3, <1>4, <1>5 DEF Next

(* Every variable of the shared radio, the receiver, the run and the       *)
(* application keeps its type; the error count passes its limit by one at  *)
(* most (handle.rs, receiver loop).                                        *)
THEOREM RadioTypeCorrect == Spec => []TypeOK
<1>1. Typed => TypeOK BY DEF Typed
<1> QED BY <1>1, InitTyped, TypedStep, PTL DEF Spec

(* stop_receiver does not wait for the task: one poll may still finish and *)
(* deliver, no second one starts (stop_receiver, StopTakesEffect).         *)
THEOREM RadioStopsReceiver == Spec => []StopTakesEffect
<1>1. Typed => StopTakesEffect BY DEF Typed, StartedOnce, StopTakesEffect
<1> QED BY <1>1, InitTyped, TypedStep, PTL DEF Spec

-----------------------------------------------------------------------------
(* The lock.                                                               *)

LEMMA LockStep == Typed /\ LockHeld /\ [Next]_vars => LockHeld'
<1> SUFFICES ASSUME Typed, LockHeld, [Next]_vars PROVE LockHeld'
  OBVIOUS
<1> USE DEF LockHeld, InPoll, Free
<1>1. CASE SchedNext /\ UNCHANGED <<receiver, history, client>>
  BY <1>1, SchedEffect DEF receiver, client
<1>2. CASE ReceiverNext /\ UNCHANGED <<sched, client>>
  <2> USE <1>2 DEF client
  <2>1. CASE Air
    BY <2>1 DEF Air, Arrive, receiver
  <2>2. CASE Control
    BY <2>2 DEF Control, StartReceiver, StopReceiver, Aborted, driver, Awaiting, Typed, StartedOnce
  <2>3. CASE Polling
    BY <2>3 DEF Polling, PollIrq, PollClear, PollStatus, PollRead, PollMeta, PollFault, NothingFound,
                PollFails, LockFree, driver
  <2>4. CASE Arm \/ SleepDone \/ Deliver \/ Rearm \/ BackoffDone
    BY <2>4 DEF Arm, SleepDone, Deliver, Rearm, BackoffDone, LockFree, driver
  <2> QED BY <2>1, <2>2, <2>3, <2>4 DEF ReceiverNext, Task
<1>3. CASE (ClientCall \/ ClientStep) /\ UNCHANGED <<sched, receiver, history>>
  <2> USE <1>3 DEF receiver
  <2>1. CASE ClientCall
    BY <2>1 DEF ClientCall, SendFrame, TransmitCall, TransmitBody, Call, Return, Sleep, WakeUp,
                GetRadioStatus
  <2>2. CASE ClientStep
    BY <2>2 DEF ClientStep, LbtVerdict, TransmitFromLbt, ListenVerdict, Load, Send, TxPoll,
                CallFails, TransmitBody, Return
  <2> QED BY <2>1, <2>2
<1>4. CASE TxEnds /\ UNCHANGED <<sched, receiver, history>>
  BY <1>4 DEF TxEnds, receiver, client
<1>5. CASE UNCHANGED vars
  BY <1>5 DEF vars, driver, receiver, client
<1> QED BY <1>1, <1>2, <1>3, <1>4, <1>5 DEF Next

(* What a step of the application does to a radio: everything but the      *)
(* packet type, the modulation and the interrupts it routes, and only      *)
(* while it holds the lock or finds it free.                               *)
LEMMA ClientEffect ==
  ASSUME Typed, LockHeld, ClientCall \/ ClientStep
  PROVE  /\ lock # "receiver" /\ ~InPoll
         /\ radio'.ptype = radio.ptype /\ radio'.mod = radio.mod
         /\ radio'.buf \in {radio.buf, OwnTx}
         /\ radio'.irq \subseteq radio.irq
         /\ UNCHANGED <<sched, receiver, history>> => UNCHANGED failed
<1>1. lock # "receiver" /\ ~InPoll
  BY DEF LockHeld, ClientCall, SendFrame, TransmitCall, Call, Sleep, WakeUp, GetRadioStatus, Free,
         ClientStep, LbtVerdict, TransmitFromLbt, ListenVerdict, Load, Send, TxPoll, CallFails
<1>2. \/ radio' \in {radio, SetRx(radio), SetRx(GetState(radio)), GetState(radio), SetStandby(radio),
                     WriteBuffer(radio), SetTx(radio), SetSleep(radio)}
      \/ \E bits : radio' = ClearIrq(radio, bits)
  BY DEF ClientCall, SendFrame, TransmitCall, TransmitBody, Sleep, WakeUp, GetRadioStatus,
         ClientStep, LbtVerdict, TransmitFromLbt, ListenVerdict, Load, Send, TxPoll, CallFails
<1>3. radio \in RadioType
  BY DEF Typed, TypeOK, SchedTypeOK, DriverTypeOK
<1>4. /\ radio'.ptype = radio.ptype /\ radio'.mod = radio.mod
      /\ radio'.buf \in {radio.buf, OwnTx}
      /\ radio'.irq \subseteq radio.irq
  BY <1>2, <1>3 DEF SetRx, GetState, SetStandby, SetStandbyCommand, WriteBuffer, SetTx, SetSleep,
                    ClearIrq, RadioType
<1> QED BY <1>1, <1>4 DEF sched

(* What a step of the receiver does to it: arming, or clearing interrupts. *)
LEMMA TaskEffect ==
  ASSUME Typed, Task \/ Control
  PROVE  /\ radio'.ptype = radio.ptype /\ radio'.mod = radio.mod /\ radio'.buf = radio.buf
         /\ radio'.irq \subseteq radio.irq
         /\ UNCHANGED air
<1>1. radio' \in {radio, SetRx(radio)} \/ \E bits : radio' = ClearIrq(radio, bits)
  BY DEF Task, Control, StartReceiver, StopReceiver, Aborted, Arm, SleepDone, Polling, PollIrq, PollClear,
         PollStatus, PollRead, PollMeta, PollFault, Deliver, Rearm, BackoffDone, driver
<1>2. radio \in RadioType
  BY DEF Typed, TypeOK, SchedTypeOK, DriverTypeOK
<1>3. UNCHANGED air
  BY DEF Task, Control, StartReceiver, StopReceiver, Aborted, Arm, SleepDone, Polling, PollIrq, PollClear,
         PollStatus, PollRead, PollMeta, PollFault, Deliver, Rearm, BackoffDone, Quiet, history
<1> QED BY <1>1, <1>2, <1>3 DEF SetRx, ClearIrq, RadioType

(* And what the air does: the packet is the next, and the latest.          *)
LEMMA ArriveEffect ==
  ASSUME Typed, Air
  PROVE  /\ radio'.ptype = radio.ptype /\ radio'.mod = radio.mod /\ radio'.mode = radio.mode
         /\ radio.mode = "Rx"
         /\ Len(air') = Len(air) + 1 /\ radio'.buf = Packet(Len(air'))
         /\ radio'.irq \cap TxBit = radio.irq \cap TxBit
         /\ UNCHANGED <<rpc, snap, item, errors, handle, lock, faults, delivered, tailEnd>>
         /\ Len(air') \in 1..MaxPackets
<1>1. PICK p \in Modem, ok \in BOOLEAN : Arrive(p, ok)
  BY DEF Air
<1>2. air \in Seq(AirPacket) /\ radio \in RadioType
  BY DEF Typed, TypeOK, SchedTypeOK, DriverTypeOK, ReceiverTypeOK
<1> DEFINE n == Len(air) + 1
<1>3. /\ radio' = Received(radio, n, p, ok) /\ n \in 1..MaxPackets /\ radio.mode = "Rx"
      /\ air' = Append(air, [modem |-> p, ok |-> ok])
      /\ UNCHANGED <<rpc, snap, item, errors, handle, lock, faults, delivered, tailEnd>>
  BY <1>1, <1>2 DEF Arrive, Hears, receiver
<1>4. Len(air') = n
  BY <1>2, <1>3
<1>5. /\ radio'.ptype = radio.ptype /\ radio'.mod = radio.mod /\ radio'.mode = radio.mode
      /\ radio'.buf = Packet(n) /\ radio'.irq \cap TxBit = radio.irq \cap TxBit
  BY <1>2, <1>3 DEF Received, RadioType, TxBit
<1> QED BY <1>3, <1>4, <1>5

-----------------------------------------------------------------------------
(* The modem on record.                                                    *)
LEMMA ModemStep == Typed /\ LockHeld /\ ModemOnRecord /\ [Next]_vars => ModemOnRecord'
<1> SUFFICES ASSUME Typed, LockHeld, ModemOnRecord, [Next]_vars PROVE ModemOnRecord'
  OBVIOUS
<1> USE DEF ModemOnRecord, InPoll
<1>1. CASE SchedNext /\ UNCHANGED <<receiver, history, client>>
  <2>1. InPoll => radio' = radio
    BY <1>1, SchedEffect DEF LockHeld, Free
  <2> QED BY <1>1, <2>1, SchedEffect DEF receiver
<1>2. CASE ReceiverNext /\ UNCHANGED <<sched, client>>
  <2>1. radio'.ptype = radio.ptype /\ radio'.mod = radio.mod /\ UNCHANGED failed
    BY <1>2, TaskEffect, ArriveEffect DEF ReceiverNext, sched
  <2>2. InPoll' => item'.tag = radio.ptype
    <3>1. CASE PollIrq
      BY <3>1 DEF PollIrq, NothingFound, NoItem
    <3>2. CASE PollStatus \/ PollRead
      BY <3>2 DEF PollStatus, PollRead, Typed, TypeOK, ReceiverTypeOK, Item
    <3>3. CASE ~PollIrq /\ ~PollStatus /\ ~PollRead
      BY <1>2, <3>3 DEF ReceiverNext, Air, Arrive, receiver, Task, Polling, Control, StartReceiver,
         StopReceiver, Aborted, Arm, SleepDone, PollClear, PollMeta, PollFault, PollFails, NothingFound,
         Deliver, Rearm, BackoffDone
    <3> QED BY <3>1, <3>2, <3>3
  <2> QED BY <2>1, <2>2
<1>3. CASE (ClientCall \/ ClientStep) /\ UNCHANGED <<sched, receiver, history>>
  BY <1>3, ClientEffect DEF receiver
<1>4. CASE TxEnds /\ UNCHANGED <<sched, receiver, history>>
  BY <1>4 DEF TxEnds, TxEnded, receiver, sched, Typed, TypeOK, SchedTypeOK, DriverTypeOK, RadioType
<1>5. CASE UNCHANGED vars
  BY <1>5 DEF vars, driver, receiver, sched
<1> QED BY <1>1, <1>2, <1>3, <1>4, <1>5 DEF Next

-----------------------------------------------------------------------------
(* Transmission.                                                           *)
LEMMA SentStep == Typed /\ LockHeld /\ SentInv /\ [Next]_vars => SentInv'
<1> SUFFICES ASSUME Typed, LockHeld, SentInv, [Next]_vars, faults' = 0
             PROVE  /\ radio'.mode = "Tx" => cpc' = "on_air"
                    /\ radio'.irq \cap TxBit # {} => cpc' = "on_air" /\ radio'.mode # "Tx"
                    /\ ~(TxBit \subseteq radio'.irq)
  BY DEF SentInv
<1>1. radio \in RadioType /\ faults \in Nat
  BY MaxFaultsAssumption DEF Typed, TypeOK, SchedTypeOK, DriverTypeOK
<1>2. CASE SchedNext /\ UNCHANGED <<receiver, history, client>>
  <2>1. faults = 0
    BY <1>1, <1>2, SchedEffect DEF DriverTypeOK
  <2>2. CASE radio' = radio
    BY <1>2, <2>1, <2>2 DEF SentInv, client
  <2>3. CASE lock = Free
    BY <1>2, <2>1, <2>3, SchedEffect DEF SentInv, client, LockHeld, Free
  <2> QED BY <1>2, <2>2, <2>3, SchedEffect
<1>3. CASE ReceiverNext /\ UNCHANGED <<sched, client>>
  <2>1. CASE Air
    BY <1>3, <2>1, ArriveEffect DEF SentInv, client, TxBit
  <2>2. CASE Task \/ Control
    <3>1. faults = 0
      BY <1>1, <2>2 DEF Task, Control, StartReceiver, StopReceiver, Aborted, Arm, SleepDone, Polling,
         PollIrq, PollClear, PollStatus, PollRead, PollMeta, PollFault, Deliver, Rearm, BackoffDone,
         driver, Fault
    <3>2. radio'.irq \subseteq radio.irq
      BY <2>2, TaskEffect
    <3>3. radio'.mode = radio.mode \/ (radio'.mode = "Rx" /\ cpc # "on_air")
      BY <1>1, <2>2 DEF Task, Control, StartReceiver, StopReceiver, Aborted, Arm, SleepDone, Polling,
         PollIrq, PollClear, PollStatus, PollRead, PollMeta, PollFault, Deliver, Rearm, BackoffDone,
         driver, LockFree, LockHeld, Free, SetRx, ClearIrq, RadioType
    <3> QED BY <1>3, <3>1, <3>2, <3>3 DEF SentInv, client
  <2> QED BY <1>3, <2>1, <2>2 DEF ReceiverNext
<1>4. CASE ClientCall /\ UNCHANGED <<sched, receiver, history>>
  <2>1. cpc = "idle" /\ faults = 0
    BY <1>4 DEF ClientCall, SendFrame, TransmitCall, Call, Sleep, WakeUp, GetRadioStatus
  <2>2. radio'.mode # "Tx"
    BY <1>1, <1>4, <2>1 DEF ClientCall, SendFrame, TransmitCall, TransmitBody, Sleep, WakeUp, GetRadioStatus,
                      SetRx, GetState, SetStandby, SetStandbyCommand, SetSleep, RadioType, SentInv
  <2> QED BY <1>4, <2>1, <2>2, ClientEffect DEF SentInv
<1>5. CASE ClientStep /\ UNCHANGED <<sched, receiver, history>>
  <2>1. CASE LbtVerdict \/ TransmitFromLbt \/ ListenVerdict \/ Load
    <3>1. cpc # "on_air" /\ faults = 0
      BY <2>1 DEF LbtVerdict, TransmitFromLbt, ListenVerdict, Load
    <3>2. radio'.mode # "Tx"
      BY <1>1, <2>1, <3>1 DEF LbtVerdict, TransmitFromLbt, TransmitBody, ListenVerdict, Load,
                      SetRx, GetState, SetStandby, SetStandbyCommand, WriteBuffer, RadioType, SentInv
    <3> QED BY <1>5, <3>1, <3>2, ClientEffect DEF SentInv
  <2>2. CASE Send
    BY <1>1, <2>2 DEF Send, SetTx, RadioType, SentInv
  <2>3. CASE TxPoll
    BY <1>1, <2>3 DEF TxPoll, Return, ClearIrq, RadioType, SentInv, TxBit
  <2>4. CASE CallFails
    BY <1>1, <2>4 DEF CallFails, Fault
  <2> QED BY <1>5, <2>1, <2>2, <2>3, <2>4 DEF ClientStep
<1>6. CASE TxEnds /\ UNCHANGED <<sched, receiver, history>>
  BY <1>1, <1>6 DEF TxEnds, TxEnded, RadioType, SentInv, TxBit, client
<1>7. CASE UNCHANGED vars
  BY <1>7 DEF vars, driver, client, SentInv
<1> QED BY <1>2, <1>3, <1>4, <1>5, <1>6, <1>7 DEF Next

LEMMA InitRest == Init => LockHeld /\ ModemOnRecord /\ SentInv
<1> SUFFICES ASSUME Init PROVE LockHeld /\ ModemOnRecord /\ SentInv
  OBVIOUS
<1>1. radio = NewRadio /\ lock = Free /\ rpc = "absent" /\ cpc = "idle"
  BY DEF Init, SchedInit, DriverInit, ReceiverInit, ClientInit
<1>2. NewRadio.ptype = "GFSK" /\ NewRadio.irq = {} /\ NewRadio.mode = "Sleep"
  BY DEF NewRadio, ConfigureForWmbus, ApplyProfile, SetDioIrqParams, SetModulationParams, SetPacketType
<1> QED BY <1>1, <1>2 DEF LockHeld, InPoll, Free, ModemOnRecord, SentInv, TxBit

(* process_irqs_with_mode gives up for want of LoRa parameters only after  *)
(* a failed change of profile (ParamsOnRecord; driver.rs).                 *)
THEOREM RadioParamsOnRecord == Spec => []ParamsOnRecord
<1> DEFINE Inv == Typed /\ LockHeld /\ ModemOnRecord
<1>1. Init => Inv
  BY InitTyped, InitRest
<1>2. Inv /\ [Next]_vars => Inv'
  BY TypedStep, LockStep, ModemStep
<1>3. Inv => ParamsOnRecord
  BY DEF ModemOnRecord, InPoll, ParamsOnRecord
<1> QED BY <1>1, <1>2, <1>3, PTL DEF Spec

(* A transmission reported complete has left the air, unless an SPI access *)
(* failed (transmit's wait for TxDone).                                    *)
THEOREM RadioOkMeansSent == Spec => OkMeansSent
<1> DEFINE Inv == Typed /\ LockHeld /\ SentInv
<1> DEFINE A == cpc = "on_air" /\ cpc' = "idle" /\ result' = "ok" => radio.mode # "Tx" \/ faults > 0
<1>1. Init => Inv
  BY InitTyped, InitRest
<1>2. Inv /\ [Next]_vars => Inv'
  BY TypedStep, LockStep, SentStep
<1>3. Inv /\ [Next]_vars => [A]_vars
  <2> SUFFICES ASSUME Inv, [Next]_vars, cpc = "on_air", cpc' = "idle", result' = "ok", faults = 0
               PROVE  radio.mode # "Tx"
    BY MaxFaultsAssumption DEF Typed, TypeOK, SchedTypeOK, DriverTypeOK
  <2>1. ClientCall \/ ClientStep
    BY DEF Next, client, vars, TxEnds
  <2>2. TxPoll
    BY <2>1 DEF ClientCall, SendFrame, TransmitCall, Call, Sleep, WakeUp, GetRadioStatus, ClientStep,
       LbtVerdict, TransmitFromLbt, ListenVerdict, Load, Send, CallFails, Return
  <2> QED BY <2>2 DEF TxPoll, SentInv, TxBit, Return
<1> QED BY <1>1, <1>2, <1>3, PTL DEF Spec, OkMeansSent

(* While a frame is on the air nobody else commands the chip out of it:    *)
(* the receiver and the scheduler wait for the lock (transmit).            *)
THEOREM RadioOnAirUndisturbed == Spec => OnAirUndisturbed
<1> DEFINE Inv == Typed /\ LockHeld
<1> DEFINE A == cpc = "on_air" /\ radio.mode = "Tx" => radio'.mode \in {"Tx", "StandbyRc"}
<1>1. Init => Inv
  BY InitTyped, InitRest
<1>2. Inv /\ [Next]_vars => Inv'
  BY TypedStep, LockStep
<1>3. Inv /\ [Next]_vars => [A]_vars
  <2> SUFFICES ASSUME Inv, [Next]_vars, cpc = "on_air", radio.mode = "Tx"
               PROVE  radio'.mode \in {"Tx", "StandbyRc"}
    OBVIOUS
  <2>1. radio \in RadioType /\ lock = "client"
    BY DEF Typed, TypeOK, SchedTypeOK, DriverTypeOK, LockHeld
  <2>2. CASE SchedNext
    BY <2>1, <2>2, SchedEffect DEF Free
  <2>3. CASE ReceiverNext
    BY <2>1, <2>3, ArriveEffect DEF ReceiverNext, Task, Control, StartReceiver, StopReceiver, Aborted, Arm,
         SleepDone, Polling, PollIrq, PollClear, PollStatus, PollRead, PollMeta, PollFault, Deliver, Rearm,
         BackoffDone, driver, LockFree, Free, ClearIrq, RadioType
  <2>4. CASE ClientCall \/ ClientStep
    BY <2>1, <2>4 DEF ClientCall, SendFrame, TransmitCall, Call, Sleep, WakeUp, GetRadioStatus, ClientStep,
       LbtVerdict, TransmitFromLbt, ListenVerdict, Load, Send, TxPoll, CallFails, ClearIrq, RadioType
  <2>5. CASE TxEnds
    BY <2>1, <2>5 DEF TxEnds, TxEnded, RadioType
  <2> QED BY <2>2, <2>3, <2>4, <2>5 DEF Next, vars, driver
<1> QED BY <1>1, <1>2, <1>3, PTL DEF Spec, OnAirUndisturbed

-----------------------------------------------------------------------------
(* The order of what is delivered.                                         *)

(* The steps of the task that neither fill the item nor deliver it.        *)
LEMMA OtherTask ==
  ASSUME Typed, Task \/ Control, ~PollStatus, ~PollRead, ~PollMeta, ~Deliver
  PROVE  /\ rpc' \notin {"read", "meta", "deliver"} \/ (rpc' = rpc /\ item' = item)
         /\ UNCHANGED delivered
BY DEF Task, Control, StartReceiver, StopReceiver, Aborted, Arm, SleepDone, Polling, PollIrq, PollClear,
       PollFault, PollFails, NothingFound, Rearm, BackoffDone, Quiet, history, Typed, StartedOnce

LEMMA BufferRange ==
  ASSUME Typed, BufferLatest
  PROVE  /\ Len(air) \in Nat /\ radio.buf.n \in Nat
         /\ radio.buf.n <= Len(air)
         /\ radio.buf.src = "air" => radio.buf.n = Len(air) /\ Len(air) \in 1..MaxPackets
<1>1. radio.buf \in Content /\ Len(air) \in Nat
  BY DEF Typed, TypeOK, SchedTypeOK, DriverTypeOK, RadioType, ReceiverTypeOK
<1> QED BY <1>1, MaxPacketsAssumption DEF Content, BufferLatest

LEMMA DeliverEffect ==
  ASSUME Typed, Deliver
  PROVE  /\ rpc = "deliver" /\ rpc' = "sleep"
         /\ UNCHANGED <<radio, lock, faults, snap, item, handle, air>>
         /\ \/ UNCHANGED delivered
            \/ /\ Len(delivered) \in Nat
               /\ DOMAIN delivered = 1..Len(delivered)
               /\ DOMAIN delivered' = 1..(Len(delivered) + 1)
               /\ delivered'[Len(delivered) + 1] = item
               /\ \A i \in DOMAIN delivered : delivered'[i] = delivered[i]
<1>1. delivered \in Seq(Item) /\ item \in Item
  BY DEF Typed, TypeOK, ReceiverTypeOK
<1>2. delivered' = delivered \/ delivered' = Append(delivered, item)
  BY DEF Deliver
<1> QED BY <1>1, <1>2 DEF Deliver, driver

LEMMA OrderStep == Typed /\ LockHeld /\ OrderInv /\ [Next]_vars => OrderInv'
<1> SUFFICES ASSUME Typed, LockHeld, OrderInv, [Next]_vars PROVE OrderInv'
  OBVIOUS
<1>1. /\ item \in Item /\ delivered \in Seq(Item) /\ Len(air) \in Nat
      /\ DOMAIN delivered = 1..Len(delivered) /\ Len(delivered) \in Nat
  BY DEF Typed, TypeOK, ReceiverTypeOK
<1>2. \A c \in Content : c.n \in Nat /\ c.src \in {"none", "tx", "air"}
  BY MaxPacketsAssumption DEF Content
<1>3. ASSUME radio'.buf = radio.buf, UNCHANGED <<receiver, history>> PROVE OrderInv'
  BY <1>3 DEF OrderInv, BufferLatest, ItemOrdered, Ordered, Follows, FromAir, Heard, receiver, history
<1>4. CASE Air /\ UNCHANGED <<sched, client>>
  <2>1. Len(air') = Len(air) + 1 /\ radio'.buf.src = "air" /\ radio'.buf.n = Len(air')
    BY <1>4, ArriveEffect DEF Packet
  <2>2. UNCHANGED <<rpc, item, delivered>>
    BY <1>4, ArriveEffect
  <2>3. ASSUME NEW i \in Item, Ordered(i) PROVE Ordered(i)'
    <3>1. i.data.n \in Nat
      BY <1>2 DEF Item
    <3> QED BY <1>1, <2>1, <2>3, <3>1 DEF Ordered
  <2>4. \A i \in DOMAIN delivered : delivered[i] \in Item
    BY <1>1
  <2>5. BufferLatest'
    BY <2>1 DEF BufferLatest
  <2>6. ItemOrdered'
    <3>1. item.len.n \in Nat /\ item.data.n \in Nat
      BY <1>1, <1>2 DEF Item
    <3> QED BY <1>1, <2>1, <2>2, <2>3, <3>1 DEF OrderInv, ItemOrdered
  <2> QED BY <2>2, <2>3, <2>4, <2>5, <2>6 DEF OrderInv, Follows, FromAir, Heard
<1>5. CASE (Task \/ Control) /\ UNCHANGED <<sched, client>>
  <2>1. /\ radio'.buf = radio.buf /\ UNCHANGED air
    BY <1>5, TaskEffect
  <2>2. BufferLatest'
    BY <2>1 DEF OrderInv, BufferLatest
  <2>3. CASE PollStatus
    <3>1. rpc' = "read" /\ item'.len = radio.buf /\ UNCHANGED delivered
      BY <1>1, <2>3 DEF PollStatus, Quiet, history, Item
    <3> QED BY <2>1, <2>2, <3>1, BufferRange DEF OrderInv, ItemOrdered, Ordered, FromAir, Heard
  <2>4. CASE PollRead
    <3>1. /\ rpc = "read" /\ rpc' = "meta" /\ item'.len = item.len /\ item'.data = radio.buf
          /\ UNCHANGED delivered
      BY <1>1, <2>4 DEF PollRead, Quiet, history, Item
    <3>2. ItemOrdered'
      BY <2>1, <3>1, BufferRange DEF OrderInv, ItemOrdered
    <3>3. Follows(item)'
      BY <2>1, <3>1, BufferRange DEF OrderInv, Follows, Ordered, FromAir, Heard
    <3> QED BY <2>1, <2>2, <3>1, <3>2, <3>3 DEF OrderInv, Ordered, FromAir, Heard
  <2>5. CASE PollMeta
    <3>1. /\ rpc = "meta" /\ UNCHANGED delivered
          /\ \/ rpc' \in {"rearm", "sleep"}
             \/ /\ rpc' = "deliver" /\ item'.len = item.len /\ item'.data = item.data
                /\ item'.meta = radio.buf
      BY <1>1, <2>5 DEF PollMeta, PollFails, Quiet, history, Item
    <3>2. ItemOrdered'
      BY <2>1, <3>1, BufferRange DEF OrderInv, ItemOrdered, Ordered
    <3>3. rpc' = "deliver" => Follows(item)'
      BY <3>1 DEF OrderInv, Follows, FromAir, Heard
    <3> QED BY <2>1, <2>2, <3>1, <3>2, <3>3 DEF OrderInv, Ordered, FromAir, Heard
  <2>6. CASE Deliver
    <3>1. rpc = "deliver" /\ rpc' = "sleep"
      BY <2>6, DeliverEffect
    <3>2. CASE UNCHANGED delivered
      BY <2>1, <2>2, <3>1, <3>2 DEF OrderInv, ItemOrdered, Ordered, FromAir, Heard
    <3>3. CASE ~UNCHANGED delivered
      <4> DEFINE k == Len(delivered) + 1
      <4>1. /\ DOMAIN delivered' = 1..k /\ delivered'[k] = item
            /\ \A i \in 1..Len(delivered) : delivered'[i] = delivered[i]
        BY <1>1, <2>6, <3>3, DeliverEffect
      <4>2. \A i \in DOMAIN delivered' : Ordered(delivered[i])'
        BY <1>1, <2>1, <3>1, <4>1 DEF OrderInv, ItemOrdered, Ordered
      <4>3. ASSUME NEW i \in DOMAIN delivered', NEW j \in DOMAIN delivered',
                   i < j, FromAir(i)', FromAir(j)'
            PROVE  Heard(i)' <= Heard(j)'
        <5>1. i \in 1..Len(delivered) /\ (j \in 1..Len(delivered) \/ j = k)
          BY <1>1, <4>1, <4>3
        <5> QED BY <1>1, <3>1, <4>1, <4>3, <5>1 DEF OrderInv, Follows, FromAir, Heard
      <4> QED BY <2>2, <3>1, <4>2, <4>3 DEF OrderInv, ItemOrdered
    <3> QED BY <3>2, <3>3
  <2>7. CASE ~PollStatus /\ ~PollRead /\ ~PollMeta /\ ~Deliver
    BY <1>5, <2>1, <2>2, <2>7, OtherTask DEF OrderInv, ItemOrdered, Ordered, Follows, FromAir, Heard
  <2> QED BY <2>3, <2>4, <2>5, <2>6, <2>7
<1>6. CASE (ClientCall \/ ClientStep) /\ UNCHANGED <<sched, receiver, history>>
  <2>1. radio'.buf \in {radio.buf, OwnTx} /\ ~InPoll
    BY <1>6, ClientEffect
  <2> QED BY <1>6, <2>1 DEF OrderInv, BufferLatest, ItemOrdered, Ordered, Follows, FromAir, Heard,
                            receiver, history, InPoll, OwnTx
<1>7. CASE TxEnds /\ UNCHANGED <<sched, receiver, history>>
  <2>1. radio'.buf = radio.buf
    BY <1>7 DEF TxEnds, TxEnded, Typed, TypeOK, SchedTypeOK, DriverTypeOK, RadioType
  <2> QED BY <1>3, <1>7, <2>1
<1>8. CASE SchedNext /\ UNCHANGED <<receiver, history, client>>
  BY <1>3, <1>8, SchedEffect
<1>9. CASE UNCHANGED vars
  BY <1>3, <1>9 DEF vars, driver
<1> QED BY <1>4, <1>5, <1>6, <1>7, <1>8, <1>9 DEF Next, ReceiverNext

-----------------------------------------------------------------------------
(* The number of copies.                                                   *)
LEMMA CopiesFinite ==
  ASSUME Typed, NEW n
  PROVE  IsFiniteSet(Copies(n)) /\ Cardinality(Copies(n)) \in Nat
<1>1. DOMAIN delivered = 1..Len(delivered) /\ Len(delivered) \in Nat
  BY DEF Typed, TypeOK, ReceiverTypeOK
<1>2. IsFiniteSet(1..Len(delivered)) /\ Copies(n) \subseteq 1..Len(delivered)
  BY <1>1, FS_Interval DEF Copies
<1> QED BY <1>2, FS_Subset, FS_CardinalityType

(* A step that delivers nothing keeps the bound if it announces a packet   *)
(* only by unreading it, and takes in hand only what was coming.           *)
LEMMA CopiesKept ==
  ASSUME Typed, CopiesInv, UNCHANGED delivered, Len(air') = Len(air),
         \A n \in 1..MaxPackets : InHand(n)' => InHand(n) \/ (n = Len(air) /\ Coming),
         \A n \in 1..MaxPackets : n = Len(air) =>
           One(InHand(n) \/ Coming)' + One(Announced)' <= One(InHand(n) \/ Coming) + One(Announced)
  PROVE  CopiesInv'
<1> SUFFICES ASSUME NEW n \in 1..MaxPackets
             PROVE  /\ Cardinality(Copies(n)') + One(InHand(n)') <= 2
                    /\ n = Len(air') =>
                         Cardinality(Copies(n)') + One(InHand(n) \/ Coming)' + One(Announced)' <= 2
                    /\ n > Len(air') => Copies(n)' = {} /\ ~InHand(n)'
  BY DEF CopiesInv
<1>1. Copies(n)' = Copies(n)
  BY DEF Copies
<1>2. Cardinality(Copies(n)) \in Nat /\ Len(air) \in Nat
  BY CopiesFinite DEF Typed, TypeOK, ReceiverTypeOK
<1>3. \A b : One(b) \in {0, 1}
  BY DEF One
<1>4. n > Len(air') => Copies(n)' = {} /\ ~InHand(n)'
  BY <1>1, <1>2 DEF CopiesInv
<1>5. n = Len(air') => Cardinality(Copies(n)') + One(InHand(n) \/ Coming)' + One(Announced)' <= 2
  BY <1>1, <1>2, <1>3 DEF CopiesInv
<1>6. Cardinality(Copies(n)') + One(InHand(n)') <= 2
  <2>1. CASE InHand(n) \/ ~InHand(n)'
    BY <1>1, <1>2, <2>1 DEF CopiesInv, One
  <2>2. CASE ~InHand(n) /\ InHand(n)'
    BY <1>1, <1>2, <1>3, <2>2 DEF CopiesInv, One
  <2> QED BY <2>1, <2>2
<1> QED BY <1>4, <1>5, <1>6

LEMMA DeliverCopies ==
  ASSUME Typed, CopiesInv, Deliver
  PROVE  CopiesInv'
<1>1. /\ rpc = "deliver" /\ rpc' = "sleep"
      /\ UNCHANGED <<radio, snap, item, air>>
  BY DeliverEffect
<1>2. CASE UNCHANGED delivered
  BY <1>1, <1>2, CopiesKept DEF InHand, Coming, Announced, One
<1>3. CASE ~UNCHANGED delivered
  <2> DEFINE k == Len(delivered) + 1
  <2>1. /\ k \in Nat /\ DOMAIN delivered = 1..Len(delivered) /\ DOMAIN delivered' = 1..k
        /\ Len(delivered) \in Nat
        /\ delivered'[k] = item /\ \A i \in 1..Len(delivered) : delivered'[i] = delivered[i]
    BY <1>3, DeliverEffect
  <2> SUFFICES ASSUME NEW n \in 1..MaxPackets
               PROVE  /\ Cardinality(Copies(n)') + One(InHand(n)') <= 2
                      /\ n = Len(air') =>
                           Cardinality(Copies(n)') + One(InHand(n) \/ Coming)' + One(Announced)' <= 2
                      /\ n > Len(air') => Copies(n)' = {} /\ ~InHand(n)'
    BY DEF CopiesInv
  <2>2. ~InHand(n)' /\ ~Coming' /\ ~Coming /\ Announced' = Announced /\ InHand(n) = (item.data = Packet(n))
    BY <1>1 DEF InHand, Coming, Announced
  <2>3. k \notin Copies(n) /\ IsFiniteSet(Copies(n)) /\ Cardinality(Copies(n)) \in Nat
    <3>1. k \notin Copies(n)
      BY <2>1 DEF Copies
    <3> QED BY <3>1, CopiesFinite
  <2>4. CASE item.data = Packet(n)
    <3>1. Copies(n)' = Copies(n) \cup {k}
      BY <2>1, <2>4 DEF Copies
    <3>2. Cardinality(Copies(n)') = Cardinality(Copies(n)) + 1 /\ InHand(n)
      <4> HIDE DEF k
      <4>1. Cardinality(Copies(n) \cup {k}) = Cardinality(Copies(n)) + 1
        BY <2>3, FS_AddElement
      <4> QED BY <2>2, <2>4, <3>1, <4>1
    <3> QED BY <1>1, <2>2, <2>3, <3>2 DEF CopiesInv, One
  <2>5. CASE item.data # Packet(n)
    <3>1. Copies(n)' = Copies(n)
      BY <2>1, <2>5 DEF Copies
    <3> QED BY <1>1, <2>2, <2>3, <3>1 DEF CopiesInv, One
  <2> QED BY <2>4, <2>5
<1> QED BY <1>2, <1>3

LEMMA CopiesStep == Typed /\ LockHeld /\ OrderInv /\ CopiesInv /\ [Next]_vars => CopiesInv'
<1> SUFFICES ASSUME Typed, LockHeld, OrderInv, CopiesInv, [Next]_vars PROVE CopiesInv'
  OBVIOUS
<1>1. ASSUME UNCHANGED <<receiver, history>>, "RxDone" \in radio'.irq => "RxDone" \in radio.irq
      PROVE  CopiesInv'
  <2>1. UNCHANGED <<rpc, snap, item, delivered, air>>
    BY <1>1 DEF receiver, history
  <2> QED BY <1>1, <2>1, CopiesKept DEF InHand, Coming, Announced, One
<1>2. CASE Air
  <2>1. /\ Len(air') = Len(air) + 1 /\ Len(air) \in Nat
        /\ UNCHANGED <<rpc, snap, item, delivered>>
    BY <1>2, ArriveEffect DEF Typed, TypeOK, ReceiverTypeOK
  <2> SUFFICES ASSUME NEW n \in 1..MaxPackets
               PROVE  /\ Cardinality(Copies(n)') + One(InHand(n)') <= 2
                      /\ n = Len(air') =>
                           Cardinality(Copies(n)') + One(InHand(n) \/ Coming)' + One(Announced)' <= 2
                      /\ n > Len(air') => Copies(n)' = {} /\ ~InHand(n)'
    BY DEF CopiesInv
  <2>2. Copies(n)' = Copies(n) /\ InHand(n)' = InHand(n)
    BY <2>1 DEF Copies, InHand
  <2>3. n = Len(air') => Cardinality(Copies(n)') = 0
    BY <2>1, <2>2, FS_EmptySet DEF CopiesInv
  <2> QED BY <2>1, <2>2, <2>3 DEF CopiesInv, One
<1>3. CASE Task \/ Control
  <2>1. UNCHANGED air /\ radio'.irq \subseteq radio.irq
    BY <1>3, TaskEffect
  <2>2. CASE Deliver
    BY <2>2, DeliverCopies
  <2>3. CASE PollIrq
    <3>1. UNCHANGED <<delivered, radio>> /\ rpc = "poll" /\ (rpc' = "sleep" \/ (rpc' = "clear" /\ snap' = radio.irq))
      BY <2>3 DEF PollIrq, NothingFound, Quiet, history
    <3> QED BY <2>1, <3>1, CopiesKept DEF InHand, Coming, Announced, One
  <2>4. CASE PollClear
    <3>1. /\ UNCHANGED <<delivered, snap>> /\ rpc = "clear" /\ "RxDone" \notin radio'.irq
          /\ IF "RxDone" \in snap THEN rpc' = "status" ELSE rpc' = "sleep"
      BY <2>4 DEF PollClear, NothingFound, Quiet, history, ClearIrq, IrqBit, Typed, TypeOK, SchedTypeOK,
                  DriverTypeOK, RadioType
    <3> QED BY <2>1, <3>1, CopiesKept DEF InHand, Coming, Announced, One
  <2>5. CASE PollStatus
    <3>1. UNCHANGED <<delivered, radio>> /\ rpc = "status" /\ rpc' = "read"
      BY <2>5 DEF PollStatus, Quiet, history, driver
    <3> QED BY <2>1, <3>1, CopiesKept DEF InHand, Coming, Announced, One
  <2>6. CASE PollRead
    <3>1. UNCHANGED <<delivered, radio>> /\ rpc = "read" /\ rpc' = "meta" /\ item'.data = radio.buf
      BY <2>6 DEF PollRead, Quiet, history, driver, Typed, TypeOK, ReceiverTypeOK, Item
    <3>2. ASSUME NEW n \in 1..MaxPackets, InHand(n)' PROVE n = Len(air)
      BY <3>1, <3>2 DEF InHand, Packet, OrderInv, BufferLatest
    <3> QED BY <2>1, <3>1, <3>2, CopiesKept DEF InHand, Coming, Announced, One
  <2>7. CASE PollMeta
    <3>1. /\ UNCHANGED <<delivered, radio>> /\ rpc = "meta"
          /\ rpc' \in {"rearm", "sleep"} \/ (rpc' = "deliver" /\ item'.data = item.data)
      BY <2>7 DEF PollMeta, PollFails, Quiet, history, Typed, TypeOK, ReceiverTypeOK, Item
    <3> QED BY <2>1, <3>1, CopiesKept DEF InHand, Coming, Announced, One
  <2>8. CASE PollFault
    <3>1. UNCHANGED <<delivered, radio, snap>> /\ rpc' \in {"rearm", "sleep"}
      BY <2>8 DEF PollFault, PollFails, Quiet, history
    <3> QED BY <2>1, <3>1, CopiesKept DEF InHand, Coming, Announced, One
  <2>9. CASE Control \/ Arm \/ SleepDone \/ Rearm \/ BackoffDone
    <3>1. /\ UNCHANGED <<delivered, snap, item>>
          /\ rpc \notin {"clear", "status", "read"} /\ rpc' \notin {"clear", "status", "read", "meta", "deliver"}
          \/ rpc' = rpc
      BY <2>9 DEF Control, StartReceiver, StopReceiver, Aborted, Awaiting, Arm, SleepDone, Rearm,
                  BackoffDone, Quiet, history, Typed, StartedOnce
    <3>2. UNCHANGED <<delivered, snap, item>>
      BY <2>9 DEF Control, StartReceiver, StopReceiver, Aborted, Arm, SleepDone, Rearm,
                  BackoffDone, Quiet, history
    <3> QED BY <2>1, <3>1, <3>2, CopiesKept DEF InHand, Coming, Announced, One
  <2> QED BY <1>3, <2>2, <2>3, <2>4, <2>5, <2>6, <2>7, <2>8, <2>9 DEF Task, Polling
<1>4. CASE SchedNext /\ UNCHANGED <<receiver, history, client>>
  BY <1>1, <1>4, SchedEffect
<1>5. CASE (ClientCall \/ ClientStep) /\ UNCHANGED <<sched, receiver, history>>
  BY <1>1, <1>5, ClientEffect
<1>6. CASE TxEnds /\ UNCHANGED <<sched, receiver, history>>
  BY <1>1, <1>6 DEF TxEnds, TxEnded, Typed, TypeOK, SchedTypeOK, DriverTypeOK, RadioType
<1>7. CASE UNCHANGED vars
  BY <1>1, <1>7 DEF vars, driver
<1> QED BY <1>2, <1>3, <1>4, <1>5, <1>6, <1>7 DEF Next, ReceiverNext

-----------------------------------------------------------------------------
(* Items never run backwards, no item mixes an older length or older       *)
(* metadata with its bytes, and no packet is handed on more than twice,    *)
(* however packets fall between the SPI accesses of a poll and whatever    *)
(* the other users of the radio do (process_irqs_with_mode, receiver loop).*)
THEOREM RadioDeliversFaithfully == Spec => []DeliveredFaithfully
<1> DEFINE Inv == Typed /\ LockHeld /\ OrderInv /\ CopiesInv
<1>1. Init => Inv
  <2> SUFFICES ASSUME Init PROVE Inv
    OBVIOUS
  <2>1. air = <<>> /\ delivered = <<>> /\ rpc = "absent"
    BY DEF Init, ReceiverInit
  <2>2. radio.buf.src = "none"
    BY DEF Init, SchedInit, DriverInit, NewRadio, ConfigureForWmbus, ApplyProfile, SetDioIrqParams,
           SetModulationParams, SetPacketType, Blank
  <2>3. OrderInv
    BY <2>1, <2>2 DEF OrderInv, BufferLatest, ItemOrdered
  <2>4. \A n : Copies(n) = {} /\ ~InHand(n) /\ ~Coming
    BY <2>1 DEF Copies, InHand, Coming
  <2>5. CopiesInv
    BY <2>4, FS_EmptySet DEF CopiesInv, One
  <2> QED BY <2>3, <2>5, InitTyped, InitRest
<1>2. Inv /\ [Next]_vars => Inv'
  BY TypedStep, LockStep, OrderStep, CopiesStep
<1>3. Inv => DeliveredFaithfully
  <2> SUFFICES ASSUME Inv PROVE DeliveredFaithfully
    OBVIOUS
  <2>1. InOrder
    BY DEF OrderInv, Ordered, InOrder, FromAir, Heard
  <2>2. ASSUME NEW n \in 1..MaxPackets PROVE Cardinality(Copies(n)) <= 2
    BY CopiesFinite DEF CopiesInv, One
  <2> QED BY <2>1, <2>2 DEF DeliveredFaithfully, DeliveredAtMostTwice, Copies
<1> QED BY <1>1, <1>2, <1>3, PTL DEF Spec
=============================================================================
