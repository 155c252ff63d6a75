---------------------------- MODULE Sx126xDriver ----------------------------
(***************************************************************************)
(* The SX126x transceiver and the state its driver keeps about it          *)
(* (src/wmbus/radio/driver.rs).                                            *)
(*                                                                         *)
(* One record, radio, holds both sides of the SPI bus:                     *)
(*   chip    mode    operating mode reported by GetStatus                  *)
(*           modem   packet type selected by SetPacketType                 *)
(*           mask    interrupts enabled by SetDioIrqParams                 *)
(*           irq     latched interrupts, cleared by ClearIrqStatus         *)
(*           buf     content of the data buffer at base address 0, the     *)
(*                   base of both directions (SetBufferBaseAddress(0, 0))  *)
(*   driver  state   current_state, refreshed by get_state and set_sleep   *)
(*           ptype   current_packet_type                                   *)
(*           mod     modem of current_mod_params                           *)
(*                                                                         *)
(* A driver method is an operator from radio to radio.  The chip itself is *)
(* outside the repository: it is modelled from the commands the driver     *)
(* sends, from how it reads the answers, and from the test double          *)
(* RecordingHal (src/wmbus/radio/hal/mod.rs).                              *)
(***************************************************************************)
EXTENDS Naturals

CONSTANTS
  MaxPackets,           \* bound: packets the air delivers in one behaviour
  MaxFaults             \* bound: SPI accesses that fail in one behaviour

ASSUME MaxPacketsAssumption == MaxPackets \in Nat
ASSUME MaxFaultsAssumption == MaxFaults \in Nat

VARIABLES
  radio,                \* the chip and the driver's view of it
  lock,                 \* who holds the tokio Mutex around the driver
  faults                \* SPI accesses that have failed so far

driver == <<radio, lock, faults>>

Modem == {"GFSK", "LoRa"}
Unset == "unset"        \* Option::None, and a chip never given a packet type

Free == "free"
Holder == {Free, "receiver", "client"}

RadioState == {"Sleep", "StandbyRc", "Rx", "Tx"}
Standby    == {"StandbyRc"}
IrqBit     == {"RxDone", "TxDone", "CrcErr", "HeaderValid", "Timeout"}

(* What the data buffer can hold: nothing yet, the n-th packet of the air,  *)
(* or a payload the driver wrote for transmission.                         *)
Content == [src : {"none", "tx"}, n : {0}] \cup [src : {"air"}, n : 1..MaxPackets]
Blank   == [src |-> "none", n |-> 0]
OwnTx   == [src |-> "tx", n |-> 0]
Packet(n) == [src |-> "air", n |-> n]

RadioType ==
  [mode : RadioState, modem : Modem \cup {Unset}, mask : SUBSET IrqBit,
   irq : SUBSET IrqBit, buf : Content,
   state : RadioState, ptype : Modem \cup {Unset}, mod : Modem \cup {Unset}]

-----------------------------------------------------------------------------
(* Driver methods.                                                         *)

(* get_state: GetStatus, and the tracked state follows.                    *)
GetState(r) == [r EXCEPT !.state = r.mode]

(* set_standby(RC): every tracked state may go to StandbyRc, so the command *)
(* is always sent; wait_for_state then reads the mode back.                *)
SetStandbyCommand(r) == [r EXCEPT !.mode = "StandbyRc"]
SetStandby(r)        == GetState(SetStandbyCommand(r))

(* set_sleep: the guard is on the tracked state, not on the chip's mode.   *)
MaySleep(r) == r.state \in Standby
SetSleep(r) == [r EXCEPT !.mode = "Sleep", !.state = "Sleep"]

(* set_rx and set_rx_continuous: no check of the state, none recorded.     *)
SetRx(r) == [r EXCEPT !.mode = "Rx"]
SetTx(r) == [r EXCEPT !.mode = "Tx"]
WriteBuffer(r) == [r EXCEPT !.buf = OwnTx]
ClearIrq(r, bits) == [r EXCEPT !.irq = @ \ bits]

SetPacketType(r, p)       == [r EXCEPT !.modem = p, !.ptype = p]
SetModulationParams(r, p) == [r EXCEPT !.mod = p]

(* Mutant of ProfileMask: the LoRa profile also routes CadDone.            *)
ProfileMaskCad(p) ==
  IF p = "GFSK" THEN {"RxDone", "TxDone", "CrcErr", "Timeout"}
                ELSE {"RxDone", "HeaderValid", "CrcErr", "Timeout", "CadDone"}

(* The interrupts each profile routes; the LoRa profile leaves TxDone out. *)
ProfileMask(p) ==
  IF p = "GFSK" THEN {"RxDone", "TxDone", "CrcErr", "Timeout"}
                ELSE {"RxDone", "HeaderValid", "CrcErr", "Timeout"}
SetDioIrqParams(r, p) == [r EXCEPT !.mask = ProfileMask(p)]

(* Mutant of ApplyProfile: LoRa modulation parameters are not sent.        *)
ApplyProfileWithoutLoRaParams(r, p) ==
  SetDioIrqParams(IF p = "LoRa" THEN r ELSE SetModulationParams(r, p), p)

(* apply_wmbus_profile and apply_lora_profile, reduced to the settings the *)
(* receive path depends on.                                                *)
ApplyProfile(r, p) == SetDioIrqParams(SetModulationParams(r, p), p)

(* Mutant of SwitchProfile: only the packet type is flipped, as            *)
(* switch_to_gfsk_mode and switch_to_lora_mode do.                         *)
SwitchPacketTypeOnly(r, p) == SetPacketType(SetStandby(r), p)

ConfigureForWmbus(r)  == ApplyProfile(SetPacketType(r, "GFSK"), "GFSK")
SwitchProfile(r, p)   == ApplyProfile(SetPacketType(SetStandby(r), p), p)

(* Mutant of EnterProfileRx: switch_profile's standby is left as it is.    *)
EnterProfileStandby(r, p) == SwitchProfile(SetStandby(r), p)

(* ProfileScheduler::enter_profile_rx: stop_receive, switch_profile and     *)
(* start_receive, all under one hold of the lock.                          *)
EnterProfileRx(r, p) == SetRx(SwitchProfile(SetStandby(r), p))

(* The same sequence cut short by a HAL error: what the commands sent so   *)
(* far have done.  In order, the failing access is SetStandby, the status  *)
(* read behind it, SetPacketType, a setting up to the modulation, one up   *)
(* to the interrupt routing, SetRx.                                        *)
FailedEntry(r, p) ==
  LET selected == SetPacketType(SetStandby(r), p) IN
  { r, SetStandbyCommand(r), SetStandby(r), selected,
    SetModulationParams(selected, p), SwitchProfile(r, p) }

(* Sx126xDriver::new followed by WMBusHandle::new's configure_for_wmbus.   *)
NewRadio ==
  ConfigureForWmbus(
    [mode |-> "Sleep", modem |-> Unset, mask |-> {}, irq |-> {}, buf |-> Blank,
     state |-> "Sleep", ptype |-> Unset, mod |-> Unset])

DriverInit == radio = NewRadio /\ lock = Free /\ faults = 0

DriverTypeOK == radio \in RadioType /\ lock \in Holder /\ faults \in 0..MaxFaults

(* The HAL may fail any access.                                            *)
Fault == faults < MaxFaults /\ faults' = faults + 1

-----------------------------------------------------------------------------
(* The chip between two commands.                                          *)

(* The modem can demodulate p's packets: listening, and its packet type and *)
(* modulation belong together.                                             *)
Hears(r, p) == r.mode = "Rx" /\ r.modem = p /\ r.mod = p

(* Reception of packet n, sent with modem p; the CRC may be wrong.         *)
Received(r, n, p, crcOk) ==
  LET raised == {"RxDone"} \cup (IF p = "LoRa" THEN {"HeaderValid"} ELSE {})
                           \cup (IF crcOk THEN {} ELSE {"CrcErr"})
  IN  [r EXCEPT !.buf = Packet(n), !.irq = @ \cup (raised \cap r.mask)]

(* A transmission ends, or its timer does: back to standby either way.     *)
TxEnded(r, bit) == [r EXCEPT !.mode = "StandbyRc", !.irq = @ \cup ({bit} \cap r.mask)]

(* The radio is armed in a complete profile p, and the driver knows it.    *)
ArmedIn(r, p) ==
  /\ Hears(r, p)
  /\ r.ptype = p
  /\ r.mask = ProfileMask(p)
=============================================================================
