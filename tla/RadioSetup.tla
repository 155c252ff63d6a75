----------------------------- MODULE RadioSetup -----------------------------
(***************************************************************************)
(* Setting the SX126x up for one modem or the other, and listening for     *)
(* LoRa activity (src/wmbus/radio/driver.rs, the methods an owner of the   *)
(* driver calls himself, in any order).  A method is a sequence of         *)
(* commands, any of which may fail and end it; the chip keeps what it was  *)
(* told up to then.  While the chip receives or detects activity it does   *)
(* not take a packet type, modulation or packet parameters: the comment in *)
(* switch_profile, "Standby - required before changing packet type".       *)
(***************************************************************************)
EXTENDS Naturals, Sequences

CONSTANTS
  SuCalls,              \* bound: method calls in one behaviour
  SuFaults,             \* bound: SPI accesses that fail
  SuRetries             \* retries of cad_lbt

ASSUME SuAssumption == SuCalls \in Nat /\ SuFaults \in Nat /\ SuRetries \in Nat

VARIABLES
  suRadio,              \* the chip, and what the driver holds of it
  suCall,               \* the method running, or the last one with what it told
  suPlan,               \* commands it has still to send
  suTaken,              \* the chip took every setting of this call
  suCad,                \* activity detection: attempts made, and whether the latched
                        \* bits are of an earlier detection than the last
  suBroken,             \* a detection was given up with its bits not cleared
  suLeft                \* calls and faults used up

suVars == <<suRadio, suCall, suPlan, suTaken, suCad, suBroken, suLeft>>

SuModem   == {"GFSK", "LoRa"}
SuSetting == {"modem", "mod", "pkt"}
(* What is written whatever the chip is doing: the frequency, the GFSK      *)
(* registers (CRC polynomial, whitening, sync word), and the power         *)
(* amplifier with the buffer bases.                                        *)
SuWritten == {"freq", "sync", "power"}
CadBits   == {"CadDone", "CadDetected"}

(* Sx126xDriver::new on a chip at power-up.                                *)
SuInit ==
  /\ suRadio = [mode |-> "Sleep", modem |-> "unset", mod |-> "unset", pkt |-> "unset",
                freq |-> "unset", sync |-> "unset", power |-> "unset", mask |-> {}, irq |-> {}, state |-> "Sleep", ptype |-> "unset"]
  /\ suCall = [name |-> "none", arg |-> "none", told |-> "Ok"] /\ suPlan = <<>> /\ suTaken = TRUE
  /\ suCad = [tries |-> 0, stale |-> FALSE] /\ suBroken = FALSE
  /\ suLeft = [calls |-> SuCalls, faults |-> SuFaults]

-----------------------------------------------------------------------------
(* The methods as sequences of commands.                                   *)

Send(op, arg)   == <<[op |-> op, arg |-> arg]>>
StandbyRc       == Send("SetStandby", "none") \o Send("GetStatus", "none")
SelectModem(p)  == Send("modem", p)

(* set_rf_frequency; configure_crc, disable_whitening and set_sync_word,     *)
(* which only the wM-Bus profile writes; set_pa_config, set_tx_params and   *)
(* set_buffer_base_addresses.                                              *)
Tune(p)         == Send("freq", p)
WordOf(p)       == IF p = "GFSK" THEN Send("sync", p) ELSE <<>>
Powered(p)      == Send("power", p)

(* The interrupts an application that detects activity routes itself.      *)
RoutedMask(p) == CASE p = "GFSK" -> {"RxDone", "TxDone"}
                   [] p = "LoRa" -> {"RxDone", "HeaderValid"}
                   [] p = "Cad"  -> {"RxDone"} \cup CadBits

(* Mutant of Applied: the packet parameters of the last profile are kept.  *)
AppliedWithoutPacket(p) ==
  Tune(p) \o Send("mod", p) \o WordOf(p) \o Powered(p) \o Send("SetDioIrqParams", p)

(* apply_wmbus_profile, apply_lora_profile                                 *)
Applied(p) ==
  Tune(p) \o Send("mod", p) \o Send("pkt", p) \o WordOf(p) \o Powered(p) \o Send("SetDioIrqParams", p)

ConfigureFor(p)     == SelectModem(p) \o Applied(p)
SwitchedProfile(p)  == StandbyRc \o SelectModem(p) \o Applied(p)
(* configure_for_lora_enhanced: the interrupts are left as they are; the    *)
(* optimisations go through standby once more.                             *)
EnhancedLora        == SelectModem("LoRa") \o Send("mod", "LoRa") \o Send("pkt", "LoRa")
                       \o Tune("LoRa") \o Powered("LoRa") \o StandbyRc \o Send("SetGain", "none")

(* set_rx_boosted_gain, set_regulator_mode and configure_tcxo: standby, and *)
(* one setting no property depends on.                                     *)
Tuned               == StandbyRc \o Send("SetGain", "none")

(* The RadioDriver methods start_receive, and stop_receive or wake_up.      *)
StartReceive        == Send("SetRx", "none")
StopReceive         == StandbyRc

(* is_channel_clear: reception, and one reading of the signal strength. The *)
(* radio is left receiving.                                                *)
Listen              == StartReceive \o Send("GetRssiInst", "none")

(* cad_lbt up to the loop of perform_cad.                                  *)
CadLbt              == StandbyRc \o Send("SetCadParams", "none") \o Send("StartCad", "none")

(* What a call sends; switch_to_lora_mode and switch_to_gfsk_mode are       *)
(* "select".                                                               *)
Commands(name, p) ==
  CASE name = "configure" -> ConfigureFor(p)
    [] name = "switch"    -> SwitchedProfile(p)
    [] name = "enhanced"  -> EnhancedLora
    [] name = "select"    -> SelectModem(p)
    [] name = "route"     -> Send("SetDioIrqParams", "Cad")
    [] name = "tune"      -> Tuned
    [] name = "start"     -> StartReceive
    [] name = "stop"      -> StopReceive
    [] name = "sleep"     -> Send("SetSleep", "none")
    [] name = "cad"       -> CadLbt
    [] name = "listen"    -> Listen

(* set_sleep is refused by the state on record; every method but those two *)
(* that name a modem has one form.                                         *)
Call(name, p) ==
  /\ suPlan = <<>> /\ suLeft.calls > 0
  /\ name \in {"configure", "switch", "select"} \/ p = "LoRa"
  /\ suLeft' = [suLeft EXCEPT !.calls = @ - 1]
  /\ suTaken' = TRUE
  /\ suCad' = [suCad EXCEPT !.tries = 0]
  /\ IF name = "sleep" /\ suRadio.state # "StandbyRc"
       THEN suCall' = [name |-> name, arg |-> p, told |-> "Err"] /\ UNCHANGED suPlan
       ELSE suCall' = [name |-> name, arg |-> p, told |-> "running"] /\ suPlan' = Commands(name, p)
  /\ UNCHANGED <<suRadio, suBroken>>

(* What a command does to the chip and, once it is sent, to the driver.     *)
Takes(r) == r.mode \in {"Sleep", "StandbyRc"}

(* set_packet_type, set_modulation_params, set_packet_params; the driver   *)
(* takes the packet type on record whether or not the chip took it.        *)
Told(r, s, p) ==
  [r EXCEPT ![s] = IF Takes(r) THEN p ELSE @, !.ptype = IF s = "modem" THEN p ELSE @]
Effect(r, c) ==
  CASE c.op = "SetStandby" -> [r EXCEPT !.mode = "StandbyRc"]
    [] c.op = "GetStatus"  -> [r EXCEPT !.state = r.mode]
    [] c.op \in SuSetting  -> Told(r, c.op, c.arg)
    [] c.op \in SuWritten  -> [r EXCEPT ![c.op] = c.arg]
    [] c.op = "SetDioIrqParams" -> [r EXCEPT !.mask = RoutedMask(c.arg)]
    [] c.op = "SetRx"      -> [r EXCEPT !.mode = "Rx"]
    [] c.op = "SetSleep"   -> [r EXCEPT !.mode = "Sleep", !.state = "Sleep"]
    [] c.op = "StartCad"   -> [r EXCEPT !.mode = "CAD"]
    [] OTHER               -> r

(* After StartCad, perform_cad goes on to its loop.                        *)
Detecting == suCall.told = "running" /\ suPlan # <<>> /\ Head(suPlan).op = "PollCad"

(* get_rssi_instant at the end of check_channel_clear: below the threshold   *)
(* or not.                                                                 *)
Measuring == suPlan # <<>> /\ Head(suPlan).op = "GetRssiInst"

ListenAnswers(heard) ==
  /\ Measuring
  /\ suPlan' = <<>> /\ suCall' = [suCall EXCEPT !.told = heard]
  /\ UNCHANGED <<suRadio, suTaken, suCad, suBroken, suLeft>>

SendCommand ==
  /\ suPlan # <<>> /\ ~Detecting /\ ~Measuring
  /\ LET c == Head(suPlan) IN
     /\ suRadio' = Effect(suRadio, c)
     /\ suTaken' = (suTaken /\ (c.op \in SuSetting => Takes(suRadio)))
     /\ suPlan' = IF c.op = "StartCad" THEN Send("PollCad", "none") ELSE Tail(suPlan)
     /\ suCad' = IF c.op = "StartCad" THEN [suCad EXCEPT !.stale = suRadio.irq # {}] ELSE suCad
     /\ suCall' = [suCall EXCEPT !.told = IF suPlan' = <<>> THEN "Ok" ELSE @]
  /\ UNCHANGED <<suBroken, suLeft>>

(* A command, or an access of the loop, fails: `?` ends the call.           *)
SpiFails ==
  /\ suPlan # <<>> /\ suLeft.faults > 0
  /\ suLeft' = [suLeft EXCEPT !.faults = @ - 1]
  /\ suPlan' = <<>> /\ suCall' = [suCall EXCEPT !.told = "Err"]
  /\ suBroken' = (suBroken \/ Detecting)
  /\ UNCHANGED <<suRadio, suTaken, suCad>>

(* Mutant of ClearedCad: only CadDetected (bit 8) is cleared.              *)
ClearedDetectedOnly(r) == [r EXCEPT !.irq = @ \ {"CadDetected"}]

(* clear_irq_status(0x0180): CadDone is bit 7, CadDetected is bit 8.       *)
ClearedCad(r) == [r EXCEPT !.irq = @ \ CadBits]

(* perform_cad finds CadDone and cad_lbt goes by the answer: clear is told, *)
(* activity is retried until the retries are used up.                      *)
CadAnswered ==
  /\ Detecting /\ "CadDone" \in suRadio.irq
  /\ suRadio' = ClearedCad(suRadio)
  /\ LET detected == "CadDetected" \in suRadio.irq IN
     IF detected /\ suCad.tries < SuRetries
       THEN /\ suCad' = [suCad EXCEPT !.tries = @ + 1]
            /\ suPlan' = Send("StartCad", "none") /\ UNCHANGED suCall
       ELSE /\ suPlan' = <<>> /\ UNCHANGED suCad
            /\ suCall' = [suCall EXCEPT !.told = IF detected THEN "busy" ELSE "clear"]
  /\ UNCHANGED <<suTaken, suBroken, suLeft>>

(* Its 100 ms are over first: the detection is longer, or its end is not    *)
(* routed to the interrupts, as after every profile.                       *)
CadTimesOut ==
  /\ Detecting /\ "CadDone" \notin suRadio.irq
  /\ suPlan' = <<>> /\ suCall' = [suCall EXCEPT !.told = "Err"] /\ suBroken' = TRUE
  /\ UNCHANGED <<suRadio, suTaken, suCad, suLeft>>

(* The chip ends a detection (CadOnly: back to standby).                   *)
CadEnds(activity) ==
  /\ suRadio.mode = "CAD"
  /\ LET raised == {"CadDone"} \cup (IF activity THEN {"CadDetected"} ELSE {}) IN
     suRadio' = [suRadio EXCEPT !.mode = "StandbyRc", !.irq = @ \cup (raised \cap suRadio.mask)]
  /\ UNCHANGED <<suCall, suPlan, suTaken, suCad, suBroken, suLeft>>

SuNext ==
  \/ \E name \in {"configure", "switch", "enhanced", "select", "route", "tune", "start", "stop",
                  "sleep", "cad", "listen"}, p \in SuModem : Call(name, p)
  \/ SendCommand \/ SpiFails \/ CadAnswered \/ CadTimesOut
  \/ \E activity \in BOOLEAN : CadEnds(activity)
  \/ \E heard \in {"silent", "occupied"} : ListenAnswers(heard)

-----------------------------------------------------------------------------
SetUpFor(r, p) ==
  /\ \A s \in SuSetting \cup {"freq", "power"} : r[s] = p
  /\ p = "GFSK" => r.sync = p
  /\ r.ptype = p /\ r.mask = RoutedMask(p)

(* Whatever was done to the radio before, however far a method got that    *)
(* failed: a switch_profile that answers Ok leaves it set up for that      *)
(* profile in every part, and so does configure_for_wmbus or               *)
(* configure_for_lora when the chip could take what it was told.           *)
SwitchIsWhole ==
  (/\ suCall.told = "Ok"
   /\ suCall.name = "switch" \/ (suCall.name = "configure" /\ suTaken))
  => SetUpFor(suRadio, suCall.arg)

(* A channel is told silent or occupied by a radio that was receiving when  *)
(* it measured, and that goes on receiving.                                *)
ListensInRx == suCall.told \in {"silent", "occupied"} /\ suPlan = <<>> => suRadio.mode = "Rx"

(* Channel activity detection answers from the detection it started, unless *)
(* an earlier one was given up: its bits, should they be latched later, are *)
(* the answer to the next one.                                             *)
CadAnswersItself == suCall.told \in {"clear", "busy"} => ~suCad.stale \/ suBroken

SetupSound == SwitchIsWhole /\ ListensInRx /\ CadAnswersItself
=============================================================================
