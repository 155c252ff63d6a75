------------------------------ MODULE DutyCycle ------------------------------
(***************************************************************************)
(* Airtime and low-power cycling of a LoRa node: the DutyCycleManager      *)
(* (src/wmbus/radio/lora/duty_cycle.rs) over the driver of Sx126xDriver,   *)
(* and the DutyCycleLimiter of the single-channel gateway                  *)
(* (src/wmbus/radio/lora/single_channel.rs).  Both account for airtime in  *)
(* a sliding window; time and airtime are counted in the same unit, and    *)
(* the percentage is the airtime it allows in one window.                  *)
(*                                                                         *)
(* Every method of the manager takes &mut self, so a tick, with the sleeps *)
(* inside it, is one step in which time passes, and no method is called    *)
(* while run runs.  SPI accesses succeed, but for those of transmit.  The  *)
(* limiter answers whether a transmission is allowed, and counts it when   *)
(* its caller says that it has been made: callers share it, each asking    *)
(* before it transmits.                                                    *)
(***************************************************************************)
EXTENDS Integers, FiniteSets, FiniteSetsExt, Functions

CONSTANTS
  DcWindow,             \* window_duration, window
  DcLimit,              \* airtime the percentage allows in one window
  DcAirtimes,           \* airtimes of the transmissions asked for
  DcActive, DcSleep,    \* active_duration and sleep_duration of LowPower
  DcHorizon,            \* bound: time at which a behaviour of it ends
  DlCallers,            \* tasks that transmit through one limiter
  DlAirtimes,           \* airtimes they ask for
  DlHorizon             \* bound: time at which a behaviour of it ends

ASSUME AirtimeAssumption == DcWindow \in Nat \ {0} /\ DcLimit \in 1..DcWindow
ASSUME DcAssumption ==
  /\ DcAirtimes \subseteq Nat \ {0}
  /\ DcActive \in Nat /\ DcSleep \in Nat \ {0} /\ DcHorizon \in Nat
ASSUME DlAssumption ==
  /\ IsFiniteSet(DlCallers) /\ DlCallers # {} /\ DlHorizon \in Nat
  /\ DlAirtimes \subseteq Nat \ {0} /\ \E longest \in DlAirtimes : \A d \in DlAirtimes : d <= longest

VARIABLES
  dcNow,                \* the clock
  dcMode,               \* power_mode
  dcRun,                \* run is in its loop
  dcRadio,              \* [mode, state]: the chip's mode and the tracked one
  dcSent,               \* tx_time_window.transmissions
  dcStart,              \* tx_time_window.window_start
  dcAir,                \* every transmission started, with its airtime
  dcSlept,              \* low-power ticks that slept since standby was last commanded
  dlNow,                \* the clock of the limiter
  dlHistory,            \* tx_history
  dlGrant               \* airtime a caller has been allowed and not yet recorded

dcVars == <<dcNow, dcMode, dcRun, dcRadio, dcSent, dcStart, dcAir, dcSlept>>
dlVars == <<dlNow, dlHistory, dlGrant>>

-----------------------------------------------------------------------------
(* The sliding window: TransmissionWindow, and tx_history of the limiter.   *)

(* A history is the airtime begun at each instant: entries of one instant   *)
(* are summed up together and dropped together.                            *)
NoAirtime == [t \in {} |-> 0]

(* The airtime in a history, unit by unit.                                  *)
Airtime(sent) == Cardinality(UNION {{t} \X (1..sent[t]) : t \in DOMAIN sent})

(* retain: what the sliding window has left behind is dropped.              *)
Within(sent, now) == Restrict(sent, {t \in DOMAIN sent : t > now - DcWindow})

(* push                                                                    *)
Recorded(sent, now, dur) ==
  [t \in DOMAIN sent \cup {now} |->
     (IF t \in DOMAIN sent THEN sent[t] ELSE 0) + (IF t = now THEN dur ELSE 0)]

(* calculate_duty_cycle, and the sum of the limiter's can_transmit.         *)
Used(sent, now) == Airtime(Within(sent, now))

(* Mutant of CanTransmit: what is about to be sent is not counted.         *)
CanTransmitStill(sent, now, dur) == Used(sent, now) <= DcLimit /\ dur > 0

(* can_transmit                                                            *)
CanTransmit(sent, now, dur) == Used(sent, now) + dur <= DcLimit

-----------------------------------------------------------------------------
(* DutyCycleManager.                                                       *)

Radio == INSTANCE Sx126xDriver
         WITH radio <- dcRadio, lock <- "free", faults <- 0, MaxPackets <- 0, MaxFaults <- 0

PowerMode == {"Active", "LowPower", "UltraLowPower", "DeepSleep"}
PowerUp   == [mode |-> "Sleep", state |-> "Sleep"]

DcInit ==
  /\ dcNow = 0 /\ dcMode = "Active" /\ dcRun = FALSE /\ dcRadio = PowerUp
  /\ dcSent = NoAirtime /\ dcStart = 0 /\ dcAir = NoAirtime /\ dcSlept = 0

(* add_transmission: when the window that began at window_start is over,   *)
(* every transmission is forgotten, the latest ones with the rest.         *)
WindowOver(start, now) == now - start > DcWindow
AddTransmission(sent, start, now, dur) ==
  Recorded(IF WindowOver(start, now) THEN NoAirtime ELSE sent, now, dur)

(* set_power_mode: the commands' errors are logged and the mode stays.     *)
SetPowerMode(m) ==
  /\ ~dcRun
  /\ dcMode' = m
  /\ \/ /\ m = "DeepSleep" /\ Radio!MaySleep(dcRadio)
        /\ dcRadio' = Radio!SetSleep(dcRadio)
        /\ UNCHANGED dcSlept
     \/ /\ m = "Active"
        /\ dcRadio' = Radio!SetStandby(dcRadio)
        /\ dcSlept' = 0
     \/ /\ m = "DeepSleep" => ~Radio!MaySleep(dcRadio)
        /\ m # "Active"
        /\ UNCHANGED <<dcRadio, dcSlept>>
  /\ UNCHANGED <<dcNow, dcRun, dcSent, dcStart, dcAir>>

(* wake                                                                    *)
Wake ==
  /\ ~dcRun
  /\ dcRadio' = Radio!SetStandby(dcRadio)
  /\ dcSlept' = 0
  /\ UNCHANGED <<dcNow, dcMode, dcRun, dcSent, dcStart, dcAir>>

(* transmit: the check, the two commands, then the record.  A refusal and a *)
(* command that fails have only let calculate_duty_cycle tidy the window.  *)
Transmit(dur) ==
  /\ ~dcRun
  /\ \/ /\ CanTransmit(dcSent, dcNow, dur)
        /\ dcSent' = AddTransmission(Within(dcSent, dcNow), dcStart, dcNow, dur)
        /\ dcStart' = IF WindowOver(dcStart, dcNow) THEN dcNow ELSE dcStart
        /\ dcRadio' = Radio!SetTx(dcRadio)
        /\ dcAir' = Recorded(Within(dcAir, dcNow), dcNow, dur)
     \/ /\ dcSent' = Within(dcSent, dcNow)
        /\ UNCHANGED <<dcStart, dcRadio, dcAir>>
  /\ UNCHANGED <<dcNow, dcMode, dcRun, dcSlept>>

(* run: its loop begins, and ends at the shutdown signal.                  *)
Run ==
  /\ dcRun' = ~dcRun
  /\ UNCHANGED <<dcNow, dcMode, dcRadio, dcSent, dcStart, dcAir, dcSlept>>

(* process_tick, LowPower: receive for the active time, then sleep if the   *)
(* airtime is below the limit.  set_rx_continuous leaves the tracked state, *)
(* so the sleep of one tick is what the next one's is refused for; the      *)
(* refusal ends the tick with an error and the chip stays in reception.    *)
LowPowerTick ==
  LET awake == Radio!SetRx(dcRadio)
      then  == dcNow + DcActive
      under == Used(dcSent, then) < DcLimit
  IN /\ dcMode = "LowPower"
     /\ dcSent' = Within(dcSent, then)
     /\ \/ /\ under /\ Radio!MaySleep(awake)
           /\ dcRadio' = Radio!SetSleep(awake)
           /\ dcNow' = then + DcSleep
           /\ dcSlept' = dcSlept + 1
        \/ /\ ~(under /\ Radio!MaySleep(awake))
           /\ dcRadio' = awake
           /\ dcNow' = then + 1
           /\ UNCHANGED dcSlept

(* calculate_adaptive_sleep: the longer the busier, from 1 to DcSleep.     *)
AdaptiveSleep ==
  CASE 5 * Used(dcSent, dcNow) > 4 * DcLimit -> DcSleep
    [] 5 * Used(dcSent, dcNow) < DcLimit     -> 1
    [] OTHER                                 -> (1 + DcSleep) \div 2

(* process_tick, UltraLowPower: sleep first, then listen.                  *)
UltraLowPowerTick ==
  /\ dcMode = "UltraLowPower"
  /\ \/ /\ Radio!MaySleep(dcRadio)
        /\ dcRadio' = Radio!SetRx(Radio!SetSleep(dcRadio))
        /\ dcNow' = dcNow + AdaptiveSleep
        /\ dcSent' = Within(dcSent, dcNow)
     \/ /\ ~Radio!MaySleep(dcRadio)
        /\ dcNow' = dcNow + 1
        /\ UNCHANGED <<dcRadio, dcSent>>
  /\ UNCHANGED dcSlept

(* process_tick, Active and DeepSleep: only the power estimate moves.      *)
IdleTick ==
  /\ dcMode \in {"Active", "DeepSleep"}
  /\ dcNow' = dcNow + 1
  /\ UNCHANGED <<dcRadio, dcSent, dcSlept>>

ProcessTick ==
  /\ dcRun /\ dcNow < DcHorizon
  /\ LowPowerTick \/ UltraLowPowerTick \/ IdleTick
  /\ UNCHANGED <<dcMode, dcRun, dcStart, dcAir>>

(* Time between two calls, while the loop does not run.                    *)
Elapse ==
  /\ ~dcRun /\ dcNow < DcHorizon
  /\ dcNow' = dcNow + 1
  /\ UNCHANGED <<dcMode, dcRun, dcRadio, dcSent, dcStart, dcAir, dcSlept>>

DcNext ==
  \/ \E m \in PowerMode : SetPowerMode(m)
  \/ \E dur \in DcAirtimes : Transmit(dur)
  \/ Wake \/ Run \/ ProcessTick \/ Elapse

-----------------------------------------------------------------------------
(* DutyCycleLimiter.                                                       *)

DlInit == dlNow = 0 /\ dlHistory = NoAirtime /\ dlGrant = [c \in DlCallers |-> 0]

(* can_transmit, whose answer the caller acts upon later.                  *)
Ask(c, dur) ==
  /\ dlGrant[c] = 0
  /\ CanTransmit(dlHistory, dlNow, dur)
  /\ dlGrant' = [dlGrant EXCEPT ![c] = dur]
  /\ dlHistory' = Within(dlHistory, dlNow)
  /\ UNCHANGED dlNow

(* record_transmission                                                     *)
RecordTransmission(c) ==
  /\ dlGrant[c] > 0
  /\ dlHistory' = Within(Recorded(dlHistory, dlNow, dlGrant[c]), dlNow)
  /\ dlGrant' = [dlGrant EXCEPT ![c] = 0]
  /\ UNCHANGED dlNow

(* time_until_available: None (0) while the limit is not reached, else the  *)
(* time to the expiry of the oldest transmission.                          *)
TimeUntilAvailable(history, now) ==
  LET live == DOMAIN Within(history, now)
  IN  IF Used(history, now) < DcLimit \/ live = {} THEN 0 ELSE Min(live) + DcWindow - now

DlElapse == dlNow < DlHorizon /\ dlNow' = dlNow + 1 /\ UNCHANGED <<dlHistory, dlGrant>>

DlNext ==
  \/ \E c \in DlCallers : RecordTransmission(c) \/ \E dur \in DlAirtimes : Ask(c, dur)
  \/ DlElapse

-----------------------------------------------------------------------------
(* Compliance with the duty cycle: the airtime of a sliding window can      *)
(* exceed the limit, because add_transmission forgets recent transmissions  *)
(* with old ones, but never comes to twice the limit.                      *)
OveruseBounded == Used(dcAir, dcNow) < 2 * DcLimit

(* A low-power node sleeps once: from its second tick on set_sleep is       *)
(* refused, until something commands standby (process_tick, LowPower).     *)
SleepsOnce == dcSlept <= 1

MaxAirtime == CHOOSE d \in DlAirtimes : \A e \in DlAirtimes : e <= d

(* The check and the record are two calls, so callers that ask at the same  *)
(* time are all allowed on the strength of the same history: the sliding    *)
(* window exceeds the limit by at most one transmission for each caller but *)
(* the last.  And after the wait time_until_available names the airtime is  *)
(* back below the limit, unless such an excess is still in the window.     *)
LimiterSound ==
  /\ Used(dlHistory, dlNow) <= DcLimit + (Cardinality(DlCallers) - 1) * MaxAirtime
  /\ LET wait == TimeUntilAvailable(dlHistory, dlNow)
     IN  wait > 0 /\ Used(dlHistory, dlNow) = DcLimit => Used(dlHistory, dlNow + wait) < DcLimit
=============================================================================
