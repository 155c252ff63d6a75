---------------------------- MODULE AdrController ----------------------------
(***************************************************************************)
(* Adaptive data rate of a LoRa node (src/wmbus/radio/lora/adr.rs) with    *)
(* the thresholds of AdrConfig::default().                                 *)
(*                                                                         *)
(* RSSI is in dBm and SNR in steps of 2.5 dB, the distance between two of  *)
(* its thresholds; a spreading factor is its number.  The average SNR is   *)
(* compared without the division, which a float does not round to a step.  *)
(***************************************************************************)
EXTENDS Integers, Sequences, SequencesExt, FiniteSetsExt

CONSTANTS
  AdrSamples,           \* [rssi, snr] of the packets that may be received
  AdrWindow,            \* averaging_window
  AdrNetworkSf          \* spreading factors the network may command

(* With an RSSI from -240 to 15 dBm the i8 that determine_tx_power adds up   *)
(* does not wrap.                                                          *)
ASSUME AdrAssumption ==
  /\ AdrSamples \subseteq [rssi : -240..15, snr : Int]
  /\ AdrWindow \in Nat \ {0} /\ AdrNetworkSf \subseteq 5..12

VARIABLES
  adrEnabled,           \* config.enabled
  adrSf,                \* current_sf
  adrPower,             \* current_tx_power
  adrHistory,           \* metrics_history
  adrLosses,            \* consecutive_losses
  adrDue                \* evaluation_interval is over since last_evaluation

adrVars == <<adrEnabled, adrSf, adrPower, adrHistory, adrLosses, adrDue>>

MinSf      == 7
MinTxPower == 2
MaxTxPower == 14
Hysteresis == 3
MinSamples == 5
LossLimit  == 3

(* with_config                                                             *)
AdrInit ==
  /\ adrEnabled \in BOOLEAN
  /\ adrSf = MinSf /\ adrPower = MaxTxPower
  /\ adrHistory = <<>> /\ adrLosses = 0 /\ adrDue = FALSE

Clamped(power) == Max({MinTxPower, Min({MaxTxPower, power})})

-----------------------------------------------------------------------------
(* The decision.                                                           *)

RssiThreshold(sf) == -80 - 5 * (sf - 7)         \* to use sf, of 7..11
SnrThreshold(sf)  == 2 - (sf - 7)

SumOf(field) ==
  LET upTo[n \in 0..Len(adrHistory)] == IF n = 0 THEN 0 ELSE upTo[n - 1] + adrHistory[n][field]
  IN  upTo[Len(adrHistory)]

(* calculate_averages: Rust divides towards zero.                          *)
AverageRssi ==
  IF adrHistory = <<>> THEN -100 ELSE -((-SumOf("rssi")) \div Len(adrHistory))

(* determine_optimal_sf: the more conservative of the two ladders, neither  *)
(* of them held between min_sf and max_sf.                                 *)
OptimalSf ==
  Min({sf \in 7..12 : \/ sf = 12
                      \/ /\ AverageRssi >= RssiThreshold(sf)
                         /\ SumOf("snr") >= SnrThreshold(sf) * Len(adrHistory)})

(* apply_hysteresis: a lower factor needs the RSSI of the next lower one,   *)
(* with a margin.                                                          *)
TargetSf(sf) ==
  IF OptimalSf < sf /\ AverageRssi <= RssiThreshold(sf - 1) + Hysteresis THEN sf ELSE OptimalSf

Sensitivity(sf) ==
  CASE sf \in 7..10 -> -123 - 3 * (sf - 7) [] sf = 11 -> -134 [] sf = 12 -> -137
    [] OTHER -> -130

(* Mutant of TxPower: the margin's sign.                                   *)
TxPowerInverted(sf, power) == Clamped(power - 10 + (AverageRssi - Sensitivity(sf)))

(* determine_tx_power: towards a link margin of 10 dB.                     *)
TxPower(sf, power) == Clamped(power + 10 - (AverageRssi - Sensitivity(sf)))

(* evaluate_internal without losses: the power is only set with a new       *)
(* spreading factor.                                                       *)
Decision(sf, power) ==
  LET target == TargetSf(sf)
  IN  [sf |-> target, power |-> IF target = sf THEN power ELSE TxPower(target, power)]

(* handle_packet_loss: max_sf is not looked at.                            *)
MitigatedSf == IF adrSf \in 7..11 THEN adrSf + 1 ELSE adrSf

-----------------------------------------------------------------------------
(* evaluate_internal, as force_evaluation and evaluate call it.            *)
EvaluateInternal ==
  /\ LET now == Decision(adrSf, adrPower) IN adrSf' = now.sf /\ adrPower' = now.power
  /\ adrDue' = FALSE
  /\ UNCHANGED <<adrEnabled, adrHistory, adrLosses>>

ForceEvaluation == EvaluateInternal

Evaluate ==
  /\ adrEnabled /\ adrDue /\ Len(adrHistory) >= MinSamples
  /\ EvaluateInternal

RecordPacket(sample) ==
  /\ adrHistory' = LET grown == Append(adrHistory, sample)
                   IN  IF Len(grown) > AdrWindow THEN Tail(grown) ELSE grown
  /\ adrLosses' = 0
  /\ UNCHANGED <<adrEnabled, adrSf, adrPower, adrDue>>

(* record_loss: the third in a row forces an evaluation, which is           *)
(* handle_packet_loss; neither asks whether ADR is enabled.                *)
RecordLoss ==
  /\ \/ /\ adrLosses + 1 < LossLimit
        /\ adrLosses' = adrLosses + 1
        /\ UNCHANGED <<adrSf, adrPower, adrDue>>
     \/ /\ adrLosses + 1 = LossLimit
        /\ adrSf' = MitigatedSf
        /\ adrPower' = Min({MaxTxPower, adrPower + 2})
        /\ adrLosses' = 0
        /\ adrDue' = FALSE
  /\ UNCHANGED <<adrEnabled, adrHistory>>

ApplyNetworkAdr(sf, power) ==
  /\ adrSf' = sf
  /\ adrPower' = Clamped(power)
  /\ adrHistory' = <<>> /\ adrLosses' = 0
  /\ UNCHANGED <<adrEnabled, adrDue>>

AdrElapse == ~adrDue /\ adrDue' = TRUE /\ UNCHANGED <<adrEnabled, adrSf, adrPower, adrHistory, adrLosses>>

AdrNext ==
  \/ ForceEvaluation \/ Evaluate
  \/ \E sample \in AdrSamples : RecordPacket(sample)
  \/ RecordLoss
  \/ \E sf \in AdrNetworkSf, power \in {0, 20} : ApplyNetworkAdr(sf, power)
  \/ AdrElapse

-----------------------------------------------------------------------------
(* Evaluating again on the same history changes nothing, wherever the       *)
(* hysteresis stopped the first evaluation: the controller does not         *)
(* oscillate.  And a decision taken from the signal never raises the power, *)
(* not even one that found the signal degraded, as long as the RSSI is      *)
(* 10 dB above the sensitivity of the worst spreading factor: only lost     *)
(* packets and the network raise it (determine_tx_power).                  *)
AdrSettles ==
  LET once == Decision(adrSf, adrPower)
  IN  /\ Decision(once.sf, once.power) = once
      /\ AverageRssi >= Sensitivity(12) + 10 => once.power <= adrPower
=============================================================================
