----------------------------- MODULE LoRaFormats -----------------------------
(***************************************************************************)
(* Guessing the format of a LoRa payload, and learning which device sends  *)
(* which (src/wmbus/radio/lora: format_detector.rs, smart_decoder.rs, and  *)
(* decode_with_type of decoder.rs).  A payload is its bytes; the guesses   *)
(* are scores over them.  What is read out of a payload is LoRaReadings.   *)
(***************************************************************************)
EXTENDS Integers, Sequences, SequencesExt, FiniteSets

CONSTANTS
  LfDevices,            \* device addresses
  LfPayloads,           \* payloads they send, sequences of bytes
  LfPort,               \* fPort they send on
  LfPackets             \* bound: packets decoded

ASSUME LfAssumption == LfPackets \in Nat /\ LfPort \in 0..255

VARIABLES
  lfDecoder,            \* manager.decoders: the format a device is registered with
  lfStats,              \* device_stats
  lfLearning,           \* learning_enabled
  lfLast,               \* the packet decoded last: its bytes and what was detected
  lfHeard,              \* history: what was detected in the packets of a device, in
                        \* order; "registered" where nothing was detected
  lfWhy                 \* history: the confidence and the count a device was registered on

lfVars == <<lfDecoder, lfStats, lfLearning, lfLast, lfHeard, lfWhy>>

LfUnknown == [format |-> "Unknown", confidence |-> 0]
Unseen    == [formats |-> [f \in {} |-> 0], last |-> "none", failed |-> 0, total |-> 0, avg |-> <<0, 1>>]
NotYet    == "none"

LfInit ==
  /\ lfDecoder = [d \in LfDevices |-> NotYet] /\ lfStats = [d \in LfDevices |-> Unseen]
  /\ lfLearning = TRUE
  /\ lfLast = [payload |-> <<>>, found |-> LfUnknown]
  /\ lfHeard = [d \in LfDevices |-> <<>>] /\ lfWhy = [d \in LfDevices |-> [confidence |-> 0, count |-> 0]]

-----------------------------------------------------------------------------
(* Format signatures: points for every trait the bytes show.               *)

Points(condition, n) == IF condition THEN n ELSE 0
LE16(p, i) == p[i] + 256 * p[i + 1]
BE16(p, i) == 256 * p[i] + p[i + 1]
(* Four bytes, the most significant one first, are below a limit.           *)
BytesBelow(b, limit) == b[1] < 64 /\ ((b[1] * 256 + b[2]) * 256 + b[3]) * 256 + b[4] < limit
LEBelow(p, i, limit) == BytesBelow(<<p[i + 3], p[i + 2], p[i + 1], p[i]>>, limit)
Ones(b) == Cardinality({i \in 0..7 : (b \div 2^i) % 2 = 1})

(* Confidence::from_score                                                  *)
FromScore(s) ==
  CASE s \in 90..100 -> 100 [] s \in 70..89 -> 80 [] s \in 50..69 -> 60 [] s \in 30..49 -> 40 [] OTHER -> 0

OmsScore(p) ==
  IF Len(p) < 12 THEN 0
    ELSE Points(p[2] \in {68, 70, 8}, 40)
         + Points(LE16(p, 3) \in {11309, 4517, 7176, 12967, 27216}, 40) + Points(p[11] <= 15, 20)

(* The data of an entry as the detector counts it: two bytes of humidity,   *)
(* and no altitude, power or direction.                                    *)
CayenneSize(type) ==
  CASE type \in {0, 1, 102} -> 1
    [] type \in {2, 3, 103, 104, 101, 115} \cup 116..120 -> 2
    [] type \in {113, 134} -> 6 [] type = 136 -> 9 [] type \in {131, 133} -> 4 [] OTHER -> 0

(* How far entries can be followed when Size tells their data from what     *)
(* stands at an offset, 0 where no entry stands.                           *)
Followed(p, Size(_)) ==
  LET to[o \in 0..Len(p)] ==
        IF o + 2 < Len(p) /\ Size(o) > 0 /\ o + 2 + Size(o) <= Len(p) THEN to[o + 2 + Size(o)] ELSE o
  IN to[0]

CayenneScore(p) ==
  LET at(o) == CayenneSize(p[o + 2])
      coverage == (Followed(p, at) * 100) \div Len(p)
  IN IF Len(p) < 3 THEN 0
       ELSE CASE coverage > 90 -> 95 [] coverage > 70 -> 75 [] Followed(p, at) > 0 -> 50 [] OTHER -> 0

CompactScore(p, port) ==
  IF Len(p) < 11 THEN 0
    ELSE Points(p[1] \in 28..60, 30) + Points(port \in 1..6, 20)
         + Points(LEBelow(p, 5, 100000000), 20) + Points(p[11] <= 100, 20)

DecentlabScore(p) ==
  IF Len(p) < 6 THEN 0
    ELSE Points(p[1] = 2, 30) + Points(BE16(p, 2) \in 1..65534, 20)
         + Points(p[4] > 0 /\ Ones(p[4]) <= 4, 30) + Points(BE16(p, Len(p) - 1) \in 2000..4000, 20)

DraginoScore(p) ==
  CASE Len(p) = 13 -> Points(LE16(p, 4) < 10000 /\ LEBelow(p, 6, 100000000), 80)
    [] Len(p) = 9  -> Points(p[3] <= 1, 75)
    [] OTHER       -> 0

ElvacoScore(p) ==
  IF Len(p) < 12 THEN 0
    ELSE Points(p[1] \in {120, 121}, 40) + Points(Len(p) >= 24 /\ p[1] \div 16 = 4, 40)
         + Points(Len(p) >= 20 /\ p[1] \in {120, 121} /\ LE16(p, 14) \in 1..9999, 20)

SensativeScore(p) ==
  LET expected(type) == CASE type \in {1, 3} -> 2 [] type \in {2, 4, 5} -> 1 [] OTHER -> 0
      at(o) == IF p[o + 2] = expected(p[o + 1]) THEN expected(p[o + 1]) ELSE 0
  IN Points(Len(p) >= 3 /\ Followed(p, at) = Len(p), 85)

GenericScore(p) ==
  IF Len(p) < 4 THEN 0
    ELSE Points(Len(p) \in {8, 10, 12}, 20)
         + Points(LEBelow(p, 1, 10000000) \/ BytesBelow(p, 10000000), 20)
         + Points(Len(p) >= 5 /\ p[Len(p)] <= 100, 15)
         + Points(Len(p) >= 7 /\ Ones(p[Len(p) - 1]) <= 3, 15)

WMBusScore(p) ==
  IF Len(p) < 12 THEN 0
    ELSE Points(p[1] \in {104, 16}, 30) + Points(p[1] = p[4] /\ p[1] < 255, 20) + Points(p[Len(p)] = 22, 20)

(* A signature answers from a least score on.                              *)
Guess(format, score, least) == [format |-> format, confidence |-> IF score >= least THEN FromScore(score) ELSE 0]
Signatures(p, port) ==
  <<Guess("OMS", OmsScore(p), 1), Guess("CayenneLPP", CayenneScore(p), 1),
    Guess("CompactFrame", CompactScore(p, port), 50), Guess("Decentlab", DecentlabScore(p), 50),
    Guess("Dragino", DraginoScore(p), 1), Guess("Elvaco", ElvacoScore(p), 1),
    Guess("Sensative", SensativeScore(p), 1)>>
Analyzers(p) == <<Guess("GenericCounter", GenericScore(p), 30), Guess("wM-Bus", WMBusScore(p), 50)>>

(* Mutant of Better: the later of two equals.                               *)
BetterOrEqual(best, guess) == IF guess.confidence >= best.confidence THEN guess ELSE best

Better(best, guess) == IF guess.confidence > best.confidence THEN guess ELSE best

(* The best of some guesses and of what was found before them.              *)
BestOf(guesses, from) ==
  LET upTo[n \in 0..Len(guesses)] == IF n = 0 THEN from ELSE Better(upTo[n - 1], guesses[n]) IN upTo[Len(guesses)]

(* detect: the analyzers are asked unless a signature is certain.           *)
Detect(p, port) ==
  LET signed == BestOf(Signatures(p, port), LfUnknown) IN
  IF signed.confidence = 100 THEN signed ELSE BestOf(Analyzers(p), signed)

(* The guesses of a confidence, in their order.                             *)
OfConfidence(guesses, c) ==
  LET these == {i \in DOMAIN guesses : guesses[i].confidence = c}
      upTo[n \in 0..Len(guesses)] ==
        IF n = 0 THEN <<>> ELSE IF n \in these THEN Append(upTo[n - 1], guesses[n]) ELSE upTo[n - 1]
  IN upTo[Len(guesses)]

(* detect_all: every guess above None, by confidence, in a stable order.    *)
DetectAll(p, port) ==
  LET all == Signatures(p, port) \o Analyzers(p) IN
  OfConfidence(all, 100) \o OfConfidence(all, 80) \o OfConfidence(all, 60) \o OfConfidence(all, 40)

-----------------------------------------------------------------------------
(* SmartDecoder.                                                           *)

CountOf(s, format) == IF format \in DOMAIN s.formats THEN s.formats[format] ELSE 0

(* record_success                                                          *)
Succeeded(s, format) ==
  [s EXCEPT !.formats = [f \in DOMAIN s.formats \cup {format} |-> CountOf(s, f) + (IF f = format THEN 1 ELSE 0)],
            !.last = format, !.total = @ + 1]

(* update_stats: the average over total_packets, as a fraction.             *)
Averaged(s, confidence) ==
  [s EXCEPT !.avg = <<@[1] * s.total + confidence * @[2], @[2] * (s.total + 1)>>]

(* Mutant of ShouldRegister: one success in the format is enough.           *)
ShouldRegisterSoon(s, found) ==
  /\ lfLearning /\ found.confidence >= 80
  /\ IF s.last = found.format THEN CountOf(s, found.format) >= 1 ELSE found.confidence = 100

(* should_auto_register: three successes if the last was in this format,    *)
(* certainty if it was not.                                                *)
ShouldRegister(s, found) ==
  /\ lfLearning /\ found.confidence >= 80
  /\ IF s.last = found.format THEN CountOf(s, found.format) >= 3 ELSE found.confidence = 100

Learn(s, t) == IF lfLearning THEN t ELSE s

(* decode_with_type knows one decoder, the raw bytes, whatever the type; it *)
(* never fails, and reports RawBinary.                                     *)
DecodeRegistered(d, p) ==
  /\ lfDecoder[d] # NotYet
  /\ lfStats' = [lfStats EXCEPT ![d] = Learn(@, Succeeded(@, "RawBinary"))]
  /\ lfHeard' = [lfHeard EXCEPT ![d] = Append(@, [found |-> "registered", confidence |-> 0, learnt |-> lfLearning])]
  /\ lfLast' = [payload |-> p, found |-> LfUnknown]
  /\ UNCHANGED <<lfDecoder, lfLearning, lfWhy>>

(* decode_smart of a device that is not registered: a payload of no known   *)
(* format is averaged in and not counted.                                  *)
DecodeDetecting(d, p) ==
  /\ lfDecoder[d] = NotYet
  /\ LET found == Detect(p, LfPort)
         s     == Learn(lfStats[d], Averaged(lfStats[d], found.confidence))
     IN /\ lfLast' = [payload |-> p, found |-> found]
        /\ lfHeard' = [lfHeard EXCEPT ![d] =
                         Append(@, [found |-> found.format, confidence |-> found.confidence, learnt |-> lfLearning])]
        /\ IF ShouldRegister(s, found)
             THEN /\ lfDecoder' = [lfDecoder EXCEPT ![d] = found.format]
                  /\ lfWhy' = [lfWhy EXCEPT ![d] = [confidence |-> found.confidence, count |-> CountOf(s, found.format)]]
             ELSE UNCHANGED <<lfDecoder, lfWhy>>
        /\ lfStats' = [lfStats EXCEPT ![d] =
                         IF found = LfUnknown THEN s ELSE Learn(s, Succeeded(s, found.format))]
  /\ UNCHANGED lfLearning

SetLearning ==
  /\ lfLearning' = ~lfLearning
  /\ UNCHANGED <<lfDecoder, lfStats, lfLast, lfHeard, lfWhy>>

Packets == FoldLeft(LAMBDA n, d : n + Len(lfHeard[d]), 0, SetToSeq(LfDevices))
LfNext ==
  \/ \E d \in LfDevices, p \in LfPayloads :
       Packets < LfPackets /\ (DecodeRegistered(d, p) \/ DecodeDetecting(d, p))
  \/ SetLearning

-----------------------------------------------------------------------------
(* The best guess is the first of all the guesses in their order: the two   *)
(* ways to ask, one that stops early and one that sorts, agree.            *)
DetectAgrees ==
  LET all == DetectAll(lfLast.payload, LfPort) IN
  lfLast.payload # <<>> =>
    Detect(lfLast.payload, LfPort) = IF all = <<>> THEN LfUnknown ELSE Head(all)

(* Of the packets heard from a device: those learnt from, those found to be   *)
(* some format, those in which a format was looked for and how sure that     *)
(* was, together.                                                          *)
Learnt(heard)     == {i \in DOMAIN heard : heard[i].learnt}
FoundAs(heard, f) == {i \in Learnt(heard) : heard[i].found = f}
Detected(heard)   == {i \in Learnt(heard) : heard[i].found # "registered"}
Confidences(heard) ==
  LET upTo[n \in 0..Len(heard)] ==
        IF n = 0 THEN 0
          ELSE upTo[n - 1] + (IF heard[n].learnt /\ heard[n].found # "registered" THEN heard[n].confidence ELSE 0)
  IN upTo[Len(heard)]

(* A device is registered on a certain guess, or on a probable one after     *)
(* three packets that were guessed the same; and for good, because its      *)
(* decoder cannot fail: nothing is detected in its packets any more, and    *)
(* they go on as raw bytes.                                                *)
RegisteredForGood ==
  \A d \in LfDevices :
    LET heard == lfHeard[d] IN
    /\ lfDecoder[d] # NotYet =>
         \/ lfWhy[d].confidence = 100
         \/ lfWhy[d].count >= 3 /\ Cardinality(FoundAs(heard, lfDecoder[d])) >= 3
    /\ \A i, j \in DOMAIN heard : i < j /\ heard[i].found = "registered" => heard[j].found = "registered"

(* The statistics account for the packets learnt from: every one in its      *)
(* format but those of no known format, none as a failure.  Their average   *)
(* is the mean of what was detected as long as none was unknown: an unknown *)
(* one enters the average and not the count, and drags it down again and    *)
(* again.                                                                  *)
StatsAccount ==
  \A d \in LfDevices :
    LET s == lfStats[d] heard == lfHeard[d] IN
    /\ s.failed = 0
    /\ s.total = Cardinality(Learnt(heard) \ FoundAs(heard, "Unknown"))
    /\ \A f \in DOMAIN s.formats :
         s.formats[f] = Cardinality(FoundAs(heard, IF f = "RawBinary" THEN "registered" ELSE f))
    /\ FoundAs(heard, "Unknown") = {} => s.avg[1] * Cardinality(Detected(heard)) = s.avg[2] * Confidences(heard)

FormatsLearnt == DetectAgrees /\ RegisteredForGood /\ StatsAccount
=============================================================================
