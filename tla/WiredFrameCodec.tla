--------------------------- MODULE WiredFrameCodec ---------------------------
(***************************************************************************)
(* Wired M-Bus frames: pack_frame, parse_frame and verify_frame            *)
(* (mbus/frame.rs, checksum of mbus/simd.rs) on either end of a line that  *)
(* may garble or lose a byte, and the selection frame of secondary         *)
(* addressing (mbus/secondary_addressing.rs).                              *)
(***************************************************************************)
EXTENDS Integers, Sequences, SequencesExt, FiniteSetsExt

CONSTANTS
  WfFrames,     \* frames sent: [type, control, address, ci, data]
  WfAddresses,  \* secondary addresses, as their eight bytes
  WfGarbled,    \* values a garbled byte takes
  WfMaxLength,  \* largest L field, 255 in the code
  WfFaults      \* bound: bytes garbled or lost

Byte == 0..255
ASSUME WfAssumption ==
  /\ \A f \in WfFrames : f.type \in {"Ack", "Short", "Control", "Long"} /\ f.data \in Seq(Byte)
  /\ WfAddresses \subseteq Seq(Byte) /\ WfGarbled \subseteq Byte /\ WfFaults \in Nat
  /\ WfMaxLength \in 11..255

VARIABLES wfSent, wfLine, wfFaults, wfGot
wfVars == <<wfSent, wfLine, wfFaults, wfGot>>

StartLong == 104    \* 0x68
StartShort == 16    \* 0x10
AckByte == 229      \* 0xE5
StopByte == 22      \* 0x16

(* calculate_checksum_scalar                                               *)
Checksum(bytes) == FoldSeq(LAMBDA b, sum : (sum + b) % 256, 0, bytes)

(* What the vector forms have in common: the first n bytes are summed in     *)
(* wide lanes, whose low byte starts the sum of the others.                *)
SumInLanes(bytes, n) ==
  FoldSeq(LAMBDA b, sum : (sum + b) % 256, FoldSeq(LAMBDA b, sum : sum + b, 0, SubSeq(bytes, 1, n)) % 256,
          SubSeq(bytes, n + 1, Len(bytes)))
Chunks(size, n) == size * (n \div size)

(* calculate_checksum_neon: chunks of 64 bytes, then of 16.                 *)
ChecksumNeon(bytes) ==
  LET n == Chunks(64, Len(bytes)) IN SumInLanes(bytes, n + Chunks(16, Len(bytes) - n))

(* calculate_checksum_sse2                                                 *)
ChecksumSse2(bytes) == SumInLanes(bytes, Chunks(16, Len(bytes)))

(* Mutant of ChecksumAvx2: what does not fill a chunk is left out.          *)
ChecksumAvx2Whole(bytes) == SumInLanes(SubSeq(bytes, 1, Chunks(32, Len(bytes))), Chunks(32, Len(bytes)))

(* calculate_checksum_avx2                                                 *)
ChecksumAvx2(bytes) == SumInLanes(bytes, Chunks(32, Len(bytes)))

(* calculate_checksum_optimized on a processor with these features.        *)
ChecksumOptimized(features, bytes) ==
  CASE "neon" \in features /\ Len(bytes) >= 16 -> ChecksumNeon(bytes)
    [] "avx2" \in features /\ Len(bytes) >= 32 -> ChecksumAvx2(bytes)
    [] "sse2" \in features /\ Len(bytes) >= 16 /\ ("avx2" \in features => Len(bytes) < 32) -> ChecksumSse2(bytes)
    [] OTHER -> Checksum(bytes)

(* The fields a checksum covers, by frame type.                            *)
Covered(f) ==
  CASE f.type = "Ack" -> <<>>
    [] f.type = "Short" -> <<f.control, f.address>>
    [] f.type = "Control" -> <<f.control, f.address, f.ci>>
    [] f.type = "Long" -> <<f.control, f.address, f.ci>> \o f.data

WfMin(a, b) == IF a < b THEN a ELSE b

(* pack_frame: the checksum is computed, the L field saturates.            *)
Pack(f) ==
  CASE f.type = "Ack" -> <<AckByte>>
    [] f.type = "Short" -> <<StartShort, f.control, f.address, Checksum(Covered(f)), StopByte>>
    [] OTHER -> LET l == WfMin(Len(f.data) + 3, WfMaxLength)
                IN  <<StartLong, l, l, StartLong, f.control, f.address, f.ci>> \o f.data
                      \o <<Checksum(Covered(f)), StopByte>>

Refused == [type |-> "error"]

(* Mutant of Parse: the second length is not compared with the first.      *)
ParseOneLength(s) ==
  IF Len(s) < 9 \/ s[1] # StartLong \/ s[4] # StartLong THEN Refused
  ELSE LET n == IF s[3] > 3 THEN s[3] - 3 ELSE 0
       IN  IF Len(s) < n + 9 \/ s[n + 9] # StopByte THEN Refused
           ELSE [type |-> IF s[2] = 3 THEN "Control" ELSE "Long", control |-> s[5], address |-> s[6],
                 ci |-> s[7], data |-> SubSeq(s, 8, n + 7), checksum |-> s[n + 8]]

(* parse_frame: what it leaves unread is dropped by the callers.  A length   *)
(* below 3 is a long frame without data.                                   *)
Parse(s) ==
  IF s = <<>> THEN Refused
  ELSE CASE s[1] = AckByte ->
              [type |-> "Ack", control |-> 0, address |-> 0, ci |-> 0, data |-> <<>>, checksum |-> 0]
         [] s[1] = StartShort ->
              IF Len(s) < 5 \/ s[5] # StopByte THEN Refused
              ELSE [type |-> "Short", control |-> s[2], address |-> s[3], ci |-> 0, data |-> <<>>,
                    checksum |-> s[4]]
         [] s[1] = StartLong ->
              IF Len(s) < 9 \/ s[2] # s[3] \/ s[4] # StartLong THEN Refused
              ELSE LET n == IF s[2] > 3 THEN s[2] - 3 ELSE 0
                   IN  IF Len(s) < n + 9 \/ s[n + 9] # StopByte THEN Refused
                       ELSE [type |-> IF s[2] = 3 THEN "Control" ELSE "Long", control |-> s[5],
                             address |-> s[6], ci |-> s[7], data |-> SubSeq(s, 8, n + 7),
                             checksum |-> s[n + 8]]
         [] OTHER -> Refused

(* verify_frame                                                            *)
Verified(f) == f.checksum = Checksum(Covered(f))

(* parse_frame and verify_frame, as the callers use them together.         *)
Accepted(s) == LET f == Parse(s) IN IF f # Refused /\ Verified(f) THEN f ELSE Refused

(* build_secondary_selection_frame                                         *)
SelectionFrame(address) ==
  LET body == <<83, 253, 82>> \o address
  IN  <<StartLong, 11, 11, StartLong>> \o body \o <<Checksum(body), StopByte>>

(* SecondaryAddress.matches_wildcard                                       *)
Wildcard == 15      \* 0xF
Matches(address, pattern) == \A i \in 1..8 : pattern[i] \in {Wildcard, address[i]}

-----------------------------------------------------------------------------
(* A selection frame is sent as any other.                                 *)
SelectionOf(address) ==
  [type |-> "Long", control |-> 83, address |-> 253, ci |-> 82, data |-> address]

Sendable == WfFrames \cup {SelectionOf(a) : a \in WfAddresses}
LineOf(f) == IF f \in WfFrames THEN Pack(f) ELSE SelectionFrame(f.data)

NothingYet == [type |-> "none"]

WfInit ==
  /\ wfSent \in Sendable /\ wfLine = LineOf(wfSent)
  /\ wfFaults = 0 /\ wfGot = NothingYet

Disturb ==
  /\ wfGot = NothingYet /\ wfFaults < WfFaults /\ wfFaults' = wfFaults + 1
  /\ \E i \in DOMAIN wfLine :
       \/ \E v \in WfGarbled \ {wfLine[i]} : wfLine' = [wfLine EXCEPT ![i] = v]
       \/ wfLine' = RemoveAt(wfLine, i)
  /\ UNCHANGED <<wfSent, wfGot>>

ReceiveFrame ==
  /\ wfGot = NothingYet /\ wfGot' = Accepted(wfLine)
  /\ UNCHANGED <<wfSent, wfLine, wfFaults>>

WfNext == Disturb \/ ReceiveFrame

-----------------------------------------------------------------------------
(* What fits the L field, and for a control frame, carries no data.        *)
WellFormed(f) == IF f.type = "Long" THEN Len(f.data) \in 1..WfMaxLength - 3 ELSE f.data = <<>>

SameFrame(got, f) ==
  /\ got.type = f.type
  /\ f.type # "Ack" => got.control = f.control /\ got.address = f.address
  /\ f.type \in {"Control", "Long"} => got.ci = f.ci /\ got.data = f.data

(* A frame is received as it was sent, or not at all: when a byte of it is    *)
(* garbled or lost it is refused, or taken for the one-byte acknowledgement *)
(* its first byte has become; when none is, it is accepted (parse_frame,    *)
(* verify_frame).                                                          *)
WiredFramesIntact ==
  wfGot # NothingYet /\ WellFormed(wfSent) =>
    \/ wfGot # Refused /\ SameFrame(wfGot, wfSent)
    \/ wfFaults > 0 /\ (wfGot = Refused \/ wfGot.type = "Ack")

(* Whatever its processor can do, an end computes the checksum every other   *)
(* end expects, at each length around a chunk of the vector forms.         *)
Ramp(n) == [i \in 1..n |-> (37 * i + 200) % 256]
ChecksumsAgree ==
  \A features \in {{"neon"}, {"sse2"}, {"sse2", "avx2"}},
     n \in UNION {{size - 1, size, size + 1} : size \in {16, 32, 64, 80}} :
    ChecksumOptimized(features, Ramp(n)) = Checksum(Ramp(n))

(* The meters that a received selection frame selects are the one that was     *)
(* addressed, and no other unless a byte of the address has the value the  *)
(* code takes for a wildcard (build_secondary_selection_frame,             *)
(* matches_wildcard).                                                      *)
SelectionReaches ==
  wfGot # NothingYet /\ wfSent \notin WfFrames /\ wfGot.type = "Long" =>
    LET selected == {a \in WfAddresses : Matches(a, wfGot.data)}
    IN  wfSent.data \in selected /\ (Wildcard \notin Range(wfSent.data) => selected = {wfSent.data})
=============================================================================
