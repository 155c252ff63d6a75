------------------------------ MODULE WMBusLink ------------------------------
(***************************************************************************)
(* wM-Bus frames with one CRC and transport blocks with one each:          *)
(* WMBusFrame::build, add_wmbus_crc and parse_wmbus_frame (wmbus/frame.rs), *)
(* the compact frames that parse_wmbus_frame tells from full ones by their *)
(* looks, and verify_blocks (wmbus/block.rs).  On its way a byte may be     *)
(* garbled or lost.                                                        *)
(*                                                                         *)
(* A byte is its value and, for the bytes of a CRC, what that CRC covers:   *)
(* no two sequences have the same CRC.                                     *)
(***************************************************************************)
EXTENDS Integers, Sequences, SequencesExt, FiniteSetsExt

CONSTANTS
  WlFrames,     \* frames: [kind, control, m, ci, first, payload]: m the manufacturer or
                \* signature, payload the length of one that counts up from first
  WlPayloads,   \* lengths of payloads sent in blocks
  WlTolerated,  \* blocks whose CRC the vendor's hook forgives
  WlFaults      \* bound: bytes garbled or lost

ASSUME WlAssumption ==
  /\ \A f \in WlFrames : f.kind \in {"full", "compact"} /\ f.control \in 0..255 /\ f.ci \in 0..255 /\ f.first \in 0..255
                          /\ f.m \in (0..255) \X (0..255) /\ f.payload \in Nat
  /\ WlPayloads \subseteq Nat /\ WlTolerated \subseteq Nat /\ WlFaults \in Nat

VARIABLES wlSent, wlLine, wlFaults, wlGot
wlVars == <<wlSent, wlLine, wlFaults, wlGot>>

Plain(v)      == [value |-> v, covers |-> <<>>, at |-> 0]
PlainBytes(s) == [i \in DOMAIN s |-> Plain(s[i])]
LineValues(b) == [i \in DOMAIN b |-> b[i].value]

(* add_wmbus_crc, big-endian behind the data.                              *)
AddCrc(s) == PlainBytes(s) \o [i \in 1..2 |-> [value |-> 200 + i, covers |-> s, at |-> i]]

(* Mutant of CrcHolds: the two bytes are read in the other order.          *)
CrcHoldsSwapped(b) ==
  LET n == Len(b)
  IN  n >= 3 /\ \A i \in 1..2 : b[n - 2 + i].at = 3 - i /\ b[n - 2 + i].covers = LineValues(SubSeq(b, 1, n - 2))

(* verify_wmbus_crc: the two last bytes are the CRC of what is before.       *)
CrcHolds(b) ==
  LET n == Len(b)
  IN  n >= 3 /\ \A i \in 1..2 : b[n - 2 + i].at = i /\ b[n - 2 + i].covers = LineValues(SubSeq(b, 1, n - 2))

PayloadBytes(first, n) == [i \in 1..n |-> (first + i) % 256]

(* WMBusFrame::build, whose L field is a byte; and a compact frame as the    *)
(* meters send it, its signature in m.                                     *)
Build(f) ==
  IF f.kind = "full"
  THEN AddCrc(<<(10 + f.payload) % 256, f.control>> \o f.m \o <<1, 2, 3, 4, 5, 6, f.ci>> \o PayloadBytes(f.first, f.payload))
  ELSE AddCrc(<<4 + f.payload, f.control, 121>> \o f.m \o PayloadBytes(f.first, f.payload))

(* is_application_ci                                                       *)
ApplicationCi ==
  {81, 82, 84, 85, 90, 91, 95, 96, 97} \cup {100, 101} \cup 105..128 \cup 138..151 \cup 160..183

(* is_encrypted_frame                                                      *)
Encrypted(control, ci) == control >= 128 \/ ci \in 122..139

(* looks_like_full_frame                                                   *)
LooksFull(v) == Len(v) >= 13 /\ Len(v) = v[1] + 3 /\ v[11] \in ApplicationCi

NotAFrame == [kind |-> "error"]

(* parse_wmbus_frame, and parse_compact_frame for what has 0x79 in the       *)
(* manufacturer's place and does not look full.                            *)
ParseFrame(b) ==
  LET v == LineValues(b)
      n == Len(v)
  IN  IF n >= 7 /\ v[3] = 121 /\ ~LooksFull(v)
      THEN IF ~CrcHolds(b) THEN NotAFrame
           ELSE [kind |-> "compact", control |-> v[2], m |-> SubSeq(v, 4, 5), ci |-> 121,
                 payload |-> SubSeq(v, 6, n - 2), encrypted |-> FALSE]
      ELSE IF n < 13 \/ n # v[1] + 3 \/ ~CrcHolds(b) THEN NotAFrame
      ELSE [kind |-> "full", control |-> v[2], m |-> SubSeq(v, 3, 4), ci |-> v[11],
            payload |-> SubSeq(v, 12, n - 2), encrypted |-> Encrypted(v[2], v[11])]

(* WMBusFrame::to_bytes of what was parsed from a full frame.              *)
ToBytes(got) ==
  AddCrc(<<(10 + Len(got.payload)) % 256, got.control>> \o got.m \o <<1, 2, 3, 4, 5, 6, got.ci>> \o got.payload)

-----------------------------------------------------------------------------
BlockData == 14
BlockSize == 16
WlMin(a, b) == IF a < b THEN a ELSE b

(* How a payload is sent in blocks, the last of which may be short.        *)
BlockCount(n) == (n + BlockData - 1) \div BlockData
SentBlock(n, j) == SubSeq(PayloadBytes(0, n), BlockData * (j - 1) + 1, WlMin(BlockData * j, n))
InBlocks(n) == FlattenSeq([j \in 1..BlockCount(n) |-> AddCrc(SentBlock(n, j))])

(* verify_blocks and verify_blocks_with_vendor: whole blocks are checked;   *)
(* a last one that is short is kept, its CRC bytes among its data, and      *)
(* never valid.                                                            *)
VerifyBlocks(b, tolerated) ==
  [j \in 1..(Len(b) + BlockSize - 1) \div BlockSize |->
    LET block == SubSeq(b, BlockSize * (j - 1) + 1, WlMin(BlockSize * j, Len(b)))
    IN  IF Len(block) < BlockSize THEN [data |-> LineValues(block), valid |-> FALSE]
        ELSE [data |-> LineValues(SubSeq(block, 1, BlockData)), valid |-> CrcHolds(block) \/ j - 1 \in tolerated]]

(* extract_block_data                                                      *)
ExtractData(blocks) == FlattenSeq([j \in DOMAIN blocks |-> blocks[j].data])

-----------------------------------------------------------------------------
Unread == [kind |-> "none"]

WlInit ==
  /\ \/ \E f \in WlFrames : wlSent = f /\ wlLine = Build(f)
     \/ \E n \in WlPayloads : wlSent = [kind |-> "blocks", payload |-> n] /\ wlLine = InBlocks(n)
  /\ wlFaults = <<>> /\ wlGot = Unread

(* A garbled byte, or one that was lost; wlFaults has where.               *)
Garble ==
  /\ wlGot = Unread /\ Len(wlFaults) < WlFaults
  /\ \E i \in DOMAIN wlLine :
       \/ /\ \E v \in {0, 121, 123} \ {wlLine[i].value} : wlLine' = [wlLine EXCEPT ![i] = Plain(v)]
          /\ wlFaults' = Append(wlFaults, [at |-> i, lost |-> FALSE])
       \/ /\ wlLine' = RemoveAt(wlLine, i)
          /\ wlFaults' = Append(wlFaults, [at |-> i, lost |-> TRUE])
  /\ UNCHANGED <<wlSent, wlGot>>

ReceiveLinkFrame ==
  /\ wlGot = Unread /\ wlSent.kind # "blocks"
  /\ wlGot' = ParseFrame(wlLine)
  /\ UNCHANGED <<wlSent, wlLine, wlFaults>>

(* process_type_a_blocks, or the vendor's verification.                     *)
ReceiveBlocks(tolerated) ==
  /\ wlGot = Unread /\ wlSent.kind = "blocks"
  /\ wlGot' = LET blocks == VerifyBlocks(wlLine, tolerated)
              IN  [kind |-> "blocks", blocks |-> blocks, data |-> ExtractData(blocks), tolerated |-> tolerated]
  /\ UNCHANGED <<wlSent, wlLine, wlFaults>>

WlNext == Garble \/ ReceiveLinkFrame \/ \E tolerated \in {{}, WlTolerated} : ReceiveBlocks(tolerated)

-----------------------------------------------------------------------------
(* Frames whose kind their bytes do not tell: a full frame of a               *)
(* manufacturer whose code ends in 0x79 and whose CI field is none of the    *)
(* application layer, a compact one with such a value in the CI field's     *)
(* place; and a payload that the L field has no room for.                  *)
Ambiguous(f) ==
  LET v == LineValues(Build(f))
  IN  IF f.kind = "full" THEN f.payload > 245 \/ (f.m[1] = 121 /\ f.ci \notin ApplicationCi)
      ELSE f.payload > 251 \/ LooksFull(v)

(* A frame is parsed as it was built, and can be built again from what was      *)
(* parsed, or, once a byte of it was garbled or lost, is refused; full frames *)
(* and compact ones are not taken for each other (parse_wmbus_frame).        *)
LinkFramesIntact ==
  wlGot # Unread /\ wlSent.kind # "blocks" =>
    IF wlFaults # <<>> THEN wlGot = NotAFrame
    ELSE Ambiguous(wlSent) \/
      /\ wlGot # NotAFrame /\ wlGot.kind = wlSent.kind
      /\ wlGot.control = wlSent.control /\ wlGot.m = wlSent.m /\ wlGot.payload = PayloadBytes(wlSent.first, wlSent.payload)
      /\ wlGot.kind = "full" => wlGot.ci = wlSent.ci /\ ToBytes(wlGot) = wlLine

(* A fault stays in its block: a block that is marked valid has the data that  *)
(* was sent in it, unless a vendor's tolerance let it pass; a whole block      *)
(* whose bytes all arrived unharmed, with none lost before it, is valid; and  *)
(* a payload in whole blocks without faults is what is extracted             *)
(* (verify_blocks, verify_blocks_with_vendor, extract_block_data).           *)
BlocksLocalised ==
  wlGot # Unread /\ wlSent.kind = "blocks" =>
    LET n == wlSent.payload
        harmed(j) == \E i \in DOMAIN wlFaults :
          LET f == wlFaults[i] IN IF f.lost THEN f.at <= BlockSize * j ELSE (f.at - 1) \div BlockSize + 1 = j
    IN  /\ \A j \in DOMAIN wlGot.blocks :
             /\ wlGot.blocks[j].valid /\ j - 1 \notin wlGot.tolerated => wlGot.blocks[j].data = SentBlock(n, j)
             /\ ~harmed(j) /\ BlockData * j <= n => wlGot.blocks[j].valid
        /\ wlFaults = <<>> /\ n % BlockData = 0 => wlGot.data = PayloadBytes(0, n)
=============================================================================
