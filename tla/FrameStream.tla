----------------------------- MODULE FrameStream -----------------------------
(***************************************************************************)
(* The streaming decoder of wM-Bus mode C frames: FrameDecoder             *)
(* (wmbus/frame_decode.rs) over packet_size (rfm69_packet.rs),             *)
(* decode_mode_c (mode_c.rs) and an IoBuffer (util/iobuffer.rs).           *)
(*                                                                         *)
(* A byte is <<frame, position>>, or Noise: what the properties tell apart *)
(* is where a byte comes from.  A CRC holds when the bytes it covers, and  *)
(* the CRC itself, are a block as its meter sent it: no two blocks have    *)
(* the same CRC.                                                           *)
(***************************************************************************)
EXTENDS Integers, Sequences, FiniteSets, FiniteSetsExt

CONSTANTS
  FsFrames,     \* frames meters send: [type |-> "A" or "B", l |-> the L-field]
  FsSent,       \* number of frames on the air
  FsChunks,     \* numbers of bytes a caller feeds at once
  FsFaults      \* bound: bytes garbled or lost

ASSUME FsAssumption ==
  /\ \A f \in FsFrames : f.type \in {"A", "B"} /\ f.l \in (IF f.type = "A" THEN 9..255 ELSE 11..253)
  /\ FsSent \in Nat /\ FsFaults \in Nat
  /\ FsChunks \subseteq Nat \ {0}

VARIABLES
  fsAir,        \* the frames sent
  fsWire,       \* bytes the decoder has not been given
  fsBuffer,     \* buffer
  fsExpected,   \* expected_size, 0 for None
  fsDecoded,    \* frames returned: [id, payload]
  fsFaults,     \* bytes garbled or lost so far
  fsResets      \* reset() was called

fsVars == <<fsAir, fsWire, fsBuffer, fsExpected, fsDecoded, fsFaults, fsResets>>

Noise == <<0, 0>>
FsMin(a, b) == IF a < b THEN a ELSE b

-----------------------------------------------------------------------------
(* The meters.                                                             *)

(* Positions a meter's CRCs cover: the link header and then blocks of 16    *)
(* for type A; everything but the CRC, which L counts, for type B.         *)
SentBlocks(f) ==
  IF f.type = "B" THEN {<<2, f.l>>}
  ELSE {<<2, 11>>} \cup {<<14 + 18 * j, 13 + 18 * j + FsMin(16, f.l - 9 - 16 * j)>> :
                            j \in {k \in 0..15 : 16 * k < f.l - 9}}

SentLength(f)  == Max({b[2] : b \in SentBlocks(f)}) + 2
SentBytes(id, f) == [i \in 1..SentLength(f) |-> <<id, i>>]
(* The CI byte and the application data, without CRCs.                     *)
SentPayload(f) == UNION {b[1]..b[2] : b \in SentBlocks(f)} \ (1..IF f.type = "A" THEN 13 ELSE 11)

-----------------------------------------------------------------------------
(* The bytes' values, as far as the decoder looks at them.                 *)

FrameOf(byte) == fsAir[byte[1]]
IsSync(byte)  == byte[2] = 1
SyncType(byte) == FrameOf(byte).type
(* A byte that is no L-field has some value; this one is neither sync.     *)
AnyValue == 20
ByteValue(byte) == IF byte[2] = 2 THEN FrameOf(byte).l ELSE AnyValue

(* Mutant of PacketLength: one CRC, whatever the number of blocks.         *)
PacketLengthOneCrc(type, l) == IF type = "B" THEN l + 2 ELSE l + 4

(* wmbus_packet_len                                                        *)
PacketLength(type, l) ==
  IF type = "B" THEN l + 2
  ELSE LET crcs == 1 + (Max({l - 10, 0}) + 15) \div 16 IN 2 + l + 2 * crcs

NoSize == -2

(* packet_size of a buffer with two bytes: sync and length in either order. *)
PacketSize(buffer) ==
  IF IsSync(buffer[1]) THEN PacketLength(SyncType(buffer[1]), ByteValue(buffer[2]))
  ELSE IF IsSync(buffer[2]) THEN PacketLength(SyncType(buffer[2]), ByteValue(buffer[1]))
  ELSE NoSize

(* verify_block of raw[first..last] and the two bytes behind it.           *)
BlockValid(raw, first, last) ==
  /\ last + 2 <= Len(raw)
  /\ raw[first] # Noise
  /\ \A i \in first..last + 2 : raw[i] = <<raw[first][1], raw[first][2] + i - first>>
  /\ <<raw[first][2], raw[first][2] + last - first>> \in SentBlocks(FrameOf(raw[first]))

(* decode_mode_c: the blocks of data behind the link header, ...           *)
DataBlocks(l) ==
  {<<14 + 18 * j, 13 + 18 * j + FsMin(16, l - 9 - 16 * j)>> : j \in {k \in 0..15 : 16 * k < l - 9}}

(* Mutant of CrcOk: only the CRC of the first block.                       *)
CrcOkFirst(raw) == BlockValid(raw, 2, IF SyncType(raw[1]) = "A" THEN 11 ELSE ByteValue(raw[2]))

(* ... whether every CRC holds, and the positions of the payload.  The       *)
(* second block of a type B frame is never there: packet_size ends a frame  *)
(* where the first ends.                                                   *)
CrcOk(raw) ==
  LET l == ByteValue(raw[2])
  IN  IF SyncType(raw[1]) = "A"
      THEN BlockValid(raw, 2, 11) /\ \A b \in DataBlocks(l) : BlockValid(raw, b[1], b[2])
      ELSE l + 2 <= Len(raw) /\ BlockValid(raw, 2, l)

PayloadOf(raw) ==
  LET l == ByteValue(raw[2])
      at == IF SyncType(raw[1]) = "A" THEN UNION {b[1]..b[2] : b \in DataBlocks(l)} ELSE 12..l
  IN  {raw[i] : i \in at}

MinimumFrame == 13

-----------------------------------------------------------------------------
FsInit ==
  /\ fsAir \in [1..FsSent -> FsFrames]
  /\ fsWire = [i \in 1..FsSent |-> SentBytes(i, fsAir[i])]
  /\ fsBuffer = <<>> /\ fsExpected = 0 /\ fsDecoded = <<>> /\ fsFaults = 0 /\ fsResets = FALSE

(* The bytes on their way, oldest frame first.                             *)
Pending == IF fsWire = <<>> THEN <<>> ELSE Head(fsWire)

(* add_bytes: a chunk of the stream, a byte of which the radio may have      *)
(* garbled or lost.  Chunks do not span frames.                            *)
AddBytes(n) ==
  LET size  == FsMin(n, Len(Pending))
      chunk == SubSeq(Pending, 1, size)
      rest  == SubSeq(Pending, size + 1, Len(Pending))
  IN  /\ fsWire # <<>>
      /\ fsWire' = (IF rest = <<>> THEN <<>> ELSE <<rest>>) \o Tail(fsWire)
      /\ \/ fsBuffer' = fsBuffer \o chunk /\ UNCHANGED fsFaults
         \/ /\ fsFaults < FsFaults /\ fsFaults' = fsFaults + 1
            /\ \E i \in 1..size :
                 \/ fsBuffer' = fsBuffer \o [chunk EXCEPT ![i] = Noise]
                 \/ fsBuffer' = fsBuffer \o SubSeq(chunk, 1, i - 1) \o SubSeq(chunk, i + 1, size)
      /\ UNCHANGED <<fsAir, fsExpected, fsDecoded, fsResets>>

(* determine_frame_size: the size, remembered; or no header, and the buffer *)
(* is dropped.                                                             *)
DetermineSize ==
  /\ fsExpected = 0 /\ Len(fsBuffer) >= 2
  /\ LET size == PacketSize(fsBuffer)
     IN  IF size = NoSize THEN fsBuffer' = <<>> /\ UNCHANGED fsExpected
         ELSE fsExpected' = size /\ UNCHANGED fsBuffer
  /\ UNCHANGED <<fsAir, fsWire, fsDecoded, fsFaults, fsResets>>

(* try_decode_frame once the frame is there: it leaves the buffer whatever   *)
(* comes of it.  A frame of [LEN][SYNC] order is sized and never decoded:   *)
(* its header is invalid, which drops the buffer.                          *)
DecodeFrame ==
  LET raw  == SubSeq(fsBuffer, 1, fsExpected)
      rest == SubSeq(fsBuffer, fsExpected + 1, Len(fsBuffer))
  IN  /\ fsExpected # 0 /\ Len(fsBuffer) >= fsExpected
      /\ fsExpected' = 0
      /\ \/ ~IsSync(raw[1]) /\ fsBuffer' = <<>> /\ UNCHANGED fsDecoded
         \/ /\ IsSync(raw[1]) /\ (Len(raw) < MinimumFrame \/ ~CrcOk(raw))
            /\ fsBuffer' = rest /\ UNCHANGED fsDecoded
         \/ /\ IsSync(raw[1]) /\ Len(raw) >= MinimumFrame /\ CrcOk(raw)
            /\ fsBuffer' = rest
            /\ fsDecoded' = Append(fsDecoded, [id |-> raw[1][1], payload |-> PayloadOf(raw)])
      /\ UNCHANGED <<fsAir, fsWire, fsFaults, fsResets>>

(* reset()                                                                 *)
ResetDecoder ==
  /\ ~fsResets /\ fsResets' = TRUE
  /\ fsBuffer' = <<>> /\ fsExpected' = 0
  /\ UNCHANGED <<fsAir, fsWire, fsDecoded, fsFaults>>

FsNext == (\E n \in FsChunks : AddBytes(n)) \/ DetermineSize \/ DecodeFrame \/ ResetDecoder

FsSpec == FsInit /\ [][FsNext]_fsVars

-----------------------------------------------------------------------------
Ids(frames) == [i \in DOMAIN frames |-> frames[i].id]

(* A decoded frame is one a meter sent, with its own payload and nothing of   *)
(* another, in order and once, when few bytes are garbled or lost: no CRC    *)
(* binds the blocks of a type A frame to each other, so one that lost a     *)
(* whole block could be completed by a block of the next frame             *)
(* (process_frame, decode_mode_c).                                         *)
FramesGenuine ==
  /\ \A i \in DOMAIN fsDecoded :
       LET d == fsDecoded[i] IN d.payload = {<<d.id, p>> : p \in SentPayload(fsAir[d.id])}
  /\ \A i, j \in DOMAIN fsDecoded : i < j => Ids(fsDecoded)[i] < Ids(fsDecoded)[j]

Drained == fsWire = <<>> /\ Len(fsBuffer) < 2 /\ fsFaults = 0 /\ ~fsResets

(* A stream without faults is decoded to the last frame: the header tells    *)
(* the length of every frame, its CRCs included (frame_decode.rs, module    *)
(* documentation).                                                         *)
FramesComplete == Drained => Ids(fsDecoded) = [i \in 1..FsSent |-> i]

(* Type A frames whose last block holds one byte.                          *)
OneByteTail(f) == f.type = "A" /\ (f.l - 9) % 16 = 1

(* What holds of completeness: frames none of which ends in a block of one  *)
(* byte are all decoded, and never is a frame lost by being cut into pieces. *)
RegularComplete == (\A i \in 1..FsSent : ~OneByteTail(fsAir[i])) => FramesComplete
=============================================================================
