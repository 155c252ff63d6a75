----------------------------- MODULE LoRaReadings -----------------------------
(***************************************************************************)
(* What the LoRa payload decoders read out of a payload (src/wmbus/radio/  *)
(* lora/decoders and decoders/nom).  A payload is a sequence of bytes that *)
(* are known by the field they are of and by their place in it; a decoder  *)
(* turns some of them, in some order, into readings.  A device sends the   *)
(* fields of its model, of which the end may be missing.                   *)
(***************************************************************************)
EXTENDS Integers, Sequences, SequencesExt, FiniteSets

CONSTANTS
  LrEntries,            \* bound: entries of a payload of type-length-value entries
  LrTypes,              \* types of such entries: Cayenne LPP types, known or not
  LrChannels,           \* channels of a Decentlab sensor; a decoder knows the first ones
  LrPorts               \* fPorts

ASSUME LrAssumption == LrEntries \in Nat /\ LrTypes \subseteq 0..255 /\ LrChannels \in 1..8 /\ LrPorts \subseteq 0..255

VARIABLES
  lrDecoder,            \* the decoder and its configuration
  lrSent,               \* the fields the device sent, in order
  lrPayload,            \* the bytes that are decoded: all of them, or the first few
  lrPort,               \* fPort
  lrCan,                \* what can_decode says
  lrResult              \* what decode returned

lrVars == <<lrDecoder, lrSent, lrPayload, lrPort, lrCan, lrResult>>

-----------------------------------------------------------------------------
(* Devices: a field has `size` bytes, its least significant one is 0; `is`   *)
(* is the value of a field that tells something about the others, `type`    *)
(* that of an entry or the number of a channel; `nth` tells entries apart.  *)
Little(name, size)  == [name |-> name, type |-> 0, nth |-> 0, size |-> size, big |-> FALSE, signed |-> FALSE, is |-> 0]
Big(name, size)     == [Little(name, size) EXCEPT !.big = TRUE]
Signed(field)       == [field EXCEPT !.signed = TRUE]
Typed(type, field)  == [field EXCEPT !.type = type]
Saying(name, value)  == [Little(name, 1) EXCEPT !.is = value]

(* The bytes of a field, the most significant one first.                    *)
Value(f) == [k \in 1..f.size |-> [of |-> f.name, nth |-> f.nth, b |-> f.size - k, is |-> f.is]]
Wire(fields) == FlattenSeq([i \in DOMAIN fields |-> IF fields[i].big THEN Value(fields[i]) ELSE Reverse(Value(fields[i]))])

(* Cayenne LPP: an unknown type stands for one of another vendor.            *)
CayenneSent(t) ==
  Typed(t,
  CASE t \in {0, 1, 102, 104} -> Big("entry", 1)
    [] t \in {2, 3, 103, 121} -> Signed(Big("entry", 2))
    [] t \in {113, 134}       -> Signed(Big("entry", 6))
    [] t = 136                -> Signed(Big("entry", 9))
    [] t \in {131, 133}       -> Big("entry", 4)
    [] OTHER                  -> Big("entry", 2))

SensativeSent(t) == Typed(t, IF t = 1 THEN Signed(Little("entry", 2)) ELSE Little("entry", 1))

Entries(types, Before(_), Sent(_)) ==
  {FlattenSeq([i \in DOMAIN s |-> Append(Before(s[i]), [Sent(s[i]) EXCEPT !.nth = i])]) :
     s \in UNION {[1..n -> types] : n \in 0..LrEntries}}

Meter(first, rest) == <<first>> \o rest
CMi == <<Little("id", 4), Little("total", 4), Little("flow", 4), Signed(Little("temp1", 2)),
         Signed(Little("temp2", 2)), Little("power", 2), Little("battery", 1)>>
Simple == <<Little("id", 4), Little("counter", 4), Little("status", 2), Little("battery", 1)>>

(* What the devices of a decoder's model send.                              *)
Models(d) ==
  CASE d.kind = "CMi4110" -> {Meter(Saying("type", t), CMi) : t \in {120, 121}}
    [] d.kind = "CMe3100" ->
         {Meter(Saying("type", 64), <<Little("id", 4), Little("import", 4), Little("export", 4), Little("power", 2),
                                     Little("voltage", 2), Little("current", 2), Little("factor", 2),
                                     Little("frequency", 2), Little("status", 1)>>)}
    [] d.kind = "Elvaco" ->
         {<<Little("id", 4), Little("primary", 4), Little("secondary", 2), Little("status", 1), Little("battery", 1)>>}
    [] d.kind = "SW3L" ->
         {<<Little("id", 2), Little("status", 1), Little("flow", 2), Little("volume", 4),
            Signed(Little("temp1", 2)), Little("battery", 2)>>}
    [] d.kind = "LWL03A" ->
         {<<Little("id", 2), Little("status", 1), Little("times", 2), Little("duration", 2), Little("battery", 2)>>}
    [] d.kind = "Decentlab" ->
         {<<Saying("version", v), Big("id", 2), Saying("flags", FoldSet(LAMBDA c, n : n + 2^(c - 1), 0, on))>>
            \o FlattenSeq([c \in 1..LrChannels |-> IF c \in on THEN <<Typed(c, Signed(Big("sensor", 2)))>> ELSE <<>>])
            \o <<Big("battery", 2)>> : v \in {2, 3}, on \in SUBSET (1..LrChannels)}
    [] d.kind = "Counter" ->
         LET may(field, there) == IF there THEN <<field>> ELSE <<>>
             Ordered(f) == [f EXCEPT !.big = d.big]
         IN {may(Ordered(Little("time", 4)), d.time) \o <<Ordered(Little("counter", d.size))>>
               \o may(Ordered(Little("delta", 2)), delta) \o may(Little("status", 1), status)
               \o may(Little("battery", 1), battery) : delta, status, battery \in BOOLEAN}
    [] d.kind \in {"Compact", "CompactNom"} ->
         {<<Little("frame", 14)>>, Simple, Simple \o <<Signed(Little("temp1", 2))>>,
          Simple \o <<Signed(Little("temp1", 2)), Little("pressure", 2)>>}
    [] d.kind = "Cayenne" -> Entries(LrTypes, LAMBDA t : <<Little("channel", 1), Saying("type", t)>>, CayenneSent)
    [] d.kind = "Sensative" ->
         Entries({1, 2, 4}, LAMBDA t : <<Saying("type", t), Saying("length", SensativeSent(t).size)>>, SensativeSent)
    [] d.kind = "OMS" ->
         {<<Little("length", 1), Saying("control", c), Little("manufacturer", 2), Little("id", 4), Little("version", 1),
            Little("medium", 1), Little("access", 1), Saying("status", s)>>
            \o (IF s = 48 THEN <<Little("signature", 2)>> ELSE <<>>)
            \o [i \in DOMAIN r |-> [Saying("record", r[i]) EXCEPT !.nth = i]] :
              c \in {68, 16}, s \in {0, 48}, r \in {<<0, 1, 0>>, <<2, 0, 3, 0>>, <<1, 4>>}}

(* The decoders, one configuration of each choice.                          *)
LrDecoders ==
  {[kind |-> k] : k \in {"CMi4110", "CMe3100", "Elvaco", "SW3L", "LWL03A", "Compact", "CompactNom", "Cayenne", "Sensative"}}
  \cup [kind : {"Decentlab"}, channels : 1..LrChannels]
  \cup [kind : {"Counter"}, big : BOOLEAN, size : {2, 4}, time : BOOLEAN, battery : BOOLEAN]
  \cup [kind : {"OMS"}, other : BOOLEAN]

-----------------------------------------------------------------------------
(* Reading bytes: offsets count from 0.                                     *)

(* Mutant of ReadLE: the bytes as they stand.                               *)
ReadLEInOrder(p, offset, size) == SubSeq(p, offset + 1, offset + size)

ReadLE(p, offset, size) == Reverse(SubSeq(p, offset + 1, offset + size))
ReadBE(p, offset, size) == SubSeq(p, offset + 1, offset + size)
Fits(p, offset, size)   == offset + size <= Len(p)

ReadsTyped(name, type, value, signed) == [name |-> name, type |-> type, value |-> value, signed |-> signed]
Reads(name, value, signed)            == ReadsTyped(name, 0, value, signed)
Table(p, rows) == {Reads(r[1], ReadLE(p, r[2], r[3]), FALSE) : r \in rows}
Decoded(readings) == [ok |-> TRUE, why |-> "", readings |-> readings]
Rejected(why)      == [ok |-> FALSE, why |-> why, readings |-> {}]

(* decode_cmi4110: the temperature of the return and the power of a meter of *)
(* heat.                                                                   *)
DecodeCMi4110(p) ==
  IF Len(p) < 20 THEN Rejected("InvalidLength")
    ELSE Decoded(Table(p, {<<"id", 1, 4>>, <<"total", 5, 4>>, <<"flow", 9, 4>>, <<"temp1", 13, 2>>, <<"battery", 19, 1>>}
                          \cup IF p[1].is = 121 THEN {<<"temp2", 15, 2>>, <<"power", 17, 2>>} ELSE {}))

DecodeCMe3100(p) ==
  IF Len(p) < 24 THEN Rejected("InvalidLength")
    ELSE Decoded(Table(p, {<<"id", 1, 4>>, <<"import", 5, 4>>, <<"export", 9, 4>>, <<"power", 13, 2>>, <<"voltage", 15, 2>>,
                           <<"current", 17, 2>>, <<"factor", 19, 2>>, <<"frequency", 21, 2>>, <<"status", 23, 1>>}))

DecodeElvaco(p) ==
  IF Len(p) < 12 THEN Rejected("InvalidLength")
    ELSE Decoded(Table(p, {<<"id", 0, 4>>, <<"primary", 4, 4>>, <<"secondary", 8, 2>>, <<"status", 10, 1>>, <<"battery", 11, 1>>}))

(* get_format                                                              *)
DraginoFields(kind) ==
  IF kind = "SW3L"
    THEN {<<"id", 0, 2>>, <<"status", 2, 1>>, <<"flow", 3, 2>>, <<"volume", 5, 4>>, <<"temp1", 9, 2>>, <<"battery", 11, 2>>}
    ELSE {<<"id", 0, 2>>, <<"status", 2, 1>>, <<"times", 3, 2>>, <<"duration", 5, 2>>, <<"battery", 7, 2>>}

(* A field that does not fit is skipped.                                    *)
DecodeDragino(p, kind) == Decoded(Table(p, {r \in DraginoFields(kind) : Fits(p, r[2], r[3])}))

(* The channels that are configured and flagged, two bytes each, and then    *)
(* two bytes of battery, whatever they are.                                *)
DecodeDecentlab(p, channels) ==
  LET on     == SelectSeq([c \in 1..channels |-> c], LAMBDA c : (p[4].is \div 2^(c - 1)) % 2 = 1)
      At(i)  == 4 + 2 * (i - 1)
      after  == At(Len(on) + 1)
  IN IF Len(p) < 6 THEN Rejected("InvalidLength")
       ELSE IF p[1].is # 2 THEN Rejected("UnsupportedVersion")
       ELSE IF \E i \in DOMAIN on : ~Fits(p, At(i), 2) THEN Rejected("InvalidLength")
       ELSE Decoded({ReadsTyped("sensor", on[i], ReadBE(p, At(i), 2), TRUE) : i \in DOMAIN on}
                    \cup {Reads("id", ReadBE(p, 1, 2), FALSE)}
                    \cup IF Fits(p, after, 2) THEN {Reads("battery", ReadBE(p, after, 2), FALSE)} ELSE {})

(* Mutant of CounterFields: the status first.                               *)
CounterFieldsSwapped(d, left) ==
  (IF left >= 1 THEN <<<<"status", 1>>>> ELSE <<>>) \o (IF left >= 3 THEN <<<<"delta", 2>>>> ELSE <<>>)
  \o (IF d.battery /\ left >= 4 THEN <<<<"battery", 1>>>> ELSE <<>>)

(* What follows the counter: a difference where two bytes are left, a status *)
(* where one is, and the battery where one is and it is configured.        *)
CounterFields(d, left) ==
  LET delta == IF left >= 2 THEN 2 ELSE 0 IN
  (IF delta = 2 THEN <<<<"delta", 2>>>> ELSE <<>>) \o (IF left > delta THEN <<<<"status", 1>>>> ELSE <<>>)
  \o (IF d.battery /\ left > delta + 1 THEN <<<<"battery", 1>>>> ELSE <<>>)

DecodeCounter(p, d) ==
  LET first  == (IF d.time THEN <<<<"time", 4>>>> ELSE <<>>) \o <<<<"counter", d.size>>>>
      needed == FoldLeft(LAMBDA n, r : n + r[2], 0, first)
      rows   == first \o CounterFields(d, Len(p) - needed)
      At(i)  == FoldLeft(LAMBDA n, r : n + r[2], 0, SubSeq(rows, 1, i - 1))
  IN IF Len(p) < needed THEN Rejected("InvalidLength")
       ELSE Decoded({Reads(rows[i][1], IF d.big THEN ReadBE(p, At(i), rows[i][2]) ELSE ReadLE(p, At(i), rows[i][2]), FALSE) :
                       i \in DOMAIN rows})

SimpleRows == {<<"id", 0, 4>>, <<"counter", 4, 4>>, <<"status", 8, 2>>, <<"battery", 10, 1>>}
Optional(p, name, offset, signed) ==
  IF Fits(p, offset, 2) THEN {Reads(name, ReadLE(p, offset, 2), signed)} ELSE {}

(* parse_wmbus_frame accepts a whole frame: WMBusLink.                      *)
IsFrame(p) == p = Wire(<<Little("frame", 14)>>)

(* CompactFrameDecoder: a payload that is no frame of wM-Bus is a simple one, *)
(* and what a frame carries is passed on as it is.                         *)
DecodeCompact(p, port) ==
  IF port = 0 THEN Rejected("InvalidData")
    ELSE IF Len(p) < 12 THEN Rejected("InvalidLength")
    ELSE IF IsFrame(p) THEN Decoded({Reads("frame", ReadLE(p, 0, 14), FALSE)})
    ELSE Decoded(Table(p, SimpleRows) \cup Optional(p, "temp1", 11, TRUE))

(* CompactFrameNomDecoder: of any port, and with a pressure.                 *)
DecodeCompactNom(p) ==
  IF Len(p) < 11 THEN Rejected("InvalidData")
    ELSE Decoded(Table(p, SimpleRows) \cup Optional(p, "temp1", 11, TRUE) \cup Optional(p, "pressure", 13, FALSE))

(* CayenneType::data_size, 0 for a type from_byte does not know.            *)
DataSize(t) ==
  CASE t \in {0, 1, 102, 104} -> 1
    [] t \in {2, 3, 101, 103, 115, 121, 128, 132} \cup 116..118 \cup {119, 120} -> 2
    [] t \in {131, 133} -> 4 [] t \in {113, 134} -> 6 [] t = 136 -> 9 [] OTHER -> 0

(* to_reading: an output is named like an input.                            *)
NamedAs(t) == IF t \in {1, 3} THEN t - 1 ELSE t

(* parse_cayenne_tlv: the bytes and the sign an entry is read with.  Of a     *)
(* percentage the first byte is read, and a position has no sign.          *)
CayenneReading(p, o) ==
  LET t == p[o + 2].is IN
  ReadsTyped("entry", NamedAs(t), ReadBE(p, o + 2, IF t = 120 THEN 1 ELSE DataSize(t)), t \in {2, 3, 103, 113, 121, 134})

(* Where the entries stand that are read, and where the first one that is    *)
(* not: Size tells the data of the entry at an offset, -1 that it ends.     *)
Offsets(p, Size(_)) ==
  LET at[i \in 0..LrEntries] ==
        IF i = 0 THEN <<0>>
          ELSE LET o == Last(at[i - 1]) IN
               IF Fits(p, o, 2) /\ Size(o) >= 0 /\ Fits(p, o + 2, Size(o)) THEN Append(at[i - 1], o + 2 + Size(o)) ELSE at[i - 1]
  IN Range(Front(at[LrEntries]))

(* many0(parse_cayenne_tlv): up to the first entry that is unknown or cut,    *)
(* and never an error.                                                     *)
CayenneEntries(p) ==
  Offsets(p, LAMBDA o : IF DataSize(p[o + 2].is) = 0 THEN -1 ELSE DataSize(p[o + 2].is))

(* cayenne_to_metering_data: the last battery and the last time are those of *)
(* the device as well.                                                     *)
DecodeCayenne(p) ==
  LET of(t)  == {o \in CayenneEntries(p) : p[o + 2].is = t}
      also(name, t) == {Reads(name, ReadBE(p, o + 2, DataSize(t)), FALSE) : o \in {o \in of(t) : \A q \in of(t) : q <= o}}
  IN Decoded({CayenneReading(p, o) : o \in CayenneEntries(p)} \cup also("battery", 119) \cup also("time", 133))

DecodeSensative(p) ==
  LET sized(t) == IF t = 1 THEN 2 ELSE 1 IN
  Decoded({ReadsTyped("entry", p[o + 1].is, ReadLE(p, o + 2, sized(p[o + 1].is)), p[o + 1].is = 1) :
             o \in {o \in Offsets(p, LAMBDA o : p[o + 2].is) : p[o + 1].is \in {1, 2} /\ p[o + 2].is = sized(p[o + 1].is)}})

(* OMS.  A record is one byte here, RecordWalk takes it apart: 0 a record,    *)
(* 1 one of the battery, 2 one that is refused, 3 a filler, 4 one of the    *)
(* battery that is no number.                                              *)
OmsHeader == {<<"length", 0, 1>>, <<"control", 1, 1>>, <<"manufacturer", 2, 2>>, <<"id", 4, 4>>, <<"version", 8, 1>>,
              <<"medium", 9, 1>>, <<"access", 10, 1>>, <<"status", 11, 1>>}

DecodeOms(p, d) ==
  LET signed == p[12].is = 48 /\ Fits(p, 12, 2)
      from   == IF signed THEN 14 ELSE 12
      stop   == SelectInSeq(SubSeq(p, from + 1, Len(p)), LAMBDA c : c.is = 3)
      body   == {i \in from + 1..Len(p) : stop = 0 \/ i < from + stop}
  IN IF Len(p) < 12 THEN Rejected("InvalidData")
       ELSE IF d.other THEN Rejected("InvalidData")
       ELSE Decoded(Table(p, OmsHeader \cup (IF signed THEN {<<"signature", 12, 2>>} ELSE {}))
                    \cup {Reads("record", <<p[i]>>, FALSE) : i \in {i \in body : p[i].is \in {0, 1}}})

DecodePayload(d, p, port) ==
  CASE d.kind = "CMi4110" -> DecodeCMi4110(p)   [] d.kind = "CMe3100" -> DecodeCMe3100(p)
    [] d.kind = "Elvaco" -> DecodeElvaco(p)     [] d.kind \in {"SW3L", "LWL03A"} -> DecodeDragino(p, d.kind)
    [] d.kind = "Decentlab" -> DecodeDecentlab(p, d.channels)
    [] d.kind = "Counter" -> DecodeCounter(p, d) [] d.kind = "Compact" -> DecodeCompact(p, port)
    [] d.kind = "CompactNom" -> DecodeCompactNom(p) [] d.kind = "Cayenne" -> DecodeCayenne(p)
    [] d.kind = "Sensative" -> DecodeSensative(p) [] d.kind = "OMS" -> DecodeOms(p, d)

(* can_decode of the decoders; of any payload the first two bytes may be     *)
(* like those of a frame.                                                  *)
CanDecode(d, p, port, likeFrame) ==
  CASE d.kind = "CMi4110" -> Len(p) >= 20 /\ p[1].is \in {120, 121}
    [] d.kind = "CMe3100" -> Len(p) >= 24 /\ p[1].is \div 16 = 4
    [] d.kind = "Elvaco" -> Len(p) >= 12
    [] d.kind \in {"SW3L", "LWL03A"} -> \A r \in DraginoFields(d.kind) : Fits(p, r[2], r[3])
    [] d.kind = "Decentlab" -> Len(p) >= 4 /\ p[1].is = 2
    [] d.kind = "Counter" -> Len(p) >= (IF d.time THEN 4 ELSE 0) + d.size
    [] d.kind = "Compact" -> Len(p) >= 12 /\ port # 0 /\ (IsFrame(p) \/ likeFrame)
    [] d.kind = "CompactNom" -> Len(p) >= 11 /\ port # 0
    [] d.kind = "Cayenne" -> Len(p) >= 3 /\ DataSize(p[2].is) > 0 /\ Fits(p, 2, DataSize(p[2].is))
    [] d.kind = "Sensative" -> DecodePayload(d, p, port).ok
    [] d.kind = "OMS" -> Len(p) >= 12 /\ p[2].is \in {68, 70, 8}

-----------------------------------------------------------------------------
NotDecoded == [ok |-> FALSE, why |-> "not decoded", readings |-> {}]

LrInit ==
  /\ lrDecoder \in LrDecoders /\ lrSent \in Models(lrDecoder) /\ lrPort \in LrPorts
  /\ lrPayload = <<>> /\ lrCan = FALSE /\ lrResult = NotDecoded

(* A payload comes, or the first bytes of it, and is decoded.                *)
LrNext ==
  /\ lrResult = NotDecoded
  /\ \E n \in 0..Len(Wire(lrSent)), likeFrame \in BOOLEAN :
       LET p == SubSeq(Wire(lrSent), 1, n) IN
       /\ lrPayload' = p
       /\ lrCan' = CanDecode(lrDecoder, p, lrPort, likeFrame)
       /\ lrResult' = DecodePayload(lrDecoder, p, lrPort)
  /\ UNCHANGED <<lrDecoder, lrSent, lrPort>>

-----------------------------------------------------------------------------
Uncut == lrPayload = Wire(lrSent)
IsSent(name) == \E i \in DOMAIN lrSent : lrSent[i].name = name

(* Payloads a decoder takes for others: a frame of wM-Bus that is cut, or    *)
(* that is given to the decoder on nom; a counter that leaves out a field    *)
(* before the last one it sends, or is cut in the difference; a sensor with  *)
(* more channels than are configured, the first of which is the battery;    *)
(* half a signature.                                                       *)
Mistaken(r) ==
  CASE lrDecoder.kind \in {"Compact", "CompactNom"} -> IsSent("frame") /\ r.name # "frame"
    [] lrDecoder.kind = "Counter" ->
         /\ r.name \in {"delta", "status", "battery"}
         /\ \/ IsSent("battery") /\ ~(IsSent("delta") /\ IsSent("status"))
            \/ ~Uncut /\ Last(lrPayload).of = "delta"
    [] lrDecoder.kind = "Decentlab" ->
         r.name = "battery" /\ \E i \in DOMAIN lrSent : lrSent[i].type > lrDecoder.channels
    [] lrDecoder.kind = "OMS" -> r.name = "record" /\ r.value[1].of = "signature"
    [] OTHER -> FALSE

(* Signs that are lost: below zero a temperature of Elvaco and Dragino is     *)
(* one of hundreds of degrees, and a position of Cayenne is elsewhere.      *)
SignLost(f) == f.name \in {"temp1", "temp2"} \/ f.type = 136

(* A reading is the value of the field it is named for: its bytes, all of    *)
(* them, in the order of their weight, with their sign, and the battery and  *)
(* the time of Cayenne are those of its last such entry; but for payloads    *)
(* that are mistaken, signs that are lost, and the lower byte of the        *)
(* percentages of Cayenne.                                                 *)
ReadingsInPlace ==
  \A r \in lrResult.readings :
    \/ Mistaken(r)
    \/ \E i \in DOMAIN lrSent :
         LET f == lrSent[i] IN
         /\ \/ /\ f.name = r.name
               /\ r.type = IF lrDecoder.kind = "Cayenne" THEN NamedAs(f.type) ELSE f.type
            \/ /\ <<r.name, f.type>> \in {<<"battery", 119>>, <<"time", 133>>}
               /\ ~Uncut \/ \A j \in i + 1..Len(lrSent) : lrSent[j].type # f.type
         /\ r.value = IF f.type = 120 THEN SubSeq(Value(f), 1, 1) ELSE Value(f)
         /\ r.signed # f.signed => f.signed /\ SignLost(f)

(* What a whole payload has for its decoder is read: everything up to the    *)
(* first entry of Cayenne that is unknown, the first filler of OMS, with     *)
(* nothing left out but what tells of the others, what only a meter of heat  *)
(* has, what the decoder is not configured for, other entries of Sensative,  *)
(* records of OMS that are refused or of a battery without a number, and,   *)
(* by the older decoder of compact frames, the pressure.                    *)
LeftUnread(i) ==
  LET f == lrSent[i]
      Stops(j) == \/ lrSent[j].name = "record" /\ lrSent[j].is = 3
                  \/ lrDecoder.kind = "Cayenne" /\ lrSent[j].name = "type" /\ DataSize(lrSent[j].is) = 0
      fixed == lrSent[1].name = "type"
  IN \/ f.name \in {"type", "channel", "length", "flags", "version"} /\ lrDecoder.kind # "OMS"
     \/ f.name \in {"temp2", "power"} /\ fixed /\ lrSent[1].is = 120
     \/ f.name = "battery" /\ lrDecoder.kind = "Counter" /\ ~lrDecoder.battery
     \/ lrDecoder.kind = "Decentlab" /\ f.type > lrDecoder.channels
     \/ f.type = 4 /\ lrDecoder.kind = "Sensative"
     \/ f.name = "record" /\ f.is \in {2, 4}
     \/ f.name = "pressure" /\ lrDecoder.kind = "Compact"
     \/ \E j \in 1..i : Stops(j)
NothingLeftOut ==
  Uncut /\ lrResult.ok /\ (\A r \in lrResult.readings : ~Mistaken(r)) =>
    \A i \in DOMAIN lrSent :
      LeftUnread(i) \/ \E r \in lrResult.readings : r.name = lrSent[i].name /\ r.value[1].nth = lrSent[i].nth

(* A decoder refuses what its device sent only if it was cut, was sent on    *)
(* port 0, is of another version or another manufacturer, or is a simple     *)
(* compact frame that has nothing optional: for that one byte is missing.    *)
RefusedForReason ==
  lrResult.why \notin {"", "not decoded"} =>
    \/ ~Uncut
    \/ lrResult.why = "InvalidData" /\ (lrPort = 0 \/ (lrDecoder.kind = "OMS" /\ lrDecoder.other))
    \/ lrResult.why = "UnsupportedVersion"
    \/ lrDecoder.kind = "Compact" /\ Len(lrPayload) = 11

(* A decoder that says it can decode a payload does, unless it only looked   *)
(* at the version of Decentlab and the payload is cut, or at the control     *)
(* field of OMS and the manufacturer is another.                           *)
CanDecodeKept ==
  lrCan /\ ~lrResult.ok =>
    \/ lrDecoder.kind = "Decentlab" /\ ~Uncut
    \/ lrDecoder.kind = "OMS" /\ lrDecoder.other

PayloadsRead == ReadingsInPlace /\ NothingLeftOut /\ RefusedForReason /\ CanDecodeKept
=============================================================================
