---------------------------- MODULE VendorRecords ----------------------------
(***************************************************************************)
(* What a manufacturer may change of what was received: the registry of     *)
(* vendor extensions (vendors/mod.rs), which several threads share, and the *)
(* readers that ask it (payload/record.rs, mbus/secondary_addressing.rs,    *)
(* wmbus/frame.rs, wmbus/block.rs), one hook after the other; with the      *)
(* QUNDIS extension (vendors/qundis_hca.rs), manufacturer codes             *)
(* (vendors/manufacturer.rs) and the encodings of payload/data_encoding.rs. *)
(*                                                                         *)
(* A record is what the standard parser made of it (see RecordWalk); of a   *)
(* value is kept who made it, and the date where it is one.                 *)
(***************************************************************************)
EXTENDS Integers, Sequences, SequencesExt, FiniteSets

CONSTANTS
  VdOwn,        \* manufacturer codes other crates have extensions for
  VdRecords,    \* records of the standard parser: [mfr, dif, vif, data]
  VdCis,        \* CI fields of frames
  VdBlocks,     \* CRCs of the blocks of a payload: sequences of BOOLEAN
  VdDates,      \* dates QUNDIS meters send: [year, month, more], `more` of them 0, 1 or 2 bytes
  VdTimes,      \* pairs of points in time: [year, month, day, hour, minute, second]
  VdLetters,    \* characters of manufacturer codes: 1..26 are letters
  VdNumbers,    \* numbers written in BCD
  VdCalls       \* bound: calls of register and unregister

ASSUME VdAssumption ==
  /\ "QDS" \notin VdOwn /\ VdCalls \in Nat /\ VdCis \subseteq 0..255 /\ VdNumbers \subseteq Nat
  /\ VdLetters \subseteq 0..31 /\ \A d \in VdDates : d.year \in 0..127 /\ d.month \in 0..15

VARIABLES
  vdRegistry,   \* inner: upper-case code -> extension
  vdAccepted,   \* history: code -> registrations accepted less those taken back
  vdJob,        \* what is being read, or NoJob
  vdHooks,      \* hooks still to be asked
  vdMade,       \* what has been made of it
  vdHeld,       \* history: extensions registered for its manufacturer at some time of the
                \* job, and whether one was all the time
  vdCalls       \* calls left

vdVars == <<vdRegistry, vdAccepted, vdJob, vdHooks, vdMade, vdHeld, vdCalls>>

NoJob  == [kind |-> "none"]
Codes  == VdOwn \cup {"QDS"}
Names  == [code : Codes, upper : BOOLEAN]                \* spellings: any letter may be small
Upper(name) == [name EXCEPT !.upper = TRUE]

(* new, with_defaults and with_manufacturer_detection; of the manufacturers  *)
(* known, QUNDIS alone has quirks.                                         *)
VdInit ==
  /\ vdRegistry \in {<<>>, (Upper([code |-> "QDS", upper |-> TRUE]) :> "qundis")}
  /\ vdAccepted = [c \in Codes |-> IF \E n \in DOMAIN vdRegistry : n.code = c THEN 1 ELSE 0]
  /\ vdJob = NoJob /\ vdHooks = <<>> /\ vdMade = NoJob /\ vdHeld = [some |-> {}, all |-> FALSE]
  /\ vdCalls = VdCalls

-----------------------------------------------------------------------------
(* The registry.  Every operation holds its lock from beginning to end.     *)

Lookup(name) == IF Upper(name) \in DOMAIN vdRegistry THEN {vdRegistry[Upper(name)]} ELSE {}

RegistryCalled == vdCalls > 0 /\ vdCalls' = vdCalls - 1 /\ UNCHANGED <<vdJob, vdHooks, vdMade>>

InForce(registry, code) == {registry[n] : n \in {m \in DOMAIN registry : m.code = code}}

(* The extensions of the job's manufacturer, after a call.                  *)
Noted ==
  vdHeld' = IF vdJob = NoJob THEN vdHeld
            ELSE LET now == InForce(vdRegistry', vdJob.mfr.code)
                 IN  [some |-> vdHeld.some \cup now, all |-> vdHeld.all /\ now # {}]

ExtensionFor(code) == IF code = "QDS" THEN "qundis" ELSE "own"

(* Mutant of RegisterExtension: a second extension takes the place of the first.      *)
RegisterReplacing(name) ==
  /\ RegistryCalled
  /\ vdRegistry' = (Upper(name) :> ExtensionFor(name.code)) @@ vdRegistry
  /\ vdAccepted' = [vdAccepted EXCEPT ![name.code] = @ + 1]
  /\ Noted

RegisterExtension(name) ==
  /\ RegistryCalled
  /\ IF Upper(name) \in DOMAIN vdRegistry
     THEN UNCHANGED <<vdRegistry, vdAccepted>>
     ELSE /\ vdRegistry' = (Upper(name) :> ExtensionFor(name.code)) @@ vdRegistry
          /\ vdAccepted' = [vdAccepted EXCEPT ![name.code] = @ + 1]
  /\ Noted

UnregisterExtension(name) ==
  /\ RegistryCalled
  /\ vdRegistry' = [n \in DOMAIN vdRegistry \ {Upper(name)} |-> vdRegistry[n]]
  /\ vdAccepted' = IF Upper(name) \in DOMAIN vdRegistry THEN [vdAccepted EXCEPT ![name.code] = @ - 1] ELSE vdAccepted
  /\ Noted

-----------------------------------------------------------------------------
(* QUNDIS dates.  A raw value is its two halves of 16 bits.                 *)

Field(half, low, width) == (half \div 2^low) % 2^width
NoDate == [ok |-> FALSE]

DaysIn(year, month) ==
  CASE month = 2 -> IF year % 4 = 0 THEN 29 ELSE 28 [] month \in {4, 6, 9, 11} -> 30 [] OTHER -> 31

YearOf(low) == 2000 + 8 * Field(low, 12, 4) + Field(low, 5, 3)

(* The validation both decoders end with, chrono's of the day included.      *)
DateTime(low, day, hour, minute) ==
  LET year == YearOf(low)  month == Field(low, 1, 4)
  IN  IF year <= 2099 /\ month \in 1..12 /\ day \in 1..DaysIn(year, month) /\ hour <= 23 /\ minute <= 59
      THEN [ok |-> TRUE, date |-> <<year, month, day, hour, minute>>] ELSE NoDate

AtLeastOne(day) == IF day = 0 THEN 1 ELSE day

DecodeMbusValueDateG(low, high) ==
  DateTime(low, IF low % 2 = 1 THEN AtLeastOne(Field(high, 7, 5)) ELSE 1, 0, 0)

(* The day has bits 17 to 21, the minute bits 18 to 23.                     *)
DecodeMbusValueDatetimeG(low, high) ==
  DateTime(low, AtLeastOne(Field(high, 1, 5)), Field(high, 8, 5), Field(high, 2, 6))

Half(data, i) == IF i <= Len(data) THEN data[i] + 256 * (IF i < Len(data) THEN data[i + 1] ELSE 0) ELSE 0

(* The date of a field by its length; of more than four bytes the first two  *)
(* count, and are read with a time.                                        *)
QundisDate(data) ==
  CASE Len(data) < 2       -> NoDate
    [] Len(data) \in 2..3  -> DecodeMbusValueDateG(Half(data, 1), Half(data, 3))
    [] Len(data) = 4       -> DecodeMbusValueDatetimeG(Half(data, 1), Half(data, 3))
    [] OTHER               -> DecodeMbusValueDatetimeG(Half(data, 1), 0)

-----------------------------------------------------------------------------
(* Hooks: what an extension answers, "none" for the standard handling.       *)

NoAnswer   == [is |-> "none"]
Mistake    == [is |-> "error"]
Gives(v)   == [is |-> "some", value |-> v]
QdsExactly == [code |-> "QDS", upper |-> TRUE]

(* QundisHcaExtension, which compares the name as it is spelled.             *)
QundisAnswers(hook) ==
  CASE hook = "vif" /\ vdJob.mfr = QdsExactly /\ vdJob.vif = 4 ->
         IF QundisDate(vdJob.data).ok THEN Gives(QundisDate(vdJob.data).date) ELSE Mistake
    [] hook = "header" /\ vdJob.mfr = QdsExactly -> Gives("same")
    [] OTHER -> NoAnswer

(* Any extension of another crate; its list of records may be empty ("other"). *)
OwnAnswers == {NoAnswer, Mistake, Gives("own"), Gives("other")}

Answers(hook) ==
  LET found == Lookup(vdJob.mfr)
  IN  IF found = {} THEN {NoAnswer} ELSE IF found = {"qundis"} THEN {QundisAnswers(hook)} ELSE OwnAnswers

-----------------------------------------------------------------------------
(* The readers.                                                            *)

(* Mutant of RecordHooks: only the VIFs that are anybody's are asked for.    *)
RecordHooksStandard(r) ==
  (IF r.dif \in {15, 31} THEN <<"dif">> ELSE <<>>)
  \o (IF r.vif \in {127, 255} THEN <<"vif">> ELSE <<>>)
  \o (IF r.data # <<>> /\ Last(r.data) >= 32 THEN <<"status">> ELSE <<>>)

(* The hooks of parse_variable_record_with_vendor.  The VIF of QUNDIS dates  *)
(* is asked for by name; any last byte of data is taken for a status.        *)
RecordHooks(r) ==
  (IF r.dif \in {15, 31} THEN <<"dif">> ELSE <<>>)
  \o (IF r.vif \in {127, 255} THEN <<"vif">> ELSE <<>>)
  \o (IF r.mfr = QdsExactly /\ r.vif = 4 THEN <<"vif">> ELSE <<>>)
  \o (IF r.data # <<>> /\ Last(r.data) >= 32 THEN <<"status">> ELSE <<>>)

(* The hook of parse_wmbus_frame_with_vendor.                              *)
FrameHooks(ci) == IF ci \in 160..183 THEN <<"ci">> ELSE <<>>

(* Those of verify_blocks_with_vendor: one for each bad block.              *)
BlockHooks(crcs, encrypted) ==
  IF encrypted THEN <<>> ELSE [i \in 1..Len(SelectSeq(crcs, LAMBDA ok : ~ok)) |-> "crc"]

Begin(job, hooks, made) ==
  /\ vdJob = NoJob /\ vdJob' = job /\ vdHooks' = hooks /\ vdMade' = made
  /\ vdHeld' = [some |-> InForce(vdRegistry, job.mfr.code), all |-> InForce(vdRegistry, job.mfr.code) # {}]
  /\ UNCHANGED <<vdRegistry, vdAccepted, vdCalls>>

ReadRecord ==
  \E r \in VdRecords :
    Begin([kind |-> "record", mfr |-> r.mfr, vif |-> r.vif, data |-> r.data], RecordHooks(r),
          [value |-> "standard", flagged |-> FALSE, failed |-> FALSE])

ReadFrame ==
  \E ci \in VdCis, name \in Names :
    Begin([kind |-> "frame", mfr |-> name], FrameHooks(ci), [marked |-> FALSE, failed |-> FALSE])

(* SecondaryAddress::from_bytes_with_vendor; its name comes from the code.   *)
ReadAddress ==
  \E code \in Codes :
    Begin([kind |-> "address", mfr |-> [code |-> code, upper |-> TRUE]], <<"header">>,
          [address |-> "standard", failed |-> FALSE])

ReadBlocks ==
  \E crcs \in VdBlocks, name \in Names, encrypted \in BOOLEAN :
    Begin([kind |-> "blocks", mfr |-> name, crcs |-> crcs, encrypted |-> encrypted], BlockHooks(crcs, encrypted),
          [tolerated |-> 0, failed |-> FALSE])

(* The reader asks the next hook.  A record or an address fails with the     *)
(* extension, a frame or a block is as if there were none.                  *)
AskHook ==
  /\ vdJob # NoJob /\ vdHooks # <<>>
  /\ \E answer \in Answers(Head(vdHooks)) :
       LET given == answer.is = "some" /\ (Head(vdHooks) = "dif" => answer.value = "own")
       IN  /\ vdMade' =
                CASE answer.is = "error" /\ vdJob.kind \in {"record", "address"} -> [vdMade EXCEPT !.failed = TRUE]
                  [] ~given -> vdMade
                  [] Head(vdHooks) \in {"dif", "vif"} -> [vdMade EXCEPT !.value = answer.value]
                  [] Head(vdHooks) = "status" -> [vdMade EXCEPT !.flagged = answer.value = "own"]
                  [] Head(vdHooks) = "header" -> [vdMade EXCEPT !.address = answer.value]
                  [] Head(vdHooks) = "ci" -> [vdMade EXCEPT !.marked = TRUE]
                  [] Head(vdHooks) = "crc" -> [vdMade EXCEPT !.tolerated = @ + (IF answer.value = "own" THEN 1 ELSE 0)]
           /\ vdHooks' = IF vdMade'.failed THEN <<>> ELSE Tail(vdHooks)
  /\ UNCHANGED <<vdRegistry, vdAccepted, vdJob, vdHeld, vdCalls>>

-----------------------------------------------------------------------------
(* Conversions, which need no registry.                                    *)

(* What a QUNDIS meter sends for a date (the layout decode_mbus_value_date_g *)
(* documents), of two to four bytes, the time all zero.                     *)
SentDate(d) ==
  LET low == 4096 * (d.year \div 8) + 32 * (d.year % 8) + 2 * d.month
  IN  <<low % 256, low \div 256>> \o [i \in 1..d.more |-> 0]

(* What meters send for a point in time: types G, F and I (EN 13757-3).      *)
SentTime(t, form) ==
  LET day == t.day + 32 * (t.year % 8)  month == t.month + 16 * (t.year \div 8)
  IN  CASE form = "G" -> <<day, month>>
        [] form = "F" -> <<t.minute, t.hour, day, month>>
        [] form = "I" -> <<t.second, t.minute, t.hour, day, month, 0>>

(* Mutant of Elapsed: months of 32 days.                                   *)
ElapsedLongMonths(years, months, day, seconds) == <<365 * (100 + years) + 32 * months + day, seconds>>

(* Days and seconds: years of 365 days from 1970 on, though they are counted *)
(* from 1900, and months of 30.                                             *)
Elapsed(years, months, day, seconds) == <<365 * (100 + years) + 30 * months + day, seconds>>

(* The month is counted from 0, and 0 itself cannot be: a debug build panics. *)
Months(byte) == IF byte % 16 = 0 THEN {255, -1} ELSE {(byte % 16) - 1}

Reckoned(d, m, seconds) ==
  {IF months = -1 THEN "panic" ELSE Elapsed(d \div 32 + 8 * (m \div 16), months, d % 32, seconds) : months \in Months(m)}

(* decode_mbus_time, with the flags of an invalid time, and decode_time.     *)
DecodeMbusTime(b) ==
  CASE Len(b) = 2 -> Reckoned(b[1], b[2], 0)
    [] Len(b) = 4 -> IF b[1] >= 128 THEN {"invalid"}
                     ELSE Reckoned(b[3], b[4], 3600 * (b[2] % 32) + 60 * (b[1] % 64))
    [] Len(b) = 6 -> IF b[1] % 128 >= 64 THEN {"invalid"}
                     ELSE Reckoned(b[4], b[5], 3600 * (b[3] % 32) + 60 * (b[2] % 64) + (b[1] % 64))

(* A manufacturer's code is three characters, its id of 15 bits and one for  *)
(* a soft address.                                                         *)
IsLetter(c) == c \in 1..26
ManufacturerToId(code) ==
  IF \A i \in 1..3 : IsLetter(code[i]) THEN 1024 * code[1] + 32 * code[2] + code[3] ELSE 0

IdToManufacturer(id) ==
  LET code == <<(id % 32768) \div 1024, (id \div 32) % 32, id % 32>>
  IN  IF \A i \in 1..3 : IsLetter(code[i]) THEN code ELSE <<>>

(* mbus_data_manufacturer_encode, big endian, and mbus_decode_manufacturer,  *)
(* which asks no questions.                                                *)
ManufacturerEncode(code) ==
  LET id == ManufacturerToId(code) IN IF id = 0 THEN <<>> ELSE <<id \div 256, id % 256>>
DecodeManufacturer(b) == LET id == 256 * b[1] + b[2] IN <<id \div 1024, (id % 1024) \div 32, id % 32>>

(* encode_bcd: four bytes, big endian; decode_bcd.                          *)
EncodeBcd(n) == [i \in 1..4 |-> LET pair == (n \div 100^(4 - i)) % 100 IN 16 * (pair \div 10) + (pair % 10)]
DecodeBcd(b) ==
  IF \E i \in 1..4 : b[i] % 16 > 9 \/ b[i] \div 16 > 9 THEN -1
  ELSE FoldLeft(LAMBDA value, byte : 100 * value + 10 * (byte \div 16) + (byte % 16), 0, b)

(* A conversion uses the bound of the calls up: it has no part in them.      *)
Converts(kind, sent, results) ==
  /\ vdJob = NoJob /\ vdCalls = VdCalls /\ vdCalls' = 0
  /\ vdJob' = [kind |-> kind, mfr |-> QdsExactly, sent |-> sent]
  /\ \E result \in results : vdMade' = [result |-> result, failed |-> FALSE]
  /\ UNCHANGED <<vdRegistry, vdAccepted, vdHooks, vdHeld>>

ConvertDate == \E d \in VdDates : Converts("date", d, {QundisDate(SentDate(d))})
ConvertTimes ==
  \E pair \in VdTimes, form \in {"G", "F", "I"} :
    Converts("times", pair @@ [form |-> form],
             DecodeMbusTime(SentTime(pair.a, form)) \X DecodeMbusTime(SentTime(pair.b, form)))
ConvertCode ==
  \E code \in [1..3 -> VdLetters], soft \in {0, 32768} :
    Converts("code", code, {[back    |-> IdToManufacturer(ManufacturerToId(code) + soft),
                             encoded |-> ManufacturerEncode(code)]})
ConvertNumber == \E n \in VdNumbers : Converts("number", n, {DecodeBcd(EncodeBcd(n))})

VdNext ==
  \/ \E name \in Names : RegisterExtension(name) \/ UnregisterExtension(name)
  \/ ReadRecord \/ ReadFrame \/ ReadAddress \/ ReadBlocks \/ AskHook
  \/ ConvertDate \/ ConvertTimes \/ ConvertCode \/ ConvertNumber

-----------------------------------------------------------------------------
(* Of the registrations accepted for a manufacturer all but the one in force *)
(* have been taken back, whoever called when and however it was spelled.     *)
RegistryTrue ==
  \A c \in Codes : vdAccepted[c] = IF [code |-> c, upper |-> TRUE] \in DOMAIN vdRegistry THEN 1 ELSE 0

Done == vdJob # NoJob /\ vdHooks = <<>>

(* An extension that is there from beginning to end is heard: a date of      *)
(* QUNDIS is read as one or the record fails.  Without one, all is as the    *)
(* standard has it, and nothing an extension says makes a frame or a         *)
(* payload fail.                                                           *)
ExtensionsHeard ==
  /\ Done /\ vdJob.kind = "record" /\ vdJob.mfr.code = "QDS" /\ vdJob.vif = 4 /\ vdHeld.all /\ vdJob.mfr.upper =>
       vdMade.failed \/ (QundisDate(vdJob.data).ok /\ vdMade.value = QundisDate(vdJob.data).date)
  /\ Done /\ vdJob.kind = "address" /\ vdJob.mfr.code = "QDS" /\ vdHeld.all => vdMade.address = "same"
  /\ Done /\ vdHeld.some = {} =>
       /\ ~vdMade.failed
       /\ vdJob.kind = "record" => vdMade.value = "standard" /\ ~vdMade.flagged
       /\ vdJob.kind = "blocks" => vdMade.tolerated = 0
  /\ vdJob.kind \in {"frame", "blocks"} => ~vdMade.failed
  /\ vdJob.kind = "blocks" => /\ vdJob.encrypted => vdMade.tolerated = 0
                              /\ vdMade.tolerated <= Len(SelectSeq(vdJob.crcs, LAMBDA ok : ~ok))

(* A date is the one that was sent or refused; of two points in time the      *)
(* earlier is not read as of a later day, nor as the later of one day; a code *)
(* survives its id, with or without the soft bit, and its two bytes; a number *)
(* loses nothing but what is above its eight digits.                         *)
ConversionsHold ==
  /\ vdJob.kind = "date" =>
       IF vdJob.sent.year <= 99 /\ vdJob.sent.month \in 1..12
       THEN vdMade.result.ok /\ vdMade.result.date = <<2000 + vdJob.sent.year, vdJob.sent.month, 1, 0, 0>>
       ELSE ~vdMade.result.ok
  /\ vdJob.kind = "times" /\ vdJob.sent.a.month > 0 =>
       LET a == vdMade.result[1]  b == vdMade.result[2]
       IN  a[1] < b[1] \/ (a[1] = b[1] /\ (a[2] <= b[2] \/ vdJob.sent.a.day # vdJob.sent.b.day))
  /\ vdJob.kind = "code" /\ (\A i \in 1..3 : IsLetter(vdJob.sent[i])) =>
       vdMade.result.back = vdJob.sent /\ DecodeManufacturer(vdMade.result.encoded) = vdJob.sent
  /\ vdJob.kind = "number" => vdMade.result = vdJob.sent % 100000000

VendorFaithful == RegistryTrue /\ ExtensionsHeard /\ ConversionsHold
=============================================================================
