------------------------------ MODULE RecordWalk -----------------------------
(***************************************************************************)
(* Walking the data records of a telegram, whose lengths only their own     *)
(* headers tell: process_data (mbus/mbus_protocol.rs) over the parser of    *)
(* payload/record.rs, and parse_oms_data_records (radio/lora/decoders/nom/  *)
(* oms.rs) over the one of payload/data.rs.  A telegram may be cut short.   *)
(*                                                                         *)
(* A telegram is its bytes.  Units, scaling and values are left out: what   *)
(* is kept of a record is its headers and which bytes are its data.        *)
(***************************************************************************)
EXTENDS Integers, Sequences, FiniteSets, FiniteSetsExt

CONSTANTS
  RwRecords,    \* records meters send: [function, coding, difes, vif, vifes, size]
  RwCount,      \* number of records of a telegram
  RwFillers,    \* numbers of idle fillers in front of a record
  RwCuts        \* numbers of bytes a telegram may be cut short by

ASSUME RwAssumption ==
  /\ RwCount \in Nat /\ RwFillers \subseteq Nat /\ RwCuts \subseteq Nat
  /\ \A r \in RwRecords :
       /\ r.function \in 0..3 /\ r.coding \in 0..14 /\ r.difes \in 0..10 /\ r.vifes \in 0..10
       /\ r.vif \in {"known", "text", "any", "maker"} /\ r.size \in 0..191

VARIABLES
  rwWalker,     \* "record" or "oms"
  rwSent,       \* the meter's records
  rwFill,       \* fillers in front of each
  rwCut,        \* bytes the telegram was cut short by
  rwLeft,       \* remaining_data
  rwGot,        \* records parsed
  rwAt          \* "walking", "done", "refused" or "panicked"

rwVars == <<rwWalker, rwSent, rwFill, rwCut, rwLeft, rwGot, rwAt>>

Filler == 47      \* 0x2F
Extended(byte) == byte >= 128
Zeros(n, byte) == [i \in 1..n |-> byte]

-----------------------------------------------------------------------------
(* The meter (EN 13757-3).                                                 *)

SentLengths == <<1, 2, 3, 4, 4, 6, 8, 0, 1, 2, 3, 4, 0, 6>>
SentDataLength(r) == IF r.coding = 0 THEN 0 ELSE IF r.coding = 13 THEN r.size ELSE SentLengths[r.coding]

Chain(n) == [i \in 1..n |-> IF i < n THEN 129 ELSE 1]
VifByte(r) == CASE r.vif = "known" -> 19 [] r.vif = "text" -> 124 [] r.vif = "any" -> 126 [] r.vif = "maker" -> 127

SentRecord(r) ==
  [dif  |-> r.coding + 16 * r.function + (IF r.difes > 0 THEN 128 ELSE 0), difes |-> Chain(r.difes),
   vif  |-> VifByte(r) + (IF r.vifes > 0 THEN 128 ELSE 0), vifes |-> Chain(r.vifes),
   text |-> IF r.vif = "text" THEN <<75, 66>> ELSE <<>>,
   data |-> [i \in 1..SentDataLength(r) |-> 64 + i]]

RecordBytes(s) ==
  <<s.dif>> \o s.difes \o <<s.vif>> \o (IF s.text # <<>> THEN <<Len(s.text)>> \o s.text ELSE <<>>) \o s.vifes
    \o (IF s.dif % 16 = 13 THEN <<Len(s.data)>> ELSE <<>>) \o s.data

Telegram[n \in Nat] ==
  IF n = 0 THEN <<>> ELSE Telegram[n - 1] \o Zeros(rwFill[n], Filler) \o RecordBytes(SentRecord(rwSent[n]))

-----------------------------------------------------------------------------
(* Both parsers.                                                           *)

From(b, i) == SubSeq(b, i, Len(b))
Failure == [ok |-> FALSE, panic |-> FALSE]
Panicked == [ok |-> FALSE, panic |-> TRUE]

(* Extension bytes behind byte i: as long as the byte before has bit 7, up  *)
(* to ten.                                                                 *)
Extensions(b, i, extended) ==
  IF ~extended THEN 0
  ELSE LET last == {n \in 1..10 : i + n <= Len(b) /\ ~Extended(b[i + n])}
       IN  IF last # {} THEN Min(last) ELSE Min({10, Len(b) - i})

(* Where the extensions stop for want of bytes, or of room.                *)
Unfinished(b, i, n, extended) == extended /\ (n = 0 \/ Extended(b[i + n]))

-----------------------------------------------------------------------------
(* payload/record.rs                                                       *)

(* mbus_dif_datalength_lookup                                              *)
RecordLengths == <<1, 2, 3, 4, 6, 8, 0, 0, 1, 2, 3, 4, 0, 6, 8>>
RecordDataLength(dif) == IF dif % 16 = 0 THEN 0 ELSE RecordLengths[dif % 16]

(* parse_variable_data_length, -1 for an error.                            *)
VariableLength(n) ==
  CASE n <= 191 -> n          [] n \in 192..207 -> 2 * (n - 192) [] n \in 208..223 -> 2 * (n - 208) + 1
    [] n \in 224..239 -> n - 224 + 64 [] n \in 240..250 -> n - 240 + 1120 [] OTHER -> -1

(* Mutant of Consumed: the old estimate from DIF and VIF alone.            *)
ConsumedEstimate(header, variable, data, dif, vif) ==
  Max({2 + RecordDataLength(dif) + (IF vif > 127 THEN 1 ELSE 0), 3})

(* parse_variable_record_consumed: header, length byte and data.           *)
Consumed(header, variable, data, dif, vif) == header + (IF variable THEN 1 ELSE 0) + data

CustomVifSize == 16
DataCapacity  == 256

(* The data behind a header of h bytes.                                    *)
WithData(b, h, record) ==
  LET variable == record.dif % 16 = 13
      length   == IF variable THEN (IF h < Len(b) THEN VariableLength(b[h + 1]) ELSE 0)
                  ELSE RecordDataLength(record.dif)
      at       == h + (IF variable THEN 1 ELSE 0)
  IN  IF length < 0 THEN Failure
      ELSE IF variable /\ h = Len(b) THEN Panicked
      ELSE IF at + length > Len(b) THEN Failure
      ELSE IF length > DataCapacity THEN Panicked
      ELSE [ok |-> TRUE, record |-> [record EXCEPT !.data = SubSeq(b, at + 1, at + length)],
            used |-> Consumed(h, variable, length, record.dif, record.vif)]

(* parse_variable_record_inner.  Fillers come first; records 0x0F and 0x1F  *)
(* take all that is left; a text VIF has its text before its VIFEs.        *)
ParseVariableRecord(b) ==
  LET starts == {i \in DOMAIN b : b[i] # Filler}
      i  == Min(starts)
      v  == i + 1 + Extensions(b, i, Extended(b[i]))
      isText == b[v] % 128 = 124
      t  == IF isText THEN 1 + b[v + 1] ELSE 0
      x  == Extensions(b, v + t, Extended(b[v]))
  IN  IF starts = {} THEN Failure
      ELSE IF b[i] \in {15, 31} THEN
        IF Len(b) - i > DataCapacity THEN Panicked
        ELSE [ok |-> TRUE, used |-> Len(b),
              record |-> [dif |-> b[i], difes |-> <<>>, vif |-> 0, vifes |-> <<>>, text |-> <<>>, data |-> From(b, i + 1)]]
      ELSE IF v > Len(b) THEN Failure
      ELSE IF isText /\ (v = Len(b) \/ b[v + 1] > CustomVifSize \/ v + t > Len(b)) THEN Failure
      ELSE WithData(b, v + t + x,
                    [dif |-> b[i], difes |-> SubSeq(b, i + 1, v - 1), vif |-> b[v],
                     vifes |-> SubSeq(b, v + t + 1, v + t + x), text |-> SubSeq(b, v + 2, v + t), data |-> <<>>])

(* parse_fixed_record: 16 bytes that begin with BCD digits and a             *)
(* manufacturer, with BCD counters if the status says so; the walk then     *)
(* moves on by calculate_record_size, which is 3.                          *)
Bcd(byte) == byte % 16 <= 9 /\ byte \div 16 <= 9
ParseFixedRecord(b) ==
  IF /\ Len(b) >= 16 /\ \A i \in 1..4 : Bcd(b[i])
     /\ 256 * b[5] + b[6] \in 1057..27482 /\ b[8] <= 127
     /\ b[10] < 128 => \A i \in 13..16 : Bcd(b[i])
  THEN [ok |-> TRUE, used |-> 3,
        record |-> [dif |-> 0, difes |-> <<>>, vif |-> b[8], vifes |-> <<>>, text |-> <<>>, data |-> b]]
  ELSE Failure

-----------------------------------------------------------------------------
(* payload/data.rs                                                         *)

DataLengths == <<1, 2, 3, 4, 4, 6, 8>>
EnhancedDataLength(dif) == IF dif % 16 \in 1..7 THEN DataLengths[dif % 16] ELSE 0

(* parse_vif_chain: bytes behind the VIF, -1 for an error.  The codes 0x7F    *)
(* and 0xFF always have manufacturer bytes behind them, 0x7E and 0xFE never *)
(* anything; 0xFD and 0xFB have the real code.                             *)
VifChain(b, v) ==
  LET special == b[v] % 128 \in {124, 126, 127}
      first   == IF b[v] \in {251, 253} THEN 1 ELSE 0
      n       == Extensions(b, v + first, Extended(b[v + first]))
      room    == Min({n, 10 - first})
  IN  CASE b[v] % 128 = 124 -> IF v = Len(b) \/ v + 1 + b[v + 1] > Len(b) THEN -1 ELSE 1 + b[v + 1]
        [] b[v] % 128 = 126 -> 0
        [] b[v] % 128 = 127 -> Extensions(b, v, TRUE)
        [] OTHER -> IF v + first > Len(b) THEN -1
                    ELSE IF Unfinished(b, v + first, n, Extended(b[v + first])) /\ n < 10 - first THEN -1
                    ELSE first + room

(* parse_special_vif_chain knows no VIF with its extension bit set, and no    *)
(* code above 0x7F but 0xFE and 0xFF.                                      *)
VifKnown(vif) == vif <= 127 \/ vif % 128 \in {124, 126, 127}

(* parse_enhanced_variable_data_record                                     *)
ParseEnhancedRecord(b) ==
  LET d  == Extensions(b, 1, Extended(b[1]))
      v  == 2 + d
      x  == VifChain(b, v)
      h  == v + x
      variable == b[1] % 16 = 13
      length == IF variable THEN b[h + 1] ELSE EnhancedDataLength(b[1])
      at == h + (IF variable THEN 1 ELSE 0)
      isText == b[v] % 128 = 124
  IN  IF Unfinished(b, 1, d, Extended(b[1])) \/ v > Len(b) THEN Failure
      ELSE IF x < 0 \/ (variable /\ h = Len(b)) THEN Failure
      ELSE IF at + length > Len(b) \/ ~VifKnown(b[v]) THEN Failure
      ELSE [ok |-> TRUE, used |-> at + length,
            record |-> [dif |-> b[1], difes |-> SubSeq(b, 2, v - 1), vif |-> b[v],
                        vifes |-> IF isText THEN <<>> ELSE SubSeq(b, v + 1, h),
                        text |-> IF isText THEN SubSeq(b, v + 2, h) ELSE <<>>,
                        data |-> SubSeq(b, at + 1, at + length)]]

-----------------------------------------------------------------------------
RwInit ==
  /\ rwWalker \in {"record", "oms"}
  /\ rwSent \in [1..RwCount -> RwRecords]
  /\ rwFill \in [1..RwCount -> RwFillers]
  /\ rwCut \in RwCuts /\ rwCut < Len(Telegram[RwCount])
  /\ rwLeft = SubSeq(Telegram[RwCount], 1, Len(Telegram[RwCount]) - rwCut)
  /\ rwGot = <<>> /\ rwAt = "walking"

Parsed(result) ==
  /\ rwGot' = Append(rwGot, result.record)
  /\ rwLeft' = From(rwLeft, result.used + 1)
  /\ UNCHANGED <<rwWalker, rwSent, rwFill, rwCut, rwAt>>

Skipped ==
  /\ rwLeft' = Tail(rwLeft)
  /\ UNCHANGED <<rwWalker, rwSent, rwFill, rwCut, rwGot, rwAt>>

Ends(how) ==
  /\ rwAt' = how
  /\ UNCHANGED <<rwWalker, rwSent, rwFill, rwCut, rwLeft, rwGot>>

Walking(walker) == rwWalker = walker /\ rwAt = "walking"

(* An iteration of process_data: a variable record, else a fixed one, else   *)
(* the next byte.  A panic takes every record with it, as does a record     *)
(* whose VIF is 0xFF once all are parsed.                                  *)
ProcessData ==
  /\ Walking("record")
  /\ \/ rwLeft = <<>> /\ Ends(IF \E i \in DOMAIN rwGot : rwGot[i].vif = 255 THEN "refused" ELSE "done")
     \/ /\ rwLeft # <<>>
        /\ LET r == ParseVariableRecord(rwLeft)
               f == ParseFixedRecord(rwLeft)
           IN  \/ r.ok /\ Parsed(r)
               \/ ~r.ok /\ r.panic /\ Ends("panicked")
               \/ ~r.ok /\ ~r.panic /\ f.ok /\ Parsed(f)
               \/ ~r.ok /\ ~r.panic /\ ~f.ok /\ Skipped

(* An iteration of parse_oms_data_records: a filler, and 0x16, end the walk. *)
ParseOmsRecords ==
  /\ Walking("oms")
  /\ IF rwLeft = <<>> THEN Ends("done")
     ELSE IF Head(rwLeft) \in {Filler, 22} THEN Ends("done")
     ELSE LET r == ParseEnhancedRecord(rwLeft) IN IF r.ok THEN Parsed(r) ELSE Skipped

RwNext == ProcessData \/ ParseOmsRecords

-----------------------------------------------------------------------------
(* Records a walker is made for.  record.rs has its own lengths for the       *)
(* codings 5, 6 and 7, and a record whose DIF is 0x2F less its extension is *)
(* no record; data.rs has none for BCD, knows neither VIFEs nor a maker's   *)
(* VIF without bytes of the maker, and ends at DIF 0x16.                   *)
Handled(walker, r) ==
  IF walker = "record" THEN r.coding \notin {5, 6, 7}
  ELSE r.coding \in 0..7 \cup {8, 13} /\ r.vif # "maker" /\ r.vifes = 0
         /\ ~(r.coding = 6 /\ r.function = 1 /\ r.difes = 0)

RwMin(a, b) == IF a < b THEN a ELSE b

(* Records that a cut leaves whole.                                        *)
Whole == {n \in 0..RwCount : Len(Telegram[n]) <= Len(Telegram[RwCount]) - rwCut}

(* The walk stays aligned: of a telegram of records the parser has lengths    *)
(* for, however it was cut short, every record that is whole is parsed with *)
(* its own headers and its own data, DIFE and VIFE chains, texts, fillers    *)
(* and variable lengths included, before anything else is; and of one that   *)
(* was not cut, nothing else is (parse_variable_record_consumed,            *)
(* parse_enhanced_variable_data_record).                                   *)
RecordsAligned ==
  (\A n \in 1..RwCount : Handled(rwWalker, rwSent[n]) /\ (rwWalker = "oms" => rwFill[n] = 0)) =>
    /\ \A n \in DOMAIN rwGot : n \in Whole => rwGot[n] = SentRecord(rwSent[n])
    /\ rwAt = "done" => Len(rwGot) >= Max(Whole)
    /\ rwCut = 0 => Len(rwGot) <= RwCount /\ rwAt # "panicked"
    /\ rwAt = "refused" => \E n \in DOMAIN rwGot : rwGot[n].vif = 255
=============================================================================
