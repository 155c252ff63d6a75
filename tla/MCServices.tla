----------------------------- MODULE MCServices -----------------------------
(* Small instances of the components of Services.                         *)
EXTENDS Services

CONSTANTS n1, n2, m1, m2, s1, s2, s3, g1, g2, k1, k2, b1, b2, c1, c2, h1, h2, p1, p2, r1, t1, t2

MCAdrSamples == {[rssi |-> -70, snr |-> 4], [rssi |-> -125, snr |-> -3]}
MCSeed       == [m \in {g1, g2} |-> IF m = g1 THEN k1 ELSE NoKey]

MCFsFrames == {[type |-> "A", l |-> 9], [type |-> "A", l |-> 26], [type |-> "A", l |-> 27],
               [type |-> "B", l |-> 12]}

MCModes     == <<"T1", "T2", "S1", "S2", "C1", "C2">>
MCSequences == {<<"T1", "S1", "C1">>, <<"T1", "S2", "T1">>, <<"C2">>}

Alternating(n) == [i \in 1..n |-> IF i % 2 = 1 THEN 104 ELSE 22]
Wired(type, control, address, ci, data) ==
  [type |-> type, control |-> control, address |-> address, ci |-> ci, data |-> data]
MCWiredFrames ==
  {Wired("Long", 83, 5, 114, Alternating(n)) : n \in {1, 6, 12, 13}}
  \cup {Wired("Ack", 0, 0, 0, <<>>), Wired("Short", 64, 254, 0, <<>>), Wired("Control", 83, 254, 80, <<>>)}
MCAddresses == {<<1, 2, 3, 4, 5, 6, 7, 8>>, <<1, 2, 3, 15, 5, 6, 7, 8>>}

MCBmAddresses == {<<0, 0, 0>>, <<0, 0, 1>>, <<0, 16, 1>>, <<0, 16, 0>>, <<1, 0, 15>>}

MCFcDevices == {[id |-> 1, version |-> 1, access |-> 7], [id |-> 1, version |-> 2, access |-> 7],
                [id |-> 2, version |-> 1, access |-> 0], [id |-> 2, version |-> 1, access |-> 256]}

Rec(f, c, d, v, x, n) == [function |-> f, coding |-> c, difes |-> d, vif |-> v, vifes |-> x, size |-> n]
MCRecords ==
  {Rec(0, c, 0, "known", 0, 3) : c \in {0, 4, 14}}
  \cup {Rec(0, 4, d, "known", x, 0) : d \in {1, 10}, x \in {0, 2}}
  \cup {Rec(0, 2, 0, "maker", x, 0) : x \in {0, 2}}
  \cup {Rec(1, 13, 0, v, 0, 2) : v \in {"known", "text"}}
  \cup {Rec(1, 6, 0, "known", 0, 0), Rec(0, 6, 0, "any", 0, 0), Rec(0, 5, 0, "known", 0, 0),
        Rec(1, 13, 1, "text", 0, 0)}

MCWirings == {<<25, 24>>}
MCSetups  == {<<[pin |-> 24, debounce |-> 2], [pin |-> 25, debounce |-> 0]>>, <<[pin |-> 24, debounce |-> 2]>>}

(* Two of several formats, one of them tied with others; one certain; none. *)
MCPayloads == {<<2, 103, 0, 200, 5, 104, 50>>, <<3, 0, 1, 9, 9, 9, 9, 9>>, <<1, 103, 0, 200>>, <<255>>}

Conf(control, keys) == [control |-> control, keys |-> keys]
MCGmConfigs == {Conf(TRUE, TRUE), Conf(TRUE, FALSE), Conf(FALSE, FALSE)}

MCInSamples == {-120, -40}
RecordOf(name, value, as, alarm) == [name |-> name, value |-> value, known |-> TRUE, as |-> as, alarm |-> alarm]
MCInRecords ==
  {RecordOf("volume", -1, "number", FALSE), RecordOf("power", 5, "number", TRUE), RecordOf("percentage", 101, "digits", FALSE),
   RecordOf("pressure", 1000, "number", FALSE), RecordOf("other", 7, "text", FALSE),
   [RecordOf("other", 0, "number", FALSE) EXCEPT !.known = FALSE]}
  \cup {RecordOf("temperature", degrees, "number", FALSE) : degrees \in {-5, 150}}

Full(c, lo, ci, n) ==
  [kind |-> "full", control |-> c, m |-> <<lo, 7>>, ci |-> ci, first |-> 0, payload |-> n]
Compact(n, first) ==
  [kind |-> "compact", control |-> 68, m |-> <<9, 8>>, ci |-> 121, first |-> first, payload |-> n]
MCLinkFrames ==
  {Full(68, 147, 142, 2), Full(68, 121, 114, 0), Full(196, 121, 114, 1), Full(68, 121, 1, 2),
   Full(68, 147, 122, 245), Full(68, 147, 114, 246),
   Compact(0, 0), Compact(4, 100), Compact(6, 0), Compact(20, 100)}
MCVdRecords ==
  [mfr : Names, dif : {2}, vif : {4},
   data : {<<248, 16>>, <<4>>, <<248, 16, 0, 0>>, <<248, 16, 62, 0>>, <<251, 16, 130>>, <<230, 250>>}]
  \cup [mfr : Names, dif : {2, 15}, vif : {127}, data : {<<64>>}]
MCVdBlocks == {<<>>, <<TRUE, FALSE>>, <<FALSE, FALSE, FALSE>>}
MCVdDates  == [year : {0, 7, 8, 15, 99, 100, 127}, month : {0, 1, 6, 12, 13}, more : 0..2]
Moment(y, m, d, h, min, s) == [year |-> y, month |-> m, day |-> d, hour |-> h, minute |-> min, second |-> s]
MCMoments ==      \* in their order
  <<Moment(99, 12, 30, 12, 0, 0), Moment(99, 12, 31, 0, 0, 0), Moment(100, 1, 31, 23, 59, 58), Moment(100, 1, 31, 23, 59, 59),
    Moment(100, 2, 1, 0, 0, 0), Moment(100, 2, 28, 8, 30, 0), Moment(100, 3, 1, 0, 0, 1), Moment(100, 3, 1, 0, 1, 0),
    Moment(100, 12, 31, 23, 59, 59), Moment(101, 1, 1, 0, 0, 0)>>
MCVdTimes ==
  {[a |-> MCMoments[p[1]], b |-> MCMoments[p[2]]] : p \in {q \in (1..10) \X (1..10) : q[1] < q[2]}}
  \cup {[a |-> Moment(0, 0, 0, 0, 0, 0), b |-> Moment(24, 6, 1, 12, 0, 0)]}

=============================================================================
