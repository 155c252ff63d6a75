--------------------------- MODULE Instrumentation ---------------------------
(***************************************************************************)
(* What is known of the devices of a network (src/instrumentation): a        *)
(* registry of statistics that any thread updates, with one lock for the    *)
(* registry and one for each device in it, the errors of a device counted   *)
(* in windows of time, the metrics of a LoRa link, and the reports of one   *)
(* frame, in which readings are told from what cannot be a reading.          *)
(***************************************************************************)
EXTENDS Integers, Sequences, SequencesExt, FiniteSets, FiniteSetsExt

CONSTANTS
  InThreads,            \* threads
  InDevices,            \* devices
  InWindow,             \* window_duration
  InMaxWindows,         \* max_windows
  InThreshold,          \* alert threshold, errors in one unit of time
  InCalls,              \* bound: calls in one behaviour
  InHorizon,            \* bound: time
  InSamples,            \* RSSI of the uplinks
  InRecords,            \* records: [name, value, known, as, alarm]
  InFrame               \* bound: records of a frame

NoThread == "no thread"

ASSUME InAssumption ==
  /\ InWindow \in Nat \ {0} /\ InMaxWindows \in Nat \ {0} /\ InThreshold \in Nat /\ InCalls \in Nat
  /\ InHorizon \in Nat /\ InSamples \subseteq -200..0 /\ InFrame \in Nat /\ NoThread \notin InThreads
  /\ InRecords \subseteq [name : STRING, value : Int, known : BOOLEAN, as : {"number", "digits", "text"}, alarm : BOOLEAN]

VARIABLES
  inWay,                \* what is looked at: "registry", "link" or "report"
  inRegistry,           \* device -> number of its statistics, 0 for none
  inStats,              \* the statistics there are or were: windows, frames and valid ones,
                        \* and when there were errors
  inRegistryLock,       \* the thread that holds the lock of the registry, or NoThread
  inThread,             \* thread -> its call and how far it is
  inLink,               \* LoRaMetricsTracker, and what it was given
  inReport,             \* records of a frame, and the report of them
  inNow,                \* time
  inLeft                \* calls left

inVars == <<inWay, inRegistry, inStats, inRegistryLock, inThread, inLink, inReport, inNow, inLeft>>

ThreadAtRest == [at |-> "rest", call |-> "none", device |-> "none", stats |-> 0, left |-> {}, alerts |-> {}]

(* DeviceStats::new, LoRaMetricsTracker::new.                               *)
NewStats  == [windows |-> <<>>, received |-> 0, valid |-> 0, errors |-> <<>>, holder |-> NoThread]
NewLink   == [n |-> 0, sum |-> 0, min |-> 0, max |-> -200, down |-> 0, given |-> <<>>]
NoReport  == [made |-> FALSE, lora |-> FALSE, records |-> <<>>, only |-> FALSE, readings |-> <<>>, bad |-> <<>>,
              quality |-> "Good", alarm |-> FALSE, metering |-> <<>>]

InInit ==
  /\ inWay \in {"registry", "link", "report"}
  /\ inRegistry = [d \in InDevices |-> 0] /\ inStats = <<>> /\ inRegistryLock = NoThread
  /\ inThread = [t \in InThreads |-> ThreadAtRest] /\ inLink = NewLink /\ inReport = NoReport
  /\ inNow = 0 /\ inLeft = InCalls

-----------------------------------------------------------------------------
(* The elements of a sequence at some positions, in their order.            *)
Chosen(s, at) ==
  LET upTo[n \in 0..Len(s)] ==
        IF n = 0 THEN <<>> ELSE IF n \in at THEN Append(upTo[n - 1], s[n]) ELSE upTo[n - 1]
  IN upTo[Len(s)]

(* WindowedCounter: a window is when it began and how much it counts.        *)

Total(windows) ==
  LET upTo[k \in 0..Len(windows)] == IF k = 0 THEN 0 ELSE upTo[k - 1] + windows[k].n IN upTo[Len(windows)]

(* cleanup_old_windows: by age, and then the last ones.                      *)
Kept(windows, now) ==
  LET young == Chosen(windows, {i \in DOMAIN windows : now - windows[i].at < InWindow * InMaxWindows})
      drop  == IF Len(young) > InMaxWindows THEN Len(young) - InMaxWindows ELSE 0
  IN SubSeq(young, drop + 1, Len(young))

(* Mutant of Incremented: a window that is over is counted in for ever.      *)
IncrementedLast(windows, now) ==
  LET kept == Kept(windows, now) IN
  IF kept # <<>> THEN [kept EXCEPT ![Len(kept)].n = @ + 1] ELSE <<[at |-> now, n |-> 1]>>

(* increment                                                               *)
Incremented(windows, now) ==
  LET kept == Kept(windows, now) IN
  IF kept # <<>> /\ now - Last(kept).at < InWindow
    THEN [kept EXCEPT ![Len(kept)].n = @ + 1]
    ELSE Append(kept, [at |-> now, n |-> 1])

(* get_rate above the threshold: the rate is the total by the time since the *)
(* first window began, and none at that moment.                            *)
Exceeds(windows, now) ==
  LET kept == Kept(windows, now) IN
  kept # <<>> /\ now > kept[1].at /\ Total(kept) > InThreshold * (now - kept[1].at)

-----------------------------------------------------------------------------
(* The calls.  update_device_error, update_device_success and               *)
(* export_device_stats_json look the device up, or enter it, under the lock  *)
(* of the registry, and take its own lock after they gave that one up.      *)
InCall(t, call, d) ==
  /\ inWay = "registry" /\ inThread[t] = ThreadAtRest /\ inLeft > 0 /\ inLeft' = inLeft - 1
  /\ inThread' = [inThread EXCEPT ![t] = [ThreadAtRest EXCEPT !.at = "registry", !.call = call, !.device = d]]
  /\ UNCHANGED <<inWay, inRegistry, inStats, inRegistryLock, inLink, inReport, inNow>>

StartsCall ==
  \E t \in InThreads :
    \/ \E call \in {"error", "success", "export", "clear"}, d \in InDevices : InCall(t, call, d)
    \/ \E call \in {"clear all", "alerts", "export all"} : InCall(t, call, "none")

TakesRegistry(t, call) ==
  inThread[t].at = "registry" /\ inThread[t].call \in call /\ inRegistryLock = NoThread

(* get_device_stats                                                         *)
LooksUp(t) ==
  LET d   == inThread[t].device
      new == inRegistry[d] = 0
      of  == IF new THEN Len(inStats) + 1 ELSE inRegistry[d]
  IN /\ TakesRegistry(t, {"error", "success", "export"})
     /\ inRegistry' = [inRegistry EXCEPT ![d] = of]
     /\ inStats' = IF new THEN Append(inStats, NewStats) ELSE inStats
     /\ inThread' = [inThread EXCEPT ![t].at = "stats", ![t].stats = of]
     /\ UNCHANGED <<inWay, inRegistryLock, inLink, inReport, inNow, inLeft>>

(* clear_device_stats, clear_all_stats: whoever looked a device up before     *)
(* goes on with what is not in the registry any more.                      *)
Clears(t) ==
  /\ TakesRegistry(t, {"clear", "clear all"})
  /\ inRegistry' = [d \in InDevices |-> IF inThread[t].call = "clear all" \/ d = inThread[t].device
                                         THEN 0 ELSE inRegistry[d]]
  /\ inThread' = [inThread EXCEPT ![t] = ThreadAtRest]
  /\ UNCHANGED <<inWay, inStats, inRegistryLock, inLink, inReport, inNow, inLeft>>

(* The lock of the device.                                                  *)
TakesStats(t) ==
  /\ inThread[t].at = "stats" /\ inStats[inThread[t].stats].holder = NoThread
  /\ inStats' = [inStats EXCEPT ![inThread[t].stats].holder = t]
  /\ inThread' = [inThread EXCEPT ![t].at = "inside"]
  /\ UNCHANGED <<inWay, inRegistry, inRegistryLock, inLink, inReport, inNow, inLeft>>

(* increment_error, increment_success, export; the total of an export is of   *)
(* the windows as they were left.                                          *)
After(s, call) ==
  CASE call = "error"   -> [s EXCEPT !.windows = Incremented(@, inNow), !.errors = Append(@, inNow)]
    [] call = "success" -> [s EXCEPT !.received = @ + 1, !.valid = @ + 1]
    [] OTHER            -> s

Updates(t) ==
  /\ inThread[t].at = "inside"
  /\ inStats' = [inStats EXCEPT ![inThread[t].stats] = [After(@, inThread[t].call) EXCEPT !.holder = NoThread]]
  /\ inThread' = [inThread EXCEPT ![t] = ThreadAtRest]
  /\ UNCHANGED <<inWay, inRegistry, inRegistryLock, inLink, inReport, inNow, inLeft>>

(* get_devices_with_alerts, and get_all_device_stats and export_all_stats:    *)
(* the registry is held while the devices are asked, one after the other.   *)
AlertsBegin(t) ==
  /\ TakesRegistry(t, {"alerts", "export all"}) /\ inRegistryLock' = t
  /\ inThread' = [inThread EXCEPT ![t].at = "devices", ![t].left = {d \in InDevices : inRegistry[d] # 0}]
  /\ UNCHANGED <<inWay, inRegistry, inStats, inLink, inReport, inNow, inLeft>>

(* has_alerts                                                              *)
AlertsAsk(t) ==
  \E d \in inThread[t].left :
    LET of   == inRegistry[d]
        asks == inThread[t].call = "alerts"
    IN
    /\ inThread[t].at = "devices" /\ inStats[of].holder = NoThread
    /\ inStats' = [inStats EXCEPT ![of].windows = IF asks THEN Kept(@, inNow) ELSE @]
    /\ inThread' = [inThread EXCEPT ![t].left = @ \ {d},
                                    ![t].alerts = IF asks /\ Exceeds(inStats[of].windows, inNow) THEN @ \cup {d} ELSE @]
    /\ UNCHANGED <<inWay, inRegistry, inRegistryLock, inLink, inReport, inNow, inLeft>>

AlertsEnd(t) ==
  /\ inThread[t].at = "devices" /\ inThread[t].left = {} /\ inRegistryLock' = NoThread
  /\ inThread' = [inThread EXCEPT ![t] = ThreadAtRest]
  /\ UNCHANGED <<inWay, inRegistry, inStats, inLink, inReport, inNow, inLeft>>

InTick ==
  /\ inWay = "registry" /\ inNow < InHorizon /\ inNow' = inNow + 1
  /\ UNCHANGED <<inWay, inRegistry, inStats, inRegistryLock, inThread, inLink, inReport, inLeft>>

-----------------------------------------------------------------------------
(* record_uplink, of the RSSI (the SNR and the time on air go the same way),  *)
(* and record_downlink.                                                    *)
RecordUplink ==
  /\ inWay = "link" /\ inLeft > 0 /\ inLeft' = inLeft - 1
  /\ \E rssi \in InSamples :
       inLink' = [inLink EXCEPT !.n = @ + 1, !.sum = @ + rssi, !.min = IF rssi < @ THEN rssi ELSE @,
                                !.max = IF rssi > @ THEN rssi ELSE @, !.given = Append(@, rssi)]
  /\ UNCHANGED <<inWay, inRegistry, inStats, inRegistryLock, inThread, inReport, inNow>>

RecordDownlink ==
  /\ inWay = "link" /\ inLeft > 0 /\ inLeft' = inLeft - 1
  /\ inLink' = [inLink EXCEPT !.down = @ + 1]
  /\ UNCHANGED <<inWay, inRegistry, inStats, inRegistryLock, inThread, inReport, inNow>>

-----------------------------------------------------------------------------
(* Reports.  A record has the name of its quantity, a value, and is one of    *)
(* number, text that reads as a number, and other text; `alarm`: its name    *)
(* says ERROR or ALARM.  A value "nan" is none.                             *)

(* Mutant of ValidReading: the bounds of a temperature are those of a share. *)
ValidReadingNarrow(r) ==
  /\ r.known /\ r.quality = "Good"
  /\ (r.name \in {"volume", "power"} => r.value >= 0)
  /\ (r.name \in {"temperature", "percentage"} => r.value \in 0..100)
  /\ (r.name = "pressure" => r.value \in 0..2000)

(* validate_reading                                                        *)
ValidReading(r) ==
  /\ r.known /\ r.quality = "Good"
  /\ (r.name \in {"volume", "power"} => r.value >= 0)
  /\ (r.name = "temperature" => r.value \in -50..100)
  /\ (r.name = "percentage" => r.value \in 0..100)
  /\ (r.name = "pressure" => r.value \in 0..2000)

(* is_valid_metering_value knows fewer names.                               *)
QuicklyValid(r) ==
  /\ r.known
  /\ (r.name = "volume" => r.value >= 0) /\ (r.name = "temperature" => r.value \in -50..100)

(* The loop of from_mbus_frame_with_split passes text over that is no        *)
(* number; that of from_lora_metering_data_with_split reads text as zero,    *)
(* and looks for no alarm in a name.                                       *)
ReadingsOf(records, lora) ==
  LET read == Chosen(records, {i \in DOMAIN records : lora \/ records[i].as # "text"})
      Reading(r) == [name |-> r.name, known |-> r.known \/ (lora /\ r.as # "number"),
                     value |-> IF lora /\ r.as # "number" THEN 0 ELSE r.value,
                     quality |-> IF r.alarm /\ ~lora THEN "Invalid" ELSE "Good", of |-> r]
  IN [i \in DOMAIN read |-> Reading(read[i])]

(* Mutant of Overall: one bad reading makes the report invalid.              *)
OverallStrict(good, bad) == IF bad = <<>> THEN "Good" ELSE "Invalid"
Overall(good, bad) == IF bad = <<>> THEN "Good" ELSE IF good = <<>> THEN "Invalid" ELSE "Substitute"

(* MeteringReport::from_unified                                             *)
ValidOnes(readings) == {i \in DOMAIN readings : ValidReading(readings[i])}
Metering(readings)  == Chosen(readings, ValidOnes(readings))

(* The reports of a frame: all readings in the legacy one, otherwise good    *)
(* and bad ones apart, the good ones left out of one on the instruments      *)
(* only.                                                                   *)
MakeReport ==
  /\ inWay = "report" /\ ~inReport.made
  /\ \E n \in 0..InFrame, lora, split, only \in BOOLEAN : \E records \in [1..n -> InRecords] :
       LET all  == ReadingsOf(records, lora)
           good == Chosen(all, ValidOnes(all))
           bad  == Chosen(all, DOMAIN all \ ValidOnes(all))
           kept == IF ~split THEN all ELSE IF only THEN <<>> ELSE good
       IN /\ (only => split)
          /\ inReport' = [made |-> TRUE, lora |-> lora, records |-> records, only |-> only, readings |-> kept,
                          bad |-> IF split THEN bad ELSE <<>>,
                          quality |-> IF split THEN Overall(good, bad) ELSE "Good",
                          alarm |-> ~lora /\ \E i \in 1..n : records[i].alarm /\ records[i].as # "text",
                          metering |-> Metering(kept)]
  /\ UNCHANGED <<inWay, inRegistry, inStats, inRegistryLock, inThread, inLink, inNow, inLeft>>

InNext ==
  \/ StartsCall \/ InTick \/ RecordUplink \/ RecordDownlink \/ MakeReport
  \/ \E t \in InThreads : \/ LooksUp(t) \/ Clears(t) \/ TakesStats(t) \/ Updates(t)
                          \/ AlertsBegin(t) \/ AlertsAsk(t) \/ AlertsEnd(t)

-----------------------------------------------------------------------------
(* The windows of a device begin at least a window apart, there are at most   *)
(* as many as the limit (so that none is given up before its age is), and    *)
(* their total counts every error of the last windows but the first, and     *)
(* none twice.                                                             *)
ErrorsCounted ==
  \A k \in DOMAIN inStats :
    LET w == inStats[k].windows
        recent == {i \in DOMAIN inStats[k].errors : inNow - inStats[k].errors[i] < InWindow * (InMaxWindows - 1)}
    IN /\ Len(w) <= InMaxWindows /\ \A i \in 1..Len(w) - 1 : w[i + 1].at - w[i].at >= InWindow
       /\ Total(w) <= Len(inStats[k].errors) /\ Total(w) >= Cardinality(recent)

(* No two threads wait for each other: whatever they hold, one of them goes   *)
(* on; and a device has one entry, which is not that of another.            *)
RegistryMoves ==
  /\ \A t \in InThreads : inThread[t] # ThreadAtRest => \E u \in InThreads :
       \/ inThread[u].at = "inside"
       \/ /\ inThread[u].at = "devices"
          /\ inThread[u].left = {} \/ \E d \in inThread[u].left : inStats[inRegistry[d]].holder = NoThread
       \/ inThread[u].at = "stats" /\ inStats[inThread[u].stats].holder = NoThread
       \/ inThread[u].at = "registry" /\ inRegistryLock = NoThread
  /\ \A d, e \in InDevices : inRegistry[d] = inRegistry[e] /\ inRegistry[d] # 0 => d = e

LinkMeasured ==
  inLink.given # <<>> =>
    /\ inLink.min = Min(ToSet(inLink.given)) /\ inLink.max = Max(ToSet(inLink.given))
    /\ inLink.min * inLink.n <= inLink.sum /\ inLink.sum <= inLink.max * inLink.n

(* A report has every number of its frame once, as a reading or as a bad one, *)
(* and says how many of them are bad; what is metered is in bounds and was   *)
(* read as it was sent, but for texts in LoRa payloads.                     *)
ReportsWhole ==
  inReport.made =>
    LET n == Len(inReport.readings) + Len(inReport.bad) IN
    /\ ~inReport.only => n >= Cardinality({i \in DOMAIN inReport.records : inReport.records[i].as # "text"}) /\ n <= Len(inReport.records)
    /\ inReport.quality = "Substitute" => inReport.bad # <<>> /\ (inReport.readings # <<>> \/ inReport.only)
    /\ inReport.quality = "Invalid" => inReport.readings = <<>> /\ inReport.bad # <<>>
    /\ \A i \in DOMAIN inReport.metering :
         LET r == inReport.metering[i] IN
         /\ QuicklyValid(r) /\ (r.value = r.of.value \/ (inReport.lora /\ r.of.as # "number"))
         /\ ~inReport.lora => ~r.of.alarm
    /\ \A i \in DOMAIN inReport.bad :
         LET r == inReport.bad[i].of IN
         r.alarm \/ ~r.known \/ r.value \notin (IF r.name = "temperature" THEN -50..100 ELSE 0..100)

DevicesKnown == ErrorsCounted /\ RegistryMoves /\ LinkMeasured /\ ReportsWhole
=============================================================================
