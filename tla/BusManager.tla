----------------------------- MODULE BusManager -----------------------------
(***************************************************************************)
(* What stands on top of the handles: the device manager, which asks every *)
(* bus in turn (src/mbus_device_manager.rs), with its search by secondary  *)
(* address (src/mbus/secondary_addressing.rs), and the network, which      *)
(* scans once per frequency (src/wmbus/network.rs).  A call to a handle is *)
(* one step, which answers or fails.  And the baud rate of a wired handle  *)
(* (src/mbus/serial.rs), which the handle finds and changes by itself; the *)
(* exchange at one rate is WiredSession.                                   *)
(***************************************************************************)
EXTENDS Naturals, FiniteSets, Functions

CONSTANTS
  BmPorts, BmRadios,    \* names of wired and of wireless handles
  BmCalls,              \* bound: calls of the manager or the network
  BmAddresses,          \* secondary addresses, as tuples of BmDigits bytes
  BmDigits,             \* bytes in an address
  BmRates,              \* baud rates in ALL_RATES, numbered in its order
  BmReceptions,         \* bound: receptions counted at one rate
  NwDevices,            \* wireless devices in the area
  NwFrequencies,        \* frequencies configured
  NwMaxDevices          \* max_devices, 0 for no limit

ASSUME BmAssumption ==
  /\ BmPorts \cap BmRadios = {}
  /\ BmCalls \in Nat /\ BmRates \in Nat \ {0} /\ BmReceptions \in Nat
  /\ BmDigits \in Nat \ {0, 1} /\ BmAddresses \subseteq [1..BmDigits -> 0..255] /\ IsFiniteSet(BmAddresses)
  /\ NwFrequencies \in Nat \ {0} /\ NwMaxDevices \in Nat

VARIABLES
  bmHandles,            \* names in mbus_handles and wmbus_handles
  bmCall,               \* the call: handles to ask, to ask still, that answered
  bmPresent,            \* meters on the port of the last search
  nwFound,              \* discovered_devices
  nwCall,               \* discover_topology: frequencies scanned, what it told
  nwStrong,             \* history: devices it heard above the threshold
  bmLine,               \* a wired handle: its configuration, the rate on record and the port's,
                        \* its collision statistics, what it is doing
  bmSeen,               \* history: collisions counted since the rate was set, and whether the
                        \* statistics began with it
  bmJudged,             \* history: bmSeen of the rate last left for its collisions
  bmLeft                \* calls left

bmVars == <<bmHandles, bmCall, bmPresent, bmLine, bmSeen, bmJudged, nwFound, nwCall, nwStrong, bmLeft>>

(* CollisionStatistics::default: what the rate is made from.               *)
NoCollisions == [coll |-> 0, good |-> 0]

(* SerialConfig: auto_baud_detection and max_collision_retries; the handle    *)
(* is not open yet.                                                        *)
NewLine(auto, retries) ==
  [auto |-> auto, retries |-> retries, open |-> FALSE, rate |-> 1, port |-> 1, stats |-> NoCollisions,
   doing |-> "none", tries |-> 0, heard |-> FALSE]

BmInit ==
  /\ bmHandles = {} /\ bmCall = [name |-> "none", all |-> {}, ask |-> {}, got |-> {}, told |-> "none"]
  /\ bmPresent = {}
  /\ bmLine \in {NewLine(auto, retries) : auto \in BOOLEAN, retries \in {0, 5}}
  /\ bmSeen = [coll |-> 0, clean |-> TRUE] /\ bmJudged = [coll |-> 0, clean |-> FALSE]
  /\ nwFound = {} /\ nwCall = [on |-> FALSE, scanned |-> 0, told |-> "none"] /\ nwStrong = {}
  /\ bmLeft = BmCalls

AtRestBm == bmCall.name = "none" /\ ~nwCall.on /\ bmLine.doing = "none"
BeginsBm == AtRestBm /\ bmLeft > 0 /\ bmLeft' = bmLeft - 1
nwVars == <<nwFound, nwCall, nwStrong>>
blVars == <<bmLine, bmSeen, bmJudged>>
blElse == <<bmHandles, bmCall, bmPresent, nwVars>>

-----------------------------------------------------------------------------
(* MBusDeviceManager.                                                      *)

(* add_mbus_handle, add_wmbus_handle_mock: a handle that connects is        *)
(* entered, in the place of one of the same name.                          *)
AddHandle(name, connects) ==
  /\ BeginsBm
  /\ bmHandles' = IF connects THEN bmHandles \cup {name} ELSE bmHandles
  /\ UNCHANGED <<bmCall, bmPresent, nwVars, blVars>>

(* send_request asks the wired buses, scan_devices the wireless after them. *)
AskHandles(name) ==
  /\ BeginsBm
  /\ LET all == IF name = "request" THEN bmHandles \cap BmPorts ELSE bmHandles IN
     bmCall' = [name |-> name, all |-> all, ask |-> all, got |-> {}, told |-> "none"]
  /\ UNCHANGED <<bmHandles, bmPresent, nwVars, blVars>>

(* The order within a map is any.                                          *)
NextHandle == IF bmCall.ask \cap BmPorts # {} THEN bmCall.ask \cap BmPorts ELSE bmCall.ask

HandleAnswers ==
  /\ bmCall.name # "none"
  /\ \E h \in NextHandle : bmCall' = [bmCall EXCEPT !.ask = @ \ {h}, !.got = @ \cup {h}]
  /\ UNCHANGED <<bmHandles, bmPresent, nwVars, bmLeft, blVars>>

(* Mutant of Given: the other handles' answers are given all the same.      *)
GivenPartly(call) == [call EXCEPT !.name = "none", !.ask = {}, !.told = "Ok"]

(* What is left of a call when a handle fails: `?` drops the answers.       *)
Given(call) == [call EXCEPT !.name = "none", !.got = {}, !.told = "Err"]

HandleFails ==
  /\ bmCall.name # "none" /\ NextHandle # {}
  /\ bmCall' = Given(bmCall)
  /\ UNCHANGED <<bmHandles, bmPresent, nwVars, bmLeft, blVars>>

AllAsked ==
  /\ bmCall.name # "none" /\ bmCall.ask = {}
  /\ bmCall' = [bmCall EXCEPT !.name = "none", !.told = "Ok"]
  /\ UNCHANGED <<bmHandles, bmPresent, nwVars, bmLeft, blVars>>

(* disconnect_all: every receiver is stopped and both maps are cleared.     *)
DisconnectAll ==
  /\ BeginsBm
  /\ bmHandles' = {}
  /\ bmCall' = [bmCall EXCEPT !.told = "none"]
  /\ UNCHANGED <<bmPresent, nwVars, blVars>>

-----------------------------------------------------------------------------
(* discover_secondary_devices.  Counting the answers on the bus is not     *)
(* implemented and refuses every search; here it counts the meters present.*)

AnyDigit == 15
Digit    == {0, 1, AnyDigit}   \* of 0..15: two that are values only, and 0xF
Pattern  == [1..BmDigits -> Digit]

(* The meters a selection frame with this pattern addresses: in any byte   *)
(* the wildcard stands for all values.                                     *)
Selected(pattern) ==
  {a \in bmPresent : \A i \in 1..BmDigits : pattern[i] = AnyDigit \/ pattern[i] = a[i]}

(* Mutant of QuerySpecific: the address of whoever answered is read.        *)
QueryAnswerer(pattern) == Selected(pattern)

(* query_specific_secondary: the address is the pattern, if it is one.      *)
QuerySpecific(pattern) == IF AnyDigit \in Range(pattern) THEN {} ELSE {pattern}

(* wildcard_search_recursive: every value of one byte after the other, and  *)
(* deeper where several answer.                                            *)
search[position \in 1..BmDigits + 1] ==
  [pattern \in Pattern |->
     IF position > BmDigits THEN QuerySpecific(pattern)
     ELSE UNION {LET p == [pattern EXCEPT ![position] = d]
                     n == Cardinality(Selected(p)) IN
                 IF n = 0 THEN {} ELSE IF n = 1 THEN QuerySpecific(p) ELSE search[position + 1][p]
                 : d \in Digit}]

(* A search needs the port's handle; it leaves the pattern as it was.      *)
DiscoverSecondary(port, present) ==
  /\ BeginsBm /\ port \in bmHandles
  /\ bmPresent' = present
  /\ UNCHANGED <<bmHandles, bmCall, nwVars, blVars>>

-----------------------------------------------------------------------------
(* WMBusNetwork::discover_topology.                                        *)

(* Mutant of FreshFound: the devices of the last discovery stay.           *)
KeptFound(found) == found

(* discovered_devices when a discovery begins.                             *)
FreshFound(found) == {}

Discover ==
  /\ BeginsBm
  /\ nwFound' = FreshFound(nwFound) /\ nwStrong' = {}
  /\ nwCall' = [on |-> TRUE, scanned |-> 0, told |-> "none"]
  /\ UNCHANGED <<bmHandles, bmCall, bmPresent, blVars>>

AtLimit(found) == NwMaxDevices > 0 /\ Cardinality(found) >= NwMaxDevices

(* One scan with the handle, which stays on the frequency it was made for:  *)
(* devices above the threshold are entered, in any order, until the limit  *)
(* is reached.                                                             *)
ScanFrequency(strong) ==
  /\ nwCall.on
  /\ nwStrong' = nwStrong \cup strong
  /\ nwFound' \in {f \in SUBSET (nwFound \cup strong) :
                     /\ nwFound \subseteq f
                     /\ f = nwFound \cup strong \/ (AtLimit(f) /\ Cardinality(f) = NwMaxDevices)}
  /\ NwMaxDevices > 0 => Cardinality(nwFound') <= NwMaxDevices
  /\ nwCall' = LET n == nwCall.scanned + 1 over == n = NwFrequencies \/ AtLimit(nwFound') IN
               [on |-> ~over, scanned |-> n, told |-> IF over THEN "Ok" ELSE "none"]
  /\ UNCHANGED <<bmHandles, bmCall, bmPresent, bmLeft, blVars>>

ScanFails ==
  /\ nwCall.on
  /\ nwCall' = [nwCall EXCEPT !.on = FALSE, !.told = "Err"]
  /\ UNCHANGED <<bmHandles, bmCall, bmPresent, nwFound, nwStrong, bmLeft, blVars>>

-----------------------------------------------------------------------------
(* MBusDeviceHandle and its baud rate.                                     *)

(* connect_with_config: at the rate configured, or the first at which the   *)
(* port opens and takes a ping; nobody waits for an answer to it.          *)
ConnectLine(rate) ==
  /\ BeginsBm /\ ~bmLine.open
  /\ \E opens \in BOOLEAN :
       bmLine' = IF bmLine.auto THEN [bmLine EXCEPT !.doing = "detect", !.rate = 1]
                                ELSE [bmLine EXCEPT !.open = opens, !.rate = rate, !.port = rate]
  /\ UNCHANGED <<bmSeen, bmJudged, blElse>>

TryRate(works) ==
  /\ bmLine.doing = "detect"
  /\ bmLine' = CASE works -> [bmLine EXCEPT !.open = TRUE, !.port = bmLine.rate, !.doing = "none"]
                 [] ~works /\ bmLine.rate < BmRates -> [bmLine EXCEPT !.rate = @ + 1]
                 [] OTHER -> [bmLine EXCEPT !.doing = "none"]
  /\ UNCHANGED <<bmSeen, bmJudged, bmLeft, blElse>>

(* switch_baud_rate: the port refuses and nothing has changed, or it is at   *)
(* the new rate when the ping is sent, or fails.                           *)
Switched(line, rate, port) ==
  IF port = "refused" THEN line ELSE [line EXCEPT !.rate = rate, !.port = rate]

SwitchRate(rate, port) ==
  /\ BeginsBm /\ bmLine.open /\ rate # bmLine.rate
  /\ bmLine' = Switched(bmLine, rate, port)
  /\ bmSeen' = IF port = "refused" THEN bmSeen ELSE [coll |-> 0, clean |-> bmLine.stats = NoCollisions]
  /\ UNCHANGED <<bmJudged, blElse>>

(* reset_collision_statistics.                                             *)
ResetStatistics ==
  /\ BeginsBm /\ bmLine.open
  /\ bmLine' = [bmLine EXCEPT !.stats = NoCollisions]
  /\ bmSeen' = [bmSeen EXCEPT !.clean = TRUE]
  /\ UNCHANGED <<bmJudged, blElse>>

(* send_request_with_adaptation: two requests that may end in another rate, *)
(* and a last one.                                                         *)
AskAdapting ==
  /\ BeginsBm /\ bmLine.open
  /\ bmLine' = [bmLine EXCEPT !.doing = "ask", !.tries = 2, !.heard = FALSE]
  /\ UNCHANGED <<bmSeen, bmJudged, blElse>>

(* recv_frame_with_collision_handling counts a frame, and a collision only   *)
(* behind its loop, where it comes when it is not allowed a single attempt. *)
ReceptionCounts ==
  /\ bmLine.doing = "ask" /\ bmLine.stats.coll + bmLine.stats.good < BmReceptions
  /\ IF bmLine.retries = 0
       THEN bmLine' = [bmLine EXCEPT !.stats.coll = @ + 1] /\ bmSeen' = [bmSeen EXCEPT !.coll = @ + 1]
       ELSE bmLine' = [bmLine EXCEPT !.stats.good = @ + 1, !.heard = TRUE] /\ UNCHANGED bmSeen
  /\ UNCHANGED <<bmJudged, bmLeft, blElse>>

(* is_high_collision_rate of 30 in a hundred.                              *)
HighRate(stats) == 100 * stats.coll > 30 * (stats.coll + stats.good)

RequestSucceeds ==
  /\ bmLine.doing = "ask" /\ bmLine.heard
  /\ bmLine' = [bmLine EXCEPT !.doing = "none"]
  /\ UNCHANGED <<bmSeen, bmJudged, bmLeft, blElse>>

(* Mutant of Adapted: the statistics go with the handle to the new rate.    *)
AdaptedKeeping(line, port) ==
  LET moved == Switched(line, line.rate + 1, port) IN
  IF port = "Ok" THEN [moved EXCEPT !.tries = @ - 1] ELSE [moved EXCEPT !.doing = "none"]

(* auto_adapt_baud_rate: a switch that fails ends the whole call, with the   *)
(* statistics as they were.                                                *)
Adapted(line, port) ==
  LET moved == Switched(line, line.rate + 1, port) IN
  IF port = "Ok" THEN [moved EXCEPT !.stats = NoCollisions, !.tries = @ - 1] ELSE [moved EXCEPT !.doing = "none"]

(* A request fails, by what was received or before anything was.            *)
RequestFails(port) ==
  LET adapts == bmLine.auto /\ HighRate(bmLine.stats) /\ bmLine.rate < BmRates
  IN  /\ bmLine.doing = "ask"
      /\ IF bmLine.tries > 0 /\ adapts
           THEN /\ bmLine' = [Adapted(bmLine, port) EXCEPT !.heard = FALSE]
                /\ bmSeen' = IF port = "refused" THEN bmSeen ELSE [coll |-> 0, clean |-> port = "Ok"]
                /\ bmJudged' = IF port = "refused" THEN bmJudged ELSE bmSeen
           ELSE /\ bmLine' = [bmLine EXCEPT !.heard = FALSE, !.tries = IF @ > 0 THEN @ - 1 ELSE 0,
                                            !.doing = IF bmLine.tries = 0 THEN "none" ELSE @]
                /\ UNCHANGED <<bmSeen, bmJudged>>
      /\ UNCHANGED <<bmLeft, blElse>>

BmNext ==
  \/ \E name \in BmPorts \cup BmRadios, connects \in BOOLEAN : AddHandle(name, connects)
  \/ \E name \in {"request", "scan"} : AskHandles(name)
  \/ HandleAnswers \/ HandleFails \/ AllAsked \/ DisconnectAll
  \/ \E port \in BmPorts, present \in SUBSET BmAddresses : DiscoverSecondary(port, present)
  \/ Discover \/ ScanFails
  \/ \E rate \in 1..BmRates : ConnectLine(rate)
  \/ \E works \in BOOLEAN : TryRate(works)
  \/ \E rate \in 1..BmRates, port \in {"refused", "silent", "Ok"} : SwitchRate(rate, port)
  \/ ResetStatistics \/ AskAdapting \/ ReceptionCounts \/ RequestSucceeds
  \/ \E port \in {"refused", "silent", "Ok"} : RequestFails(port)
  \/ \E strong \in SUBSET NwDevices : ScanFrequency(strong)

-----------------------------------------------------------------------------
(* An answer of the manager that is Ok holds the part of every bus that was *)
(* connected: what one of them failed to say is never told as nothing.     *)
AnswerComplete == bmCall.told = "Ok" => bmCall.got = bmCall.all

(* The search finds exactly the meters whose address differs from another's *)
(* in its last byte only and has no byte a pattern cannot hold: one that    *)
(* answers alone to a pattern with a wildcard left is passed over.         *)
SearchFinds ==
  search[1][[i \in 1..BmDigits |-> AnyDigit]] =
    {a \in bmPresent : /\ Range(a) \subseteq Digit \ {AnyDigit}
                       /\ \E b \in bmPresent \ {a} : \A i \in 1..BmDigits - 1 : a[i] = b[i]}

(* A topology holds devices heard above the threshold in this discovery,    *)
(* never more than the limit, and all of them unless the limit is reached. *)
TopologyHonest ==
  nwCall.told = "Ok" =>
    /\ nwFound \subseteq nwStrong
    /\ NwMaxDevices > 0 => Cardinality(nwFound) <= NwMaxDevices
    /\ AtLimit(nwFound) \/ (nwFound = nwStrong /\ nwCall.scanned = NwFrequencies)

(* An open handle counts time by the rate its port is at, however a switch   *)
(* went; and it leaves a rate whose statistics began with it only for       *)
(* collisions it counted there.                                            *)
RateTrue ==
  /\ bmLine.open => bmLine.rate = bmLine.port
  /\ bmJudged.clean => bmJudged.coll > 0

BusesHonest == RateTrue /\ AnswerComplete /\ SearchFinds /\ TopologyHonest
=============================================================================
