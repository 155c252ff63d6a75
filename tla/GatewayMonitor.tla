--------------------------- MODULE GatewayMonitor ---------------------------
(***************************************************************************)
(* The programs of the metermon gateway (metermon-rs/src/main.rs) as        *)
(* processes: how they come up, what they tell their MQTT brokers           *)
(* (publish.rs), who has the radio during an airwave sweep (sweep.rs), and  *)
(* what they leave behind when they stop, fail or are killed.  What the     *)
(* monitor stores is in GatewayStore, how it supervises the receiver in     *)
(* Rfm69Gateway.                                                           *)
(*                                                                         *)
(* A program is a sequence of steps, and in its loop a sequence for each    *)
(* round.  A request to a broker goes into the bounded channel of its       *)
(* connection, whose own thread sends it and connects again after a loss.   *)
(***************************************************************************)
EXTENDS Naturals, Sequences

CONSTANTS
  GmConfigs,            \* what metermon.conf says: [control, keys], control-topic and key-mqtt
  GmCapacity,           \* requests in the channel of a connection (16)
  GmAttempts,           \* attempts of the watchdog (3)
  GmStarts, GmRounds, GmLosses, GmFaults   \* bounds: processes, rounds of a loop that do more
                                           \* than poll, connections lost, errors

Brokers == {"main", "keys"}

(* The key broker is sent two requests, and its channel takes them.         *)
ASSUME GmAssumption ==
  /\ GmConfigs \subseteq [control : BOOLEAN, keys : BOOLEAN]
  /\ GmCapacity \in Nat /\ GmCapacity >= 2
  /\ {GmAttempts, GmStarts, GmRounds, GmLosses, GmFaults} \subseteq Nat

VARIABLES
  gmConfig,             \* the configuration of the gateway
  gmTool,               \* the program that runs: "none", "monitor", "run", "capture", "sweep", "probe-raw"
  gmPlan,               \* its steps to the next round, or to its end
  gmLooping,            \* it has reached its loop
  gmAsked,              \* SIGTERM or SIGINT
  gmFailed,             \* attempts of the watchdog
  gmQueue,              \* broker -> requests of the process
  gmLink,               \* broker -> its connection with the gateway
  gmStatus,             \* the retained status of the gateway
  gmKept,               \* broker -> it keeps the subscription
  gmRadio,              \* who has it open, and what it does with which settings
  gmPast,               \* history of the process: what is asserted below is about it
  gmLeft                \* what is left of the bounds

gmVars  == <<gmConfig, gmTool, gmPlan, gmLooping, gmAsked, gmFailed, gmQueue, gmLink, gmStatus, gmKept,
             gmRadio, gmPast, gmLeft>>
gmNet   == <<gmQueue, gmLink, gmStatus, gmKept>>

NoPast   == [lost |-> FALSE, fault |-> FALSE, end |-> "none", deaf |-> {}]
NoLink   == [at |-> "none", will |-> FALSE, alive |-> FALSE, arms |-> FALSE]

GmInit ==
  /\ gmConfig \in GmConfigs
  /\ gmTool = "none" /\ gmPlan = <<>> /\ gmLooping = FALSE /\ gmAsked = FALSE /\ gmFailed = 0
  /\ gmQueue = [b \in Brokers |-> <<>>] /\ gmLink = [b \in Brokers |-> NoLink]
  /\ gmStatus = "none" /\ gmKept = [b \in Brokers |-> FALSE]
  /\ gmRadio = [users |-> {}, mode |-> "Standby", set |-> "other", burst |-> FALSE]
  /\ gmPast = NoPast
  /\ gmLeft = [starts |-> GmStarts, rounds |-> GmRounds, losses |-> GmLosses, faults |-> GmFaults]

-----------------------------------------------------------------------------
(* The programs.                                                           *)

Does(op)         == <<[op |-> op, broker |-> "main", what |-> "none"]>>
Asks(b, what)    == <<[op |-> "send", broker |-> b, what |-> what]>>
Connects(b, how) == <<[op |-> "connect", broker |-> b, what |-> how]>>
IfSo(condition, plan) == IF condition THEN plan ELSE <<>>

(* Mutant of MainBroker: the start is announced before the subscription.    *)
MainBrokerEager(config) ==
  Connects("main", "will") \o Asks("main", "online") \o Asks("main", "startup")
  \o IfSo(config.control, Asks("main", "subscribe"))

(* Birth, subscription and announcement; the Err branch of connect is never  *)
(* taken, for a client connects when it sends.                             *)
MainBroker(config) ==
  Connects("main", "will") \o Asks("main", "online")
  \o IfSo(config.control, Asks("main", "subscribe")) \o Asks("main", "startup")

KeyBroker(config) ==
  IfSo(config.keys, Connects("keys", "none") \o Asks("keys", "subscribe") \o Asks("keys", "startup"))

MonitorPlan(config) == Does("store") \o MainBroker(config) \o KeyBroker(config) \o Does("open") \o Does("start")

(* run_live: no store, no announcement and no last will.                    *)
LivePlan(config) ==
  Does("open") \o Connects("main", "none") \o IfSo(config.control, Asks("main", "subscribe")) \o Does("start")

(* What brings the monitor's radio back after a sweep.                      *)
RestorePlan == Does("open") \o Does("start")

(* Mutant of SweepPlan: the radio is not released.                          *)
SweepPlanHolding == Does("raw") \o Does("raw") \o RestorePlan

(* The airwave sweep of the monitor: the driver is dropped, two captures,    *)
(* and a new driver.                                                       *)
SweepPlan == Does("drop") \o Does("raw") \o Does("raw") \o RestorePlan

CapturePlan == Does("open") \o Does("start")
SweepTool   == Does("raw") \o Does("raw") \o Does("store") \o Does("return")
ProbePlan   == Does("raw") \o Does("return")

PlanOf(tool) ==
  CASE tool = "monitor" -> MonitorPlan(gmConfig)
    [] tool = "run"     -> LivePlan(gmConfig)
    [] tool = "capture" -> CapturePlan
    [] tool = "sweep"   -> SweepTool
    [] OTHER            -> ProbePlan

(* A program is started while no other runs: systemd starts the monitor.    *)
StartProgram ==
  /\ gmTool = "none" /\ gmLeft.starts > 0 /\ gmLeft' = [gmLeft EXCEPT !.starts = @ - 1]
  /\ gmTool' \in {"monitor", "run", "capture", "sweep", "probe-raw"}
  /\ gmPlan' = PlanOf(gmTool') /\ gmLooping' = FALSE /\ gmAsked' = FALSE /\ gmFailed' = 0 /\ gmPast' = NoPast
  /\ UNCHANGED <<gmConfig, gmNet, gmRadio>>

(* The process is gone, and so are its requests, its connections and its     *)
(* hold of the radio.  No DISCONNECT is ever sent.                          *)
ProcessEnds(how) ==
  /\ gmTool' = "none" /\ gmPlan' = <<>> /\ gmLooping' = FALSE
  /\ gmQueue' = [b \in Brokers |-> <<>>]
  /\ gmLink' = [b \in Brokers |-> [gmLink[b] EXCEPT !.alive = FALSE, !.at = IF @ = "up" THEN "lost" ELSE @]]
  /\ gmRadio' = [gmRadio EXCEPT !.users = {}, !.burst = FALSE]
  /\ gmPast' = [gmPast EXCEPT !.end = how, !.fault = @ \/ how = "error"]
  /\ UNCHANGED <<gmConfig, gmAsked, gmFailed, gmStatus, gmKept>>

(* A crash, a power loss, or the SIGKILL of a systemd that has waited long   *)
(* enough for a sweep or for a broker.                                     *)
Killed == gmTool # "none" /\ ProcessEnds("killed") /\ UNCHANGED gmLeft

(* The handler of SIGTERM only sets a flag; the other programs have none,    *)
(* and end.                                                                *)
Asked ==
  /\ gmTool = "monitor" /\ ~gmAsked /\ gmAsked' = TRUE
  /\ UNCHANGED <<gmConfig, gmTool, gmPlan, gmLooping, gmFailed, gmNet, gmRadio, gmPast, gmLeft>>

-----------------------------------------------------------------------------
(* The steps.                                                              *)

Step(op) == gmTool # "none" /\ gmPlan # <<>> /\ Head(gmPlan).op = op
Steps    == gmPlan' = Tail(gmPlan) /\ gmLooping' = (gmLooping \/ Tail(gmPlan) = <<>>)
Sound    == UNCHANGED <<gmConfig, gmTool, gmAsked, gmFailed>>

(* The store is opened and read, or the sweep written to it, or the program *)
(* fails.                                                                  *)
Store == Step("store") /\ Steps /\ Sound /\ UNCHANGED <<gmNet, gmRadio, gmPast, gmLeft>>

(* Mutant of Connect: the last will is not set.                             *)
ConnectWithoutWill ==
  LET b == Head(gmPlan).broker IN
  /\ Step("connect") /\ Steps /\ Sound
  /\ gmLink' = [gmLink EXCEPT ![b].alive = TRUE, ![b].arms = FALSE]
  /\ UNCHANGED <<gmQueue, gmStatus, gmKept, gmRadio, gmPast, gmLeft>>

(* Publisher::connect_inner: a thread with the session of the client id.     *)
Connect ==
  LET b == Head(gmPlan).broker IN
  /\ Step("connect") /\ Steps /\ Sound
  /\ gmLink' = [gmLink EXCEPT ![b].alive = TRUE, ![b].arms = Head(gmPlan).what = "will"]
  /\ UNCHANGED <<gmQueue, gmStatus, gmKept, gmRadio, gmPast, gmLeft>>

(* publish_to, publish_json, publish_retained, subscribe_control: the client *)
(* waits while its channel is full.                                        *)
SendRequest ==
  LET b == Head(gmPlan).broker IN
  /\ Step("send") /\ Len(gmQueue[b]) < GmCapacity /\ Steps /\ Sound
  /\ gmQueue' = [gmQueue EXCEPT ![b] = Append(@, Head(gmPlan).what)]
  /\ UNCHANGED <<gmLink, gmStatus, gmKept, gmRadio, gmPast, gmLeft>>

(* Rfm69Source::open: whatever the settings were, they are those of wM-Bus,  *)
(* and the chip receives.  Its reset outlasts a burst.                      *)
Open ==
  /\ Step("open") /\ ~gmRadio.burst /\ Steps /\ Sound
  /\ gmRadio' = [gmRadio EXCEPT !.users = @ \cup {"driver"}, !.mode = "Rx", !.set = "wmbus"]
  /\ UNCHANGED <<gmNet, gmPast, gmLeft>>

(* Rfm69Source::start and recover, with the mode on record.                 *)
StartRx == Step("start") /\ Steps /\ Sound /\ UNCHANGED <<gmNet, gmRadio, gmPast, gmLeft>>

(* drop(radio): its task is aborted, and may be in the middle of a burst.    *)
DropRadio ==
  /\ Step("drop") /\ Steps /\ Sound
  /\ \E burst \in BOOLEAN : gmRadio' = [gmRadio EXCEPT !.users = @ \ {"driver"}, !.burst = burst]
  /\ UNCHANGED <<gmNet, gmPast, gmLeft>>

(* The burst ends with the chip back in Rx.                                 *)
BurstEnds ==
  /\ gmRadio.burst /\ gmRadio' = [gmRadio EXCEPT !.burst = FALSE, !.mode = "Rx"]
  /\ UNCHANGED <<gmConfig, gmTool, gmPlan, gmLooping, gmAsked, gmFailed, gmNet, gmPast, gmLeft>>

(* capture_raw: settings for a stream without sync words, Rx, and standby    *)
(* after its time, which is longer than any burst.                         *)
CaptureBegins ==
  /\ Step("raw") /\ "raw" \notin gmRadio.users
  /\ gmRadio' = [gmRadio EXCEPT !.users = @ \cup {"raw"}, !.mode = "Rx", !.set = "raw"]
  /\ UNCHANGED <<gmConfig, gmTool, gmPlan, gmLooping, gmAsked, gmFailed, gmNet, gmPast, gmLeft>>

CaptureEnds ==
  /\ Step("raw") /\ "raw" \in gmRadio.users /\ ~gmRadio.burst /\ Steps /\ Sound
  /\ gmRadio' = [gmRadio EXCEPT !.users = @ \ {"raw"}, !.mode = "Standby"]
  /\ UNCHANGED <<gmNet, gmPast, gmLeft>>

(* radio.stop(), whose error is only logged: then the chip is not parked.    *)
Park ==
  /\ Step("park") /\ Steps /\ Sound
  /\ gmRadio' = [gmRadio EXCEPT !.mode = "Sleep"]
  /\ UNCHANGED <<gmNet, gmPast, gmLeft>>

(* The end of a program, and process::exit of the watchdog.                 *)
Returns ==
  /\ gmTool # "none" /\ gmPlan # <<>> /\ Head(gmPlan).op \in {"return", "exit"}
  /\ ProcessEnds(Head(gmPlan).op) /\ UNCHANGED gmLeft

(* A step fails: `?` ends the program, but for a sweep of the monitor, which *)
(* goes on with what restores reception, and for the parking of the radio.  *)
StepFails ==
  /\ gmPlan # <<>> /\ gmLeft.faults > 0 /\ gmLeft' = [gmLeft EXCEPT !.faults = @ - 1]
  /\ \/ /\ Head(gmPlan).op \in {"store", "open", "start"} \/ (Step("raw") /\ gmTool # "monitor")
        /\ ProcessEnds("error")
     \/ /\ Step("raw") /\ gmTool = "monitor"
        /\ gmPlan' = RestorePlan
        /\ gmRadio' = [gmRadio EXCEPT !.users = @ \ {"raw"}]
        /\ UNCHANGED <<gmConfig, gmTool, gmLooping, gmAsked, gmFailed, gmNet, gmPast>>
     \/ /\ Step("park") /\ Steps /\ gmPast' = [gmPast EXCEPT !.fault = TRUE]
        /\ UNCHANGED <<gmConfig, gmTool, gmAsked, gmFailed, gmNet, gmRadio>>

-----------------------------------------------------------------------------
(* The loops.                                                              *)

AtTop(tool) == gmTool = tool /\ gmLooping /\ gmPlan = <<>>
Round(plan) ==
  /\ gmLeft.rounds > 0 /\ gmLeft' = [gmLeft EXCEPT !.rounds = @ - 1] /\ gmPlan' = plan
  /\ UNCHANGED <<gmConfig, gmTool, gmLooping, gmAsked, gmNet, gmRadio, gmPast>>

(* The top of the monitor's loop: the flag of the handler.                  *)
Shutdown ==
  /\ AtTop("monitor") /\ gmAsked
  /\ gmPlan' = Asks("main", "offline") \o Does("park") \o Does("return")
  /\ UNCHANGED <<gmConfig, gmTool, gmLooping, gmAsked, gmFailed, gmNet, gmRadio, gmPast, gmLeft>>

(* A report: the health of the gateway, and what the watchdog says of it.    *)
Report ==
  /\ AtTop("monitor") /\ ~gmAsked
  /\ \/ gmFailed' = 0 /\ Round(Asks("main", "health"))
     \/ /\ gmFailed < GmAttempts /\ gmFailed' = gmFailed + 1
        /\ Round(Asks("main", "health"))
     \/ /\ gmFailed = GmAttempts /\ gmFailed' = gmFailed + 1
        /\ Round(Asks("main", "health") \o Asks("main", "offline") \o Does("exit"))

Sweep == AtTop("monitor") /\ ~gmAsked /\ Round(SweepPlan) /\ UNCHANGED gmFailed

(* A frame of run_live is published, one of run_capture written; the latter  *)
(* ends by count or deadline, and parks nothing.                           *)
Live    == AtTop("run") /\ Round(Asks("main", "data")) /\ UNCHANGED gmFailed
Capture == AtTop("capture") /\ Round(Does("return")) /\ UNCHANGED gmFailed

(* An error of poll() ends the monitor and run_live.                        *)
PollFails ==
  /\ AtTop("monitor") \/ AtTop("run")
  /\ gmLeft.faults > 0 /\ gmLeft' = [gmLeft EXCEPT !.faults = @ - 1]
  /\ ProcessEnds("error")

-----------------------------------------------------------------------------
(* The brokers.  A connection is "up", "lost" until the broker notices, or   *)
(* "none".                                                                 *)

Will(b) == IF gmLink[b].will THEN "offline" ELSE gmStatus

(* The thread of a client connects, which ends what the broker had of it.    *)
Reconnects(b) ==
  /\ gmLink[b].alive /\ gmLink[b].at # "up"
  /\ gmStatus' = Will(b)
  /\ gmLink' = [gmLink EXCEPT ![b].at = "up", ![b].will = gmLink[b].arms]
  /\ UNCHANGED <<gmConfig, gmTool, gmPlan, gmLooping, gmAsked, gmFailed, gmQueue, gmKept, gmRadio, gmPast, gmLeft>>

(* The broker notices: the last will.                                       *)
Notices(b) ==
  /\ gmLink[b].at = "lost"
  /\ gmStatus' = Will(b)
  /\ gmLink' = [gmLink EXCEPT ![b].at = "none", ![b].will = FALSE]
  /\ UNCHANGED <<gmConfig, gmTool, gmPlan, gmLooping, gmAsked, gmFailed, gmQueue, gmKept, gmRadio, gmPast, gmLeft>>

LinkLost(b) ==
  /\ gmLink[b].alive /\ gmLink[b].at = "up" /\ gmLeft.losses > 0
  /\ gmLeft' = [gmLeft EXCEPT !.losses = @ - 1] /\ gmPast' = [gmPast EXCEPT !.lost = @ \/ b = "main"]
  /\ gmLink' = [gmLink EXCEPT ![b].at = "lost"]
  /\ UNCHANGED <<gmConfig, gmTool, gmPlan, gmLooping, gmAsked, gmFailed, gmQueue, gmStatus, gmKept, gmRadio>>

(* A request reaches the broker; one that is not acknowledged is sent again. *)
Delivered(b, what) ==
  /\ gmStatus' = IF what \in {"online", "offline"} THEN what ELSE gmStatus
  /\ gmKept' = [gmKept EXCEPT ![b] = @ \/ what = "subscribe"]

Delivers(b) ==
  /\ gmLink[b].at = "up" /\ gmQueue[b] # <<>>
  /\ Delivered(b, Head(gmQueue[b]))
  /\ \E acknowledged \in BOOLEAN :
       /\ acknowledged \/ gmLeft.losses > 0
       /\ gmQueue' = IF acknowledged THEN [gmQueue EXCEPT ![b] = Tail(@)] ELSE gmQueue
       /\ gmLink' = IF acknowledged THEN gmLink ELSE [gmLink EXCEPT ![b].at = "lost"]
       /\ gmLeft' = IF acknowledged THEN gmLeft ELSE [gmLeft EXCEPT !.losses = @ - 1]
       /\ gmPast' = [gmPast EXCEPT !.lost = @ \/ (~acknowledged /\ b = "main"),
                                   !.deaf = IF Head(gmQueue[b]) = "startup" /\ ~gmKept[b] THEN @ \cup {b} ELSE @]
  /\ UNCHANGED <<gmConfig, gmTool, gmPlan, gmLooping, gmAsked, gmFailed, gmRadio>>

GmNext ==
  \/ StartProgram \/ Killed \/ Asked \/ Store \/ Connect \/ SendRequest \/ Open \/ StartRx \/ DropRadio \/ BurstEnds
  \/ CaptureBegins \/ CaptureEnds \/ Park \/ Returns \/ StepFails
  \/ Shutdown \/ Report \/ Sweep \/ Live \/ Capture \/ PollFails
  \/ \E b \in Brokers : Reconnects(b) \/ Notices(b) \/ LinkLost(b) \/ Delivers(b)

-----------------------------------------------------------------------------
(* The status the broker retains says "online" only while it has the          *)
(* gateway's connection, also after crashes and restarts; it says anything    *)
(* else of a monitor that has told it all it had to tell only after a loss of *)
(* the connection, for the birth is published once.                         *)
StatusTold ==
  /\ gmStatus = "online" => gmLink["main"].at # "none" /\ gmLink["main"].will
  /\ AtTop("monitor") /\ gmLink["main"].at = "up" /\ gmQueue["main"] = <<>> /\ ~gmPast.lost =>
       gmStatus = "online"

(* The backend, which pushes keys at an announcement and does not retain      *)
(* them, finds the subscription; and the key broker never holds the monitor   *)
(* up: what waits for room in a channel waits for the primary broker.        *)
KeysReachable ==
  /\ \A b \in gmPast.deaf : b = "main" /\ ~gmConfig.control
  /\ gmPlan # <<>> /\ Head(gmPlan).op = "send" /\ Len(gmQueue[Head(gmPlan).broker]) = GmCapacity =>
       Head(gmPlan).broker = "main"

(* A raw capture has the radio for itself, but for the last burst of a        *)
(* dropped driver; a loop finds it receiving wM-Bus; a monitor that stopped   *)
(* has parked it, and no sweep that came to its end leaves it in raw Rx.      *)
RadioHanded ==
  /\ ~({"driver", "raw"} \subseteq gmRadio.users)
  /\ gmTool \in {"monitor", "run"} /\ gmLooping /\ gmPlan = <<>> /\ ~gmPast.fault =>
       "driver" \in gmRadio.users /\ gmRadio.mode = "Rx" /\ gmRadio.set = "wmbus"
  /\ gmPast.end = "return" /\ gmAsked /\ ~gmPast.fault => gmRadio.mode = "Sleep"
  /\ gmTool = "none" /\ gmRadio.set = "raw" /\ gmRadio.mode = "Rx" => gmPast.end \in {"killed", "error"}

MonitorTold == StatusTold /\ KeysReachable /\ RadioHanded
=============================================================================
