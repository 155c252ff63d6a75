---------------------------- MODULE GatewayStore -----------------------------
(***************************************************************************)
(* What the metermon gateway remembers: the store of devices, events and   *)
(* AES keys (metermon-rs/src/devices.rs), the keys in memory               *)
(* (keystore.rs) and the two MQTT brokers that deliver keys (main.rs).     *)
(*                                                                         *)
(* A redb transaction is a step: it commits whole or not at all.  The      *)
(* monitor may be killed between any two steps and restarted; the offline  *)
(* tools run only while it is down, for redb has a single writer.  Events  *)
(* that only sample frames are left out, and so are readings, which the    *)
(* monitor never has.                                                      *)
(***************************************************************************)
EXTENDS Naturals, Sequences

CONSTANTS
  GsMeters,             \* meter ids
  GsKeys,               \* well-formed AES keys
  GsSeed,               \* the keys of the configuration file, by meter
  GsBrokers,            \* MQTT connections with a control topic
  GsSilence,            \* silence_after
  GsHorizon, GsFrames, GsPushes   \* bounds: time, frames recorded, keys pushed

NoKey     == "none"
Malformed == "malformed"

ASSUME GsAssumption ==
  /\ NoKey \notin GsKeys /\ Malformed \notin GsKeys
  /\ GsSeed \in [GsMeters -> GsKeys \cup {NoKey}]
  /\ {GsSilence, GsHorizon, GsFrames, GsPushes} \subseteq Nat

VARIABLES
  gsUp,                 \* the monitor runs
  gsNow,                \* the clock
  gsDb,                 \* table KEYS
  gsMem,                \* KeyStore.keys
  gsInbox,              \* messages each broker has for the gateway
  gsInstalling,         \* key a broker's thread has stored and not yet installed
  gsDevices,            \* table DEVICES
  gsLog,                \* table EVENTS: the events of each meter, oldest first
  gsImported,           \* the import marker of table META
  gsStats,              \* meters of the monitor's own statistics
  gsFrames, gsPushes,   \* frames recorded, keys pushed
  gsCommitted,          \* every key the store has ever held, by meter
  gsRaced,              \* meters two brokers were installing keys for at once
  gsMerged              \* meters merged from the dump

gsVars == <<gsUp, gsNow, gsDb, gsMem, gsInbox, gsInstalling, gsDevices, gsLog, gsImported,
            gsStats, gsFrames, gsPushes, gsCommitted, gsRaced, gsMerged>>
keyVars    == <<gsDb, gsMem, gsInbox, gsInstalling, gsPushes, gsCommitted, gsRaced>>
deviceVars == <<gsDevices, gsLog, gsImported, gsStats, gsFrames, gsMerged>>

NoKeyMessage == [meter |-> "none", key |-> NoKey]
NoDevice   == [m \in {} |-> 0]

GsInit ==
  /\ gsUp = FALSE /\ gsNow = 0
  /\ gsDb = [m \in GsMeters |-> NoKey] /\ gsMem = gsDb
  /\ gsInbox = [b \in GsBrokers |-> <<>>]
  /\ gsInstalling = [b \in GsBrokers |-> NoKeyMessage]
  /\ gsDevices = NoDevice /\ gsLog = [m \in GsMeters |-> <<>>] /\ gsImported = FALSE /\ gsStats = {}
  /\ gsFrames = 0 /\ gsPushes = 0
  /\ gsCommitted = [m \in GsMeters |-> {}] /\ gsRaced = {} /\ gsMerged = {}

-----------------------------------------------------------------------------
(* Life of the process.                                                    *)

(* run_monitor: the seeds, then over them what redb has persisted.         *)
Loaded(db) == [m \in GsMeters |-> IF db[m] # NoKey THEN db[m] ELSE GsSeed[m]]

StartMonitor ==
  /\ ~gsUp /\ gsUp' = TRUE
  /\ gsMem' = Loaded(gsDb)
  /\ UNCHANGED <<gsNow, gsDb, gsInbox, gsInstalling, gsPushes, gsCommitted, gsRaced, deviceVars>>

(* Stopped or killed: what was in memory is gone.                          *)
StopMonitor ==
  /\ gsUp /\ gsUp' = FALSE
  /\ gsMem' = [m \in GsMeters |-> NoKey]
  /\ gsInstalling' = [b \in GsBrokers |-> NoKeyMessage]
  /\ gsStats' = {}
  /\ UNCHANGED <<gsNow, gsDb, gsInbox, gsPushes, gsCommitted, gsRaced, gsDevices, gsLog,
                 gsImported, gsFrames, gsMerged>>

GsElapse ==
  /\ gsNow < GsHorizon /\ gsNow' = gsNow + 1
  /\ UNCHANGED <<gsUp, keyVars, deviceVars>>

-----------------------------------------------------------------------------
(* Keys.                                                                   *)

(* The persistent session keeps messages while the gateway is away.        *)
PushKey(b, m, key) ==
  /\ gsPushes < GsPushes /\ gsPushes' = gsPushes + 1
  /\ gsInbox' = [gsInbox EXCEPT ![b] = Append(@, [meter |-> m, key |-> key])]
  /\ UNCHANGED <<gsUp, gsNow, gsDb, gsMem, gsInstalling, gsCommitted, gsRaced, deviceVars>>

Committed(m, key) ==
  /\ gsDb' = [gsDb EXCEPT ![m] = key]
  /\ gsCommitted' = [gsCommitted EXCEPT ![m] = @ \cup {key}]

(* Mutant of StoreKey: the key is live when its message arrives.           *)
StoreKeyInstalling(b) ==
  LET msg == Head(gsInbox[b])
  IN  /\ gsUp /\ gsInstalling[b] = NoKeyMessage /\ gsInbox[b] # <<>>
      /\ gsInbox' = [gsInbox EXCEPT ![b] = Tail(@)]
      /\ gsInstalling' = [gsInstalling EXCEPT ![b] = msg]
      /\ gsMem' = [gsMem EXCEPT ![msg.meter] = msg.key]
      /\ UNCHANGED <<gsUp, gsNow, gsDb, gsPushes, gsCommitted, gsRaced, deviceVars>>

(* key_install_handler, on the broker's own thread: store_key, which        *)
(* refuses a malformed key and may fail; then it is not installed either.  *)
StoreKey(b) ==
  LET msg == Head(gsInbox[b])
  IN  /\ gsUp /\ gsInstalling[b] = NoKeyMessage /\ gsInbox[b] # <<>>
      /\ gsInbox' = [gsInbox EXCEPT ![b] = Tail(@)]
      /\ \/ /\ msg.key # Malformed
            /\ Committed(msg.meter, msg.key)
            /\ gsInstalling' = [gsInstalling EXCEPT ![b] = msg]
            /\ gsRaced' = IF \E c \in GsBrokers : gsInstalling[c].meter = msg.meter
                          THEN gsRaced \cup {msg.meter} ELSE gsRaced
         \/ UNCHANGED <<gsDb, gsCommitted, gsInstalling, gsRaced>>
      /\ UNCHANGED <<gsUp, gsNow, gsMem, gsPushes, deviceVars>>

(* ... and then the lock of the keys in memory.                            *)
InstallKey(b) ==
  LET msg == gsInstalling[b]
  IN  /\ msg # NoKeyMessage
      /\ gsMem' = [gsMem EXCEPT ![msg.meter] = msg.key]
      /\ gsInstalling' = [gsInstalling EXCEPT ![b] = NoKeyMessage]
      /\ UNCHANGED <<gsUp, gsNow, gsDb, gsInbox, gsPushes, gsCommitted, gsRaced, deviceVars>>

(* The tools import-keys and remove-key.                                   *)
ImportKey(m, key) ==
  /\ ~gsUp
  /\ Committed(m, key)
  /\ UNCHANGED <<gsUp, gsNow, gsMem, gsInbox, gsInstalling, gsPushes, gsRaced, deviceVars>>

RemoveKey(m) ==
  /\ ~gsUp
  /\ gsDb' = [gsDb EXCEPT ![m] = NoKey]
  /\ UNCHANGED <<gsUp, gsNow, gsMem, gsInbox, gsInstalling, gsPushes, gsCommitted, gsRaced, deviceVars>>

-----------------------------------------------------------------------------
(* Devices and their events.                                               *)

Known(m) == m \in DOMAIN gsDevices
Upsert(m, rec) == [d \in DOMAIN gsDevices \cup {m} |-> IF d = m THEN rec ELSE gsDevices[d]]
Event(kind, happened) == IF happened THEN <<kind>> ELSE <<>>

(* Mutant of Failed: a garbled frame counts as a sign of life.             *)
FailedSeen(rec) == [rec EXCEPT !.fail = @ + 1, !.silent = FALSE, !.seen = gsNow]

(* record_frame of a frame whose CRC failed: only the counters.            *)
Failed(rec) == [rec EXCEPT !.fail = @ + 1]

(* record_frame of a valid one.                                            *)
Seen(m) ==
  [ok     |-> (IF Known(m) THEN gsDevices[m].ok ELSE 0) + 1,
   fail   |-> IF Known(m) THEN gsDevices[m].fail ELSE 0,
   key    |-> gsMem[m] # NoKey,
   silent |-> FALSE,
   seen   |-> gsNow]

(* One frame through the monitor's loop: the record and the events in one   *)
(* transaction, or neither.  A frame that cannot be attributed is only      *)
(* counted; one whose transaction fails is taken for attributed.           *)
RecordFrame(m, crcOk) ==
  /\ gsUp
  /\ gsFrames < GsFrames /\ gsFrames' = gsFrames + 1
  /\ \/ /\ crcOk
        /\ gsDevices' = Upsert(m, Seen(m))
        /\ gsLog' = [gsLog EXCEPT ![m] = @ \o Event("first_seen", ~Known(m))
                                           \o Event("key", gsMem[m] # NoKey /\ ~(Known(m) /\ gsDevices[m].key))
                                           \o Event("resumed", Known(m) /\ gsDevices[m].silent)]
        /\ gsStats' = gsStats \cup {m}
     \/ /\ ~crcOk /\ Known(m)
        /\ gsDevices' = Upsert(m, Failed(gsDevices[m]))
        /\ gsStats' = gsStats \cup {m}
        /\ UNCHANGED gsLog
     \/ /\ ~crcOk /\ ~Known(m)
        /\ UNCHANGED <<gsDevices, gsLog, gsStats>>
     \/ /\ gsStats' = gsStats \cup {m}
        /\ UNCHANGED <<gsDevices, gsLog>>
  /\ UNCHANGED <<gsUp, gsNow, keyVars, gsImported, gsMerged>>

(* check_silence                                                           *)
CheckSilence ==
  LET quiet == {m \in DOMAIN gsDevices : ~gsDevices[m].silent /\ gsDevices[m].seen + GsSilence < gsNow}
  IN  /\ gsUp /\ quiet # {}
      /\ gsDevices' = [m \in DOMAIN gsDevices |->
                         IF m \in quiet THEN [gsDevices[m] EXCEPT !.silent = TRUE] ELSE gsDevices[m]]
      /\ gsLog' = [m \in GsMeters |-> gsLog[m] \o Event("silent", m \in quiet)]
      /\ UNCHANGED <<gsUp, gsNow, keyVars, gsImported, gsStats, gsFrames, gsMerged>>

(* prune_ghosts, of the devices tool.                                      *)
PruneGhosts ==
  LET ghosts == {m \in DOMAIN gsDevices : gsDevices[m].ok = 0}
  IN  /\ ~gsUp /\ ghosts # {}
      /\ gsDevices' = [m \in DOMAIN gsDevices \ ghosts |-> gsDevices[m]]
      /\ gsLog' = [m \in GsMeters |-> IF m \in ghosts THEN <<>> ELSE gsLog[m]]
      /\ gsMerged' = gsMerged \ ghosts
      /\ UNCHANGED <<gsUp, gsNow, keyVars, gsImported, gsStats, gsFrames>>

(* import_dump of an old store with one device: counts are added, the       *)
(* events appended behind the ones there are, and the marker refuses a     *)
(* second import.                                                          *)
ImportDump(m, ok, silent) ==
  /\ ~gsUp /\ ~gsImported
  /\ gsImported' = TRUE
  /\ gsDevices' = Upsert(m, IF Known(m) THEN [gsDevices[m] EXCEPT !.ok = @ + ok, !.fail = @ + 1]
                            ELSE [ok |-> ok, fail |-> 1, key |-> FALSE, silent |-> silent, seen |-> 0])
  /\ gsLog' = [gsLog EXCEPT ![m] = @ \o Event("first_seen", TRUE) \o Event("silent", silent)]
  /\ gsMerged' = gsMerged \cup {m}
  /\ UNCHANGED <<gsUp, gsNow, keyVars, gsStats, gsFrames>>

LifeNext == StartMonitor \/ StopMonitor

KeyNext ==
  \/ LifeNext
  \/ \E b \in GsBrokers : StoreKey(b) \/ InstallKey(b)
  \/ \E b \in GsBrokers, m \in GsMeters, key \in GsKeys \cup {Malformed} : PushKey(b, m, key)
  \/ \E m \in GsMeters : RemoveKey(m) \/ \E key \in GsKeys : ImportKey(m, key)

DeviceNext ==
  \/ LifeNext \/ GsElapse
  \/ \E m \in GsMeters, crcOk \in BOOLEAN : RecordFrame(m, crcOk)
  \/ CheckSilence \/ PruneGhosts
  \/ \E m \in GsMeters, ok \in {0, 1}, silent \in BOOLEAN : ImportDump(m, ok, silent)

GsNext == KeyNext \/ DeviceNext

-----------------------------------------------------------------------------
(* A key is never live before it is durable: every key in memory was        *)
(* committed to the store, or seeded, whatever was killed in between        *)
(* (key_install_handler).  And memory agrees with the store on every meter *)
(* the store has a key for, but for an install that is under way and for a  *)
(* meter that both brokers sent keys for at once, whose installs may have   *)
(* come in the other order than their commits.                             *)
KeysDurable ==
  gsUp => \A m \in GsMeters :
    /\ gsMem[m] \in gsCommitted[m] \cup {GsSeed[m]}
    /\ \/ gsDb[m] = NoKey \/ gsMem[m] = gsDb[m] \/ m \in gsRaced
       \/ \E b \in GsBrokers : gsInstalling[b].meter = m

(* What a history says after its first n events: the device is silent.      *)
Silent(history, n) ==
  \E i \in 1..n : history[i] = "silent" /\ \A j \in i + 1..n : history[j] # "resumed"

(* The event log tells the story of every device, across crashes and        *)
(* restarts: it was first seen once, before all else, if it is known and    *)
(* never if it is not; it falls silent only when it is not and resumes only *)
(* when it is, and at last it is what its record says; and it was minted by *)
(* a frame whose CRC was valid (record_frame, check_silence).  A device     *)
(* merged from a dump has two histories and is excepted.                    *)
LogTruthful ==
  \A m \in GsMeters \ gsMerged :
    LET history == gsLog[m]
    IN  /\ {i \in DOMAIN history : history[i] = "first_seen"} = IF Known(m) THEN {1} ELSE {}
        /\ \A i \in DOMAIN history : /\ history[i] = "silent" => ~Silent(history, i - 1)
                                     /\ history[i] = "resumed" => Silent(history, i - 1)
        /\ Known(m) => gsDevices[m].ok > 0 /\ gsDevices[m].silent = Silent(history, Len(history))
=============================================================================
