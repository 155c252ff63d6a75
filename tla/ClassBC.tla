------------------------------ MODULE ClassBC --------------------------------
(***************************************************************************)
(* The controller of LoRaWAN device classes B and C                        *)
(* (src/wmbus/radio/lora/class_bc.rs).  Its state is spread over locks of  *)
(* its own; three tasks use it: one that switches the class, the one the   *)
(* radio reports beacons to, and one that opens ping slots and asks for    *)
(* the status.                                                             *)
(*                                                                         *)
(* The short mutexes (beacon_locked, class_c_active, last_beacon,          *)
(* ping_slots) are taken and given back within a step.  The two RwLocks    *)
(* are held across awaits and are state: cbClassLock and cbConfigLock.     *)
(* Time is a count of beacon periods, and a ping slot schedule is the time *)
(* of the beacon it starts from (0: there is none).                        *)
(***************************************************************************)
EXTENDS Naturals

CONSTANT CbHorizon      \* bound: beacon periods in one behaviour

ASSUME CbAssumption == CbHorizon \in Nat

VARIABLES
  cbNow,                \* the current beacon period
  cbClass,              \* device_class
  cbClassLock,          \* set_device_class holds the write lock of device_class
  cbConfigLock,         \* handle_beacon holds the write lock of beacon_config
  cbNext,               \* beacon_config.next_beacon
  cbSlots,              \* the beacon the ping slots were calculated from
  cbLocked,             \* beacon_locked
  cbActive,             \* class_c_active
  cbSwitch,             \* where set_device_class is
  cbBeacon,             \* where handle_beacon is
  cbPing                \* where the third task is

cbVars == <<cbNow, cbClass, cbClassLock, cbConfigLock, cbNext, cbSlots, cbLocked,
            cbActive, cbSwitch, cbBeacon, cbPing>>

DeviceClass == {"ClassA", "ClassB", "ClassC"}
Never == 0

(* BeaconConfig::default(): the next beacon is one period away.            *)
CbInit ==
  /\ cbNow = 1 /\ cbClass = "ClassA" /\ cbNext = 2 /\ cbSlots = Never
  /\ cbClassLock = FALSE /\ cbConfigLock = FALSE
  /\ cbLocked = FALSE /\ cbActive = FALSE
  /\ cbSwitch = "idle" /\ cbBeacon = "idle" /\ cbPing = "idle"

-----------------------------------------------------------------------------
(* set_device_class holds device_class for the whole call.                 *)

SetDeviceClass(class) ==
  /\ cbSwitch = "idle" /\ ~cbClassLock
  /\ cbClass' = class
  /\ cbActive' = (class = "ClassC")
  /\ cbLocked' = (class = "ClassB" /\ cbLocked)
  /\ cbSwitch' = IF class = "ClassB" THEN "searching" ELSE "idle"
  /\ cbClassLock' = (class = "ClassB")
  /\ UNCHANGED <<cbNow, cbConfigLock, cbNext, cbSlots, cbBeacon, cbPing>>

(* start_beacon_search: after its sleep of two seconds the beacon counts as *)
(* found, whether one has come or not.                                     *)
BeaconSearched ==
  /\ cbSwitch = "searching"
  /\ cbLocked' = TRUE
  /\ cbSwitch' = "calculating"
  /\ UNCHANGED <<cbNow, cbClass, cbClassLock, cbConfigLock, cbNext, cbSlots, cbActive,
                 cbBeacon, cbPing>>

(* calculate_ping_slots needs beacon_config to read.                       *)
MayReadConfig == ~cbConfigLock

SwitchCalculates ==
  /\ cbSwitch = "calculating" /\ MayReadConfig
  /\ cbSlots' = cbNext
  /\ cbSwitch' = "idle"
  /\ cbClassLock' = FALSE
  /\ UNCHANGED <<cbNow, cbClass, cbConfigLock, cbNext, cbLocked, cbActive, cbBeacon, cbPing>>

-----------------------------------------------------------------------------
(* handle_beacon                                                           *)

(* last_beacon and beacon_locked, in whatever class the device is.         *)
HandleBeacon ==
  /\ cbBeacon = "idle"
  /\ cbLocked' = TRUE
  /\ cbBeacon' = "seen"
  /\ UNCHANGED <<cbNow, cbClass, cbClassLock, cbConfigLock, cbNext, cbSlots, cbActive,
                 cbSwitch, cbPing>>

(* A handle_beacon that gave beacon_config back before it calculated.      *)
MoveNextBeaconReleasing ==
  /\ cbBeacon = "seen" /\ ~cbConfigLock /\ cbPing # "open"
  /\ cbNext' = cbNow + 1
  /\ cbSlots' = cbNow + 1
  /\ cbBeacon' = "idle"
  /\ UNCHANGED <<cbNow, cbClass, cbClassLock, cbConfigLock, cbLocked, cbActive, cbSwitch, cbPing>>

(* The next beacon, with beacon_config locked to write (process_ping_slot   *)
(* has it locked to read while its window is open).  The guard lives to the *)
(* end of the method, so the read lock calculate_ping_slots now waits for   *)
(* is never granted: the call has no further step.                         *)
MoveNextBeacon ==
  /\ cbBeacon = "seen" /\ ~cbConfigLock /\ cbPing # "open"
  /\ cbConfigLock' = TRUE
  /\ cbNext' = cbNow + 1
  /\ cbBeacon' = "calculating"
  /\ UNCHANGED <<cbNow, cbClass, cbClassLock, cbSlots, cbLocked, cbActive, cbSwitch, cbPing>>

-----------------------------------------------------------------------------
(* process_ping_slot and get_status                                        *)

(* process_ping_slot: an error without a beacon lock, else a window during  *)
(* which beacon_config is read-locked.                                     *)
OpenPingSlot ==
  /\ cbPing = "idle" /\ cbLocked /\ MayReadConfig
  /\ cbPing' = "open"
  /\ UNCHANGED <<cbNow, cbClass, cbClassLock, cbConfigLock, cbNext, cbSlots, cbLocked,
                 cbActive, cbSwitch, cbBeacon>>

ClosePingSlot ==
  /\ cbPing = "open"
  /\ cbPing' = "idle"
  /\ UNCHANGED <<cbNow, cbClass, cbClassLock, cbConfigLock, cbNext, cbSlots, cbLocked,
                 cbActive, cbSwitch, cbBeacon>>

(* get_status reads device_class first.                                    *)
AskStatus ==
  /\ cbPing = "idle"
  /\ cbPing' = "asking"
  /\ UNCHANGED <<cbNow, cbClass, cbClassLock, cbConfigLock, cbNext, cbSlots, cbLocked,
                 cbActive, cbSwitch, cbBeacon>>

GetStatus ==
  /\ cbPing = "asking" /\ ~cbClassLock
  /\ cbPing' = "idle"
  /\ UNCHANGED <<cbNow, cbClass, cbClassLock, cbConfigLock, cbNext, cbSlots, cbLocked,
                 cbActive, cbSwitch, cbBeacon>>

CbElapse ==
  /\ cbNow < CbHorizon /\ cbNow' = cbNow + 1
  /\ UNCHANGED <<cbClass, cbClassLock, cbConfigLock, cbNext, cbSlots, cbLocked, cbActive,
                 cbSwitch, cbBeacon, cbPing>>

CbNext ==
  \/ \E class \in DeviceClass : SetDeviceClass(class)
  \/ BeaconSearched \/ SwitchCalculates
  \/ HandleBeacon \/ MoveNextBeacon
  \/ OpenPingSlot \/ ClosePingSlot \/ AskStatus \/ GetStatus
  \/ CbElapse

-----------------------------------------------------------------------------
(* No beacon ever moves the schedule: handle_beacon waits for itself when   *)
(* it calculates the ping slots, so every schedule there is was calculated  *)
(* from the next_beacon the controller was created with, however many       *)
(* beacons have come and however often the class was switched.             *)
BeaconsIgnored == cbSlots \in {Never, 2}
=============================================================================
