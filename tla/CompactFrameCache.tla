-------------------------- MODULE CompactFrameCache --------------------------
(***************************************************************************)
(* The least-recently-used cache of the devices that send compact frames   *)
(* (src/wmbus/compact_cache.rs), with the file it is saved to.  One mutex  *)
(* makes every operation a step; a file that cannot be written or read is  *)
(* an error that changes nothing.  Every operation takes one unit of time. *)
(***************************************************************************)
EXTENDS Naturals, Sequences, SequencesExt, FiniteSets, FiniteSetsExt

CONSTANTS
  CfSignatures,         \* signatures of the devices
  CfMaxSize,            \* max_size
  CfHorizon             \* bound: operations in one behaviour

ASSUME CfAssumption == CfMaxSize \in Nat /\ CfHorizon \in Nat

VARIABLES
  cfNow,                \* the clock
  cfDevices,            \* devices: the last_seen of each
  cfLru,                \* lru_queue, most recent at the back
  cfFile,               \* the saved file: the age of each device
  cfLoaded              \* entries read from a file and not used since

cfVars == <<cfNow, cfDevices, cfLru, cfFile, cfLoaded>>

NoDevices == [s \in {} |-> 0]

CfInit ==
  /\ cfNow = CfHorizon          \* so that ages and their difference stay natural
  /\ cfDevices = NoDevices /\ cfLru = <<>> /\ cfFile = NoDevices /\ cfLoaded = {}

Tick == cfNow < 2 * CfHorizon /\ cfNow' = cfNow + 1

Without(set) == [s \in DOMAIN cfDevices \ set |-> cfDevices[s]]

(* lru_queue without a set of devices; the others keep their order.         *)
Queue(set) ==
  LET stay == {i \in DOMAIN cfLru : cfLru[i] \notin set}
      upTo[n \in 0..Len(cfLru)] ==
        IF n = 0 THEN <<>> ELSE IF n \in stay THEN Append(upTo[n - 1], cfLru[n]) ELSE upTo[n - 1]
  IN upTo[Len(cfLru)]

-----------------------------------------------------------------------------
(* insert: the entry at the front makes room when the map is full; an empty *)
(* queue evicts nothing, so a cache of size 0 holds one entry.             *)
MakesRoom(sig) ==
  IF Cardinality(DOMAIN cfDevices) >= CfMaxSize /\ sig \notin DOMAIN cfDevices /\ cfLru # <<>>
  THEN {Head(cfLru)} ELSE {}

Insert(sig) ==
  LET gone == MakesRoom(sig) \cup {sig}
  IN  /\ Tick
      /\ cfDevices' = [s \in DOMAIN Without(gone) \cup {sig} |->
                         IF s = sig THEN cfNow ELSE cfDevices[s]]
      /\ cfLru' = Append(Queue(gone), sig)
      /\ cfLoaded' = cfLoaded \ gone
      /\ UNCHANGED cfFile

(* Mutant of Requeued: a hit keeps its place.                              *)
LeftInPlace(sig) == cfLru

(* get: a hit is seen now and moves to the back; a miss changes nothing.   *)
Requeued(sig) == Append(Queue({sig}), sig)

Get(sig) ==
  /\ Tick
  /\ sig \in DOMAIN cfDevices
  /\ cfDevices' = [cfDevices EXCEPT ![sig] = cfNow]
  /\ cfLru' = Requeued(sig)
  /\ cfLoaded' = cfLoaded \ {sig}
  /\ UNCHANGED cfFile

Drop(set) ==
  /\ Tick
  /\ cfDevices' = Without(set)
  /\ cfLru' = Queue(set)
  /\ cfLoaded' = cfLoaded \ set
  /\ UNCHANGED cfFile

(* remove, clear and remove_stale                                          *)
RemoveDevice(sig)   == Drop({sig})
Clear               == Drop(DOMAIN cfDevices)
RemoveStale(maxAge) == Drop({s \in DOMAIN cfDevices : cfNow - cfDevices[s] > maxAge})

(* save_to_file: last_seen becomes an age; the order is not saved.         *)
SaveToFile ==
  /\ Tick
  /\ cfFile' = [s \in DOMAIN cfDevices |-> cfNow - cfDevices[s]]
  /\ UNCHANGED <<cfDevices, cfLru, cfLoaded>>

(* load_from_file, in place of the cache there was: the ages are restored   *)
(* as if no time had passed, and the queue is in the order of the map.     *)
LoadFromFile ==
  /\ Tick
  /\ cfDevices' = [s \in DOMAIN cfFile |-> cfNow - cfFile[s]]
  /\ cfLru' \in SetToSeqs(DOMAIN cfFile)
  /\ cfLoaded' = DOMAIN cfFile
  /\ UNCHANGED cfFile

CfNext ==
  \/ \E sig \in CfSignatures : Insert(sig) \/ Get(sig) \/ RemoveDevice(sig)
  \/ Clear
  \/ \E maxAge \in 0..2 : RemoveStale(maxAge)
  \/ SaveToFile \/ LoadFromFile

-----------------------------------------------------------------------------
(* The queue and the map hold the same devices, never more than max_size    *)
(* (or one), and the front of the queue is the right one to evict: the      *)
(* devices used since the cache was loaded stand in the order of their last *)
(* use, behind every loaded one that was not, whose own order the file has  *)
(* lost.                                                                   *)
LruOrder ==
  /\ ToSet(cfLru) = DOMAIN cfDevices
  /\ Len(cfLru) = Cardinality(DOMAIN cfDevices)
  /\ Len(cfLru) <= Max({1, CfMaxSize})
  /\ \A i, j \in DOMAIN cfLru : i < j =>
       \/ cfLru[i] \in cfLoaded
       \/ cfLru[j] \notin cfLoaded /\ cfDevices[cfLru[i]] < cfDevices[cfLru[j]]
=============================================================================
