--------------------------- MODULE ServicesProofs ---------------------------
EXTENDS Services, KeyProofs, RadioProofs, WellFoundedInduction, FiniteSetTheorems, SequenceTheorems, TLAPS

(***************************************************************************)
(* Proofs about the units of Services: here those about the mesh (LbmCore), *)
(* the classes and hops (ClassBC, ChannelHopper) and the handle             *)
(* (HandleLife); KeyProofs has those about the keys, the gateway's programs *)
(* and what is learnt of the meters, RadioProofs those about the radios,    *)
(* their interrupts and the buses.                                         *)
(*                                                                         *)
(* UnitSteps frames the units: any step of Services is, for each unit      *)
(* proved about, a step of that unit or a stutter on its variables, so an   *)
(* invariant of a unit alone is an invariant of Services.                  *)
(*                                                                         *)
(*   - Slots and channels: a beacon ends with its lock held for good, so   *)
(*     no later one moves the slots; a hop of round robin finds a usable   *)
(*     channel because a set of numbers has a least one (LeastNatural).    *)
(*   - Mesh: MeshOnce says that what was sent of a message and what is     *)
(*     still queued never exceed its hops at publication, as long as its   *)
(*     identifier has not been forgotten.                                  *)
(*   - Handle: HandleInv is a conjunction with one part for the task, the  *)
(*     registry, the channel, the calls and the scan; the property is      *)
(*     their consequence.                                                  *)
(*   - Data rate: AdrInv bounds the factor and the power; MarginLeft is    *)
(*     why a new factor leaves a margin of 10 dB.                          *)
(*   - Modes: MsInv counts what was tried of a mode as whole cycles times  *)
(*     its places in the sequence, and its places up to the current one.   *)
(*   - Stream: in the buffer and on the wire every byte is followed by the *)
(*     next of its frame, or the first of the next frame (StreamInv), so   *)
(*     what is cut off at the size of the header is one whole frame.       *)
(***************************************************************************)

(* A step of the module is one of the unit at hand, and leaves the          *)
(* variables of the other units as they are.                               *)
LEMMA UnitSteps ==
  ASSUME [Next]_servicesVars
  PROVE  /\ [CbNext]_cbVars /\ [HpNext]_hpVars /\ [LbNext]_lbVars /\ [HlNext]_hlVars
         /\ [FcNext]_fcVars /\ [BmNext]_bmVars /\ [KeyNext \/ DeviceNext]_gsVars
         /\ [SuNext]_suVars /\ [RoNext]_roVars /\ [DcNext]_dcVars /\ [DlNext]_dlVars
         /\ [IqNext]_iqVars /\ [GpNext]_gpVars /\ [GmNext]_gmVars
         /\ [CfNext]_cfVars /\ [InNext]_inVars /\ [LfNext]_lfVars
         /\ [AdrNext]_adrVars /\ [MsNext]_msVars /\ [IbNext]_ibVars /\ [FsNext]_fsVars
<1>1. CASE UNCHANGED servicesVars
  BY <1>1 DEF servicesVars
<1>2. CASE ClassStep \/ HopperStep \/ MeshStep \/ HandleStep \/ CryptoStep
  BY <1>2 DEF ClassStep, HopperStep, MeshStep, HandleStep, CryptoStep
<1>3. CASE BusStep \/ KeysStep \/ DevicesStep \/ SetupStep \/ OwnerStep
  BY <1>3 DEF BusStep, KeysStep, DevicesStep, SetupStep, OwnerStep
<1>4. CASE DutyCycleStep \/ LimiterStep \/ IrqQueueStep \/ LinesStep \/ MonitorStep
  BY <1>4 DEF DutyCycleStep, LimiterStep, IrqQueueStep, LinesStep, MonitorStep
<1>5. CASE CacheStep \/ FormatsStep \/ DevicesKnownStep \/ AdrStep \/ ModesStep \/ BufferStep \/ StreamStep
  BY <1>5 DEF CacheStep, FormatsStep, DevicesKnownStep, AdrStep, ModesStep, BufferStep, StreamStep
<1>6. CASE UNCHANGED <<cbVars, hpVars, lbVars, hlVars, fcVars, bmVars, gsVars, suVars, roVars, dcVars, dlVars,
                     iqVars, gpVars, gmVars, cfVars, inVars, lfVars, adrVars, msVars, ibVars, fsVars>>
  BY <1>6
<1> QED
  BY <1>1, <1>2, <1>3, <1>4, <1>5, <1>6 DEF Next,
     WiredFramesStep, RecordsStep, LinkFramesStep,
     ReadingsStep, VendorsStep

-----------------------------------------------------------------------------
(* When and where a node is heard.                                         *)

(* A beacon moves next_beacon only with beacon_config locked for good.      *)
SlotInv == BeaconsIgnored /\ (cbConfigLock \/ cbNext = 2)

LEMMA SlotStep == SlotInv /\ [CbNext]_cbVars => SlotInv'
BY DEF SlotInv, BeaconsIgnored, CbNext, cbVars, SetDeviceClass, BeaconSearched, SwitchCalculates,
       MayReadConfig, HandleBeacon, MoveNextBeacon, OpenPingSlot, ClosePingSlot, AskStatus,
       GetStatus, CbElapse

LEMMA IndexReached ==
  ASSUME NEW c \in Index, NEW i \in Index
  PROVE  \E d \in 1..Channels : AfterIndex(c, d) = i
<1>1. Channels \in Nat \ {0} /\ c \in 0..(Channels - 1) /\ i \in 0..(Channels - 1)
  BY ChannelsAssumption DEF Index
<1>2. CASE i > c
  <2>1. i - c \in 1..Channels /\ c + (i - c) = i
    BY <1>1, <1>2
  <2>2. i % Channels = i
    BY <1>1
  <2> QED BY <2>1, <2>2 DEF AfterIndex
<1>3. CASE i <= c
  <2>1. i - c + Channels \in 1..Channels /\ c + (i - c + Channels) = i + Channels
    BY <1>1, <1>3
  <2>2. (i + Channels) % Channels = i
    BY <1>1
  <2> QED BY <2>1, <2>2 DEF AfterIndex
<1> QED BY <1>1, <1>2, <1>3

(* The first usable channel after the current one is usable.               *)
LEMMA StepUsable ==
  ASSUME hpCurrent \in Index, Usable # {}
  PROVE  AfterIndex(hpCurrent, StepToUsable) \in Usable
<1> DEFINE D == {d \in 1..Channels : AfterIndex(hpCurrent, d) \in Usable}
<1>1. D \in SUBSET Nat /\ D # {}
  <2>1. PICK i \in Index : i \in Usable
    BY DEF Usable
  <2>2. PICK d \in 1..Channels : AfterIndex(hpCurrent, d) = i
    BY IndexReached
  <2> QED BY <2>1, <2>2
<1>2. StepToUsable = Min(D)
  BY DEF StepToUsable
<1>3. Min(D) \in D
  <2> HIDE DEF D
  <2>1. \E x \in D : \A y \in D : x <= y
    BY <1>1, LeastNatural
  <2> QED BY <2>1 DEF Min
<1> QED BY <1>2, <1>3

HopInv == HopUsable /\ hpCurrent \in Index

(* A hop to a channel that is not blacklisted after it.                     *)
LEMMA HopLands ==
  ASSUME NEW i \in Index, HopTo(i), i \notin hpBlack'
  PROVE  hpHop'.usable /\ hpCurrent' \in Index
<1>1. hpHop' = [ch |-> i, usable |-> (i \notin hpBlack'), full |-> (Usable = {})] /\ hpCurrent' = i
  BY DEF HopTo
<1>2. (i \notin hpBlack') = TRUE
  OBVIOUS
<1>3. hpHop' = [ch |-> i, usable |-> TRUE, full |-> (Usable = {})]
  BY <1>1, <1>2, Zenon
<1>4. hpHop'.usable
  BY <1>3
<1> QED BY <1>1, <1>4

LEMMA SecondReached ==
  ASSUME NEW c \in Index
  PROVE  AfterIndex(c, 2) \in Index
BY ChannelsAssumption DEF Index, AfterIndex

LEMMA HopStep == HopInv /\ [HpNext]_hpVars => HopInv'
<1> SUFFICES ASSUME HopInv, [HpNext]_hpVars PROVE HopInv'
  OBVIOUS
<1>1. CASE NextRoundRobin
  <2>1. CASE Usable # {} /\ UNCHANGED hpBlack /\ HopTo(AfterIndex(hpCurrent, StepToUsable))
    <3>1. AfterIndex(hpCurrent, StepToUsable) \in Usable
      BY <2>1, StepUsable DEF HopInv
    <3> QED BY <3>1, <2>1, HopLands DEF Usable, HopInv, HopUsable
  <2>2. CASE hpBlack' = {} /\ HopTo(AfterIndex(hpCurrent, 2))
    <3>1. AfterIndex(hpCurrent, 2) \in Index
      BY SecondReached DEF HopInv
    <3> QED BY <3>1, <2>2, HopLands DEF HopInv, HopUsable
  <2> QED BY <1>1, <2>1, <2>2 DEF NextRoundRobin
<1>2. CASE NextRandom
  <2>1. PICK i \in Usable : HopTo(i)
    BY <1>2 DEF NextRandom
  <2> QED BY <1>2, <2>1, HopLands DEF NextRandom, Usable, HopInv, HopUsable
<1>3. CASE NextAdaptive
  <2>1. CASE Usable = {}
    <3>1. HopTo(hpCurrent) /\ hpStrategy' = "Adaptive"
      BY <1>3, <2>1 DEF NextAdaptive, BestOrCurrent
    <3>2. hpHop' = [ch |-> hpCurrent, usable |-> (hpCurrent \notin hpBlack'), full |-> (Usable = {})]
      BY <3>1 DEF HopTo
    <3>3. (Usable = {}) = TRUE
      BY <2>1
    <3>4. hpHop' = [ch |-> hpCurrent, usable |-> (hpCurrent \notin hpBlack'), full |-> TRUE]
      BY <3>2, <3>3, Zenon
    <3>5. hpHop'.full
      BY <3>4
    <3> QED BY <3>1, <3>5 DEF HopTo, HopInv, HopUsable
  <2>2. CASE Usable # {}
    <3>1. PICK i \in Best(Usable) : HopTo(i)
      BY <1>3, <2>2 DEF NextAdaptive, BestOrCurrent
    <3>2. i \in Usable
      BY <3>1 DEF Best
    <3> QED BY <1>3, <3>1, <3>2, HopLands DEF NextAdaptive, Usable, HopInv, HopUsable
  <2> QED BY <2>1, <2>2
<1>4. CASE NextFixed
  BY <1>4 DEF NextFixed, HopInv, HopUsable
<1>5. CASE UNCHANGED <<hpStrategy, hpCurrent, hpHop>>
  BY <1>5 DEF HopInv, HopUsable
<1> QED BY <1>1, <1>2, <1>3, <1>4, <1>5 DEF HpNext, hpVars, UpdateQuality, ScanChannels

(* Ping slots are those calculated at the start, and a hop lands on a       *)
(* channel that may be used, for any number of channels (SlotAndChannel).  *)
THEOREM ServicesSlotAndChannel == Spec => []SlotAndChannel
<1>1. Init => SlotInv /\ HopInv
  BY ChannelsAssumption DEF Init, CbInit, HpInit, SlotInv, BeaconsIgnored, HopInv, HopUsable, NoHop, Index
<1>2. SlotInv /\ HopInv /\ [Next]_servicesVars => SlotInv' /\ HopInv'
  BY UnitSteps, SlotStep, HopStep
<1>3. SlotInv /\ HopInv => SlotAndChannel
  BY DEF SlotInv, HopInv, SlotAndChannel
<1> QED BY <1>1, <1>2, <1>3, PTL DEF Spec

-----------------------------------------------------------------------------
(* The mesh core sends no more copies of a message than hops were known.   *)

(* What a caller of route_message has yet to send of a message, and with    *)
(* the copies sent before, what the message costs the channel.             *)
Left(sending, m) == IF sending.id = m THEN sending.left ELSE 0
Load(copies, sending, m) == copies[m] + Left(sending["publish"], m) + Left(sending["retry"], m)

MeshTyped ==
  /\ lbIds \in Seq(LbMessages)
  /\ lbSending \in [LbCaller -> [id : LbMessages \cup {"none"}, left : Nat]]
  /\ \A c \in LbCaller : lbSending[c] = NoMessage \/ (lbSending[c].id \in LbMessages /\ lbSending[c].left > 0)
  /\ lbCopies \in [LbMessages -> Nat]
  /\ lbHops \in [DOMAIN lbHops -> Nat] /\ DOMAIN lbHops \subseteq LbMessages
  /\ DOMAIN lbPending \subseteq DOMAIN lbHops /\ lbRetrying \subseteq DOMAIN lbHops

(* A published id is in the cache or has left it; one that was not          *)
(* published weighs nothing; and what was sent of a message together with  *)
(* what is still to be sent stays within the hops of its publication.      *)
MeshOnce ==
  /\ \A m \in DOMAIN lbHops : m \in ToSet(lbIds) \cup lbForgotten
  /\ \A m \in LbMessages \ DOMAIN lbHops : Load(lbCopies, lbSending, m) = 0
  /\ \A m \in DOMAIN lbHops \ lbForgotten : Load(lbCopies, lbSending, m) <= lbHops[m]

LEMMA HopsCounted == NextHops \in Nat
<1>1. IsFiniteSet({n \in LbNodes : lbKnown[n] = "gateway"})
  BY LbAssumption, FS_Subset, {n \in LbNodes : lbKnown[n] = "gateway"} \subseteq LbNodes
<1>2. Cardinality({n \in LbNodes : lbKnown[n] = "gateway"}) \in Nat
  BY <1>1, FS_CardinalityType
<1> QED BY <1>2 DEF NextHops

(* cache_message keeps the new id, and an old one that goes is forgotten.   *)
LEMMA CacheKeeps ==
  ASSUME NEW m \in LbMessages, lbIds \in Seq(LbMessages), CacheMessage(m)
  PROVE  /\ lbIds' \in Seq(LbMessages) /\ m \in ToSet(lbIds')
         /\ ToSet(lbIds) \subseteq ToSet(lbIds') \cup lbForgotten' /\ lbForgotten \subseteq lbForgotten'
<1> DEFINE grown == Append(lbIds, m)
<1>1. PICK old \in 0..Len(lbIds) : lbIds' = SubSeq(grown, old + 1, Len(grown))
                                    /\ lbForgotten' = lbForgotten \cup (ToSet(lbIds) \ ToSet(lbIds'))
  BY DEF CacheMessage
<1>2. Len(lbIds) \in Nat
  OBVIOUS
<1>3. grown \in Seq(LbMessages) /\ Len(grown) = Len(lbIds) + 1 /\ grown[Len(grown)] = m
  BY <1>2
<1>4. old + 1 \in 1..Len(grown)
  BY <1>2, <1>3
<1> HIDE DEF grown
<1>5. lbIds' \in Seq(LbMessages) /\ Len(lbIds') = Len(grown) - old /\ lbIds'[Len(grown) - old] = grown[Len(grown)]
  BY <1>1, <1>2, <1>3, <1>4
<1>6. Len(grown) - old \in DOMAIN lbIds'
  BY <1>5, <1>4, <1>3, <1>2
<1>7. m \in ToSet(lbIds')
  BY <1>3, <1>5, <1>6 DEF ToSet
<1> QED BY <1>1, <1>5, <1>7

(* A routing either sends nothing new or what the cache did not hold, to    *)
(* the hops that are known.                                                *)
LEMMA RouteEffect ==
  ASSUME NEW caller \in LbCaller, NEW m \in LbMessages, lbIds \in Seq(LbMessages), Route(caller, m)
  PROVE  /\ lbIds' \in Seq(LbMessages) /\ m \in ToSet(lbIds')
         /\ ToSet(lbIds) \subseteq ToSet(lbIds') \cup lbForgotten' /\ lbForgotten \subseteq lbForgotten'
         /\ \/ lbSending' = lbSending
            \/ /\ m \notin ToSet(lbIds)
               /\ \E x \in [id : LbMessages \cup {"none"}, left : Nat] :
                    /\ x = NoMessage \/ (x.id = m /\ x.left = NextHops /\ x.left > 0)
                    /\ lbSending' = [lbSending EXCEPT ![caller] = x]
<1>1. CASE IsDuplicate(m) /\ UNCHANGED <<lbIds, lbForgotten, lbSending>>
  BY <1>1 DEF IsDuplicate
<1>2. CASE /\ ~IsDuplicate(m) /\ CacheMessage(m)
           /\ lbSending' = [lbSending EXCEPT
                              ![caller] = IF NextHops = 0 THEN NoMessage ELSE [id |-> m, left |-> NextHops]]
  <2> DEFINE x == IF NextHops = 0 THEN NoMessage ELSE [id |-> m, left |-> NextHops]
  <2>1. x \in [id : LbMessages \cup {"none"}, left : Nat]
    BY HopsCounted DEF NoMessage
  <2>2. x = NoMessage \/ (x.id = m /\ x.left = NextHops /\ x.left > 0)
    BY HopsCounted
  <2>3. lbSending' = [lbSending EXCEPT ![caller] = x] /\ m \notin ToSet(lbIds)
    BY <1>2 DEF IsDuplicate
  <2> HIDE DEF x
  <2> QED BY <1>2, <2>1, <2>2, <2>3, CacheKeeps
<1> QED BY <1>1, <1>2 DEF Route

(* What a caller that was idle takes up is all that is added to the loads.  *)
LEMMA LoadAdded ==
  ASSUME MeshTyped, NEW caller \in LbCaller, lbSending[caller] = NoMessage,
         NEW x \in [id : LbMessages \cup {"none"}, left : Nat], x = NoMessage \/ (x.id \in LbMessages /\ x.left > 0),
         lbSending' = [lbSending EXCEPT ![caller] = x]
  PROVE  /\ lbSending' \in [LbCaller -> [id : LbMessages \cup {"none"}, left : Nat]]
         /\ \A c \in LbCaller : lbSending'[c] = NoMessage \/ (lbSending'[c].id \in LbMessages /\ lbSending'[c].left > 0)
         /\ \A k \in LbMessages : Load(lbCopies, lbSending', k) = Load(lbCopies, lbSending, k) + Left(x, k)
<1>1. /\ lbSending' \in [LbCaller -> [id : LbMessages \cup {"none"}, left : Nat]]
      /\ \A c \in LbCaller : lbSending'[c] = IF c = caller THEN x ELSE lbSending[c]
  BY DEF MeshTyped
<1>2. \A k \in LbMessages : Left(NoMessage, k) = 0 /\ Left(x, k) \in Nat
  BY DEF Left, NoMessage
<1>3. \A c \in LbCaller, k \in LbMessages : Left(lbSending[c], k) \in Nat
  BY DEF MeshTyped, Left
<1>4. ASSUME NEW k \in LbMessages
      PROVE  Load(lbCopies, lbSending', k) = Load(lbCopies, lbSending, k) + Left(x, k)
  <2>1. lbCopies[k] \in Nat /\ "publish" \in LbCaller /\ "retry" \in LbCaller
    BY DEF MeshTyped, LbCaller
  <2>2. CASE caller = "publish"
    <3>1. lbSending'["publish"] = x /\ lbSending'["retry"] = lbSending["retry"] /\ Left(lbSending["publish"], k) = 0
      BY <1>1, <1>2, <2>1, <2>2
    <3> QED BY <3>1, <1>2, <1>3, <2>1 DEF Load
  <2>3. CASE caller = "retry"
    <3>1. lbSending'["retry"] = x /\ lbSending'["publish"] = lbSending["publish"] /\ Left(lbSending["retry"], k) = 0
      BY <1>1, <1>2, <2>1, <2>3
    <3> QED BY <3>1, <1>2, <1>3, <2>1 DEF Load
  <2> QED BY <2>2, <2>3 DEF LbCaller
<1>5. \A c \in LbCaller : lbSending'[c] = NoMessage \/ (lbSending'[c].id \in LbMessages /\ lbSending'[c].left > 0)
  BY <1>1 DEF MeshTyped
<1> QED BY <1>1, <1>4, <1>5

LEMMA LoadTyped ==
  ASSUME MeshTyped
  PROVE  \A k \in LbMessages : Load(lbCopies, lbSending, k) \in Nat
<1>1. \A c \in LbCaller, k \in LbMessages : Left(lbSending[c], k) \in Nat
  BY DEF MeshTyped, Left
<1>2. \A k \in LbMessages : lbCopies[k] \in Nat
  BY DEF MeshTyped
<1>3. "publish" \in LbCaller /\ "retry" \in LbCaller
  BY DEF LbCaller
<1> QED BY <1>1, <1>2, <1>3 DEF Load

(* A copy that goes out moves from what is to be sent to what was sent.     *)
LEMMA SendKeeps ==
  ASSUME MeshTyped, NEW caller \in LbCaller, SendCopy(caller)
  PROVE  /\ lbSending' \in [LbCaller -> [id : LbMessages \cup {"none"}, left : Nat]]
         /\ \A c \in LbCaller : lbSending'[c] = NoMessage \/ (lbSending'[c].id \in LbMessages /\ lbSending'[c].left > 0)
         /\ lbCopies' \in [LbMessages -> Nat]
         /\ \A k \in LbMessages : Load(lbCopies', lbSending', k) = Load(lbCopies, lbSending, k)
<1> DEFINE now == lbSending[caller]
<1> DEFINE x == IF now.left = 1 THEN NoMessage ELSE [now EXCEPT !.left = @ - 1]
<1>1. now \in [id : LbMessages \cup {"none"}, left : Nat] /\ now.id \in LbMessages /\ now.left > 0
  BY DEF MeshTyped, SendCopy
<1>2. lbCopies' = [lbCopies EXCEPT ![now.id] = @ + 1] /\ lbSending' = [lbSending EXCEPT ![caller] = x]
  BY DEF SendCopy
<1>3. x \in [id : LbMessages \cup {"none"}, left : Nat] /\ (x = NoMessage \/ (x.id \in LbMessages /\ x.left > 0))
  BY <1>1 DEF NoMessage
<1>4. \A k \in LbMessages : Left(now, k) = Left(x, k) + (IF k = now.id THEN 1 ELSE 0) /\ Left(x, k) \in Nat
  BY <1>1 DEF Left, NoMessage
<1> HIDE DEF x
<1>5. \A c \in LbCaller : lbSending'[c] = IF c = caller THEN x ELSE lbSending[c]
  BY <1>2 DEF MeshTyped
<1>6. lbCopies' \in [LbMessages -> Nat] /\ \A k \in LbMessages : lbCopies'[k] = lbCopies[k] + (IF k = now.id THEN 1 ELSE 0)
  <2> HIDE DEF now
  <2> QED BY <1>1, <1>2 DEF MeshTyped
<1>7. \A c \in LbCaller, k \in LbMessages : Left(lbSending[c], k) \in Nat
  BY DEF MeshTyped, Left
<1>8. ASSUME NEW k \in LbMessages PROVE Load(lbCopies', lbSending', k) = Load(lbCopies, lbSending, k)
  <2>1. lbCopies[k] \in Nat /\ "publish" \in LbCaller /\ "retry" \in LbCaller
    BY DEF MeshTyped, LbCaller
  <2>2. CASE caller = "publish"
    <3>1. lbSending'["publish"] = x /\ lbSending'["retry"] = lbSending["retry"] /\ now = lbSending["publish"]
      BY <1>5, <2>1, <2>2
    <3> HIDE DEF now
    <3> QED BY <3>1, <1>4, <1>6, <1>7, <2>1 DEF Load
  <2>3. CASE caller = "retry"
    <3>1. lbSending'["retry"] = x /\ lbSending'["publish"] = lbSending["publish"] /\ now = lbSending["retry"]
      BY <1>5, <2>1, <2>3
    <3> HIDE DEF now
    <3> QED BY <3>1, <1>4, <1>6, <1>7, <2>1 DEF Load
  <2> QED BY <2>2, <2>3 DEF LbCaller
<1>9. lbSending' \in [LbCaller -> [id : LbMessages \cup {"none"}, left : Nat]]
  BY <1>2, <1>3 DEF MeshTyped
<1>10. \A c \in LbCaller : lbSending'[c] = NoMessage \/ (lbSending'[c].id \in LbMessages /\ lbSending'[c].left > 0)
  BY <1>5, <1>3 DEF MeshTyped
<1> QED BY <1>6, <1>8, <1>9, <1>10

LEMMA PublishKeeps ==
  ASSUME MeshTyped, MeshOnce, NEW m \in LbMessages, NEW retried, Publish(m, retried)
  PROVE  MeshTyped' /\ MeshOnce'
<1>1. /\ m \notin DOMAIN lbHops /\ lbSending["publish"] = NoMessage /\ Route("publish", m)
      /\ lbHops' = [h \in DOMAIN lbHops \cup {m} |-> IF h = m THEN NextHops ELSE lbHops[h]]
      /\ DOMAIN lbPending' \subseteq DOMAIN lbPending \cup {m}
      /\ lbRetrying' = lbRetrying /\ lbCopies' = lbCopies
  BY DEF Publish
<1>2. lbIds \in Seq(LbMessages) /\ "publish" \in LbCaller
  BY DEF MeshTyped, LbCaller
<1>3. /\ lbIds' \in Seq(LbMessages) /\ m \in ToSet(lbIds')
      /\ ToSet(lbIds) \subseteq ToSet(lbIds') \cup lbForgotten' /\ lbForgotten \subseteq lbForgotten'
      /\ \E x \in [id : LbMessages \cup {"none"}, left : Nat] :
           /\ x = NoMessage \/ (x.id = m /\ x.left = NextHops /\ x.left > 0)
           /\ lbSending' = [lbSending EXCEPT !["publish"] = x]
  <2>1. \/ lbSending' = lbSending
        \/ \E x \in [id : LbMessages \cup {"none"}, left : Nat] :
             /\ x = NoMessage \/ (x.id = m /\ x.left = NextHops /\ x.left > 0)
             /\ lbSending' = [lbSending EXCEPT !["publish"] = x]
    BY <1>1, <1>2, RouteEffect
  <2>2. ASSUME lbSending' = lbSending
        PROVE  lbSending' = [lbSending EXCEPT !["publish"] = NoMessage]
    BY <2>2, <1>1 DEF MeshTyped
  <2>3. NoMessage \in [id : LbMessages \cup {"none"}, left : Nat]
    BY DEF NoMessage
  <2> QED BY <1>1, <1>2, <2>1, <2>2, <2>3, RouteEffect
<1>4. PICK x \in [id : LbMessages \cup {"none"}, left : Nat] :
        /\ x = NoMessage \/ (x.id = m /\ x.left = NextHops /\ x.left > 0)
        /\ lbSending' = [lbSending EXCEPT !["publish"] = x]
  BY <1>3
<1>5. \A k \in LbMessages : Left(x, k) \in Nat /\ Left(x, k) <= (IF k = m THEN NextHops ELSE 0)
  BY <1>4, HopsCounted DEF Left, NoMessage
<1>6. /\ lbSending' \in [LbCaller -> [id : LbMessages \cup {"none"}, left : Nat]]
      /\ \A c \in LbCaller : lbSending'[c] = NoMessage \/ (lbSending'[c].id \in LbMessages /\ lbSending'[c].left > 0)
      /\ \A k \in LbMessages : Load(lbCopies, lbSending', k) = Load(lbCopies, lbSending, k) + Left(x, k)
  BY <1>1, <1>2, <1>4, LoadAdded
<1>7. DOMAIN lbHops' = DOMAIN lbHops \cup {m} /\ lbHops'[m] = NextHops /\ \A h \in DOMAIN lbHops : lbHops'[h] = lbHops[h]
  BY <1>1
<1>8. MeshTyped'
  <2>1. lbHops' \in [DOMAIN lbHops' -> Nat]
    BY <1>1, HopsCounted DEF MeshTyped
  <2>2. lbCopies' \in [LbMessages -> Nat]
    BY <1>1 DEF MeshTyped
  <2>3. DOMAIN lbHops' \subseteq LbMessages /\ DOMAIN lbPending' \subseteq DOMAIN lbHops' /\ lbRetrying' \subseteq DOMAIN lbHops'
    BY <1>1, <1>7 DEF MeshTyped
  <2> QED BY <1>3, <1>6, <2>1, <2>2, <2>3 DEF MeshTyped
<1>9. \A k \in DOMAIN lbHops' : k \in ToSet(lbIds') \cup lbForgotten'
  BY <1>3, <1>7 DEF MeshOnce
<1>10. \A k \in LbMessages \ DOMAIN lbHops' : Load(lbCopies', lbSending', k) = 0
  <2> TAKE k \in LbMessages \ DOMAIN lbHops'
  <2>1. k # m /\ k \notin DOMAIN lbHops
    BY <1>7
  <2>2. Load(lbCopies, lbSending, k) = 0 /\ Left(x, k) = 0
    BY <2>1, <1>5 DEF MeshOnce
  <2> QED BY <2>2, <1>1, <1>6
<1>11. \A k \in DOMAIN lbHops' \ lbForgotten' : Load(lbCopies', lbSending', k) <= lbHops'[k]
  <2> TAKE k \in DOMAIN lbHops' \ lbForgotten'
  <2>1. k \in LbMessages /\ Load(lbCopies', lbSending', k) = Load(lbCopies, lbSending, k) + Left(x, k)
    BY <1>1, <1>6, <1>7 DEF MeshTyped
  <2>2. Load(lbCopies, lbSending, k) \in Nat /\ Left(x, k) \in Nat
    BY <2>1, <1>5, LoadTyped
  <2>3. CASE k = m
    BY <2>1, <2>2, <2>3, <1>1, <1>5, <1>7, HopsCounted DEF MeshOnce
  <2>4. CASE k # m
    <3>1. k \in DOMAIN lbHops \ lbForgotten /\ lbHops'[k] = lbHops[k]
      BY <2>4, <1>3, <1>7
    <3>2. Left(x, k) = 0 /\ Load(lbCopies, lbSending, k) <= lbHops[k]
      BY <3>1, <2>1, <2>4, <1>5 DEF MeshOnce
    <3> QED BY <3>1, <3>2, <2>1, <2>2
  <2> QED BY <2>3, <2>4
<1> QED BY <1>8, <1>9, <1>10, <1>11 DEF MeshOnce

(* A retry is routed only when the cache has lost its id.                   *)
LEMMA RetryKeeps ==
  ASSUME MeshTyped, MeshOnce, NEW m \in LbMessages, RouteRetry(m)
  PROVE  MeshTyped' /\ MeshOnce'
<1>1. /\ m \in DOMAIN lbHops /\ lbSending["retry"] = NoMessage /\ Route("retry", m)
      /\ lbRetrying' \subseteq lbRetrying /\ lbPending' = lbPending /\ lbCopies' = lbCopies /\ lbHops' = lbHops
  BY DEF RouteRetry, MeshTyped
<1>2. lbIds \in Seq(LbMessages) /\ "retry" \in LbCaller
  BY DEF MeshTyped, LbCaller
<1>3. /\ lbIds' \in Seq(LbMessages)
      /\ ToSet(lbIds) \subseteq ToSet(lbIds') \cup lbForgotten' /\ lbForgotten \subseteq lbForgotten'
      /\ \/ lbSending' = lbSending
         \/ /\ m \notin ToSet(lbIds)
            /\ \E x \in [id : LbMessages \cup {"none"}, left : Nat] :
                 /\ x = NoMessage \/ (x.id = m /\ x.left = NextHops /\ x.left > 0)
                 /\ lbSending' = [lbSending EXCEPT !["retry"] = x]
  BY <1>1, <1>2, RouteEffect
<1>4. \A k \in DOMAIN lbHops' : k \in ToSet(lbIds') \cup lbForgotten'
  BY <1>1, <1>3 DEF MeshOnce
<1>5. CASE lbSending' = lbSending
  <2>1. MeshTyped'
    BY <1>1, <1>3, <1>5 DEF MeshTyped
  <2> QED BY <2>1, <1>1, <1>3, <1>4, <1>5 DEF MeshOnce
<1>6. CASE m \notin ToSet(lbIds) /\
           \E x \in [id : LbMessages \cup {"none"}, left : Nat] :
             /\ x = NoMessage \/ (x.id = m /\ x.left = NextHops /\ x.left > 0)
             /\ lbSending' = [lbSending EXCEPT !["retry"] = x]
  <2>1. PICK x \in [id : LbMessages \cup {"none"}, left : Nat] :
          /\ x = NoMessage \/ (x.id = m /\ x.left = NextHops /\ x.left > 0)
          /\ lbSending' = [lbSending EXCEPT !["retry"] = x]
    BY <1>6
  <2>2. m \in lbForgotten
    BY <1>1, <1>6 DEF MeshOnce
  <2>3. \A k \in LbMessages : k # m => Left(x, k) = 0
    BY <2>1 DEF Left, NoMessage
  <2>4. /\ lbSending' \in [LbCaller -> [id : LbMessages \cup {"none"}, left : Nat]]
        /\ \A c \in LbCaller : lbSending'[c] = NoMessage \/ (lbSending'[c].id \in LbMessages /\ lbSending'[c].left > 0)
        /\ \A k \in LbMessages : Load(lbCopies, lbSending', k) = Load(lbCopies, lbSending, k) + Left(x, k)
    BY <1>1, <1>2, <2>1, LoadAdded
  <2>5. MeshTyped'
    BY <1>1, <1>3, <2>4 DEF MeshTyped
  <2>6. \A k \in LbMessages : k # m => Load(lbCopies', lbSending', k) = Load(lbCopies, lbSending, k)
    BY <1>1, <2>3, <2>4, LoadTyped
  <2>7. \A k \in LbMessages \ DOMAIN lbHops' : Load(lbCopies', lbSending', k) = 0
    BY <1>1, <2>6 DEF MeshOnce
  <2>8. \A k \in DOMAIN lbHops' \ lbForgotten' : Load(lbCopies', lbSending', k) <= lbHops'[k]
    BY <1>1, <1>3, <2>2, <2>6 DEF MeshOnce, MeshTyped
  <2> QED BY <1>4, <2>5, <2>7, <2>8 DEF MeshOnce
<1> QED BY <1>3, <1>5, <1>6

LEMMA MeshStepKeeps == MeshTyped /\ MeshOnce /\ [LbNext]_lbVars => MeshTyped' /\ MeshOnce'
<1> SUFFICES ASSUME MeshTyped, MeshOnce, [LbNext]_lbVars PROVE MeshTyped' /\ MeshOnce'
  OBVIOUS
<1>1. CASE \E m \in LbMessages, retried \in BOOLEAN : Publish(m, retried)
  BY <1>1, PublishKeeps
<1>2. ASSUME NEW due \in SUBSET DOMAIN lbPending, ProcessRetries(due) PROVE MeshTyped' /\ MeshOnce'
  <2>1. /\ lbRetrying' = due /\ DOMAIN lbPending' \subseteq DOMAIN lbPending
        /\ UNCHANGED <<lbIds, lbSending, lbCopies, lbHops, lbForgotten>>
    BY <1>2 DEF ProcessRetries
  <2>2. DOMAIN lbPending' \subseteq DOMAIN lbHops' /\ lbRetrying' \subseteq DOMAIN lbHops'
    BY <2>1 DEF MeshTyped
  <2> QED BY <2>1, <2>2 DEF MeshTyped, MeshOnce
<1>3. CASE \E m \in LbMessages : RouteRetry(m)
  BY <1>3, RetryKeeps
<1>4. ASSUME NEW caller \in LbCaller, SendCopy(caller) PROVE MeshTyped' /\ MeshOnce'
  <2>1. UNCHANGED <<lbIds, lbPending, lbRetrying, lbHops, lbForgotten>>
    BY <1>4 DEF SendCopy
  <2>2. \A k \in LbMessages : Load(lbCopies', lbSending', k) = Load(lbCopies, lbSending, k)
    BY <1>4, SendKeeps
  <2>3. MeshTyped'
    BY <1>4, <2>1, SendKeeps DEF MeshTyped
  <2> QED BY <2>1, <2>2, <2>3 DEF MeshOnce, MeshTyped
<1>5. CASE UNCHANGED <<lbIds, lbPending, lbRetrying, lbSending, lbCopies, lbHops, lbForgotten>>
  BY <1>5 DEF MeshTyped, MeshOnce
<1> QED BY <1>1, <1>2, <1>3, <1>4, <1>5 DEF LbNext, lbVars, UpdateNode

(* A retry never sends a message again while its id is in the cache, for    *)
(* any sizes of the cache and of the channel (UnsentStaysUnsent).          *)
THEOREM ServicesUnsentStaysUnsent == Spec => []UnsentStaysUnsent
<1>1. Init => MeshTyped /\ MeshOnce
  <2> SUFFICES ASSUME LbInit PROVE MeshTyped /\ MeshOnce
    BY DEF Init
  <2>1. lbIds = <<>> /\ DOMAIN lbPending = {} /\ lbRetrying = {} /\ DOMAIN lbHops = {} /\ lbHops = [m \in {} |-> 0]
    BY DEF LbInit
  <2>2. lbSending = [c \in LbCaller |-> NoMessage] /\ lbCopies = [m \in LbMessages |-> 0]
    BY DEF LbInit
  <2>3. \A m \in LbMessages : Load(lbCopies, lbSending, m) = 0
    BY <2>2 DEF Load, Left, NoMessage, LbCaller
  <2>4. MeshTyped
    BY <2>1, <2>2 DEF MeshTyped, NoMessage
  <2> QED BY <2>1, <2>3, <2>4 DEF MeshOnce
<1>2. MeshTyped /\ MeshOnce /\ [Next]_servicesVars => MeshTyped' /\ MeshOnce'
  BY UnitSteps, MeshStepKeeps
<1>3. MeshTyped /\ MeshOnce => UnsentStaysUnsent
  <2> SUFFICES ASSUME MeshTyped, MeshOnce, NEW m \in LbMessages, m \in DOMAIN lbHops, m \notin lbForgotten
               PROVE  lbCopies[m] <= lbHops[m]
    BY DEF UnsentStaysUnsent
  <2>1. \A c \in LbCaller : Left(lbSending[c], m) \in Nat
    BY DEF MeshTyped, Left
  <2>2. lbCopies[m] \in Nat /\ lbHops[m] \in Nat /\ Load(lbCopies, lbSending, m) <= lbHops[m]
    BY DEF MeshTyped, MeshOnce
  <2> QED BY <2>1, <2>2 DEF Load, LbCaller
<1> QED BY <1>1, <1>2, <1>3, PTL DEF Spec

-----------------------------------------------------------------------------
(* The handle loses, repeats and invents nothing.                          *)

InHand == hlTask \in {"routed", "registered"}
(* How many of the items heard have been entered in the registry.           *)
Entered == IF hlTask = "registered" THEN Len(hlHeard) ELSE Len(hlSent)
FramesTo(heard, n) == {k \in 1..n : heard[k] # Lora}
DevicesOf(heard, items) == {heard[k] : k \in items}

(* The sender follows the task; items are sent in the order they were       *)
(* heard, and only the task's own may be missing.                          *)
HandleTask ==
  /\ hlTask \in {"none", "polling", "routed", "registered", "ended"}
  /\ hlSender = IF hlTask = "none" THEN "handle" ELSE IF hlTask = "ended" THEN "dropped" ELSE "task"
  /\ hlTask = "ended" => hlAborted
  /\ hlHeard \in Seq(HlDevices \cup {Lora}) /\ hlSent \in Seq(Nat)
  /\ \A i \in 1..Len(hlSent) : hlSent[i] = i
  /\ IF InHand THEN Len(hlHeard) = Len(hlSent) + 1 /\ hlItem = [from |-> hlHeard[Len(hlHeard)], n |-> Len(hlHeard)]
               ELSE hlItem = Nobody /\ Len(hlHeard) - Len(hlSent) \in {0, 1}
  /\ hlTask \in {"none", "polling"} => Len(hlHeard) = Len(hlSent)
  /\ hlTask = "none" => Len(hlHeard) = 0 /\ ~hlCallback.copied

HandleRegistry ==
  /\ hlDevices \subseteq DevicesOf(hlHeard, FramesTo(hlHeard, Entered))
  /\ hlCalled = IF hlCallback.copied THEN FramesTo(hlHeard, Len(hlSent)) ELSE {}

HandleChannel ==
  /\ hlTaken \in Seq([n : Nat, given : BOOLEAN]) /\ hlChannel \in Seq([from : HlDevices \cup {Lora}, n : Nat])
  /\ Len(hlTaken) + Len(hlChannel) = Len(hlSent)
  /\ \A i \in 1..Len(hlTaken) : hlTaken[i].n = i /\ (~hlTaken[i].given => hlHeard[i] = Lora)
  /\ \A i \in 1..Len(hlChannel) :
       hlChannel[i] = [from |-> hlHeard[Len(hlTaken) + i], n |-> Len(hlTaken) + i]

CallTold == {"none", "Ok", "Err", "list", "item", "timeout", "closed"}
HandleCall ==
  /\ hlCall \in [name : {"none", "scan", "item", "frame"}, told : CallTold, since : Nat,
                 list : SUBSET (HlDevices \cup {Lora})]
  /\ hlCall.told = "closed" => hlTask = "ended" /\ hlChannel = <<>>

(* The devices of the items that came at or after a scan's beginning.       *)
Since(heard, n) == DevicesOf(heard, {k \in FramesTo(heard, Len(heard)) : k >= n})

HandleScan ==
  /\ hlCall.name = "scan" =>
       /\ hlCall.since <= Len(hlHeard)
       /\ \A k \in FramesTo(hlHeard, Entered) : k > hlCall.since => hlHeard[k] \in hlDevices
       /\ hlDevices \subseteq Since(hlHeard, hlCall.since)
  /\ hlCall.told = "list" => hlCall.list \subseteq Since(hlHeard, hlCall.since)

(* What each step of the task does to what was heard and sent.              *)
LEMMA PollEffect ==
  ASSUME HandleTask, NEW from \in HlDevices \cup {Lora}, PollYields(from)
  PROVE  /\ hlTask = "polling" /\ hlTask' = "routed"
         /\ hlHeard' \in Seq(HlDevices \cup {Lora}) /\ Len(hlHeard') = Len(hlHeard) + 1
         /\ Len(hlHeard) \in Nat /\ Len(hlSent) = Len(hlHeard)
         /\ \A k \in 1..Len(hlHeard) : hlHeard'[k] = hlHeard[k]
         /\ hlItem' = [from |-> hlHeard'[Len(hlHeard')], n |-> Len(hlHeard')]
         /\ UNCHANGED <<hlSender, hlCallback, hlDevices, hlChannel, hlSent, hlCalled, hlCall, hlAborted, hlTaken>>
<1>1. /\ hlTask = "polling" /\ hlTask' = "routed" /\ hlHeard' = Append(hlHeard, from)
      /\ hlItem' = [from |-> from, n |-> Len(hlHeard) + 1]
      /\ UNCHANGED <<hlSender, hlCallback, hlDevices, hlChannel, hlSent, hlCalled, hlCall, hlAborted, hlTaken>>
  BY DEF PollYields, hlOwn
<1>2. hlHeard \in Seq(HlDevices \cup {Lora}) /\ Len(hlSent) = Len(hlHeard) /\ Len(hlHeard) \in Nat
  BY <1>1 DEF HandleTask
<1>3. Len(hlHeard') = Len(hlHeard) + 1 /\ hlHeard'[Len(hlHeard) + 1] = from
  BY <1>1, <1>2
<1>4. hlHeard' \in Seq(HlDevices \cup {Lora})
  BY <1>1, <1>2
<1>5. \A k \in 1..Len(hlHeard) : hlHeard'[k] = hlHeard[k]
  BY <1>1, <1>2
<1> QED BY <1>1, <1>2, <1>3, <1>4, <1>5

LEMMA SendEffect ==
  ASSUME HandleTask, CallbackAndSend
  PROVE  /\ hlTask = "registered" /\ hlTask' = "polling" /\ hlItem' = Nobody
         /\ Len(hlSent) \in Nat /\ hlItem.n = Len(hlSent) + 1 /\ Len(hlHeard) = Len(hlSent) + 1
         /\ hlItem = [from |-> hlHeard[Len(hlHeard)], n |-> Len(hlHeard)]
         /\ hlSent' \in Seq(Nat) /\ Len(hlSent') = Len(hlSent) + 1
         /\ \A i \in 1..Len(hlSent') : hlSent'[i] = i
         /\ UNCHANGED <<hlSender, hlCallback, hlDevices, hlHeard, hlCall, hlAborted, hlTaken>>
<1>1. /\ hlTask = "registered" /\ hlTask' = "polling" /\ hlItem' = Nobody
      /\ hlSent' = Append(hlSent, hlItem.n)
      /\ UNCHANGED <<hlSender, hlCallback, hlDevices, hlHeard, hlCall, hlAborted, hlTaken>>
  BY DEF CallbackAndSend, hlOwn
<1>2. hlSent \in Seq(Nat) /\ hlHeard \in Seq(HlDevices \cup {Lora}) /\ \A i \in 1..Len(hlSent) : hlSent[i] = i
  BY DEF HandleTask
<1>3. Len(hlSent) \in Nat /\ Len(hlHeard) = Len(hlSent) + 1 /\ hlItem = [from |-> hlHeard[Len(hlHeard)], n |-> Len(hlHeard)]
  BY <1>1, <1>2 DEF HandleTask, InHand
<1>4. hlItem.n = Len(hlSent) + 1
  BY <1>3
<1>5. hlSent' \in Seq(Nat) /\ Len(hlSent') = Len(hlSent) + 1
  BY <1>1, <1>2, <1>3, <1>4
<1>6. \A i \in 1..Len(hlSent') : hlSent'[i] = i
  BY <1>1, <1>2, <1>3, <1>4
<1> QED BY <1>1, <1>3, <1>4, <1>5, <1>6

(* The owner's calls leave the task alone, start it, or stop it.            *)
OwnerLeavesTask == UNCHANGED <<hlSender, hlTask, hlItem, hlHeard, hlSent, hlCalled>>

LEMMA StartEffect ==
  ASSUME HandleTask, NEW call, Starts(call), UNCHANGED <<hlItem, hlHeard, hlSent, hlCalled>>
  PROVE  hlTask = "none" /\ hlTask' = "polling" /\ hlSender' = "task" /\ hlCall' = call
BY DEF HandleTask, Starts

LEMMA TaskStep == HandleTask /\ [HlNext]_hlVars => HandleTask'
<1> SUFFICES ASSUME HandleTask, [HlNext]_hlVars PROVE HandleTask'
  OBVIOUS
<1>1. ASSUME NEW from \in HlDevices \cup {Lora}, PollYields(from) PROVE HandleTask'
  <2>1. hlTask = "polling" /\ hlSender = "task" /\ hlSent \in Seq(Nat) /\ \A i \in 1..Len(hlSent) : hlSent[i] = i
    BY <1>1, PollEffect DEF HandleTask
  <2> QED BY <1>1, <2>1, PollEffect DEF HandleTask, InHand
<1>2. CASE Register
  BY <1>2 DEF HandleTask, Register, InHand, hlOwn
<1>3. CASE CallbackAndSend
  <2>1. hlSender = "task" /\ hlHeard \in Seq(HlDevices \cup {Lora})
    BY <1>3, SendEffect DEF HandleTask
  <2> QED BY <1>3, <2>1, SendEffect DEF HandleTask, InHand
<1>4. CASE TaskEnds
  <2>1. hlAborted' /\ hlTask \in {"polling", "routed"} /\ hlTask' = "ended" /\ hlSender' = "dropped" /\ hlItem' = Nobody
        /\ UNCHANGED <<hlCallback, hlHeard, hlSent>>
    BY <1>4 DEF TaskEnds, Awaits, hlOwn
  <2>2. hlHeard \in Seq(HlDevices \cup {Lora}) /\ hlSent \in Seq(Nat) /\ (\A i \in 1..Len(hlSent) : hlSent[i] = i)
        /\ Len(hlHeard) \in Nat /\ Len(hlSent) \in Nat
    BY DEF HandleTask
  <2>3. Len(hlHeard) - Len(hlSent) \in {0, 1}
    BY <2>1, <2>2 DEF HandleTask, InHand
  <2> QED BY <2>1, <2>2, <2>3 DEF HandleTask, InHand
<1>5. ASSUME NEW call, Starts(call), UNCHANGED <<hlItem, hlHeard, hlSent, hlCalled, hlAborted>> PROVE HandleTask'
  BY <1>5, StartEffect DEF HandleTask, InHand
<1>6. ASSUME OwnerLeavesTask, UNCHANGED hlCallback.copied, hlAborted => hlAborted' PROVE HandleTask'
  BY <1>6 DEF OwnerLeavesTask, HandleTask, InHand
<1>7. CASE StartReceiver
  BY <1>7, <1>5, <1>6 DEF StartReceiver, OwnerLeavesTask, Task
<1>8. CASE StopReceiver
  <2>1. hlAborted => hlAborted'
    BY <1>8, Zenon DEF StopReceiver
  <2> QED BY <1>8, <2>1, <1>6 DEF StopReceiver, OwnerLeavesTask, Task
<1>9. CASE RegisterCallback
  BY <1>9, <1>6 DEF RegisterCallback, OwnerLeavesTask, Task
<1>10. CASE ScanDevices
  BY <1>10, <1>5, <1>6 DEF ScanDevices, OwnerLeavesTask, Task
<1>11. CASE ScanEnds \/ (\E name \in {"item", "frame"} : Receive(name)) \/ ItemArrives \/ ReceiveEnds \/ UNCHANGED hlVars
  BY <1>11, <1>6 DEF ScanEnds, Receive, ItemArrives, ReceiveEnds, hlVars, OwnerLeavesTask, Task
<1> QED BY <1>1, <1>2, <1>3, <1>4, <1>7, <1>8, <1>9, <1>10, <1>11 DEF HlNext

LEMMA EnteredHeard ==
  ASSUME HandleTask
  PROVE  Entered \in Nat /\ Entered <= Len(hlHeard) /\ Len(hlHeard) \in Nat /\ Len(hlSent) \in Nat
<1>1. Len(hlHeard) \in Nat /\ Len(hlSent) \in Nat
  BY DEF HandleTask
<1> QED BY <1>1 DEF HandleTask, Entered, InHand

(* What was heard stays where it is when more is heard.                     *)
LEMMA FramesStay ==
  ASSUME NEW heard, NEW more, NEW n \in Nat, \A k \in 1..n : more[k] = heard[k]
  PROVE  /\ FramesTo(more, n) = FramesTo(heard, n)
         /\ DevicesOf(more, FramesTo(more, n)) = DevicesOf(heard, FramesTo(heard, n))
<1>1. FramesTo(more, n) = FramesTo(heard, n)
  BY DEF FramesTo
<1>2. \A k \in FramesTo(heard, n) : more[k] = heard[k]
  BY DEF FramesTo
<1> QED BY <1>1, <1>2 DEF DevicesOf

LEMMA RegistryStep == HandleTask /\ HandleRegistry /\ [HlNext]_hlVars => HandleRegistry'
<1> SUFFICES ASSUME HandleTask, HandleRegistry, [HlNext]_hlVars PROVE HandleRegistry'
  OBVIOUS
<1>1. ASSUME NEW from \in HlDevices \cup {Lora}, PollYields(from) PROVE HandleRegistry'
  <2>1. Entered' = Len(hlSent) /\ Entered = Len(hlSent) /\ Len(hlSent) \in Nat
    BY <1>1, PollEffect DEF Entered
  <2>2. \A k \in 1..Len(hlSent) : hlHeard'[k] = hlHeard[k]
    BY <1>1, PollEffect
  <2>3. /\ FramesTo(hlHeard', Len(hlSent)) = FramesTo(hlHeard, Len(hlSent))
        /\ DevicesOf(hlHeard', FramesTo(hlHeard', Len(hlSent))) = DevicesOf(hlHeard, FramesTo(hlHeard, Len(hlSent)))
    BY <2>1, <2>2, FramesStay
  <2> QED BY <1>1, <2>1, <2>3, PollEffect DEF HandleRegistry
<1>2. CASE Register
  <2>1. /\ hlTask = "routed" /\ hlTask' = "registered" /\ UNCHANGED <<hlHeard, hlSent, hlCallback, hlCalled>>
        /\ hlDevices' = IF hlItem.from = Lora THEN hlDevices ELSE hlDevices \cup {hlItem.from}
    BY <1>2 DEF Register, hlOwn
  <2>2. Len(hlHeard) = Len(hlSent) + 1 /\ hlItem.from = hlHeard[Len(hlHeard)] /\ Len(hlSent) \in Nat
    BY <2>1 DEF HandleTask, InHand
  <2>3. Entered = Len(hlSent) /\ Entered' = Len(hlHeard)
    BY <2>1 DEF Entered
  <2>4. FramesTo(hlHeard, Len(hlSent)) \subseteq FramesTo(hlHeard, Len(hlHeard))
    BY <2>2 DEF FramesTo
  <2>5. hlItem.from # Lora => Len(hlHeard) \in FramesTo(hlHeard, Len(hlHeard))
    BY <2>2 DEF FramesTo
  <2> QED BY <2>1, <2>2, <2>3, <2>4, <2>5 DEF HandleRegistry, DevicesOf
<1>3. CASE CallbackAndSend
  <2>1. Entered = Len(hlHeard) /\ Entered' = Len(hlHeard) /\ Len(hlSent') = Len(hlHeard) /\ hlDevices' = hlDevices
        /\ hlHeard' = hlHeard /\ hlCallback' = hlCallback
    BY <1>3, SendEffect DEF Entered
  <2>2. hlCalled' = IF hlCallback.copied /\ hlItem.from # Lora THEN hlCalled \cup {hlItem.n} ELSE hlCalled
    BY <1>3 DEF CallbackAndSend
  <2>3. hlItem.from = hlHeard[Len(hlHeard)] /\ hlItem.n = Len(hlHeard) /\ Len(hlHeard) = Len(hlSent) + 1 /\ Len(hlSent) \in Nat
    BY <1>3, SendEffect
  <2>4. FramesTo(hlHeard, Len(hlHeard)) =
          IF hlItem.from = Lora THEN FramesTo(hlHeard, Len(hlSent)) ELSE FramesTo(hlHeard, Len(hlSent)) \cup {Len(hlHeard)}
    BY <2>3 DEF FramesTo
  <2> QED BY <2>1, <2>2, <2>3, <2>4 DEF HandleRegistry
<1>4. CASE TaskEnds
  <2>1. Entered' = Entered /\ UNCHANGED <<hlHeard, hlSent, hlDevices, hlCallback, hlCalled>>
    BY <1>4 DEF TaskEnds, Awaits, Entered, hlOwn
  <2> QED BY <2>1 DEF HandleRegistry
<1>5. ASSUME NEW call, Starts(call), UNCHANGED <<hlItem, hlHeard, hlSent, hlCalled>>, hlDevices' \subseteq hlDevices
      PROVE  HandleRegistry'
  <2>1. hlTask = "none" /\ Entered' = Entered /\ Len(hlSent) = 0 /\ ~hlCallback.copied
    BY <1>5, StartEffect DEF Entered, HandleTask
  <2>2. FramesTo(hlHeard, Len(hlSent)) = {}
    BY <2>1 DEF FramesTo
  <2> QED BY <1>5, <2>1, <2>2 DEF HandleRegistry
<1>6. ASSUME OwnerLeavesTask, UNCHANGED hlCallback.copied, hlDevices' \subseteq hlDevices PROVE HandleRegistry'
  BY <1>6 DEF OwnerLeavesTask, HandleRegistry, Entered
<1>7. CASE StartReceiver
  BY <1>7, <1>5, <1>6 DEF StartReceiver, OwnerLeavesTask, Task
<1>8. CASE StopReceiver
  BY <1>8, <1>6 DEF StopReceiver, OwnerLeavesTask, Task
<1>11. CASE RegisterCallback
  BY <1>11, <1>6 DEF RegisterCallback, OwnerLeavesTask, Task
<1>9. CASE ScanDevices
  BY <1>9, <1>5, <1>6 DEF ScanDevices, OwnerLeavesTask, Task
<1>10. CASE ScanEnds \/ (\E name \in {"item", "frame"} : Receive(name)) \/ ItemArrives \/ ReceiveEnds \/ UNCHANGED hlVars
  BY <1>10, <1>6 DEF ScanEnds, Receive, ItemArrives, ReceiveEnds, hlVars, OwnerLeavesTask, Task
<1> QED BY <1>1, <1>2, <1>3, <1>4, <1>7, <1>8, <1>9, <1>10, <1>11 DEF HlNext

LEMMA NonEmpty ==
  ASSUME NEW S, NEW s \in Seq(S), s # <<>>
  PROVE  Len(s) > 0 /\ Head(s) = s[1] /\ s[1] \in S
<1>1. Len(s) \in Nat /\ Len(s) > 0
  OBVIOUS
<1> QED BY <1>1

LEMMA ChannelStep == HandleTask /\ HandleChannel /\ [HlNext]_hlVars => HandleChannel'
<1> SUFFICES ASSUME HandleTask, HandleChannel, [HlNext]_hlVars PROVE HandleChannel'
  OBVIOUS
<1> DEFINE Item == [from : HlDevices \cup {Lora}, n : Nat]
<1>0. /\ hlTaken \in Seq([n : Nat, given : BOOLEAN]) /\ hlChannel \in Seq(Item)
      /\ Len(hlTaken) \in Nat /\ Len(hlChannel) \in Nat
      /\ hlSent \in Seq(Nat) /\ hlHeard \in Seq(HlDevices \cup {Lora}) /\ Len(hlSent) \in Nat /\ Len(hlHeard) \in Nat
  BY DEF HandleChannel, HandleTask
<1>1. ASSUME NEW from \in HlDevices \cup {Lora}, PollYields(from) PROVE HandleChannel'
  <2>1. UNCHANGED <<hlTaken, hlChannel, hlSent>> /\ \A k \in 1..Len(hlSent) : hlHeard'[k] = hlHeard[k]
    BY <1>1, PollEffect
  <2>2. \A i \in 1..Len(hlTaken) : hlHeard'[i] = hlHeard[i]
    BY <2>1, <1>0 DEF HandleChannel
  <2>3. \A i \in 1..Len(hlChannel) : hlHeard'[Len(hlTaken) + i] = hlHeard[Len(hlTaken) + i]
    BY <2>1, <1>0 DEF HandleChannel
  <2> QED BY <2>1, <2>2, <2>3 DEF HandleChannel
<1>2. CASE CallbackAndSend
  <2>1. hlChannel' = Append(hlChannel, hlItem)
    BY <1>2 DEF CallbackAndSend
  <2>2. /\ UNCHANGED <<hlTaken, hlHeard>> /\ Len(hlSent') = Len(hlSent) + 1
        /\ Len(hlHeard) = Len(hlSent) + 1
        /\ hlItem = [from |-> hlHeard[Len(hlHeard)], n |-> Len(hlHeard)]
    BY <1>2, SendEffect
  <2>3. hlItem \in Item
    BY <2>2, <1>0
  <2>4. hlChannel' \in Seq(Item) /\ Len(hlChannel') = Len(hlChannel) + 1
    BY <2>1, <2>3, <1>0
  <2>5. hlChannel'[Len(hlChannel) + 1] = hlItem /\ \A i \in 1..Len(hlChannel) : hlChannel'[i] = hlChannel[i]
    BY <2>1, <2>3, <1>0
  <2>6. Len(hlHeard) = Len(hlTaken) + (Len(hlChannel) + 1)
    BY <2>2, <1>0 DEF HandleChannel
  <2>7. \A i \in 1..Len(hlChannel') : hlChannel'[i] = [from |-> hlHeard[Len(hlTaken) + i], n |-> Len(hlTaken) + i]
    <3> TAKE i \in 1..Len(hlChannel')
    <3>1. CASE i = Len(hlChannel) + 1
      BY <3>1, <2>2, <2>5, <2>6
    <3>2. CASE i # Len(hlChannel) + 1
      <4>1. i \in 1..Len(hlChannel)
        BY <3>2, <2>4, <1>0
      <4> QED BY <4>1, <2>5 DEF HandleChannel
    <3> QED BY <3>1, <3>2
  <2>8. Len(hlTaken') + Len(hlChannel') = Len(hlSent')
    BY <2>2, <2>4, <1>0 DEF HandleChannel
  <2> QED BY <2>2, <2>4, <2>7, <2>8 DEF HandleChannel
<1>3. CASE ItemArrives
  <2> DEFINE item == Head(hlChannel)
             took == [n |-> item.n, given |-> ~SkippedLora(hlCall, item)]
  <2>1. /\ hlChannel # <<>> /\ hlTaken' = Append(hlTaken, took) /\ hlChannel' = Tail(hlChannel)
        /\ UNCHANGED <<hlSent, hlHeard>>
    BY <1>3 DEF ItemArrives, Task
  <2>2. Len(hlChannel) > 0 /\ item = hlChannel[1] /\ item \in Item
    BY <2>1, <1>0, NonEmpty
  <2>3. item = [from |-> hlHeard[Len(hlTaken) + 1], n |-> Len(hlTaken) + 1]
    <3>1. 1 \in 1..Len(hlChannel)
      BY <2>2, <1>0
    <3> QED BY <3>1, <2>2 DEF HandleChannel
  <2>4. took.n = Len(hlTaken) + 1 /\ (~took.given => hlHeard[Len(hlTaken) + 1] = Lora)
    <3>1. item.n = Len(hlTaken) + 1 /\ item.from = hlHeard[Len(hlTaken) + 1]
      BY <2>3
    <3>2. took.given = ~SkippedLora(hlCall, item) /\ took.n = item.n
      OBVIOUS
    <3>3. ~took.given => SkippedLora(hlCall, item)
      BY <3>2, Zenon
    <3>4. SkippedLora(hlCall, item) => item.from = Lora
      BY DEF SkippedLora
    <3> HIDE DEF took, item
    <3> QED BY <3>1, <3>2, <3>3, <3>4
  <2>5. took \in [n : Nat, given : BOOLEAN]
    <3>1. SkippedLora(hlCall, item) \in BOOLEAN
      BY DEF SkippedLora
    <3>2. item.n \in Nat
      BY <2>2
    <3> QED BY <3>1, <3>2
  <2> HIDE DEF item, took
  <2>6. hlTaken' \in Seq([n : Nat, given : BOOLEAN]) /\ Len(hlTaken') = Len(hlTaken) + 1
    BY <2>1, <2>5, <1>0
  <2>7. hlTaken'[Len(hlTaken) + 1] = took /\ \A i \in 1..Len(hlTaken) : hlTaken'[i] = hlTaken[i]
    BY <2>1, <2>5, <1>0
  <2>8. hlChannel' \in Seq(Item) /\ Len(hlChannel') = Len(hlChannel) - 1
    BY <2>1, <2>2, <1>0
  <2>9. \A i \in 1..Len(hlChannel') : hlChannel'[i] = hlChannel[i + 1] /\ i + 1 \in 1..Len(hlChannel)
    BY <2>1, <2>2, <2>8, <1>0
  <2>10. \A i \in 1..Len(hlTaken') : hlTaken'[i].n = i /\ (~hlTaken'[i].given => hlHeard[i] = Lora)
    <3> TAKE i \in 1..Len(hlTaken')
    <3>1. CASE i = Len(hlTaken) + 1
      BY <3>1, <2>4, <2>7
    <3>2. CASE i # Len(hlTaken) + 1
      <4>1. i \in 1..Len(hlTaken)
        BY <3>2, <2>6, <1>0
      <4>2. hlTaken[i].n = i /\ (~hlTaken[i].given => hlHeard[i] = Lora)
        BY <4>1 DEF HandleChannel
      <4>3. hlTaken'[i] = hlTaken[i]
        BY <4>1, <2>7
      <4> QED BY <4>2, <4>3
    <3> QED BY <3>1, <3>2
  <2>11. \A i \in 1..Len(hlChannel') : hlChannel'[i] = [from |-> hlHeard[Len(hlTaken') + i], n |-> Len(hlTaken') + i]
    <3> TAKE i \in 1..Len(hlChannel')
    <3>1. hlChannel'[i] = [from |-> hlHeard[Len(hlTaken) + (i + 1)], n |-> Len(hlTaken) + (i + 1)]
      BY <2>9 DEF HandleChannel
    <3>2. Len(hlTaken) + (i + 1) = Len(hlTaken') + i
      BY <2>6, <1>0
    <3> QED BY <3>1, <3>2
  <2>12. Len(hlTaken') + Len(hlChannel') = Len(hlSent')
    BY <2>1, <2>6, <2>8, <1>0 DEF HandleChannel
  <2> QED BY <2>1, <2>6, <2>8, <2>10, <2>11, <2>12 DEF HandleChannel
<1>4. CASE UNCHANGED <<hlTaken, hlChannel, hlSent, hlHeard>>
  BY <1>4 DEF HandleChannel
<1>5. CASE Register \/ TaskEnds \/ StartReceiver \/ StopReceiver \/ RegisterCallback \/ ScanDevices
  BY <1>4, <1>5 DEF Register, TaskEnds, StartReceiver, StopReceiver, RegisterCallback, ScanDevices, Task, hlOwn
<1>6. CASE ScanEnds \/ (\E name \in {"item", "frame"} : Receive(name)) \/ ReceiveEnds \/ UNCHANGED hlVars
  BY <1>4, <1>6 DEF ScanEnds, Receive, ReceiveEnds, hlVars, Task
<1> QED BY <1>1, <1>2, <1>3, <1>5, <1>6 DEF HlNext

LEMMA TellsWhat ==
  ASSUME HandleCall, NEW result \in CallTold
  PROVE  /\ Tells(result) \in [name : {"none", "scan", "item", "frame"}, told : CallTold, since : Nat,
                               list : SUBSET (HlDevices \cup {Lora})]
         /\ Tells(result).name = "none" /\ Tells(result).told = result
         /\ Tells(result).since = hlCall.since /\ Tells(result).list = hlCall.list
BY DEF HandleCall, Tells, CallTold

LEMMA RegistryTyped ==
  ASSUME HandleTask, HandleRegistry
  PROVE  hlDevices \subseteq HlDevices \cup {Lora}
<1>1. Entered \in Nat /\ Entered <= Len(hlHeard) /\ Len(hlHeard) \in Nat
  BY EnteredHeard
<1>2. hlHeard \in Seq(HlDevices \cup {Lora})
  BY DEF HandleTask
<1>3. \A k \in 1..Len(hlHeard) : hlHeard[k] \in HlDevices \cup {Lora}
  BY <1>1, <1>2
<1>4. \A k \in FramesTo(hlHeard, Entered) : hlHeard[k] \in HlDevices \cup {Lora}
  BY <1>1, <1>3 DEF FramesTo
<1> QED BY <1>4 DEF HandleRegistry, DevicesOf

(* Once the end of the channel was told there is nothing more to come.      *)
LEMMA CallStep ==
  HandleTask /\ HandleRegistry /\ HandleChannel /\ HandleCall /\ [HlNext]_hlVars => HandleCall'
<1> SUFFICES ASSUME HandleTask, HandleRegistry, HandleChannel, HandleCall, [HlNext]_hlVars PROVE HandleCall'
  OBVIOUS
<1>1. CASE (\E from \in HlDevices \cup {Lora} : PollYields(from)) \/ Register \/ CallbackAndSend
  BY <1>1 DEF PollYields, Register, CallbackAndSend, hlOwn, HandleCall
<1>2. CASE TaskEnds
  BY <1>2 DEF TaskEnds, Awaits, hlOwn, HandleCall
<1>3. ASSUME NEW result \in CallTold \ {"closed"}, hlCall' = Tells(result) PROVE HandleCall'
  BY <1>3, TellsWhat DEF HandleCall
<1>4. CASE StartReceiver \/ StopReceiver \/ RegisterCallback
  <2>1. hlCall' = Tells("Ok") \/ hlCall' = Tells("Err")
    BY <1>4 DEF StartReceiver, StopReceiver, RegisterCallback, Starts
  <2> QED BY <2>1, <1>3 DEF CallTold
<1>5. CASE ScanDevices
  <2>1. hlCall' = [name |-> "scan", told |-> "none", since |-> Len(hlHeard), list |-> {}] \/ hlCall' = Tells("Err")
    BY <1>5 DEF ScanDevices, Starts
  <2>2. Len(hlHeard) \in Nat
    BY EnteredHeard
  <2> QED BY <2>1, <2>2, <1>3 DEF CallTold, HandleCall
<1>6. CASE ScanEnds
  <2>1. hlCall' = [hlCall EXCEPT !.name = "none", !.told = "list", !.list = hlDevices]
    BY <1>6 DEF ScanEnds
  <2>2. hlDevices \in SUBSET (HlDevices \cup {Lora}) /\ "list" \in CallTold /\ "none" \in {"none", "scan", "item", "frame"}
    BY RegistryTyped DEF CallTold
  <2>3. hlCall'.told = "list"
    BY <2>1 DEF HandleCall
  <2> QED BY <2>1, <2>2, <2>3 DEF HandleCall
<1>7. ASSUME NEW name \in {"item", "frame"}, Receive(name) PROVE HandleCall'
  BY <1>7 DEF Receive, Resting, HandleCall, CallTold
<1>8. CASE ItemArrives
  <2>1. hlCall' = hlCall \/ hlCall' = Tells("item")
    BY <1>8 DEF ItemArrives
  <2>2. hlChannel # <<>>
    BY <1>8 DEF ItemArrives
  <2>3. ASSUME hlCall' = hlCall PROVE HandleCall'
    BY <2>2, <2>3 DEF HandleCall
  <2> QED BY <2>1, <2>3, <1>3 DEF CallTold
<1>9. CASE ReceiveEnds
  <2>1. CASE hlCall' = Tells("timeout")
    BY <2>1, <1>3 DEF CallTold
  <2>2. CASE hlChannel = <<>> /\ hlSender = "dropped" /\ hlCall' = Tells("closed")
    <3>1. hlTask = "ended"
      BY <2>2 DEF HandleTask
    <3>2. UNCHANGED <<hlTask, hlChannel>>
      BY <1>9 DEF ReceiveEnds, Task
    <3>3. "closed" \in CallTold
      BY DEF CallTold
    <3> QED BY <2>2, <3>1, <3>2, <3>3, TellsWhat DEF HandleCall
  <2> QED BY <1>9, <2>1, <2>2 DEF ReceiveEnds
<1>10. CASE UNCHANGED hlVars
  BY <1>10 DEF hlVars, HandleCall
<1> QED BY <1>1, <1>2, <1>4, <1>5, <1>6, <1>7, <1>8, <1>9, <1>10 DEF HlNext

(* The devices since an item stay when more is heard.                       *)
LEMMA SinceGrows ==
  ASSUME NEW heard, NEW more, NEW n, Len(heard) \in Nat, Len(more) \in Nat, Len(heard) <= Len(more),
         \A k \in 1..Len(heard) : more[k] = heard[k]
  PROVE  Since(heard, n) \subseteq Since(more, n)
<1>1. \A k \in FramesTo(heard, Len(heard)) : k \in FramesTo(more, Len(more)) /\ more[k] = heard[k]
  BY DEF FramesTo
<1> QED BY <1>1 DEF Since, DevicesOf

LEMMA ScanStep ==
  HandleTask /\ HandleRegistry /\ HandleCall /\ HandleScan /\ [HlNext]_hlVars => HandleScan'
<1> SUFFICES ASSUME HandleTask, HandleRegistry, HandleCall, HandleScan, [HlNext]_hlVars PROVE HandleScan'
  OBVIOUS
<1>0. Entered \in Nat /\ Entered <= Len(hlHeard) /\ Len(hlHeard) \in Nat /\ Len(hlSent) \in Nat /\ hlCall.since \in Nat
  BY EnteredHeard DEF HandleCall
<1>1. ASSUME NEW from \in HlDevices \cup {Lora}, PollYields(from) PROVE HandleScan'
  <2>1. /\ hlCall' = hlCall /\ hlDevices' = hlDevices /\ Len(hlHeard') = Len(hlHeard) + 1
        /\ \A k \in 1..Len(hlHeard) : hlHeard'[k] = hlHeard[k]
    BY <1>1, PollEffect
  <2>2. Entered' = Entered
    BY <1>1, PollEffect DEF Entered
  <2>3. Since(hlHeard, hlCall.since) \subseteq Since(hlHeard', hlCall.since)
    BY <2>1, <1>0, SinceGrows
  <2>4. FramesTo(hlHeard', Entered) = FramesTo(hlHeard, Entered)
    BY <2>1, <1>0, FramesStay
  <2>5. \A k \in FramesTo(hlHeard, Entered) : hlHeard'[k] = hlHeard[k]
    BY <2>1, <1>0 DEF FramesTo
  <2> QED BY <2>1, <2>2, <2>3, <2>4, <2>5, <1>0 DEF HandleScan
<1>2. CASE Register
  <2>1. /\ hlTask = "routed" /\ hlTask' = "registered" /\ UNCHANGED <<hlHeard, hlSent, hlCall>>
        /\ hlDevices' = IF hlItem.from = Lora THEN hlDevices ELSE hlDevices \cup {hlItem.from}
    BY <1>2 DEF Register, hlOwn
  <2>2. Len(hlHeard) = Len(hlSent) + 1 /\ hlItem.from = hlHeard[Len(hlHeard)]
    BY <2>1 DEF HandleTask, InHand
  <2>3. Entered = Len(hlSent) /\ Entered' = Len(hlHeard)
    BY <2>1 DEF Entered
  <2>4. FramesTo(hlHeard, Len(hlHeard)) \subseteq FramesTo(hlHeard, Len(hlSent)) \cup {Len(hlHeard)}
    BY <2>2, <1>0 DEF FramesTo
  <2>5. \A k \in FramesTo(hlHeard, Len(hlHeard)) : hlHeard[k] # Lora
    BY DEF FramesTo
  <2>6. ASSUME hlCall.name = "scan", hlItem.from # Lora PROVE hlItem.from \in Since(hlHeard, hlCall.since)
    <3>1. Len(hlHeard) \in {k \in FramesTo(hlHeard, Len(hlHeard)) : k >= hlCall.since}
      BY <2>2, <2>6, <1>0 DEF FramesTo, HandleScan
    <3> QED BY <3>1, <2>2 DEF Since, DevicesOf
  <2>7. ASSUME hlCall.name = "scan" PROVE hlDevices' \subseteq Since(hlHeard, hlCall.since)
    BY <2>1, <2>6, <2>7 DEF HandleScan
  <2>8. ASSUME hlCall.name = "scan", NEW k \in FramesTo(hlHeard, Len(hlHeard)), k > hlCall.since
        PROVE  hlHeard[k] \in hlDevices'
    <3>1. CASE k = Len(hlHeard)
      BY <3>1, <2>1, <2>2, <2>5
    <3>2. CASE k \in FramesTo(hlHeard, Len(hlSent))
      BY <3>2, <2>1, <2>3, <2>8 DEF HandleScan
    <3> QED BY <3>1, <3>2, <2>4
  <2> QED BY <2>1, <2>3, <2>7, <2>8 DEF HandleScan
<1>3. CASE CallbackAndSend
  <2>1. Entered' = Entered /\ UNCHANGED <<hlHeard, hlDevices, hlCall>>
    BY <1>3, SendEffect DEF Entered
  <2> QED BY <2>1 DEF HandleScan
<1>4. CASE TaskEnds
  <2>1. Entered' = Entered /\ UNCHANGED <<hlHeard, hlDevices, hlCall>>
    BY <1>4 DEF TaskEnds, Awaits, Entered, hlOwn
  <2> QED BY <2>1 DEF HandleScan
<1>5. ASSUME hlCall'.name # "scan", UNCHANGED hlHeard,
             hlCall'.told = "list" => hlCall'.list \subseteq Since(hlHeard, hlCall'.since)
      PROVE  HandleScan'
  BY <1>5 DEF HandleScan
<1>6. ASSUME NEW result \in CallTold \ {"list"}, hlCall' = Tells(result), UNCHANGED hlHeard PROVE HandleScan'
  BY <1>5, <1>6, TellsWhat
<1>7. CASE StartReceiver \/ StopReceiver \/ RegisterCallback
  <2>1. (hlCall' = Tells("Ok") \/ hlCall' = Tells("Err")) /\ hlHeard' = hlHeard
    BY <1>7 DEF StartReceiver, StopReceiver, RegisterCallback, Starts, Task
  <2> QED BY <2>1, <1>6 DEF CallTold
<1>8. CASE ScanDevices
  <2>1. hlDevices' = {} /\ hlHeard' = hlHeard
        /\ (hlCall' = [name |-> "scan", told |-> "none", since |-> Len(hlHeard), list |-> {}] \/ hlCall' = Tells("Err"))
    BY <1>8 DEF ScanDevices, Starts, Task
  <2>2. ASSUME hlCall' = [name |-> "scan", told |-> "none", since |-> Len(hlHeard), list |-> {}] PROVE HandleScan'
    <3>1. Entered' \in Nat /\ Entered' <= Len(hlHeard)
      <4>1. HandleTask'
        BY TaskStep
      <4>2. Len(hlHeard') \in Nat /\ Len(hlSent') \in Nat
        BY <4>1 DEF HandleTask
      <4> QED BY <4>1, <4>2, <2>1 DEF HandleTask, InHand, Entered
    <3>2. \A k \in FramesTo(hlHeard, Entered') : ~(k > Len(hlHeard))
      BY <3>1, <1>0 DEF FramesTo
    <3> QED BY <2>1, <2>2, <3>2, <1>0 DEF HandleScan
  <2> QED BY <2>1, <2>2, <1>6 DEF CallTold
<1>9. CASE ScanEnds
  <2>1. hlCall.name = "scan" /\ hlCall' = [hlCall EXCEPT !.name = "none", !.told = "list", !.list = hlDevices] /\ hlHeard' = hlHeard
    BY <1>9 DEF ScanEnds, Task
  <2>2. hlCall'.name = "none" /\ hlCall'.list = hlDevices /\ hlCall'.since = hlCall.since
    BY <2>1 DEF HandleCall
  <2> QED BY <2>1, <2>2, <1>5 DEF HandleScan
<1>10. ASSUME NEW name \in {"item", "frame"}, Receive(name) PROVE HandleScan'
  BY <1>10, <1>5 DEF Receive, Resting, Task
<1>11. ASSUME hlCall' = hlCall, hlDevices' = hlDevices, hlHeard' = hlHeard, Entered' = Entered PROVE HandleScan'
  BY <1>11 DEF HandleScan
<1>12. CASE ItemArrives
  <2>1. hlHeard' = hlHeard /\ hlDevices' = hlDevices /\ Entered' = Entered
        /\ (hlCall' = hlCall \/ hlCall' = Tells("item"))
    BY <1>12 DEF ItemArrives, Task, Entered
  <2> QED BY <2>1, <1>6, <1>11 DEF CallTold
<1>13. CASE ReceiveEnds
  <2>1. (hlCall' = Tells("timeout") \/ hlCall' = Tells("closed")) /\ hlHeard' = hlHeard
    BY <1>13 DEF ReceiveEnds, Task
  <2> QED BY <2>1, <1>6 DEF CallTold
<1>14. CASE UNCHANGED hlVars
  BY <1>14, <1>11 DEF hlVars, Entered
<1> QED BY <1>1, <1>2, <1>3, <1>4, <1>7, <1>8, <1>9, <1>10, <1>12, <1>13, <1>14 DEF HlNext

HandleInv == HandleTask /\ HandleRegistry /\ HandleChannel /\ HandleCall /\ HandleScan

LEMMA HandleYielded ==
  ASSUME HandleInv
  PROVE  YieldedIsSent /\ SentNow = 1..Len(hlSent)
<1>1. hlSent \in Seq(Nat) /\ Len(hlSent) \in Nat /\ Len(hlHeard) \in Nat /\ DOMAIN hlSent = 1..Len(hlSent)
      /\ \A i \in 1..Len(hlSent) : hlSent[i] = i
  BY DEF HandleInv, HandleTask
<1>2. hlSent = [i \in DOMAIN hlSent |-> i]
  BY <1>1
<1>3. SentNow = 1..Len(hlSent)
  BY <1>1 DEF SentNow
<1>4. LET missing == Len(hlHeard) - Len(hlSent) IN
      missing = 0 \/ (missing = 1 /\ hlTask \in {"routed", "registered", "ended"})
  BY <1>1 DEF HandleInv, HandleTask, InHand
<1>5. DevicesOf(hlHeard, FramesTo(hlHeard, Entered)) \subseteq {hlHeard[n] : n \in Framed(SentNow \cup ({hlItem.n} \ {0}))}
  <2>1. FramesTo(hlHeard, Entered) \subseteq Framed(SentNow \cup ({hlItem.n} \ {0}))
    <3>1. CASE hlTask = "registered"
      <4>1. Entered = Len(hlSent) + 1 /\ hlItem.n = Len(hlSent) + 1
        BY <3>1, <1>1 DEF HandleInv, HandleTask, InHand, Entered
      <4> QED BY <4>1, <1>1, <1>3 DEF FramesTo, Framed
    <3>2. CASE hlTask # "registered"
      <4>1. Entered = Len(hlSent)
        BY <3>2 DEF Entered
      <4> QED BY <4>1, <1>1, <1>3 DEF FramesTo, Framed
    <3> QED BY <3>1, <3>2
  <2> QED BY <2>1 DEF DevicesOf
<1>6. FramesTo(hlHeard, Len(hlSent)) = Framed(SentNow)
  BY <1>3 DEF FramesTo, Framed
<1> QED BY <1>2, <1>3, <1>4, <1>5, <1>6 DEF YieldedIsSent, HandleInv, HandleRegistry

LEMMA NumbersSeq ==
  ASSUME NEW n \in Nat, NEW f \in [1..n -> Nat]
  PROVE  f \in Seq(Nat) /\ Len(f) = n
OBVIOUS

LEMMA JoinedNumbers ==
  ASSUME NEW a \in Seq(Nat), NEW b \in Seq(Nat)
  PROVE  /\ a \o b \in Seq(Nat) /\ Len(a \o b) = Len(a) + Len(b)
         /\ \A i \in 1..Len(a) : (a \o b)[i] = a[i]
         /\ \A i \in 1..Len(b) : (a \o b)[Len(a) + i] = b[i]
OBVIOUS

LEMMA SameNumbers ==
  ASSUME NEW a \in Seq(Nat), NEW b \in Seq(Nat), Len(a) = Len(b), \A i \in 1..Len(b) : a[i] = b[i]
  PROVE  a = b
OBVIOUS

LEMMA HandleTaken ==
  ASSUME HandleInv
  PROVE  SentIsTaken
<1>1. /\ hlTaken \in Seq([n : Nat, given : BOOLEAN]) /\ hlChannel \in Seq([from : HlDevices \cup {Lora}, n : Nat])
      /\ Len(hlTaken) \in Nat /\ Len(hlChannel) \in Nat /\ hlSent \in Seq(Nat)
      /\ DOMAIN hlTaken = 1..Len(hlTaken) /\ DOMAIN hlChannel = 1..Len(hlChannel)
      /\ Len(hlTaken) + Len(hlChannel) = Len(hlSent)
  BY DEF HandleInv, HandleTask, HandleChannel
<1> DEFINE took == [i \in DOMAIN hlTaken |-> hlTaken[i].n]
           waits == [i \in DOMAIN hlChannel |-> hlChannel[i].n]
<1>2. took \in Seq(Nat) /\ Len(took) = Len(hlTaken) /\ \A i \in 1..Len(hlTaken) : took[i] = i
  <2>1. took = [i \in 1..Len(hlTaken) |-> i]
    BY <1>1 DEF HandleInv, HandleChannel
  <2>2. [i \in 1..Len(hlTaken) |-> i] \in [1..Len(hlTaken) -> Nat]
    BY <1>1
  <2>3. took \in Seq(Nat) /\ Len(took) = Len(hlTaken)
    BY <2>1, <2>2, <1>1, NumbersSeq
  <2> QED BY <2>1, <2>3
<1>3. waits \in Seq(Nat) /\ Len(waits) = Len(hlChannel) /\ \A i \in 1..Len(hlChannel) : waits[i] = Len(hlTaken) + i
  <2>1. waits = [i \in 1..Len(hlChannel) |-> Len(hlTaken) + i]
    BY <1>1 DEF HandleInv, HandleChannel
  <2>2. [i \in 1..Len(hlChannel) |-> Len(hlTaken) + i] \in [1..Len(hlChannel) -> Nat]
    BY <1>1
  <2> QED BY <2>1, <2>2, <1>1, NumbersSeq
<1>4. took \o waits = hlSent
  <2> HIDE DEF took, waits
  <2>1. took \o waits \in Seq(Nat) /\ Len(took \o waits) = Len(hlSent)
    <3>1. took \in Seq(Nat) /\ waits \in Seq(Nat)
      BY <1>2, <1>3
    <3>2. took \o waits \in Seq(Nat) /\ Len(took \o waits) = Len(took) + Len(waits)
      BY <3>1, JoinedNumbers
    <3> QED BY <1>1, <1>2, <1>3, <3>2
  <2>2. ASSUME NEW i \in 1..Len(hlSent) PROVE (took \o waits)[i] = i
    <3>1. CASE i \in 1..Len(hlTaken)
      BY <3>1, <1>2, <1>3, JoinedNumbers
    <3>2. CASE i - Len(hlTaken) \in 1..Len(hlChannel)
      <4>1. (took \o waits)[Len(took) + (i - Len(hlTaken))] = waits[i - Len(hlTaken)]
        BY <3>2, <1>2, <1>3, JoinedNumbers
      <4>2. Len(took) + (i - Len(hlTaken)) = i /\ Len(hlTaken) + (i - Len(hlTaken)) = i
        BY <1>1, <1>2
      <4> QED BY <4>1, <4>2, <3>2, <1>3
    <3>3. i \in 1..Len(hlTaken) \/ i - Len(hlTaken) \in 1..Len(hlChannel)
      BY <1>1
    <3> QED BY <3>1, <3>2, <3>3
  <2>3. \A i \in 1..Len(hlSent) : hlSent[i] = i
    BY DEF HandleInv, HandleTask
  <2> QED BY <1>1, <2>1, <2>2, <2>3, SameNumbers
<1>5. \A i \in DOMAIN hlTaken : ~hlTaken[i].given => hlHeard[hlTaken[i].n] = Lora
  BY <1>1 DEF HandleInv, HandleChannel
<1>6. hlCall.told = "closed" => hlAborted /\ Len(hlTaken) = Len(hlSent)
  <2>1. hlChannel = <<>> => Len(hlChannel) = 0
    OBVIOUS
  <2> QED BY <1>1, <2>1 DEF HandleInv, HandleCall, HandleTask
<1> QED BY <1>4, <1>5, <1>6 DEF SentIsTaken

LEMMA HandleScanned ==
  ASSUME HandleInv
  PROVE  ScanIsOfItsTime
<1>1. SentNow = 1..Len(hlSent)
  BY HandleYielded
<1>2. Entered \in Nat /\ Entered <= Len(hlHeard) /\ Len(hlHeard) \in Nat /\ Len(hlSent) \in Nat /\ Len(hlSent) <= Entered
      /\ DOMAIN hlHeard = 1..Len(hlHeard)
  <2>1. Len(hlSent) <= Entered
    BY EnteredHeard DEF HandleInv, HandleTask, InHand, Entered
  <2> QED BY <2>1, EnteredHeard DEF HandleInv, HandleTask
<1>3. ASSUME hlCall.name = "scan"
      PROVE  {hlHeard[n] : n \in Framed({m \in SentNow : m > hlCall.since})} \subseteq hlDevices
  <2>1. \A n \in Framed({m \in SentNow : m > hlCall.since}) : n \in FramesTo(hlHeard, Entered) /\ n > hlCall.since
    BY <1>1, <1>2 DEF Framed, FramesTo
  <2> QED BY <2>1, <1>3 DEF HandleInv, HandleScan
<1>4. Since(hlHeard, hlCall.since) \subseteq {hlHeard[n] : n \in Framed({m \in DOMAIN hlHeard : m >= hlCall.since})}
  BY <1>2 DEF Since, DevicesOf, FramesTo, Framed
<1> QED BY <1>3, <1>4 DEF ScanIsOfItsTime, HandleInv, HandleScan

(* Whatever the owner calls while the receiver runs, every item is sent and  *)
(* taken once, in order, and the registry is that of its scan, for any       *)
(* number of items, devices and calls (HandleFaithful).                     *)
THEOREM ServicesHandleFaithful == Spec => []HandleFaithful
<1>1. Init => HandleInv
  <2> SUFFICES ASSUME HlInit PROVE HandleInv
    BY DEF Init
  <2>1. HandleTask
    BY DEF HlInit, HandleTask, InHand, Nobody
  <2>2. hlDevices = {} /\ hlCalled = {} /\ ~hlCallback.copied /\ hlTaken = <<>> /\ hlChannel = <<>> /\ hlSent = <<>>
    BY DEF HlInit
  <2>3. hlCall = [name |-> "none", told |-> "none", since |-> 0, list |-> {}]
    BY DEF HlInit, Resting
  <2>4. HandleRegistry
    BY <2>2 DEF HandleRegistry
  <2>5. HandleChannel
    BY <2>2 DEF HandleChannel
  <2>6. HandleCall
    BY <2>3 DEF HandleCall, CallTold
  <2>7. HandleScan
    BY <2>3 DEF HandleScan
  <2> QED BY <2>1, <2>4, <2>5, <2>6, <2>7 DEF HandleInv
<1>2. HandleInv /\ [Next]_servicesVars => HandleInv'
  BY UnitSteps, TaskStep, RegistryStep, ChannelStep, CallStep, ScanStep DEF HandleInv
<1>3. HandleInv => HandleFaithful
  BY HandleYielded, HandleTaken, HandleScanned DEF HandleFaithful
<1> QED BY <1>1, <1>2, <1>3, PTL DEF Spec

-----------------------------------------------------------------------------
(* Whatever the keys, devices, lengths and settings of the two ends, and      *)
(* whatever befalls a frame on its way, what decrypt_frame returns is what   *)
(* was encrypted wherever the mode can tell, spoilt only where the frame    *)
(* was, and a digest vouches for what it was made of (CryptoSound).          *)
THEOREM ServicesCryptoSound == Spec => []CryptoSound
<1>1. Init => SealInv /\ ReadInv
  BY CryptInit DEF Init
<1>2. SealInv /\ ReadInv /\ [Next]_servicesVars => SealInv' /\ ReadInv'
  BY UnitSteps, CryptStep
<1>3. SealInv /\ ReadInv => CryptoSound
  BY CryptHolds
<1> QED BY <1>1, <1>2, <1>3, PTL DEF Spec

-----------------------------------------------------------------------------
(* However the owner of a radio calls, whatever fails, and whatever the      *)
(* interrupt tasks do meanwhile: a setup that answers Ok is whole, a channel *)
(* is heard in reception, a detection answers for itself, the mode on record *)
(* is the chip's unless somebody wrote it who does not record it, and the   *)
(* last task is over when shutdown returns (ChipsAsTold).                   *)
THEOREM ServicesChipsAsTold == Spec => []ChipsAsTold
<1>1. Init => SetupInv /\ OwnerInv
  BY SetupStarts, OwnerStarts DEF Init
<1>2. SetupInv /\ OwnerInv /\ [Next]_servicesVars => SetupInv' /\ OwnerInv'
  BY UnitSteps, SetupSteps, OwnerSteps
<1>3. SetupInv /\ OwnerInv => ChipsAsTold
  BY SetupHolds, OwnerHolds DEF ChipsAsTold
<1> QED BY <1>1, <1>2, <1>3, PTL DEF Spec

-----------------------------------------------------------------------------
(* Whatever is asked of the duty-cycle manager and of the limiter, by        *)
(* however many callers: the airtime of a sliding window stays below twice   *)
(* the limit although add_transmission forgets recent transmissions with old *)
(* ones, the limiter is exceeded by at most one transmission for each caller *)
(* but one, the wait it names is enough, and a low-power node sleeps once    *)
(* between two commands of standby (AirtimeKept).                            *)
THEOREM ServicesAirtimeKept == Spec => []AirtimeKept
<1>1. Init => AirInv /\ SleepInv /\ LimiterInv
  BY DutyCycleStarts, LimiterStarts DEF Init
<1>2. AirInv /\ SleepInv /\ LimiterInv /\ [Next]_servicesVars => AirInv' /\ SleepInv' /\ LimiterInv'
  BY UnitSteps, DutyCycleSteps, LimiterSteps
<1>3. AirInv /\ SleepInv /\ LimiterInv => AirtimeKept
  BY DutyCycleHolds, LimiterHolds DEF AirtimeKept
<1> QED BY <1>1, <1>2, <1>3, PTL DEF Spec

-----------------------------------------------------------------------------
(* Every edge a watched pin is called back for becomes one event, in order, *)
(* but for those of a bounce; the queue's count of dropped events does not  *)
(* miss that interrupts were lost; a command is missed only after an error; *)
(* and the words of the FIFO are taken once each (irq_queue.rs,             *)
(* enhanced_gpio.rs, raspberry_pi.rs, pio_irq.rs).                          *)
THEOREM ServicesEventsAccounted == Spec => []EventsAccounted
<1> DEFINE Inv == QueueInv /\ PinInv /\ ChipInv /\ WordInv /\ EdgeInv
<1>1. Init => Inv
  BY QueueStarts, PinsStart, ChipStarts, WordsStart, EdgesStart DEF Init
<1>2. Inv /\ [Next]_servicesVars => Inv'
  <2> SUFFICES ASSUME Inv, [Next]_servicesVars PROVE Inv'
    OBVIOUS
  <2>1. [IqNext]_iqVars /\ [GpNext]_gpVars
    BY UnitSteps
  <2>2. gpLog \in Seq([pin : GpPins, at : Nat, skipped : BOOLEAN, mine : BOOLEAN, within : Nat])
    BY DEF EdgeInv, EdgeTyped, Edge
  <2> QED BY <2>1, <2>2, QueueSteps, PinsStep, ChipStep, WordsStep, EdgesStep
<1>3. Inv => EventsAccounted
  BY QueueHolds DEF EventsAccounted, EdgesAccounted, LinesTrue, EdgeInv, PinInv, ChipInv, WordInv
<1>4. QED BY <1>1, <1>2, <1>3, PTL DEF Spec

-----------------------------------------------------------------------------
(* A key installed is the key stored, through restarts and pushes of both   *)
(* brokers; the log of a meter tells its first reception once and its       *)
(* silences in turns; the status a broker retains, the announcement and the *)
(* radio are handed on as they should be, through sweeps, losses, failures  *)
(* and kills (metermon-rs: main.rs, store.rs, devices.rs, publish.rs,       *)
(* sweep.rs).                                                              *)
THEOREM ServicesStoreTruthful == Spec => []StoreTruthful
<1> DEFINE Inv == KeyInv /\ LogInv /\ GmInv
<1>1. Init => Inv
  BY KeysStart, LogStarts, GmBegins DEF Init
<1>2. Inv /\ [Next]_servicesVars => Inv'
  <2> SUFFICES ASSUME Inv, [Next]_servicesVars PROVE Inv'
    OBVIOUS
  <2>1. [KeyNext \/ DeviceNext]_gsVars /\ [GmNext]_gmVars
    BY UnitSteps
  <2> QED BY <2>1, InstallStep, LogSteps, GmSteps
<1>3. Inv => StoreTruthful
  BY KeysHold, LogHolds, GmTold DEF StoreTruthful
<1>4. QED BY <1>1, <1>2, <1>3, PTL DEF Spec

-----------------------------------------------------------------------------
(* An answer of the device manager that is Ok has every bus's part in it; a *)
(* search by secondary address finds exactly the meters that share all      *)
(* bytes but the last with another, for any length of an address and any    *)
(* meters on the bus; a topology is told whole or at its limit; and the    *)
(* line's rate is the port's, left only for collisions counted at it       *)
(* (mbus_device_manager.rs, secondary_addressing.rs, network.rs, serial.rs). *)
THEOREM ServicesBusesHonest == Spec => []BusesHonest
<1>1. Init => BusesInv
  BY BusesStart DEF Init
<1>2. BusesInv /\ [Next]_servicesVars => BusesInv'
  BY UnitSteps, BusesSteps
<1>3. BusesInv => BusesHonest
  BY SearchHolds DEF BusesInv, BusesHonest, CallInv, TopologyInv, LineInv
<1>4. QED BY <1>1, <1>2, <1>3, PTL DEF Spec

-----------------------------------------------------------------------------
(* What is learnt from frames and readings is true: the cache of compact    *)
(* frames forgets in the order of use; a device's entry in the registry is  *)
(* one, the errors of a device are counted in the windows they fell in, a  *)
(* report tells the readings that are valid and a link's measures are those *)
(* of its samples; and a format is registered for good only when it was     *)
(* found often enough, for any devices, records and limits                  *)
(* (compact_frame_cache.rs, instrumentation/, lora/format_detector.rs).     *)
THEOREM ServicesLearntTruly == Spec => []LearntTruly
<1> DEFINE Inv == CacheInv /\ RegistryInv /\ CountedInv /\ MeasuresInv /\ ReportsWhole /\ FormatsInv
<1>1. Init => Inv
  BY CacheStarts, RegistryStarts, CountedStarts, LinkStarts, ReportsStart, FormatsStart DEF Init
<1>2. Inv /\ [Next]_servicesVars => Inv'
  <2> SUFFICES ASSUME Inv, [Next]_servicesVars PROVE Inv'
    OBVIOUS
  <2>1. [CfNext]_cfVars /\ [InNext]_inVars /\ [LfNext]_lfVars
    BY UnitSteps
  <2> QED BY <2>1, CacheSteps, RegistrySteps, CountedSteps, LinkSteps, ReportsStep, FormatsSteps
<1>3. Inv => LearntTruly
  BY CacheHolds, RegistryHolds, CountedHolds, LinkHolds, FormatsHold DEF LearntTruly, DevicesKnown
<1>4. QED BY <1>1, <1>2, <1>3, PTL DEF Spec

-----------------------------------------------------------------------------
(* The data rate controller keeps its spreading factor and its power within *)
(* their limits; the rest follows from the decision.                       *)

Sample == [rssi : Int, snr : Int]

AdrInv ==
  /\ adrSf \in 5..12 /\ adrPower \in MinTxPower..MaxTxPower
  /\ adrHistory \in Seq(Sample)

(* The sums over the history.                                               *)
UpTo(f, field) == f = [n \in 0..Len(adrHistory) |-> IF n = 0 THEN 0 ELSE f[n - 1] + adrHistory[n][field]]

LEMMA UpToExists ==
  ASSUME NEW field \in {"rssi", "snr"}, adrHistory \in Seq(Sample)
  PROVE  \E f : UpTo(f, field)
<1> DEFINE last == Len(adrHistory)
           w    == [k \in 1..last |-> [n |-> adrHistory[k][field]]]
<1>1. last \in Nat
  OBVIOUS
<1>2. \A k \in 1..last : w[k].n = adrHistory[k][field]
  OBVIOUS
<1> HIDE DEF w
<1>3. PICK f : Sums(f, w, last)
  <2> HIDE DEF last
  <2> QED BY <1>1, SumsExist
<1>4. \A k \in 0..last : k # 0 => k \in 1..last
  BY <1>1
<1>5. \A k \in 0..last : SumStep(f, w, k) = IF k = 0 THEN 0 ELSE f[k - 1] + adrHistory[k][field]
  BY <1>2, <1>4 DEF SumStep
<1>6. f = [k \in 0..last |-> IF k = 0 THEN 0 ELSE f[k - 1] + adrHistory[k][field]]
  BY <1>3, <1>5 DEF Sums
<1> QED BY <1>6 DEF UpTo

LEMMA SumTyped ==
  ASSUME NEW field \in {"rssi", "snr"}, adrHistory \in Seq(Sample)
  PROVE  SumOf(field) \in Int
<1> DEFINE last == Len(adrHistory)
           f    == CHOOSE g : UpTo(g, field)
<1>1. last \in Nat /\ \A k \in 1..last : adrHistory[k] \in Sample
  OBVIOUS
<1>2. \A k \in 1..last : adrHistory[k][field] \in Int
  BY <1>1 DEF Sample
<1>3. SumOf(field) = f[last]
  BY DEF SumOf, UpTo
<1>4. UpTo(f, field)
  BY UpToExists
<1> HIDE DEF f
<1>5. \A n \in 0..last : f[n] = IF n = 0 THEN 0 ELSE f[n - 1] + adrHistory[n][field]
  BY <1>4 DEF UpTo
<1> DEFINE S == {n \in 0..last : f[n] \notin Int}
<1>6. ASSUME S # {} PROVE FALSE
  <2>1. S \in SUBSET Nat
    BY <1>1
  <2>2. PICK m \in S : \A y \in S : m <= y
    <3> HIDE DEF S
    <3> QED BY <1>6, <2>1, LeastNatural
  <2>3. m # 0
    BY <1>1, <1>5
  <2>4. m - 1 \in 0..last /\ m - 1 \notin S /\ m \in 1..last
    BY <1>1, <2>2, <2>3
  <2>5. f[m - 1] \in Int /\ f[m] = f[m - 1] + adrHistory[m][field]
    BY <1>5, <2>3, <2>4
  <2> QED BY <1>2, <2>4, <2>5
<1>7. last \in 0..last
  BY <1>1
<1> QED BY <1>3, <1>6, <1>7

LEMMA AverageTyped ==
  ASSUME adrHistory \in Seq(Sample) PROVE AverageRssi \in Int
<1>1. Len(adrHistory) \in Nat /\ (adrHistory # <<>> => Len(adrHistory) > 0)
  OBVIOUS
<1>2. SumOf("rssi") \in Int
  BY SumTyped
<1> DEFINE s == SumOf("rssi")
           n == Len(adrHistory)
<1>3. AverageRssi = IF adrHistory = <<>> THEN -100 ELSE -((-s) \div n)
  BY DEF AverageRssi
<1> HIDE DEF s, n
<1>4. s \in Int /\ n \in Nat /\ (adrHistory # <<>> => n > 0)
  BY <1>1, <1>2 DEF s, n
<1> QED BY <1>3, <1>4

(* The factor and the power of a decision.                                  *)
LEMMA OptimalTyped ==
  /\ OptimalSf \in 7..12
  /\ OptimalSf = 12 \/ AverageRssi >= RssiThreshold(OptimalSf)
<1> DEFINE S == {sf \in 7..12 : \/ sf = 12
                                \/ /\ AverageRssi >= RssiThreshold(sf)
                                   /\ SumOf("snr") >= SnrThreshold(sf) * Len(adrHistory)}
<1>1. S \in SUBSET Nat /\ 12 \in S
  OBVIOUS
<1>2. \E x \in S : \A y \in S : x <= y
  <2> HIDE DEF S
  <2> QED BY <1>1, LeastNatural
<1>3. OptimalSf \in S
  BY <1>2 DEF OptimalSf, Min
<1> QED BY <1>3

LEMMA ClampedIs ==
  ASSUME NEW x \in Int
  PROVE  Clamped(x) = (IF x < MinTxPower THEN MinTxPower ELSE IF x > MaxTxPower THEN MaxTxPower ELSE x)
<1> DEFINE low == IF x < MaxTxPower THEN x ELSE MaxTxPower
<1>1. low \in Int /\ Min({MaxTxPower, x}) = low
  BY DEF Min, MaxTxPower
<1> HIDE DEF low
<1>2. Max({MinTxPower, low}) = IF low < MinTxPower THEN MinTxPower ELSE low
  BY <1>1 DEF Max, MinTxPower
<1> QED BY <1>1, <1>2 DEF Clamped, low, MinTxPower, MaxTxPower

LEMMA MarginLeft ==
  ASSUME NEW sf \in 7..12, AverageRssi \in Int,
         sf = 12 \/ AverageRssi >= RssiThreshold(sf), AverageRssi >= Sensitivity(12) + 10
  PROVE  Sensitivity(sf) \in Int /\ AverageRssi - Sensitivity(sf) >= 10
<1>1. sf = 7 \/ sf = 8 \/ sf = 9 \/ sf = 10 \/ sf = 11 \/ sf = 12
  OBVIOUS
<1>2. /\ Sensitivity(7) = -123 /\ Sensitivity(8) = -126 /\ Sensitivity(9) = -129 /\ Sensitivity(10) = -132
      /\ Sensitivity(11) = -134 /\ Sensitivity(12) = -137
  BY DEF Sensitivity
<1>3. /\ RssiThreshold(7) = -80 /\ RssiThreshold(8) = -85 /\ RssiThreshold(9) = -90
      /\ RssiThreshold(10) = -95 /\ RssiThreshold(11) = -100
  BY DEF RssiThreshold
<1> QED BY <1>1, <1>2, <1>3

LEMMA AdrHolds == AdrInv => AdrSettles
<1> SUFFICES ASSUME AdrInv PROVE AdrSettles
  OBVIOUS
<1> DEFINE once == Decision(adrSf, adrPower)
           target == TargetSf(adrSf)
           power == IF target = adrSf THEN adrPower ELSE TxPower(target, adrPower)
<1>1. once = [sf |-> target, power |-> power] /\ once.sf = target /\ once.power = power
  BY DEF Decision
<1>2. AverageRssi \in Int /\ adrPower \in MinTxPower..MaxTxPower /\ OptimalSf \in 7..12
  BY AverageTyped, OptimalTyped DEF AdrInv
<1>3. target = adrSf \/ target = OptimalSf
  BY DEF TargetSf
<1>4. TargetSf(target) = target
  <2>1. CASE target = adrSf
    BY <2>1
  <2>2. CASE target = OptimalSf
    <3>1. ~(OptimalSf < OptimalSf)
      BY <1>2
    <3>2. TargetSf(OptimalSf) = OptimalSf
      BY <3>1 DEF TargetSf
    <3> QED BY <2>2, <3>2
  <2> QED BY <1>3, <2>1, <2>2
<1>5. Decision(target, power) = [sf |-> target, power |-> power]
  <2> HIDE DEF target, power
  <2> QED BY <1>4 DEF Decision
<1>6. ASSUME AverageRssi >= Sensitivity(12) + 10, target # adrSf PROVE power <= adrPower
  <2>1. target = OptimalSf /\ power = TxPower(OptimalSf, adrPower)
    BY <1>3, <1>6
  <2> DEFINE margin == AverageRssi - Sensitivity(OptimalSf)
  <2>2. Sensitivity(OptimalSf) \in Int /\ margin >= 10
    BY <1>2, <1>6, OptimalTyped, MarginLeft
  <2>3. TxPower(OptimalSf, adrPower) = Clamped(adrPower + 10 - margin)
    BY DEF TxPower
  <2>4. margin \in Int
    BY <1>2, <2>2
  <2> HIDE DEF margin
  <2>5. adrPower + 10 - margin \in Int /\ adrPower + 10 - margin <= adrPower
    BY <1>2, <2>2, <2>4 DEF MinTxPower, MaxTxPower
  <2> DEFINE x == adrPower + 10 - margin
  <2>6. x \in Int /\ x <= adrPower
    BY <2>5
  <2> HIDE DEF x
  <2>7. Clamped(x) <= adrPower
    BY <1>2, <2>6, ClampedIs DEF MinTxPower, MaxTxPower
  <2> QED BY <2>1, <2>3, <2>7 DEF x
<1>7. AverageRssi >= Sensitivity(12) + 10 => once.power <= adrPower
  <2>1. target = adrSf => power <= adrPower
    BY <1>2 DEF MinTxPower, MaxTxPower
  <2> QED BY <1>1, <1>6, <2>1
<1>8. Decision(once.sf, once.power) = once
  BY <1>1, <1>5
<1> QED BY <1>7, <1>8 DEF AdrSettles

LEMMA AdrStart == AdrInit => AdrInv
BY DEF AdrInit, AdrInv, MinSf, MinTxPower, MaxTxPower

LEMMA ClampedTyped ==
  ASSUME NEW x \in Int PROVE Clamped(x) \in MinTxPower..MaxTxPower
BY ClampedIs DEF MinTxPower, MaxTxPower

LEMMA DecisionTyped ==
  ASSUME AdrInv PROVE TargetSf(adrSf) \in 5..12 /\ Decision(adrSf, adrPower).power \in MinTxPower..MaxTxPower
<1> DEFINE target == TargetSf(adrSf)
<1>1. AverageRssi \in Int /\ adrPower \in MinTxPower..MaxTxPower /\ OptimalSf \in 7..12 /\ adrSf \in 5..12
  BY AverageTyped, OptimalTyped DEF AdrInv
<1>2. target = adrSf \/ target = OptimalSf
  BY DEF TargetSf
<1>3. target \in 5..12
  BY <1>1, <1>2
<1> HIDE DEF target
<1>4. Sensitivity(target) \in Int
  BY <1>3 DEF Sensitivity
<1>5. TxPower(target, adrPower) \in MinTxPower..MaxTxPower
  <2> DEFINE x == adrPower + 10 - (AverageRssi - Sensitivity(target))
  <2>1. x \in Int
    BY <1>1, <1>4 DEF MinTxPower, MaxTxPower
  <2> HIDE DEF x
  <2>2. Clamped(x) \in MinTxPower..MaxTxPower
    BY <2>1, ClampedTyped
  <2> QED BY <2>2 DEF TxPower, x
<1> QED BY <1>1, <1>3, <1>5 DEF Decision, target

LEMMA AdrSteps == AdrInv /\ [AdrNext]_adrVars => AdrInv'
<1> SUFFICES ASSUME AdrInv, [AdrNext]_adrVars PROVE AdrInv'
  OBVIOUS
<1>1. ASSUME EvaluateInternal PROVE AdrInv'
  <2>1. adrSf' = TargetSf(adrSf) /\ adrPower' = Decision(adrSf, adrPower).power /\ adrHistory' = adrHistory
    BY <1>1 DEF EvaluateInternal, Decision
  <2>2. TargetSf(adrSf) \in 5..12 /\ Decision(adrSf, adrPower).power \in MinTxPower..MaxTxPower
    BY DecisionTyped
  <2> QED BY <2>1, <2>2 DEF AdrInv, MinTxPower, MaxTxPower
<1>2. ASSUME NEW sample \in AdrSamples, RecordPacket(sample) PROVE AdrInv'
  <2> DEFINE grown == Append(adrHistory, sample)
  <2>1. sample \in Sample /\ adrHistory \in Seq(Sample)
    <3>1. sample \in [rssi : -240..15, snr : Int]
      BY AdrAssumption
    <3>2. sample \in Sample
      BY <3>1 DEF Sample
    <3> QED BY <3>2 DEF AdrInv
  <2>2. grown \in Seq(Sample) /\ Len(grown) = Len(adrHistory) + 1 /\ Len(adrHistory) \in Nat
    BY <2>1
  <2>3. Tail(grown) \in Seq(Sample)
    <3> HIDE DEF grown
    <3>1. Len(grown) # 0
      BY <2>2
    <3>2. grown # <<>>
      BY <3>1
    <3> QED BY <2>2, <3>2
  <2>4. adrHistory' = grown \/ adrHistory' = Tail(grown)
    BY <1>2 DEF RecordPacket
  <2>5. adrSf' = adrSf /\ adrPower' = adrPower
    BY <1>2 DEF RecordPacket
  <2> HIDE DEF grown
  <2> QED BY <2>2, <2>3, <2>4, <2>5 DEF AdrInv, MinTxPower, MaxTxPower
<1>3. CASE RecordLoss
  <2>1. adrSf \in 5..12 /\ adrPower \in 2..14
    BY DEF AdrInv, MinTxPower, MaxTxPower
  <2>2. MitigatedSf \in 5..12
    BY <2>1 DEF MitigatedSf
  <2>3. Min({MaxTxPower, adrPower + 2}) \in 2..14
    <3> DEFINE x == adrPower + 2
    <3>1. x \in Int /\ 4 <= x
      BY <2>1
    <3> HIDE DEF x
    <3>2. Min({14, x}) = IF x < 14 THEN x ELSE 14
      BY <3>1 DEF Min
    <3> QED BY <3>1, <3>2 DEF x, MaxTxPower
  <2>4. adrHistory' = adrHistory /\ (adrSf' = adrSf \/ adrSf' = MitigatedSf)
        /\ (adrPower' = adrPower \/ adrPower' = Min({MaxTxPower, adrPower + 2}))
    BY <1>3 DEF RecordLoss
  <2>5. adrSf' \in 5..12 /\ adrPower' \in 2..14
    BY <2>1, <2>2, <2>3, <2>4
  <2> QED BY <2>4, <2>5 DEF AdrInv, MinTxPower, MaxTxPower
<1>4. ASSUME NEW sf \in AdrNetworkSf, NEW power \in {0, 20}, ApplyNetworkAdr(sf, power) PROVE AdrInv'
  <2>1. sf \in 5..12 /\ Clamped(power) \in MinTxPower..MaxTxPower
    BY AdrAssumption, ClampedTyped
  <2>2. adrSf' = sf /\ adrPower' = Clamped(power) /\ adrHistory' = <<>>
    BY <1>4 DEF ApplyNetworkAdr
  <2> QED BY <2>1, <2>2 DEF AdrInv, MinTxPower, MaxTxPower
<1>5. CASE AdrElapse
  BY <1>5 DEF AdrElapse, AdrInv, MinTxPower, MaxTxPower
<1>6. CASE UNCHANGED adrVars
  BY <1>6 DEF adrVars, AdrInv, MinTxPower, MaxTxPower
<1> QED BY <1>1, <1>2, <1>3, <1>4, <1>5, <1>6 DEF AdrNext, ForceEvaluation, Evaluate

(* Evaluating again on the same history changes nothing, and as long as the *)
(* RSSI is 10 dB above the worst sensitivity a decision never raises the    *)
(* power, for any packets received, any averaging window and any spreading  *)
(* factors the network commands (lora/adr.rs: evaluate_internal,            *)
(* apply_hysteresis, determine_tx_power).                                  *)
LEMMA AdrAlways == Spec => []AdrSettles
<1>1. Init => AdrInv
  BY AdrStart DEF Init
<1>2. AdrInv /\ [Next]_servicesVars => AdrInv'
  BY UnitSteps, AdrSteps
<1>3. AdrInv => AdrSettles
  BY AdrHolds
<1>4. QED BY <1>1, <1>2, <1>3, PTL DEF Spec

-----------------------------------------------------------------------------
(* The mode switcher counts whole cycles and the entries tried in the one   *)
(* under way, and its pause is that of its cycles.                         *)

(* What is tried of a mode in the cycle under way, and the pause after some   *)
(* cycles.                                                                   *)
TriedInCycle(m) == {i \in 2..msIndex + 1 : msSequence[i] = m}
PauseAfter(cycles) == IF cycles = 0 THEN Pause ELSE IF cycles < 8 THEN Doubled[cycles] ELSE MaxPause

MsInv ==
  /\ msSequence \in Seq(AllModes) /\ msSequence # <<>> /\ msIndex \in 0..Len(msSequence) - 1
  /\ msCycles \in Nat /\ msLimit \in Nat /\ msPeers \in [1..2 -> SUBSET AllModes]
  /\ msTried \in [AllModes -> Nat]
  /\ \A m \in AllModes : msTried[m] = msCycles * Cardinality(PlacesOf(m)) + Cardinality(TriedInCycle(m))
  /\ ~msTuned => /\ msCycles <= msLimit /\ (msCycles = msLimit => msIndex = 0)
                 /\ msPause = PauseAfter(msCycles) /\ (msGaveUp => msCycles = msLimit)

LEMMA PauseGrows ==
  ASSUME NEW c \in Nat PROVE Backoff(c + 1, PauseAfter(c)) = PauseAfter(c + 1)
<1>1. CASE c = 0
  BY <1>1 DEF Backoff, PauseAfter, Pause, MaxPause, Doubled
<1>2. CASE c \in 1..7
  <2>1. c = 1 \/ c = 2 \/ c = 3 \/ c = 4 \/ c = 5 \/ c = 6 \/ c = 7
    BY <1>2
  <2> QED BY <2>1 DEF Backoff, PauseAfter, Pause, MaxPause, Doubled
<1>3. CASE c > 7
  BY <1>3 DEF Backoff, PauseAfter, Pause, MaxPause
<1> QED BY <1>1, <1>2, <1>3

LEMMA WrappedIs ==
  ASSUME NEW i \in 0..Len(msSequence) - 1, Len(msSequence) \in Nat
  PROVE  Wrapped(i) = IF i + 1 = Len(msSequence) THEN 0 ELSE i + 1
<1> DEFINE n == Len(msSequence)
<1>1. n \in Nat \ {0} /\ i \in Nat /\ i + 1 <= n
  OBVIOUS
<1> HIDE DEF n
<1>2. (i + 1) % n = IF i + 1 = n THEN 0 ELSE i + 1
  BY <1>1
<1> QED BY <1>2 DEF Wrapped, n

LEMMA OncePlus ==
  ASSUME NEW a \in Nat, NEW b \in Nat PROVE (a + 1) * b = a * b + b /\ a * b \in Nat
OBVIOUS

(* The places of a mode in a sequence, all of them and those from the second  *)
(* to some other.                                                           *)
AllPlaces(s, m)    == {i \in DOMAIN s : s[i] = m}
LaterPlaces(s, k, m) == {i \in 2..k : s[i] = m}

LEMMA PlacesCounted ==
  ASSUME NEW s \in Seq(AllModes), NEW k \in Nat, k <= Len(s), NEW m
  PROVE  /\ IsFiniteSet(AllPlaces(s, m)) /\ Cardinality(AllPlaces(s, m)) \in Nat
         /\ IsFiniteSet(LaterPlaces(s, k, m)) /\ Cardinality(LaterPlaces(s, k, m)) \in Nat
<1>1. Len(s) \in Nat /\ DOMAIN s = 1..Len(s)
  OBVIOUS
<1>2. AllPlaces(s, m) \in SUBSET (1..Len(s)) /\ LaterPlaces(s, k, m) \in SUBSET (1..Len(s))
  BY <1>1 DEF AllPlaces, LaterPlaces
<1>3. IsFiniteSet(AllPlaces(s, m)) /\ IsFiniteSet(LaterPlaces(s, k, m))
  BY <1>1, <1>2, UpToCounted, FS_Subset
<1> QED BY <1>3, FS_CardinalityType

(* One more mode is tried, within the cycle or as its end.                   *)
LEMMA OneMoreTried ==
  ASSUME NEW s \in Seq(AllModes), NEW k \in Nat, k < Len(s), k >= 1, NEW m
  PROVE  Cardinality(LaterPlaces(s, k + 1, m)) = Cardinality(LaterPlaces(s, k, m)) + (IF s[k + 1] = m THEN 1 ELSE 0)
<1> DEFINE before == LaterPlaces(s, k, m)
           after  == LaterPlaces(s, k + 1, m)
<1>1. IsFiniteSet(before) /\ Cardinality(before) \in Nat
  BY PlacesCounted
<1>2. CASE s[k + 1] = m
  <2>1. after = before \cup {k + 1} /\ k + 1 \notin before
    BY <1>2 DEF LaterPlaces
  <2>2. Cardinality(after) = Cardinality(before) + 1
    <3> HIDE DEF before, after
    <3> QED BY <1>1, <2>1, FS_AddElement
  <2> QED BY <1>2, <2>2
<1>3. CASE s[k + 1] # m
  <2>1. after = before
    BY <1>3 DEF LaterPlaces
  <2> QED BY <1>1, <1>3, <2>1
<1> QED BY <1>2, <1>3

LEMMA LastTried ==
  ASSUME NEW s \in Seq(AllModes), s # <<>>, NEW m
  PROVE  Cardinality(AllPlaces(s, m)) = Cardinality(LaterPlaces(s, Len(s), m)) + (IF s[1] = m THEN 1 ELSE 0)
<1> DEFINE later == LaterPlaces(s, Len(s), m)
           all   == AllPlaces(s, m)
<1>0. Len(s) \in Nat /\ Len(s) >= 1 /\ DOMAIN s = 1..Len(s)
  OBVIOUS
<1>1. IsFiniteSet(later) /\ Cardinality(later) \in Nat
  BY <1>0, PlacesCounted
<1>2. CASE s[1] = m
  <2>1. all = later \cup {1} /\ 1 \notin later
    BY <1>0, <1>2 DEF LaterPlaces, AllPlaces
  <2>2. Cardinality(all) = Cardinality(later) + 1
    <3> HIDE DEF later, all
    <3> QED BY <1>1, <2>1, FS_AddElement
  <2> QED BY <1>2, <2>2
<1>3. CASE s[1] # m
  <2>1. all = later
    BY <1>0, <1>3 DEF LaterPlaces, AllPlaces
  <2> QED BY <1>1, <1>3, <2>1
<1> QED BY <1>2, <1>3

LEMMA TriedTyped ==
  ASSUME msSequence \in Seq(AllModes), msIndex \in 0..Len(msSequence) - 1, NEW m
  PROVE  /\ PlacesOf(m) = AllPlaces(msSequence, m) /\ Cardinality(PlacesOf(m)) \in Nat
         /\ TriedInCycle(m) = LaterPlaces(msSequence, msIndex + 1, m) /\ Cardinality(TriedInCycle(m)) \in Nat
<1>1. PlacesOf(m) = AllPlaces(msSequence, m) /\ TriedInCycle(m) = LaterPlaces(msSequence, msIndex + 1, m)
  BY DEF PlacesOf, TriedInCycle, AllPlaces, LaterPlaces
<1>2. msIndex + 1 \in Nat /\ msIndex + 1 <= Len(msSequence)
  OBVIOUS
<1> QED BY <1>1, <1>2, PlacesCounted

LEMMA SwitchSteps == MsInv /\ SwitchMode => MsInv'
<1> SUFFICES ASSUME MsInv, SwitchMode PROVE MsInv'
  OBVIOUS
<1> DEFINE n == Len(msSequence)
           i == Wrapped(msIndex)
           now == msSequence[i + 1]
<1>1. n \in Nat \ {0} /\ msIndex \in 0..n - 1 /\ msSequence \in Seq(AllModes) /\ DOMAIN msSequence = 1..n
  BY DEF MsInv
<1>2. i = IF msIndex + 1 = n THEN 0 ELSE msIndex + 1
  BY <1>1, WrappedIs
<1> HIDE DEF i, n
<1>3. i \in 0..n - 1 /\ now \in AllModes
  BY <1>1, <1>2
<1>4. /\ msIndex' = i /\ msCycles < msLimit /\ msTried' = [msTried EXCEPT ![now] = @ + 1]
      /\ msCycles' = (IF i = 0 THEN msCycles + 1 ELSE msCycles)
      /\ msPause' = (IF i = 0 THEN Backoff(msCycles', msPause) ELSE msPause)
      /\ UNCHANGED <<msSequence, msLimit, msGaveUp, msTuned, msPeers>>
  BY DEF SwitchMode, i
<1>5. msCycles' \in Nat /\ msTried' \in [AllModes -> Nat] /\ msIndex' \in 0..n - 1
  BY <1>3, <1>4 DEF MsInv
<1>6. ASSUME NEW m \in AllModes
      PROVE  msTried'[m] = msCycles' * Cardinality(PlacesOf(m)') + Cardinality(TriedInCycle(m)')
  <2> DEFINE one   == IF now = m THEN 1 ELSE 0
             all   == Cardinality(PlacesOf(m))
             sofar == Cardinality(TriedInCycle(m))
             k     == msIndex + 1
  <2>1. msTried'[m] = msTried[m] + one /\ msTried[m] = msCycles * all + sofar /\ msTried[m] \in Nat
    BY <1>3, <1>4 DEF MsInv
  <2>2. PlacesOf(m)' = PlacesOf(m)
    BY <1>4 DEF PlacesOf
  <2>3. TriedInCycle(m)' = LaterPlaces(msSequence, i + 1, m)
    BY <1>4 DEF TriedInCycle, LaterPlaces
  <2>4. all \in Nat /\ sofar \in Nat /\ msCycles \in Nat
    <3>1. msSequence \in Seq(AllModes) /\ msIndex \in 0..Len(msSequence) - 1 /\ msCycles \in Nat
      BY DEF MsInv
    <3> QED BY <3>1, TriedTyped
  <2>5. CASE msIndex + 1 = n
    <3>1. i = 0
      BY <1>2, <2>5
    <3>2. TriedInCycle(m)' = {}
      BY <2>3, <3>1 DEF LaterPlaces
    <3>3. all = sofar + one
      <4>1. msSequence \in Seq(AllModes) /\ msSequence # <<>> /\ msIndex \in 0..Len(msSequence) - 1
        BY DEF MsInv
      <4>2. all = Cardinality(AllPlaces(msSequence, m)) /\ sofar = Cardinality(LaterPlaces(msSequence, Len(msSequence), m))
        BY <2>5, <4>1, TriedTyped DEF n
      <4>3. one = IF msSequence[1] = m THEN 1 ELSE 0
        BY <3>1
      <4> HIDE DEF all, sofar, one
      <4> QED BY <4>1, <4>2, <4>3, LastTried
    <3>4. Cardinality(TriedInCycle(m)') = 0
      BY <3>2, FS_EmptySet
    <3>5. msCycles' = msCycles + 1
      BY <1>4, <3>1
    <3> HIDE DEF all, sofar, one
    <3>6. (msCycles + 1) * all = msCycles * all + all /\ msCycles * all \in Nat
      BY <2>4, OncePlus
    <3>7. one \in Nat
      BY DEF one
    <3>8. msTried'[m] = msCycles' * all + 0
      BY <2>1, <2>4, <3>3, <3>5, <3>6, <3>7
    <3> QED BY <2>2, <3>4, <3>8 DEF all
  <2>6. CASE msIndex + 1 # n
    <3>1. i = msIndex + 1 /\ i # 0
      BY <1>1, <1>2, <2>6
    <3>2. Cardinality(TriedInCycle(m)') = sofar + one
      <4>1. i \in Nat /\ i < Len(msSequence) /\ i >= 1
        BY <1>1, <1>3, <3>1 DEF n
      <4>2. sofar = Cardinality(LaterPlaces(msSequence, i, m))
        BY <3>1 DEF TriedInCycle, LaterPlaces
      <4>3. Cardinality(LaterPlaces(msSequence, i + 1, m)) = Cardinality(LaterPlaces(msSequence, i, m)) + one
        BY <1>1, <4>1, OneMoreTried
      <4> QED BY <2>3, <4>2, <4>3
    <3>3. msCycles' = msCycles
      BY <1>4, <3>1
    <3> HIDE DEF all, sofar, one
    <3>4. msCycles * all \in Nat /\ one \in Nat
      BY <2>4, OncePlus DEF one
    <3>5. msTried'[m] = msCycles' * all + (sofar + one)
      BY <2>1, <2>4, <3>3, <3>4
    <3> QED BY <2>2, <3>2, <3>5 DEF all
  <2> QED BY <2>5, <2>6
<1>7. ASSUME ~msTuned'
      PROVE  /\ msCycles' <= msLimit' /\ (msCycles' = msLimit' => msIndex' = 0)
             /\ msPause' = PauseAfter(msCycles') /\ (msGaveUp' => msCycles' = msLimit')
  <2>1. msPause = PauseAfter(msCycles) /\ (msGaveUp => msCycles = msLimit) /\ msCycles \in Nat /\ msLimit \in Nat
    BY <1>4, <1>7 DEF MsInv
  <2>2. ~msGaveUp'
    BY <1>4, <2>1
  <2>3. msPause' = PauseAfter(msCycles')
    BY <1>4, <2>1, PauseGrows
  <2> QED BY <1>4, <2>1, <2>2, <2>3
<1>8. PauseAfter(msCycles)' = PauseAfter(msCycles')
  BY DEF PauseAfter, Pause, MaxPause, Doubled
<1> QED BY <1>1, <1>4, <1>5, <1>6, <1>7, <1>8 DEF MsInv, n

LEMMA ModesStart == MsInit => MsInv
<1> SUFFICES ASSUME MsInit PROVE MsInv
  OBVIOUS
<1>1. msSequence \in Seq(AllModes) /\ msSequence # <<>> /\ msLimit \in Nat
  BY MsAssumption DEF MsInit, AllModes
<1>2. msIndex = 0 /\ msCycles = 0 /\ msPause = Pause /\ ~msGaveUp /\ msTried = [m \in AllModes |-> 0]
  BY DEF MsInit
<1>3. msIndex \in 0..Len(msSequence) - 1
  BY <1>1, <1>2
<1>4. msPeers \in [1..2 -> SUBSET AllModes]
  <2>1. ASSUME NEW s \in MsSequences PROVE Range(s) \in SUBSET AllModes
    <3>1. s \in Seq(AllModes)
      BY MsAssumption DEF AllModes
    <3> QED BY <3>1 DEF Range
  <2> QED BY <2>1 DEF MsInit
<1>5. ASSUME NEW m \in AllModes PROVE msTried[m] = msCycles * Cardinality(PlacesOf(m)) + Cardinality(TriedInCycle(m))
  <2>1. TriedInCycle(m) = {}
    BY <1>2 DEF TriedInCycle
  <2>2. Cardinality(TriedInCycle(m)) = 0
    BY <2>1, FS_EmptySet
  <2>3. Cardinality(PlacesOf(m)) \in Nat
    BY <1>1, <1>3, TriedTyped
  <2> QED BY <1>2, <2>2, <2>3
<1> QED BY <1>1, <1>2, <1>3, <1>4, <1>5 DEF MsInv, PauseAfter

LEMMA ModesSteps == MsInv /\ [MsNext]_msVars => MsInv'
<1> SUFFICES ASSUME MsInv, [MsNext]_msVars PROVE MsInv'
  OBVIOUS
<1>1. CASE SwitchMode
  BY <1>1, SwitchSteps
<1>2. CASE GiveUp
  <2>1. /\ msSequence' = msSequence /\ msIndex' = msIndex /\ msCycles' = msCycles /\ msLimit' = msLimit
        /\ msPause' = msPause /\ msTried' = msTried /\ msTuned' = msTuned /\ msPeers' = msPeers
        /\ msCycles >= msLimit
    BY <1>2 DEF GiveUp
  <2>2. \A m : PlacesOf(m)' = PlacesOf(m) /\ TriedInCycle(m)' = TriedInCycle(m)
    BY <2>1 DEF PlacesOf, TriedInCycle
  <2>3. \A m \in AllModes : msTried'[m] = msCycles' * Cardinality(PlacesOf(m)') + Cardinality(TriedInCycle(m)')
    <3>1. \A m \in AllModes : msTried[m] = msCycles * Cardinality(PlacesOf(m)) + Cardinality(TriedInCycle(m))
      BY DEF MsInv
    <3> QED BY <2>1, <2>2, <3>1
  <2>4. ~msTuned' => /\ msCycles' <= msLimit' /\ (msCycles' = msLimit' => msIndex' = 0)
                     /\ msPause' = PauseAfter(msCycles') /\ msCycles' = msLimit'
    <3>1. /\ msCycles \in Nat /\ msLimit \in Nat
          /\ ~msTuned => /\ msCycles <= msLimit /\ (msCycles = msLimit => msIndex = 0)
                         /\ msPause = PauseAfter(msCycles)
      BY DEF MsInv
    <3>2. ~msTuned => msCycles = msLimit
      BY <2>1, <3>1
    <3> QED BY <2>1, <3>1, <3>2
  <2>5. /\ msSequence' \in Seq(AllModes) /\ msSequence' # <<>> /\ msIndex' \in 0..Len(msSequence') - 1
        /\ msCycles' \in Nat /\ msLimit' \in Nat /\ msPeers' \in [1..2 -> SUBSET AllModes]
        /\ msTried' \in [AllModes -> Nat]
    BY <2>1 DEF MsInv
  <2> QED BY <2>3, <2>4, <2>5 DEF MsInv
<1>3. CASE ResetSwitcher
  <2>1. /\ msSequence' = msSequence /\ msLimit' = msLimit /\ msPeers' = msPeers /\ msIndex' = 0 /\ msCycles' = 0
        /\ msPause' = Pause /\ ~msGaveUp' /\ msTried' = [m \in AllModes |-> 0]
    BY <1>3 DEF ResetSwitcher
  <2>2. msIndex' \in 0..Len(msSequence) - 1
    BY <2>1 DEF MsInv
  <2>3. ASSUME NEW m \in AllModes
        PROVE  msTried'[m] = msCycles' * Cardinality(PlacesOf(m)') + Cardinality(TriedInCycle(m)')
    <3>1. TriedInCycle(m)' = {}
      BY <2>1 DEF TriedInCycle
    <3>2. Cardinality(TriedInCycle(m)') = 0
      BY <3>1, FS_EmptySet
    <3>3. Cardinality(PlacesOf(m)') \in Nat
      <4>1. msSequence \in Seq(AllModes) /\ msIndex \in 0..Len(msSequence) - 1 /\ PlacesOf(m)' = PlacesOf(m)
        BY <2>1 DEF MsInv, PlacesOf
      <4> QED BY <4>1, TriedTyped
    <3> QED BY <2>1, <3>2, <3>3
  <2>4. msLimit \in Nat
    BY DEF MsInv
  <2> QED BY <2>1, <2>2, <2>3, <2>4 DEF MsInv, PauseAfter
<1>4. ASSUME NEW pause \in MsPauses, SetSwitchDelay(pause) PROVE MsInv'
  BY <1>4 DEF SetSwitchDelay, MsInv, PlacesOf, TriedInCycle
<1>5. ASSUME NEW limit \in MsMaxCycles, SetMaxCycles(limit) PROVE MsInv'
  <2>1. limit \in Nat
    BY MsAssumption
  <2> QED BY <1>5, <2>1 DEF SetMaxCycles, MsInv, PlacesOf, TriedInCycle
<1>6. ASSUME NEW m \in AllModes, Establish(m) PROVE MsInv'
  BY <1>6 DEF Establish, MsInv, PlacesOf, TriedInCycle, PauseAfter
<1>7. CASE UNCHANGED msVars
  BY <1>7 DEF msVars, MsInv, PlacesOf, TriedInCycle, PauseAfter
<1> QED BY <1>1, <1>2, <1>3, <1>4, <1>5, <1>6, <1>7 DEF MsNext

(* A capability frame is read as it was built.                               *)
LEMMA CapabilityRead ==
  ASSUME NEW modes \in SUBSET AllModes PROVE CapabilityModes(CapabilityBits(modes)) = modes
BY DEF CapabilityModes, CapabilityBits, AllModes, Range

LEMMA BestShared ==
  ASSUME NEW own \in SUBSET AllModes, NEW remote \in SUBSET AllModes
  PROVE  /\ SelectBestMode(own, remote) = SelectBestMode(remote, own)
         /\ SelectBestMode(own, remote) = NoMode <=> own \cap remote = {}
<1> DEFINE Shared(a, b) == {i \in DOMAIN Preference : Preference[i] \in a /\ Preference[i] \in b}
           best(S) == IF S = {} THEN NoMode ELSE Preference[Min(S)]
<1>1. Shared(own, remote) = Shared(remote, own)
  OBVIOUS
<1>2. SelectBestMode(own, remote) = best(Shared(own, remote)) /\ SelectBestMode(remote, own) = best(Shared(remote, own))
  BY DEF SelectBestMode
<1>3. DOMAIN Preference = 1..6 /\ \A i \in 1..6 : Preference[i] # NoMode
  BY DEF Preference, NoMode
<1>4. ASSUME NEW m \in own, m \in remote PROVE Shared(own, remote) # {}
  <2>1. m \in {"T1", "T2", "S1", "S2", "C1", "C2"}
    BY MsAssumption DEF AllModes
  <2>2. \E i \in DOMAIN Preference : Preference[i] = m
    <3>1. /\ 1 \in 1..6 /\ 2 \in 1..6 /\ 3 \in 1..6 /\ 4 \in 1..6 /\ 5 \in 1..6 /\ 6 \in 1..6
          /\ Preference[1] = "C1" /\ Preference[2] = "C2" /\ Preference[3] = "T1" /\ Preference[4] = "T2"
          /\ Preference[5] = "S1" /\ Preference[6] = "S2"
      BY DEF Preference
    <3> QED BY <1>3, <2>1, <3>1
  <2> QED BY <1>4, <2>2
<1>5. Shared(own, remote) = {} => own \cap remote = {}
  BY <1>4
<1>6. ASSUME Shared(own, remote) # {} PROVE best(Shared(own, remote)) # NoMode /\ own \cap remote # {}
  <2> DEFINE S == Shared(own, remote)
  <2>1. S \in SUBSET Nat /\ S # {} /\ S \subseteq DOMAIN Preference
    BY <1>3, <1>6
  <2>2. \E x \in S : \A y \in S : x <= y
    BY <2>1, LeastNatural
  <2>3. own \cap remote # {}
    BY <1>6
  <2> HIDE DEF S
  <2>4. Min(S) \in S
    BY <2>2 DEF Min
  <2>5. best(S) # NoMode
    BY <1>3, <2>1, <2>4
  <2> QED BY <2>3, <2>5 DEF S
<1> HIDE DEF Shared
<1>7. own \cap remote = {} => Shared(own, remote) = {}
  BY <1>6
<1> QED BY <1>1, <1>2, <1>5, <1>6

LEMMA ModesHold == MsInv => ModesFound
<1> SUFFICES ASSUME MsInv PROVE ModesFound
  OBVIOUS
<1>1. BothAgree
  <2>1. msPeers[1] \in SUBSET AllModes /\ msPeers[2] \in SUBSET AllModes
    BY DEF MsInv
  <2>2. Picks(1) = SelectBestMode(msPeers[1], msPeers[2])
    BY <2>1, CapabilityRead DEF Picks
  <2>3. Picks(2) = SelectBestMode(msPeers[2], msPeers[1])
    BY <2>1, CapabilityRead DEF Picks
  <2> QED BY <2>1, <2>2, <2>3, BestShared DEF BothAgree
<1>2. TriedEqually
  <2> SUFFICES ASSUME msGaveUp, ~msTuned, msEstablished = NoMode
               PROVE  /\ \A m \in AllModes : msTried[m] = msLimit * Cardinality(PlacesOf(m))
                      /\ msLimit > 0 => msPause = (IF msLimit < 8 THEN Doubled[msLimit] ELSE MaxPause)
    BY DEF TriedEqually
  <2>1. msCycles = msLimit /\ msIndex = 0 /\ msPause = PauseAfter(msCycles) /\ msLimit \in Nat
    BY DEF MsInv
  <2>2. ASSUME NEW m \in AllModes PROVE msTried[m] = msLimit * Cardinality(PlacesOf(m))
    <3>1. msTried[m] = msLimit * Cardinality(PlacesOf(m)) + Cardinality(TriedInCycle(m))
      BY <2>1 DEF MsInv
    <3>2. TriedInCycle(m) = {}
      BY <2>1 DEF TriedInCycle
    <3>3. Cardinality(TriedInCycle(m)) = 0
      BY <3>2, FS_EmptySet
    <3>4. Cardinality(PlacesOf(m)) \in Nat
      <4>1. msSequence \in Seq(AllModes) /\ msIndex \in 0..Len(msSequence) - 1
        BY DEF MsInv
      <4> QED BY <4>1, TriedTyped
    <3>5. msLimit * Cardinality(PlacesOf(m)) \in Nat
      BY <2>1, <3>4
    <3> QED BY <3>1, <3>3, <3>5
  <2> QED BY <2>1, <2>2 DEF PauseAfter
<1> QED BY <1>1, <1>2 DEF ModesFound

(* A switcher that gives up has tried every mode of its sequence equally    *)
(* often for each of its places, its pause doubled with every cycle; and    *)
(* two negotiators pick the same mode, one both support whenever there is   *)
(* one: for any sequences, limits and pauses (wmbus/mode_switching.rs:      *)
(* next_mode, reset, select_best_mode, parse_capability_frame).            *)
LEMMA ModesAlways == Spec => []ModesFound
<1>1. Init => MsInv
  BY ModesStart DEF Init
<1>2. MsInv /\ [Next]_servicesVars => MsInv'
  BY UnitSteps, ModesSteps
<1>3. MsInv => ModesFound
  BY ModesHold
<1>4. QED BY <1>1, <1>2, <1>3, PTL DEF Spec

(* A link settles: on a data rate and a power that another evaluation of    *)
(* the same history does not change, and on the mode that both ends pick,   *)
(* or on giving up when all were tried, for any packets received, averaging *)
(* window, sequences, limits and pauses (lora/adr.rs, mode_switching.rs).  *)
THEOREM ServicesLinkSettles == Spec => []LinkSettles
BY AdrAlways, ModesAlways, PTL DEF LinkSettles

-----------------------------------------------------------------------------
(* The buffers of iobuffer.rs keep what is written into them, for every limit *)
(* and number of bytes, through writing, consuming, clearing, new limits,   *)
(* joining and splitting: each byte is with the application, in a buffer,   *)
(* cleared, or dropped by a call that failed, in total as many as were      *)
(* written; a buffer gives its bytes back in the order of writing unless    *)
(* some were appended behind younger ones; none exceeds its highest limit,  *)
(* and stats() never tells more bytes consumed and left than were written.  *)
LEMMA BufferAlways == Spec => []BufferFaithful
<1> DEFINE Inv == IbInv /\ PlaceInv
<1>1. Init => Inv
  BY InvBegins, PlaceBegins DEF Init
<1>2. Inv /\ [Next]_servicesVars => Inv'
  BY UnitSteps, InvSteps, PlaceSteps
<1>3. Inv => BufferFaithful
  BY PlacesHold
<1>4. QED BY <1>1, <1>2, <1>3, PTL DEF Spec

-----------------------------------------------------------------------------
(* A stream without faults.                                                *)

(* The last of a set of numbers that has one.                              *)
LEMMA MaxIs ==
  ASSUME NEW S \in SUBSET Int, NEW m \in S, \A x \in S : m >= x
  PROVE  Max(S) = m
<1>1. \A x \in S : (\A y \in S : x >= y) => x = m
  BY Z3
<1> QED BY <1>1 DEF Max

(* The length of a frame on the air, and its blocks.                        *)
LEMMA LengthOfB ==
  ASSUME NEW f, f.type = "B", f.l \in 11..253
  PROVE  SentLength(f) = f.l + 2
<1>1. {b[2] : b \in SentBlocks(f)} = {f.l}
  BY DEF SentBlocks
<1>2. Max({f.l}) = f.l
  BY MaxIs
<1> QED BY <1>1, <1>2 DEF SentLength

LEMMA LengthOfA ==
  ASSUME NEW f, f.type = "A", f.l \in 9..255
  PROVE  SentLength(f) = IF f.l = 9 THEN 13 ELSE f.l + 6 + 2 * ((f.l - 10) \div 16)
<1> DEFINE l    == f.l
           Js   == {k \in 0..15 : 16 * k < l - 9}
           E(j) == 13 + 18 * j + FsMin(16, l - 9 - 16 * j)
           S    == {b[2] : b \in SentBlocks(f)}
<1>1. l \in 9..255
  OBVIOUS
<1>2. S = {11} \cup {E(j) : j \in Js}
  <2> DEFINE B(j) == <<14 + 18 * j, E(j)>>
  <2>1. SentBlocks(f) = {<<2, 11>>} \cup {B(j) : j \in Js}
    BY DEF SentBlocks
  <2>2. \A j \in Js : B(j)[2] = E(j)
    OBVIOUS
  <2>3. <<2, 11>>[2] = 11
    OBVIOUS
  <2>4. \A x : x \in S <=> \E b \in SentBlocks(f) : x = b[2]
    OBVIOUS
  <2> HIDE DEF B, Js, E, S
  <2>5. \A b : b \in SentBlocks(f) <=> b = <<2, 11>> \/ \E j \in Js : b = B(j)
    BY <2>1
  <2>6. \A x : x \in S <=> x = 11 \/ \E j \in Js : x = E(j)
    <3> TAKE x
    <3>1. ASSUME NEW b \in SentBlocks(f), x = b[2] PROVE x = 11 \/ \E j \in Js : x = E(j)
      <4>1. CASE b = <<2, 11>>
        BY <2>3, <3>1, <4>1
      <4>2. ASSUME NEW j \in Js, b = B(j) PROVE x = E(j)
        BY <2>2, <3>1, <4>2
      <4> QED BY <2>5, <4>1, <4>2
    <3>2. x = 11 => \E b \in SentBlocks(f) : x = b[2]
      <4>1. <<2, 11>> \in SentBlocks(f)
        BY <2>5
      <4> QED BY <2>3, <4>1
    <3>3. ASSUME NEW j \in Js, x = E(j) PROVE \E b \in SentBlocks(f) : x = b[2]
      <4>1. B(j) \in SentBlocks(f) /\ x = B(j)[2]
        BY <2>2, <2>5, <3>3
      <4> QED BY <4>1
    <3> QED BY <2>4, <3>1, <3>2, <3>3
  <2> QED BY <2>6
<1> HIDE DEF S, l
<1>3. CASE l = 9
  <2>1. Js = {}
    BY <1>3
  <2>2. S = {11}
    BY <1>2, <2>1
  <2>3. Max(S) = 11
    BY <2>2, MaxIs
  <2> QED BY <1>3, <2>3 DEF SentLength, S, l
<1>4. CASE l > 9
  <2> DEFINE j == (l - 10) \div 16
  <2>1. j \in 0..15 /\ 16 * j <= l - 10 /\ l - 10 < 16 * j + 16
    BY <1>1, <1>4
  <2> HIDE DEF j
  <2>2. j \in Js /\ E(j) = l + 4 + 2 * j
    BY <1>1, <1>4, <2>1 DEF FsMin
  <2>3. \A k \in Js : E(k) \in Int /\ E(k) <= E(j)
    <3> TAKE k \in Js
    <3>1. k \in 0..15 /\ k <= j
      BY <1>1, <2>1
    <3>2. E(k) \in Int /\ E(k) <= l + 4 + 2 * k
      BY <1>1, <3>1 DEF FsMin
    <3> QED BY <1>1, <2>1, <2>2, <3>1, <3>2
  <2>4. 11 <= E(j) /\ E(j) \in Int
    BY <1>1, <1>4, <2>1, <2>2
  <2> HIDE DEF E, Js
  <2>5. S \in SUBSET Int /\ E(j) \in S /\ \A x \in S : E(j) >= x
    BY <1>2, <2>2, <2>3, <2>4
  <2>6. Max(S) = E(j)
    BY <2>5, MaxIs
  <2> QED BY <1>1, <1>4, <2>1, <2>2, <2>6 DEF SentLength, S, l, j
<1> QED BY <1>1, <1>3, <1>4 DEF l

LEMMA LengthSent ==
  ASSUME NEW f \in FsFrames
  PROVE  /\ SentLength(f) \in Nat /\ SentLength(f) >= 13
         /\ ~OneByteTail(f) => PacketLength(f.type, f.l) = SentLength(f)
<1>1. (f.type = "A" /\ f.l \in 9..255) \/ (f.type = "B" /\ f.l \in 11..253)
  BY FsAssumption
<1>2. CASE f.type = "B"
  BY <1>1, <1>2, LengthOfB DEF PacketLength
<1>3. CASE f.type = "A"
  <2> DEFINE l == f.l
  <2>1. l \in 9..255 /\ SentLength(f) = IF l = 9 THEN 13 ELSE l + 6 + 2 * ((l - 10) \div 16)
    BY <1>1, <1>3, LengthOfA
  <2>2. OneByteTail(f) <=> (l - 9) % 16 = 1
    BY <1>3 DEF OneByteTail
  <2> DEFINE more == Max({l - 10, 0})
  <2>3. PacketLength(f.type, l) = 2 + l + 2 * (1 + (more + 15) \div 16)
    BY <1>3 DEF PacketLength
  <2> HIDE DEF l, more
  <2>4. more = IF l < 10 THEN 0 ELSE l - 10
    <3>1. CASE l < 10
      <4>1. {l - 10, 0} \in SUBSET Int /\ 0 \in {l - 10, 0} /\ \A x \in {l - 10, 0} : 0 >= x
        BY <2>1, <3>1
      <4>2. Max({l - 10, 0}) = 0
        BY <4>1, MaxIs
      <4> QED BY <3>1, <4>2 DEF more
    <3>2. CASE l >= 10
      <4>1. {l - 10, 0} \in SUBSET Int /\ l - 10 \in {l - 10, 0} /\ \A x \in {l - 10, 0} : l - 10 >= x
        BY <2>1, <3>2
      <4>2. Max({l - 10, 0}) = l - 10
        BY <4>1, MaxIs
      <4> QED BY <2>1, <3>2, <4>2 DEF more
    <3> QED BY <2>1, <3>1, <3>2
  <2>5. CASE l = 9
    BY <2>1, <2>3, <2>4, <2>5 DEF l
  <2>6. CASE l > 9
    <3> DEFINE q == (l - 10) \div 16
               r == (l + 5) \div 16
    <3>1. q \in Nat /\ 16 * q <= l - 10 /\ l - 10 < 16 * q + 16
      BY <2>1, <2>6
    <3>2. r \in Nat /\ 16 * r <= l + 5 /\ l + 5 < 16 * r + 16
      BY <2>1, <2>6
    <3>3. SentLength(f) = l + 6 + 2 * q /\ PacketLength(f.type, l) = l + 4 + 2 * r
      <4>1. more + 15 = l + 5
        BY <2>1, <2>4, <2>6
      <4>2. PacketLength(f.type, l) = 2 + l + 2 * (1 + r)
        BY <2>3, <4>1
      <4> HIDE DEF r, q
      <4> QED BY <2>1, <2>6, <3>2, <4>2 DEF q
    <3> HIDE DEF q, r
    <3>4. ASSUME (l - 9) % 16 # 1 PROVE r = q + 1
      <4>1. l - 10 # 16 * q
        <5> SUFFICES ASSUME l - 10 = 16 * q PROVE FALSE
          OBVIOUS
        <5>1. l - 9 = 16 * q + 1
          BY <2>1
        <5>2. (16 * q + 1) % 16 = 1
          BY <3>1
        <5> QED BY <3>4, <5>1, <5>2
      <4> QED BY <2>1, <3>1, <3>2, <4>1
    <3>5. SentLength(f) \in Nat /\ SentLength(f) >= 13
      BY <2>1, <2>6, <3>1, <3>3
    <3> QED BY <2>1, <2>2, <3>1, <3>2, <3>3, <3>4, <3>5 DEF l
  <2> QED BY <2>1, <2>5, <2>6
<1> QED BY <1>1, <1>2, <1>3

(* What has been read, is buffered and is still on its way is the stream     *)
(* the meters sent: byte after byte, from the frame to be decoded next.     *)
FsTyped == fsAir \in [1..FsSent -> FsFrames] /\ fsFaults \in Nat /\ fsResets \in BOOLEAN
Undisturbed == fsFaults = 0 /\ ~fsResets /\ \A i \in 1..FsSent : ~OneByteTail(fsAir[i])

LengthAt(f) == SentLength(fsAir[f])
Successor(x)    == IF x[2] < LengthAt(x[1]) THEN <<x[1], x[2] + 1>> ELSE <<x[1] + 1, 1>>

WireOrdered ==
  /\ fsWire \in Seq(Seq(Nat \X Nat)) /\ Len(fsWire) <= FsSent
  /\ \A k \in 1..Len(fsWire) :
       LET f == FsSent - Len(fsWire) + k
       IN  /\ Len(fsWire[k]) \in 1..LengthAt(f) /\ (k > 1 => Len(fsWire[k]) = LengthAt(f))
           /\ \A i \in 1..Len(fsWire[k]) : fsWire[k][i] = <<f, LengthAt(f) - Len(fsWire[k]) + i>>

NextByte    == IF fsWire = <<>> THEN <<FsSent + 1, 1>> ELSE fsWire[1][1]
Upcoming    == [i \in 1..Len(fsBuffer) + 1 |-> IF i <= Len(fsBuffer) THEN fsBuffer[i] ELSE NextByte]

BufferOrdered ==
  /\ fsBuffer \in Seq(Nat \X Nat) /\ Upcoming[1] = <<Len(fsDecoded) + 1, 1>>
  /\ \A i \in 1..Len(fsBuffer) :
       /\ fsBuffer[i][1] \in 1..FsSent /\ fsBuffer[i][2] \in 1..LengthAt(fsBuffer[i][1])
       /\ Upcoming[i + 1] = Successor(fsBuffer[i])

DecodedOrdered ==
  /\ fsDecoded \in Seq([id : Nat, payload : SUBSET (Nat \X Nat)])
  /\ \A i \in 1..Len(fsDecoded) : fsDecoded[i].id = i

SizeKnown == fsExpected # 0 => fsExpected = LengthAt(Len(fsDecoded) + 1) /\ fsBuffer # <<>>

StreamInv ==
  FsTyped /\ (Undisturbed => WireOrdered /\ BufferOrdered /\ DecodedOrdered /\ SizeKnown)

LEMMA LengthsTyped ==
  ASSUME FsTyped, NEW f \in 1..FsSent
  PROVE  /\ fsAir[f] \in FsFrames /\ LengthAt(f) \in Nat /\ LengthAt(f) >= 13
         /\ Undisturbed => PacketLength(fsAir[f].type, fsAir[f].l) = LengthAt(f)
<1>1. fsAir[f] \in FsFrames
  BY DEF FsTyped
<1> QED BY <1>1, LengthSent DEF LengthAt, Undisturbed

LEMMA StreamStart == FsInit => StreamInv
<1> SUFFICES ASSUME FsInit PROVE StreamInv
  OBVIOUS
<1>1. FsTyped /\ FsSent \in Nat
  BY FsAssumption DEF FsInit, FsTyped
<1>2. fsWire = [k \in 1..FsSent |-> SentBytes(k, fsAir[k])] /\ fsBuffer = <<>> /\ fsDecoded = <<>> /\ fsExpected = 0
  BY DEF FsInit
<1>3. ASSUME NEW k \in 1..FsSent
      PROVE  /\ SentBytes(k, fsAir[k]) \in Seq(Nat \X Nat) /\ Len(SentBytes(k, fsAir[k])) = LengthAt(k)
             /\ \A i \in 1..LengthAt(k) : SentBytes(k, fsAir[k])[i] = <<k, i>>
             /\ LengthAt(k) \in Nat /\ LengthAt(k) >= 13
  <2>1. LengthAt(k) \in Nat /\ LengthAt(k) >= 13
    BY <1>1, LengthsTyped
  <2>2. SentBytes(k, fsAir[k]) = [i \in 1..LengthAt(k) |-> <<k, i>>]
    BY DEF SentBytes, LengthAt
  <2> HIDE DEF LengthAt, SentBytes
  <2>3. \A i \in 1..LengthAt(k) : <<k, i>> \in Nat \X Nat
    BY <1>1, <2>1
  <2> DEFINE n == LengthAt(k)
             s == SentBytes(k, fsAir[k])
  <2>4. n \in Nat /\ s = [i \in 1..n |-> <<k, i>>] /\ \A i \in 1..n : <<k, i>> \in Nat \X Nat
    BY <2>1, <2>2, <2>3
  <2> HIDE DEF n, s
  <2>5. s \in Seq(Nat \X Nat)
    BY <2>4
  <2>6. Len(s) = n
    BY <2>4
  <2>7. \A i \in 1..n : s[i] = <<k, i>>
    BY <2>4
  <2> QED BY <2>1, <2>5, <2>6, <2>7 DEF n, s
<1>4. fsWire \in Seq(Seq(Nat \X Nat)) /\ Len(fsWire) = FsSent
  <2>1. \A k \in 1..FsSent : SentBytes(k, fsAir[k]) \in Seq(Nat \X Nat)
    BY <1>3
  <2> HIDE DEF SentBytes
  <2> QED BY <1>1, <1>2, <2>1
<1>5. WireOrdered
  <2>0. fsWire \in Seq(Seq(Nat \X Nat)) /\ Len(fsWire) <= FsSent
    BY <1>1, <1>4
  <2> SUFFICES ASSUME NEW k \in 1..Len(fsWire)
               PROVE  LET f == FsSent - Len(fsWire) + k
                      IN  /\ Len(fsWire[k]) \in 1..LengthAt(f) /\ (k > 1 => Len(fsWire[k]) = LengthAt(f))
                          /\ \A i \in 1..Len(fsWire[k]) : fsWire[k][i] = <<f, LengthAt(f) - Len(fsWire[k]) + i>>
    BY <2>0 DEF WireOrdered
  <2>1. FsSent - Len(fsWire) + k = k /\ fsWire[k] = SentBytes(k, fsAir[k]) /\ k \in 1..FsSent
    BY <1>1, <1>2, <1>4
  <2> HIDE DEF SentBytes
  <2>2. Len(fsWire[k]) = LengthAt(k) /\ LengthAt(k) \in Nat /\ LengthAt(k) >= 13
        /\ \A i \in 1..LengthAt(k) : fsWire[k][i] = <<k, i>>
    BY <1>3, <2>1
  <2>3. \A i \in 1..LengthAt(k) : LengthAt(k) - LengthAt(k) + i = i
    BY <2>2
  <2> QED BY <2>1, <2>2, <2>3
<1>6. NextByte = <<1, 1>>
  <2>1. CASE FsSent = 0
    BY <1>4, <2>1 DEF NextByte
  <2>2. CASE FsSent > 0
    <3>0. 1 \in 1..FsSent /\ fsWire # <<>>
      BY <1>1, <1>4, <2>2
    <3>1. 1 \in 1..FsSent /\ fsWire # <<>> /\ fsWire[1] = SentBytes(1, fsAir[1])
      BY <1>2, <3>0
    <3>2. 1 \in 1..LengthAt(1) /\ SentBytes(1, fsAir[1])[1] = <<1, 1>>
      BY <1>3, <3>1
    <3> QED BY <3>1, <3>2 DEF NextByte
  <2> QED BY <1>1, <2>1, <2>2
<1>7. BufferOrdered
  <2>1. Len(fsBuffer) = 0 /\ Len(fsDecoded) = 0 /\ fsBuffer \in Seq(Nat \X Nat)
    BY <1>2
  <2> QED BY <1>6, <2>1 DEF BufferOrdered, Upcoming
<1>8. DecodedOrdered /\ SizeKnown
  BY <1>2 DEF DecodedOrdered, SizeKnown
<1> QED BY <1>1, <1>5, <1>7, <1>8 DEF StreamInv

(* The frame to be decoded next is at the front of the buffer.             *)
LEMMA FrameInFront ==
  ASSUME FsTyped, BufferOrdered, DecodedOrdered, fsBuffer # <<>>
  PROVE  LET d == Len(fsDecoded) + 1
         IN  /\ d \in 1..FsSent
             /\ \A i \in 1..LengthAt(d) : i <= Len(fsBuffer) => fsBuffer[i] = <<d, i>>
<1> DEFINE d == Len(fsDecoded) + 1
           T == {i \in 1..LengthAt(d) : i <= Len(fsBuffer) /\ fsBuffer[i] # <<d, i>>}
<1>1. /\ Len(fsBuffer) \in Nat /\ Len(fsBuffer) >= 1 /\ d \in Nat /\ FsSent \in Nat
  <2>1. fsBuffer \in Seq(Nat \X Nat) /\ Len(fsDecoded) \in Nat
    BY DEF BufferOrdered, DecodedOrdered
  <2> QED BY <2>1, FsAssumption
<1>2. fsBuffer[1] = <<d, 1>>
  BY <1>1 DEF BufferOrdered, Upcoming
<1>3. fsBuffer[1][1] \in 1..FsSent
  BY <1>1 DEF BufferOrdered
<1>4. d \in 1..FsSent
  BY <1>2, <1>3
<1>5. LengthAt(d) \in Nat /\ LengthAt(d) >= 13
  BY <1>4, LengthsTyped
<1> HIDE DEF d
<1>6. T = {}
  <2> SUFFICES ASSUME T # {} PROVE FALSE
    OBVIOUS
  <2>1. T \in SUBSET Nat
    BY <1>5
  <2>2. PICK x \in T : \A y \in T : x <= y
    <3> HIDE DEF T
    <3> QED BY <2>1, LeastNatural
  <2>3. x \in 2..LengthAt(d) /\ x <= Len(fsBuffer) /\ fsBuffer[x] # <<d, x>>
    BY <1>2, <1>5
  <2> DEFINE w == x - 1
  <2>4. w \in 1..LengthAt(d) /\ w <= Len(fsBuffer) /\ w < LengthAt(d) /\ w + 1 = x /\ w \in 1..Len(fsBuffer)
    BY <1>1, <1>5, <2>3
  <2>5. fsBuffer[w] = <<d, w>>
    <3>1. w \notin T
      BY <2>2, <2>4
    <3> QED BY <2>4, <3>1
  <2> HIDE DEF w
  <2>6. fsBuffer[x] = Successor(fsBuffer[w])
    <3>1. Upcoming[w + 1] = Successor(fsBuffer[w])
      BY <2>4 DEF BufferOrdered
    <3>2. x \in 1..Len(fsBuffer) + 1 /\ x <= Len(fsBuffer)
      BY <1>1, <2>3
    <3>3. Upcoming[x] = fsBuffer[x]
      BY <3>2 DEF Upcoming
    <3> QED BY <2>4, <3>1, <3>3
  <2>7. Successor(fsBuffer[w]) = <<d, x>>
    BY <2>4, <2>5 DEF Successor
  <2> QED BY <2>3, <2>6, <2>7
<1> QED BY <1>4, <1>6 DEF d

(* Cutting a sequence in two, and joining two.                              *)
LEMMA CutInTwo ==
  ASSUME NEW S, NEW s \in Seq(S), NEW k \in 0..Len(s)
  PROVE  /\ SubSeq(s, 1, k) \in Seq(S) /\ Len(SubSeq(s, 1, k)) = k
         /\ \A i \in 1..k : SubSeq(s, 1, k)[i] = s[i]
         /\ SubSeq(s, k + 1, Len(s)) \in Seq(S) /\ Len(SubSeq(s, k + 1, Len(s))) = Len(s) - k
         /\ \A i \in 1..Len(s) - k : SubSeq(s, k + 1, Len(s))[i] = s[k + i]
<1>1. Len(s) \in Nat /\ k \in Nat /\ k <= Len(s)
  OBVIOUS
<1>2. \A i \in 1..Len(s) : s[i] \in S
  OBVIOUS
<1>3. SubSeq(s, 1, k) \in Seq(S) /\ Len(SubSeq(s, 1, k)) = k
  BY <1>1, <1>2
<1>4. \A i \in 1..k : SubSeq(s, 1, k)[i] = s[i]
  BY <1>1
<1>5. SubSeq(s, k + 1, Len(s)) \in Seq(S) /\ Len(SubSeq(s, k + 1, Len(s))) = Len(s) - k
  BY <1>1, <1>2
<1>6. \A i \in 1..Len(s) - k : SubSeq(s, k + 1, Len(s))[i] = s[k + i]
  BY <1>1
<1> QED BY <1>3, <1>4, <1>5, <1>6

LEMMA TwoJoined ==
  ASSUME NEW S, NEW s \in Seq(S), NEW t \in Seq(S)
  PROVE  /\ s \o t \in Seq(S) /\ Len(s \o t) = Len(s) + Len(t) /\ Len(s) \in Nat /\ Len(t) \in Nat
         /\ \A i \in 1..Len(s) : (s \o t)[i] = s[i]
         /\ \A i \in 1..Len(t) : (s \o t)[Len(s) + i] = t[i]
OBVIOUS

(* A chunk that arrives unharmed moves bytes from the wire to the buffer.    *)
ChunkTaken(size) ==
  LET rest == SubSeq(Pending, size + 1, Len(Pending))
  IN  /\ fsBuffer' = fsBuffer \o SubSeq(Pending, 1, size)
      /\ fsWire' = (IF rest = <<>> THEN <<>> ELSE <<rest>>) \o Tail(fsWire)
      /\ fsAir' = fsAir /\ fsDecoded' = fsDecoded

LEMMA ChunkOrdered ==
  ASSUME FsTyped, WireOrdered, BufferOrdered, fsWire # <<>>, NEW n \in FsChunks,
         ChunkTaken(FsMin(n, Len(Pending)))
  PROVE  WireOrdered' /\ BufferOrdered' /\ fsBuffer' # <<>>
<1> DEFINE P == fsWire[1]
           m == Len(P)
           w == Len(fsWire)
           f == FsSent - w + 1
           q == LengthAt(f) - m
           size == FsMin(n, m)
           chunk == SubSeq(P, 1, size)
           rest == SubSeq(P, size + 1, m)
           b == Len(fsBuffer)
<1>1. /\ w \in Nat /\ w >= 1 /\ w <= FsSent /\ FsSent \in Nat /\ f \in 1..FsSent /\ P \in Seq(Nat \X Nat)
      /\ fsWire \in Seq(Seq(Nat \X Nat)) /\ fsBuffer \in Seq(Nat \X Nat) /\ b \in Nat /\ m \in Nat
  <2>1. fsWire \in Seq(Seq(Nat \X Nat)) /\ Len(fsWire) <= FsSent /\ FsSent \in Nat /\ fsBuffer \in Seq(Nat \X Nat)
    BY FsAssumption DEF WireOrdered, BufferOrdered
  <2> QED BY <2>1
<1>2. LengthAt(f) \in Nat /\ LengthAt(f) >= 13
  BY <1>1, LengthsTyped
<1>3. m \in 1..LengthAt(f) /\ \A i \in 1..m : P[i] = <<f, q + i>>
  <2>1. 1 \in 1..Len(fsWire)
    BY <1>1
  <2> QED BY <2>1 DEF WireOrdered
<1>4. Pending = P
  BY <1>1 DEF Pending
<1>5. size \in 1..m
  <2>1. n \in Nat \ {0}
    BY FsAssumption
  <2> QED BY <1>3, <2>1 DEF FsMin
<1>6. q \in Nat /\ q + m = LengthAt(f)
  BY <1>2, <1>3
<1>7. /\ fsBuffer' = fsBuffer \o chunk /\ fsWire' = (IF rest = <<>> THEN <<>> ELSE <<rest>>) \o Tail(fsWire)
      /\ fsAir' = fsAir /\ fsDecoded' = fsDecoded
  BY <1>4 DEF ChunkTaken
<1> HIDE DEF P, m, w, q, size
<1>8. /\ chunk \in Seq(Nat \X Nat) /\ Len(chunk) = size /\ \A i \in 1..size : chunk[i] = <<f, q + i>>
      /\ rest \in Seq(Nat \X Nat) /\ Len(rest) = m - size /\ \A i \in 1..m - size : rest[i] = <<f, q + size + i>>
  <2>1. P \in Seq(Nat \X Nat) /\ Len(P) = m /\ size \in 1..m /\ m \in Nat
    BY <1>1, <1>5 DEF m
  <2>0. size \in 0..Len(P)
    BY <2>1
  <2>2. chunk \in Seq(Nat \X Nat) /\ Len(chunk) = size /\ \A i \in 1..size : chunk[i] = P[i]
    BY <2>0, <2>1, CutInTwo
  <2>3. rest \in Seq(Nat \X Nat) /\ Len(rest) = m - size /\ \A i \in 1..m - size : rest[i] = P[size + i]
    BY <2>0, <2>1, CutInTwo
  <2>4. \A i \in 1..m - size : size + i \in 1..m /\ q + (size + i) = q + size + i
    BY <1>6, <2>1
  <2>5. \A i \in 1..size : i \in 1..m
    BY <2>1
  <2> HIDE DEF chunk, rest
  <2> QED BY <1>3, <2>2, <2>3, <2>4, <2>5
<1> HIDE DEF chunk, rest
<1>9. /\ fsBuffer' \in Seq(Nat \X Nat) /\ Len(fsBuffer') = b + size
      /\ \A i \in 1..b : fsBuffer'[i] = fsBuffer[i]
      /\ \A i \in 1..size : fsBuffer'[b + i] = <<f, q + i>>
  <2>1. fsBuffer \in Seq(Nat \X Nat) /\ chunk \in Seq(Nat \X Nat) /\ b = Len(fsBuffer) /\ size = Len(chunk)
    BY <1>1, <1>8
  <2>2. /\ fsBuffer \o chunk \in Seq(Nat \X Nat) /\ Len(fsBuffer \o chunk) = b + size
        /\ \A i \in 1..b : (fsBuffer \o chunk)[i] = fsBuffer[i]
        /\ \A i \in 1..size : (fsBuffer \o chunk)[b + i] = chunk[i]
    <3> HIDE DEF b
    <3> QED BY <2>1, TwoJoined
  <2> HIDE DEF b
  <2> QED BY <1>7, <1>8, <2>2
<1>10. /\ WireOrdered'
       /\ NextByte' = IF size < m THEN <<f, q + size + 1>> ELSE <<f + 1, 1>>
  <2> DEFINE tail == Tail(fsWire)
  <2>1. /\ tail \in Seq(Seq(Nat \X Nat)) /\ Len(tail) = w - 1
        /\ \A k \in 1..w - 1 : tail[k] = fsWire[k + 1]
    BY <1>1 DEF w
  <2> HIDE DEF tail
  <2>2. ASSUME NEW k \in 2..w
        PROVE  LET g == FsSent - w + k
               IN  /\ g \in 1..FsSent /\ Len(fsWire[k]) = LengthAt(g) /\ LengthAt(g) \in Nat /\ LengthAt(g) >= 13
                   /\ \A i \in 1..LengthAt(g) : fsWire[k][i] = <<g, i>>
    <3> DEFINE g == FsSent - w + k
    <3>1. k \in 1..Len(fsWire) /\ k > 1 /\ g \in 1..FsSent
      BY <1>1 DEF w
    <3>2. LengthAt(g) \in Nat /\ LengthAt(g) >= 13
      BY <3>1, LengthsTyped
    <3>3. Len(fsWire[k]) = LengthAt(g) /\ \A i \in 1..Len(fsWire[k]) : fsWire[k][i] = <<g, LengthAt(g) - Len(fsWire[k]) + i>>
      BY <3>1 DEF WireOrdered, w
    <3> HIDE DEF g
    <3>4. \A i \in 1..LengthAt(g) : LengthAt(g) - LengthAt(g) + i = i
      BY <3>2
    <3> QED BY <3>1, <3>2, <3>3, <3>4 DEF g
  <2>3. CASE rest = <<>>
    <3>1. size = m /\ fsWire' = tail
      <4>1. Len(rest) = 0
        BY <2>3
      <4>2. size = m
        BY <1>1, <1>5, <1>8, <4>1
      <4> QED BY <1>7, <2>1, <2>3, <4>2 DEF tail
    <3>2. WireOrdered'
      <4>1. fsWire' \in Seq(Seq(Nat \X Nat)) /\ Len(fsWire') = w - 1 /\ w - 1 <= FsSent
        BY <1>1, <2>1, <3>1
      <4>2. ASSUME NEW k \in 1..w - 1
            PROVE  LET g == FsSent - (w - 1) + k
                   IN  /\ Len(fsWire'[k]) \in 1..LengthAt(g) /\ Len(fsWire'[k]) = LengthAt(g)
                       /\ \A i \in 1..Len(fsWire'[k]) : fsWire'[k][i] = <<g, LengthAt(g) - Len(fsWire'[k]) + i>>
        <5> DEFINE g == FsSent - (w - 1) + k
        <5>1. k + 1 \in 2..w /\ FsSent - w + (k + 1) = g /\ fsWire'[k] = fsWire[k + 1]
          BY <1>1, <2>1, <3>1
        <5> HIDE DEF g
        <5>2. /\ Len(fsWire'[k]) = LengthAt(g) /\ LengthAt(g) \in Nat /\ LengthAt(g) >= 13
              /\ \A i \in 1..LengthAt(g) : fsWire'[k][i] = <<g, i>>
          BY <2>2, <5>1
        <5>3. \A i \in 1..LengthAt(g) : LengthAt(g) - LengthAt(g) + i = i
          BY <5>2
        <5> QED BY <5>2, <5>3 DEF g
      <4>3. \A g : LengthAt(g)' = LengthAt(g)
        BY <1>7 DEF LengthAt
      <4> QED BY <4>1, <4>2, <4>3 DEF WireOrdered
    <3>3. NextByte' = <<f + 1, 1>>
      <4>1. CASE w = 1
        <5>1. Len(tail) = 0
          BY <2>1, <4>1
        <5>2. tail = <<>> /\ f = FsSent
          BY <1>1, <2>1, <4>1, <5>1 DEF f
        <5> QED BY <3>1, <5>2 DEF NextByte
      <4>2. CASE w > 1
        <5>1. 2 \in 2..w /\ FsSent - w + 2 = f + 1 /\ tail[1] = fsWire[2] /\ Len(tail) > 0
          BY <1>1, <2>1, <4>2
        <5>2. tail # <<>>
          BY <2>1, <5>1
        <5>3. fsWire[2][1] = <<f + 1, 1>>
          BY <2>2, <5>1
        <5> QED BY <3>1, <5>1, <5>2, <5>3 DEF NextByte
      <4> QED BY <1>1, <4>1, <4>2
    <3> QED BY <1>1, <3>1, <3>2, <3>3
  <2>4. CASE rest # <<>>
    <3>1. size < m /\ fsWire' = <<rest>> \o tail
      <4>1. Len(rest) # 0
        BY <1>8, <2>4
      <4>2. size < m
        BY <1>1, <1>5, <1>8, <4>1
      <4> QED BY <1>7, <2>4, <4>2 DEF tail
    <3>a. /\ fsWire' \in Seq(Seq(Nat \X Nat)) /\ Len(fsWire') = w /\ fsWire'[1] = rest
          /\ \A k \in 2..w : fsWire'[k] = fsWire[k]
      <4>1. <<rest>> \in Seq(Seq(Nat \X Nat)) /\ Len(<<rest>>) = 1 /\ <<rest>>[1] = rest
        BY <1>8
      <4>2. \A k \in 2..w : k - 1 \in 1..w - 1 /\ (k - 1) + 1 = k /\ 1 + (k - 1) = k
        BY <1>1
      <4> DEFINE new == <<rest>>
      <4> HIDE DEF new
      <4>3. new \in Seq(Seq(Nat \X Nat)) /\ Len(new) = 1 /\ new[1] = rest
        BY <4>1 DEF new
      <4>4. /\ new \o tail \in Seq(Seq(Nat \X Nat)) /\ Len(new \o tail) = 1 + (w - 1)
            /\ (new \o tail)[1] = rest /\ \A i \in 1..w - 1 : (new \o tail)[1 + i] = tail[i]
        <5> DEFINE S == Seq(Nat \X Nat)
        <5>1. new \in Seq(S) /\ tail \in Seq(S)
          BY <2>1, <4>3
        <5> HIDE DEF S
        <5>2. /\ new \o tail \in Seq(S) /\ Len(new \o tail) = Len(new) + Len(tail)
              /\ \A i \in 1..Len(new) : (new \o tail)[i] = new[i]
              /\ \A i \in 1..Len(tail) : (new \o tail)[Len(new) + i] = tail[i]
          BY <5>1, TwoJoined
        <5>3. 1 \in 1..Len(new)
          BY <4>3
        <5> QED BY <2>1, <4>3, <5>2, <5>3 DEF S
      <4>5. fsWire' = new \o tail /\ 1 + (w - 1) = w
        BY <1>1, <3>1 DEF new
      <4> QED BY <2>1, <4>2, <4>4, <4>5
    <3>2. WireOrdered'
      <4>2. ASSUME NEW k \in 1..w
            PROVE  LET g == FsSent - w + k
                   IN  /\ Len(fsWire'[k]) \in 1..LengthAt(g) /\ (k > 1 => Len(fsWire'[k]) = LengthAt(g))
                       /\ \A i \in 1..Len(fsWire'[k]) : fsWire'[k][i] = <<g, LengthAt(g) - Len(fsWire'[k]) + i>>
        <5>1. CASE k > 1
          <6>1. k \in 1..Len(fsWire) /\ fsWire'[k] = fsWire[k]
            BY <3>a, <5>1 DEF w
          <6> QED BY <6>1 DEF WireOrdered, w
        <5>2. CASE k = 1
          <6>1. FsSent - w + k = f /\ fsWire'[k] = rest /\ ~(k > 1) /\ Len(rest) = m - size
            BY <1>8, <3>a, <5>2 DEF f
          <6>2. m - size \in 1..LengthAt(f) /\ LengthAt(f) - (m - size) = q + size
            BY <1>1, <1>2, <1>3, <1>5, <1>6, <3>1
          <6> HIDE DEF f
          <6> QED BY <1>8, <6>1, <6>2
        <5>3. k > 1 \/ k = 1
          BY <1>1
        <5> QED BY <5>1, <5>2, <5>3
      <4>3. \A g : LengthAt(g)' = LengthAt(g)
        BY <1>7 DEF LengthAt
      <4> QED BY <1>1, <3>a, <4>2, <4>3 DEF WireOrdered
    <3>3. NextByte' = <<f, q + size + 1>>
      <4>1. fsWire' # <<>>
        BY <1>1, <3>a
      <4>2. 1 \in 1..m - size
        BY <1>1, <1>5, <3>1
      <4> QED BY <1>8, <3>a, <4>1, <4>2 DEF NextByte
    <3> QED BY <1>1, <3>1, <3>2, <3>3
  <2> QED BY <2>3, <2>4
<1>11. NextByte = <<f, q + 1>>
  <2>1. 1 \in 1..m /\ fsWire # <<>>
    BY <1>1, <1>3 DEF w
  <2> QED BY <1>3, <2>1 DEF NextByte, P
<1>12. BufferOrdered'
  <2>1. fsDecoded' = fsDecoded /\ \A g : LengthAt(g)' = LengthAt(g)
    BY <1>7 DEF LengthAt
  <2>2. \A x : Successor(x)' = Successor(x)
    BY <2>1 DEF Successor
  <2> DEFINE next == IF size < m THEN <<f, q + size + 1>> ELSE <<f + 1, 1>>
  <2>3. /\ \A i \in 1..b : Upcoming[i] = fsBuffer[i] /\ Upcoming'[i] = fsBuffer[i]
        /\ \A i \in 1..size : Upcoming'[b + i] = <<f, q + i>>
        /\ Upcoming[b + 1] = <<f, q + 1>> /\ Upcoming'[b + size + 1] = next
    <3>1. \A i \in 1..b : i <= Len(fsBuffer) /\ i <= Len(fsBuffer')
      BY <1>1, <1>5, <1>9
    <3>2. \A i \in 1..size : b + i <= Len(fsBuffer')
      BY <1>1, <1>5, <1>9
    <3>3. ~(b + 1 <= Len(fsBuffer)) /\ ~(b + size + 1 <= Len(fsBuffer'))
      <4> DEFINE c == Len(fsBuffer')
      <4>1. c = b + size /\ b \in Nat /\ size \in Nat
        BY <1>1, <1>5, <1>9
      <4> HIDE DEF c
      <4>2. ~(b + size + 1 <= c)
        <5> HIDE DEF b
        <5> QED BY <4>1
      <4>3. ~(b + 1 <= b)
        <5> HIDE DEF b
        <5> QED BY <4>1
      <4> QED BY <4>2, <4>3 DEF c
    <3>4. NextByte' = next
      BY <1>10
    <3> DEFINE c == Len(fsBuffer')
    <3>5. /\ \A i \in 1..b : i \in 1..b + 1 /\ i \in 1..c + 1
          /\ \A i \in 1..size : b + i \in 1..c + 1
          /\ b + 1 \in 1..b + 1 /\ b + size + 1 \in 1..c + 1
      <4>1. c = b + size /\ b \in Nat /\ size \in Nat
        BY <1>1, <1>5, <1>9
      <4> HIDE DEF b, c
      <4>2. \A i \in 1..b : i \in 1..b + 1 /\ i \in 1..c + 1
        BY <4>1
      <4>3. \A i \in 1..size : b + i \in 1..c + 1
        BY <4>1
      <4>4. b + 1 \in 1..b + 1 /\ b + size + 1 \in 1..c + 1
        BY <4>1
      <4> QED BY <4>2, <4>3, <4>4
    <3> HIDE DEF next, b, c, f
    <3>6. Upcoming = [i \in 1..b + 1 |-> IF i <= b THEN fsBuffer[i] ELSE NextByte]
      BY DEF Upcoming, b
    <3>7. Upcoming' = [i \in 1..c + 1 |-> IF i <= c THEN fsBuffer'[i] ELSE next]
      BY <3>4 DEF Upcoming, c
    <3>8. \A i \in 1..b : Upcoming[i] = fsBuffer[i] /\ Upcoming'[i] = fsBuffer[i]
      BY <1>9, <3>1, <3>5, <3>6, <3>7 DEF b, c
    <3>9. \A i \in 1..size : Upcoming'[b + i] = <<f, q + i>>
      BY <1>9, <3>2, <3>5, <3>7 DEF c
    <3>10. Upcoming[b + 1] = <<f, q + 1>> /\ Upcoming'[b + size + 1] = next
      BY <1>11, <3>3, <3>5, <3>6, <3>7 DEF b, c
    <3> QED BY <3>8, <3>9, <3>10
  <2>4. \A i \in 1..size : Successor(<<f, q + i>>) = IF i < size THEN <<f, q + (i + 1)>> ELSE next
    <3> TAKE i \in 1..size
    <3>1. CASE i < m
      <4>1. q + i < LengthAt(f) /\ (q + i) + 1 = q + (i + 1)
        BY <1>2, <1>3, <1>5, <1>6, <3>1
      <4>2. Successor(<<f, q + i>>) = <<f, q + (i + 1)>>
        BY <4>1 DEF Successor
      <4>3. i < size \/ (i = size /\ size < m /\ q + (i + 1) = q + size + 1)
        BY <1>1, <1>5, <1>6, <3>1
      <4> HIDE DEF f
      <4> QED BY <4>2, <4>3
    <3>2. CASE i = m
      <4>1. ~(q + i < LengthAt(f)) /\ size = m /\ ~(i < size) /\ ~(size < m)
        BY <1>1, <1>2, <1>3, <1>5, <1>6, <3>2
      <4>2. Successor(<<f, q + i>>) = <<f + 1, 1>>
        BY <4>1 DEF Successor
      <4> HIDE DEF f
      <4> QED BY <4>1, <4>2
    <3>3. i < m \/ i = m
      BY <1>1, <1>5
    <3> QED BY <3>1, <3>2, <3>3
  <2> HIDE DEF next
  <2>5. Upcoming'[1] = Upcoming[1]
    <3>1. CASE b = 0
      <4>1. 1 \in 1..size /\ b + 1 = 1
        BY <1>5, <3>1
      <4> HIDE DEF b, f
      <4> QED BY <2>3, <4>1
    <3>2. CASE b >= 1
      <4>1. 1 \in 1..b
        BY <1>1, <3>2
      <4> HIDE DEF b, f
      <4> QED BY <2>3, <4>1
    <3> QED BY <1>1, <3>1, <3>2
  <2>6. ASSUME NEW i \in 1..b
        PROVE  /\ fsBuffer'[i][1] \in 1..FsSent /\ fsBuffer'[i][2] \in 1..LengthAt(fsBuffer'[i][1])
               /\ Upcoming'[i + 1] = Successor(fsBuffer'[i])
    <3>1. /\ fsBuffer[i][1] \in 1..FsSent /\ fsBuffer[i][2] \in 1..LengthAt(fsBuffer[i][1])
          /\ Upcoming[i + 1] = Successor(fsBuffer[i])
      BY DEF BufferOrdered
    <3>2. Upcoming'[i + 1] = Upcoming[i + 1]
      <4>1. i + 1 \in 1..b \/ (i + 1 = b + 1 /\ 1 \in 1..size)
        BY <1>1, <1>5
      <4> HIDE DEF b, f
      <4> QED BY <2>3, <4>1
    <3>3. fsBuffer'[i] = fsBuffer[i]
      BY <1>9
    <3> QED BY <3>1, <3>2, <3>3
  <2>7. ASSUME NEW i \in 1..size
        PROVE  /\ fsBuffer'[b + i][1] \in 1..FsSent /\ fsBuffer'[b + i][2] \in 1..LengthAt(fsBuffer'[b + i][1])
               /\ Upcoming'[b + i + 1] = Successor(fsBuffer'[b + i])
    <3>0. q + i \in 1..LengthAt(f)
      BY <1>1, <1>2, <1>5, <1>6
    <3>1. fsBuffer'[b + i] = <<f, q + i>> /\ q + i \in 1..LengthAt(f)
      BY <1>9, <3>0
    <3>2. Upcoming'[b + i + 1] = IF i < size THEN <<f, q + (i + 1)>> ELSE next
      <4>1. CASE i < size
        <5>1. i + 1 \in 1..size /\ b + i + 1 = b + (i + 1)
          BY <1>1, <1>5, <4>1
        <5> HIDE DEF b, f
        <5> QED BY <2>3, <4>1, <5>1
      <4>2. CASE i = size
        <5>1. ~(i < size)
          BY <1>1, <1>5, <4>2
        <5> HIDE DEF b, f
        <5> QED BY <2>3, <4>2, <5>1
      <4>3. i < size \/ i = size
        BY <1>1, <1>5
      <4> QED BY <4>1, <4>2, <4>3
    <3>3. Successor(<<f, q + i>>) = IF i < size THEN <<f, q + (i + 1)>> ELSE next
      BY <2>4
    <3>4. f \in 1..FsSent
      BY <1>1
    <3> HIDE DEF f, b
    <3> QED BY <3>1, <3>2, <3>3, <3>4
  <2>8. \A i \in 1..Len(fsBuffer') : i \in 1..b \/ \E j \in 1..size : i = b + j
    <3> TAKE i \in 1..Len(fsBuffer')
    <3>1. CASE i <= b
      BY <1>1, <1>9, <3>1
    <3>2. CASE i > b
      <4>1. i - b \in 1..size /\ i = b + (i - b)
        BY <1>1, <1>5, <1>9, <3>2
      <4> HIDE DEF b
      <4> QED BY <4>1
    <3> QED BY <1>1, <1>9, <3>1, <3>2
  <2>9. ASSUME NEW i \in 1..Len(fsBuffer')
        PROVE  /\ fsBuffer'[i][1] \in 1..FsSent /\ fsBuffer'[i][2] \in 1..LengthAt(fsBuffer'[i][1])
               /\ Upcoming'[i + 1] = Successor(fsBuffer'[i])
    <3>1. CASE i \in 1..b
      BY <2>6, <3>1
    <3>2. ASSUME NEW j \in 1..size, i = b + j
          PROVE  /\ fsBuffer'[i][1] \in 1..FsSent /\ fsBuffer'[i][2] \in 1..LengthAt(fsBuffer'[i][1])
                 /\ Upcoming'[i + 1] = Successor(fsBuffer'[i])
      <4> HIDE DEF b
      <4> QED BY <2>7, <3>2
    <3> QED BY <2>8, <3>1, <3>2
  <2>10. Upcoming'[1] = <<Len(fsDecoded') + 1, 1>>
    BY <2>1, <2>5 DEF BufferOrdered
  <2> QED BY <1>9, <2>1, <2>2, <2>9, <2>10 DEF BufferOrdered
<1>13. Len(fsBuffer') >= 1
  BY <1>1, <1>5, <1>9
<1>14. fsBuffer' # <<>>
  <2>1. ASSUME fsBuffer' = <<>> PROVE Len(fsBuffer') = 0
    BY <2>1
  <2>2. b + size \in Nat
    BY <1>1, <1>5
  <2> QED BY <1>9, <1>13, <2>1, <2>2
<1> QED BY <1>10, <1>12, <1>14

(* A frame's blocks lie within it.                                         *)
LEMMA BlocksWithin ==
  ASSUME NEW f \in FsFrames, NEW x \in SentBlocks(f)
  PROVE  /\ x[1] \in Int /\ x[2] \in Int /\ 2 <= x[1] /\ x[1] <= x[2] /\ x[2] + 2 <= SentLength(f)
         /\ x = <<x[1], x[2]>>
<1>1. (f.type = "A" /\ f.l \in 9..255) \/ (f.type = "B" /\ f.l \in 11..253)
  BY FsAssumption
<1>2. CASE f.type = "B"
  <2>1. x = <<2, f.l>>
    BY <1>2 DEF SentBlocks
  <2>2. x[1] = 2 /\ x[2] = f.l /\ f.l \in 11..253 /\ SentLength(f) = f.l + 2
    BY <1>1, <1>2, <2>1, LengthOfB
  <2> QED BY <2>1, <2>2
<1>3. CASE f.type = "A"
  <2> DEFINE l == f.l
             E(j) == 13 + 18 * j + FsMin(16, l - 9 - 16 * j)
  <2>1. l \in 9..255 /\ SentLength(f) = IF l = 9 THEN 13 ELSE l + 6 + 2 * ((l - 10) \div 16)
    BY <1>1, <1>3, LengthOfA
  <2>2. x = <<2, 11>> \/ \E j \in {k \in 0..15 : 16 * k < l - 9} : x = <<14 + 18 * j, E(j)>>
    BY <1>3 DEF SentBlocks
  <2>3. SentLength(f) \in Nat /\ SentLength(f) >= 13
    BY LengthSent
  <2> HIDE DEF l
  <2>4. CASE x = <<2, 11>>
    <3>1. x[1] = 2 /\ x[2] = 11
      BY <2>4
    <3> QED BY <2>3, <2>4, <3>1
  <2>5. ASSUME NEW j \in 0..15, 16 * j < l - 9, x = <<14 + 18 * j, E(j)>>
        PROVE  /\ x[1] \in Int /\ x[2] \in Int /\ 2 <= x[1] /\ x[1] <= x[2] /\ x[2] + 2 <= SentLength(f)
               /\ x = <<x[1], x[2]>>
    <3> DEFINE q == (l - 10) \div 16
    <3>1. q \in Nat /\ 16 * q <= l - 10 /\ l - 10 < 16 * q + 16 /\ l > 9
      BY <2>1, <2>5
    <3>2. SentLength(f) = l + 6 + 2 * q
      BY <2>1, <3>1
    <3> HIDE DEF q
    <3>3. E(j) \in Int /\ 14 + 18 * j <= E(j) /\ E(j) <= l + 4 + 2 * j
      BY <2>1, <2>5 DEF FsMin
    <3>4. j <= q
      BY <2>1, <2>5, <3>1
    <3>5. x[1] = 14 + 18 * j /\ x[2] = E(j)
      BY <2>5
    <3> HIDE DEF E
    <3> QED BY <2>1, <2>5, <3>1, <3>2, <3>3, <3>4, <3>5
  <2> QED BY <2>2, <2>4, <2>5
<1> QED BY <1>1, <1>2, <1>3

(* A frame that is whole is decoded.                                       *)
LEMMA FrameDecoded ==
  ASSUME FsTyped, Undisturbed, WireOrdered, BufferOrdered, DecodedOrdered, SizeKnown, DecodeFrame
  PROVE  LET d == Len(fsDecoded) + 1
         IN  /\ fsBuffer' = SubSeq(fsBuffer, LengthAt(d) + 1, Len(fsBuffer)) /\ LengthAt(d) <= Len(fsBuffer)
             /\ d \in 1..FsSent /\ \A i \in 1..LengthAt(d) : fsBuffer[i] = <<d, i>>
             /\ \E payload \in SUBSET (Nat \X Nat) : fsDecoded' = Append(fsDecoded, [id |-> d, payload |-> payload])
<1> DEFINE d == Len(fsDecoded) + 1
           N == LengthAt(d)
           b == Len(fsBuffer)
           raw == SubSeq(fsBuffer, 1, fsExpected)
           fr == fsAir[d]
<1>1. fsExpected = N /\ fsBuffer # <<>> /\ b >= N
  BY DEF DecodeFrame, SizeKnown
<1>2. d \in 1..FsSent /\ \A i \in 1..N : i <= b => fsBuffer[i] = <<d, i>>
  BY <1>1, FrameInFront
<1>3. /\ N \in Nat /\ N >= 13 /\ fr \in FsFrames /\ N = SentLength(fr) /\ b \in Nat /\ fsBuffer \in Seq(Nat \X Nat)
      /\ d \in Nat /\ FsSent \in Nat
  BY <1>2, LengthsTyped, FsAssumption DEF BufferOrdered, DecodedOrdered, LengthAt
<1> HIDE DEF d, b, N, fr
<1>4. \A i \in 1..N : fsBuffer[i] = <<d, i>>
  BY <1>1, <1>2, <1>3
<1>5. Len(raw) = N /\ \A i \in 1..N : raw[i] = <<d, i>>
  <2>1. N \in 0..Len(fsBuffer)
    BY <1>1, <1>3 DEF b
  <2> QED BY <1>1, <1>3, <1>4, <2>1, CutInTwo
<1> HIDE DEF raw
<1>6. /\ IsSync(raw[1]) /\ SyncType(raw[1]) = fr.type /\ ByteValue(raw[2]) = fr.l
  <2>1. raw[1] = <<d, 1>> /\ raw[2] = <<d, 2>>
    BY <1>3, <1>5
  <2> QED BY <2>1 DEF IsSync, SyncType, ByteValue, FrameOf, fr
<1>7. \A x \in SentBlocks(fr) : x[1] \in Int /\ x[2] \in Int /\ 2 <= x[1] /\ x[1] <= x[2] /\ x[2] + 2 <= N /\ x = <<x[1], x[2]>>
  BY <1>3, BlocksWithin
<1>8. ASSUME NEW x \in SentBlocks(fr) PROVE BlockValid(raw, x[1], x[2])
  <2> DEFINE u == x[1]
             v == x[2]
  <2>1. u \in Int /\ v \in Int /\ 2 <= u /\ u <= v /\ v + 2 <= N /\ x = <<u, v>>
    BY <1>7
  <2> HIDE DEF u, v
  <2>2. raw[u] = <<d, u>> /\ \A i \in u..v + 2 : raw[i] = <<d, i>>
    BY <1>3, <1>5, <2>1
  <2>3. raw[u][1] = d /\ raw[u][2] = u /\ raw[u] # Noise
    BY <1>2, <2>1, <2>2 DEF Noise
  <2>4. \A i \in u..v + 2 : u + i - u = i
    BY <2>1
  <2>5. u + v - u = v
    BY <2>1
  <2>6. FrameOf(raw[u]) = fr
    BY <2>3 DEF FrameOf, fr
  <2>7. BlockValid(raw, u, v)
    BY <1>5, <2>1, <2>2, <2>3, <2>4, <2>5, <2>6 DEF BlockValid
  <2> QED BY <2>7 DEF u, v
<1>9. CrcOk(raw) /\ PayloadOf(raw) \in SUBSET (Nat \X Nat)
  <2>1. ASSUME NEW i \in 1..N PROVE raw[i] \in Nat \X Nat
    <3>1. raw[i] = <<d, i>> /\ i \in Nat
      BY <1>3, <1>5
    <3> QED BY <1>3, <3>1
  <2>2. (fr.type = "A" /\ fr.l \in 9..255) \/ (fr.type = "B" /\ fr.l \in 11..253)
    <3>1. \A g \in FsFrames : (g.type = "A" /\ g.l \in 9..255) \/ (g.type = "B" /\ g.l \in 11..253)
      BY FsAssumption
    <3> QED BY <1>3, <3>1
  <2>3. CASE fr.type = "A"
    <3>1. <<2, 11>> \in SentBlocks(fr) /\ DataBlocks(fr.l) \subseteq SentBlocks(fr)
      BY <2>3 DEF SentBlocks, DataBlocks
    <3>2. BlockValid(raw, 2, 11) /\ \A x \in DataBlocks(fr.l) : BlockValid(raw, x[1], x[2])
      <4>1. <<2, 11>>[1] = 2 /\ <<2, 11>>[2] = 11
        OBVIOUS
      <4> QED BY <1>8, <3>1, <4>1
    <3>3. CrcOk(raw)
      BY <1>6, <2>3, <3>2 DEF CrcOk
    <3>4. \A x \in DataBlocks(fr.l) : x[1]..x[2] \subseteq 1..N
      BY <1>3, <1>7, <3>1
    <3>5. PayloadOf(raw) = {raw[i] : i \in UNION {x[1]..x[2] : x \in DataBlocks(fr.l)}}
      BY <1>6, <2>3 DEF PayloadOf
    <3>6. UNION {x[1]..x[2] : x \in DataBlocks(fr.l)} \subseteq 1..N
      BY <3>4
    <3> QED BY <2>1, <3>3, <3>5, <3>6
  <2>4. CASE fr.type = "B"
    <3>1. <<2, fr.l>> \in SentBlocks(fr) /\ N = fr.l + 2 /\ fr.l \in 11..253 /\ fr.type # "A"
      BY <1>3, <2>2, <2>4, LengthOfB DEF SentBlocks
    <3>2. BlockValid(raw, 2, fr.l)
      <4>1. <<2, fr.l>>[1] = 2 /\ <<2, fr.l>>[2] = fr.l
        OBVIOUS
      <4> QED BY <1>8, <3>1, <4>1
    <3>3. CrcOk(raw)
      BY <1>3, <1>5, <1>6, <3>1, <3>2 DEF CrcOk
    <3>4. PayloadOf(raw) = {raw[i] : i \in 12..fr.l}
      BY <1>6, <3>1 DEF PayloadOf
    <3>5. 12..fr.l \subseteq 1..N
      BY <3>1
    <3> QED BY <2>1, <3>3, <3>4, <3>5
  <2> QED BY <2>2, <2>3, <2>4
<1>11. ~(Len(raw) < MinimumFrame)
  BY <1>3, <1>5 DEF MinimumFrame
<1>12. /\ fsBuffer' = SubSeq(fsBuffer, N + 1, b)
       /\ fsDecoded' = Append(fsDecoded, [id |-> raw[1][1], payload |-> PayloadOf(raw)])
  BY <1>1, <1>6, <1>9, <1>11 DEF DecodeFrame, raw, b
<1>13. raw[1][1] = d
  BY <1>3, <1>5
<1> QED BY <1>1, <1>2, <1>4, <1>9, <1>12, <1>13 DEF d, N, b

LEMMA DecodeOrdered ==
  ASSUME FsTyped, Undisturbed, WireOrdered, BufferOrdered, DecodedOrdered, SizeKnown, DecodeFrame
  PROVE  WireOrdered' /\ BufferOrdered' /\ DecodedOrdered' /\ SizeKnown'
<1> DEFINE d == Len(fsDecoded) + 1
           N == LengthAt(d)
           b == Len(fsBuffer)
           c == b - N
<1>1. /\ fsBuffer' = SubSeq(fsBuffer, N + 1, b) /\ N <= b /\ d \in 1..FsSent
      /\ \A i \in 1..N : fsBuffer[i] = <<d, i>>
  BY FrameDecoded
<1>2. PICK payload \in SUBSET (Nat \X Nat) : fsDecoded' = Append(fsDecoded, [id |-> d, payload |-> payload])
  BY FrameDecoded
<1>3. fsAir' = fsAir /\ fsWire' = fsWire /\ fsExpected' = 0
  BY DEF DecodeFrame
<1>4. /\ N \in Nat /\ N >= 13 /\ b \in Nat /\ d \in Nat /\ FsSent \in Nat /\ fsBuffer \in Seq(Nat \X Nat)
      /\ fsDecoded \in Seq([id : Nat, payload : SUBSET (Nat \X Nat)]) /\ Len(fsDecoded) \in Nat
  <2>1. N \in Nat /\ N >= 13
    BY <1>1, LengthsTyped
  <2>2. fsBuffer \in Seq(Nat \X Nat) /\ fsDecoded \in Seq([id : Nat, payload : SUBSET (Nat \X Nat)]) /\ FsSent \in Nat
    BY FsAssumption DEF BufferOrdered, DecodedOrdered
  <2>3. Len(fsDecoded) \in Nat /\ Len(fsBuffer) \in Nat
    BY <2>2
  <2> QED BY <2>1, <2>2, <2>3
<1>5. /\ fsDecoded' \in Seq([id : Nat, payload : SUBSET (Nat \X Nat)]) /\ Len(fsDecoded') = Len(fsDecoded) + 1
      /\ \A i \in 1..Len(fsDecoded) : fsDecoded'[i] = fsDecoded[i]
      /\ fsDecoded'[Len(fsDecoded) + 1] = [id |-> d, payload |-> payload]
  <2> DEFINE new == [id |-> d, payload |-> payload]
             R == [id : Nat, payload : SUBSET (Nat \X Nat)]
  <2>1. new \in R
    BY <1>4
  <2> HIDE DEF new, R
  <2>2. fsDecoded \in Seq(R) /\ fsDecoded' = Append(fsDecoded, new)
    BY <1>2, <1>4 DEF new, R
  <2>3. /\ Append(fsDecoded, new) \in Seq(R) /\ Len(Append(fsDecoded, new)) = Len(fsDecoded) + 1
        /\ \A i \in 1..Len(fsDecoded) : Append(fsDecoded, new)[i] = fsDecoded[i]
        /\ Append(fsDecoded, new)[Len(fsDecoded) + 1] = new
    BY <2>1, <2>2
  <2> QED BY <2>2, <2>3 DEF new, R
<1>6. DecodedOrdered'
  <2>1. [id |-> d, payload |-> payload].id = d
    OBVIOUS
  <2>2. ASSUME NEW i \in 1..Len(fsDecoded') PROVE fsDecoded'[i].id = i
    <3>1. CASE i \in 1..Len(fsDecoded)
      BY <1>5, <3>1 DEF DecodedOrdered
    <3>2. CASE i = Len(fsDecoded) + 1
      BY <1>5, <2>1, <3>2
    <3> QED BY <1>4, <1>5, <3>1, <3>2
  <2> QED BY <1>5, <2>2 DEF DecodedOrdered
<1>7. Len(fsDecoded') + 1 = d + 1
  BY <1>4, <1>5
<1> HIDE DEF N, b, d
<1>8. fsBuffer' \in Seq(Nat \X Nat) /\ Len(fsBuffer') = c /\ \A i \in 1..c : fsBuffer'[i] = fsBuffer[N + i]
  <2>1. N \in 0..Len(fsBuffer)
    BY <1>1, <1>4 DEF b
  <2> QED BY <1>1, <1>4, <2>1, CutInTwo DEF b
<1>9. c \in Nat /\ b = N + c
  BY <1>1, <1>4
<1> HIDE DEF c
<1>10. (\A g : LengthAt(g)' = LengthAt(g)) /\ NextByte' = NextByte /\ WireOrdered'
  <2>1. \A g : LengthAt(g)' = LengthAt(g)
    BY <1>3 DEF LengthAt
  <2> QED BY <1>3, <2>1 DEF WireOrdered, NextByte
<1>11. \A x : Successor(x)' = Successor(x)
  BY <1>10 DEF Successor
<1>12. \A i \in 1..c + 1 : Upcoming'[i] = Upcoming[N + i]
  <2> TAKE i \in 1..c + 1
  <2>1. N + i \in 1..b + 1 /\ (N + i <= b <=> i <= c)
    BY <1>4, <1>9
  <2>2. Upcoming = [j \in 1..b + 1 |-> IF j <= b THEN fsBuffer[j] ELSE NextByte]
    BY DEF Upcoming, b
  <2>3. Upcoming' = [j \in 1..c + 1 |-> IF j <= c THEN fsBuffer'[j] ELSE NextByte]
    BY <1>8, <1>10 DEF Upcoming
  <2>4. i <= c => i \in 1..c
    BY <1>9
  <2> QED BY <1>8, <2>1, <2>2, <2>3, <2>4
<1>13. Upcoming'[1] = <<Len(fsDecoded') + 1, 1>>
  <2>1. N \in 1..b /\ N \in 1..N
    BY <1>1, <1>4
  <2>2. Upcoming[N + 1] = Successor(fsBuffer[N]) /\ fsBuffer[N] = <<d, N>>
    BY <1>1, <2>1 DEF BufferOrdered, b
  <2>3. Successor(<<d, N>>) = <<d + 1, 1>>
    BY <1>4 DEF Successor, N
  <2>4. 1 \in 1..c + 1
    BY <1>9
  <2> QED BY <1>7, <1>12, <2>2, <2>3, <2>4
<1>14. ASSUME NEW i \in 1..c
       PROVE  /\ fsBuffer'[i][1] \in 1..FsSent /\ fsBuffer'[i][2] \in 1..LengthAt(fsBuffer'[i][1])
              /\ Upcoming'[i + 1] = Successor(fsBuffer'[i])
  <2>1. N + i \in 1..b /\ N + (i + 1) = N + i + 1 /\ i + 1 \in 1..c + 1
    BY <1>4, <1>9
  <2>2. /\ fsBuffer[N + i][1] \in 1..FsSent /\ fsBuffer[N + i][2] \in 1..LengthAt(fsBuffer[N + i][1])
        /\ Upcoming[N + i + 1] = Successor(fsBuffer[N + i])
    BY <2>1 DEF BufferOrdered, b
  <2> QED BY <1>8, <1>12, <2>1, <2>2
<1>15. BufferOrdered'
  BY <1>8, <1>10, <1>11, <1>13, <1>14 DEF BufferOrdered
<1> QED BY <1>3, <1>6, <1>10, <1>15 DEF SizeKnown

(* The size of the frame in front is that of a frame without one-byte tail. *)
LEMMA SizeOrdered ==
  ASSUME FsTyped, Undisturbed, WireOrdered, BufferOrdered, DecodedOrdered, DetermineSize
  PROVE  WireOrdered' /\ BufferOrdered' /\ DecodedOrdered' /\ SizeKnown'
<1> DEFINE d == Len(fsDecoded) + 1
<1>1. Len(fsBuffer) >= 2 /\ fsBuffer \in Seq(Nat \X Nat) /\ fsAir' = fsAir /\ fsWire' = fsWire /\ fsDecoded' = fsDecoded
  BY DEF DetermineSize, BufferOrdered
<1>2. fsBuffer # <<>>
  BY <1>1
<1>3. d \in 1..FsSent /\ \A i \in 1..LengthAt(d) : i <= Len(fsBuffer) => fsBuffer[i] = <<d, i>>
  BY <1>2, FrameInFront
<1>4. LengthAt(d) \in Nat /\ LengthAt(d) >= 13 /\ PacketLength(fsAir[d].type, fsAir[d].l) = LengthAt(d)
  BY <1>3, LengthsTyped
<1> HIDE DEF d
<1>5. fsBuffer[1] = <<d, 1>> /\ fsBuffer[2] = <<d, 2>>
  <2>1. /\ 1 \in 1..LengthAt(d) /\ 2 \in 1..LengthAt(d)
        /\ 1 <= Len(fsBuffer) /\ 2 <= Len(fsBuffer)
    BY <1>1, <1>4
  <2> QED BY <1>3, <2>1
<1>6. PacketSize(fsBuffer) = LengthAt(d)
  BY <1>4, <1>5 DEF PacketSize, IsSync, SyncType, ByteValue, FrameOf
<1>7. LengthAt(d) # NoSize
  BY <1>4 DEF NoSize
<1>8. fsExpected' = LengthAt(d) /\ fsBuffer' = fsBuffer
  BY <1>6, <1>7 DEF DetermineSize
<1>9. \A g : LengthAt(g)' = LengthAt(g)
  BY <1>1 DEF LengthAt
<1>10. \A x : Successor(x)' = Successor(x)
  BY <1>9 DEF Successor
<1>11. NextByte' = NextByte /\ Upcoming' = Upcoming
  BY <1>1, <1>8 DEF NextByte, Upcoming
<1>12. WireOrdered' /\ DecodedOrdered'
  BY <1>1, <1>9 DEF WireOrdered, DecodedOrdered
<1>13. BufferOrdered'
  BY <1>1, <1>8, <1>9, <1>10, <1>11 DEF BufferOrdered
<1>14. SizeKnown'
  BY <1>1, <1>2, <1>8, <1>9 DEF SizeKnown, d
<1> QED BY <1>12, <1>13, <1>14

LEMMA StreamSteps == StreamInv /\ [FsNext]_fsVars => StreamInv'
<1> SUFFICES ASSUME StreamInv, [FsNext]_fsVars PROVE StreamInv'
  OBVIOUS
<1>1. FsTyped
  BY DEF StreamInv
<1>2. FsTyped' /\ (Undisturbed' => Undisturbed)
  <2>1. /\ fsAir' = fsAir /\ (fsFaults' = fsFaults \/ fsFaults' = fsFaults + 1)
        /\ (fsResets' = fsResets \/ fsResets' = TRUE)
    <3>1. ASSUME NEW n \in FsChunks, AddBytes(n)
          PROVE  fsAir' = fsAir /\ (fsFaults' = fsFaults \/ fsFaults' = fsFaults + 1) /\ fsResets' = fsResets
      BY <3>1, Zenon DEF AddBytes
    <3>2. CASE DetermineSize
      BY <3>2 DEF DetermineSize
    <3>3. CASE DecodeFrame
      BY <3>3 DEF DecodeFrame
    <3>4. CASE ResetDecoder
      BY <3>4 DEF ResetDecoder
    <3>5. CASE UNCHANGED fsVars
      BY <3>5 DEF fsVars
    <3> QED BY <3>1, <3>2, <3>3, <3>4, <3>5 DEF FsNext
  <2>2. fsFaults \in Nat /\ fsResets \in BOOLEAN
    BY <1>1 DEF FsTyped
  <2>3. FsTyped'
    <3>1. fsFaults' \in Nat
      BY <2>1, <2>2
    <3>2. fsResets' \in BOOLEAN
      BY <2>1, <2>2
    <3> QED BY <1>1, <2>1, <3>1, <3>2 DEF FsTyped
  <2>4. fsFaults' = 0 => fsFaults = 0
    BY <2>1, <2>2
  <2> QED BY <2>1, <2>2, <2>3, <2>4 DEF Undisturbed
<1> SUFFICES ASSUME Undisturbed, Undisturbed' PROVE WireOrdered' /\ BufferOrdered' /\ DecodedOrdered' /\ SizeKnown'
  BY <1>2 DEF StreamInv
<1>3. WireOrdered /\ BufferOrdered /\ DecodedOrdered /\ SizeKnown
  BY DEF StreamInv
<1>4. ASSUME NEW n \in FsChunks, AddBytes(n) PROVE WireOrdered' /\ BufferOrdered' /\ DecodedOrdered' /\ SizeKnown'
  <2>1. fsFaults = 0 /\ fsFaults' = 0
    BY DEF Undisturbed
  <2>2. fsWire # <<>> /\ ChunkTaken(FsMin(n, Len(Pending))) /\ fsExpected' = fsExpected
    <3>1. fsFaults' # fsFaults + 1
      BY <2>1
    <3> DEFINE size == FsMin(n, Len(Pending))
               rest == SubSeq(Pending, size + 1, Len(Pending))
    <3>2. /\ fsWire # <<>> /\ fsWire' = (IF rest = <<>> THEN <<>> ELSE <<rest>>) \o Tail(fsWire)
          /\ fsAir' = fsAir /\ fsDecoded' = fsDecoded /\ fsExpected' = fsExpected
      BY <1>4, Zenon DEF AddBytes
    <3>3. fsBuffer' = fsBuffer \o SubSeq(Pending, 1, size)
      BY <1>4, <3>1, Zenon DEF AddBytes
    <3> QED BY <3>2, <3>3, Zenon DEF ChunkTaken
  <2>3. WireOrdered' /\ BufferOrdered' /\ fsBuffer' # <<>>
    BY <1>1, <1>3, <2>2, ChunkOrdered
  <2>4. fsDecoded' = fsDecoded /\ fsAir' = fsAir
    BY <2>2 DEF ChunkTaken
  <2>5. \A g : LengthAt(g)' = LengthAt(g)
    BY <2>4 DEF LengthAt
  <2> QED BY <1>3, <2>2, <2>3, <2>4, <2>5 DEF DecodedOrdered, SizeKnown
<1>5. CASE DetermineSize
  BY <1>1, <1>3, <1>5, SizeOrdered
<1>6. CASE DecodeFrame
  BY <1>1, <1>3, <1>6, DecodeOrdered
<1>7. CASE ResetDecoder
  BY <1>7 DEF ResetDecoder, Undisturbed
<1>8. CASE UNCHANGED fsVars
  <2>1. \A g : LengthAt(g)' = LengthAt(g)
    BY <1>8 DEF LengthAt, fsVars
  <2>2. \A x : Successor(x)' = Successor(x)
    BY <2>1 DEF Successor
  <2>3. NextByte' = NextByte /\ Upcoming' = Upcoming
    BY <1>8 DEF NextByte, Upcoming, fsVars
  <2> QED BY <1>3, <1>8, <2>1, <2>2, <2>3 DEF fsVars, WireOrdered, BufferOrdered, DecodedOrdered, SizeKnown
<1> QED BY <1>4, <1>5, <1>6, <1>7, <1>8 DEF FsNext

LEMMA StreamRead == StreamInv => RegularComplete
<1> SUFFICES ASSUME StreamInv, \A i \in 1..FsSent : ~OneByteTail(fsAir[i]), Drained
             PROVE  Ids(fsDecoded) = [i \in 1..FsSent |-> i]
  BY DEF RegularComplete, FramesComplete
<1>1. FsTyped /\ WireOrdered /\ BufferOrdered /\ DecodedOrdered /\ fsWire = <<>> /\ Len(fsBuffer) < 2 /\ FsSent \in Nat
  BY FsAssumption DEF StreamInv, Undisturbed, Drained
<1>2. /\ fsBuffer \in Seq(Nat \X Nat) /\ Len(fsBuffer) \in Nat /\ Len(fsDecoded) \in Nat /\ DOMAIN fsDecoded = 1..Len(fsDecoded)
  BY <1>1 DEF BufferOrdered, DecodedOrdered
<1>3. Len(fsBuffer) = 0
  <2>0. Len(fsBuffer) = 0 \/ Len(fsBuffer) = 1
    <3> DEFINE b == Len(fsBuffer)
    <3>1. b \in Nat /\ b < 2
      BY <1>1, <1>2
    <3> HIDE DEF b
    <3>2. b = 0 \/ b = 1
      BY <3>1
    <3> QED BY <3>2 DEF b
  <2> SUFFICES ASSUME Len(fsBuffer) = 1 PROVE FALSE
    BY <2>0
  <2> DEFINE d == Len(fsDecoded) + 1
  <2>1. fsBuffer # <<>>
    OBVIOUS
  <2>2. d \in 1..FsSent /\ \A i \in 1..LengthAt(d) : i <= Len(fsBuffer) => fsBuffer[i] = <<d, i>>
    BY <1>1, <2>1, FrameInFront
  <2>3. LengthAt(d) \in Nat /\ LengthAt(d) >= 13
    BY <1>1, <2>2, LengthsTyped
  <2> HIDE DEF d
  <2>4. fsBuffer[1] = <<d, 1>>
    BY <2>2, <2>3
  <2>5. Upcoming[2] = Successor(fsBuffer[1])
    BY <1>1 DEF BufferOrdered
  <2>6. Successor(<<d, 1>>) = <<d, 2>>
    BY <2>3 DEF Successor
  <2>7. Upcoming[2] = <<FsSent + 1, 1>>
    BY <1>1 DEF Upcoming, NextByte
  <2> QED BY <2>4, <2>5, <2>6, <2>7
<1>4. Len(fsDecoded) = FsSent
  <2>1. Upcoming[1] = <<FsSent + 1, 1>>
    BY <1>1, <1>3 DEF Upcoming, NextByte
  <2>2. Upcoming[1] = <<Len(fsDecoded) + 1, 1>>
    BY <1>1 DEF BufferOrdered
  <2>3. FsSent + 1 = Len(fsDecoded) + 1
    BY <2>1, <2>2
  <2> DEFINE d == Len(fsDecoded)
  <2>4. d \in Nat /\ FsSent + 1 = d + 1
    BY <1>2, <2>3
  <2> HIDE DEF d
  <2>5. d = FsSent
    BY <1>1, <2>4
  <2> QED BY <2>5 DEF d
<1>5. \A i \in 1..FsSent : fsDecoded[i].id = i
  BY <1>1, <1>4 DEF DecodedOrdered
<1> QED BY <1>2, <1>4, <1>5 DEF Ids

(* A stream of frames none of which is garbled, lost or reset away is       *)
(* decoded to its last frame, whatever chunks it comes in, but for frames   *)
(* whose last block has one byte: determine_frame_size tells the length of   *)
(* every other, for any number of frames and any lengths (frame_decode.rs,  *)
(* rfm69_packet.rs).                                                       *)
LEMMA CompleteAlways == Spec => []RegularComplete
<1>1. Init => StreamInv
  BY StreamStart DEF Init
<1>2. StreamInv /\ [Next]_servicesVars => StreamInv'
  BY UnitSteps, StreamSteps
<1>3. StreamInv => RegularComplete
  BY StreamRead
<1>4. QED BY <1>1, <1>2, <1>3, PTL DEF Spec

(* A stream comes through whole: the buffers keep its bytes, and a stream   *)
(* without faults is decoded to its last frame, for every limit, number of  *)
(* bytes and of frames, and any lengths (iobuffer.rs, frame_decode.rs).     *)
THEOREM ServicesStreamsWhole == Spec => []StreamsWhole
BY BufferAlways, CompleteAlways, PTL DEF StreamsWhole

=============================================================================
