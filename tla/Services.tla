------------------------------ MODULE Services ------------------------------
(***************************************************************************)
(* The components that share no state with the sessions of the other       *)
(* modules nor with each other.  A behaviour of this module is one of one  *)
(* of them, chosen by `unit`: side by side they would only multiply their  *)
(* states.  The variables of the other units keep an initial value, one    *)
(* that their component can start from.                                    *)
(***************************************************************************)
EXTENDS IrqEventQueue, DutyCycle, ClassBC, ChannelHopper, AdrController,
        LbmCore, CompactFrameCache, GatewayStore, FrameStream, ModeSwitching,
        WiredFrameCodec, FrameCrypto, RecordWalk, WMBusLink, RadioSetup, HandleLife, BusManager,
        Rfm69Owner, LoRaFormats, LoRaReadings, GpioLines, Instrumentation, GatewayMonitor, VendorRecords,
        IoBuffer

VARIABLE unit

servicesVars == <<unit, iqVars, dcVars, dlVars, cbVars, hpVars, adrVars, lbVars,
                  cfVars, gsVars, fsVars, msVars, wfVars, fcVars, rwVars, wlVars,
                  suVars, hlVars, bmVars, roVars, lfVars, lrVars, gpVars, inVars,
                  gmVars, vdVars, ibVars>>

Unit == {"irq queue", "duty cycle", "limiter", "class", "hopper", "adr", "mesh",
         "cache", "keys", "devices", "stream", "modes", "wired frames", "crypto",
         "records", "link frames", "setup", "handle", "buses", "owner", "formats",
         "readings", "lines", "devices known", "monitor", "vendors", "buffer"}

(* Where the initial states of a component are many, a unit other than its  *)
(* own takes one of them.                                                  *)
Idle ==
  /\ unit # "irq queue" => iqTask = TRUE
  /\ unit # "hopper" => hpStrategy = "Fixed"
  /\ unit # "adr" => adrEnabled = TRUE
  /\ unit # "mesh" => lbGateway = TRUE
  /\ unit # "stream" => fsAir = CHOOSE air \in [1..FsSent -> FsFrames] : TRUE
  /\ unit # "modes" => /\ msSequence = (CHOOSE s \in MsSequences : TRUE)
                       /\ msLimit = (CHOOSE limit \in MsMaxCycles : TRUE)
                       /\ msPeers = [i \in 1..2 |-> Range(msSequence)]
  /\ unit # "wired frames" => wfSent = CHOOSE f \in Sendable : TRUE
  /\ unit # "crypto" => /\ fcSettings = [end \in {"tx", "rx"} |-> PlainSettings]
                        /\ fcFrame = CHOOSE f \in FcFrames : TRUE
  /\ unit # "records" => /\ rwWalker = "record"
                         /\ rwSent = (CHOOSE sent \in [1..RwCount -> RwRecords] : TRUE)
                         /\ rwFill = (CHOOSE fill \in [1..RwCount -> RwFillers] : TRUE)
                         /\ rwCut = 0
  /\ unit # "owner" =>
       /\ roChip = [mode |-> "Standby", level |-> FALSE, set |-> "other", aes |-> FALSE, net |-> FALSE]
       /\ roConfig = [reset |-> TRUE, irq |-> TRUE, key |-> "none", net |-> FALSE]
  /\ unit # "buses" => bmLine = NewLine(FALSE, 5)
  /\ unit # "readings" => /\ lrDecoder = [kind |-> "Elvaco"] /\ lrPort = (CHOOSE port \in LrPorts : TRUE)
  /\ unit # "lines" => gpWay = "callbacks"
  /\ unit # "monitor" => gmConfig = CHOOSE config \in GmConfigs : TRUE
  /\ unit # "devices known" => inWay = "registry"
  /\ unit # "vendors" => vdRegistry = <<>>
  /\ unit # "buffer" => ibBuffer = [b \in IbNames |->
                                        NewBuffer(IF b = "tail" THEN IbDefault ELSE CHOOSE l \in IbLimits : TRUE)]
  /\ unit # "link frames" => wlSent = CHOOSE f \in WlFrames : TRUE

Init ==
  /\ unit \in Unit /\ Idle
  /\ IqInit /\ DcInit /\ DlInit /\ CbInit /\ HpInit /\ AdrInit /\ LbInit /\ CfInit /\ GsInit
  /\ FsInit /\ MsInit /\ WfInit /\ FcInit /\ RwInit /\ WlInit /\ SuInit /\ HlInit /\ BmInit
  /\ RoInit /\ LfInit /\ LrInit /\ GpInit /\ InInit /\ GmInit /\ VdInit /\ IbInit

IrqQueueStep ==
  /\ unit = "irq queue" /\ IqNext
  /\ UNCHANGED <<unit, dcVars, dlVars, cbVars, hpVars, adrVars, lbVars, cfVars, gsVars,
                 fsVars, msVars, wfVars, fcVars, rwVars, wlVars, suVars, hlVars,
                 bmVars, roVars, lfVars, lrVars, gpVars, inVars, gmVars, vdVars, ibVars>>

DutyCycleStep ==
  /\ unit = "duty cycle" /\ DcNext
  /\ UNCHANGED <<unit, iqVars, dlVars, cbVars, hpVars, adrVars, lbVars, cfVars, gsVars,
                 fsVars, msVars, wfVars, fcVars, rwVars, wlVars, suVars, hlVars,
                 bmVars, roVars, lfVars, lrVars, gpVars, inVars, gmVars, vdVars, ibVars>>

LimiterStep ==
  /\ unit = "limiter" /\ DlNext
  /\ UNCHANGED <<unit, iqVars, dcVars, cbVars, hpVars, adrVars, lbVars, cfVars, gsVars,
                 fsVars, msVars, wfVars, fcVars, rwVars, wlVars, suVars, hlVars,
                 bmVars, roVars, lfVars, lrVars, gpVars, inVars, gmVars, vdVars, ibVars>>

ClassStep ==
  /\ unit = "class" /\ CbNext
  /\ UNCHANGED <<unit, iqVars, dcVars, dlVars, hpVars, adrVars, lbVars, cfVars, gsVars,
                 fsVars, msVars, wfVars, fcVars, rwVars, wlVars, suVars, hlVars,
                 bmVars, roVars, lfVars, lrVars, gpVars, inVars, gmVars, vdVars, ibVars>>

HopperStep ==
  /\ unit = "hopper" /\ HpNext
  /\ UNCHANGED <<unit, iqVars, dcVars, dlVars, cbVars, adrVars, lbVars, cfVars, gsVars,
                 fsVars, msVars, wfVars, fcVars, rwVars, wlVars, suVars, hlVars,
                 bmVars, roVars, lfVars, lrVars, gpVars, inVars, gmVars, vdVars, ibVars>>

AdrStep ==
  /\ unit = "adr" /\ AdrNext
  /\ UNCHANGED <<unit, iqVars, dcVars, dlVars, cbVars, hpVars, lbVars, cfVars, gsVars,
                 fsVars, msVars, wfVars, fcVars, rwVars, wlVars, suVars, hlVars,
                 bmVars, roVars, lfVars, lrVars, gpVars, inVars, gmVars, vdVars, ibVars>>

MeshStep ==
  /\ unit = "mesh" /\ LbNext
  /\ UNCHANGED <<unit, iqVars, dcVars, dlVars, cbVars, hpVars, adrVars, cfVars, gsVars,
                 fsVars, msVars, wfVars, fcVars, rwVars, wlVars, suVars, hlVars,
                 bmVars, roVars, lfVars, lrVars, gpVars, inVars, gmVars, vdVars, ibVars>>

CacheStep ==
  /\ unit = "cache" /\ CfNext
  /\ UNCHANGED <<unit, iqVars, dcVars, dlVars, cbVars, hpVars, adrVars, lbVars, gsVars,
                 fsVars, msVars, wfVars, fcVars, rwVars, wlVars, suVars, hlVars,
                 bmVars, roVars, lfVars, lrVars, gpVars, inVars, gmVars, vdVars, ibVars>>

KeysStep ==
  /\ unit = "keys" /\ KeyNext
  /\ UNCHANGED <<unit, iqVars, dcVars, dlVars, cbVars, hpVars, adrVars, lbVars, cfVars,
                 fsVars, msVars, wfVars, fcVars, rwVars, wlVars, suVars, hlVars,
                 bmVars, roVars, lfVars, lrVars, gpVars, inVars, gmVars, vdVars, ibVars>>

DevicesStep ==
  /\ unit = "devices" /\ DeviceNext
  /\ UNCHANGED <<unit, iqVars, dcVars, dlVars, cbVars, hpVars, adrVars, lbVars, cfVars,
                 fsVars, msVars, wfVars, fcVars, rwVars, wlVars, suVars, hlVars,
                 bmVars, roVars, lfVars, lrVars, gpVars, inVars, gmVars, vdVars, ibVars>>

StreamStep ==
  /\ unit = "stream" /\ FsNext
  /\ UNCHANGED <<unit, iqVars, dcVars, dlVars, cbVars, hpVars, adrVars, lbVars, cfVars,
                 gsVars, msVars, wfVars, fcVars, rwVars, wlVars, suVars, hlVars,
                 bmVars, roVars, lfVars, lrVars, gpVars, inVars, gmVars, vdVars, ibVars>>

ModesStep ==
  /\ unit = "modes" /\ MsNext
  /\ UNCHANGED <<unit, iqVars, dcVars, dlVars, cbVars, hpVars, adrVars, lbVars, cfVars,
                 gsVars, fsVars, wfVars, fcVars, rwVars, wlVars, suVars, hlVars,
                 bmVars, roVars, lfVars, lrVars, gpVars, inVars, gmVars, vdVars, ibVars>>

WiredFramesStep ==
  /\ unit = "wired frames" /\ WfNext
  /\ UNCHANGED <<unit, iqVars, dcVars, dlVars, cbVars, hpVars, adrVars, lbVars, cfVars,
                 gsVars, fsVars, msVars, fcVars, rwVars, wlVars, suVars, hlVars,
                 bmVars, roVars, lfVars, lrVars, gpVars, inVars, gmVars, vdVars, ibVars>>

CryptoStep ==
  /\ unit = "crypto" /\ FcNext
  /\ UNCHANGED <<unit, iqVars, dcVars, dlVars, cbVars, hpVars, adrVars, lbVars, cfVars,
                 gsVars, fsVars, msVars, wfVars, rwVars, wlVars, suVars, hlVars,
                 bmVars, roVars, lfVars, lrVars, gpVars, inVars, gmVars, vdVars, ibVars>>

RecordsStep ==
  /\ unit = "records" /\ RwNext
  /\ UNCHANGED <<unit, iqVars, dcVars, dlVars, cbVars, hpVars, adrVars, lbVars, cfVars,
                 gsVars, fsVars, msVars, wfVars, fcVars, wlVars, suVars, hlVars,
                 bmVars, roVars, lfVars, lrVars, gpVars, inVars, gmVars, vdVars, ibVars>>

LinkFramesStep ==
  /\ unit = "link frames" /\ WlNext
  /\ UNCHANGED <<unit, iqVars, dcVars, dlVars, cbVars, hpVars, adrVars, lbVars, cfVars,
                 gsVars, fsVars, msVars, wfVars, fcVars, rwVars, suVars, hlVars,
                 bmVars, roVars, lfVars, lrVars, gpVars, inVars, gmVars, vdVars, ibVars>>

SetupStep ==
  /\ unit = "setup" /\ SuNext
  /\ UNCHANGED <<unit, iqVars, dcVars, dlVars, cbVars, hpVars, adrVars, lbVars, cfVars,
                 gsVars, fsVars, msVars, wfVars, fcVars, rwVars, wlVars, hlVars,
                 bmVars, roVars, lfVars, lrVars, gpVars, inVars, gmVars, vdVars, ibVars>>

HandleStep ==
  /\ unit = "handle" /\ HlNext
  /\ UNCHANGED <<unit, iqVars, dcVars, dlVars, cbVars, hpVars, adrVars, lbVars, cfVars,
                 gsVars, fsVars, msVars, wfVars, fcVars, rwVars, wlVars, suVars,
                 bmVars, roVars, lfVars, lrVars, gpVars, inVars, gmVars, vdVars, ibVars>>

BusStep ==
  /\ unit = "buses" /\ BmNext
  /\ UNCHANGED <<unit, iqVars, dcVars, dlVars, cbVars, hpVars, adrVars, lbVars, cfVars,
                 gsVars, fsVars, msVars, wfVars, fcVars, rwVars, wlVars, suVars,
                 hlVars, roVars, lfVars, lrVars, gpVars, inVars, gmVars, vdVars, ibVars>>

OwnerStep ==
  /\ unit = "owner" /\ RoNext
  /\ UNCHANGED <<unit, iqVars, dcVars, dlVars, cbVars, hpVars, adrVars, lbVars, cfVars,
                 gsVars, fsVars, msVars, wfVars, fcVars, rwVars, wlVars, suVars,
                 hlVars, bmVars, lfVars, lrVars, gpVars, inVars, gmVars, vdVars, ibVars>>

FormatsStep ==
  /\ unit = "formats" /\ LfNext
  /\ UNCHANGED <<unit, iqVars, dcVars, dlVars, cbVars, hpVars, adrVars, lbVars, cfVars,
                 gsVars, fsVars, msVars, wfVars, fcVars, rwVars, wlVars, suVars,
                 hlVars, bmVars, roVars, lrVars, gpVars, inVars, gmVars, vdVars, ibVars>>

ReadingsStep ==
  /\ unit = "readings" /\ LrNext
  /\ UNCHANGED <<unit, iqVars, dcVars, dlVars, cbVars, hpVars, adrVars, lbVars, cfVars,
                 gsVars, fsVars, msVars, wfVars, fcVars, rwVars, wlVars, suVars,
                 hlVars, bmVars, roVars, lfVars, gpVars, inVars, gmVars, vdVars, ibVars>>

LinesStep ==
  /\ unit = "lines" /\ GpNext
  /\ UNCHANGED <<unit, iqVars, dcVars, dlVars, cbVars, hpVars, adrVars, lbVars, cfVars,
                 gsVars, fsVars, msVars, wfVars, fcVars, rwVars, wlVars, suVars,
                 hlVars, bmVars, roVars, lfVars, lrVars, inVars, gmVars, vdVars, ibVars>>

DevicesKnownStep ==
  /\ unit = "devices known" /\ InNext
  /\ UNCHANGED <<unit, iqVars, dcVars, dlVars, cbVars, hpVars, adrVars, lbVars, cfVars,
                 gsVars, fsVars, msVars, wfVars, fcVars, rwVars, wlVars, suVars,
                 hlVars, bmVars, roVars, lfVars, lrVars, gpVars, gmVars, vdVars, ibVars>>

MonitorStep ==
  /\ unit = "monitor" /\ GmNext
  /\ UNCHANGED <<unit, iqVars, dcVars, dlVars, cbVars, hpVars, adrVars, lbVars, cfVars,
                 gsVars, fsVars, msVars, wfVars, fcVars, rwVars, wlVars, suVars,
                 hlVars, bmVars, roVars, lfVars, lrVars, gpVars, inVars, vdVars, ibVars>>

VendorsStep ==
  /\ unit = "vendors" /\ VdNext
  /\ UNCHANGED <<unit, iqVars, dcVars, dlVars, cbVars, hpVars, adrVars, lbVars, cfVars,
                 gsVars, fsVars, msVars, wfVars, fcVars, rwVars, wlVars, suVars,
                 hlVars, bmVars, roVars, lfVars, lrVars, gpVars, inVars, gmVars, ibVars>>

BufferStep ==
  /\ unit = "buffer" /\ IbNext
  /\ UNCHANGED <<unit, iqVars, dcVars, dlVars, cbVars, hpVars, adrVars, lbVars, cfVars,
                 gsVars, fsVars, msVars, wfVars, fcVars, rwVars, wlVars, suVars,
                 hlVars, bmVars, roVars, lfVars, lrVars, gpVars, inVars, gmVars, vdVars>>

Next ==
  \/ IrqQueueStep \/ DutyCycleStep \/ LimiterStep \/ ClassStep
  \/ HopperStep \/ AdrStep \/ MeshStep \/ CacheStep
  \/ KeysStep \/ DevicesStep \/ StreamStep \/ ModesStep
  \/ WiredFramesStep \/ CryptoStep \/ RecordsStep \/ LinkFramesStep
  \/ SetupStep \/ HandleStep \/ BusStep \/ OwnerStep
  \/ FormatsStep \/ ReadingsStep \/ LinesStep \/ DevicesKnownStep
  \/ MonitorStep \/ VendorsStep \/ BufferStep

Spec == Init /\ [][Next]_servicesVars

-----------------------------------------------------------------------------
(* The duty cycle is kept within what the two accounts of the airtime can    *)
(* promise: below twice the limit for the window that forgets too much, and *)
(* within one transmission a caller for the limiter that is asked first and *)
(* told later; and a node that cycles in LowPower sleeps once and then      *)
(* listens without a break (DutyCycleManager, DutyCycleLimiter).           *)
AirtimeKept == OveruseBounded /\ LimiterSound /\ SleepsOnce

(* When and where a node is heard: the ping slots are those calculated at   *)
(* the start, whatever beacons come, and a hop lands on a channel that may  *)
(* be used (class_bc.rs, channel_hopping.rs).                              *)
SlotAndChannel == BeaconsIgnored /\ HopUsable

(* What the gateway stores is what it was told, and what it tells is so:     *)
(* keys outlive a restart, the log tells of arrivals and losses that         *)
(* happened, and its status and its radio are found as they should be,        *)
(* whatever process was killed (main.rs, devices.rs, publish.rs, sweep.rs). *)
StoreTruthful == KeysDurable /\ LogTruthful /\ MonitorTold

(* What comes through is read in its place: the frames of a stream when a    *)
(* byte of it was lost or garbled, the records of a payload, the fields of a *)
(* LoRa payload, and what a manufacturer has his own way with               *)
(* (frame_decode.rs, rfm69_packet.rs, record.rs, data.rs, lora/decoders,    *)
(* vendors).                                                               *)
PayloadsKept == FramesGenuine /\ RecordsAligned /\ PayloadsRead /\ VendorFaithful

(* A stream comes through whole: the buffers keep the bytes written to them, *)
(* whatever the calls, and the decoder returns every frame of a stream       *)
(* without faults (iobuffer.rs, frame_decode.rs).                          *)
StreamsWhole == BufferFaithful /\ RegularComplete

(* A link settles: on a data rate and power that stay as long as nothing new  *)
(* is heard, and on a mode both ends have, or none when all were tried      *)
(* (adr.rs, mode_switching.rs).                                            *)
LinkSettles == AdrSettles /\ ModesFound

(* No event is lost unnoticed: what the queue of LoRa interrupts drops it    *)
(* counts, and the edges at the pins and the words of the debouncer reach   *)
(* whoever asks for them, the bounces of a pin apart; a HAL holds all its   *)
(* pins or none, and its chip misses a command only after an error          *)
(* (irq_queue.rs, enhanced_gpio.rs, pio_irq.rs, raspberry_pi.rs).          *)
EventsAccounted == LossBounded /\ EdgesAccounted

(* The chips are what their owners were told: the SX126x has the settings    *)
(* its calls reported, and the RFM69 serves the driver that has it on       *)
(* record (driver.rs, cad.rs, rfm69.rs).                                   *)
ChipsAsTold == SetupSound /\ OwnerServed

(* What is learnt from what was heard stays true: the headers kept for the   *)
(* compact frames go oldest first, a device is given the format its         *)
(* payloads showed, its errors are counted while they are recent, and its    *)
(* readings are reported with their faults (compact_cache.rs,               *)
(* smart_decoder.rs, instrumentation).                                     *)
LearntTruly == LruOrder /\ FormatsLearnt /\ DevicesKnown

(* Frames survive their links: a wired frame, a wireless one and a payload   *)
(* in blocks are read as they were built, or what was garbled or lost is    *)
(* refused, and a selection frame selects the meter it was built for        *)
(* (frame.rs of mbus and wmbus, block.rs).                                 *)
FramesIntact == WiredFramesIntact /\ ChecksumsAgree /\ SelectionReaches /\ LinkFramesIntact /\ BlocksLocalised
=============================================================================
