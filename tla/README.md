# Formal model of mbuscrate

TLA+ modules, TLC configurations and TLAPS proofs for this repository: its
concurrent core (the dual-mode SX126x radio, the wired M-Bus master, the RFM69
gateway) and, one by one, the components around it, from the LoRa MAC to frames,
records and ciphers. Each module follows the Rust source; the table `map` in
`PROJECT.json` gives the lines behind every definition.

    tlc -workers 2 -config MCScheduler.cfg MCScheduler      # a model-checking run
    tlapm ProfileSchedulerProofs.tla                        # the proofs of a module

## 1. The system

Paths are relative to `src/` of the crate (`src/wmbus` is the wireless side,
`src/mbus` the wired one); `metermon-rs` is a second binary crate on top of it.

| Component | State it keeps | Operations | Hard parts | What makes it correct |
|---|---|---|---|---|
| SX126x driver (`wmbus/radio/driver.rs`) | tracked state, packet type, modulation, LoRa parameters; behind it the chip's mode, interrupts and one data buffer | `switch_profile`, `set_rx`, `process_irqs_with_mode`, `transmit`, `lbt_transmit`, `set_sleep`, `get_state` | each method is several SPI accesses, any of which may fail; the chip moves between them | the profile armed is complete; a packet is read whole; a transmission reported is one that happened |
| Profile scheduler (`wmbus/radio/scheduler.rs`) | window list, position, `CancelToken` | `run`, `cancel` | cancellation from another thread; errors half way through a profile change; the recovery failing too | base reception at the end, truthful outcome, prompt cancellation, termination |
| wM-Bus handle (`wmbus/handle.rs`) | shared driver behind a tokio mutex, channel, receiver task, device registry | `start_receiver`, `stop_receiver`, `send_frame`, `get_radio_status`, `recv_frame`, `scan_devices` | `abort()` takes effect only at an await; error back-off and re-arm | no packet lost, repeated without bound or delivered out of order |
| Wired session (`mbus/serial.rs`, `mbus/mbus_protocol.rs`) | the port, `StateMachine` (address, FCB) | `send_request`, `send_request_with_adaptation`, `scan_devices`, `recv_frame` | answers that come after the master has given up; damaged start bytes; retries inside a multi-telegram readout | data of the meter that was asked, in one piece |
| RFM69 receiver (`wmbus/radio/rfm69.rs`) | chip mode, `current_mode`, queue of packets, interrupt task | `initialize`, `start_receive`, `get_received_packet`, `shutdown`, `stop_receive` | task and owner share the SPI bus and nothing else | frames whole, none lost but at a re-arm, chip parked at the end |
| metermon gateway (`metermon-rs/src`) | watchdog, keys and their database, device store | `run_monitor`, key broker, airwave sweep | recovery and escalation; two brokers writing keys | a deaf radio is noticed and replaced |
| IRQ event queue (`wmbus/radio/lora/irq_queue.rs`) | bounded channel, counters | enqueue, `get_next_event`, `process_all_events` | full queue, receiver mutex held over an await | no event lost uncounted |
| LoRa MAC (`duty_cycle`, `single_channel`, `class_bc`, `channel_hopping`, `adr`, `cad`, `lbm` in `wmbus/radio/lora`) | windows of transmissions, beacon and ping slots, hop sequence and blacklist, signal history, messages waiting | per regulation or device class | locks across sleeps, self-deadlock, full blacklist, sliding window, retries against a duplicate cache | airtime limit; usable channels; a rate that settles; what at-least-once means |
| Compact frame cache (`wmbus/compact_cache.rs`) | LRU map, file | insert, get, save, load | size 0, recency after load | bound and recency |
| Mode switching (`wmbus/mode_switching.rs`, `mode_c.rs`) | current mode, back-off | cycle, negotiate | back-off and give-up | every mode tried equally, both ends agree |
| Device manager, network, secondary addressing (`mbus_device_manager.rs`, `wmbus/network.rs`, `mbus/secondary_addressing.rs`) | handles, discovered devices, wildcard search | connect, `send_request`, scan, discover | one bus of several failing; limits | complete answers, honest topologies |
| Frames and blocks (`mbus/frame.rs`, `mbus/simd.rs`, `wmbus/frame.rs`, `frame_decode.rs`, `block.rs`) | a stream buffer | parse, pack, verify, decode | garbled and lost bytes, short last blocks, lengths | a frame is read as built or refused |
| Encryption (`wmbus/crypto.rs`, `crypto_hardware.rs`, `sha_hardware.rs`) | keys, settings, backend | encrypt, decrypt, derive, challenge, MIC | tags, padding, CRC place, two backends | authentic or refused; round trips |
| Payloads (`payload`, `lora/decoders`, `lora/format_detector.rs`, `smart_decoder.rs`, `vendors`) | record position; learnt formats; vendor registry | record walk, decoders, detection, hooks | chains, unknown lengths, cut payloads, hooks going away in the middle | every field is read where it is |
| Pins (`hal/enhanced_gpio.rs`, `hal/raspberry_pi.rs`, `pio_irq.rs`) | pins held, times of edges | set-up, callbacks, waits, debounce | `try_lock` in callbacks, edges between two waits | no edge lost, bounces held back |
| Instrumentation, `IoBuffer` | error windows and their locks; buffered bytes | count, export; write, consume, append, split | lock order; refused writes | counters that add up |
| Logging, command line, test doubles | little | I/O | - | outside the model (section 7) |

How they interact: `WMBusHandle` shares one `Sx126xDriver` behind an
`Arc<tokio::Mutex>` between the background receiver task, the application's
calls and a `ProfileScheduler` (`shared_driver()`); the receiver hands packets to
the application through a channel; the scheduler is cancelled through an atomic
flag plus a `Notify`. The wired side is one caller over one serial port that
nobody drains. The gateway owns an `Rfm69Driver` whose spawned task shares the
SPI bus and a queue with it.

`PROJECT.json` lists every component with its status, and 40 places (`hazards`)
where the code is hard to test, with the property that watches each or, for the one
without, the reason why none does.

## 2. Modules

| Module | Models | Correspondence |
|---|---|---|
| `Sx126xDriver` | chip and driver bookkeeping | one record `radio`; each driver method is an operator from `radio` to `radio`; `FailedEntry` is the set of states a profile change cut short by an SPI error may leave |
| `ProfileLease` | the abstract promise of a scheduled run | the radio is lent from the base profile, one window at a time, and handed back; or the caller is told it could not be |
| `ProfileScheduler` | `run`, `run_inner`, `wait_until`, `enter_profile_rx`, `restore_base`, `CancelToken` | a profile change is one step under the lock; a wait is five (check, subscribe, wait, recheck, change) because `cancel()` stores its flag and notifies in two |
| `DualModeReceiver` | the receiver task of `start_receiver`, `process_irqs_with_mode`, `route_packet`, `stop_receiver`, the air | each SPI access of a poll is a step, so a packet may complete between any two |
| `DualModeRadio` | composes scheduler, receiver and the application's `send_frame`, `transmit`, `lbt_transmit`, sleep and wake-up calls over one driver and one lock | `Next` interleaves the three and the end of a transmission |
| `WiredSession` | master, line and meters | each await of `send_request`/`scan_devices` is a step; line and port are sequences, and a late answer stays in the port |
| `Rfm69Receiver` | interrupt task, FIFO, `start_receive`, `get_received_packet`, `shutdown` | each SPI access that matters is a step; any may fail |
| `Rfm69Gateway` | `run_monitor`, `RadioWatchdog`, SIGTERM, over `Rfm69Receiver` | loop of shutdown check, poll, report; recovery and parking are calls of the driver |
| `Services` | composes the 27 units below | `unit` chooses one per behaviour, for they share no state: side by side they would only multiply their states |
| `ProfileSchedulerProofs`, `DualModeRadioProofs`, `WiredSessionProofs`, `Rfm69GatewayProofs`, `RadioProofs`, `KeyProofs`, `ServicesProofs` | theorems and their lemmas | section 5 (the lemmas of `IoBuffer` stand in the module itself) |
| `MCScheduler`, `MCDualMode`, `MCWired`, `MCServices`, `MCFrameSize` | instances for TLC | values of the constants |

The units of `Services`, with the part of a property each answers for:

| Module | Models | Property |
|---|---|---|
| `IrqEventQueue` | producer, readers and processor task around one channel and one mutex | `LossBounded` |
| `GpioLines` | pins of three owners, callbacks with their `try_lock`, waits, BUSY, the debouncer's FIFO | `EdgesAccounted` |
| `DutyCycle` | the airtime account that forgets too much; power modes ticking over the tracked state; the limiter: ask first, record later, by several callers | `OveruseBounded`, `SleepsOnce`, `LimiterSound` |
| `ClassBC`, `ChannelHopper` | beacons and slots under their locks; strategies, quality, blacklist | `BeaconsIgnored`, `HopUsable` |
| `AdrController` | evaluation over a history, hysteresis, loss, network commands | `AdrSettles` |
| `LbmCore` | mesh messages, retries, duplicate cache | `UnsentStaysUnsent` |
| `CompactFrameCache` | LRU queue and map, save and load | `LruOrder` |
| `GatewayStore` | two key brokers, key database, device store and event log, kill and restart at any step | `KeysDurable`, `LogTruthful` |
| `GatewayMonitor` | the commands that own the radio, sweeps, the MQTT client's queue, connection, will and announcement, across restarts | `MonitorTold` |
| `FrameStream`, `WMBusLink` | streaming decoder and its C mode, full and compact frames, blocks with a vendor's tolerance | `FramesGenuine`, `RegularComplete`, `LinkFramesIntact`, `BlocksLocalised` |
| `WiredFrameCodec` | the four wired frames, checksums added up in lanes, selection frames | `WiredFramesIntact`, `ChecksumsAgree`, `SelectionReaches` |
| `FrameCrypto` | the modes of encryption over an uninterpreted cipher, key derivation, vendor hook, challenge, MIC, backends | `Authentic`, `RoundTrip`, `SpoilsLocally`, `DigestsBind` |
| `RecordWalk` | both record walkers, chains, length tables, resynchronisation | `RecordsAligned` |
| `LoRaFormats`, `LoRaReadings` | detection, learning and statistics; the layouts of nine decoders | `FormatsLearnt`, `PayloadsRead` |
| `VendorRecords` | registry and hooks of vendors, QUNDIS, dates, codes, BCD | `VendorFaithful` |
| `RadioSetup` | configuration calls of the SX126x, each SPI access one step, CAD, tuning | `SetupSound` |
| `Rfm69Owner` | an owner of the `RadioDriver` trait, its tasks old and new | `OwnerServed` |
| `HandleLife` | channel, registry, callback, scan, stop | `HandleFaithful` |
| `BusManager` | several handles, scan, wildcard search, topology, baud rates | `AnswerComplete`, `SearchFinds`, `TopologyHonest`, `RateTrue` |
| `ModeSwitching` | cycle, back-off, negotiation | `ModesFound` |
| `Instrumentation` | registry and device locks, error windows, link metrics, reports | `DevicesKnown` |
| `IoBuffer` | two buffers exchanging bytes | `BufferFaithful` |

The properties of the units say what is true, which is not always what one would
like: where the code has a peculiarity, the property names it as its exception, and
holds with nothing else excepted. The comments of the properties are the list;
those a user meets soonest:

- `append_from` drops the other buffer's bytes when its write is refused; the tail of
  `split_at` has the default limit and panics above it.
- The error of one bus discards what others answered (`send_request` of the manager);
  counting answers to a wildcard is not implemented in the code, so `search` is checked
  with the count it asks for.
- A baud rate is adapted only with `max_collision_retries` at 0; a switch whose ping
  fails stays at the new rate with the old rate's collisions.
- `publish` waits for room in the client's channel of 16, so a broker away for long stops
  the radio loop; after a lost connection the retained status stays "offline".
- `process_retries` meets its own message in the duplicate cache: at-least-once is
  at most once.
- Beacons never move the ping slots, because `handle_beacon` waits for its own lock.
- A registered format is final; Cayenne and OMS walks end silently at what they do not
  know; temperatures below zero of two vendors lose their sign.
- CBC and ECB frames do not come back from the ARM backend's `aes_decrypt_hw`, 12-byte
  tags are never verified, the CRC is checked at the other end than it is put.
- CAD is answered only if the caller routes its interrupts; a detection given up answers
  the next one.
- A second `initialize` of the RFM69 leaves the first one's task on the same chip.

Variables called history (`air`, `delivered`, `raced`, `whole`, `wiped`, `upset`,
...) record what happened for the properties; no action reads them to decide
anything the code decides, except that the wM-Bus parse outcome is a function of
the packet's origin.

What is abstracted: bytes (a packet is its number and the modem it was sent with;
a frame in the FIFO is a head and a body), register settings that do not decide
whether a profile can receive, statistics and logging, and time (a timer may run
out at any moment after it is set, unless the comment at the action says which of
two timers is shorter). The hardware is external: the SX126x is modelled from the
commands the driver sends and the repository's own test double, the RFM69 from the
registers the driver relies on (entering Rx clears the FIFO, leaving it does not),
meters from the FCB rule that the master's toggling presupposes.

Operators whose comment begins with "Mutant of" are plausible bugs of the
definition below them. They belong to no specification: exchanging them for that
definition must break the property they are listed with in `PROJECT.json`, which
shows that the property can fail.

## 3. Runs

Passing runs:

| Run | Question and answer |
|---|---|
| `scheduled_run` (963 states) | A run over five window lists (none, one, two adjoining, three with a GFSK and an empty window, an overlapping one), up to two failing SPI accesses and a cancellation at any moment: it waits only in the right profile (`HoldsProfile`), ends in base reception or says it does not (`ReturnsInBase`), opens at most one window after the flag is stored (`CancelStopsWindows`), tells what happened (`OutcomeTruthful`), returns (`RunReturns`), and implements the lease (`ImplementsLease`). |
| `dual_mode_receive` (184 k) | A run with one LoRa window next to the receiver task, two packets of either modem, one SPI error, `stop_receiver`. Items in order and not older than their length, a packet that lands between clear and read delivered twice and never more (`DeliveredFaithfully`); the packets lost are exactly those that land between status and clear, or are overwritten (`PacketsSurface`); after `stop_receiver` at most one poll finishes (`StopTakesEffect`); missing LoRa parameters only after a failed change (`ParamsOnRecord`). |
| `dual_mode_client` (383 k) | Two application calls among transmit, send, sleep, wake-up and status next to the same run and receiver: Ok means the frame has left the air (`OkMeansSent`), nobody interrupts a frame on the air (`OnAirUndisturbed`), every call returns (`CallsReturn`). |
| `wired_session` (431 k) | Three calls of any kind to two meters on three addresses, one with a three-telegram readout, answers lost, damaged, late or preceded by noise: only the addressed meter's data (`AddressedMeterOnly`), no torn readouts (`ContiguousReadout`), a scan lists exactly the present (`ScanTruthful`), every call returns (`CallsReturn`). |
| `gateway` (165 k) | The monitor over the RFM69 with two frames or noise bursts, FIFO overrun, one SPI error, recovery, SIGTERM: no two frames joined (`WholeFrames`), none lost but at a re-arm (`FramesAccounted`), the queue keeps the newest (`QueueHoldsNewest`), the chip parked at the end (`ParkedAtStop`), a radio that stays in standby ends the process (`DeafRadioReplaced`). |
| `services` (1.05 M) | Every unit of the table above, one per behaviour, with the faults, limits and orders of calls its hazards need. Fourteen properties group the units' own: events and edges (`EventsAccounted`), slots and channels (`SlotAndChannel`), stores, logs and what is published (`StoreTruthful`), payloads (`PayloadsKept`), buffers and streams without faults (`StreamsWhole`), what owners were told of their chips (`ChipsAsTold`), the handle (`HandleFaithful`), buses (`BusesHonest`), airtime (`AirtimeKept`), data rate and mode (`LinkSettles`), the mesh (`UnsentStaysUnsent`), what is learnt (`LearntTruly`), frames (`FramesIntact`) and ciphers (`CryptoSound`). All hold. |

Runs that exhibit a disagreement between the code and what it says of itself
(each is a finding in `PROJECT.json`, with both lines quoted):

| Run | Disagreement |
|---|---|
| `clear_channel` | `lbt_transmit` on a clear channel always answers `WrongState`: its own channel check leaves the chip in Rx and `transmit` insists on standby. |
| `mode_tag` | `ModeTaggedPacket::mode` is the packet type at poll time, not the modem the packet was received under, when a profile switch falls in between. |
| `wired_silence` | A silent meter is never asked again: the outer timer's error is classed as fatal. |
| `wired_readout` | A second `send_request` to the same meter starts again at FCB 0 without SND_NKE, and the meter repeats its last telegram. |
| `gateway_recover` | `recover()` answers Ok without re-arming: `set_mode(Rx)` trusts `current_mode`, which the task's failed re-arm did not update. The watchdog still ends the process (`DeafRadioReplaced`), so the cost is an outage of several watchdog windows. |
| `frame_size` | `packet_size` is two bytes short for a type A frame whose last block has one byte of data: the frame is refused and the stream loses a frame. |

Deadlock is not checked where the system really comes to rest: a run returned and
a receiver stopped, all calls used up, a process that has ended. In
`dual_mode_client` the receiver is never stopped and deadlock is checked.

### Bounds

- `MaxFaults` 1 or 2: an error and an error in its recovery are the two
  situations the code distinguishes (`restore_base`).
- `MaxPackets` 2, `MaxFrames` 2: one buffer or queue slot and its overwriting;
  a packet in the middle of the handling of the other. `MaxQueue` 1 so that
  the queue overflows, `FifoUnits` 3 so that two frames overrun the FIFO.
- `MaxCalls` 2 (radio), 3 (wired): a call that meets what the previous one left
  behind; three so that `send_request_with_adaptation` can use its three tries.
- `MaxAttempts` 1: recover once, then escalate; more repeats the same step.
- `Addresses` 3 with two meters: one present with one telegram, one with three,
  one absent. `MaxNoise` 1: each kind of disturbance at every point.
- `ErrorLimit` 0 makes the receiver's re-arm happen at the first error instead
  of after ten.

- `services`: two to four calls of a component, since a property relates a call to the one
  before; one fault, placed at any step; two of everything that can be mixed up
  (devices, meters, keys, brokers, ports, threads) and three where an order among the
  others matters (cache entries, channels). Queues and caches hold one to three entries
  so that they overflow. Windows of time are 2 to 5 ticks and horizons about twice that, so
  that entries expire and others come after (`DcHorizon` 9, `DlHorizon` 7,
  `CfHorizon` 6). Frames are as short as their kind allows and one block longer
  (`WfMaxLength` 15; `FcLengths` 5, 16 and 40 for less than, exactly and more than two
  blocks; `WlPayloads` with full, short and missing last blocks); checksums in lanes are
  compared on 16, 32, 64 and 80 bytes, one lane to several with a rest. Numbers in decoders
  are bytes with their place, not values.

Bounds are constants with assumptions; the theorems of section 5 hold for all
their values.

## 4. Fairness

- Code in progress goes on: the tokio runtime polls a task whose await is done, and
  timers run out (weak fairness on the waiting and polling steps).
- `tokio::sync::Mutex` is a FIFO lock, so whoever keeps asking for it gets it
  (strong fairness on the steps that take the lock).
- A transmission ends: the chip has a timer of its own.
- The monitor's report falls due again and again (strong fairness on `Assess`, which
  is enabled once a round), and its watchdog window runs out when no packet comes.
- `Services` states no fairness: its properties are safety properties, so a unit may stop
  anywhere. Where liveness of a unit mattered, the question is put as a state (no two
  threads wait for each other, `RegistryMoves`; a search that gave up has tried all,
  `TriedEqually`).
- Nothing is assumed of the air, of meters, of the line, of the application, of
  `cancel()`, SIGTERM or of SPI errors.

## 5. Proofs

All theorems hold for every value of the constants under the named assumptions of
the modules (window lists are sequences of windows, bounds are naturals, meters are
among the addresses, a meter whose telegrams announce no end sends few enough).

| Theorem | Says |
|---|---|
| `SchedTypeCorrect` | type invariant of a scheduled run |
| `SchedHoldsProfile` | whenever the run waits, the radio is armed in the profile the timeline calls for |
| `SchedReturnsInBase` | base reception at the end, unless the caller is told otherwise |
| `SchedCancelStops` | at most one window change after the cancel flag is stored |
| `SchedOutcomeTruthful` | each outcome has its cause |
| `SchedImplementsLease` | refinement: `SchedSpec => Lease!Spec` |
| `RadioTypeCorrect` | type invariant of driver, scheduler, receiver task and application together |
| `RadioDeliversFaithfully` | items in the order of the air, length no younger than metadata, no packet more than twice |
| `RadioOnAirUndisturbed` | action property: nobody commands the chip out of a transmission but its own call |
| `RadioOkMeansSent` | action property: Ok means the frame has left the air |
| `RadioParamsOnRecord` | LoRa reception without parameters only after a profile change cut short |
| `RadioStopsReceiver` | after `stop_receiver` at most the poll under way is finished |
| `WiredTypeCorrect` | type invariant of the wired session |
| `WiredAddressedMeter` | data returned come from the meter asked, whatever is in the port |
| `WiredContiguous` | a readout is in one piece as long as nothing came late or out of frame |
| `WiredScanTruthful` | a scan lists no absent meter, and on an undisturbed line every present one |
| `GatewayTypeCorrect` | type invariant of monitor, watchdog and receiver |
| `GatewayParksRadio` | after a clean stop the task has ended and the chip sleeps, unless an SPI access failed |
| `GatewayQueueNewest` | the bounded queue holds the newest frames in order |
| `GatewayFramesWhole` | every packet handed on is the head and the body of one frame, in order |
| `GatewayFramesAccounted` | a complete frame is handed on, on its way, or was in the FIFO at a re-arm |
| `ServicesStoreTruthful` | keys durable before live, logs that tell one story, status and radio as the programs left them |
| `ServicesChipsAsTold` | a setup answered Ok is whole; the mode on record is the chip's but for named writers |
| `ServicesEventsAccounted` | losses counted, one event for each edge but bounces, words taken once |
| `ServicesAirtimeKept` | overuse of the window and of the limiter bounded, one sleep between two standbys |
| `ServicesBusesHonest` | answers have every bus's part, the search finds the twins, topologies and rates are true |
| `ServicesHandleFaithful` | the handle's channel and scan give what was heard |
| `ServicesUnsentStaysUnsent` | a mesh message goes out no more often than its cache entry allows |
| `ServicesSlotAndChannel` | slots and channels stay as calculated, exceptions named |
| `ServicesCryptoSound` | authentic or refused, round trips, local damage, digests that bind |
| `ServicesLearntTruly` | what is kept of meters is forgotten in order, counted in its window, registered only when known |
| `ServicesLinkSettles` | the data rate does not oscillate, a good signal never raises the power; modes tried equally before giving up, both ends pick the same mode |
| `ServicesStreamsWhole` | every byte written is taken, held, cleared or dropped, a buffer gives its bytes back in order, none exceeds its highest limit, `stats()` adds up; a stream without faults is decoded to its last frame, unless one ends in a block of one byte |

*Scheduler.* `EnterProfileArms`: a completed entry arms its profile from whatever
state it began in; `FailedEntryType`, `FailedEntryLoses`: one cut short leaves a
well-formed radio, either as it was or not receiving. `HoldsProfile` alone is not
inductive: `SchedInv` adds that the window being served exists (`WindowServed`).
Cancellation is a second invariant, `LateOnce`: after a late change the run stands
before a check of the flag or is on its way home. Truthfulness needs `Reasons` (a
run on its timeline has seen no error; going home has a cause; an error cost an
access; a wake-up comes with the flag) and `ToldAtEnd` (an outcome is set exactly at
the end). The refinement maps `lease` to the profile the radio receives in and
`verdict` to what was told; every step is then a step of `ProfileLease` or a stutter.

*Dual-mode radio.* `SchedEffect`, `ClientEffect`, `TaskEffect` and `ArriveEffect` say
once what a step of each actor can do to the radio; the rest rests on `LockHeld` (who
is inside the driver holds the lock, and nobody else commands the chip), `ModemOnRecord`
and `SentInv` (a TxDone that the caller will find is that of its own frame, unless an
access failed). For what is delivered, `OrderInv` relates the last item, the snapshot of
the poll under way and the buffer to the air, and `CopiesInv` counts the copies of a
packet against what is still announced: a packet delivered once may be announced again
only if it landed between clear and read, which can happen once.

*Wired session.* `AddressedMeterOnly` speaks of results; `KeptInv` adds that what is
being accumulated comes from the meter being read, and that nothing is held between
attempts or by a scan. The port's content is constrained by type only: the argument
does not depend on what late answers are in it. A readout in one piece needs more: on a
line that was not upset there is at most one frame, the answer to the request that is
waiting (`QuietInv`), the meter stands where its last answer left it (`MeterInv`), and
what is accumulated ends at that place (`ReadoutInv`). `ScanInv` compares the list with the
addresses asked so far.

*Gateway.* `ParkInv`: calls are made one at a time (`OneCall`), so `shutdown`
starts from `current_mode` Rx and its `set_mode(Sleep)` does write the register; it
gets there only when the task has ended (`Parking`); a chip asleep receives nothing.
For the frames, task buffer and FIFO are read as one stream of heads and bodies
(`StreamInv`: a well-formed sequence of frames, the last perhaps still arriving);
taking a burst moves the front of that stream, and `StageInv` says what stage of the task
sees which front. `AccountInv` then places every complete frame. The queue is
`EndOf(queue, delivered)`, a suffix of all that was delivered: `EndOfAppend`, `EndOfTail`.

*Services.* The units share no variable, so `UnitSteps` reduces an invariant of one to
its own `Init` and `Next`; the lemmas about units stand in `RadioProofs` (setup, RFM69
owner, airtime, events, buses) and `KeyProofs` (ciphers, store, programs, what is
learnt), which know nothing of the others, and in `ServicesProofs`.

- `ChipsAsTold`. A call is a sequence of accesses still to be made; what matters of it is the
  set of them (`SetupInv`), or for the RFM69 their order by rank (`OwnerInv`, `Plans`):
  setting the mode, recording it, spawning the task never come in another order. A setup that
  answers Ok has nothing left to do, so all of it is on the chip.
- `AirtimeKept`. Airtime is a set of units (a transmission and a number up to its length),
  so that sums are cardinalities (`PartsAdd`). `LimiterInv`: what the window holds and
  what is granted stay together within the limit and one longest transmission for each caller
  but one. `Accounted`: what the manager's record has forgotten of the sliding window, at a
  window's end, is less than the limit, so the window holds less than twice as much.
- `EventsAccounted`. `QueueInv`: at most seven interrupts are lost with each drop counted, and
  one event is spilt by each drain;
  `EdgeInv` counts the edges a pin let through, and finds by `GreatestNatural` the one that a
  bounce is within the window of; `WordInv` splits the FIFO's words at the reader.
- `StoreTruthful`. `KeyInv`: a key the memory does not have yet is one that was committed, and
  its install names the meter. `LogInv`: what the log says after its first n events (`LogTells`) is what the
  device's record says now; one more event changes it as `TellsMore` tells. Of programs,
  `PlanOver` bounds the set of steps a plan may still take, and `LinkInv`, `KeptInv` and
  `HandInv` relate those steps to the connection, the retained status and the radio.
- `BusesHonest`. A call, a discovery and a line each have their invariant (`CallInv`,
  `TopologyInv`, `LineInv`). The search is a recursion over the bytes of an address: `SearchIs`
  shows that the recursion has a function, and `FindsFrom` says what it finds for a pattern
  that is open from a byte on, proved for the last byte (`LastRound`) and from each byte for
  the one before it (`EarlierRound`).
- `LearntTruly`. Six invariants. The cache: queue and map hold the same devices once each, and
  what was used since the file was read lies behind what was not (`CacheInv`). The registry:
  who is at which step holds which lock, and no two devices share statistics (`RegistryInv`).
  A device's windows are apart and begun, each counts the errors that fell in it, and an error
  in none of them is older than all windows but one (`CountedInv`; that the windows may lose
  such an error is the code's rounding, and the property allows no more). The measures of a
  link are bounded by its samples (`MeasuresInv`). `ReportsWhole` is inductive as it stands.
  What is counted for a device is the number of packets heard of each kind (`FormatsInv`), and
  `Detect` returns the first of the surest guesses (`DetectIsBest`), which is what the list of
  all guesses begins with (`AgreesAlways`). Elements taken from a sequence, sums and the best
  guess are recursive functions along it; `TakesExists`, `SumsExist`, `BestsExist` and
  `SuretiesExist` show that there is one, and what it returns.
- `LinkSettles`, data rate. `AdrInv` bounds factor and power. The average of any history is an integer
  (`SumTyped`, along the history); a factor that the ladder of thresholds chose leaves a
  margin of 10 dB over its sensitivity (`MarginLeft`), so the power it sets is no higher. An
  RSSI is assumed from -240 to 15 dBm, where the `i8` of the power does not wrap.
- `LinkSettles`, mode. `MsInv`: a mode was tried once for each of its places in the sequence and
  each whole cycle, and for each place up to the current one (`OneMoreTried`, `LastTried`);
  the pause is a function of the cycles (`PauseAfter`, `PauseGrows`). `BestShared`: the first
  of the shared modes does not depend on who asks.
- `HandleFaithful`, `UnsentStaysUnsent`. What is in the channel is the rest of what was sent
  (`HandleChannel`), and what was sent is what was heard but for one item in the task's hand
  (`Entered`). A message in the duplicate cache is not routed again (`MeshOnce`).
- `CryptoSound`. `SealInv` and `ReadInv` say which block of a message is still the sealed
  one. A cipher is an uninterpreted injection under each key, so authenticity is an equality
  of terms.
- `SlotAndChannel`. `next_beacon` changes only under a lock that is then held for ever, and the
  calculation of slots waits for that lock (`SlotInv`); a strategy lands on the first usable channel after the current one (`LeastNatural`).

What the proofs changed in the model: a message cut short behind its last block kept
blocks it never had (`FirstBlocks`, found by a failing step of `SealInv`); the pins of
a set-up may not be none (`GpSetups`, found by `PinInv`); the airtime, the pending
interrupts and the log of each meter became sets and sequences of their own, and filters, sums
and the best guess recursive functions, which say the same and can be reasoned about.
`TriedEqually` counted each mode once, which is false of a sequence that names a mode twice
(found by a failing step of `MsInv`): it now counts the places of a mode, and the run has such a
sequence.

*Buffer.* `IbInv` adds the types and that no limit is above the highest so far
(`InOrder`); `OneReplaced` and `BothReplaced` say what the two buffers hold together
when an action replaces one or both, and each action has its lemma. `PlaceInv` says where the
bytes are: the five places hold all that were written, no buffer holds a byte twice, the two
share none, and unless bytes were appended behind younger ones each buffer is in rising order.
That the buffers share no byte, and the order of the one appended, are what joining them in order
needs and neither `BytesKept` nor `OrderKept` says. `JoinedElements` and `PartElements` carry these
three facts through joining and cutting a sequence, and each action has its lemma again.

*Stream.* `StreamInv` reads buffer and wire as one: each byte in the buffer is followed by the next
of its frame, or by the first of the next frame (`Successor` of it in `Upcoming`, which ends with the
next byte on the wire), the first byte begins the frame after those decoded, and the wire holds the
ends of the frames not yet fed. It holds as long as nothing is garbled, lost or reset and no frame
ends in a block of one byte (`Undisturbed`). `LengthSent` is the arithmetic of the blocks: the size
that the header tells is then the length as sent. `FrameInFront` concludes that the first so many bytes are
one frame, by the least position where they are not (`LeastNatural`), and `FrameDecoded` that its
CRCs hold. So every step is a frame taken whole, and an empty wire with an empty buffer means that
all were decoded (`StreamRead`).

Induction is not available as a library theorem here (its rules take operators as
parameters), but every set of naturals that is not empty having a least member is proved once
(`LeastNatural`, and `GreatestNatural` for bounded ones), and carries the arguments above that
go along a sequence.

Only model-checked:

- liveness under fairness (`RunReturns`, `CallsReturn`, `PacketsSurface`,
  `DeafRadioReplaced`), which is beyond the proof system, as is ENABLED;
- `PayloadsKept` and `FramesIntact`. In part they say what a decoder or a parser computes by
  recursion over its input; in part they cannot hold for every value of the constants, but for as
  many faults as the code's check sums tell: two garbled bytes cancel in the sum of a wired frame,
  and a frame of type A, whose blocks have a CRC each, can be completed by a block of another
  (`WfFaults`, `WlFaults` and `FsFaults` are 1 in the run).

## 6. Plan

Modelled: every component with state of its own, or with an algorithm that a bounded
input can get wrong. Proved: all safety properties of the radio, the wired session, the
scheduler and the gateway, and twelve of the fourteen of `Services`. What is left for the
prover is what section 5 lists as only model-checked.

Abstract specifications worth stating besides `ProfileLease`: a receive channel as
a lossy, at-most-twice, ordered queue (for the receiver), a bounded drop-oldest queue
(RFM69), a request/response session (wired), a bounded LRU map (cache).

## 7. Not modelled

- Arithmetic: the rounds of AES and SHA, CRC polynomials, modulation, calibration and
  airtime formulas. A cipher or a CRC is modelled by what its users rely on.
- Tables: VIFs, manufacturers, device types, units, line codes, default parameters.
- Pure I/O: SPI transfers, memory-mapped registers, logging, printing, command lines, the
  capture, replay and live commands of the gateway.
- `smart_decoder_v2.rs`, which no module includes, and the test doubles of the serial port.
- Parts of the LoRa classes and of the handles that so far only log or answer an error
  (`run_class_c`, `send_request_to_secondary`).
- In modelled components: counters and statistics that no property speaks of, and
  diagnostics read from the chip.

Each component's note in `PROJECT.json` says what is left of it.
