---------------------------- MODULE WiredSession ----------------------------
(***************************************************************************)
(* The wired M-Bus master (src/mbus/serial.rs, src/mbus/mbus_protocol.rs): *)
(* send_request, send_request_with_adaptation and scan_devices over one    *)
(* serial line to the meters on the bus.                                   *)
(*                                                                         *)
(* The line is a pipe nobody empties: an answer the master gave up on      *)
(* still arrives, and the next read finds it.  A damaged start byte makes  *)
(* recv_frame give up after that single byte; the others stay behind.      *)
(*                                                                         *)
(* Not modelled, because no decision here depends on it: the state field   *)
(* of StateMachine, which nothing reads, and CollisionStatistics, whose    *)
(* total_collisions stays 0 for any max_collision_retries above 0, so that *)
(* auto_adapt_baud_rate never switches.                                    *)
(***************************************************************************)
EXTENDS Naturals, Sequences

CONSTANTS
  Addresses,            \* scan_devices polls 1..Addresses (250)
  Telegrams,            \* telegrams per readout, by address of each meter
  Embedded,             \* meters whose last telegram holds a data byte 0x1F
  Ops,                  \* the calls the application makes
  MaxCalls,             \* bound: how many of them (with adaptation: a call per try)
  MaxNoise,             \* bound: disturbances of the line
  MaxPayload            \* bound: telegrams kept of a readout that never ends

Meters == DOMAIN Telegrams

ASSUME MetersAssumption ==
  /\ Addresses \in 1..250
  /\ Meters \subseteq 1..Addresses
  /\ Telegrams \in [Meters -> Nat \ {0}]
  /\ Embedded \subseteq Meters
ASSUME OpsAssumption ==
  Ops \subseteq {"send_request", "send_request_with_adaptation", "scan_devices"}
ASSUME BoundsAssumption ==
  MaxCalls \in Nat /\ MaxNoise \in Nat /\ MaxPayload \in Nat
ASSUME PayloadAssumption == \A a \in Meters \ Embedded : Telegrams[a] <= MaxPayload

VARIABLES
  mpc,                  \* where the call in progress is
  op,                   \* which call, and the address being polled
  attempt,              \* send_request's attempt, from 1
  tries,                \* send_requests left to send_request_with_adaptation
  fcb,                  \* StateMachine::fcb
  payload,              \* telegrams accumulated by attempt_communication
  result,               \* what the last call returned
  found,                \* addresses scan_devices has discovered
  line,                 \* answers on their way from the meters
  inbox,                \* what the serial port has received and nobody read
  meter,                \* of each meter: last FCB it saw, telegram it sent
  calls,                \* calls made
  noise,                \* disturbances so far
  upset                 \* history: an attempt left its answer unread, or read out of frame

master == <<mpc, op, attempt, tries, fcb, payload, result, found, calls>>
bus    == <<line, inbox, meter, noise, upset>>
vars   == <<master, bus>>

MaxAttempts == 3

(* An RSP_UD as the master sees it; ok is its checksum.  Junk is a run of  *)
(* bytes that is not a frame.                                              *)
Frame == [from : Meters, tel : Nat \ {0}, more : BOOLEAN, ok : BOOLEAN]
Part  == [from : Meters, tel : Nat \ {0}, ok : BOOLEAN]  \* its data, as kept
Junk  == [from |-> 0, tel |-> 0, more |-> FALSE, ok |-> FALSE]

Retryable == {"parse", "checksum"}
Failure   == Retryable \cup {"timeout", "port", "address", "record", "exhausted"}
NoResult  == [status |-> "none", target |-> 0, payload |-> <<>>]

Init ==
  /\ mpc = "idle" /\ op = [kind |-> "read", target |-> 0]
  /\ attempt = 1 /\ tries = 1
  /\ fcb = FALSE /\ payload = <<>>
  /\ result = NoResult /\ found = {}
  /\ line = <<>> /\ inbox = <<>>
  /\ meter = [a \in Meters |-> [asked |-> FALSE, fcb |-> FALSE, tel |-> 1]]
  /\ calls = 0 /\ noise = 0 /\ upset = FALSE

-----------------------------------------------------------------------------
(* The application's calls.                                                *)

Call(name, k, a, n) ==
  /\ name \in Ops /\ mpc = "idle" /\ calls + n <= MaxCalls
  /\ calls' = calls + n /\ tries' = n
  /\ op' = [kind |-> k, target |-> a]
  /\ attempt' = 1
  /\ mpc' = "select"
  /\ result' = NoResult /\ found' = {}
  /\ UNCHANGED <<fcb, payload, bus>>

(* 0 stands for every address select_device refuses; 253 passes it like    *)
(* the others.                                                             *)
SendRequest(a)        == Call("send_request", "read", a, 1)
SendWithAdaptation(a) == Call("send_request_with_adaptation", "read", a, 3)
ScanDevices           == Call("scan_devices", "scan", 1, 1)

-----------------------------------------------------------------------------
(* How a step of a call goes wrong.                                        *)

(* Mutant of ScanNext: one address too many.                               *)
ScanNextInclusive ==
  /\ op.kind = "scan"
  /\ IF op.target <= Addresses
       THEN op' = [op EXCEPT !.target = @ + 1] /\ mpc' = "select" /\ UNCHANGED result
       ELSE /\ mpc' = "idle" /\ UNCHANGED op
            /\ result' = [status |-> "scanned", target |-> 0, payload |-> <<>>]
  /\ UNCHANGED <<attempt, tries>>

(* scan_devices: no second attempt, on to the next address.                *)
ScanNext ==
  /\ op.kind = "scan"
  /\ IF op.target < Addresses
       THEN op' = [op EXCEPT !.target = @ + 1] /\ mpc' = "select" /\ UNCHANGED result
       ELSE /\ mpc' = "idle" /\ UNCHANGED op
            /\ result' = [status |-> "scanned", target |-> 0, payload |-> <<>>]
  /\ UNCHANGED <<attempt, tries>>

(* send_request asks handle_error.                                         *)
Retry(e) ==
  /\ op.kind = "read" /\ e \in Retryable /\ attempt < MaxAttempts
  /\ attempt' = attempt + 1 /\ mpc' = "select"
  /\ UNCHANGED <<op, tries, result>>

(* A fatal error, or the last attempt: send_request returns, and           *)
(* send_request_with_adaptation calls it again.                            *)
GiveUp(e) ==
  /\ op.kind = "read"
  /\ e \notin Retryable \/ attempt = MaxAttempts
  /\ result' = [status |-> IF attempt = MaxAttempts THEN "exhausted" ELSE e,
                target |-> op.target, payload |-> <<>>]
  /\ \/ tries = 1 /\ mpc' = "idle" /\ UNCHANGED <<attempt, tries>>
     \/ tries > 1 /\ mpc' = "select" /\ tries' = tries - 1 /\ attempt' = 1
  /\ UNCHANGED op

(* Mutant of Fail: a retry keeps the telegrams of the attempt before.      *)
FailKeepsPayload(e) ==
  (ScanNext \/ Retry(e) \/ GiveUp(e)) /\ UNCHANGED <<fcb, payload, found, calls>>

(* The telegrams accumulated so far go with the attempt.                   *)
Fail(e) ==
  /\ ScanNext \/ Retry(e) \/ GiveUp(e)
  /\ payload' = <<>>
  /\ UNCHANGED <<fcb, found, calls>>

-----------------------------------------------------------------------------
(* attempt_communication and scan_single_device.                           *)

(* select_device on a fresh or reset StateMachine, or on that of the       *)
(* attempt before: the FCB starts at 0 each time.  No frame is sent.       *)
Select ==
  /\ mpc = "select"
  /\ \/ /\ op.target \in 1..250
        /\ mpc' = "request" /\ fcb' = FALSE
        /\ UNCHANGED <<op, attempt, tries, payload, result, found, calls>>
     \/ op.target \notin 1..250 /\ Fail("address")
  /\ UNCHANGED bus

(* A meter answers a REQ_UD2: the telegram after the one it sent last if   *)
(* the FCB has changed, else that one again.                               *)
Telegram(a, f) ==
  LET m == meter[a] IN
  CASE ~m.asked   -> 1
    [] m.fcb = f  -> m.tel
    [] OTHER      -> (m.tel % Telegrams[a]) + 1

Answer(a, t) ==
  [from |-> a, tel |-> t, more |-> t < Telegrams[a] \/ a \in Embedded, ok |-> TRUE]

Asked(a) ==
  LET t == Telegram(a, fcb) IN
  /\ meter' = [meter EXCEPT ![a] = [asked |-> TRUE, fcb |-> fcb, tel |-> t]]
  /\ line' = Append(line, Answer(a, t))

Disturbed == noise < MaxNoise /\ noise' = noise + 1

(* request_data and send_frame.  The request may be lost on the way, or    *)
(* the port may refuse it.                                                 *)
RequestSent ==
  /\ mpc' = "await"
  /\ \/ op.target \in Meters /\ Asked(op.target) /\ UNCHANGED noise
     \/ op.target \notin Meters /\ UNCHANGED <<line, meter, noise>>
     \/ op.target \in Meters /\ Disturbed /\ UNCHANGED <<line, meter>>
  /\ UNCHANGED <<op, attempt, tries, fcb, payload, result, found, calls>>

PortRefuses == Disturbed /\ Fail("port") /\ UNCHANGED <<line, meter>>

Request ==
  /\ mpc = "request"
  /\ RequestSent \/ PortRefuses
  /\ UNCHANGED <<inbox, upset>>

(* The timer around recv_frame: its duration is that of the timer of each  *)
(* read within, so a silent line ends the attempt before recv_frame can    *)
(* back off and read again.  Bytes already taken from a frame are gone.    *)
TimerElapses ==
  /\ mpc = "await"
  /\ \/ inbox = <<>> /\ UNCHANGED <<inbox, line>>
     \/ inbox = <<Junk>> /\ inbox' = <<>> /\ UNCHANGED line
     \/ /\ inbox = <<>> /\ line # <<>>
        /\ line' = <<Junk>> \o Tail(line) /\ UNCHANGED inbox
  /\ upset' = (upset \/ line # <<>>)
  /\ Fail("timeout")
  /\ UNCHANGED <<meter, noise>>

-----------------------------------------------------------------------------
(* recv_frame and what is done with the frame.                             *)

(* Junk is taken a byte at a time; a byte that looks like a start byte     *)
(* takes some of what follows along.                                       *)
Misread ==
  { inbox, Tail(inbox) } \cup
  (IF Len(inbox) = 1 THEN {} ELSE
     { SubSeq(inbox, 3, Len(inbox)), <<Junk>> \o SubSeq(inbox, 3, Len(inbox)) })

ReadJunk ==
  /\ mpc = "await" /\ inbox # <<>> /\ Head(inbox) = Junk
  /\ inbox' \in Misread
  /\ Fail("parse")
  /\ UNCHANGED <<line, meter, noise, upset>>

(* A read error is wrapped into a parse error by attempt_communication.    *)
ReadFails ==
  /\ mpc = "await"
  /\ Disturbed /\ Fail("parse")
  /\ upset' = (upset \/ line # <<>> \/ inbox # <<>>)
  /\ UNCHANGED <<line, inbox, meter>>

(* Mutant of Verdict: the answering meter's address is not compared.       *)
VerdictAnyMeter(f) == IF f.ok THEN "ok" ELSE "checksum"

(* receive_data.                                                           *)
Verdict(f) ==
  CASE f.from # op.target -> "parse"
    [] ~f.ok              -> "checksum"
    [] OTHER              -> "ok"

Accumulated(f) ==
  IF Len(payload) < MaxPayload
    THEN Append(payload, [from |-> f.from, tel |-> f.tel, ok |-> f.ok]) ELSE payload

(* Mutant of More: the FCB is not toggled between telegrams.               *)
MoreSameFcb(f) ==
  /\ f.more
  /\ payload' = Accumulated(f) /\ UNCHANGED fcb
  /\ mpc' = "request"
  /\ UNCHANGED <<op, attempt, tries, result, found, calls>>

(* A data byte 0x1F, wherever it stands, asks for the next telegram.       *)
More(f) ==
  /\ f.more
  /\ payload' = Accumulated(f) /\ fcb' = ~fcb
  /\ mpc' = "request"
  /\ UNCHANGED <<op, attempt, tries, result, found, calls>>

(* The last telegram: process_data yields records, or refuses one of them. *)
Finish(f) ==
  /\ ~f.more
  /\ \/ /\ result' = [status |-> "ok", target |-> op.target, payload |-> Accumulated(f)]
        /\ payload' = <<>> /\ mpc' = "idle"
        /\ UNCHANGED <<op, attempt, tries, fcb, found, calls>>
     \/ Fail("record")

(* A scan is content with the first telegram.                              *)
Discover ==
  /\ ScanNext
  /\ found' = found \cup {op.target}
  /\ UNCHANGED <<fcb, payload, calls>>

ReadFrame ==
  /\ mpc = "await" /\ inbox # <<>> /\ Head(inbox) # Junk
  /\ inbox' = Tail(inbox)
  /\ LET f == Head(inbox) IN
     \/ Verdict(f) # "ok" /\ Fail(Verdict(f))
     \/ Verdict(f) = "ok" /\ op.kind = "read" /\ (More(f) \/ Finish(f))
     \/ Verdict(f) = "ok" /\ op.kind = "scan" /\ Discover
  /\ UNCHANGED <<line, meter, noise, upset>>

-----------------------------------------------------------------------------
(* The line delivers, loses or damages the answer at its head.             *)

Arrive ==
  /\ line # <<>> /\ line' = Tail(line)
  /\ inbox' = Append(inbox, Head(line))
  /\ UNCHANGED <<meter, noise, upset, master>>

Disturb ==
  /\ line # <<>> /\ line' = Tail(line) /\ Disturbed
  /\ LET f == Head(line) IN
     \/ UNCHANGED <<inbox, upset>>
     \/ f # Junk /\ inbox' = Append(inbox, [f EXCEPT !.ok = FALSE]) /\ UNCHANGED upset
     \/ upset' = TRUE /\ inbox' \in {Append(inbox, Junk), inbox \o <<Junk, f>>}
  /\ UNCHANGED <<meter, master>>

-----------------------------------------------------------------------------
Calls  == \/ \E a \in 0..Addresses : SendRequest(a) \/ SendWithAdaptation(a)
          \/ ScanDevices
Step   == Select \/ Request \/ TimerElapses \/ ReadJunk \/ ReadFails \/ ReadFrame
Next   == Calls \/ Step \/ Arrive \/ Disturb

(* The runtime polls a call in progress, and its timers run out.           *)
Spec == Init /\ [][Next]_vars /\ WF_vars(Step)

-----------------------------------------------------------------------------
Inbound == Frame \cup {Junk}

MasterTypeOK ==
  /\ mpc \in {"idle", "select", "request", "await"}
  /\ op \in [kind : {"read", "scan"}, target : 0..Addresses]
  /\ attempt \in 1..MaxAttempts /\ tries \in 1..3
  /\ fcb \in BOOLEAN
  /\ payload \in Seq(Part) /\ Len(payload) <= MaxPayload
  /\ result \in [status : Failure \cup {"none", "ok", "scanned"},
                 target : 0..Addresses, payload : Seq(Part)]
  /\ found \subseteq 0..Addresses
  /\ calls \in 0..MaxCalls

BusTypeOK ==
  /\ line \in Seq(Inbound) /\ inbox \in Seq(Inbound)
  /\ meter \in [Meters -> [asked : BOOLEAN, fcb : BOOLEAN, tel : Nat \ {0}]]
  /\ noise \in 0..MaxNoise /\ upset \in BOOLEAN

TypeOK == MasterTypeOK /\ BusTypeOK

(* However late, lost or damaged the answers, and whoever gave them: the   *)
(* data a call returns comes from the meter it asked, undamaged            *)
(* (receive_data).                                                         *)
AddressedMeterOnly ==
  result.status = "ok" =>
    \A i \in DOMAIN result.payload :
      result.payload[i].from = result.target /\ result.payload[i].ok

(* Retries do not tear a readout: the telegrams of one result follow one   *)
(* another and end with the last of the readout, as long as no answer came *)
(* late or out of frame.  (attempt_communication starts over, and toggles  *)
(* the FCB after each telegram it accepts.)                                *)
ContiguousReadout ==
  result.status = "ok" /\ ~upset =>
    LET p == result.payload IN
    /\ p[Len(p)].tel = Telegrams[result.target]
    /\ \A i \in 1..(Len(p) - 1) : p[i + 1].tel = p[i].tel + 1

(* scan_devices lists only addresses that answered in person, and all of   *)
(* them on a line that neither disturbs nor delays.                        *)
ScanTruthful ==
  /\ found \subseteq Meters
  /\ result.status = "scanned" /\ mpc = "idle" /\ noise = 0 /\ ~upset => found = Meters

(* Every call returns, unless the meter's data keep announcing another     *)
(* telegram.                                                               *)
CallsReturn == mpc # "idle" ~> (mpc = "idle" \/ op.target \in Embedded)

-----------------------------------------------------------------------------
(* Statements of the documentation the code does not keep.                 *)

(* docs/PROTOCOL.md: "Timeout: Retry with exponential backoff", "Retry     *)
(* Mechanism: 3 attempts with timeout".                                    *)
SilenceIsRetried ==
  [][TimerElapses /\ op.kind = "read" => attempt' = attempt + 1 \/ attempt = MaxAttempts]_vars

(* docs/ARCHITECTURE.md: "Full protocol state machine with                 *)
(* request/response handling, FCB toggling, multi-telegram assembly": a    *)
(* result holds the whole readout of its meter.                            *)
WholeReadout ==
  result.status = "ok" /\ noise = 0 /\ ~upset => result.payload[1].tel = 1
=============================================================================
