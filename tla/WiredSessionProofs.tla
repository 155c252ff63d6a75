------------------------- MODULE WiredSessionProofs -------------------------
(***************************************************************************)
(* What is proved of the wired session: its types; that its data come from *)
(* the meter that was asked, which needs to know what is being accumulated *)
(* while the call is still running (KeptInv); that no readout is torn and  *)
(* no meter overlooked while no answer comes late or out of frame, which   *)
(* needs to know what the line may hold and where the meter stands         *)
(* (BusInv).                                                               *)
(***************************************************************************)
EXTENDS WiredSession, TLAPS

(* What attempt_communication holds came from the meter being read, and    *)
(* nothing is held between attempts or by a scan.                          *)
OwnParts == \A i \in DOMAIN payload : payload[i].from = op.target /\ payload[i].ok
HoldsNothing == op.kind = "scan" \/ mpc \in {"idle", "select"} => payload = <<>>
KeptInv == OwnParts /\ HoldsNothing /\ AddressedMeterOnly

-----------------------------------------------------------------------------
(* Lemmas about the ways a step ends.                                      *)

LEMMA PortTypes == Junk \in Inbound /\ Frame \subseteq Inbound
BY DEF Inbound

LEMMA ScanNextTypes ==
  ASSUME MasterTypeOK, ScanNext
  PROVE  /\ op' \in [kind : {"read", "scan"}, target : 0..Addresses]
         /\ mpc' \in {"idle", "select"}
         /\ result' \in [status : Failure \cup {"none", "ok", "scanned"},
                         target : 0..Addresses, payload : Seq(Part)]
<1> USE MetersAssumption
<1>1. op.target \in 0..Addresses /\ op.kind \in {"read", "scan"}
  BY DEF MasterTypeOK
<1>2. CASE op.target < Addresses
  <2>1. op' = [op EXCEPT !.target = op.target + 1] /\ mpc' = "select" /\ result' = result
    BY <1>2 DEF ScanNext
  <2>2. op.target + 1 \in 0..Addresses
    BY <1>1, <1>2
  <2> QED BY <2>1, <2>2 DEF MasterTypeOK
<1>3. CASE ~(op.target < Addresses)
  <2>1. /\ op' = op /\ mpc' = "idle"
        /\ result' = [status |-> "scanned", target |-> 0, payload |-> <<>>]
    BY <1>3 DEF ScanNext
  <2> QED BY <2>1 DEF MasterTypeOK
<1> QED BY <1>2, <1>3

LEMMA FailTypes ==
  ASSUME MasterTypeOK, NEW e \in Failure, Fail(e)
  PROVE  MasterTypeOK'
<1> USE MetersAssumption
<1>1. payload' = <<>> /\ payload' \in Seq(Part) /\ Len(payload') <= MaxPayload
  BY BoundsAssumption DEF Fail
<1>2. CASE ScanNext
  <2>1. UNCHANGED <<attempt, tries, fcb, found, calls>>
    BY <1>2 DEF Fail, ScanNext
  <2> QED BY <1>1, <1>2, <2>1, ScanNextTypes DEF MasterTypeOK
<1>3. CASE Retry(e)
  BY <1>1, <1>3 DEF Fail, Retry, MasterTypeOK, MaxAttempts
<1>4. CASE GiveUp(e)
  <2>1. result' \in [status : Failure \cup {"none", "ok", "scanned"},
                     target : 0..Addresses, payload : Seq(Part)]
    BY <1>4 DEF GiveUp, MasterTypeOK, Failure
  <2> QED BY <1>1, <1>4, <2>1 DEF Fail, GiveUp, MasterTypeOK, MaxAttempts
<1> QED BY <1>2, <1>3, <1>4 DEF Fail

LEMMA SelectTypes == TypeOK /\ Select => TypeOK'
<1> SUFFICES ASSUME TypeOK, Select PROVE TypeOK'
  OBVIOUS
<1>1. BusTypeOK'
  BY DEF Select, bus, TypeOK, BusTypeOK, Inbound
<1>2. CASE Fail("address")
  BY <1>1, <1>2, FailTypes DEF TypeOK, Failure
<1>3. CASE op.target \in 1..250 /\ ~Fail("address")
  BY <1>1, <1>3 DEF Select, TypeOK, MasterTypeOK
<1> QED BY <1>2, <1>3 DEF Select

LEMMA AskedTypes ==
  ASSUME TypeOK, NEW a \in Meters, Asked(a)
  PROVE  /\ line' \in Seq(Inbound)
         /\ meter' \in [Meters -> [asked : BOOLEAN, fcb : BOOLEAN, tel : Nat \ {0}]]
<1>1. Telegram(a, fcb) \in Nat \ {0}
  BY MetersAssumption DEF Telegram, TypeOK, BusTypeOK, MasterTypeOK
<1>2. Answer(a, Telegram(a, fcb)) \in Frame
  <2>1. (Telegram(a, fcb) < Telegrams[a] \/ a \in Embedded) \in BOOLEAN
    OBVIOUS
  <2> QED BY <1>1, <2>1 DEF Answer, Frame
<1>3. line' \in Seq(Inbound)
  BY <1>2, PortTypes DEF Asked, TypeOK, BusTypeOK
<1> QED BY <1>1, <1>3 DEF Asked, TypeOK, BusTypeOK, MasterTypeOK

LEMMA RequestTypes == TypeOK /\ Request => TypeOK'
<1> SUFFICES ASSUME TypeOK, Request PROVE TypeOK'
  OBVIOUS
<1>1. inbox' = inbox /\ upset' = upset /\ noise' \in 0..MaxNoise
  BY BoundsAssumption DEF Request, RequestSent, PortRefuses, Disturbed, TypeOK, BusTypeOK
<1>2. CASE RequestSent
  <2>1. MasterTypeOK'
    BY <1>2 DEF RequestSent, TypeOK, MasterTypeOK
  <2>2. CASE op.target \in Meters /\ Asked(op.target)
    BY <1>1, <2>1, <2>2, AskedTypes DEF TypeOK, BusTypeOK
  <2>3. CASE UNCHANGED <<line, meter>>
    BY <1>1, <2>1, <2>3 DEF TypeOK, BusTypeOK
  <2> QED BY <1>2, <2>2, <2>3 DEF RequestSent
<1>3. CASE PortRefuses
  BY <1>1, <1>3, FailTypes DEF PortRefuses, TypeOK, BusTypeOK, Failure
<1> QED BY <1>2, <1>3 DEF Request

LEMMA TimerTypes == TypeOK /\ TimerElapses => TypeOK'
<1> SUFFICES ASSUME TypeOK, TimerElapses PROVE TypeOK'
  OBVIOUS
<1>1. MasterTypeOK'
  BY FailTypes DEF TimerElapses, TypeOK, Failure
<1>2. inbox' \in Seq(Inbound)
  <2>1. inbox' = inbox \/ inbox' = <<>>
    BY DEF TimerElapses
  <2>2. <<>> \in Seq(Inbound) /\ inbox \in Seq(Inbound)
    BY DEF TypeOK, BusTypeOK
  <2> QED BY <2>1, <2>2
<1>3. line' \in Seq(Inbound)
  <2>1. CASE line # <<>> /\ line' = <<Junk>> \o Tail(line)
    <3>1. Tail(line) \in Seq(Inbound)
      BY <2>1 DEF TypeOK, BusTypeOK
    <3>2. <<Junk>> \in Seq(Inbound)
      BY PortTypes
    <3> QED BY <2>1, <3>1, <3>2
  <2>2. CASE line' = line
    BY <2>2 DEF TypeOK, BusTypeOK
  <2> QED BY <2>1, <2>2 DEF TimerElapses
<1>4. upset' \in BOOLEAN
  BY Zenon DEF TimerElapses, TypeOK, BusTypeOK
<1> QED BY <1>1, <1>2, <1>3, <1>4 DEF TimerElapses, TypeOK, BusTypeOK

LEMMA JunkTypes == TypeOK /\ ReadJunk => TypeOK'
<1> SUFFICES ASSUME TypeOK, ReadJunk PROVE TypeOK'
  OBVIOUS
<1>1. MasterTypeOK'
  BY FailTypes DEF ReadJunk, TypeOK, Failure, Retryable
<1>2. inbox \in Seq(Inbound) /\ inbox # <<>>
  BY DEF ReadJunk, TypeOK, BusTypeOK
<1>3. inbox' \in Seq(Inbound)
  <2>1. CASE inbox' \in {inbox, Tail(inbox)}
    BY <1>2, <2>1
  <2>2. CASE Len(inbox) # 1
    <3>1. Len(inbox) >= 2
      BY <1>2, <2>2
    <3>2. SubSeq(inbox, 3, Len(inbox)) \in Seq(Inbound)
      BY <1>2, <3>1
    <3>3. <<Junk>> \o SubSeq(inbox, 3, Len(inbox)) \in Seq(Inbound)
      <4>1. <<Junk>> \in Seq(Inbound)
        BY PortTypes
      <4> QED BY <3>2, <4>1
    <3> QED BY <1>2, <2>1, <2>2, <3>2, <3>3 DEF ReadJunk, Misread
  <2> QED BY <2>1, <2>2 DEF ReadJunk, Misread
<1> QED BY <1>1, <1>3 DEF ReadJunk, TypeOK, BusTypeOK

LEMMA ReadFailsTypes == TypeOK /\ ReadFails => TypeOK'
<1> SUFFICES ASSUME TypeOK, ReadFails PROVE TypeOK'
  OBVIOUS
<1>1. MasterTypeOK'
  BY FailTypes DEF ReadFails, TypeOK, Failure, Retryable
<1>2. upset' \in BOOLEAN
  BY Zenon DEF ReadFails, TypeOK, BusTypeOK
<1> QED BY <1>1, <1>2, BoundsAssumption DEF ReadFails, Disturbed, TypeOK, BusTypeOK

LEMMA AccumulatedTypes ==
  ASSUME TypeOK, NEW f \in Frame
  PROVE  Accumulated(f) \in Seq(Part) /\ Len(Accumulated(f)) <= MaxPayload
<1>1. [from |-> f.from, tel |-> f.tel, ok |-> f.ok] \in Part
  BY DEF Frame, Part
<1> QED BY <1>1, BoundsAssumption DEF Accumulated, TypeOK, MasterTypeOK

LEMMA HeadTypes ==
  ASSUME TypeOK, inbox # <<>>
  PROVE  /\ Head(inbox) \in Inbound /\ Tail(inbox) \in Seq(Inbound)
         /\ Head(inbox) # Junk => Head(inbox) \in Frame
BY DEF TypeOK, BusTypeOK, Inbound

LEMMA FrameTypes == TypeOK /\ ReadFrame => TypeOK'
<1> SUFFICES ASSUME TypeOK, ReadFrame PROVE TypeOK'
  OBVIOUS
<1> DEFINE f == Head(inbox)
<1>1. f \in Frame /\ BusTypeOK'
  BY HeadTypes DEF ReadFrame, TypeOK, BusTypeOK
<1> HIDE DEF f
<1>2. CASE Verdict(f) # "ok" /\ Fail(Verdict(f))
  <2>1. Verdict(f) \in Failure
    BY <1>2 DEF Verdict, Failure, Retryable
  <2> QED BY <1>1, <1>2, <2>1, FailTypes DEF TypeOK
<1>3. CASE Finish(f)
  <2>1. CASE Fail("record")
    BY <1>1, <2>1, FailTypes DEF TypeOK, Failure
  <2>2. CASE result' = [status |-> "ok", target |-> op.target, payload |-> Accumulated(f)]
             /\ payload' = <<>> /\ mpc' = "idle"
             /\ UNCHANGED <<op, attempt, tries, fcb, found, calls>>
    <3>1. result' \in [status : Failure \cup {"none", "ok", "scanned"},
                       target : 0..Addresses, payload : Seq(Part)]
      BY <1>1, <2>2, AccumulatedTypes DEF TypeOK, MasterTypeOK
    <3> QED BY <1>1, <2>2, <3>1, BoundsAssumption DEF TypeOK, MasterTypeOK
  <2> QED BY <1>3, <2>1, <2>2 DEF Finish
<1>4. CASE More(f)
  <2>1. payload' \in Seq(Part) /\ Len(payload') <= MaxPayload
    BY <1>1, <1>4, AccumulatedTypes DEF More
  <2>2. fcb' \in BOOLEAN
    BY <1>4 DEF More, TypeOK, MasterTypeOK
  <2> QED BY <1>1, <1>4, <2>1, <2>2 DEF More, TypeOK, MasterTypeOK
<1>5. CASE mpc = "await" /\ Discover
  <2>1. found' \subseteq 0..Addresses
    BY <1>5 DEF Discover, TypeOK, MasterTypeOK
  <2>2. UNCHANGED <<attempt, tries, fcb, payload, calls>>
    BY <1>5 DEF Discover, ScanNext
  <2> QED BY <1>1, <1>5, <2>1, <2>2, ScanNextTypes DEF Discover, TypeOK, MasterTypeOK
<1> QED BY <1>2, <1>3, <1>4, <1>5 DEF ReadFrame, f

LEMMA LineTypes == TypeOK /\ (Arrive \/ Disturb) => TypeOK'
<1> SUFFICES ASSUME TypeOK, Arrive \/ Disturb PROVE TypeOK'
  OBVIOUS
<1>1. line # <<>> /\ line' = Tail(line) /\ UNCHANGED <<meter, master>>
  BY DEF Arrive, Disturb
<1> DEFINE f == Head(line)
<1>2. f \in Inbound /\ line' \in Seq(Inbound)
  BY <1>1 DEF TypeOK, BusTypeOK
<1>3. MasterTypeOK'
  BY <1>1 DEF master, TypeOK, MasterTypeOK
<1>4. noise' \in 0..MaxNoise
  BY BoundsAssumption DEF Arrive, Disturb, Disturbed, TypeOK, BusTypeOK
<1>5. upset' \in BOOLEAN
  <2>1. upset' = upset \/ upset' = TRUE
    BY DEF Arrive, Disturb
  <2> QED BY <2>1 DEF TypeOK, BusTypeOK
<1>6. inbox' \in Seq(Inbound)
  <2>1. inbox \in Seq(Inbound) /\ Junk \in Inbound
    BY PortTypes DEF TypeOK, BusTypeOK
  <2>2. f # Junk => [f EXCEPT !.ok = FALSE] \in Inbound
    BY <1>2 DEF Inbound, Frame
  <2>3. \/ inbox' = inbox
        \/ inbox' = Append(inbox, f)
        \/ f # Junk /\ inbox' = Append(inbox, [f EXCEPT !.ok = FALSE])
        \/ inbox' = Append(inbox, Junk)
        \/ inbox' = inbox \o <<Junk, f>>
    BY DEF Arrive, Disturb
  <2>4. <<Junk, f>> \in Seq(Inbound)
    BY <1>2, <2>1
  <2> DEFINE d == [f EXCEPT !.ok = FALSE]
  <2> HIDE DEF f, d
  <2>5. CASE inbox' = Append(inbox, f) \/ inbox' = Append(inbox, Junk)
    BY <1>2, <2>1, <2>5
  <2>6. CASE inbox' = inbox \o <<Junk, f>>
    BY <2>1, <2>4, <2>6
  <2>7. CASE f # Junk /\ inbox' = Append(inbox, d)
    BY <2>1, <2>2, <2>7 DEF d
  <2> QED BY <2>1, <2>3, <2>5, <2>6, <2>7 DEF d
<1> QED BY <1>1, <1>2, <1>3, <1>4, <1>5, <1>6 DEF TypeOK, BusTypeOK

LEMMA CallTypes == TypeOK /\ Calls => TypeOK'
<1> SUFFICES ASSUME TypeOK, NEW name, NEW k \in {"read", "scan"}, NEW a \in 0..Addresses,
                    NEW n \in 1..3, Call(name, k, a, n)
             PROVE  TypeOK'
  BY MetersAssumption DEF Calls, SendRequest, SendWithAdaptation, ScanDevices
<1>1. calls' \in 0..MaxCalls
  BY BoundsAssumption DEF Call, TypeOK, MasterTypeOK
<1>2. result' \in [status : Failure \cup {"none", "ok", "scanned"},
                   target : 0..Addresses, payload : Seq(Part)]
  BY MetersAssumption DEF Call, NoResult
<1> QED BY <1>1, <1>2 DEF Call, bus, TypeOK, MasterTypeOK, BusTypeOK, MaxAttempts

LEMMA InitTypes == Init => TypeOK
<1> SUFFICES ASSUME Init PROVE TypeOK
  OBVIOUS
<1> USE MetersAssumption, BoundsAssumption DEF Init
<1>1. /\ mpc \in {"idle", "select", "request", "await"}
      /\ op \in [kind : {"read", "scan"}, target : 0..Addresses]
      /\ attempt \in 1..MaxAttempts /\ tries \in 1..3
      /\ found \subseteq 0..Addresses /\ calls \in 0..MaxCalls
  BY DEF MaxAttempts
<1>6. fcb \in BOOLEAN /\ upset \in BOOLEAN
  BY Zenon
<1>2. payload \in Seq(Part) /\ Len(payload) <= MaxPayload
  OBVIOUS
<1>3. result \in [status : Failure \cup {"none", "ok", "scanned"},
                 target : 0..Addresses, payload : Seq(Part)]
  BY DEF NoResult
<1>4. line \in Seq(Inbound) /\ inbox \in Seq(Inbound) /\ noise \in 0..MaxNoise
  OBVIOUS
<1>5. meter \in [Meters -> [asked : BOOLEAN, fcb : BOOLEAN, tel : Nat \ {0}]]
  <2>1. [asked |-> FALSE, fcb |-> FALSE, tel |-> 1]
          \in [asked : BOOLEAN, fcb : BOOLEAN, tel : Nat \ {0}]
    OBVIOUS
  <2> QED BY <2>1
<1> QED BY <1>1, <1>2, <1>3, <1>4, <1>5, <1>6 DEF TypeOK, MasterTypeOK, BusTypeOK

LEMMA NextTypes == TypeOK /\ [Next]_vars => TypeOK'
<1> SUFFICES ASSUME TypeOK, [Next]_vars PROVE TypeOK'
  OBVIOUS
<1>1. CASE UNCHANGED vars
  BY <1>1 DEF vars, master, bus, TypeOK, MasterTypeOK, BusTypeOK, Inbound
<1>2. CASE Next
  BY <1>2, CallTypes, SelectTypes, RequestTypes, TimerTypes, JunkTypes, ReadFailsTypes,
     FrameTypes, LineTypes DEF Next, Step
<1> QED BY <1>1, <1>2

(* Every variable of the session keeps its type, for any number of meters, *)
(* telegrams, calls and disturbances.                                      *)
THEOREM WiredTypeCorrect == Spec => []TypeOK
<1> QED BY InitTypes, NextTypes, PTL DEF Spec

-----------------------------------------------------------------------------
(* The data belong to the meter that was asked.                            *)

LEMMA FailKeeps ==
  ASSUME TypeOK, KeptInv, NEW e \in Failure, Fail(e)
  PROVE  KeptInv'
<1>1. payload' = <<>>
  BY DEF Fail
<1>2. CASE result' = result
  BY <1>1, <1>2 DEF KeptInv, OwnParts, HoldsNothing, AddressedMeterOnly
<1>3. CASE result'.status # "ok"
  BY <1>1, <1>3 DEF KeptInv, OwnParts, HoldsNothing, AddressedMeterOnly
<1>4. result' = result \/ result'.status # "ok"
  BY DEF Fail, ScanNext, Retry, GiveUp, Failure, Retryable
<1> QED BY <1>2, <1>3, <1>4

(* A step that leaves payload, op and result alone and does not end the    *)
(* attempt.                                                                *)
LEMMA StillKeeps ==
  ASSUME KeptInv, UNCHANGED <<op, payload, result>>,
         mpc' \in {"idle", "select"} => mpc \in {"idle", "select"}
  PROVE  KeptInv'
BY DEF KeptInv, OwnParts, HoldsNothing, AddressedMeterOnly

LEMMA AccumulatedKeeps ==
  ASSUME TypeOK, KeptInv, NEW f \in Frame, Verdict(f) = "ok"
  PROVE  \A i \in DOMAIN Accumulated(f) :
           Accumulated(f)[i].from = op.target /\ Accumulated(f)[i].ok
<1>1. f.from = op.target /\ f.ok
  BY DEF Verdict
<1>2. payload \in Seq(Part)
  BY DEF TypeOK, MasterTypeOK
<1>3. \A i \in DOMAIN payload : payload[i].from = op.target /\ payload[i].ok
  BY DEF KeptInv, OwnParts
<1> DEFINE p == [from |-> f.from, tel |-> f.tel, ok |-> f.ok]
<1>4. p.from = op.target /\ p.ok
  BY <1>1
<1>5. CASE Accumulated(f) = payload
  BY <1>3, <1>5
<1>6. CASE Accumulated(f) = Append(payload, p)
  <2> HIDE DEF p
  <2>1. SUFFICES ASSUME NEW i \in DOMAIN Append(payload, p)
                 PROVE  Append(payload, p)[i].from = op.target /\ Append(payload, p)[i].ok
    BY <1>6
  <2>2. CASE i \in DOMAIN payload
    <3>1. Append(payload, p)[i] = payload[i]
      BY <1>2, <2>2
    <3> QED BY <1>3, <2>2, <3>1
  <2>3. CASE i = Len(payload) + 1
    <3>1. Append(payload, p)[i] = p
      BY <1>2, <2>3
    <3> QED BY <1>4, <3>1
  <2> QED BY <1>2, <2>2, <2>3
<1> QED BY <1>5, <1>6 DEF Accumulated

LEMMA FrameKeeps == TypeOK /\ KeptInv /\ ReadFrame => KeptInv'
<1> SUFFICES ASSUME TypeOK, KeptInv, ReadFrame PROVE KeptInv'
  OBVIOUS
<1> DEFINE f == Head(inbox)
<1>1. f \in Frame
  BY HeadTypes DEF ReadFrame
<1> HIDE DEF f
<1>2. CASE Verdict(f) # "ok" /\ Fail(Verdict(f))
  <2>1. Verdict(f) \in Failure
    BY <1>2 DEF Verdict, Failure, Retryable
  <2> QED BY <1>2, <2>1, FailKeeps
<1>3. CASE Verdict(f) = "ok" /\ op.kind = "read" /\ Finish(f)
  <2>1. CASE Fail("record")
    BY <2>1, FailKeeps DEF Failure
  <2>2. CASE result' = [status |-> "ok", target |-> op.target, payload |-> Accumulated(f)]
             /\ payload' = <<>>
    <3>1. OwnParts' /\ HoldsNothing'
      BY <2>2 DEF OwnParts, HoldsNothing
    <3>2. AddressedMeterOnly'
      BY <1>1, <1>3, <2>2, AccumulatedKeeps DEF AddressedMeterOnly
    <3> QED BY <3>1, <3>2 DEF KeptInv
  <2> QED BY <1>3, <2>1, <2>2 DEF Finish
<1>4. CASE Verdict(f) = "ok" /\ op.kind = "read" /\ More(f)
  <2>1. payload' = Accumulated(f) /\ UNCHANGED <<op, result>> /\ mpc' = "request"
    BY <1>4 DEF More
  <2>2. OwnParts'
    BY <1>1, <1>4, <2>1, AccumulatedKeeps DEF OwnParts
  <2>3. HoldsNothing'
    BY <1>4, <2>1 DEF HoldsNothing
  <2> QED BY <2>1, <2>2, <2>3 DEF KeptInv, AddressedMeterOnly
<1>5. CASE op.kind = "scan" /\ Discover
  <2>1. payload' = <<>>
    BY <1>5 DEF Discover, KeptInv, HoldsNothing
  <2>2. result' = result \/ result'.status # "ok"
    BY <1>5 DEF Discover, ScanNext
  <2> QED BY <2>1, <2>2 DEF KeptInv, OwnParts, HoldsNothing, AddressedMeterOnly
<1> QED BY <1>2, <1>3, <1>4, <1>5 DEF ReadFrame, f

LEMMA StepKeeps == TypeOK /\ KeptInv /\ [Next]_vars => KeptInv'
<1> SUFFICES ASSUME TypeOK, KeptInv, [Next]_vars PROVE KeptInv'
  OBVIOUS
<1>1. CASE UNCHANGED vars \/ Arrive \/ Disturb
  BY <1>1, StillKeeps DEF vars, master, Arrive, Disturb
<1>2. CASE Calls
  <2>1. mpc = "idle" /\ payload' = payload /\ result' = NoResult
    BY <1>2 DEF Calls, SendRequest, SendWithAdaptation, ScanDevices, Call
  <2> QED BY <2>1 DEF KeptInv, OwnParts, HoldsNothing, AddressedMeterOnly, NoResult
<1>3. CASE Select
  BY <1>3, FailKeeps, StillKeeps DEF Select, Failure
<1>4. CASE Request
  BY <1>4, FailKeeps, StillKeeps DEF Request, RequestSent, PortRefuses, Failure
<1>5. CASE TimerElapses \/ ReadJunk \/ ReadFails
  BY <1>5, FailKeeps DEF TimerElapses, ReadJunk, ReadFails, Failure, Retryable
<1>6. CASE ReadFrame
  BY <1>6, FrameKeeps
<1> QED BY <1>1, <1>2, <1>3, <1>4, <1>5, <1>6 DEF Next, Step

(* The data of every result come from the addressed meter, undamaged       *)
(* (AddressedMeterOnly), whatever the bus does to the answers and however  *)
(* many stale ones the port holds.                                         *)
THEOREM WiredAddressedMeter == Spec => []AddressedMeterOnly
<1>1. Init => KeptInv
  BY DEF Init, NoResult, KeptInv, OwnParts, HoldsNothing, AddressedMeterOnly
<1>2. KeptInv => AddressedMeterOnly
  BY DEF KeptInv
<1> QED BY <1>1, <1>2, InitTypes, NextTypes, StepKeeps, PTL DEF Spec

-----------------------------------------------------------------------------
(* The line as long as no answer came late or out of frame: silent, or     *)
(* with one reply on its way, to the request the master waits for.         *)

Reply   == Answer(op.target, meter[op.target].tel)
Damaged == [Reply EXCEPT !.ok = FALSE]

Silent == inbox = <<>> /\ line = <<>>
Due(f) == \/ inbox = <<f>> /\ line = <<>>
          \/ inbox = <<>> /\ line = <<f>>

Awaited ==
  /\ mpc = "await" /\ op.target \in Meters
  /\ meter[op.target].asked /\ meter[op.target].fcb = fcb
  /\ Due(Reply) \/ (noise > 0 /\ Due(Damaged))

Unanswered == mpc = "await" /\ noise = 0 => op.target \notin Meters

QuietInv == ~upset => (Silent /\ Unanswered) \/ Awaited

(* A meter's telegrams are numbered from 1.                                *)
MeterInv == \A a \in Meters : meter[a].tel \in 1..Telegrams[a]

(* Telegrams in a row, each after the one before.                          *)
Consecutive(p) == \A i \in 1..(Len(p) - 1) : p[i + 1].tel = p[i].tel + 1

(* A readout under way: what is kept so far is consecutive and not yet the *)
(* whole, the meter stands at its last telegram until the next request     *)
(* reaches it, and the reply to that request is the telegram after.        *)
ReadoutInv ==
  ~upset /\ payload # <<>> /\ op.target \notin Embedded =>
    LET last == payload[Len(payload)].tel
        m    == meter[op.target] IN
    /\ Consecutive(payload) /\ Len(payload) <= last
    /\ last < Telegrams[op.target]
    /\ mpc = "request" => m.asked /\ m.fcb # fcb /\ m.tel = last
    /\ mpc = "await" /\ ~Silent => m.tel = last + 1

(* A scan under way has found the meters below the address it polls.       *)
ScanInv ==
  /\ found \subseteq Meters
  /\ mpc # "idle" => result.status \notin {"ok", "scanned"}
  /\ op.kind = "scan" => op.target >= 1
  /\ noise = 0 /\ ~upset =>
       /\ op.kind = "scan" /\ mpc # "idle" => found = {a \in Meters : a < op.target}
       /\ result.status = "scanned" => found = Meters

BusInv == QuietInv /\ MeterInv /\ ReadoutInv /\ ContiguousReadout /\ ScanInv

LEMMA MetersRange ==
  /\ Addresses \in Nat
  /\ \A a \in Meters : a \in Nat /\ a >= 1 /\ a <= Addresses /\ a \in 1..250
<1>1. Addresses \in Nat /\ Addresses <= 250
  BY MetersAssumption
<1>2. \A a \in Meters : a \in 1..Addresses
  BY MetersAssumption
<1> QED BY <1>1, <1>2

LEMMA MetersBelow ==
  ASSUME NEW t \in Nat
  PROVE  /\ {a \in Meters : a < t + 1} = {a \in Meters : a < t} \cup (Meters \cap {t})
         /\ t >= Addresses => {a \in Meters : a < t + 1} = Meters
<1>1. \A a \in Meters : a \in Nat /\ a <= Addresses /\ Addresses \in Nat
  BY MetersRange
<1>2. \A a \in Meters : a < t + 1 <=> a < t \/ a = t
  BY <1>1
<1>3. t >= Addresses => \A a \in Meters : a < t + 1
  BY <1>1
<1> QED BY <1>2, <1>3

(* What a failed attempt leaves behind: nothing kept, and no answer on its *)
(* way unless the line is upset.                                           *)
LEMMA FailQuiets ==
  ASSUME TypeOK, BusInv, NEW e \in Failure, Fail(e), mpc # "idle",
         MeterInv', upset => upset', noise' = 0 => noise = 0,
         upset' \/ Silent',
         op.kind = "scan" /\ noise' = 0 /\ ~upset' => op.target \notin Meters
  PROVE  BusInv'
<1> USE MetersAssumption
<1>1. /\ payload' = <<>> /\ found' = found /\ mpc' \in {"idle", "select"}
      /\ op'.kind = op.kind
  BY DEF Fail, ScanNext, Retry, GiveUp, TypeOK, MasterTypeOK
<1>2. QuietInv'
  BY <1>1 DEF QuietInv, Unanswered
<1>3. ReadoutInv'
  BY <1>1 DEF ReadoutInv
<1>4. result'.status # "ok"
  BY DEF Fail, ScanNext, Retry, GiveUp, Failure, Retryable, BusInv, ScanInv
<1>5. ContiguousReadout'
  BY <1>4 DEF ContiguousReadout
<1>6. CASE op.kind = "read"
  <2>1. result'.status # "scanned"
    BY <1>6 DEF Fail, ScanNext, Retry, GiveUp, Failure, Retryable, BusInv, ScanInv
  <2> QED BY <1>1, <1>2, <1>3, <1>4, <1>5, <1>6, <2>1 DEF BusInv, ScanInv
<1>7. CASE op.kind = "scan"
  <2>1. ScanNext
    BY <1>7 DEF Fail, Retry, GiveUp
  <2>2. op.target \in Nat /\ op.target >= 1 /\ op.target <= Addresses
    BY <1>7 DEF TypeOK, MasterTypeOK, BusInv, ScanInv
  <2>3. noise' = 0 /\ ~upset' => found = {a \in Meters : a < op.target} /\ op.target \notin Meters
    BY <1>7 DEF BusInv, ScanInv
  <2>4. CASE op.target < Addresses
    <3>1. op'.target = op.target + 1 /\ mpc' = "select" /\ result' = result
      BY <2>1, <2>4 DEF ScanNext, TypeOK, MasterTypeOK
    <3>2. op.target \notin Meters =>
            {a \in Meters : a < op.target + 1} = {a \in Meters : a < op.target}
      BY <2>2, MetersBelow
    <3> QED BY <1>1, <1>2, <1>3, <1>4, <1>5, <2>2, <2>3, <3>1, <3>2 DEF BusInv, ScanInv
  <2>5. CASE ~(op.target < Addresses)
    <3>1. op' = op /\ mpc' = "idle"
      BY <2>1, <2>5 DEF ScanNext
    <3>2. op.target \notin Meters => {a \in Meters : a < op.target} = Meters
      BY <2>2, <2>5, MetersBelow
    <3> QED BY <1>1, <1>2, <1>3, <1>4, <1>5, <2>2, <2>3, <3>1, <3>2 DEF BusInv, ScanInv
  <2> QED BY <2>4, <2>5
<1> QED BY <1>6, <1>7 DEF TypeOK, MasterTypeOK

LEMMA CallQuiet == TypeOK /\ KeptInv /\ BusInv /\ Calls => BusInv'
<1> SUFFICES ASSUME TypeOK, KeptInv, BusInv, NEW name, NEW k, NEW a \in 0..Addresses,
                    NEW n, Call(name, k, a, n), k = "scan" => a = 1
             PROVE  BusInv'
  BY MetersAssumption DEF Calls, SendRequest, SendWithAdaptation, ScanDevices
<1>1. /\ mpc = "idle" /\ mpc' = "select" /\ op'.kind = k /\ op'.target = a
      /\ payload' = <<>> /\ found' = {} /\ result' = NoResult
      /\ UNCHANGED <<line, inbox, meter, noise, upset>>
  BY DEF Call, bus, KeptInv, HoldsNothing
<1>2. QuietInv'
  BY <1>1 DEF BusInv, QuietInv, Silent, Awaited, Unanswered
<1>3. MeterInv' /\ ReadoutInv' /\ ContiguousReadout'
  BY <1>1 DEF BusInv, MeterInv, ReadoutInv, ContiguousReadout, NoResult
<1>4. ScanInv'
  <2>1. k = "scan" => {b \in Meters : b < a} = {}
    <3>1. \A b \in Meters : b \in Nat /\ ~(b < 1)
      BY MetersAssumption
    <3> QED BY <3>1
  <2> QED BY <1>1, <2>1 DEF ScanInv, NoResult
<1> QED BY <1>2, <1>3, <1>4 DEF BusInv

LEMMA SelectQuiet == TypeOK /\ KeptInv /\ BusInv /\ Select => BusInv'
<1> SUFFICES ASSUME TypeOK, KeptInv, BusInv, Select PROVE BusInv'
  OBVIOUS
<1>1. mpc = "select" /\ UNCHANGED <<line, inbox, meter, noise, upset>> /\ MeterInv'
  BY DEF Select, bus, BusInv, MeterInv
<1>2. upset \/ Silent
  BY <1>1 DEF BusInv, QuietInv, Awaited
<1>3. CASE Fail("address") /\ op.target \notin 1..250
  <2>1. op.target \notin Meters
    BY <1>3, MetersRange
  <2>2. upset' \/ Silent'
    BY <1>1, <1>2 DEF Silent
  <2> QED BY <1>1, <1>3, <2>1, <2>2, FailQuiets DEF Failure
<1>4. CASE mpc' = "request" /\ UNCHANGED <<op, payload, result, found>>
  <2>1. payload' = <<>>
    BY <1>1, <1>4 DEF KeptInv, HoldsNothing
  <2>2. QuietInv'
    BY <1>1, <1>2, <1>4 DEF QuietInv, Unanswered, Silent
  <2> QED BY <1>1, <1>4, <2>1, <2>2
       DEF BusInv, ReadoutInv, ContiguousReadout, ScanInv
<1> QED BY <1>3, <1>4 DEF Select

(* A readout is only kept of a meter on the bus.                           *)
LEMMA KeptFromMeter ==
  ASSUME TypeOK, KeptInv, payload # <<>>
  PROVE  /\ op.target \in Meters /\ op.kind = "read"
         /\ Len(payload) \in Nat \ {0} /\ payload[Len(payload)].tel \in Nat \ {0}
<1>1. payload \in Seq(Part) /\ Len(payload) \in Nat \ {0}
  BY DEF TypeOK, MasterTypeOK
<1>2. Len(payload) \in DOMAIN payload /\ payload[Len(payload)] \in Part
  BY <1>1
<1> QED BY <1>1, <1>2 DEF KeptInv, OwnParts, HoldsNothing, Part, TypeOK, MasterTypeOK

LEMMA RequestQuiet == TypeOK /\ KeptInv /\ BusInv /\ Request => BusInv'
<1> SUFFICES ASSUME TypeOK, KeptInv, BusInv, Request PROVE BusInv'
  OBVIOUS
<1>1. /\ mpc = "request" /\ inbox' = inbox /\ upset' = upset
      /\ noise \in Nat /\ noise' \in Nat /\ noise' >= noise
  BY BoundsAssumption
     DEF Request, RequestSent, PortRefuses, Disturbed, TypeOK, BusTypeOK
<1>2. upset \/ Silent
  BY <1>1 DEF BusInv, QuietInv, Awaited
<1>3. CASE PortRefuses
  <2>1. noise' > 0 /\ UNCHANGED <<line, meter>> /\ Fail("port")
    BY <1>1, <1>3, BoundsAssumption DEF PortRefuses, Disturbed, TypeOK, BusTypeOK
  <2>2. MeterInv' /\ (upset' \/ Silent')
    BY <1>1, <1>2, <2>1 DEF BusInv, MeterInv, Silent
  <2> QED BY <1>1, <2>1, <2>2, FailQuiets DEF Failure
<1>4. CASE RequestSent
  <2>1. /\ mpc' = "await" /\ UNCHANGED <<op, fcb, payload, result, found>>
    BY <1>4 DEF RequestSent
  <2>2. ContiguousReadout' /\ ScanInv'
    BY <1>1, <2>1 DEF BusInv, ContiguousReadout, ScanInv
  <2>3. CASE UNCHANGED <<line, meter>> /\ (noise' > 0 \/ op.target \notin Meters)
    <3>1. QuietInv' /\ MeterInv'
      BY <1>1, <1>2, <2>1, <2>3 DEF BusInv, QuietInv, MeterInv, Unanswered, Silent
    <3>2. ReadoutInv'
      BY <1>1, <1>2, <2>1, <2>3 DEF BusInv, ReadoutInv, Silent
    <3> QED BY <2>2, <3>1, <3>2 DEF BusInv
  <2>4. CASE op.target \in Meters /\ Asked(op.target) /\ noise' = noise
    <3> DEFINE a == op.target
               t == Telegram(a, fcb)
    <3>1. /\ meter[a].tel \in 1..Telegrams[a] /\ Telegrams[a] \in Nat \ {0}
          /\ fcb \in BOOLEAN
      BY <2>4, MetersAssumption DEF BusInv, MeterInv, TypeOK, MasterTypeOK
    <3>2. t \in 1..Telegrams[a]
      BY <3>1 DEF Telegram
    <3>3. /\ line' = Append(line, Answer(a, t))
          /\ meter' = [meter EXCEPT ![a] = [asked |-> TRUE, fcb |-> fcb, tel |-> t]]
          /\ meter \in [Meters -> [asked : BOOLEAN, fcb : BOOLEAN, tel : Nat \ {0}]]
      BY <2>4 DEF Asked, TypeOK, BusTypeOK
    <3> HIDE DEF t
    <3>4. meter'[a] = [asked |-> TRUE, fcb |-> fcb, tel |-> t]
      BY <2>4, <3>3
    <3>5. MeterInv'
      BY <2>4, <3>2, <3>3 DEF BusInv, MeterInv
    <3>6. QuietInv'
      <4>1. Reply' = Answer(a, t)
        BY <2>1, <3>4 DEF Reply, Answer
      <4>2. Silent => line' = <<Reply'>>
        BY <3>3, <4>1 DEF Silent
      <4>3. Silent => Awaited'
        BY <1>1, <2>1, <2>4, <3>4, <4>2 DEF Awaited, Due, Silent
      <4> QED BY <1>1, <1>2, <4>3 DEF QuietInv
    <3>7. ReadoutInv'
      <4> SUFFICES ASSUME ~upset, payload # <<>>, a \notin Embedded
                   PROVE  /\ Consecutive(payload) /\ Len(payload) <= payload[Len(payload)].tel
                          /\ payload[Len(payload)].tel < Telegrams[a]
                          /\ meter'[a].tel = payload[Len(payload)].tel + 1
        BY <1>1, <2>1 DEF ReadoutInv, Consecutive
      <4>1. /\ Consecutive(payload) /\ Len(payload) <= payload[Len(payload)].tel
            /\ payload[Len(payload)].tel < Telegrams[a]
            /\ meter[a].asked /\ meter[a].fcb # fcb
            /\ meter[a].tel = payload[Len(payload)].tel
        BY <1>1 DEF BusInv, ReadoutInv
      <4>2. t = (meter[a].tel % Telegrams[a]) + 1
        BY <4>1 DEF t, Telegram
      <4>3. meter[a].tel % Telegrams[a] = meter[a].tel
        BY <3>1, <4>1
      <4> QED BY <3>4, <4>1, <4>2, <4>3
    <3> QED BY <2>2, <3>5, <3>6, <3>7 DEF BusInv
  <2> QED BY <1>1, <1>4, <2>3, <2>4, BoundsAssumption DEF RequestSent, Disturbed
<1> QED BY <1>3, <1>4 DEF Request

(* The two states of a line that is not upset, as a failing read sees them.*)
LEMMA OneFrame ==
  ASSUME NEW f
  PROVE  <<f>> # <<>> /\ Head(<<f>>) = f /\ Tail(<<f>>) = <<>>
OBVIOUS

LEMMA QuietReads ==
  ASSUME TypeOK, BusInv, ~upset, inbox # <<>>
  PROVE  /\ Awaited /\ line = <<>> /\ Tail(inbox) = <<>>
         /\ \/ Head(inbox) = Reply
            \/ noise > 0 /\ Head(inbox) = Damaged
<1>1. Awaited
  BY DEF BusInv, QuietInv, Silent
<1>2. line = <<>> /\ (inbox = <<Reply>> \/ (noise > 0 /\ inbox = <<Damaged>>))
  BY <1>1 DEF Awaited, Due
<1> QED BY <1>1, <1>2, OneFrame

LEMMA ReplyFields ==
  ASSUME NEW f \in {Reply, Damaged}
  PROVE  /\ f.from = op.target /\ f.tel = meter[op.target].tel
         /\ f.ok <=> f = Reply
         /\ f.more <=> (meter[op.target].tel < Telegrams[op.target] \/ op.target \in Embedded)
<1>1. /\ Reply.from = op.target /\ Reply.tel = meter[op.target].tel /\ Reply.ok
      /\ Reply.more <=> (meter[op.target].tel < Telegrams[op.target] \/ op.target \in Embedded)
  BY DEF Reply, Answer
<1>2. /\ Damaged.from = Reply.from /\ Damaged.tel = Reply.tel /\ Damaged.more = Reply.more
      /\ ~Damaged.ok
  BY DEF Damaged, Reply, Answer
<1> QED BY <1>1, <1>2

LEMMA TimerQuiet == TypeOK /\ BusInv /\ TimerElapses => BusInv'
<1> SUFFICES ASSUME TypeOK, BusInv, TimerElapses PROVE BusInv'
  OBVIOUS
<1>1. mpc = "await" /\ UNCHANGED <<meter, noise>> /\ upset' = (upset \/ line # <<>>)
  BY DEF TimerElapses
<1>2. MeterInv'
  BY <1>1 DEF BusInv, MeterInv
<1>3. ~upset /\ line = <<>> => Silent /\ Silent' /\ (noise = 0 => op.target \notin Meters)
  <2> SUFFICES ASSUME ~upset, line = <<>>
               PROVE  Silent /\ Silent' /\ (noise = 0 => op.target \notin Meters)
    OBVIOUS
  <2>1. inbox # <<>> => Head(inbox) # Junk
    <3> SUFFICES ASSUME inbox # <<>> PROVE Head(inbox) # Junk
      OBVIOUS
    <3>1. Head(inbox).from = op.target /\ op.target \in Meters
      BY QuietReads, ReplyFields DEF Awaited
    <3> QED BY <3>1, MetersAssumption DEF Junk
  <2>2. inbox = <<>> /\ inbox' = inbox /\ line' = line
    BY <2>1 DEF TimerElapses
  <2>3. Silent /\ Silent'
    BY <2>2 DEF Silent
  <2>4. ~Awaited
    BY <2>2 DEF Awaited, Due
  <2> QED BY <1>1, <2>3, <2>4 DEF BusInv, QuietInv, Unanswered
<1>4. upset' \/ Silent'
  BY <1>1, <1>3
<1>5. Fail("timeout") /\ "timeout" \in Failure
  BY DEF TimerElapses, Failure
<1> QED BY <1>1, <1>2, <1>3, <1>4, <1>5, FailQuiets

(* Junk is only read on a line that is upset.                              *)
LEMMA JunkQuiet == TypeOK /\ BusInv /\ ReadJunk => BusInv'
<1> SUFFICES ASSUME TypeOK, BusInv, ReadJunk PROVE BusInv'
  OBVIOUS
<1>1. /\ mpc = "await" /\ inbox # <<>> /\ Head(inbox) = Junk /\ Fail("parse")
      /\ UNCHANGED <<meter, noise, upset>>
  BY DEF ReadJunk
<1>2. upset
  <2>1. ~upset => Head(inbox).from \in Meters
    BY <1>1, QuietReads, ReplyFields DEF Awaited
  <2> QED BY <1>1, <2>1, MetersAssumption DEF Junk
<1>3. MeterInv'
  BY <1>1 DEF BusInv, MeterInv
<1> QED BY <1>1, <1>2, <1>3, FailQuiets DEF Failure, Retryable

LEMMA ReadFailsQuiet == TypeOK /\ BusInv /\ ReadFails => BusInv'
<1> SUFFICES ASSUME TypeOK, BusInv, ReadFails PROVE BusInv'
  OBVIOUS
<1>1. /\ mpc = "await" /\ Fail("parse") /\ UNCHANGED <<line, inbox, meter>>
      /\ upset' = (upset \/ line # <<>> \/ inbox # <<>>)
      /\ noise' # 0
  BY BoundsAssumption DEF ReadFails, Disturbed, TypeOK, BusTypeOK
<1>2. MeterInv'
  BY <1>1 DEF BusInv, MeterInv
<1>3. upset' \/ Silent'
  BY <1>1 DEF Silent
<1>4. upset => upset'
  BY <1>1
<1> QED BY <1>1, <1>2, <1>3, <1>4, FailQuiets DEF Failure, Retryable

LEMMA AccumulatedFits ==
  ASSUME TypeOK, KeptInv, BusInv, ~upset, NEW f \in Frame, op.target \in Meters \ Embedded,
         f.tel \in 1..Telegrams[op.target],
         payload # <<>> => f.tel = payload[Len(payload)].tel + 1
  PROVE  LET p == Accumulated(f) IN
         /\ p # <<>> /\ Consecutive(p)
         /\ p[Len(p)].tel = f.tel /\ Len(p) <= f.tel
<1> DEFINE part == [from |-> f.from, tel |-> f.tel, ok |-> f.ok]
           p    == Append(payload, part)
<1>1. payload \in Seq(Part) /\ part \in Part /\ part.tel = f.tel /\ f.tel \in Nat \ {0}
  BY DEF TypeOK, MasterTypeOK, Frame, Part
<1>2. payload # <<>> => Consecutive(payload) /\ Len(payload) <= payload[Len(payload)].tel
  BY DEF BusInv, ReadoutInv
<1>3. Len(payload) < f.tel
  <2>1. CASE payload = <<>>
    BY <1>1, <2>1
  <2>2. CASE payload # <<>>
    <3>1. payload[Len(payload)].tel \in Nat
      BY <2>2, KeptFromMeter
    <3> QED BY <1>1, <1>2, <2>2, <3>1
  <2> QED BY <2>1, <2>2
<1>4. Len(payload) < MaxPayload
  <2>1. Telegrams[op.target] \in Nat /\ Telegrams[op.target] <= MaxPayload
    BY MetersAssumption, PayloadAssumption
  <2> QED BY <1>1, <1>3, <2>1, BoundsAssumption
<1>5. Accumulated(f) = p
  BY <1>4 DEF Accumulated
<1> HIDE DEF part
<1>6. Len(p) = Len(payload) + 1 /\ p[Len(p)] = part /\ p # <<>>
  <2>1. Len(p) = Len(payload) + 1 /\ Len(payload) \in Nat
    BY <1>1
  <2>2. p[Len(payload) + 1] = part
    BY <1>1
  <2>3. p # <<>>
    <3>1. Len(p) # 0 /\ Len(<<>>) = 0
      BY <2>1
    <3> HIDE DEF p
    <3> QED BY <3>1
  <2> QED BY <2>1, <2>2, <2>3
<1>7. Consecutive(p)
  <2> SUFFICES ASSUME NEW i \in 1..(Len(p) - 1) PROVE p[i + 1].tel = p[i].tel + 1
    BY DEF Consecutive
  <2>1. p[i] = payload[i] /\ payload # <<>> /\ i <= Len(payload)
    BY <1>1, <1>6
  <2>2. CASE i = Len(payload)
    BY <1>1, <1>6, <2>1, <2>2
  <2>3. CASE i # Len(payload)
    <3>1. i \in 1..(Len(payload) - 1) /\ p[i + 1] = payload[i + 1]
      BY <1>1, <1>6, <2>1, <2>3
    <3> QED BY <1>2, <2>1, <3>1 DEF Consecutive
  <2> QED BY <2>2, <2>3
<1> QED BY <1>1, <1>3, <1>5, <1>6, <1>7

(* The reply of a line that is not upset is the telegram the readout needs.*)
LEMMA ReplyFits ==
  ASSUME TypeOK, KeptInv, BusInv, ~upset, Awaited,
         NEW f \in Frame, f.from = op.target, f.tel = meter[op.target].tel,
         f.more <=> (meter[op.target].tel < Telegrams[op.target] \/ op.target \in Embedded)
  PROVE  /\ f.tel \in 1..Telegrams[op.target]
         /\ ~f.more => op.target \notin Embedded /\ f.tel = Telegrams[op.target]
         /\ op.target \notin Embedded /\ payload # <<>> => f.tel = payload[Len(payload)].tel + 1
<1>1. op.target \in Meters /\ mpc = "await" /\ ~Silent
  BY OneFrame DEF Awaited, Due, Silent
<1>2. f.tel \in 1..Telegrams[op.target] /\ Telegrams[op.target] \in Nat
  BY <1>1, MetersAssumption DEF BusInv, MeterInv
<1> QED BY <1>1, <1>2 DEF BusInv, ReadoutInv

LEMMA FrameQuiet == TypeOK /\ KeptInv /\ BusInv /\ ReadFrame => BusInv'
<1> SUFFICES ASSUME TypeOK, KeptInv, BusInv, ReadFrame PROVE BusInv'
  OBVIOUS
<1> DEFINE f == Head(inbox)
<1>1. /\ f \in Frame /\ mpc = "await" /\ inbox # <<>> /\ inbox' = Tail(inbox)
      /\ UNCHANGED <<line, meter, noise, upset>>
  BY HeadTypes DEF ReadFrame
<1>2. MeterInv'
  BY <1>1 DEF BusInv, MeterInv
<1>3. ~upset => /\ Awaited /\ Silent' /\ f.from = op.target
                /\ f.tel = meter[op.target].tel
                /\ f.more <=> (meter[op.target].tel < Telegrams[op.target]
                                 \/ op.target \in Embedded)
                /\ noise = 0 => Verdict(f) = "ok"
  <2> SUFFICES ASSUME ~upset
               PROVE  /\ Awaited /\ Silent' /\ f.from = op.target
                      /\ f.tel = meter[op.target].tel
                      /\ f.more <=> (meter[op.target].tel < Telegrams[op.target]
                                       \/ op.target \in Embedded)
                      /\ noise = 0 => Verdict(f) = "ok"
    OBVIOUS
  <2>1. Awaited /\ line = <<>> /\ Tail(inbox) = <<>>
    BY <1>1, QuietReads
  <2>2. f = Reply \/ (noise > 0 /\ f = Damaged)
    BY <1>1, QuietReads
  <2> HIDE DEF f
  <2>3. Silent'
    BY <1>1, <2>1 DEF Silent
  <2> QED BY <2>1, <2>2, <2>3, ReplyFields DEF Verdict
<1>4. upset' \/ Silent'
  BY <1>1, <1>3
<1> HIDE DEF f
<1>5. CASE Verdict(f) # "ok" /\ Fail(Verdict(f))
  <2>1. Verdict(f) \in Failure
    BY <1>5 DEF Verdict, Failure, Retryable
  <2> QED BY <1>1, <1>2, <1>3, <1>4, <1>5, <2>1, FailQuiets
<1>6. CASE Verdict(f) = "ok" /\ op.kind = "read" /\ Finish(f)
  <2>1. CASE Fail("record")
    BY <1>1, <1>2, <1>4, <1>6, <2>1, FailQuiets DEF Failure
  <2>2. CASE /\ result' = [status |-> "ok", target |-> op.target, payload |-> Accumulated(f)]
             /\ payload' = <<>> /\ mpc' = "idle"
             /\ UNCHANGED <<op, attempt, tries, fcb, found, calls>>
    <3>1. QuietInv' /\ ReadoutInv'
      BY <1>4, <2>2 DEF QuietInv, ReadoutInv, Unanswered
    <3>2. ScanInv'
      BY <1>1, <1>6, <2>2 DEF BusInv, ScanInv
    <3>3. ContiguousReadout'
      <4> SUFFICES ASSUME ~upset
                   PROVE  LET p == Accumulated(f) IN
                          p[Len(p)].tel = Telegrams[op.target] /\ Consecutive(p)
        BY <1>1, <2>2 DEF ContiguousReadout, Consecutive
      <4>1. ~f.more
        BY <1>6 DEF Finish
      <4>2. op.target \in Meters \ Embedded
        BY <1>1, <1>3, <4>1, ReplyFits DEF Awaited
      <4>3. f.tel \in 1..Telegrams[op.target] /\ f.tel = Telegrams[op.target]
        BY <1>1, <1>3, <4>1, ReplyFits
      <4>4. payload # <<>> => f.tel = payload[Len(payload)].tel + 1
        BY <1>1, <1>3, <4>2, ReplyFits
      <4> QED BY <1>1, <4>2, <4>3, <4>4, AccumulatedFits
    <3> QED BY <1>2, <3>1, <3>2, <3>3 DEF BusInv
  <2> QED BY <1>6, <2>1, <2>2 DEF Finish
<1>7. CASE Verdict(f) = "ok" /\ op.kind = "read" /\ More(f)
  <2>1. /\ payload' = Accumulated(f) /\ fcb' = ~fcb /\ mpc' = "request"
        /\ UNCHANGED <<op, result, found>>
    BY <1>7 DEF More
  <2>2. QuietInv'
    BY <1>4, <2>1 DEF QuietInv, Unanswered
  <2>3. ContiguousReadout' /\ ScanInv'
    BY <1>1, <1>7, <2>1 DEF BusInv, ContiguousReadout, ScanInv
  <2>4. ReadoutInv'
    <3> SUFFICES ASSUME ~upset, op.target \notin Embedded
                 PROVE  LET p    == Accumulated(f)
                            last == p[Len(p)].tel
                        IN  /\ Consecutive(p) /\ Len(p) <= last
                            /\ last < Telegrams[op.target]
                            /\ meter[op.target].asked /\ meter[op.target].fcb # fcb'
                            /\ meter[op.target].tel = last
      BY <1>1, <2>1 DEF ReadoutInv, Consecutive
    <3>1. op.target \in Meters /\ meter[op.target].asked /\ meter[op.target].fcb = fcb
      BY <1>3 DEF Awaited
    <3>2. fcb # fcb'
      BY <2>1
    <3>3. f.tel \in 1..Telegrams[op.target] /\ f.tel < Telegrams[op.target]
      BY <1>1, <1>3, <1>7, ReplyFits DEF More
    <3>4. payload # <<>> => f.tel = payload[Len(payload)].tel + 1
      BY <1>1, <1>3, ReplyFits
    <3>5. LET p == Accumulated(f) IN
          Consecutive(p) /\ p[Len(p)].tel = f.tel /\ Len(p) <= f.tel
      BY <1>1, <3>1, <3>3, <3>4, AccumulatedFits
    <3> QED BY <1>3, <3>1, <3>2, <3>3, <3>5
  <2> QED BY <1>2, <2>2, <2>3, <2>4 DEF BusInv
<1>8. CASE Verdict(f) = "ok" /\ op.kind = "scan" /\ Discover
  <2>1. /\ f.from = op.target /\ op.target \in Meters
        /\ op.target \in Nat /\ op.target <= Addresses /\ Addresses \in Nat
    BY <1>1, <1>8, MetersRange DEF Verdict, Frame
  <2>2. /\ found' = found \cup {op.target} /\ payload' = payload /\ ScanNext
        /\ op'.kind = "scan"
    BY <1>8 DEF Discover, ScanNext, TypeOK, MasterTypeOK
  <2>3. payload' = <<>>
    BY <1>8, <2>2 DEF KeptInv, HoldsNothing
  <2>4. mpc' \in {"select", "idle"} /\ result'.status # "ok"
    BY <1>1, <2>2 DEF ScanNext, BusInv, ScanInv
  <2>5. QuietInv' /\ ReadoutInv' /\ ContiguousReadout'
    BY <1>4, <2>3, <2>4 DEF QuietInv, ReadoutInv, ContiguousReadout, Unanswered
  <2>6. noise = 0 /\ ~upset => found = {a \in Meters : a < op.target}
    BY <1>1, <1>8 DEF BusInv, ScanInv
  <2>7. found' \subseteq Meters /\ op.target >= 1
    BY <1>8, <2>1, <2>2 DEF BusInv, ScanInv
  <2>8. CASE op.target < Addresses
    <3>1. op'.target = op.target + 1 /\ mpc' = "select" /\ result' = result
      BY <2>2, <2>8 DEF ScanNext, TypeOK, MasterTypeOK
    <3>2. {a \in Meters : a < op.target + 1} = {a \in Meters : a < op.target} \cup {op.target}
      BY <2>1, MetersBelow
    <3>3. ScanInv'
      BY <1>1, <2>1, <2>2, <2>4, <2>6, <2>7, <3>1, <3>2 DEF BusInv, ScanInv
    <3> QED BY <1>2, <2>5, <3>3 DEF BusInv
  <2>9. CASE ~(op.target < Addresses)
    <3>1. op' = op /\ mpc' = "idle"
      BY <2>2, <2>9 DEF ScanNext
    <3>2. {a \in Meters : a < op.target} \cup {op.target} = Meters
      BY <2>1, <2>9, MetersBelow
    <3>3. ScanInv'
      BY <1>1, <2>1, <2>2, <2>4, <2>6, <2>7, <3>1, <3>2 DEF BusInv, ScanInv
    <3> QED BY <1>2, <2>5, <3>3 DEF BusInv
  <2> QED BY <2>8, <2>9
<1> QED BY <1>5, <1>6, <1>7, <1>8 DEF ReadFrame, f

LEMMA LineQuiet == TypeOK /\ BusInv /\ (Arrive \/ Disturb) => BusInv'
<1> SUFFICES ASSUME TypeOK, BusInv, Arrive \/ Disturb PROVE BusInv'
  OBVIOUS
<1>1. /\ line # <<>> /\ line' = Tail(line) /\ UNCHANGED <<meter, master>>
      /\ noise \in Nat /\ noise' \in Nat /\ noise' >= noise /\ (upset => upset')
  BY BoundsAssumption DEF Arrive, Disturb, Disturbed, TypeOK, BusTypeOK
<1>2. MeterInv' /\ ContiguousReadout' /\ ScanInv'
  BY <1>1 DEF master, BusInv, MeterInv, ContiguousReadout, ScanInv
<1>3. ~upset => Awaited /\ inbox = <<>> /\ Tail(line) = <<>>
                /\ (line = <<Reply>> \/ (noise > 0 /\ line = <<Damaged>>))
  BY <1>1 DEF BusInv, QuietInv, Silent, Awaited, Due
<1>4. Reply' = Reply /\ Damaged' = Damaged
      /\ [Reply EXCEPT !.ok = FALSE] = Damaged
      /\ [Damaged EXCEPT !.ok = FALSE] = Damaged
  <2>1. Reply' = Reply
    BY <1>1 DEF master, Reply
  <2> QED BY <2>1 DEF Damaged, Reply, Answer
<1>5. QuietInv'
  <2> SUFFICES ASSUME ~upset, ~upset' PROVE (Silent /\ Unanswered)' \/ Awaited'
    BY <1>1 DEF QuietInv
  <2>1. CASE Arrive
    <3>1. inbox' = <<Head(line)>> /\ line' = <<>> /\ noise' = noise
      BY <1>1, <1>3, <2>1 DEF Arrive
    <3>2. Due(Reply)' \/ (noise' > 0 /\ Due(Damaged)')
      BY <1>3, <1>4, <3>1 DEF Due
    <3> QED BY <1>1, <1>3, <3>2 DEF master, Awaited
  <2>2. CASE Disturb
    <3>1. noise' > 0 /\ line' = <<>>
      BY <1>1, <1>3, <2>2, BoundsAssumption DEF Disturb, Disturbed
    <3> DEFINE f == Head(line)
    <3>2. inbox' = <<>> \/ inbox' = <<Damaged>>
      <4>1. inbox' = inbox \/ inbox' = Append(inbox, [f EXCEPT !.ok = FALSE])
        BY <2>2 DEF Disturb
      <4>2. f = Reply \/ f = Damaged
        BY <1>3, OneFrame
      <4>3. [f EXCEPT !.ok = FALSE] = Damaged
        BY <1>4, <4>2
      <4>4. Append(<<>>, Damaged) = <<Damaged>>
        OBVIOUS
      <4> QED BY <1>3, <4>1, <4>3, <4>4
    <3>3. CASE inbox' = <<>>
      BY <3>1, <3>3 DEF Silent, Unanswered
    <3>4. CASE inbox' = <<Damaged>>
      <4>1. Due(Damaged)'
        BY <1>4, <3>1, <3>4 DEF Due
      <4> QED BY <1>1, <1>3, <3>1, <4>1 DEF master, Awaited
    <3> QED BY <3>2, <3>3, <3>4
  <2> QED BY <2>1, <2>2
<1>6. ReadoutInv'
  <2>1. ~upset => ~Silent
    BY <1>1 DEF Silent
  <2> QED BY <1>1, <2>1 DEF master, BusInv, ReadoutInv, Consecutive
<1> QED BY <1>2, <1>5, <1>6 DEF BusInv

LEMMA NextQuiet == TypeOK /\ KeptInv /\ BusInv /\ [Next]_vars => BusInv'
<1> SUFFICES ASSUME TypeOK, KeptInv, BusInv, [Next]_vars PROVE BusInv'
  OBVIOUS
<1>1. CASE UNCHANGED vars
  <2>1. QuietInv'
    <3>1. Reply' = Reply /\ Damaged' = Damaged
      BY <1>1 DEF vars, master, bus, Reply, Damaged
    <3> QED BY <1>1, <3>1 DEF vars, master, bus, BusInv, QuietInv, Silent, Unanswered,
            Awaited, Due
  <2>2. ReadoutInv'
    BY <1>1 DEF vars, master, bus, BusInv, ReadoutInv, Consecutive, Silent
  <2>3. MeterInv' /\ ContiguousReadout' /\ ScanInv'
    BY <1>1 DEF vars, master, bus, BusInv, MeterInv, ContiguousReadout, ScanInv
  <2> QED BY <2>1, <2>2, <2>3 DEF BusInv
<1>2. CASE Next
  BY <1>2, CallQuiet, SelectQuiet, RequestQuiet, TimerQuiet, JunkQuiet, ReadFailsQuiet,
     FrameQuiet, LineQuiet DEF Next, Step
<1> QED BY <1>1, <1>2

LEMMA InitQuiet == Init => KeptInv /\ BusInv
<1> SUFFICES ASSUME Init PROVE KeptInv /\ BusInv
  OBVIOUS
<1>1. KeptInv
  BY DEF Init, NoResult, KeptInv, OwnParts, HoldsNothing, AddressedMeterOnly
<1>2. MeterInv
  BY MetersAssumption DEF Init, MeterInv
<1>3. QuietInv /\ ReadoutInv /\ ContiguousReadout /\ ScanInv
  BY DEF Init, NoResult, QuietInv, Silent, Unanswered, ReadoutInv, ContiguousReadout, ScanInv
<1> QED BY <1>1, <1>2, <1>3 DEF BusInv

LEMMA BusInvariant == Spec => [](TypeOK /\ KeptInv /\ BusInv)
<1>1. Init => TypeOK /\ KeptInv /\ BusInv
  BY InitTypes, InitQuiet
<1>2. TypeOK /\ KeptInv /\ BusInv /\ [Next]_vars => (TypeOK /\ KeptInv /\ BusInv)'
  BY NextTypes, StepKeeps, NextQuiet
<1> QED BY <1>1, <1>2, PTL DEF Spec

(* No retry, lost request or damaged answer tears a readout, however many  *)
(* telegrams it takes (ContiguousReadout).                                 *)
THEOREM WiredContiguous == Spec => []ContiguousReadout
<1>1. BusInv => ContiguousReadout
  BY DEF BusInv
<1> QED BY <1>1, BusInvariant, PTL

(* A scan of any number of addresses lists only meters, and all of them    *)
(* when the line neither disturbs nor delays (ScanTruthful).               *)
THEOREM WiredScanTruthful == Spec => []ScanTruthful
<1>1. BusInv => ScanTruthful
  BY DEF BusInv, ScanInv, ScanTruthful
<1> QED BY <1>1, BusInvariant, PTL
=============================================================================
