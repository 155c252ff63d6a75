----------------------------- MODULE RadioProofs -----------------------------
EXTENDS RadioSetup, Rfm69Owner, DutyCycle, IrqEventQueue, GpioLines, BusManager, SequencesExt, SequenceTheorems, WellFoundedInduction,
  FiniteSetTheorems, TLAPS

(***************************************************************************)
(* Proofs about the radios and their owners.  What an owner tells a radio   *)
(* is RadioSetup (the SX126x) and Rfm69Owner (the RFM69); when it may       *)
(* transmit is DutyCycle (the duty-cycle manager and the limiter); what the *)
(* chip tells its owner comes over IrqEventQueue and GpioLines.             *)
(*                                                                         *)
(* In the first two a call is a plan of commands, any of which may fail,    *)
(* and a plan is reasoned about as the set of what it has still to do: an   *)
(* invariant says of every part of the radio that it is set up or still in  *)
(* the plan.                                                               *)
(*                                                                         *)
(*   - SX126x: SetupInv.  A plan's commands are known by the method         *)
(*     (PlanKnown), and each command does its part and undoes no other      *)
(*     (EffectParts).                                                      *)
(*   - RFM69: OwnerInv.  Every call makes its accesses in one fixed order   *)
(*     (Rank), so that what is still to do says what has been done, and no  *)
(*     access is made twice.                                               *)
(*                                                                         *)
(* Airtime is the cardinality of a set of units, so what is recorded and    *)
(* what is forgotten adds to it and takes from it by facts about finite    *)
(* sets.                                                                   *)
(*                                                                         *)
(*   - Manager: Accounted.  The record is all of the sliding window since   *)
(*     window_start; what of the window it has forgotten was below the     *)
(*     limit when it was forgotten, since a transmission was still allowed. *)
(*   - Limiter: LimiterInv.  What is used and what is granted together      *)
(*     exceed the limit by at most one transmission for every caller but   *)
(*     one.                                                                *)
(*   - Events: QueueInv, PinInv, ChipInv, WordInv and EdgeInv.  The events *)
(*     of the pins are counted by the set of log entries let through, so   *)
(*     that a callback adds one, and a time kept of a pin is that of such  *)
(*     an entry.                                                           *)
(*                                                                         *)
(* What stands on the handles is BusManager.                               *)
(*                                                                         *)
(*   - Buses: CallInv, TopologyInv and LineInv say what a call, a discovery *)
(*     and a line know between two steps.                                  *)
(*   - Search: SearchHolds, by induction over the byte that is narrowed.    *)
(*     SearchIs shows that the recursion has the function it defines, and  *)
(*     FindsFrom says what a round finds for a pattern open from a byte on; *)
(*     it holds in the last round (LastRound) and in each one before       *)
(*     (EarlierRound).                                                     *)
(***************************************************************************)

-----------------------------------------------------------------------------
(* Sequences.                                                              *)

LEMMA JoinedSet ==
  ASSUME NEW T, NEW s \in Seq(T), NEW t \in Seq(T)
  PROVE  s \o t \in Seq(T) /\ ToSet(s \o t) = ToSet(s) \cup ToSet(t)
<1>1. \A i \in DOMAIN s : i \in DOMAIN (s \o t) /\ (s \o t)[i] = s[i]
  OBVIOUS
<1>2. \A i \in DOMAIN t : Len(s) + i \in DOMAIN (s \o t) /\ (s \o t)[Len(s) + i] = t[i]
  OBVIOUS
<1>3. \A i \in DOMAIN (s \o t) : (i \in DOMAIN s /\ (s \o t)[i] = s[i])
                                 \/ (i - Len(s) \in DOMAIN t /\ (s \o t)[i] = t[i - Len(s)])
  OBVIOUS
<1>4. ASSUME NEW c PROVE c \in ToSet(s \o t) <=> c \in ToSet(s) \cup ToSet(t)
  <2>1. ASSUME NEW i \in DOMAIN (s \o t), c = (s \o t)[i] PROVE c \in ToSet(s) \cup ToSet(t)
    BY <1>3, <2>1 DEF ToSet
  <2>2. ASSUME NEW i \in DOMAIN s, c = s[i] PROVE c \in ToSet(s \o t)
    BY <1>1, <2>2 DEF ToSet
  <2>3. ASSUME NEW i \in DOMAIN t, c = t[i] PROVE c \in ToSet(s \o t)
    BY <1>2, <2>3 DEF ToSet
  <2> QED BY <2>1, <2>2, <2>3 DEF ToSet
<1> QED BY <1>4

LEMMA RestSet ==
  ASSUME NEW T, NEW s \in Seq(T), s # <<>>
  PROVE  /\ Head(s) \in T /\ Head(s) \in ToSet(s) /\ Tail(s) \in Seq(T)
         /\ ToSet(s) = {Head(s)} \cup ToSet(Tail(s))
<1>1. Head(s) = s[1] /\ 1 \in DOMAIN s /\ Head(s) \in T /\ Tail(s) \in Seq(T)
  OBVIOUS
<1>2. \A i \in DOMAIN Tail(s) : i + 1 \in DOMAIN s /\ Tail(s)[i] = s[i + 1]
  OBVIOUS
<1>3. \A i \in DOMAIN s : i = 1 \/ (i - 1 \in DOMAIN Tail(s) /\ s[i] = Tail(s)[i - 1])
  OBVIOUS
<1>4. ASSUME NEW c PROVE c \in ToSet(s) <=> c \in {Head(s)} \cup ToSet(Tail(s))
  <2>1. ASSUME NEW i \in DOMAIN s, c = s[i] PROVE c \in {Head(s)} \cup ToSet(Tail(s))
    BY <1>1, <1>3, <2>1 DEF ToSet
  <2>2. ASSUME NEW i \in DOMAIN Tail(s), c = Tail(s)[i] PROVE c \in ToSet(s)
    BY <1>2, <2>2 DEF ToSet
  <2>3. Head(s) \in ToSet(s)
    BY <1>1 DEF ToSet
  <2> QED BY <2>1, <2>2, <2>3 DEF ToSet
<1>5. Head(s) \in ToSet(s)
  BY <1>1 DEF ToSet
<1> QED BY <1>1, <1>4, <1>5

-----------------------------------------------------------------------------
(* Setting up the SX126x.                                                  *)

SetupArg == SuModem \cup {"Cad", "none"}
SetupOp ==
  {"modem", "mod", "pkt", "freq", "sync", "power", "SetDioIrqParams", "SetStandby", "GetStatus", "SetRx",
   "SetSleep", "StartCad", "PollCad", "SetGain", "SetCadParams", "GetRssiInst"}
SetupName ==
  {"configure", "switch", "enhanced", "select", "route", "tune", "start", "stop", "sleep", "cad", "listen"}
SetupCommand == [op : SetupOp, arg : SetupArg]
SetupMode  == {"Sleep", "StandbyRc", "Rx", "CAD"}
SetupValue == {"unset"} \cup SetupArg
SetupMask  == {{}} \cup {RoutedMask(p) : p \in SetupArg}
SetupRadio ==
  [mode : SetupMode, modem : SetupValue, mod : SetupValue, pkt : SetupValue, freq : SetupValue,
   sync : SetupValue, power : SetupValue, mask : SetupMask, irq : SUBSET CadBits,
   state : SetupMode, ptype : SetupValue]

(* The commands that set up a profile, each once; and what each has done.   *)
PartsOf(p) ==
  {"modem", "freq", "mod", "pkt", "power", "SetDioIrqParams"} \cup (IF p = "GFSK" THEN {"sync"} ELSE {})
SetupCommands(p) ==
  {[op |-> o, arg |-> p] : o \in PartsOf(p)} \cup {[op |-> o, arg |-> "none"] : o \in {"SetStandby", "GetStatus"}}
PartSet(r, op, p) ==
  /\ op = "modem" => r.modem = p /\ r.ptype = p
  /\ op = "mod"   => r.mod = p
  /\ op = "pkt"   => r.pkt = p
  /\ op = "freq"  => r.freq = p
  /\ op = "sync"  => r.sync = p
  /\ op = "power" => r.power = p
  /\ op = "SetDioIrqParams" => r.mask = RoutedMask(p)

Ops(plan) == {c.op : c \in ToSet(plan)}

SetupTyped ==
  /\ suRadio \in SetupRadio /\ suPlan \in Seq(SetupCommand)
  /\ suCall \in [name : SetupName \cup {"none"}, arg : SuModem \cup {"none"},
                 told : {"running", "Ok", "Err", "clear", "busy", "silent", "occupied"}]
  /\ suCad \in [tries : Nat, stale : BOOLEAN] /\ suTaken \in BOOLEAN /\ suBroken \in BOOLEAN
  /\ suCall.told = "running" <=> suPlan # <<>>

(* A profile being set up: what is not in the plan any more has been done. *)
SettingUp == suCall.name \in {"configure", "switch"} /\ suCall.told \in {"running", "Ok"}
ProfileInv ==
  SettingUp =>
    /\ suCall.arg \in SuModem
    /\ ToSet(suPlan) \subseteq SetupCommands(suCall.arg)
    /\ suCall.name = "switch" =>
         suTaken /\ (suRadio.mode = "StandbyRc" \/ (suPlan # <<>> /\ Head(suPlan).op = "SetStandby"))
    /\ suTaken => \A op \in PartsOf(suCall.arg) : op \in Ops(suPlan) \/ PartSet(suRadio, op, suCall.arg)

(* The signal strength is read in reception.                                *)
ListenInv ==
  /\ "GetRssiInst" \in Ops(suPlan) =>
       suPlan = Listen \/ (Head(suPlan).op = "GetRssiInst" /\ suRadio.mode = "Rx")
  /\ suCall.told \in {"silent", "occupied"} => suRadio.mode = "Rx"

(* Nothing is latched and nothing detects outside of a detection, but after *)
(* one that was given up.                                                  *)
DetectInv ==
  /\ "PollCad" \in Ops(suPlan) => suPlan = Send("PollCad", "none")
  /\ suBroken \/ /\ ~suCad.stale
                 /\ Detecting \/ (suRadio.irq = {} /\ suRadio.mode # "CAD")
                 /\ suRadio.mode = "CAD" => suRadio.irq = {}

-----------------------------------------------------------------------------
(* Plans.                                                                  *)

LEMMA SentOne ==
  ASSUME NEW op \in SetupOp, NEW arg \in SetupArg
  PROVE  /\ Send(op, arg) \in Seq(SetupCommand) /\ Send(op, arg) # <<>>
         /\ Len(Send(op, arg)) = 1 /\ Head(Send(op, arg)) = [op |-> op, arg |-> arg]
         /\ ToSet(Send(op, arg)) = {[op |-> op, arg |-> arg]} /\ Ops(Send(op, arg)) = {op}
<1>1. Send(op, arg) \in Seq(SetupCommand) /\ Len(Send(op, arg)) = 1 /\ Head(Send(op, arg)) = [op |-> op, arg |-> arg]
  BY DEF Send, SetupCommand
<1>2. ToSet(Send(op, arg)) = {[op |-> op, arg |-> arg]}
  BY DEF ToSet, Send
<1>3. Ops(Send(op, arg)) = {op}
  BY <1>2 DEF Ops
<1>4. Send(op, arg) # <<>>
  BY <1>1
<1> QED BY <1>1, <1>2, <1>3, <1>4

LEMMA SentBoth ==
  ASSUME NEW s \in Seq(SetupCommand), NEW t \in Seq(SetupCommand)
  PROVE  /\ s \o t \in Seq(SetupCommand) /\ ToSet(s \o t) = ToSet(s) \cup ToSet(t)
         /\ Ops(s \o t) = Ops(s) \cup Ops(t)
         /\ s # <<>> => s \o t # <<>> /\ Head(s \o t) = Head(s)
<1>1. s \o t \in Seq(SetupCommand) /\ (s # <<>> => s \o t # <<>> /\ Head(s \o t) = Head(s))
  OBVIOUS
<1>2. ToSet(s \o t) = ToSet(s) \cup ToSet(t)
  BY JoinedSet
<1>3. Ops(s \o t) = Ops(s) \cup Ops(t)
  BY <1>2 DEF Ops
<1> QED BY <1>1, <1>2, <1>3

LEMMA SentHead ==
  ASSUME NEW s \in Seq(SetupCommand), s # <<>>
  PROVE  /\ Head(s) \in SetupCommand /\ Head(s) \in ToSet(s) /\ Tail(s) \in Seq(SetupCommand)
         /\ ToSet(s) = {Head(s)} \cup ToSet(Tail(s)) /\ Ops(s) = {Head(s).op} \cup Ops(Tail(s))
<1>1. /\ Head(s) \in SetupCommand /\ Head(s) \in ToSet(s) /\ Tail(s) \in Seq(SetupCommand)
      /\ ToSet(s) = {Head(s)} \cup ToSet(Tail(s))
  BY RestSet
<1>2. Ops(s) = {Head(s).op} \cup Ops(Tail(s))
  BY <1>1 DEF Ops
<1> QED BY <1>1, <1>2

LEMMA SentNothing == ToSet(<<>>) = {} /\ Ops(<<>>) = {} /\ <<>> \in Seq(SetupCommand)
BY DEF ToSet, Ops

-----------------------------------------------------------------------------
(* What a command does.                                                    *)

LEMMA EffectParts ==
  ASSUME NEW r \in SetupRadio, NEW p \in SuModem, NEW c \in SetupCommands(p)
  PROVE  LET e == Effect(r, c) IN
         /\ e.mode = IF c.op = "SetStandby" THEN "StandbyRc" ELSE r.mode
         /\ \A op \in PartsOf(p) : PartSet(r, op, p) /\ op # c.op => PartSet(e, op, p)
         /\ c.op \in PartsOf(p) /\ (c.op \in SuSetting => Takes(r)) => PartSet(e, c.op, p)
<1> DEFINE e == Effect(r, c)
<1>1. CASE c.op \in SuSetting
  <2>0. c.op \in {"modem", "mod", "pkt"} /\ c.arg = p /\ e = Told(r, c.op, p)
    BY <1>1 DEF SetupCommands, Effect, SuSetting, SuWritten, PartsOf
  <2>1. CASE c.op = "modem"
    <3>1. e = [r EXCEPT !.modem = IF Takes(r) THEN p ELSE r.modem, !.ptype = p]
      BY <2>0, <2>1 DEF Told
    <3> QED BY <3>1, <2>1 DEF SetupRadio, PartSet, PartsOf, SuSetting
  <2>2. CASE c.op = "mod"
    <3>1. e = [r EXCEPT !.mod = IF Takes(r) THEN p ELSE r.mod, !.ptype = r.ptype]
      BY <2>0, <2>2 DEF Told, SetupRadio
    <3> QED BY <3>1, <2>2 DEF SetupRadio, PartSet, PartsOf, SuSetting
  <2>3. CASE c.op = "pkt"
    <3>1. e = [r EXCEPT !.pkt = IF Takes(r) THEN p ELSE r.pkt, !.ptype = r.ptype]
      BY <2>0, <2>3 DEF Told, SetupRadio
    <3> QED BY <3>1, <2>3 DEF SetupRadio, PartSet, PartsOf, SuSetting
  <2> QED BY <2>0, <2>1, <2>2, <2>3
<1>2. CASE c.op \in SuWritten
  <2>4. c.op \in {"freq", "sync", "power"} /\ c.arg = p
    BY <1>2 DEF SetupCommands, SuWritten, PartsOf
  <2>5. e = [r EXCEPT ![c.op] = c.arg]
    BY <1>2, <2>4 DEF Effect, SuSetting, SuWritten
  <2>0. c.op \in {"freq", "sync", "power"} /\ c.arg = p /\ e = [r EXCEPT ![c.op] = p]
    BY <2>4, <2>5
  <2>1. CASE c.op = "freq"
    BY <2>0, <2>1 DEF SetupRadio, PartSet, PartsOf, SuSetting
  <2>2. CASE c.op = "sync"
    BY <2>0, <2>2 DEF SetupRadio, PartSet, PartsOf, SuSetting
  <2>3. CASE c.op = "power"
    BY <2>0, <2>3 DEF SetupRadio, PartSet, PartsOf, SuSetting
  <2> QED BY <2>0, <2>1, <2>2, <2>3
<1>3. CASE c.op = "SetDioIrqParams"
  <2>1. c.arg = p /\ e = [r EXCEPT !.mask = RoutedMask(p)]
    BY <1>3 DEF SetupCommands, Effect, SuSetting, SuWritten, PartsOf
  <2> QED BY <2>1, <1>3 DEF SetupRadio, PartSet, PartsOf, SuSetting
<1>4. CASE c.op = "SetStandby"
  <2>1. e = [r EXCEPT !.mode = "StandbyRc"]
    BY <1>4 DEF Effect, SuSetting, SuWritten
  <2> QED BY <2>1, <1>4 DEF SetupRadio, PartSet, PartsOf
<1>5. CASE c.op = "GetStatus"
  <2>1. e = [r EXCEPT !.state = r.mode]
    BY <1>5 DEF Effect, SuSetting, SuWritten
  <2> QED BY <2>1, <1>5 DEF SetupRadio, PartSet, PartsOf
<1> QED BY <1>1, <1>2, <1>3, <1>4, <1>5 DEF SetupCommands, PartsOf, SuSetting, SuWritten

LEMMA EffectTyped ==
  ASSUME NEW r \in SetupRadio, NEW c \in SetupCommand
  PROVE  LET e == Effect(r, c) IN
         /\ e \in SetupRadio /\ e.irq = r.irq
         /\ c.op = "SetRx" => e.mode = "Rx"
         /\ c.op = "StartCad" => e.mode = "CAD"
         /\ c.op # "StartCad" /\ r.mode # "CAD" => e.mode # "CAD"
<1> DEFINE e == Effect(r, c)
<1>0. c.arg \in SetupValue /\ RoutedMask(c.arg) \in SetupMask
  BY DEF SetupCommand, SetupValue, SetupMask
<1>1. CASE c.op \in SuSetting
  <2>0. c.op \in {"modem", "mod", "pkt"} /\ e = Told(r, c.op, c.arg)
    BY <1>1 DEF Effect, SuSetting, SuWritten
  <2>1. CASE c.op = "modem"
    <3>1. e = [r EXCEPT !.modem = IF Takes(r) THEN c.arg ELSE r.modem, !.ptype = c.arg]
      BY <2>0, <2>1 DEF Told
    <3> QED BY <1>0, <3>1, <2>1 DEF SetupRadio
  <2>2. CASE c.op = "mod"
    <3>1. e = [r EXCEPT !.mod = IF Takes(r) THEN c.arg ELSE r.mod, !.ptype = r.ptype]
      BY <2>0, <2>2 DEF Told, SetupRadio
    <3> QED BY <1>0, <3>1, <2>2 DEF SetupRadio
  <2>3. CASE c.op = "pkt"
    <3>1. e = [r EXCEPT !.pkt = IF Takes(r) THEN c.arg ELSE r.pkt, !.ptype = r.ptype]
      BY <2>0, <2>3 DEF Told, SetupRadio
    <3> QED BY <1>0, <3>1, <2>3 DEF SetupRadio
  <2> QED BY <2>0, <2>1, <2>2, <2>3
<1>2. CASE c.op \in SuWritten
  <2>0. c.op \in {"freq", "sync", "power"} /\ e = [r EXCEPT ![c.op] = c.arg]
    BY <1>2 DEF Effect, SuSetting, SuWritten
  <2>1. CASE c.op = "freq"
    BY <1>0, <2>0, <2>1 DEF SetupRadio
  <2>2. CASE c.op = "sync"
    BY <1>0, <2>0, <2>2 DEF SetupRadio
  <2>3. CASE c.op = "power"
    BY <1>0, <2>0, <2>3 DEF SetupRadio
  <2> QED BY <2>0, <2>1, <2>2, <2>3
<1>3. CASE c.op = "SetDioIrqParams"
  <2>1. e = [r EXCEPT !.mask = RoutedMask(c.arg)]
    BY <1>3 DEF Effect, SuSetting, SuWritten
  <2> QED BY <1>0, <2>1, <1>3 DEF SetupRadio
<1>4. CASE c.op = "SetStandby"
  <2>1. e = [r EXCEPT !.mode = "StandbyRc"]
    BY <1>4 DEF Effect, SuSetting, SuWritten
  <2> QED BY <2>1, <1>4 DEF SetupRadio, SetupMode
<1>5. CASE c.op = "GetStatus"
  <2>1. e = [r EXCEPT !.state = r.mode]
    BY <1>5 DEF Effect, SuSetting, SuWritten
  <2> QED BY <2>1, <1>5 DEF SetupRadio
<1>6. CASE c.op = "SetRx"
  <2>1. e = [r EXCEPT !.mode = "Rx"]
    BY <1>6 DEF Effect, SuSetting, SuWritten
  <2> QED BY <2>1, <1>6 DEF SetupRadio, SetupMode
<1>7. CASE c.op = "SetSleep"
  <2>1. e = [r EXCEPT !.mode = "Sleep", !.state = "Sleep"]
    BY <1>7 DEF Effect, SuSetting, SuWritten
  <2> QED BY <2>1, <1>7 DEF SetupRadio, SetupMode
<1>8. CASE c.op = "StartCad"
  <2>1. e = [r EXCEPT !.mode = "CAD"]
    BY <1>8 DEF Effect, SuSetting, SuWritten
  <2> QED BY <2>1, <1>8 DEF SetupRadio, SetupMode
<1>9. CASE /\ c.op \notin SuSetting \cup SuWritten
           /\ c.op \notin {"SetDioIrqParams", "SetStandby", "GetStatus", "SetRx", "SetSleep", "StartCad"}
  <2>1. e = r
    BY <1>9 DEF Effect
  <2> QED BY <2>1, <1>9
<1> QED BY <1>1, <1>2, <1>3, <1>4, <1>5, <1>6, <1>7, <1>8, <1>9

-----------------------------------------------------------------------------
(* What a call plans.                                                      *)

(* No plan but a detection's own waits for one; only a channel check reads  *)
(* the signal strength; and a profile's plan names each of its parts.       *)
LEMMA PlanKnown ==
  ASSUME NEW name \in SetupName, NEW p \in SuModem, NEW s,
         s = Commands(name, p)
  PROVE  /\ s \in Seq(SetupCommand) /\ s # <<>>
         /\ "PollCad" \notin Ops(s) /\ Head(s).op # "PollCad"
         /\ "GetRssiInst" \in Ops(s) => s = Listen
         /\ name \in {"configure", "switch"} =>
              ToSet(s) \subseteq SetupCommands(p) /\ PartsOf(p) \subseteq Ops(s)
         /\ name = "switch" => Head(s).op = "SetStandby"
<1> DEFINE Made(t, S)    == t \in Seq(SetupCommand) /\ Ops(t) = S
           ForSetup(t, S) == Made(t, S) /\ ToSet(t) \subseteq SetupCommands(p)
<1>0. p \in SetupArg /\ "none" \in SetupArg /\ "Cad" \in SetupArg /\ "LoRa" \in SetupArg /\ p \in {"GFSK", "LoRa"}
     /\ {"modem", "mod", "pkt", "freq", "sync", "power", "SetDioIrqParams", "SetStandby",
         "GetStatus", "SetRx", "SetSleep", "StartCad", "PollCad", "SetGain", "SetCadParams", "GetRssiInst"} \subseteq SetupOp
  BY DEF SetupArg, SuModem, SetupOp
<1>1. ASSUME NEW op \in SetupOp, NEW arg \in SetupArg
      PROVE  Made(Send(op, arg), {op}) /\ Head(Send(op, arg)).op = op /\ ToSet(Send(op, arg)) = {[op |-> op, arg |-> arg]}
  BY SentOne
<1>2. ASSUME NEW t, NEW u, NEW S, NEW T, Made(t, S), Made(u, T)
      PROVE  Made(t \o u, S \cup T) /\ ToSet(t \o u) = ToSet(t) \cup ToSet(u) /\ (t # <<>> => Head(t \o u) = Head(t))
  BY <1>2, SentBoth
<1>3. ASSUME NEW t, NEW u, NEW S, NEW T, ForSetup(t, S), ForSetup(u, T)
      PROVE  ForSetup(t \o u, S \cup T)
  BY <1>3, <1>2
<1>4. ASSUME NEW op \in PartsOf(p)
      PROVE  ForSetup(Send(op, p), {op})
  <2>1. op \in SetupOp /\ [op |-> op, arg |-> p] \in SetupCommands(p)
    BY <1>4 DEF PartsOf, SetupCommands, SetupOp
  <2>2. Made(Send(op, p), {op}) /\ ToSet(Send(op, p)) = {[op |-> op, arg |-> p]}
    <3> HIDE DEF Made
    <3> QED BY <2>1, <1>0, <1>1
  <2> QED BY <2>1, <2>2
<1>5. ASSUME NEW op \in {"SetStandby", "GetStatus"}
      PROVE  ForSetup(Send(op, "none"), {op})
  <2>1. op \in SetupOp /\ [op |-> op, arg |-> "none"] \in SetupCommands(p)
    BY <1>5 DEF SetupCommands, SetupOp
  <2>2. Made(Send(op, "none"), {op}) /\ ToSet(Send(op, "none")) = {[op |-> op, arg |-> "none"]}
    <3> HIDE DEF Made
    <3> QED BY <2>1, <1>0, <1>1
  <2> QED BY <2>1, <2>2
<1>6. ForSetup(<<>>, {})
  BY SentNothing
<1>7. {"modem", "freq", "mod", "pkt", "power", "SetDioIrqParams"} \subseteq PartsOf(p) /\ (p = "GFSK" => "sync" \in PartsOf(p))
  BY DEF PartsOf
<1> HIDE DEF Made, ForSetup
<1>8. ForSetup(StandbyRc, {"SetStandby"} \cup {"GetStatus"})
  BY <1>3, <1>5 DEF StandbyRc
<1>9. ForSetup(WordOf(p), IF p = "GFSK" THEN {"sync"} ELSE {})
  BY <1>4, <1>6, <1>7 DEF WordOf
<1>10. ForSetup(Applied(p), PartsOf(p) \ {"modem"})
  <2>1. ForSetup(Send("freq", p) \o Send("mod", p), {"freq"} \cup {"mod"})
    BY <1>3, <1>4, <1>7
  <2>2. ForSetup(Send("freq", p) \o Send("mod", p) \o Send("pkt", p), {"freq"} \cup {"mod"} \cup {"pkt"})
    BY <2>1, <1>3, <1>4, <1>7
  <2>3. ForSetup(Send("freq", p) \o Send("mod", p) \o Send("pkt", p) \o WordOf(p),
                 {"freq"} \cup {"mod"} \cup {"pkt"} \cup (IF p = "GFSK" THEN {"sync"} ELSE {}))
    BY <2>2, <1>3, <1>9
  <2>4. ForSetup(Send("freq", p) \o Send("mod", p) \o Send("pkt", p) \o WordOf(p) \o Send("power", p),
                 {"freq"} \cup {"mod"} \cup {"pkt"} \cup (IF p = "GFSK" THEN {"sync"} ELSE {}) \cup {"power"})
    BY <2>3, <1>3, <1>4, <1>7
  <2>5. ForSetup(Applied(p), {"freq"} \cup {"mod"} \cup {"pkt"} \cup (IF p = "GFSK" THEN {"sync"} ELSE {})
                             \cup {"power"} \cup {"SetDioIrqParams"})
    BY <2>4, <1>3, <1>4, <1>7 DEF Applied, Tune, Powered
  <2>6. {"freq"} \cup {"mod"} \cup {"pkt"} \cup (IF p = "GFSK" THEN {"sync"} ELSE {})
        \cup {"power"} \cup {"SetDioIrqParams"} = PartsOf(p) \ {"modem"}
    BY DEF PartsOf
  <2> QED BY <2>5, <2>6
<1>11. ForSetup(ConfigureFor(p), {"modem"} \cup (PartsOf(p) \ {"modem"}))
  BY <1>3, <1>4, <1>7, <1>10 DEF ConfigureFor, SelectModem
<1>12. ForSetup(StandbyRc \o SelectModem(p), {"SetStandby"} \cup {"GetStatus"} \cup {"modem"})
  BY <1>3, <1>4, <1>7, <1>8 DEF SelectModem
<1>13. ForSetup(SwitchedProfile(p), {"SetStandby"} \cup {"GetStatus"} \cup {"modem"} \cup (PartsOf(p) \ {"modem"}))
  BY <1>3, <1>10, <1>12 DEF SwitchedProfile
<1>14. Head(SwitchedProfile(p)).op = "SetStandby"
  <2>1. Made(Send("SetStandby", "none"), {"SetStandby"}) /\ Head(Send("SetStandby", "none")).op = "SetStandby"
        /\ Send("SetStandby", "none") # <<>>
    BY <1>0, <1>1, SentOne
  <2>2. Made(Send("GetStatus", "none"), {"GetStatus"})
    BY <1>0, <1>1
  <2>3. Head(StandbyRc).op = "SetStandby"
    BY <2>1, <2>2, <1>2 DEF StandbyRc
  <2>4. Made(StandbyRc, {"SetStandby"} \cup {"GetStatus"}) /\ StandbyRc # <<>>
    BY <1>8, SentNothing DEF ForSetup, Made
  <2>5. Made(SelectModem(p), {"modem"})
    BY <1>0, <1>1 DEF SelectModem
  <2>6. Head(StandbyRc \o SelectModem(p)).op = "SetStandby"
    BY <2>3, <2>4, <2>5, <1>2
  <2>7. Made(StandbyRc \o SelectModem(p), {"SetStandby"} \cup {"GetStatus"} \cup {"modem"}) /\ StandbyRc \o SelectModem(p) # <<>>
    BY <1>12, SentNothing DEF ForSetup, Made
  <2>8. Made(Applied(p), PartsOf(p) \ {"modem"})
    BY <1>10 DEF ForSetup
  <2> QED BY <2>6, <2>7, <2>8, <1>2 DEF SwitchedProfile
<1>15. Made(EnhancedLora, {"modem"} \cup {"mod"} \cup {"pkt"} \cup {"freq"} \cup {"power"}
                          \cup ({"SetStandby"} \cup {"GetStatus"}) \cup {"SetGain"})
  <2>1. Made(Send("modem", "LoRa") \o Send("mod", "LoRa"), {"modem"} \cup {"mod"})
    BY <1>0, <1>1, <1>2
  <2>2. Made(Send("modem", "LoRa") \o Send("mod", "LoRa") \o Send("pkt", "LoRa"), {"modem"} \cup {"mod"} \cup {"pkt"})
    BY <2>1, <1>0, <1>1, <1>2
  <2>3. Made(Send("modem", "LoRa") \o Send("mod", "LoRa") \o Send("pkt", "LoRa") \o Send("freq", "LoRa"),
             {"modem"} \cup {"mod"} \cup {"pkt"} \cup {"freq"})
    BY <2>2, <1>0, <1>1, <1>2
  <2>4. Made(Send("modem", "LoRa") \o Send("mod", "LoRa") \o Send("pkt", "LoRa") \o Send("freq", "LoRa") \o Send("power", "LoRa"),
             {"modem"} \cup {"mod"} \cup {"pkt"} \cup {"freq"} \cup {"power"})
    BY <2>3, <1>0, <1>1, <1>2
  <2>5. Made(StandbyRc, {"SetStandby"} \cup {"GetStatus"})
    BY <1>8 DEF ForSetup
  <2>6. Made(Send("modem", "LoRa") \o Send("mod", "LoRa") \o Send("pkt", "LoRa") \o Send("freq", "LoRa") \o Send("power", "LoRa") \o StandbyRc,
             {"modem"} \cup {"mod"} \cup {"pkt"} \cup {"freq"} \cup {"power"} \cup ({"SetStandby"} \cup {"GetStatus"}))
    BY <2>4, <2>5, <1>2
  <2> QED BY <2>6, <1>0, <1>1, <1>2 DEF EnhancedLora, SelectModem, Tune, Powered
<1>16. Made(Tuned, {"SetStandby"} \cup {"GetStatus"} \cup {"SetGain"})
  BY <1>0, <1>1, <1>2, <1>8 DEF ForSetup, Tuned
<1>17. Made(CadLbt, {"SetStandby"} \cup {"GetStatus"} \cup {"SetCadParams"} \cup {"StartCad"})
  <2>1. Made(StandbyRc \o Send("SetCadParams", "none"), {"SetStandby"} \cup {"GetStatus"} \cup {"SetCadParams"})
    BY <1>0, <1>1, <1>2, <1>8 DEF ForSetup
  <2> QED BY <2>1, <1>0, <1>1, <1>2 DEF CadLbt
<1>18. Made(Listen, {"SetRx"} \cup {"GetRssiInst"})
  BY <1>0, <1>1, <1>2 DEF Listen, StartReceive
<1>19. s \in Seq(SetupCommand) /\ Ops(s) # {} /\ "PollCad" \notin Ops(s) /\ ("GetRssiInst" \in Ops(s) => s = Listen)
  <2>1. CASE name = "configure"
    BY <2>1, <1>11 DEF Commands, ForSetup, Made, PartsOf
  <2>2. CASE name = "switch"
    BY <2>2, <1>13 DEF Commands, ForSetup, Made, PartsOf
  <2>3. CASE name = "enhanced"
    BY <2>3, <1>15 DEF Commands, Made
  <2>4. CASE name = "select"
    <3>1. s = Send("modem", p)
      BY <2>4 DEF Commands, SelectModem
    <3>2. Made(s, {"modem"})
      <4>1. "modem" \in SetupOp /\ p \in SetupArg
        BY <1>0
      <4> QED BY <3>1, <4>1, <1>1
    <3> QED BY <3>2 DEF Made
  <2>5. CASE name = "route"
    <3>1. s = Send("SetDioIrqParams", "Cad")
      BY <2>5 DEF Commands
    <3>2. Made(s, {"SetDioIrqParams"})
      <4>1. "SetDioIrqParams" \in SetupOp /\ "Cad" \in SetupArg
        BY <1>0
      <4> QED BY <3>1, <4>1, <1>1
    <3> QED BY <3>2 DEF Made
  <2>6. CASE name = "tune"
    BY <2>6, <1>16 DEF Commands, Made
  <2>7. CASE name = "start"
    <3>1. s = Send("SetRx", "none")
      BY <2>7 DEF Commands, StartReceive
    <3>2. Made(s, {"SetRx"})
      <4>1. "SetRx" \in SetupOp /\ "none" \in SetupArg
        BY <1>0
      <4> QED BY <3>1, <4>1, <1>1
    <3> QED BY <3>2 DEF Made
  <2>8. CASE name = "stop"
    BY <2>8, <1>8 DEF Commands, ForSetup, Made, StopReceive
  <2>9. CASE name = "sleep"
    <3>1. s = Send("SetSleep", "none")
      BY <2>9 DEF Commands
    <3>2. Made(s, {"SetSleep"})
      <4>1. "SetSleep" \in SetupOp /\ "none" \in SetupArg
        BY <1>0
      <4> QED BY <3>1, <4>1, <1>1
    <3> QED BY <3>2 DEF Made
  <2>10. CASE name = "cad"
    BY <2>10, <1>17 DEF Commands, Made
  <2>11. CASE name = "listen"
    BY <2>11, <1>18 DEF Commands, Made
  <2> QED BY <2>1, <2>2, <2>3, <2>4, <2>5, <2>6, <2>7, <2>8, <2>9, <2>10, <2>11 DEF SetupName
<1>20. s # <<>> /\ Head(s).op \in Ops(s)
  BY <1>19, SentNothing, SentHead DEF Ops
<1>21. CASE name = "configure"
  BY <1>19, <1>20, <1>21, <1>11 DEF Commands, ForSetup, Made
<1>22. CASE name = "switch"
  BY <1>19, <1>20, <1>22, <1>13, <1>14 DEF Commands, ForSetup, Made
<1> QED BY <1>19, <1>20, <1>21, <1>22

LEMMA ListenPlan ==
  /\ Listen \in Seq(SetupCommand) /\ Listen # <<>>
  /\ Head(Listen).op = "SetRx" /\ Head(Tail(Listen)).op = "GetRssiInst"
<1>1. "SetRx" \in SetupOp /\ "GetRssiInst" \in SetupOp /\ "none" \in SetupArg
  BY DEF SetupOp, SetupArg
<1>2. Send("SetRx", "none") \in Seq(SetupCommand) /\ Send("GetRssiInst", "none") \in Seq(SetupCommand)
      /\ Send("SetRx", "none") # <<>> /\ Head(Send("SetRx", "none")).op = "SetRx" /\ Len(Send("SetRx", "none")) = 1
  BY <1>1, SentOne
<1>3. /\ Len(Send("GetRssiInst", "none")) = 1 /\ Head(Send("GetRssiInst", "none")).op = "GetRssiInst"
  BY <1>1, SentOne
<1>4. Head(Tail(Listen)).op = "GetRssiInst"
  <2> DEFINE s == Send("SetRx", "none")
             t == Send("GetRssiInst", "none")
  <2>1. Len(s \o t) = 2 /\ (s \o t)[2] = t[1] /\ t[1] = Head(t) /\ s \o t \in Seq(SetupCommand)
    BY <1>2, <1>3
  <2> HIDE DEF s, t
  <2>2. Head(Tail(s \o t)) = (s \o t)[2]
    BY <2>1
  <2> QED BY <1>3, <2>1, <2>2 DEF Listen, StartReceive, s, t
<1> QED BY <1>2, <1>4, SentBoth DEF Listen, StartReceive

-----------------------------------------------------------------------------
(* Every step of an owner, of the bus and of the chip.                     *)

SetupInv == SetupTyped /\ ProfileInv /\ ListenInv /\ DetectInv

LEMMA SetupStarts == SuInit => SetupInv
<1> SUFFICES ASSUME SuInit
             PROVE  SetupInv
  OBVIOUS
<1>1. suPlan = <<>> /\ Ops(suPlan) = {} /\ ToSet(suPlan) = {} /\ suPlan \in Seq(SetupCommand)
  BY SentNothing DEF SuInit
<1>2. suRadio \in SetupRadio
  BY DEF SuInit, SetupRadio, SetupMode, SetupValue, SetupMask
<1>3. SetupTyped
  BY <1>1, <1>2 DEF SuInit, SetupTyped
<1>4. ProfileInv /\ ListenInv /\ DetectInv
  BY <1>1 DEF SuInit, ProfileInv, SettingUp, ListenInv, DetectInv
<1> QED BY <1>3, <1>4 DEF SetupInv

LEMMA CallKeeps ==
  ASSUME SetupInv, NEW name \in SetupName, NEW p \in SuModem, Call(name, p)
  PROVE  SetupInv'
<1> USE DEF SetupInv
<1>0. suPlan = <<>> /\ suTaken' = TRUE /\ suRadio' = suRadio /\ suBroken' = suBroken
      /\ suCad' = [suCad EXCEPT !.tries = 0] /\ ~Detecting
  BY DEF Call, Detecting
<1>1. CASE name = "sleep" /\ suRadio.state # "StandbyRc"
  <2>1. suCall' = [name |-> name, arg |-> p, told |-> "Err"] /\ suPlan' = <<>>
    BY <1>0, <1>1 DEF Call
  <2>2. Ops(suPlan') = {}
    BY <2>1, SentNothing
  <2>3. SetupTyped'
    BY <1>0, <2>1, SentNothing DEF SetupTyped
  <2>4. ProfileInv'
    BY <2>1 DEF ProfileInv, SettingUp
  <2>5. ListenInv'
    BY <2>1, <2>2 DEF ListenInv
  <2>6. DetectInv'
    BY <1>0, <2>1, <2>2 DEF DetectInv, SetupTyped
  <2> QED BY <2>3, <2>4, <2>5, <2>6
<1>2. CASE ~(name = "sleep" /\ suRadio.state # "StandbyRc")
  <2>1. suCall' = [name |-> name, arg |-> p, told |-> "running"] /\ suPlan' = Commands(name, p)
    BY <1>2 DEF Call
  <2> DEFINE s == suPlan'
  <2>2. /\ s \in Seq(SetupCommand) /\ s # <<>>
        /\ "PollCad" \notin Ops(s) /\ ("GetRssiInst" \in Ops(s) => s = Listen)
        /\ (name \in {"configure", "switch"} => ToSet(s) \subseteq SetupCommands(p) /\ PartsOf(p) \subseteq Ops(s))
        /\ (name = "switch" => Head(s).op = "SetStandby")
    BY <2>1, PlanKnown
  <2>3. SetupTyped'
    BY <1>0, <2>1, <2>2 DEF SetupTyped
  <2>4. ProfileInv'
    BY <1>0, <2>1, <2>2 DEF ProfileInv, SettingUp
  <2>5. ListenInv'
    BY <2>1, <2>2 DEF ListenInv
  <2>6. DetectInv'
    BY <1>0, <2>1, <2>2 DEF DetectInv, SetupTyped
  <2> QED BY <2>3, <2>4, <2>5, <2>6
<1> QED BY <1>1, <1>2

LEMMA CommandKeeps ==
  ASSUME SetupInv, SendCommand
  PROVE  SetupInv'
<1> USE DEF SetupInv
<1> DEFINE c == Head(suPlan)
           e == Effect(suRadio, c)
<1>0. /\ suPlan # <<>> /\ c.op # "GetRssiInst" /\ ~Detecting /\ suCall.told = "running" /\ c.op # "PollCad"
      /\ suRadio' = e /\ suTaken' = (suTaken /\ (c.op \in SuSetting => Takes(suRadio)))
      /\ suCall' = [suCall EXCEPT !.told = IF suPlan' = <<>> THEN "Ok" ELSE @] /\ suBroken' = suBroken
  BY DEF SendCommand, Detecting, Measuring, SetupTyped
<1>1. c \in SetupCommand /\ c \in ToSet(suPlan) /\ Tail(suPlan) \in Seq(SetupCommand)
      /\ ToSet(suPlan) = {c} \cup ToSet(Tail(suPlan)) /\ Ops(suPlan) = {c.op} \cup Ops(Tail(suPlan))
  BY <1>0, SentHead DEF SetupTyped
<1>2. e \in SetupRadio /\ e.irq = suRadio.irq /\ (c.op = "SetRx" => e.mode = "Rx")
      /\ (c.op = "StartCad" => e.mode = "CAD") /\ (c.op # "StartCad" /\ suRadio.mode # "CAD" => e.mode # "CAD")
  BY <1>1, EffectTyped DEF SetupTyped
<1> HIDE DEF e
<1>3. CASE c.op = "StartCad"
  <2>1. suPlan' = Send("PollCad", "none") /\ suCad' = [suCad EXCEPT !.stale = suRadio.irq # {}]
    BY <1>3 DEF SendCommand
  <2>2. suPlan' \in Seq(SetupCommand) /\ suPlan' # <<>> /\ Head(suPlan').op = "PollCad" /\ Ops(suPlan') = {"PollCad"}
    <3>1. "PollCad" \in SetupOp /\ "none" \in SetupArg
      BY DEF SetupOp, SetupArg
    <3> QED BY <2>1, <3>1, SentOne
  <2>3. suCall' = suCall
    BY <1>0, <2>2 DEF SetupTyped
  <2>4. SetupTyped'
    BY <1>0, <1>2, <2>1, <2>2, <2>3 DEF SetupTyped
  <2>5. ~SettingUp
    BY <1>1, <1>3 DEF ProfileInv, SetupCommands, PartsOf
  <2>6. ProfileInv'
    BY <2>3, <2>5 DEF ProfileInv, SettingUp
  <2>7. ListenInv'
    BY <1>0, <2>2, <2>3 DEF ListenInv
  <2>8. DetectInv'
    BY <1>0, <1>2, <1>3, <2>1, <2>2, <2>3 DEF DetectInv, Detecting, SetupTyped
  <2> QED BY <2>4, <2>6, <2>7, <2>8
<1>4. CASE c.op # "StartCad"
  <2>1. suPlan' = Tail(suPlan) /\ suCad' = suCad
    BY <1>4 DEF SendCommand
  <2>2. suCall'.name = suCall.name /\ suCall'.arg = suCall.arg
        /\ suCall'.told \in {"running", "Ok"} /\ (suCall'.told = "running" <=> suPlan' # <<>>)
    BY <1>0 DEF SetupTyped
  <2>3. SetupTyped'
    BY <1>0, <1>1, <1>2, <2>1, <2>2 DEF SetupTyped
  <2>4. ProfileInv'
    <3> SUFFICES ASSUME SettingUp'
                 PROVE  ProfileInv'
      BY DEF ProfileInv
    <3> DEFINE p == suCall.arg
    <3>1. SettingUp
      BY <1>0, <2>2 DEF SettingUp
    <3>2. p \in SuModem /\ ToSet(suPlan) \subseteq SetupCommands(p) /\ c \in SetupCommands(p)
      BY <1>1, <3>1 DEF ProfileInv
    <3>3. /\ e.mode = IF c.op = "SetStandby" THEN "StandbyRc" ELSE suRadio.mode
          /\ \A op \in PartsOf(p) : PartSet(suRadio, op, p) /\ op # c.op => PartSet(e, op, p)
          /\ c.op \in PartsOf(p) /\ (c.op \in SuSetting => Takes(suRadio)) => PartSet(e, c.op, p)
      BY <3>2, EffectParts DEF SetupTyped, e
    <3>4. ToSet(suPlan') \subseteq SetupCommands(p)
      BY <1>1, <2>1, <3>2
    <3>5. suCall.name = "switch" => suTaken' /\ suRadio'.mode = "StandbyRc"
      BY <1>0, <3>1, <3>3 DEF ProfileInv, SuSetting, Takes
    <3>6. ASSUME suTaken', NEW op \in PartsOf(p) PROVE op \in Ops(suPlan') \/ PartSet(suRadio', op, p)
      <4>1. op \in Ops(suPlan) \/ PartSet(suRadio, op, p)
        BY <1>0, <3>1, <3>6 DEF ProfileInv
      <4> QED BY <1>0, <1>1, <2>1, <3>3, <3>6, <4>1
    <3>7. suCall'.arg = p /\ suCall'.name = suCall.name
      BY <2>2
    <3> QED BY <3>2, <3>4, <3>5, <3>6, <3>7 DEF ProfileInv
  <2>5. ListenInv'
    <3>1. ASSUME "GetRssiInst" \in Ops(suPlan') PROVE Head(suPlan').op = "GetRssiInst" /\ suRadio'.mode = "Rx"
      <4>1. "GetRssiInst" \in Ops(suPlan)
        BY <1>1, <2>1, <3>1
      <4>2. suPlan = Listen
        BY <1>0, <4>1 DEF ListenInv
      <4> QED BY <1>0, <1>2, <2>1, <4>2, ListenPlan
    <3> QED BY <2>2, <3>1 DEF ListenInv
  <2>6. DetectInv'
    <3>1. "PollCad" \notin Ops(suPlan')
      <4>1. "PollCad" \in SetupOp /\ "none" \in SetupArg
        BY DEF SetupOp, SetupArg
      <4>2. Head(Send("PollCad", "none")).op = "PollCad"
        BY <4>1, SentOne
      <4> QED BY <1>0, <1>1, <2>1, <4>2 DEF DetectInv
    <3> QED BY <1>0, <1>2, <1>4, <2>1, <3>1 DEF DetectInv
  <2> QED BY <2>3, <2>4, <2>5, <2>6
<1> QED BY <1>3, <1>4

(* What ends a method leaves nothing planned.                              *)
LEMMA EndKeeps ==
  ASSUME SetupInv, suPlan # <<>>, suPlan' = <<>>,
         suRadio' \in SetupRadio, suRadio'.mode = suRadio.mode, suRadio'.irq \in {{}, suRadio.irq},
         suCad' = suCad, suTaken' = suTaken,
         suBroken' \in BOOLEAN, suBroken => suBroken',
         Detecting => suBroken' \/ (suRadio'.irq = {} /\ suRadio.irq # {}),
         NEW told \in {"Err", "clear", "busy", "silent", "occupied"}, suCall' = [suCall EXCEPT !.told = told],
         told \in {"silent", "occupied"} => suRadio.mode = "Rx"
  PROVE  SetupInv'
<1> USE DEF SetupInv
<1>1. Ops(suPlan') = {}
  BY SentNothing
<1>2. SetupTyped'
  BY SentNothing DEF SetupTyped
<1>3. ProfileInv'
  BY DEF ProfileInv, SettingUp, SetupTyped
<1>4. ListenInv'
  BY <1>1 DEF ListenInv, SetupTyped
<1>5. DetectInv'
  BY <1>1 DEF DetectInv
<1> QED BY <1>2, <1>3, <1>4, <1>5

LEMMA FailureKeeps ==
  ASSUME SetupInv, SpiFails
  PROVE  SetupInv'
<1>1. suRadio \in SetupRadio /\ suBroken \in BOOLEAN
  BY DEF SetupInv, SetupTyped
<1> QED BY <1>1, EndKeeps DEF SpiFails, Detecting

LEMMA TimeoutKeeps ==
  ASSUME SetupInv, CadTimesOut
  PROVE  SetupInv'
<1>1. suRadio \in SetupRadio /\ suBroken \in BOOLEAN
  BY DEF SetupInv, SetupTyped
<1> QED BY <1>1, EndKeeps DEF CadTimesOut, Detecting

LEMMA HeardKeeps ==
  ASSUME SetupInv, NEW heard \in {"silent", "occupied"}, ListenAnswers(heard)
  PROVE  SetupInv'
<1>1. suRadio \in SetupRadio /\ suBroken \in BOOLEAN /\ suPlan \in Seq(SetupCommand)
  BY DEF SetupInv, SetupTyped
<1>2. suPlan # <<>> /\ Head(suPlan).op = "GetRssiInst" /\ ~Detecting
  BY DEF ListenAnswers, Measuring, Detecting
<1>3. "GetRssiInst" \in Ops(suPlan)
  BY <1>1, <1>2, SentHead
<1>4. suRadio.mode = "Rx"
  BY <1>2, <1>3, ListenPlan DEF SetupInv, ListenInv
<1> QED BY <1>1, <1>2, <1>4, EndKeeps DEF ListenAnswers

LEMMA AnswerKeeps ==
  ASSUME SetupInv, CadAnswered
  PROVE  SetupInv'
<1>0. /\ suPlan # <<>> /\ suCall.told = "running" /\ Detecting /\ Head(suPlan).op = "PollCad"
      /\ suRadio' = ClearedCad(suRadio) /\ suRadio.irq # {} /\ suTaken' = suTaken /\ suBroken' = suBroken
  BY DEF CadAnswered, Detecting
<1>1. suRadio \in SetupRadio /\ suBroken \in BOOLEAN /\ suPlan \in Seq(SetupCommand)
  BY DEF SetupInv, SetupTyped
<1>2. suRadio' = [suRadio EXCEPT !.irq = {}]
  BY <1>0, <1>1 DEF ClearedCad, SetupRadio
<1>3. suRadio' \in SetupRadio /\ suRadio'.mode = suRadio.mode /\ suRadio'.irq = {}
  BY <1>1, <1>2 DEF SetupRadio
<1> DEFINE detected == "CadDetected" \in suRadio.irq
           again    == detected /\ suCad.tries < SuRetries
<1>4. CASE ~again
  <2>1. suPlan' = <<>> /\ suCad' = suCad /\ suCall' = [suCall EXCEPT !.told = IF detected THEN "busy" ELSE "clear"]
    BY <1>4 DEF CadAnswered
  <2> QED BY <1>0, <1>1, <1>3, <2>1, EndKeeps
<1>5. CASE again
  <2>1. suPlan' = Send("StartCad", "none") /\ suCad' = [suCad EXCEPT !.tries = @ + 1] /\ suCall' = suCall
    BY <1>5 DEF CadAnswered
  <2>2. suPlan' \in Seq(SetupCommand) /\ suPlan' # <<>> /\ Ops(suPlan') = {"StartCad"}
    <3>1. "StartCad" \in SetupOp /\ "none" \in SetupArg
      BY DEF SetupOp, SetupArg
    <3> QED BY <2>1, <3>1, SentOne
  <2>3. SetupTyped'
    BY <1>0, <1>3, <2>1, <2>2 DEF SetupInv, SetupTyped
  <2>4. ~SettingUp
    <3>1. Head(suPlan) \in ToSet(suPlan)
      BY <1>0, <1>1, SentHead
    <3> QED BY <1>0, <3>1 DEF SetupInv, ProfileInv, SetupCommands, PartsOf
  <2>5. ProfileInv'
    BY <2>1, <2>4 DEF ProfileInv, SettingUp
  <2>6. ListenInv'
    BY <1>0, <2>1, <2>2 DEF ListenInv
  <2>7. DetectInv'
    BY <1>0, <1>3, <2>1, <2>2 DEF SetupInv, SetupTyped, DetectInv
  <2> QED BY <2>3, <2>5, <2>6, <2>7 DEF SetupInv
<1> QED BY <1>4, <1>5

LEMMA ChipKeeps ==
  ASSUME SetupInv, NEW activity \in BOOLEAN, CadEnds(activity)
  PROVE  SetupInv'
<1> DEFINE raised == {"CadDone"} \cup (IF activity THEN {"CadDetected"} ELSE {})
<1>0. /\ suRadio.mode = "CAD" /\ suRadio' = [suRadio EXCEPT !.mode = "StandbyRc", !.irq = @ \cup (raised \cap suRadio.mask)]
      /\ suCall' = suCall /\ suPlan' = suPlan /\ suTaken' = suTaken /\ suCad' = suCad /\ suBroken' = suBroken
  BY DEF CadEnds
<1>1. raised \subseteq CadBits
  BY DEF CadBits
<1> HIDE DEF raised
<1>2. suRadio \in SetupRadio
  BY DEF SetupInv, SetupTyped
<1>3. suRadio' \in SetupRadio /\ suRadio'.mode = "StandbyRc"
  BY <1>0, <1>1, <1>2 DEF SetupRadio, SetupMode
<1>4. \A op, p : PartSet(suRadio, op, p) => PartSet(suRadio', op, p)
  BY <1>0, <1>2 DEF SetupRadio, PartSet
<1>5. SetupTyped'
  BY <1>0, <1>3 DEF SetupInv, SetupTyped
<1>6. ProfileInv'
  BY <1>0, <1>3, <1>4 DEF SetupInv, ProfileInv, SettingUp
<1>7. ListenInv'
  BY <1>0 DEF SetupInv, ListenInv
<1>8. DetectInv'
  BY <1>0, <1>3 DEF SetupInv, DetectInv, Detecting
<1> QED BY <1>5, <1>6, <1>7, <1>8 DEF SetupInv

LEMMA SetupSteps == SetupInv /\ [SuNext]_suVars => SetupInv'
<1> SUFFICES ASSUME SetupInv, [SuNext]_suVars
             PROVE  SetupInv'
  OBVIOUS
<1>1. ASSUME NEW name \in SetupName, NEW p \in SuModem, Call(name, p) PROVE SetupInv'
  BY <1>1, CallKeeps
<1>2. CASE SendCommand
  BY <1>2, CommandKeeps
<1>3. CASE SpiFails
  BY <1>3, FailureKeeps
<1>4. CASE CadAnswered
  BY <1>4, AnswerKeeps
<1>5. CASE CadTimesOut
  BY <1>5, TimeoutKeeps
<1>6. ASSUME NEW activity \in BOOLEAN, CadEnds(activity) PROVE SetupInv'
  BY <1>6, ChipKeeps
<1>7. ASSUME NEW heard \in {"silent", "occupied"}, ListenAnswers(heard) PROVE SetupInv'
  BY <1>7, HeardKeeps
<1>8. CASE UNCHANGED suVars
  BY <1>8 DEF suVars, SetupInv, SetupTyped, ProfileInv, SettingUp, ListenInv, DetectInv, Detecting
<1> QED BY <1>1, <1>2, <1>3, <1>4, <1>5, <1>6, <1>7, <1>8 DEF SuNext, SetupName

LEMMA SetupHolds == SetupInv => SetupSound
<1> SUFFICES ASSUME SetupInv
             PROVE  SetupSound
  OBVIOUS
<1>1. ASSUME suCall.told = "Ok", suCall.name = "switch" \/ (suCall.name = "configure" /\ suTaken)
      PROVE  SetUpFor(suRadio, suCall.arg)
  <2>1. suPlan = <<>> /\ SettingUp
    BY <1>1 DEF SetupInv, SetupTyped, SettingUp
  <2>2. suTaken /\ \A op \in PartsOf(suCall.arg) : PartSet(suRadio, op, suCall.arg)
    BY <1>1, <2>1, SentNothing DEF SetupInv, ProfileInv
  <2> QED BY <2>2 DEF SetUpFor, PartsOf, PartSet, SuSetting
<1>2. SwitchIsWhole
  BY <1>1 DEF SwitchIsWhole
<1>3. ListensInRx
  BY DEF SetupInv, ListenInv, ListensInRx
<1>4. CadAnswersItself
  BY DEF SetupInv, DetectInv, CadAnswersItself
<1> QED BY <1>2, <1>3, <1>4 DEF SetupSound

-----------------------------------------------------------------------------
(* The owner of an RFM69.                                                   *)

(* The modes, settings and accesses.                                       *)
RoMode    == {"Sleep", "Standby", "Rx"}
RoChip    == [mode : RoMode, level : BOOLEAN, set : {"other", "reset", "some", "wmbus"}, aes : BOOLEAN, net : BOOLEAN]
RoSetup   == [reset : BOOLEAN, irq : BOOLEAN, key : {"none", "hex32", "invalid"}, net : BOOLEAN]
RoName    == {"initialize", "start_receive", "stop_receive", "sleep", "transmit", "shutdown", "drop"}
RoBare    == {"Reset", "Verify", "Standby", "Network", "Spawn", "Drain", "RestartRx", "Stop", "Join", "Abort"}
RoOp      == RoBare \cup {"Mode", "Ready", "Record", "Set", "Aes", "Refuse"}
RoArg     == RoMode \cup {"none", "some", "wmbus", "on", "key", "TX not implemented"}
RoAccess  ==
  {c \in [op : RoOp, arg : RoArg] :
     /\ c.op \in RoBare => c.arg = "none"
     /\ c.op \in {"Mode", "Ready", "Record"} => c.arg \in RoMode
     /\ c.op = "Set" => c.arg \in {"some", "wmbus"}
     /\ c.op = "Aes" => c.arg = "on"}

(* The order in which every call makes its accesses.                       *)
Rank(c) ==
  CASE c.op = "Reset"   -> 1
    [] c.op = "Verify"  -> 2
    [] c.op = "Standby" -> 3
    [] c.op = "Set"     -> IF c.arg = "some" THEN 4 ELSE 5
    [] c.op = "Aes"     -> 6
    [] c.op = "Refuse"  -> IF c.arg = "key" THEN 6 ELSE 12
    [] c.op \in {"Network", "Stop"} -> 7
    [] c.op \in {"Spawn", "Drain", "Join", "Abort"} -> 8
    [] c.op = "Mode"    -> 9
    [] c.op = "Ready"   -> 10
    [] c.op = "Record"  -> 11
    [] c.op = "RestartRx" -> 12
InTurn(s) == \A i, j \in DOMAIN s : i < j => Rank(s[i]) < Rank(s[j])
Awaited    == ToSet(roPlan)
Beyond(n)   == \A c \in Awaited : Rank(c) > n

OwnerTyped ==
  /\ roChip \in RoChip /\ roConfig \in RoSetup /\ roCurrent \in RoMode
  /\ roTasks \in Seq({"poll", "burst", "rearm", "ended"}) /\ roTask \in {0, Len(roTasks)}
  /\ roCall \in [name : RoName \cup {"new"}, found : RoMode, told : {"running", "Ok", "Err"}]
  /\ roPlan \in Seq(RoAccess) /\ InTurn(roPlan)
  /\ roCall.told = "running" <=> roPlan # <<>>

Recording  == Beyond(9) /\ \E c \in Awaited : c.op = "Record"

(* A mode is written, waited for and recorded in one go.                    *)
ModeInv ==
  /\ \A c \in Awaited : c.op = "Mode" => [op |-> "Record", arg |-> c.arg] \in Awaited
  /\ \A c \in Awaited : c.op = "Record" => [op |-> "Mode", arg |-> c.arg] \in Awaited \/ Beyond(9)
  /\ roWriter = "set_mode" =>
       IF Recording THEN [op |-> "Record", arg |-> roChip.mode] \in Awaited ELSE roChip.mode = roCurrent

(* What an initialize() has not done it has still to do.                    *)
InitInv ==
  roCall.name = "initialize" /\ roCall.told # "Err" =>
    /\ [op |-> "Network", arg |-> "none"] \in Awaited => roConfig.net
    /\ \/ [op |-> "Set", arg |-> "wmbus"] \in Awaited /\ (roConfig.net => [op |-> "Network", arg |-> "none"] \in Awaited)
       \/ Beyond(5) /\ roChip.set = "wmbus" /\ (roChip.net <=> roConfig.net /\ [op |-> "Network", arg |-> "none"] \notin Awaited)
    /\ roConfig.key = "hex32" => [op |-> "Aes", arg |-> "on"] \in Awaited \/ (roChip.aes /\ Beyond(6))
    /\ roConfig.key = "none" /\ roConfig.reset =>
         [op |-> "Aes", arg |-> "on"] \notin Awaited /\ ([op |-> "Reset", arg |-> "none"] \in Awaited \/ ~roChip.aes)
    /\ roCall.found # "Rx" => [op |-> "Mode", arg |-> "Rx"] \in Awaited
                              \/ (Beyond(9) /\ (roChip.mode = "Rx" \/ roWriter = "task"))

(* The last task is the one there is a handle of, or is over.               *)
TaskInv ==
  /\ roTask # 0 \/ Len(roTasks) = 0 \/ roTasks[Len(roTasks)] = "ended" \/ roCall.name = "drop"
  /\ \A c \in Awaited : c.op = "Spawn" => roCall.name = "initialize"
  /\ \A c \in Awaited : c.op = "Abort" => roCall.name = "drop"
  /\ roCall.name = "shutdown" =>
       /\ Awaited \subseteq {c \in RoAccess : c.op \in {"Stop", "Join", "Mode", "Ready", "Record"}}
       /\ roTask = 0 \/ [op |-> "Join", arg |-> "none"] \in Awaited

OwnerInv == OwnerTyped /\ ModeInv /\ InitInv /\ TaskInv


-----------------------------------------------------------------------------
(* Ranks.                                                                  *)

LEMMA RankOf ==
  ASSUME NEW c \in RoAccess
  PROVE  /\ Rank(c) \in 1..12
         /\ c.op = "Mode" <=> Rank(c) = 9
         /\ c.op = "Ready" <=> Rank(c) = 10
         /\ c.op = "Record" <=> Rank(c) = 11
         /\ c = [op |-> "Set", arg |-> "wmbus"] <=> Rank(c) = 5
         /\ c.op = "Network" => Rank(c) = 7
         /\ c.op = "Aes" => Rank(c) = 6
         /\ c.op \in {"Reset", "Verify", "Standby"} => Rank(c) <= 3
         /\ c.op \in {"Stop", "Join", "Spawn", "Drain", "Abort"} => Rank(c) \in {7, 8}
         /\ c.op = "Set" => Rank(c) <= 5
         /\ c.op = "RestartRx" => Rank(c) = 12
         /\ c.op = "Join" => Rank(c) = 8
<1>0. /\ c.op \in {"Reset", "Verify", "Standby", "Network", "Spawn", "Drain", "RestartRx", "Stop", "Join", "Abort",
                 "Mode", "Ready", "Record", "Aes", "Set", "Refuse"}
      /\ c = [op |-> "Set", arg |-> "wmbus"] <=> c.op = "Set" /\ c.arg # "some"
  BY DEF RoAccess, RoOp, RoBare
<1>1. /\ c.op = "Reset" => Rank(c) = 1
      /\ c.op = "Verify" => Rank(c) = 2
      /\ c.op = "Standby" => Rank(c) = 3
      /\ c.op = "Set" => Rank(c) = IF c.arg = "some" THEN 4 ELSE 5
      /\ c.op = "Aes" => Rank(c) = 6
      /\ c.op = "Refuse" => Rank(c) = IF c.arg = "key" THEN 6 ELSE 12
  BY DEF Rank
<1>2. /\ c.op \in {"Network", "Stop"} => Rank(c) = 7
      /\ c.op \in {"Spawn", "Drain", "Join", "Abort"} => Rank(c) = 8
      /\ c.op = "Mode" => Rank(c) = 9
      /\ c.op = "Ready" => Rank(c) = 10
      /\ c.op = "Record" => Rank(c) = 11
      /\ c.op = "RestartRx" => Rank(c) = 12
  BY DEF Rank
<1>3. Rank(c) \in 1..12
  BY <1>0, <1>1, <1>2
<1>4. (Rank(c) = 9 => c.op = "Mode") /\ (Rank(c) = 10 => c.op = "Ready") /\ (Rank(c) = 11 => c.op = "Record")
  BY <1>0, <1>1, <1>2
<1>5. Rank(c) = 5 <=> c.op = "Set" /\ c.arg # "some"
  BY <1>0, <1>1, <1>2
<1> QED BY <1>0, <1>1, <1>2, <1>3, <1>4, <1>5

(* An access is known by its name and its argument.                         *)
LEMMA AccessIs ==
  ASSUME NEW c \in RoAccess
  PROVE  /\ c = [op |-> c.op, arg |-> c.arg]
         /\ c.op \in {"Mode", "Ready", "Record"} => c.arg \in RoMode
         /\ c.op \in {"Reset", "Network", "Join"} => c.arg = "none"
         /\ c.op = "Aes" => c.arg = "on"
BY DEF RoAccess, RoBare

LEMMA OrderedRest ==
  ASSUME NEW s \in Seq(RoAccess), InTurn(s), s # <<>>
  PROVE  /\ InTurn(Tail(s)) /\ \A d \in ToSet(Tail(s)) : d \in RoAccess /\ Rank(Head(s)) < Rank(d)
         /\ ToSet(Tail(s)) = ToSet(s) \ {Head(s)}
<1>1. Head(s) = s[1] /\ 1 \in DOMAIN s /\ Tail(s) \in Seq(RoAccess) /\ Head(s) \in RoAccess
  OBVIOUS
<1>2. \A i \in DOMAIN Tail(s) : i \in Nat /\ i >= 1 /\ i + 1 \in DOMAIN s /\ Tail(s)[i] = s[i + 1] /\ Tail(s)[i] \in RoAccess
  OBVIOUS
<1>3. InTurn(Tail(s))
  BY <1>2 DEF InTurn
<1>4. \A d \in ToSet(Tail(s)) : d \in RoAccess /\ Rank(Head(s)) < Rank(d)
  BY <1>1, <1>2 DEF InTurn, ToSet
<1>5. Rank(Head(s)) \in 1..12
  BY <1>1, RankOf
<1>6. Head(s) \notin ToSet(Tail(s))
  BY <1>4, <1>5
<1> QED BY <1>3, <1>4, <1>6, RestSet

LEMMA OrderedBoth ==
  ASSUME NEW s \in Seq(RoAccess), NEW t \in Seq(RoAccess), InTurn(s), InTurn(t),
         \A c \in ToSet(s), d \in ToSet(t) : Rank(c) < Rank(d)
  PROVE  InTurn(s \o t)
<1>1. \A i \in DOMAIN s : s[i] \in ToSet(s) /\ i \in 1..Len(s)
  BY DEF ToSet
<1>2. \A i \in DOMAIN t : t[i] \in ToSet(t) /\ i \in 1..Len(t)
  BY DEF ToSet
<1>3. \A i \in DOMAIN (s \o t) : (i \in DOMAIN s /\ (s \o t)[i] = s[i])
                                 \/ (i - Len(s) \in DOMAIN t /\ (s \o t)[i] = t[i - Len(s)])
  OBVIOUS
<1>4. DOMAIN (s \o t) \subseteq Nat /\ DOMAIN s = 1..Len(s) /\ DOMAIN t = 1..Len(t) /\ Len(s) \in Nat /\ Len(t) \in Nat
  OBVIOUS
<1> SUFFICES ASSUME NEW i \in DOMAIN (s \o t), NEW j \in DOMAIN (s \o t), i < j
             PROVE  Rank((s \o t)[i]) < Rank((s \o t)[j])
  BY DEF InTurn
<1>5. CASE i \in DOMAIN s /\ j \in DOMAIN s
  <2>1. (s \o t)[i] = s[i] /\ (s \o t)[j] = s[j]
    BY <1>5
  <2> QED BY <1>5, <2>1 DEF InTurn
<1>6. CASE i \in DOMAIN s /\ j \notin DOMAIN s
  <2>1. (s \o t)[i] = s[i] /\ j - Len(s) \in DOMAIN t /\ (s \o t)[j] = t[j - Len(s)]
    BY <1>3, <1>6
  <2> QED BY <1>1, <1>2, <1>6, <2>1
<1>7. CASE i \notin DOMAIN s
  <2>1. j \notin DOMAIN s
    BY <1>4, <1>7
  <2>2. i - Len(s) \in DOMAIN t /\ (s \o t)[i] = t[i - Len(s)] /\ j - Len(s) \in DOMAIN t /\ (s \o t)[j] = t[j - Len(s)]
    BY <1>3, <1>7, <2>1
  <2>3. i - Len(s) < j - Len(s)
    BY <1>4
  <2> QED BY <2>2, <2>3 DEF InTurn
<1> QED BY <1>5, <1>6, <1>7

(* Accesses of one rank are one access.                                     *)
LEMMA OneOfARank ==
  ASSUME NEW s \in Seq(RoAccess), InTurn(s)
  PROVE  \A c, d \in ToSet(s) : c \in RoAccess /\ (Rank(c) = Rank(d) => c = d)
<1> SUFFICES ASSUME NEW i \in DOMAIN s, NEW j \in DOMAIN s
             PROVE  s[i] \in RoAccess /\ (Rank(s[i]) = Rank(s[j]) => s[i] = s[j])
  BY DEF ToSet
<1>1. s[i] \in RoAccess /\ s[j] \in RoAccess /\ i \in Nat /\ j \in Nat
  OBVIOUS
<1>2. Rank(s[i]) \in 1..12 /\ Rank(s[j]) \in 1..12
  BY <1>1, RankOf
<1>3. i < j \/ j < i \/ i = j
  BY <1>1
<1> QED BY <1>1, <1>2, <1>3 DEF InTurn

-----------------------------------------------------------------------------
(* What a call plans: each access once, in the order of Rank.               *)

Plans(t, S, lo, hi) ==
  t \in Seq(RoAccess) /\ InTurn(t) /\ ToSet(t) = S /\ \A c \in S : lo <= Rank(c) /\ Rank(c) <= hi
The(o, a)  == [op |-> o, arg |-> a]
ModeSet(m) ==
  IF roCurrent = m THEN {}
  ELSE {The("Mode", m), The("Record", m)} \cup (IF roCurrent = "Sleep" THEN {The("Ready", m)} ELSE {})

LEMMA PlansNone == \A lo, hi \in Nat : Plans(<<>>, {}, lo, hi)
BY DEF Plans, InTurn, ToSet

LEMMA PlansOne ==
  ASSUME NEW o, NEW a, The(o, a) \in RoAccess, NEW n \in Nat, Rank(The(o, a)) = n
  PROVE  Plans(Access(o, a), {The(o, a)}, n, n)
<1>1. Access(o, a) \in Seq(RoAccess) /\ ToSet(Access(o, a)) = {The(o, a)}
  BY DEF Access, The, ToSet
<1>2. InTurn(Access(o, a))
  BY DEF Access, InTurn
<1> QED BY <1>1, <1>2 DEF Plans

LEMMA PlansBoth ==
  ASSUME NEW s, NEW t, NEW S, NEW T, NEW lo \in Nat, NEW m \in Nat, NEW n \in Nat, NEW hi \in Nat,
         Plans(s, S, lo, m), Plans(t, T, n, hi), lo <= n, m < n, m <= hi
  PROVE  Plans(s \o t, S \cup T, lo, hi)
<1>1. s \o t \in Seq(RoAccess) /\ ToSet(s \o t) = S \cup T
  BY JoinedSet DEF Plans
<1>2. \A c \in S \cup T : c \in RoAccess /\ Rank(c) \in Nat
  BY OneOfARank, RankOf DEF Plans
<1>3. InTurn(s \o t)
  BY <1>2, OrderedBoth DEF Plans
<1> QED BY <1>1, <1>2, <1>3 DEF Plans

LEMMA PlansWhen ==
  ASSUME NEW b \in BOOLEAN, NEW t, NEW S, NEW lo \in Nat, NEW hi \in Nat, Plans(t, S, lo, hi)
  PROVE  Plans(When(b, t), IF b THEN S ELSE {}, lo, hi)
BY PlansNone DEF When

LEMMA Ranks ==
  /\ \A o \in {"Reset", "Verify", "Standby", "Network", "Spawn", "Drain", "RestartRx", "Stop", "Join", "Abort"} :
       The(o, "none") \in RoAccess
  /\ \A m \in RoMode : /\ The("Mode", m) \in RoAccess /\ Rank(The("Mode", m)) = 9
                       /\ The("Ready", m) \in RoAccess /\ Rank(The("Ready", m)) = 10
                       /\ The("Record", m) \in RoAccess /\ Rank(The("Record", m)) = 11
  /\ Rank(The("Reset", "none")) = 1 /\ Rank(The("Verify", "none")) = 2 /\ Rank(The("Standby", "none")) = 3
  /\ Rank(The("Network", "none")) = 7 /\ Rank(The("Stop", "none")) = 7 /\ Rank(The("Spawn", "none")) = 8
  /\ Rank(The("Drain", "none")) = 8 /\ Rank(The("Join", "none")) = 8 /\ Rank(The("Abort", "none")) = 8
  /\ Rank(The("RestartRx", "none")) = 12
  /\ The("Set", "some") \in RoAccess /\ Rank(The("Set", "some")) = 4
  /\ The("Set", "wmbus") \in RoAccess /\ Rank(The("Set", "wmbus")) = 5
  /\ The("Aes", "on") \in RoAccess /\ Rank(The("Aes", "on")) = 6
  /\ The("Refuse", "key") \in RoAccess /\ Rank(The("Refuse", "key")) = 6
  /\ The("Refuse", "TX not implemented") \in RoAccess /\ Rank(The("Refuse", "TX not implemented")) = 12
<1>1. \A o \in RoBare : The(o, "none") \in RoAccess
  BY DEF The, RoAccess, RoOp, RoArg, RoBare
<1>2. \A m \in RoMode : The("Mode", m) \in RoAccess /\ The("Ready", m) \in RoAccess /\ The("Record", m) \in RoAccess
  BY DEF The, RoAccess, RoOp, RoArg, RoBare
<1>3. /\ The("Set", "some") \in RoAccess /\ The("Set", "wmbus") \in RoAccess /\ The("Aes", "on") \in RoAccess
      /\ The("Refuse", "key") \in RoAccess /\ The("Refuse", "TX not implemented") \in RoAccess
  BY DEF The, RoAccess, RoOp, RoArg, RoBare
<1>4. \A m : Rank(The("Mode", m)) = 9 /\ Rank(The("Ready", m)) = 10 /\ Rank(The("Record", m)) = 11
  BY DEF The, Rank
<1>5. /\ Rank(The("Reset", "none")) = 1 /\ Rank(The("Verify", "none")) = 2 /\ Rank(The("Standby", "none")) = 3
      /\ Rank(The("Network", "none")) = 7 /\ Rank(The("Stop", "none")) = 7 /\ Rank(The("Spawn", "none")) = 8
      /\ Rank(The("Drain", "none")) = 8 /\ Rank(The("Join", "none")) = 8 /\ Rank(The("Abort", "none")) = 8
      /\ Rank(The("RestartRx", "none")) = 12
  BY DEF The, Rank
<1>6. /\ Rank(The("Set", "some")) = 4 /\ Rank(The("Set", "wmbus")) = 5 /\ Rank(The("Aes", "on")) = 6
      /\ Rank(The("Refuse", "key")) = 6 /\ Rank(The("Refuse", "TX not implemented")) = 12
  BY DEF The, Rank
<1> QED BY <1>1, <1>2, <1>3, <1>4, <1>5, <1>6 DEF RoBare

LEMMA ModePlans ==
  ASSUME NEW m \in RoMode
  PROVE  Plans(ModePlan(m), ModeSet(m), 9, 11)
<1>1. /\ Plans(Access("Mode", m), {The("Mode", m)}, 9, 9) /\ Plans(Access("Ready", m), {The("Ready", m)}, 10, 10)
      /\ Plans(Access("Record", m), {The("Record", m)}, 11, 11)
  BY Ranks, PlansOne
<1> DEFINE R == IF roCurrent = "Sleep" THEN {The("Ready", m)} ELSE {}
<1>2. Plans(When(roCurrent = "Sleep", Access("Ready", m)), R, 10, 10)
  BY <1>1, PlansWhen
<1>3. Plans(Access("Mode", m) \o When(roCurrent = "Sleep", Access("Ready", m)), {The("Mode", m)} \cup R, 9, 10)
  BY <1>1, <1>2, PlansBoth
<1> DEFINE t == Access("Mode", m) \o When(roCurrent = "Sleep", Access("Ready", m)) \o Access("Record", m)
           S == {The("Mode", m)} \cup R \cup {The("Record", m)}
<1>4. Plans(t, S, 9, 11)
  BY <1>1, <1>3, PlansBoth
<1> HIDE DEF t, S
<1>5. Plans(When(roCurrent # m, t), IF roCurrent # m THEN S ELSE {}, 9, 11)
  BY <1>4, PlansWhen
<1>6. ModeSet(m) = IF roCurrent # m THEN S ELSE {}
  BY DEF ModeSet, S
<1> QED BY <1>5, <1>6 DEF ModePlan, t

InitializeSet(config) ==
  (IF config.reset THEN {The("Reset", "none")} ELSE {}) \cup {The("Verify", "none")}
  \cup {The("Standby", "none"), The("Set", "some"), The("Set", "wmbus")}
  \cup (CASE config.key = "none" -> {} [] config.key = "hex32" -> {The("Aes", "on")}
          [] config.key = "invalid" -> {The("Refuse", "key")})
  \cup (IF config.net THEN {The("Network", "none")} ELSE {})
  \cup (IF config.irq THEN {The("Spawn", "none")} ELSE {}) \cup ModeSet("Rx")

LEMMA InitializePlans ==
  ASSUME NEW config \in RoSetup
  PROVE  Plans(InitializePlan(config), InitializeSet(config), 1, 11)
<1>0. config.reset \in BOOLEAN /\ config.net \in BOOLEAN /\ config.irq \in BOOLEAN
      /\ config.key \in {"none", "hex32", "invalid"} /\ "Rx" \in RoMode
  BY DEF RoSetup, RoMode
<1> DEFINE r == When(config.reset, Access("Reset", "none"))
           v == Access("Verify", "none")
           k == ConfigureAes(config.key)
           n == When(config.net, Access("Network", "none"))
           w == When(config.irq, Access("Spawn", "none"))
           R == IF config.reset THEN {The("Reset", "none")} ELSE {}
           V == {The("Verify", "none")}
           C == {The("Standby", "none"), The("Set", "some"), The("Set", "wmbus")}
           K == CASE config.key = "none" -> {} [] config.key = "hex32" -> {The("Aes", "on")}
                  [] config.key = "invalid" -> {The("Refuse", "key")}
           N == IF config.net THEN {The("Network", "none")} ELSE {}
           W == IF config.irq THEN {The("Spawn", "none")} ELSE {}
<1>1. Plans(r, R, 1, 1)
  BY <1>0, Ranks, PlansOne, PlansWhen
<1>2. Plans(v, V, 2, 2)
  BY Ranks, PlansOne
<1>3. Plans(Configure, C, 3, 5)
  <2>1. /\ Plans(Access("Standby", "none"), {The("Standby", "none")}, 3, 3)
        /\ Plans(Access("Set", "some"), {The("Set", "some")}, 4, 4)
        /\ Plans(Access("Set", "wmbus"), {The("Set", "wmbus")}, 5, 5)
    BY Ranks, PlansOne
  <2>2. Plans(Access("Standby", "none") \o Access("Set", "some"), {The("Standby", "none")} \cup {The("Set", "some")}, 3, 4)
    BY <2>1, PlansBoth
  <2>3. Plans(Configure, {The("Standby", "none")} \cup {The("Set", "some")} \cup {The("Set", "wmbus")}, 3, 5)
    BY <2>1, <2>2, PlansBoth DEF Configure
  <2>4. {The("Standby", "none")} \cup {The("Set", "some")} \cup {The("Set", "wmbus")} = C
    OBVIOUS
  <2> QED BY <2>3, <2>4
<1>4. Plans(k, K, 6, 6)
  <2>1. Plans(Access("Aes", "on"), {The("Aes", "on")}, 6, 6) /\ Plans(Access("Refuse", "key"), {The("Refuse", "key")}, 6, 6)
        /\ Plans(<<>>, {}, 6, 6)
    BY Ranks, PlansOne, PlansNone
  <2>2. CASE config.key = "none"
    BY <2>1, <2>2 DEF ConfigureAes
  <2>3. CASE config.key = "hex32"
    BY <2>1, <2>3 DEF ConfigureAes
  <2>4. CASE config.key = "invalid"
    BY <2>1, <2>4 DEF ConfigureAes
  <2> QED BY <1>0, <2>2, <2>3, <2>4
<1>5. Plans(n, N, 7, 7)
  BY <1>0, Ranks, PlansOne, PlansWhen
<1>6. Plans(w, W, 8, 8)
  BY <1>0, Ranks, PlansOne, PlansWhen
<1>7. Plans(ModePlan("Rx"), ModeSet("Rx"), 9, 11)
  BY <1>0, ModePlans
<1> HIDE DEF r, v, k, n, w, R, V, C, K, N, W
<1>8. Plans(r \o v, R \cup V, 1, 2)
  BY <1>1, <1>2, PlansBoth
<1>9. Plans(r \o v \o Configure, R \cup V \cup C, 1, 5)
  BY <1>8, <1>3, PlansBoth
<1>10. Plans(r \o v \o Configure \o k, R \cup V \cup C \cup K, 1, 6)
  BY <1>9, <1>4, PlansBoth
<1>11. Plans(r \o v \o Configure \o k \o n, R \cup V \cup C \cup K \cup N, 1, 7)
  BY <1>10, <1>5, PlansBoth
<1>12. Plans(r \o v \o Configure \o k \o n \o w, R \cup V \cup C \cup K \cup N \cup W, 1, 8)
  BY <1>11, <1>6, PlansBoth
<1>13. Plans(r \o v \o Configure \o k \o n \o w \o ModePlan("Rx"), R \cup V \cup C \cup K \cup N \cup W \cup ModeSet("Rx"), 1, 11)
  BY <1>12, <1>7, PlansBoth
<1> QED BY <1>13 DEF InitializePlan, InitializeSet, r, v, k, n, w, R, V, C, K, N, W

(* What the other calls plan.                                              *)
PlanSet(name, config) ==
  CASE name = "initialize"    -> InitializeSet(config)
    [] name = "start_receive" -> {The("Drain", "none")} \cup ModeSet("Rx") \cup {The("RestartRx", "none")}
    [] name = "stop_receive"  -> ModeSet("Standby")
    [] name = "sleep"         -> ModeSet("Sleep")
    [] name = "transmit"      -> ModeSet("Standby") \cup {The("Refuse", "TX not implemented")}
    [] name = "shutdown"      -> (IF roTask # 0 THEN {The("Stop", "none")} \cup {The("Join", "none")} ELSE {}) \cup ModeSet("Sleep")
    [] name = "drop"          -> IF roTask # 0 THEN {The("Stop", "none")} \cup {The("Abort", "none")} ELSE {}

LEMMA PlanPlans ==
  ASSUME NEW name \in RoName, NEW config \in RoSetup
  PROVE  Plans(Plan(name, config), PlanSet(name, config), 1, 12)
<1>0. /\ Plans(ModePlan("Rx"), ModeSet("Rx"), 9, 11) /\ Plans(ModePlan("Standby"), ModeSet("Standby"), 9, 11)
      /\ Plans(ModePlan("Sleep"), ModeSet("Sleep"), 9, 11)
  BY ModePlans DEF RoMode
<1>1. \A t, S : \A lo, hi \in 1..12 : Plans(t, S, lo, hi) => Plans(t, S, 1, 12)
  <2> SUFFICES ASSUME NEW t, NEW S, NEW lo \in 1..12, NEW hi \in 1..12, Plans(t, S, lo, hi)
               PROVE  Plans(t, S, 1, 12)
    OBVIOUS
  <2>1. \A c \in S : Rank(c) \in 1..12
    BY OneOfARank, RankOf DEF Plans
  <2> QED BY <2>1 DEF Plans
<1>2. /\ Plans(Access("Drain", "none"), {The("Drain", "none")}, 8, 8)
      /\ Plans(Access("RestartRx", "none"), {The("RestartRx", "none")}, 12, 12)
      /\ Plans(Access("Refuse", "TX not implemented"), {The("Refuse", "TX not implemented")}, 12, 12)
      /\ Plans(Access("Stop", "none"), {The("Stop", "none")}, 7, 7)
      /\ Plans(Access("Join", "none"), {The("Join", "none")}, 8, 8)
      /\ Plans(Access("Abort", "none"), {The("Abort", "none")}, 8, 8)
  BY Ranks, PlansOne
<1>3. CASE name = "initialize"
  BY <1>1, <1>3, InitializePlans DEF Plan, PlanSet
<1>4. CASE name = "start_receive"
  <2>1. Plans(Access("Drain", "none") \o ModePlan("Rx"), {The("Drain", "none")} \cup ModeSet("Rx"), 8, 11)
    <3>1. Plans(Access("Drain", "none"), {The("Drain", "none")}, 8, 8) /\ Plans(ModePlan("Rx"), ModeSet("Rx"), 9, 11)
      BY <1>0, <1>2
    <3> QED BY <3>1, PlansBoth
  <2>2. Plans(StartPlan, {The("Drain", "none")} \cup ModeSet("Rx") \cup {The("RestartRx", "none")}, 8, 12)
    <3>1. Plans(Access("RestartRx", "none"), {The("RestartRx", "none")}, 12, 12)
      BY <1>2
    <3> QED BY <2>1, <3>1, PlansBoth DEF StartPlan
  <2> QED BY <1>1, <1>4, <2>2 DEF Plan, PlanSet
<1>5. CASE name = "stop_receive"
  BY <1>0, <1>1, <1>5 DEF Plan, PlanSet
<1>6. CASE name = "sleep"
  BY <1>0, <1>1, <1>6 DEF Plan, PlanSet
<1>7. CASE name = "transmit"
  <2> DEFINE t == Access("Refuse", "TX not implemented")
             S == {The("Refuse", "TX not implemented")}
  <2>1. Plans(ModePlan("Standby"), ModeSet("Standby"), 9, 11) /\ Plans(t, S, 12, 12)
    BY <1>0, <1>2
  <2>2. Plan(name, config) = ModePlan("Standby") \o t /\ PlanSet(name, config) = ModeSet("Standby") \cup S
    BY <1>7 DEF Plan, PlanSet
  <2> HIDE DEF t, S
  <2>3. Plans(ModePlan("Standby") \o t, ModeSet("Standby") \cup S, 9, 12)
    BY <2>1, PlansBoth
  <2> QED BY <1>1, <2>2, <2>3
<1>8. CASE name = "shutdown"
  <2> DEFINE t == Access("Stop", "none") \o Access("Join", "none")
             S == {The("Stop", "none")} \cup {The("Join", "none")}
  <2>1. Plans(t, S, 7, 8)
    <3>1. Plans(Access("Stop", "none"), {The("Stop", "none")}, 7, 7) /\ Plans(Access("Join", "none"), {The("Join", "none")}, 8, 8)
      BY <1>2
    <3> QED BY <3>1, PlansBoth
  <2> HIDE DEF t, S
  <2>2. Plans(When(roTask # 0, t), IF roTask # 0 THEN S ELSE {}, 7, 8)
    BY <2>1, PlansWhen
  <2>3. Plans(When(roTask # 0, t) \o ModePlan("Sleep"), (IF roTask # 0 THEN S ELSE {}) \cup ModeSet("Sleep"), 7, 11)
    BY <1>0, <2>2, PlansBoth
  <2> QED BY <1>1, <1>8, <2>3 DEF Plan, PlanSet, ShutdownPlan, t, S
<1>9. CASE name = "drop"
  <2> DEFINE t == Access("Stop", "none") \o Access("Abort", "none")
             S == {The("Stop", "none")} \cup {The("Abort", "none")}
  <2>1. Plans(t, S, 7, 8)
    <3>1. Plans(Access("Stop", "none"), {The("Stop", "none")}, 7, 7) /\ Plans(Access("Abort", "none"), {The("Abort", "none")}, 8, 8)
      BY <1>2
    <3> QED BY <3>1, PlansBoth
  <2> HIDE DEF t, S
  <2>2. Plans(When(roTask # 0, t), IF roTask # 0 THEN S ELSE {}, 7, 8)
    BY <2>1, PlansWhen
  <2> QED BY <1>1, <1>9, <2>2 DEF Plan, PlanSet, t, S
<1> QED BY <1>3, <1>4, <1>5, <1>6, <1>7, <1>8, <1>9 DEF RoName

-----------------------------------------------------------------------------
(* One access is made, and the call goes on to the next.                   *)

LEMMA GoesOn ==
  ASSUME OwnerTyped, NEW c, Goes(c)
  PROVE  /\ c \in Awaited /\ c \in RoAccess /\ roPlan # <<>> /\ c = Head(roPlan) /\ roCall.told = "running"
         /\ roPlan' \in Seq(RoAccess) /\ InTurn(roPlan') /\ Awaited' = Awaited \ {c}
         /\ \A d \in Awaited : d \in RoAccess /\ (Rank(c) = Rank(d) => c = d)
         /\ \A d \in Awaited' : Rank(c) < Rank(d)
         /\ roCall' \in [name : RoName \cup {"new"}, found : RoMode, told : {"running", "Ok", "Err"}]
         /\ roCall'.name = roCall.name /\ roCall'.found = roCall.found /\ roCall'.told # "Err"
         /\ (roCall'.told = "running" <=> roPlan' # <<>>) /\ roConfig' = roConfig
<1>1. roPlan \in Seq(RoAccess) /\ InTurn(roPlan) /\ roPlan # <<>> /\ c = Head(roPlan) /\ roPlan' = Tail(roPlan)
      /\ roCall.told = "running" /\ roConfig' = roConfig
      /\ roCall' = [roCall EXCEPT !.told = IF Tail(roPlan) = <<>> THEN "Ok" ELSE @]
  BY DEF Goes, OwnerTyped
<1>2. c \in Awaited /\ c \in RoAccess /\ roPlan' \in Seq(RoAccess)
  BY <1>1, RestSet DEF Awaited
<1>3. InTurn(roPlan') /\ Awaited' = Awaited \ {c} /\ \A d \in Awaited' : Rank(c) < Rank(d)
  BY <1>1, OrderedRest DEF Awaited
<1>4. \A d \in Awaited : d \in RoAccess /\ (Rank(c) = Rank(d) => c = d)
  BY <1>1, <1>2, OneOfARank DEF Awaited
<1>5. roCall \in [name : RoName \cup {"new"}, found : RoMode, told : {"running", "Ok", "Err"}]
  BY DEF OwnerTyped
<1>6. /\ roCall' \in [name : RoName \cup {"new"}, found : RoMode, told : {"running", "Ok", "Err"}]
      /\ roCall'.name = roCall.name /\ roCall'.found = roCall.found /\ roCall'.told # "Err"
      /\ (roCall'.told = "running" <=> roPlan' # <<>>)
  BY <1>1, <1>5
<1> QED BY <1>1, <1>2, <1>3, <1>4, <1>6

LEMMA AccessEffect ==
  ASSUME roChip \in RoChip, NEW c \in RoAccess
  PROVE  LET e == Accessed(c) IN
         /\ e \in RoChip
         /\ c.op = "Mode" => e.mode = c.arg
         /\ c.op \notin {"Reset", "Standby", "Mode"} => e.mode = roChip.mode
         /\ c = [op |-> "Set", arg |-> "wmbus"] => e.set = "wmbus" /\ ~e.net
         /\ c.op \notin {"Reset", "Set"} => e.set = roChip.set /\ (e.net <=> roChip.net \/ c.op = "Network")
         /\ c.op = "Aes" => e.aes
         /\ c.op = "Reset" => ~e.aes
         /\ c.op \notin {"Aes", "Reset"} => e.aes = roChip.aes
<1> DEFINE e == Accessed(c)
<1>0. /\ c.op \in {"Mode", "Ready", "Record"} => c.arg \in RoMode
      /\ c.op = "Set" => c.arg \in {"some", "wmbus"}
      /\ roChip.level \in BOOLEAN /\ roChip.net \in BOOLEAN
      /\ c = [op |-> "Set", arg |-> "wmbus"] => c.op = "Set" /\ c.arg = "wmbus"
  BY DEF RoAccess, RoChip
<1>1. CASE c.op = "Reset"
  <2>1. e = [mode |-> "Standby", level |-> FALSE, set |-> "reset", aes |-> FALSE, net |-> FALSE]
    BY <1>1 DEF Accessed
  <2>3. e \in RoChip
    BY <2>1 DEF RoChip, RoMode
  <2>4. ~e.aes
    BY <2>1 DEF RoChip
  <2> QED BY <1>0, <2>3, <2>4, <1>1
<1>2. CASE c.op = "Standby"
  <2>1. e = [roChip EXCEPT !.mode = "Standby", !.level = roChip.level /\ ~("Standby" = "Rx" /\ roChip.mode # "Rx")]
    BY <1>2 DEF Accessed, InMode
  <2>2. (roChip.level /\ ~("Standby" = "Rx" /\ roChip.mode # "Rx")) \in BOOLEAN
    OBVIOUS
  <2>3. e \in RoChip
    BY <2>1, <2>2 DEF RoChip, RoMode
  <2>4. e.mode = "Standby" /\ e.set = roChip.set /\ e.aes = roChip.aes /\ e.net = roChip.net
    BY <2>1 DEF RoChip
  <2> QED BY <1>0, <2>3, <2>4, <1>2
<1>3. CASE c.op = "Mode"
  <2>1. e = [roChip EXCEPT !.mode = c.arg, !.level = roChip.level /\ ~(c.arg = "Rx" /\ roChip.mode # "Rx")]
    BY <1>3 DEF Accessed, InMode
  <2>2. (roChip.level /\ ~(c.arg = "Rx" /\ roChip.mode # "Rx")) \in BOOLEAN
    OBVIOUS
  <2>3. e \in RoChip
    BY <1>0, <1>3, <2>1, <2>2 DEF RoChip, RoMode
  <2>4. e.mode = c.arg /\ e.set = roChip.set /\ e.aes = roChip.aes /\ e.net = roChip.net
    BY <2>1 DEF RoChip
  <2> QED BY <1>0, <2>3, <2>4, <1>3
<1>4. CASE c.op = "Set"
  <2>1. e = [roChip EXCEPT !.set = c.arg, !.net = FALSE]
    BY <1>4 DEF Accessed
  <2>3. e \in RoChip
    BY <1>0, <1>4, <2>1 DEF RoChip, RoMode
  <2>4. e.mode = roChip.mode /\ e.set = c.arg /\ e.aes = roChip.aes /\ e.net = FALSE
    BY <2>1 DEF RoChip
  <2> QED BY <1>0, <2>3, <2>4, <1>4
<1>5. CASE c.op = "Aes"
  <2>1. e = [roChip EXCEPT !.aes = TRUE]
    BY <1>5 DEF Accessed
  <2>3. e \in RoChip
    BY <2>1 DEF RoChip, RoMode
  <2>4. e.mode = roChip.mode /\ e.set = roChip.set /\ e.aes = TRUE /\ e.net = roChip.net
    BY <2>1 DEF RoChip
  <2> QED BY <1>0, <2>3, <2>4, <1>5
<1>6. CASE c.op = "Network"
  <2>1. e = [roChip EXCEPT !.net = TRUE]
    BY <1>6 DEF Accessed
  <2>3. e \in RoChip
    BY <2>1 DEF RoChip, RoMode
  <2>4. e.mode = roChip.mode /\ e.set = roChip.set /\ e.aes = roChip.aes /\ e.net = TRUE
    BY <2>1 DEF RoChip
  <2> QED BY <1>0, <2>3, <2>4, <1>6
<1>7. CASE c.op = "Drain"
  <2>1. e = [roChip EXCEPT !.level = FALSE]
    BY <1>7 DEF Accessed
  <2>3. e \in RoChip
    BY <2>1 DEF RoChip, RoMode
  <2>4. e.mode = roChip.mode /\ e.set = roChip.set /\ e.aes = roChip.aes /\ e.net = roChip.net
    BY <2>1 DEF RoChip
  <2> QED BY <1>0, <2>3, <2>4, <1>7
<1>8. CASE c.op \notin {"Reset", "Standby", "Mode", "Set", "Aes", "Network", "Drain"}
  <2>1. e = roChip
    BY <1>8 DEF Accessed
  <2>2. c # [op |-> "Set", arg |-> "wmbus"]
    BY <1>8
  <2> QED BY <2>1, <2>2, <1>8
<1> QED BY <1>1, <1>2, <1>3, <1>4, <1>5, <1>6, <1>7, <1>8

(* An access that neither writes the mode nor records it.                   *)
LEMMA ModeStays ==
  ASSUME OwnerTyped, ModeInv, NEW c, Goes(c), c.op \notin {"Mode", "Record"}, roCurrent' = roCurrent,
         roWriter' # "set_mode" \/ (roChip'.mode = roChip.mode /\ roWriter' = roWriter)
  PROVE  ModeInv'
<1>1. /\ c \in Awaited /\ Awaited' = Awaited \ {c} /\ \A d \in Awaited' : Rank(c) < Rank(d)
      /\ \A d \in Awaited : d \in RoAccess
  BY GoesOn
<1>2. ASSUME NEW a, NEW o \in {"Mode", "Record"} PROVE [op |-> o, arg |-> a] \in Awaited' <=> [op |-> o, arg |-> a] \in Awaited
  BY <1>1
<1>3. ASSUME NEW d \in Awaited', d.op = "Mode" PROVE [op |-> "Record", arg |-> d.arg] \in Awaited'
  BY <1>1, <1>2, <1>3 DEF ModeInv
<1>4. Beyond(9) => Beyond(9)'
  BY <1>1 DEF Beyond
<1>5. ASSUME NEW d \in Awaited', d.op = "Record" PROVE [op |-> "Mode", arg |-> d.arg] \in Awaited' \/ Beyond(9)'
  BY <1>1, <1>2, <1>4, <1>5 DEF ModeInv
<1>6. Recording' <=> Recording
  <2>1. Recording => Recording'
    BY <1>1, <1>4 DEF Recording
  <2>2. ASSUME Recording' PROVE Recording
    <3>1. PICK d \in Awaited' : d.op = "Record"
      BY <2>2 DEF Recording
    <3>2. [op |-> "Mode", arg |-> d.arg] \notin Awaited'
      <4>1. Rank([op |-> "Mode", arg |-> d.arg]) = 9
        BY Ranks DEF Rank
      <4> QED BY <2>2, <4>1 DEF Recording, Beyond
    <3> QED BY <1>1, <1>2, <3>1, <3>2 DEF ModeInv, Recording
  <2> QED BY <2>1, <2>2
<1>7. roWriter' = "set_mode" => IF Recording' THEN [op |-> "Record", arg |-> roChip'.mode] \in Awaited' ELSE roChip'.mode = roCurrent'
  BY <1>2, <1>6 DEF ModeInv
<1> QED BY <1>3, <1>5, <1>7 DEF ModeInv

LEMMA ModeWritten ==
  ASSUME OwnerTyped, ModeInv, NEW c, Goes(c), c.op = "Mode", roCurrent' = roCurrent, roChip'.mode = c.arg
  PROVE  ModeInv'
<1>1. /\ c \in Awaited /\ Awaited' = Awaited \ {c} /\ (\A d \in Awaited' : Rank(c) < Rank(d)) /\ c \in RoAccess
      /\ \A d \in Awaited : d \in RoAccess
  BY GoesOn
<1>2. Beyond(9)'
  <2>1. Rank(c) = 9
    BY <1>1, RankOf
  <2> QED BY <1>1, <2>1 DEF Beyond
<1>3. [op |-> "Record", arg |-> roChip'.mode] \in Awaited' /\ Recording'
  BY <1>1, <1>2 DEF ModeInv, Recording
<1>4. \A d \in Awaited' : d.op # "Mode"
  <2> SUFFICES ASSUME NEW d \in Awaited', d.op = "Mode"
               PROVE  FALSE
    OBVIOUS
  <2>1. Rank(d) = 9 /\ Rank(c) = 9
    BY <1>1, RankOf
  <2> QED BY <1>1, <2>1
<1> QED BY <1>2, <1>3, <1>4 DEF ModeInv

LEMMA ModeRecorded ==
  ASSUME OwnerTyped, ModeInv, NEW c, Goes(c), c.op = "Record", roCurrent' = c.arg, roChip' = roChip, roWriter' = roWriter
  PROVE  ModeInv'
<1>1. /\ c \in Awaited /\ Awaited' = Awaited \ {c} /\ (\A d \in Awaited' : Rank(c) < Rank(d)) /\ c \in RoAccess
      /\ \A d \in Awaited : d \in RoAccess /\ (Rank(c) = Rank(d) => c = d)
  BY GoesOn
<1>2. Rank(c) = 11
  BY <1>1, RankOf
<1>3. \A d \in Awaited' : d.op \notin {"Mode", "Record"}
  <2> SUFFICES ASSUME NEW d \in Awaited', d.op \in {"Mode", "Record"}
               PROVE  FALSE
    OBVIOUS
  <2>1. Rank(d) \in 1..12 /\ Rank(d) <= 11
    BY <1>1, RankOf
  <2> QED BY <1>1, <1>2, <2>1
<1>4. Recording
  <2>1. \A d \in Awaited : d = c \/ Rank(d) > 11
    BY <1>1, <1>2, RankOf
  <2>2. Beyond(9)
    <3> SUFFICES ASSUME NEW d \in Awaited PROVE Rank(d) > 9
      BY DEF Beyond
    <3>1. Rank(d) \in 1..12
      BY <1>1, RankOf
    <3> QED BY <1>2, <2>1, <3>1
  <2> QED BY <1>1, <2>2 DEF Recording
<1>5. roWriter = "set_mode" => roChip.mode = c.arg
  <2> SUFFICES ASSUME roWriter = "set_mode"
               PROVE  roChip.mode = c.arg
    OBVIOUS
  <2> DEFINE r == [op |-> "Record", arg |-> roChip.mode]
  <2>1. r \in Awaited
    BY <1>4 DEF ModeInv
  <2>2. Rank(r) = 11 /\ r.arg = roChip.mode
    BY DEF Rank
  <2> HIDE DEF r
  <2> QED BY <1>1, <1>2, <2>1, <2>2
<1> QED BY <1>3, <1>5 DEF ModeInv, Recording

(* What initialize() has still to do.                                      *)
LEMMA InitGoes ==
  ASSUME OwnerTyped, InitInv, NEW c, Goes(c), roChip' = Accessed(c),
         c.op \notin {"Mode", "Standby", "Reset"} => roWriter' = roWriter
  PROVE  InitInv'
<1>1. /\ c \in Awaited /\ Awaited' = Awaited \ {c} /\ (\A d \in Awaited' : Rank(c) < Rank(d)) /\ c \in RoAccess
      /\ \A d \in Awaited : d \in RoAccess
      /\ roCall'.name = roCall.name /\ roCall'.found = roCall.found /\ roCall.told # "Err" /\ roConfig' = roConfig
  BY GoesOn
<1>2. roChip \in RoChip
  BY DEF OwnerTyped
<1> DEFINE e == Accessed(c)
<1>3. /\ c.op = "Mode" => e.mode = c.arg
      /\ c.op \notin {"Reset", "Standby", "Mode"} => e.mode = roChip.mode
      /\ c = [op |-> "Set", arg |-> "wmbus"] => e.set = "wmbus" /\ ~e.net
      /\ c.op \notin {"Reset", "Set"} => e.set = roChip.set /\ (e.net <=> roChip.net \/ c.op = "Network")
      /\ c.op = "Aes" => e.aes
      /\ c.op = "Reset" => ~e.aes
      /\ c.op \notin {"Aes", "Reset"} => e.aes = roChip.aes
  BY <1>1, <1>2, AccessEffect
<1> HIDE DEF e
<1>4. roChip' = e
  BY DEF e
<1>5. ASSUME NEW n \in 1..12 PROVE /\ Beyond(n) => Beyond(n)' /\ Rank(c) > n
                                   /\ Rank(c) >= n => Beyond(n)'
  <2>1. Beyond(n) => Beyond(n)' /\ Rank(c) > n
    BY <1>1 DEF Beyond
  <2>2. ASSUME Rank(c) >= n PROVE Beyond(n)'
    <3> SUFFICES ASSUME NEW d \in Awaited'
                 PROVE  Rank(d) > n
      BY DEF Beyond
    <3>1. Rank(d) \in 1..12 /\ Rank(c) \in 1..12 /\ Rank(c) < Rank(d)
      BY <1>1, RankOf
    <3> QED BY <2>2, <3>1
  <2> QED BY <2>1, <2>2
<1>6. /\ Rank(c) \in 1..12
      /\ c.op = "Mode" => Rank(c) = 9
      /\ c = [op |-> "Set", arg |-> "wmbus"] <=> Rank(c) = 5
      /\ c.op = "Network" => Rank(c) = 7
      /\ c.op = "Aes" => Rank(c) = 6
      /\ c.op \in {"Reset", "Verify", "Standby"} => Rank(c) <= 3
      /\ c.op = "Set" => Rank(c) <= 5
  BY <1>1, RankOf
<1>7. /\ c.op \in {"Reset", "Network"} => c.arg = "none"
      /\ c.op = "Aes" => c.arg = "on"
      /\ c = [op |-> c.op, arg |-> c.arg]
  BY <1>1, AccessIs
<1> DEFINE network == [op |-> "Network", arg |-> "none"]
           wmbus   == [op |-> "Set", arg |-> "wmbus"]
           aes     == [op |-> "Aes", arg |-> "on"]
           reset   == [op |-> "Reset", arg |-> "none"]
           listen  == [op |-> "Mode", arg |-> "Rx"]
<1>8. /\ c = network <=> c.op = "Network"
      /\ c = aes <=> c.op = "Aes"
      /\ c = reset <=> c.op = "Reset"
      /\ c = listen => c.op = "Mode" /\ c.arg = "Rx"
      /\ c # wmbus => network # wmbus
  BY <1>7
<1>9. Rank(wmbus) = 5
  BY Ranks DEF The
<1> HIDE DEF network, wmbus, aes, reset, listen
<1> SUFFICES ASSUME roCall.name = "initialize"
             PROVE  /\ network \in Awaited' => roConfig.net
                    /\ \/ wmbus \in Awaited' /\ (roConfig.net => network \in Awaited')
                       \/ Beyond(5)' /\ e.set = "wmbus" /\ (e.net <=> roConfig.net /\ network \notin Awaited')
                    /\ roConfig.key = "hex32" => aes \in Awaited' \/ (e.aes /\ Beyond(6)')
                    /\ roConfig.key = "none" /\ roConfig.reset => aes \notin Awaited' /\ (reset \in Awaited' \/ ~e.aes)
                    /\ roCall.found # "Rx" => listen \in Awaited' \/ (Beyond(9)' /\ (e.mode = "Rx" \/ roWriter' = "task"))
  BY <1>1, <1>4 DEF InitInv, network, wmbus, aes, reset, listen
<1>10. /\ network \in Awaited => roConfig.net
       /\ \/ wmbus \in Awaited /\ (roConfig.net => network \in Awaited)
          \/ Beyond(5) /\ roChip.set = "wmbus" /\ (roChip.net <=> roConfig.net /\ network \notin Awaited)
       /\ roConfig.key = "hex32" => aes \in Awaited \/ (roChip.aes /\ Beyond(6))
       /\ roConfig.key = "none" /\ roConfig.reset => aes \notin Awaited /\ (reset \in Awaited \/ ~roChip.aes)
       /\ roCall.found # "Rx" => listen \in Awaited \/ (Beyond(9) /\ (roChip.mode = "Rx" \/ roWriter = "task"))
  BY <1>1 DEF InitInv, network, wmbus, aes, reset, listen
<1>11. network \in Awaited' => roConfig.net
  BY <1>1, <1>10
<1>12. \/ wmbus \in Awaited' /\ (roConfig.net => network \in Awaited')
       \/ Beyond(5)' /\ e.set = "wmbus" /\ (e.net <=> roConfig.net /\ network \notin Awaited')
  <2>1. CASE c = wmbus
    <3>1. Beyond(5)' /\ e.set = "wmbus" /\ ~e.net /\ c # network
      BY <1>3, <1>5, <1>6, <1>8, <2>1 DEF wmbus
    <3>2. wmbus \in Awaited => (roConfig.net => network \in Awaited')
      BY <1>1, <1>10, <3>1, <2>1, <1>6, <1>9 DEF Beyond
    <3> QED BY <1>1, <2>1, <3>1, <3>2
  <2>2. CASE c # wmbus /\ wmbus \in Awaited
    <3>1. wmbus \in Awaited'
      BY <1>1, <2>2
    <3>2. c # network
      BY <1>1, <1>6, <1>8, <1>9, <3>1
    <3>3. ~Beyond(5)
      BY <1>9, <2>2 DEF Beyond
    <3> QED BY <1>1, <1>10, <2>2, <3>1, <3>2, <3>3
  <2>3. CASE c # wmbus /\ wmbus \notin Awaited
    <3>1. Beyond(5) /\ Beyond(5)' /\ Rank(c) > 5 /\ roChip.set = "wmbus" /\ (roChip.net <=> roConfig.net /\ network \notin Awaited)
      <4>1. Beyond(5) /\ roChip.set = "wmbus" /\ (roChip.net <=> roConfig.net /\ network \notin Awaited)
        BY <1>10, <2>3
      <4> QED BY <4>1, <1>5
    <3>2. c.op \notin {"Reset", "Set"}
      BY <1>6, <3>1
    <3>3. CASE c = network
      BY <1>1, <1>3, <1>8, <1>10, <3>1, <3>2, <3>3
    <3>4. CASE c # network
      BY <1>1, <1>3, <1>8, <3>1, <3>2, <3>4
    <3> QED BY <3>3, <3>4
  <2> QED BY <2>1, <2>2, <2>3
<1>13. roConfig.key = "hex32" => aes \in Awaited' \/ (e.aes /\ Beyond(6)')
  <2>1. CASE c = aes
    BY <1>3, <1>5, <1>6, <1>8, <2>1
  <2>2. CASE c # aes /\ aes \in Awaited
    BY <1>1, <2>2
  <2>3. CASE c # aes /\ aes \notin Awaited
    <3>1. Beyond(6) => Beyond(6)' /\ Rank(c) > 6
      BY <1>5
    <3> QED BY <1>3, <1>6, <1>8, <1>10, <2>3, <3>1
  <2> QED BY <2>1, <2>2, <2>3
<1>14. roConfig.key = "none" /\ roConfig.reset => aes \notin Awaited' /\ (reset \in Awaited' \/ ~e.aes)
  BY <1>1, <1>3, <1>8, <1>10
<1>15. roCall.found # "Rx" => listen \in Awaited' \/ (Beyond(9)' /\ (e.mode = "Rx" \/ roWriter' = "task"))
  <2>1. CASE c = listen
    <3>1. c.op = "Mode" /\ c.arg = "Rx" /\ Rank(c) = 9
      BY <1>6, <1>8, <2>1
    <3>2. Beyond(9)'
      BY <1>5, <3>1
    <3> QED BY <1>3, <3>1, <3>2
  <2>2. CASE c # listen /\ listen \in Awaited
    BY <1>1, <2>2
  <2>3. CASE c # listen /\ listen \notin Awaited
    <3>1. Beyond(9) => Beyond(9)' /\ Rank(c) > 9
      BY <1>5
    <3>2. Beyond(9) => c.op \notin {"Mode", "Standby", "Reset"}
      BY <1>6, <3>1
    <3> QED BY <1>3, <1>10, <2>3, <3>1, <3>2
  <2> QED BY <2>1, <2>2, <2>3
<1> QED BY <1>11, <1>12, <1>13, <1>14, <1>15

(* The tasks, when no task is started or given up.                          *)
LEMMA TasksGo ==
  ASSUME OwnerTyped, TaskInv, NEW c, Goes(c), c.op # "Join", roTask' = roTask, roTasks' = roTasks
  PROVE  TaskInv'
<1>1. c \in Awaited /\ Awaited' = Awaited \ {c} /\ roCall'.name = roCall.name
  BY GoesOn
<1>2. c # [op |-> "Join", arg |-> "none"]
  OBVIOUS
<1> QED BY <1>1, <1>2 DEF TaskInv

LEMMA AccessKeeps ==
  ASSUME OwnerInv, ChipAccess
  PROVE  OwnerInv'
<1>0. OwnerTyped /\ ModeInv /\ InitInv /\ TaskInv
  BY DEF OwnerInv
<1>1. PICK c : /\ c.op \notin {"Record", "Spawn", "Stop", "Join", "Abort", "Refuse"} /\ Goes(c)
               /\ roChip' = Accessed(c)
               /\ roWriter' = CASE c.op = "Mode" -> "set_mode" [] c.op \in {"Standby", "Reset"} -> "initialize"
                                [] OTHER -> roWriter
               /\ UNCHANGED <<roCurrent, roTask, roTasks, roEnding>>
  BY DEF ChipAccess
<1>2. c \in RoAccess /\ roChip \in RoChip
  BY <1>0, <1>1, GoesOn DEF OwnerTyped
<1>3. roChip' \in RoChip /\ (c.op = "Mode" => roChip'.mode = c.arg)
      /\ (c.op \notin {"Reset", "Standby", "Mode"} => roChip'.mode = roChip.mode)
  BY <1>1, <1>2, AccessEffect
<1>4. c.op \notin {"Mode", "Standby", "Reset"} => roWriter' = roWriter
  BY <1>1
<1>5. OwnerTyped'
  BY <1>0, <1>1, <1>3, GoesOn DEF OwnerTyped
<1>6. CASE c.op = "Mode"
  <2>1. ModeInv'
    BY <1>0, <1>1, <1>3, <1>6, ModeWritten
  <2> QED BY <1>0, <1>1, <1>4, <1>5, <2>1, InitGoes, TasksGo DEF OwnerInv
<1>7. CASE c.op # "Mode"
  <2>1. roWriter' # "set_mode" \/ (roChip'.mode = roChip.mode /\ roWriter' = roWriter)
    BY <1>1, <1>3, <1>7
  <2>2. ModeInv'
    BY <1>0, <1>1, <1>7, <2>1, ModeStays
  <2> QED BY <1>0, <1>1, <1>4, <1>5, <2>2, InitGoes, TasksGo DEF OwnerInv
<1> QED BY <1>6, <1>7

(* The accesses that do not reach the chip.                                *)
LEMMA OffTheChip ==
  ASSUME NEW c, c.op \in {"Record", "Spawn", "Stop", "Join", "Abort"}
  PROVE  Accessed(c) = roChip
BY DEF Accessed

LEMMA RecordKeeps ==
  ASSUME OwnerInv, RecordMode
  PROVE  OwnerInv'
<1>0. OwnerTyped /\ ModeInv /\ InitInv /\ TaskInv
  BY DEF OwnerInv
<1>1. PICK m \in RoMode : /\ Goes([op |-> "Record", arg |-> m]) /\ roCurrent' = m
                          /\ UNCHANGED <<roChip, roTask, roTasks, roEnding, roWriter>>
  BY DEF RecordMode, RoMode
<1> DEFINE c == [op |-> "Record", arg |-> m]
<1>2. c.op = "Record" /\ c.arg = m
  OBVIOUS
<1> HIDE DEF c
<1>3. Goes(c) /\ roChip' = Accessed(c)
  BY <1>1, <1>2, OffTheChip DEF c
<1>4. OwnerTyped'
  BY <1>0, <1>1, <1>3, GoesOn DEF OwnerTyped
<1>5. ModeInv'
  BY <1>0, <1>1, <1>2, <1>3, ModeRecorded
<1>6. InitInv'
  BY <1>0, <1>1, <1>2, <1>3, InitGoes
<1>7. TaskInv'
  BY <1>0, <1>1, <1>2, <1>3, TasksGo
<1> QED BY <1>4, <1>5, <1>6, <1>7 DEF OwnerInv

LEMMA SpawnKeeps ==
  ASSUME OwnerInv, SpawnTask
  PROVE  OwnerInv'
<1>0. OwnerTyped /\ ModeInv /\ InitInv /\ TaskInv
  BY DEF OwnerInv
<1> DEFINE c == [op |-> "Spawn", arg |-> "none"]
<1>1. Goes(c) /\ c.op = "Spawn" /\ roTasks' = Append(roTasks, "poll") /\ roTask' = Len(roTasks')
      /\ UNCHANGED <<roChip, roCurrent, roEnding, roWriter>>
  BY DEF SpawnTask
<1> HIDE DEF c
<1>2. c \in Awaited /\ Awaited' = Awaited \ {c} /\ roCall'.name = roCall.name
  BY <1>0, <1>1, GoesOn
<1>3. roTasks' \in Seq({"poll", "burst", "rearm", "ended"}) /\ roTask' # 0
  BY <1>0, <1>1 DEF OwnerTyped
<1>4. OwnerTyped'
  BY <1>0, <1>1, <1>3, GoesOn DEF OwnerTyped
<1>5. ModeInv'
  BY <1>0, <1>1, ModeStays
<1>6. InitInv'
  BY <1>0, <1>1, OffTheChip, InitGoes
<1>7. TaskInv'
  BY <1>0, <1>1, <1>2, <1>3 DEF TaskInv
<1> QED BY <1>4, <1>5, <1>6, <1>7 DEF OwnerInv

LEMMA StopKeeps ==
  ASSUME OwnerInv, StopTask
  PROVE  OwnerInv'
<1>0. OwnerTyped /\ ModeInv /\ InitInv /\ TaskInv
  BY DEF OwnerInv
<1> DEFINE c == [op |-> "Stop", arg |-> "none"]
<1>1. Goes(c) /\ c.op = "Stop" /\ UNCHANGED <<roChip, roCurrent, roTask, roTasks, roWriter>>
  BY DEF StopTask
<1> HIDE DEF c
<1>4. OwnerTyped'
  BY <1>0, <1>1, GoesOn DEF OwnerTyped
<1>5. ModeInv'
  BY <1>0, <1>1, ModeStays
<1>6. InitInv'
  BY <1>0, <1>1, OffTheChip, InitGoes
<1>7. TaskInv'
  BY <1>0, <1>1, TasksGo
<1> QED BY <1>4, <1>5, <1>6, <1>7 DEF OwnerInv

LEMMA JoinKeeps ==
  ASSUME OwnerInv, JoinTask
  PROVE  OwnerInv'
<1>0. OwnerTyped /\ ModeInv /\ InitInv /\ TaskInv
  BY DEF OwnerInv
<1> DEFINE c == [op |-> "Join", arg |-> "none"]
<1>1. Goes(c) /\ c.op = "Join" /\ roTask # 0 /\ roTasks[roTask] = "ended" /\ roTask' = 0
      /\ UNCHANGED <<roChip, roCurrent, roTasks, roEnding, roWriter>>
  BY DEF JoinTask
<1> HIDE DEF c
<1>2. c \in Awaited /\ Awaited' = Awaited \ {c} /\ roCall'.name = roCall.name
  BY <1>0, <1>1, GoesOn
<1>4. OwnerTyped'
  BY <1>0, <1>1, GoesOn DEF OwnerTyped
<1>5. ModeInv'
  BY <1>0, <1>1, ModeStays
<1>6. InitInv'
  BY <1>0, <1>1, OffTheChip, InitGoes
<1>7. TaskInv'
  BY <1>0, <1>1, <1>2 DEF TaskInv, OwnerTyped
<1> QED BY <1>4, <1>5, <1>6, <1>7 DEF OwnerInv

LEMMA AbortKeeps ==
  ASSUME OwnerInv, AbortTask
  PROVE  OwnerInv'
<1>0. OwnerTyped /\ ModeInv /\ InitInv /\ TaskInv
  BY DEF OwnerInv
<1> DEFINE c == [op |-> "Abort", arg |-> "none"]
<1>1. Goes(c) /\ c.op = "Abort" /\ roTask' = 0 /\ UNCHANGED <<roChip, roCurrent, roTasks, roWriter>>
  BY DEF AbortTask
<1> HIDE DEF c
<1>2. c \in Awaited /\ Awaited' = Awaited \ {c} /\ roCall'.name = roCall.name
  BY <1>0, <1>1, GoesOn
<1>4. OwnerTyped'
  BY <1>0, <1>1, GoesOn DEF OwnerTyped
<1>5. ModeInv'
  BY <1>0, <1>1, ModeStays
<1>6. InitInv'
  BY <1>0, <1>1, OffTheChip, InitGoes
<1>7. TaskInv'
  <2>1. roCall.name = "drop"
    BY <1>0, <1>1, <1>2 DEF TaskInv
  <2> QED BY <1>0, <1>1, <1>2, <2>1 DEF TaskInv
<1> QED BY <1>4, <1>5, <1>6, <1>7 DEF OwnerInv

LEMMA NothingAwaited ==
  ASSUME roPlan = <<>>
  PROVE  Awaited = {} /\ ~Recording
BY DEF Awaited, ToSet, Recording

LEMMA EndedKeeps ==
  ASSUME OwnerInv, Fails
  PROVE  OwnerInv'
<1>0. OwnerTyped /\ ModeInv /\ InitInv /\ TaskInv
  BY DEF OwnerInv
<1> DEFINE c == Head(roPlan)
<1>1. /\ roPlan # <<>> /\ roPlan' = <<>> /\ c.op \notin {"Record", "Stop", "Join", "Abort"}
      /\ roCall' = [roCall EXCEPT !.told = IF roCall.name = "shutdown" THEN "Ok" ELSE "Err"]
      /\ roWriter' = IF c.op = "Ready" THEN "timeout" ELSE roWriter
      /\ UNCHANGED <<roChip, roConfig, roCurrent, roTask, roTasks, roEnding>>
  BY DEF Fails
<1>2. roPlan \in Seq(RoAccess) /\ InTurn(roPlan) /\ c \in RoAccess /\ c \in Awaited
  BY <1>0, <1>1, RestSet DEF OwnerTyped, Awaited
<1>3. \A d \in Awaited : d \in RoAccess /\ (d = c \/ Rank(c) < Rank(d))
  BY <1>1, <1>2, OrderedRest, OneOfARank DEF Awaited
<1>4. Awaited' = {} /\ ~Recording'
  BY <1>1 DEF Awaited, ToSet, Recording
<1>5. OwnerTyped'
  <2>1. <<>> \in Seq(RoAccess) /\ InTurn(<<>>)
    BY DEF InTurn
  <2>2. roCall' \in [name : RoName \cup {"new"}, found : RoMode, told : {"running", "Ok", "Err"}] /\ roCall'.told # "running"
    BY <1>0, <1>1 DEF OwnerTyped
  <2> QED BY <1>0, <1>1, <2>1, <2>2 DEF OwnerTyped
<1>6. ModeInv'
  <2>1. ASSUME Recording PROVE c.op = "Ready"
    <3>1. PICK d \in Awaited : d.op = "Record"
      BY <2>1 DEF Recording
    <3>2. Rank(d) = 11 /\ Rank(c) > 9 /\ Rank(c) \in 1..12
      BY <1>2, <1>3, <2>1, <3>1, RankOf DEF Recording, Beyond
    <3>3. Rank(c) = 10
      BY <1>1, <1>3, <3>1, <3>2
    <3> QED BY <1>2, <3>3, RankOf
  <2> QED BY <1>0, <1>1, <1>4, <2>1 DEF ModeInv
<1>7. InitInv'
  BY <1>0, <1>1 DEF InitInv, OwnerTyped
<1>8. TaskInv'
  <2>1. ASSUME roCall.name = "shutdown" PROVE roTask = 0
    <3>1. c.op \in {"Mode", "Ready"}
      BY <1>0, <1>1, <1>2, <2>1 DEF TaskInv
    <3> DEFINE j == [op |-> "Join", arg |-> "none"]
    <3>2. ASSUME j \in Awaited PROVE FALSE
      <4>1. j \in RoAccess /\ j.op = "Join"
        BY <1>3, <3>2
      <4>2. Rank(c) >= 9 /\ Rank(c) \in 1..12 /\ Rank(j) = 8 /\ j # c
        BY <1>2, <3>1, <4>1, RankOf
      <4> QED BY <1>3, <3>2, <4>2
    <3> QED BY <1>0, <2>1, <3>2 DEF TaskInv
  <2>2. roCall'.name = roCall.name
    BY <1>0, <1>1 DEF OwnerTyped
  <2> QED BY <1>0, <1>1, <1>4, <2>1, <2>2 DEF TaskInv
<1> QED BY <1>5, <1>6, <1>7, <1>8 DEF OwnerInv

(* What the tasks and the air do leaves the owner and the settings alone,   *)
(* and whoever else writes the mode is known.                              *)
LEMMA OthersKeep ==
  ASSUME OwnerInv, UNCHANGED roOwner,
         roTasks' \in Seq({"poll", "burst", "rearm", "ended"}), Len(roTasks') = Len(roTasks),
         \A t \in DOMAIN roTasks : roTasks[t] = "ended" => roTasks'[t] = "ended",
         roChip' \in RoChip, roChip'.set = roChip.set, roChip'.aes = roChip.aes, roChip'.net = roChip.net,
         (roChip'.mode = roChip.mode /\ roWriter' = roWriter) \/ roWriter' = "task"
  PROVE  OwnerInv'
<1>0. OwnerTyped /\ ModeInv /\ InitInv /\ TaskInv
  BY DEF OwnerInv
<1>1. /\ roConfig' = roConfig /\ roCurrent' = roCurrent /\ roTask' = roTask /\ roCall' = roCall /\ roPlan' = roPlan
  BY DEF roOwner
<1>2. Awaited' = Awaited /\ (Recording' <=> Recording) /\ \A n : Beyond(n)' <=> Beyond(n)
  BY <1>1 DEF Awaited, Recording, Beyond
<1>3. OwnerTyped'
  BY <1>0, <1>1 DEF OwnerTyped, InTurn
<1>4. ModeInv'
  BY <1>0, <1>1, <1>2 DEF ModeInv
<1>5. InitInv'
  BY <1>0, <1>1, <1>2 DEF InitInv
<1>6. TaskInv'
  <2>1. Len(roTasks) # 0 => Len(roTasks) \in DOMAIN roTasks
    BY <1>0 DEF OwnerTyped
  <2> QED BY <1>0, <1>1, <1>2, <2>1 DEF TaskInv
<1> QED BY <1>3, <1>4, <1>5, <1>6 DEF OwnerInv

LEMMA TaskKeeps ==
  ASSUME OwnerInv, NEW t \in DOMAIN roTasks,
         TaskTakes(t) \/ TaskStandby(t) \/ TaskRearms(t) \/ TaskFails(t) \/ TaskStops(t)
  PROVE  OwnerInv'
<1> DEFINE TaskState == {"poll", "burst", "rearm", "ended"}
<1>1. roTasks \in Seq(TaskState) /\ roChip \in RoChip
  BY DEF OwnerInv, OwnerTyped
<1>2. ASSUME NEW to \in TaskState, roTasks' = [roTasks EXCEPT ![t] = to], to = "ended" \/ roTasks[t] # "ended"
      PROVE  /\ roTasks' \in Seq(TaskState) /\ Len(roTasks') = Len(roTasks)
             /\ \A u \in DOMAIN roTasks : roTasks[u] = "ended" => roTasks'[u] = "ended"
  BY <1>1, <1>2
<1>3. PICK to \in TaskState : /\ roTasks' = [roTasks EXCEPT ![t] = to] /\ (to = "ended" \/ roTasks[t] # "ended")
                              /\ UNCHANGED roOwner
  BY DEF TaskTakes, TaskStandby, TaskRearms, TaskFails, TaskStops, TaskMoves
<1>4. \/ roChip' = roChip /\ roWriter' = roWriter
      \/ roChip' = [InMode("Standby") EXCEPT !.level = FALSE] /\ roWriter' = "task"
      \/ roChip' = InMode("Rx") /\ roWriter' = "task"
  BY DEF TaskTakes, TaskStandby, TaskRearms, TaskFails, TaskStops
<1>5. \A m \in RoMode : InMode(m) \in RoChip /\ InMode(m).set = roChip.set /\ InMode(m).aes = roChip.aes /\ InMode(m).net = roChip.net
  <2> SUFFICES ASSUME NEW m \in RoMode
               PROVE  InMode(m) \in RoChip /\ InMode(m).set = roChip.set /\ InMode(m).aes = roChip.aes /\ InMode(m).net = roChip.net
    OBVIOUS
  <2>1. (roChip.level /\ ~(m = "Rx" /\ roChip.mode # "Rx")) \in BOOLEAN
    BY <1>1 DEF RoChip
  <2> QED BY <1>1, <2>1 DEF InMode, RoChip
<1>6. /\ roChip' \in RoChip /\ roChip'.set = roChip.set /\ roChip'.aes = roChip.aes /\ roChip'.net = roChip.net
      /\ (roChip'.mode = roChip.mode /\ roWriter' = roWriter) \/ roWriter' = "task"
  <2>1. InMode("Standby") \in RoChip /\ InMode("Rx") \in RoChip
    BY <1>5 DEF RoMode
  <2>2. \A r \in RoChip : /\ [r EXCEPT !.level = FALSE] \in RoChip /\ [r EXCEPT !.level = FALSE].set = r.set
                          /\ [r EXCEPT !.level = FALSE].aes = r.aes /\ [r EXCEPT !.level = FALSE].net = r.net
    BY DEF RoChip
  <2> QED BY <1>1, <1>4, <1>5, <2>1, <2>2 DEF RoMode
<1> HIDE DEF TaskState
<1>7. roTasks' \in Seq(TaskState) /\ Len(roTasks') = Len(roTasks)
      /\ \A u \in DOMAIN roTasks : roTasks[u] = "ended" => roTasks'[u] = "ended"
  BY <1>2, <1>3
<1> QED BY <1>3, <1>6, <1>7, OthersKeep DEF TaskState

LEMMA BurstKeeps ==
  ASSUME OwnerInv, Burst
  PROVE  OwnerInv'
<1>1. roChip' = [roChip EXCEPT !.level = TRUE] /\ UNCHANGED <<roOwner, roTasks, roEnding, roWriter>> /\ roChip \in RoChip
      /\ roTasks \in Seq({"poll", "burst", "rearm", "ended"})
  BY DEF Burst, OwnerInv, OwnerTyped
<1>2. roChip' \in RoChip /\ roChip'.set = roChip.set /\ roChip'.aes = roChip.aes /\ roChip'.net = roChip.net
      /\ roChip'.mode = roChip.mode
  BY <1>1 DEF RoChip
<1> QED BY <1>1, <1>2, OthersKeep

-----------------------------------------------------------------------------
(* A call is made.                                                         *)

LEMMA CalledKeeps ==
  ASSUME OwnerInv, NEW name \in RoName, Called(name)
  PROVE  OwnerInv'
<1>0. OwnerTyped /\ ModeInv /\ InitInv /\ TaskInv
  BY DEF OwnerInv
<1> DEFINE config == roConfig'
<1>1. /\ roPlan = <<>> /\ roCall.name # "drop" /\ roPlan' = Plan(name, config)
      /\ roCall' = [name |-> name, found |-> roCurrent, told |-> IF roPlan' = <<>> THEN "Ok" ELSE "running"]
      /\ UNCHANGED <<roChip, roCurrent, roTask, roTasks, roEnding, roWriter>>
  BY DEF Called
<1>2. config \in RoSetup
  <2>1. roConfig \in RoSetup
    BY <1>0 DEF OwnerTyped
  <2>2. config = roConfig \/ config = [roConfig EXCEPT !.key = "invalid"]
    BY DEF Called
  <2> QED BY <2>1, <2>2 DEF RoSetup
<1> DEFINE P == PlanSet(name, config)
<1>3. roPlan' \in Seq(RoAccess) /\ InTurn(roPlan)' /\ Awaited' = P
  <2>1. Plans(roPlan', P, 1, 12)
    BY <1>1, <1>2, PlanPlans
  <2> QED BY <2>1 DEF Plans, Awaited, InTurn
<1>4. /\ roCall' \in [name : RoName \cup {"new"}, found : RoMode, told : {"running", "Ok", "Err"}]
      /\ (roCall'.told = "running" <=> roPlan' # <<>>) /\ roCall'.name = name /\ roCall'.found = roCurrent
  BY <1>0, <1>1 DEF OwnerTyped
<1>5. OwnerTyped'
  BY <1>0, <1>1, <1>2, <1>3, <1>4 DEF OwnerTyped
<1> DEFINE B == {The(o, a) : o \in RoBare \cup {"Set", "Aes", "Refuse"}, a \in RoArg}
           N == IF name \in {"initialize", "start_receive"} THEN "Rx" ELSE IF name \in {"stop_receive", "transmit"} THEN "Standby" ELSE "Sleep"
           D == IF name = "drop" THEN {} ELSE ModeSet(N)
<1>6. config.key \in {"none", "hex32", "invalid"}
  BY <1>2 DEF RoSetup
<1>7. /\ D \subseteq P
      /\ \A d \in P : d \in D \/ d.op \notin {"Mode", "Record"}
  <2>1. CASE name = "initialize"
    <3>1. P = InitializeSet(config) /\ D = ModeSet("Rx")
      BY <2>1 DEF PlanSet
    <3>2. \A d \in InitializeSet(config) : d \in ModeSet("Rx") \/ d.op \in {"Reset", "Verify", "Standby", "Set", "Aes", "Refuse", "Network", "Spawn"}
      BY <1>6 DEF InitializeSet, The
    <3>3. ModeSet("Rx") \subseteq InitializeSet(config)
      BY DEF InitializeSet
    <3> QED BY <3>1, <3>2, <3>3
  <2>2. CASE name = "start_receive"
    BY <2>2 DEF PlanSet, The
  <2>3. CASE name = "stop_receive"
    BY <2>3 DEF PlanSet
  <2>4. CASE name = "sleep"
    BY <2>4 DEF PlanSet
  <2>5. CASE name = "transmit"
    <3> DEFINE r == The("Refuse", "TX not implemented")
    <3>1. P = D \cup {r} /\ r.op = "Refuse"
      BY <2>5 DEF PlanSet, The
    <3> HIDE DEF r
    <3> QED BY <3>1
  <2>6. CASE name = "shutdown"
    BY <2>6 DEF PlanSet, The
  <2>7. CASE name = "drop"
    BY <2>7 DEF PlanSet, The
  <2> QED BY <2>1, <2>2, <2>3, <2>4, <2>5, <2>6, <2>7 DEF RoName
<1>8. \A d \in D : /\ d.op = "Mode" => The("Record", d.arg) \in D
                   /\ d.op = "Record" => The("Mode", d.arg) \in D
  BY DEF ModeSet, The
<1>9. ModeInv'
  <2>1. \A d \in P : /\ d.op = "Mode" => The("Record", d.arg) \in P
                     /\ d.op = "Record" => The("Mode", d.arg) \in P
    BY <1>7, <1>8
  <2>2. ~Recording'
    <3> SUFFICES ASSUME Beyond(9)', NEW d \in Awaited', d.op = "Record"
                 PROVE  FALSE
      BY DEF Recording
    <3>1. The("Mode", d.arg) \in Awaited'
      BY <1>3, <2>1
    <3>2. Rank(The("Mode", d.arg)) = 9
      BY DEF The, Rank
    <3> QED BY <3>1, <3>2 DEF Beyond
  <2>3. roWriter = "set_mode" => roChip.mode = roCurrent
    BY <1>0, <1>1, NothingAwaited DEF ModeInv
  <2> QED BY <1>1, <1>3, <2>1, <2>2, <2>3 DEF ModeInv, The
<1>10. InitInv'
  <2> SUFFICES ASSUME name = "initialize"
               PROVE  /\ The("Network", "none") \in P => config.net
                      /\ The("Set", "wmbus") \in P /\ (config.net => The("Network", "none") \in P)
                      /\ config.key = "hex32" => The("Aes", "on") \in P
                      /\ config.key = "none" /\ config.reset => The("Aes", "on") \notin P /\ The("Reset", "none") \in P
                      /\ roCurrent # "Rx" => The("Mode", "Rx") \in P
    BY <1>3, <1>4 DEF InitInv, The
  <2>1. P = InitializeSet(config)
    BY DEF PlanSet
  <2>2. The("Network", "none") \in P <=> config.net
    <3>1. ASSUME config.net PROVE The("Network", "none") \in P
      BY <2>1, <3>1 DEF InitializeSet
    <3>2. ASSUME ~config.net PROVE \A d \in InitializeSet(config) : d.op # "Network"
      BY <1>6, <3>2 DEF InitializeSet, ModeSet, The
    <3> QED BY <2>1, <3>1, <3>2 DEF The
  <2>3. The("Set", "wmbus") \in P /\ (config.key = "hex32" => The("Aes", "on") \in P)
    BY <2>1 DEF InitializeSet
  <2>4. config.reset => The("Reset", "none") \in P
    BY <2>1 DEF InitializeSet
  <2>6. ASSUME config.key = "none" PROVE The("Aes", "on") \notin P
    <3> DEFINE K == CASE config.key = "none" -> {} [] config.key = "hex32" -> {The("Aes", "on")}
                      [] config.key = "invalid" -> {The("Refuse", "key")}
    <3>1. K = {}
      BY <2>6
    <3> HIDE DEF K
    <3>2. P = (IF config.reset THEN {The("Reset", "none")} ELSE {}) \cup {The("Verify", "none")}
              \cup {The("Standby", "none"), The("Set", "some"), The("Set", "wmbus")} \cup K
              \cup (IF config.net THEN {The("Network", "none")} ELSE {})
              \cup (IF config.irq THEN {The("Spawn", "none")} ELSE {}) \cup ModeSet("Rx")
      BY <2>1 DEF InitializeSet, K
    <3> QED BY <3>1, <3>2 DEF ModeSet, The
  <2>5. roCurrent # "Rx" => The("Mode", "Rx") \in P
    BY <2>1 DEF InitializeSet, ModeSet
  <2> QED BY <2>2, <2>3, <2>4, <2>5, <2>6
<1>11. TaskInv'
  <2>1. \A d \in P : (d.op = "Spawn" => name = "initialize") /\ (d.op = "Abort" => name = "drop")
    <3> USE DEF ModeSet, The
    <3>4. CASE name = "start_receive"
      BY <3>4 DEF PlanSet
    <3>5. CASE name = "stop_receive"
      BY <3>5 DEF PlanSet
    <3>8. CASE name = "sleep"
      BY <3>8 DEF PlanSet
    <3>6. CASE name = "transmit"
      <4> DEFINE r == The("Refuse", "TX not implemented")
      <4>1. P = ModeSet("Standby") \cup {r} /\ r.op = "Refuse"
        BY <3>6 DEF PlanSet, The
      <4> HIDE DEF r
      <4> QED BY <3>6, <4>1
    <3>7. CASE name = "shutdown"
      BY <3>7 DEF PlanSet
    <3>2. CASE name = "drop"
      BY <3>2 DEF PlanSet, The
    <3>3. CASE name = "initialize"
      <4>1. \A d \in InitializeSet(config) : d.op # "Abort"
        BY <1>6 DEF InitializeSet, ModeSet, The
      <4> QED BY <3>3, <4>1 DEF PlanSet
    <3> QED BY <3>2, <3>3, <3>4, <3>5, <3>6, <3>7, <3>8 DEF RoName
  <2>2. ASSUME name = "shutdown"
        PROVE  /\ \A d \in P : d.op \in {"Stop", "Join", "Mode", "Ready", "Record"}
               /\ roTask = 0 \/ The("Join", "none") \in P
    BY <2>2 DEF PlanSet, ModeSet, The
  <2>3. P \subseteq RoAccess
    BY <1>3, OneOfARank DEF Awaited
  <2> QED BY <1>0, <1>1, <1>3, <1>4, <2>1, <2>2, <2>3 DEF TaskInv, The
<1> QED BY <1>5, <1>9, <1>10, <1>11 DEF OwnerInv

LEMMA OwnerStarts == RoInit => OwnerInv
<1> SUFFICES ASSUME RoInit
             PROVE  OwnerInv
  OBVIOUS
<1>1. Awaited = {} /\ ~Recording /\ roPlan = <<>>
  BY NothingAwaited DEF RoInit
<1>2. roChip \in RoChip /\ roConfig \in RoSetup /\ roCurrent \in RoMode
  BY DEF RoInit, RoChip, RoSetup, RoMode
<1>3. roCall \in [name : RoName \cup {"new"}, found : RoMode, told : {"running", "Ok", "Err"}] /\ roCall.told # "running"
      /\ roCall.name = "new"
  BY DEF RoInit, RoMode
<1>4. roTasks = <<>> /\ roTask = 0 /\ roTasks \in Seq({"poll", "burst", "rearm", "ended"}) /\ Len(roTasks) = 0
  BY DEF RoInit
<1>5. OwnerTyped
  BY <1>1, <1>2, <1>3, <1>4 DEF OwnerTyped, InTurn
<1>6. ModeInv /\ InitInv /\ TaskInv
  BY <1>1, <1>3, <1>4 DEF ModeInv, InitInv, TaskInv, RoInit
<1> QED BY <1>5, <1>6 DEF OwnerInv

LEMMA OwnerSteps == OwnerInv /\ [RoNext]_roVars => OwnerInv'
<1> SUFFICES ASSUME OwnerInv, [RoNext]_roVars
             PROVE  OwnerInv'
  OBVIOUS
<1>1. ASSUME NEW name \in RoName, Called(name) PROVE OwnerInv'
  BY <1>1, CalledKeeps
<1>2. CASE ChipAccess
  BY <1>2, AccessKeeps
<1>3. CASE RecordMode
  BY <1>3, RecordKeeps
<1>4. CASE SpawnTask
  BY <1>4, SpawnKeeps
<1>5. CASE StopTask
  BY <1>5, StopKeeps
<1>6. CASE JoinTask
  BY <1>6, JoinKeeps
<1>7. CASE AbortTask
  BY <1>7, AbortKeeps
<1>8. CASE Fails
  BY <1>8, EndedKeeps
<1>9. ASSUME NEW t \in DOMAIN roTasks,
             TaskTakes(t) \/ TaskStandby(t) \/ TaskRearms(t) \/ TaskFails(t) \/ TaskStops(t)
      PROVE  OwnerInv'
  BY <1>9, TaskKeeps
<1>10. CASE Burst
  BY <1>10, BurstKeeps
<1>11. CASE UNCHANGED roVars
  <2>1. roTasks \in Seq({"poll", "burst", "rearm", "ended"}) /\ roChip \in RoChip
    BY DEF OwnerInv, OwnerTyped
  <2>2. UNCHANGED roOwner /\ roTasks' = roTasks /\ roChip' = roChip /\ roWriter' = roWriter
    BY <1>11 DEF roVars, roOwner
  <2> QED BY <2>1, <2>2, OthersKeep
<1> QED BY <1>1, <1>2, <1>3, <1>4, <1>5, <1>6, <1>7, <1>8, <1>9, <1>10, <1>11 DEF RoNext, RoName

LEMMA OwnerHolds == OwnerInv => OwnerServed
<1> SUFFICES ASSUME OwnerInv
             PROVE  OwnerServed
  OBVIOUS
<1>0. OwnerTyped /\ ModeInv /\ InitInv /\ TaskInv
  BY DEF OwnerInv
<1>1. RecordHolds
  BY <1>0, NothingAwaited DEF ModeInv, RecordHolds
<1>2. roCall.told = "Ok" => Awaited = {}
  BY <1>0, NothingAwaited DEF OwnerTyped
<1>3. InitializedWhole
  BY <1>0, <1>2 DEF InitInv, InitializedWhole, OwnerTyped, RoChip, RoSetup
<1>4. LastTaskEnds
  <2> SUFFICES ASSUME roCall.name = "shutdown", roCall.told = "Ok", NEW t \in DOMAIN roTasks, roTasks[t] # "ended"
               PROVE  t \in Replaced
    BY DEF LastTaskEnds
  <2>1. Len(roTasks) = 0 \/ roTasks[Len(roTasks)] = "ended"
    BY <1>0, <1>2 DEF TaskInv
  <2>2. t \in 1..Len(roTasks) /\ Len(roTasks) \in Nat
    BY <1>0 DEF OwnerTyped
  <2> QED BY <2>1, <2>2 DEF Replaced
<1> QED BY <1>1, <1>3, <1>4 DEF OwnerServed

-----------------------------------------------------------------------------
(* A set of natural numbers has a least one.                               *)
LEMMA LeastNatural ==
  ASSUME NEW T \in SUBSET Nat, T # {}
  PROVE  \E x \in T : \A y \in T : x <= y
<1>1. IsWellFoundedOn(OpToRel(<, Nat), Nat)
  BY NatLessThanWellFounded
<1>2. PICK x \in T : \A y \in T : ~(<<y, x>> \in OpToRel(<, Nat))
  <2> DEFINE R == OpToRel(<, Nat)
  <2> HIDE DEF R
  <2>1. IsWellFoundedOn(R, Nat)
    BY <1>1 DEF R
  <2>2. \E x \in T : \A y \in T : ~(<<y, x>> \in R)
    BY <2>1, WFMin
  <2> QED BY <2>2 DEF R
<1>3. \A y \in T : ~(y < x)
  <2> TAKE y \in T
  <2>1. <<y, x>> \in Nat \X Nat
    OBVIOUS
  <2>2. ~(<<y, x>> \in OpToRel(<, Nat))
    BY <1>2
  <2> QED BY <2>1, <2>2 DEF OpToRel
<1> QED BY <1>3

-----------------------------------------------------------------------------
(* Airtime.                                                                *)

Units(sent)  == UNION {{t} \X (1..sent[t]) : t \in DOMAIN sent}
Counts(sent) == sent \in [DOMAIN sent -> Nat] /\ IsFiniteSet(Units(sent))

LEMMA UnitOf ==
  ASSUME NEW s, NEW x
  PROVE  x \in Units(s) <=> \E t \in DOMAIN s : \E i \in 1..s[t] : x = <<t, i>>
BY DEF Units

LEMMA AirtimeIs ==
  ASSUME NEW s, Counts(s)
  PROVE  Airtime(s) = Cardinality(Units(s)) /\ Airtime(s) \in Nat
BY FS_CardinalityType DEF Airtime, Units, Counts

LEMMA NothingSent == Counts(NoAirtime) /\ Airtime(NoAirtime) = 0 /\ DOMAIN NoAirtime = {}
<1>1. DOMAIN NoAirtime = {} /\ NoAirtime \in [DOMAIN NoAirtime -> Nat]
  BY DEF NoAirtime
<1>2. Units(NoAirtime) = {}
  BY <1>1, UnitOf
<1> QED BY <1>1, <1>2, AirtimeIs, FS_EmptySet DEF Counts

(* Less of a history is less airtime.                                      *)
LEMMA PartOf ==
  ASSUME NEW s, Counts(s), NEW D \in SUBSET DOMAIN s
  PROVE  /\ Counts(Restrict(s, D)) /\ DOMAIN Restrict(s, D) = D
         /\ Airtime(Restrict(s, D)) <= Airtime(s)
         /\ (\E t \in DOMAIN s \ D : s[t] > 0) => Airtime(Restrict(s, D)) < Airtime(s)
<1> DEFINE r == Restrict(s, D)
<1>1. DOMAIN r = D /\ r \in [DOMAIN r -> Nat] /\ \A t \in D : r[t] = s[t]
  BY DEF Restrict, Counts
<1>2. Units(r) \subseteq Units(s)
  BY <1>1, UnitOf
<1>3. IsFiniteSet(Units(r)) /\ Cardinality(Units(r)) <= Cardinality(Units(s))
      /\ (Cardinality(Units(s)) = Cardinality(Units(r)) => Units(s) = Units(r))
  BY <1>2, FS_Subset DEF Counts
<1>4. ASSUME NEW t \in DOMAIN s \ D, s[t] > 0 PROVE Units(s) # Units(r)
  <2>1. <<t, 1>> \in Units(s)
    BY <1>4, UnitOf DEF Counts
  <2>2. <<t, 1>> \notin Units(r)
    BY <1>1, <1>4, UnitOf
  <2> QED BY <2>1, <2>2
<1>5. Counts(r)
  BY <1>1, <1>3 DEF Counts
<1> QED BY <1>1, <1>3, <1>4, <1>5, AirtimeIs

(* A history in two parts is the airtime of both.                          *)
LEMMA PartsAdd ==
  ASSUME NEW s, Counts(s), NEW D \in SUBSET DOMAIN s, NEW E \in SUBSET DOMAIN s, D \cap E = {}
  PROVE  Airtime(Restrict(s, D \cup E)) = Airtime(Restrict(s, D)) + Airtime(Restrict(s, E))
<1> DEFINE d == Restrict(s, D)
           e == Restrict(s, E)
           b == Restrict(s, D \cup E)
<1>1. Counts(d) /\ Counts(e) /\ Counts(b) /\ DOMAIN d = D /\ DOMAIN e = E /\ DOMAIN b = D \cup E
  BY PartOf
<1>2. (\A t \in D : d[t] = s[t] /\ b[t] = s[t]) /\ (\A t \in E : e[t] = s[t] /\ b[t] = s[t])
  BY DEF Restrict
<1> HIDE DEF d, e, b
<1>3. Units(b) = Units(d) \cup Units(e)
  <2> SUFFICES ASSUME NEW x PROVE x \in Units(b) <=> x \in Units(d) \/ x \in Units(e)
    OBVIOUS
  <2> QED BY <1>1, <1>2, UnitOf
<1>4. Units(d) \cap Units(e) = {}
  <2> SUFFICES ASSUME NEW x, x \in Units(d), x \in Units(e) PROVE FALSE
    OBVIOUS
  <2>1. (\E t \in D : x[1] = t) /\ (\E t \in E : x[1] = t)
    BY <1>1, UnitOf
  <2> QED BY <2>1
<1>5. Cardinality(Units(b)) = Cardinality(Units(d)) + Cardinality(Units(e)) - 0
  BY <1>1, <1>3, <1>4, FS_Union, FS_EmptySet DEF Counts
<1> QED BY <1>1, <1>5, AirtimeIs DEF d, e, b

(* More at one place is so much more airtime.                              *)
LEMMA MoreAt ==
  ASSUME NEW s, Counts(s), NEW a, NEW n \in Nat,
         NEW r, r \in [DOMAIN s \cup {a} -> Nat],
         \A t \in DOMAIN s \ {a} : r[t] = s[t],
         r[a] = (IF a \in DOMAIN s THEN s[a] ELSE 0) + n
  PROVE  Counts(r) /\ Airtime(r) = Airtime(s) + n
<1> DEFINE k == IF a \in DOMAIN s THEN s[a] ELSE 0
           M == {a} \X ((k + 1)..(k + n))
<1>0. k \in Nat /\ r[a] = k + n
  BY DEF Counts
<1>1. IsFiniteSet(M) /\ Cardinality(M) = n
  <2>1. IsFiniteSet((k + 1)..(k + n)) /\ Cardinality((k + 1)..(k + n)) = n
    <3>1. k + 1 \in Int /\ k + n \in Int
      BY <1>0
    <3> HIDE DEF k
    <3>2. IsFiniteSet((k + 1)..(k + n))
          /\ Cardinality((k + 1)..(k + n)) = IF k + 1 > k + n THEN 0 ELSE (k + n) - (k + 1) + 1
      BY <3>1, FS_Interval
    <3> QED BY <1>0, <3>2
  <2>2. IsFiniteSet({a}) /\ Cardinality({a}) = 1
    BY FS_Singleton
  <2> HIDE DEF k
  <2> DEFINE I == (k + 1)..(k + n)
             A == {a}
  <2> HIDE DEF I, A
  <2>3. IsFiniteSet(A \X I) /\ Cardinality(A \X I) = Cardinality(A) * Cardinality(I)
    BY <2>1, <2>2, FS_Product DEF I, A
  <2>4. Cardinality(A) * Cardinality(I) = n
    BY <2>1, <2>2 DEF I, A
  <2> QED BY <2>3, <2>4 DEF I, A
<1>2. \A i : i \in 1..r[a] <=> i \in 1..k \/ i \in (k + 1)..(k + n)
  <2> HIDE DEF k
  <2> QED BY <1>0
<1>3. \A x : x \in M <=> \E i \in (k + 1)..(k + n) : x = <<a, i>>
  OBVIOUS
<1>4. a \notin DOMAIN s => k = 0
  OBVIOUS
<1>5. a \in DOMAIN s => k = s[a]
  OBVIOUS
<1> HIDE DEF k, M
<1>6. Units(r) = Units(s) \cup M
  <2> SUFFICES ASSUME NEW x PROVE x \in Units(r) <=> x \in Units(s) \/ x \in M
    OBVIOUS
  <2>1. ASSUME x \in Units(r) PROVE x \in Units(s) \/ x \in M
    <3>1. PICK t \in DOMAIN r : \E i \in 1..r[t] : x = <<t, i>>
      BY <2>1, UnitOf
    <3>2. CASE t = a
      <4>1. PICK i \in 1..r[a] : x = <<a, i>>
        BY <3>1, <3>2
      <4>2. CASE i \in 1..k
        <5>1. a \in DOMAIN s /\ i \in 1..s[a]
          BY <1>4, <1>5, <4>2
        <5> QED BY <4>1, <5>1, UnitOf
      <4>3. CASE i \in (k + 1)..(k + n)
        BY <1>3, <4>1, <4>3
      <4> QED BY <1>2, <4>2, <4>3
    <3>3. CASE t # a
      BY <3>1, <3>3, UnitOf
    <3> QED BY <3>2, <3>3
  <2>2. ASSUME x \in Units(s) PROVE x \in Units(r)
    <3>1. PICK t \in DOMAIN s : \E i \in 1..s[t] : x = <<t, i>>
      BY <2>2, UnitOf
    <3>2. PICK i \in 1..s[t] : x = <<t, i>>
      BY <3>1
    <3>3. i \in 1..r[t]
      BY <1>2, <1>5, <3>2
    <3> QED BY <3>2, <3>3, UnitOf
  <2>3. ASSUME x \in M PROVE x \in Units(r)
    BY <1>2, <1>3, <2>3, UnitOf
  <2> QED BY <2>1, <2>2, <2>3
<1>7. Units(s) \cap M = {}
  <2> SUFFICES ASSUME NEW x, x \in Units(s), x \in M PROVE FALSE
    OBVIOUS
  <2>1. PICK t \in DOMAIN s : \E i \in 1..s[t] : x = <<t, i>>
    BY UnitOf
  <2>2. PICK i \in 1..s[t] : x = <<t, i>>
    BY <2>1
  <2>3. PICK j \in (k + 1)..(k + n) : x = <<a, j>>
    BY <1>3
  <2>4. t = a /\ i = j /\ k = s[a]
    BY <1>5, <2>2, <2>3
  <2> QED BY <1>0, <2>2, <2>3, <2>4
<1>8. IsFiniteSet(Units(r)) /\ Cardinality(Units(r)) = Cardinality(Units(s)) + n - 0
  <2>1. IsFiniteSet(Units(s)) /\ Cardinality(Units(s) \cap M) = 0
    BY <1>7, FS_EmptySet DEF Counts
  <2> DEFINE U == Units(s)
  <2> HIDE DEF U
  <2>2. IsFiniteSet(U \cup M) /\ Cardinality(U \cup M) = Cardinality(U) + Cardinality(M) - Cardinality(U \cap M)
    BY <1>1, <2>1, FS_Union DEF U
  <2> QED BY <1>1, <1>6, <2>1, <2>2 DEF U
<1>9. Counts(r)
  BY <1>8 DEF Counts
<1> QED BY <1>8, <1>9, AirtimeIs

Grown(r, s, a, n) ==
  /\ DOMAIN r = DOMAIN s \cup {a} /\ \A t \in DOMAIN s \ {a} : r[t] = s[t]
  /\ r[a] = (IF a \in DOMAIN s THEN s[a] ELSE 0) + n

LEMMA RecordedAirtime ==
  ASSUME NEW s, Counts(s), NEW now, NEW dur \in Nat, NEW r, r = Recorded(s, now, dur)
  PROVE  Counts(r) /\ Airtime(r) = Airtime(s) + dur /\ Grown(r, s, now, dur)
<1>1. DOMAIN r = DOMAIN s \cup {now}
  BY DEF Recorded
<1>2. \A t \in DOMAIN s \ {now} : s[t] \in Nat /\ r[t] = s[t]
  BY DEF Recorded, Counts
<1>3. r[now] = (IF now \in DOMAIN s THEN s[now] ELSE 0) + dur /\ r[now] \in Nat
  BY DEF Recorded, Counts
<1>4. r = [t \in DOMAIN r |-> r[t]]
  BY DEF Recorded
<1>5. r \in [DOMAIN s \cup {now} -> Nat]
  BY <1>1, <1>2, <1>3, <1>4
<1>6. Counts(r) /\ Airtime(r) = Airtime(s) + dur
  BY <1>2, <1>3, <1>5, MoreAt
<1> QED BY <1>1, <1>2, <1>3, <1>6 DEF Grown

(* The sliding window.                                                     *)
LEMMA WindowOf ==
  ASSUME NEW s, Counts(s), NEW now
  PROVE  /\ Counts(Within(s, now)) /\ DOMAIN Within(s, now) = {t \in DOMAIN s : t > now - DcWindow}
         /\ \A t \in DOMAIN Within(s, now) : Within(s, now)[t] = s[t]
         /\ Used(s, now) = Airtime(Within(s, now)) /\ Used(s, now) \in Nat
<1> DEFINE D == {t \in DOMAIN s : t > now - DcWindow}
<1>1. Within(s, now) = Restrict(s, D)
  BY DEF Within
<1>2. Counts(Restrict(s, D)) /\ DOMAIN Restrict(s, D) = D
  BY PartOf
<1> QED BY <1>1, <1>2, AirtimeIs DEF Restrict, Used

LEMMA WindowTwice ==
  ASSUME NEW s, Counts(s), DOMAIN s \subseteq Nat, NEW now \in Nat, NEW then \in Nat, now <= then
  PROVE  /\ Within(Within(s, now), then) = Within(s, then)
         /\ Used(Within(s, now), then) = Used(s, then)
         /\ Used(s, then) <= Used(s, now)
<1>1. Within(Within(s, now), then) = Within(s, then)
  <2>a. /\ Counts(Within(s, now)) /\ DOMAIN Within(s, now) = {t \in DOMAIN s : t > now - DcWindow}
        /\ \A t \in DOMAIN Within(s, now) : Within(s, now)[t] = s[t]
    BY WindowOf
  <2>b. /\ DOMAIN Within(s, then) = {t \in DOMAIN s : t > then - DcWindow}
        /\ \A t \in DOMAIN Within(s, then) : Within(s, then)[t] = s[t]
    BY WindowOf
  <2> DEFINE w == Within(s, now)
  <2>c. /\ DOMAIN Within(w, then) = {t \in DOMAIN w : t > then - DcWindow}
        /\ \A t \in DOMAIN Within(w, then) : Within(w, then)[t] = w[t]
    BY <2>a, WindowOf
  <2>d. \A t \in DOMAIN s : t > then - DcWindow => t > now - DcWindow
    <3> SUFFICES ASSUME NEW t \in Nat, t > then - DcWindow PROVE t > now - DcWindow
      OBVIOUS
    <3> QED BY AirtimeAssumption
  <2>1. DOMAIN Within(w, then) = DOMAIN Within(s, then)
    BY <2>a, <2>b, <2>c, <2>d
  <2>2. \A t \in DOMAIN Within(s, then) : Within(w, then)[t] = Within(s, then)[t]
    BY <2>1, <2>a, <2>b, <2>c
  <2> QED BY <2>1, <2>2 DEF Within, Restrict
<1>2. Used(s, then) <= Used(s, now)
  <2> DEFINE w == Within(s, now)
             D == {t \in DOMAIN w : t > then - DcWindow}
  <2>1. Counts(w) /\ Airtime(w) = Used(s, now)
    BY WindowOf
  <2>2. Within(w, then) = Restrict(w, D) /\ D \in SUBSET DOMAIN w
    BY DEF Within
  <2>3. Airtime(Restrict(w, D)) <= Airtime(w)
    BY <2>1, <2>2, PartOf
  <2> QED BY <1>1, <2>1, <2>2, <2>3 DEF Used
<1> QED BY <1>1, <1>2 DEF Used

(* A history that is all in the window is used up whole.                    *)
LEMMA WindowWhole ==
  ASSUME NEW s, Counts(s), NEW now, \A t \in DOMAIN s : t > now - DcWindow
  PROVE  Within(s, now) = s /\ Used(s, now) = Airtime(s)
<1>1. DOMAIN Within(s, now) = DOMAIN s /\ \A t \in DOMAIN s : Within(s, now)[t] = s[t]
  BY WindowOf
<1>2. s = [t \in DOMAIN s |-> s[t]] /\ Within(s, now) = [t \in DOMAIN Within(s, now) |-> Within(s, now)[t]]
  BY DEF Within, Restrict, Counts
<1>3. Within(s, now) = s
  BY <1>1, <1>2
<1> QED BY <1>3 DEF Used

-----------------------------------------------------------------------------
(* DutyCycleLimiter.                                                       *)

(* A history of positive airtimes.                                         *)
Positive(sent) == Counts(sent) /\ DOMAIN sent \subseteq Nat /\ \A t \in DOMAIN sent : sent[t] > 0

(* What is used and what is granted together stay within the limit and one  *)
(* transmission for each caller but one.                                   *)
LimiterInv ==
  /\ dlNow \in Nat /\ Positive(dlHistory)
  /\ dlGrant \in [DlCallers -> DlAirtimes \cup {0}] /\ Counts(dlGrant)
  /\ Used(dlHistory, dlNow) + Airtime(dlGrant) <= DcLimit + (Cardinality(DlCallers) - 1) * MaxAirtime

LEMMA AirtimesAsked == DlAirtimes \subseteq Nat \ {0} /\ DlAirtimes \cup {0} \subseteq Nat
BY DlAssumption

LEMMA Longest == MaxAirtime \in Nat \ {0} /\ MaxAirtime \in DlAirtimes /\ \A d \in DlAirtimes : d <= MaxAirtime
<1>1. \E d \in DlAirtimes : \A e \in DlAirtimes : e <= d
  BY DlAssumption
<1>2. MaxAirtime \in DlAirtimes /\ \A e \in DlAirtimes : e <= MaxAirtime
  BY <1>1 DEF MaxAirtime
<1> QED BY <1>2, DlAssumption

LEMMA CallersCounted == Cardinality(DlCallers) \in Nat \ {0}
BY DlAssumption, FS_CardinalityType, FS_EmptySet

LEMMA LimitTyped == (Cardinality(DlCallers) - 1) * MaxAirtime \in Nat /\ DcLimit \in Nat /\ DcWindow \in Nat \ {0}
<1>1. \A n \in Nat \ {0}, m \in Nat : (n - 1) * m \in Nat
  OBVIOUS
<1>2. MaxAirtime \in Nat
  BY Longest
<1>3. (Cardinality(DlCallers) - 1) * MaxAirtime \in Nat
  BY <1>1, <1>2, CallersCounted
<1> QED BY <1>3, AirtimeAssumption

(* A positive history keeps so in the window.                              *)
LEMMA WindowPositive ==
  ASSUME NEW s, Positive(s), NEW now \in Nat
  PROVE  Positive(Within(s, now)) /\ Used(Within(s, now), now) = Used(s, now) /\ Used(s, now) \in Nat
<1>1. /\ Counts(Within(s, now)) /\ DOMAIN Within(s, now) \subseteq DOMAIN s
      /\ (\A t \in DOMAIN Within(s, now) : Within(s, now)[t] = s[t]) /\ Used(s, now) \in Nat
  BY WindowOf DEF Positive
<1>2. Used(Within(s, now), now) = Used(s, now)
  <2>1. Counts(s) /\ DOMAIN s \subseteq Nat /\ now <= now
    BY DEF Positive
  <2> QED BY <2>1, WindowTwice
<1> QED BY <1>1, <1>2 DEF Positive

(* What the other callers hold.                                            *)
LEMMA GrantOfOthers ==
  ASSUME NEW g \in [DlCallers -> DlAirtimes \cup {0}], NEW c \in DlCallers, g[c] = 0
  PROVE  Counts(g) /\ Airtime(g) <= (Cardinality(DlCallers) - 1) * MaxAirtime
<1> DEFINE O == DlCallers \ {c}
           I == 1..MaxAirtime
<1>1. IsFiniteSet(O) /\ Cardinality(O) = Cardinality(DlCallers) - 1
  <2>1. IsFiniteSet(DlCallers)
    BY DlAssumption
  <2> QED BY <2>1, FS_RemoveElement
<1>2. IsFiniteSet(I) /\ Cardinality(I) = MaxAirtime
  BY Longest, FS_Interval
<1>3. Units(g) \subseteq O \X I
  <2> SUFFICES ASSUME NEW x, x \in Units(g) PROVE x \in O \X I
    OBVIOUS
  <2>1. PICK t \in DlCallers : \E i \in 1..g[t] : x = <<t, i>>
    BY UnitOf
  <2>2. PICK i \in 1..g[t] : x = <<t, i>>
    BY <2>1
  <2>3. t # c /\ g[t] \in DlAirtimes
    BY <2>2
  <2>4. g[t] <= MaxAirtime /\ g[t] \in Nat
    BY <2>3, Longest, AirtimesAsked
  <2> QED BY <2>2, <2>3, <2>4, Longest
<1> HIDE DEF O, I
<1>4. IsFiniteSet(O \X I) /\ Cardinality(O \X I) = Cardinality(O) * Cardinality(I)
  BY <1>1, <1>2, FS_Product
<1>5. IsFiniteSet(Units(g)) /\ Cardinality(Units(g)) <= Cardinality(O \X I)
  BY <1>3, <1>4, FS_Subset
<1>6. g \in [DOMAIN g -> Nat]
  BY AirtimesAsked
<1>7. Counts(g)
  BY <1>5, <1>6 DEF Counts
<1> QED BY <1>1, <1>2, <1>4, <1>5, <1>7, AirtimeIs

LEMMA LimiterStarts == DlInit => LimiterInv
<1> SUFFICES ASSUME DlInit PROVE LimiterInv
  OBVIOUS
<1>1. dlGrant \in [DlCallers -> DlAirtimes \cup {0}] /\ \A c \in DlCallers : dlGrant[c] = 0
  BY DEF DlInit
<1>2. PICK c \in DlCallers : TRUE
  BY DlAssumption
<1>3. Counts(dlGrant) /\ Airtime(dlGrant) <= (Cardinality(DlCallers) - 1) * MaxAirtime
  BY <1>1, GrantOfOthers
<1>4. Counts(dlHistory) /\ DOMAIN dlHistory = {} /\ Airtime(dlHistory) = 0 /\ dlNow \in Nat
  BY NothingSent DEF DlInit
<1>5. Used(dlHistory, dlNow) = 0
  BY <1>4, WindowWhole
<1>6. (Cardinality(DlCallers) - 1) * MaxAirtime \in Int /\ Airtime(dlGrant) \in Nat /\ DcLimit \in Nat
  BY <1>3, CallersCounted, Longest, AirtimeIs, AirtimeAssumption
<1> QED BY <1>1, <1>3, <1>4, <1>5, <1>6 DEF LimiterInv, Positive

LEMMA AskKeeps ==
  ASSUME LimiterInv, NEW c \in DlCallers, NEW dur \in DlAirtimes, Ask(c, dur)
  PROVE  LimiterInv'
<1> DEFINE N == (Cardinality(DlCallers) - 1) * MaxAirtime
<1>1. /\ dlGrant[c] = 0 /\ Used(dlHistory, dlNow) + dur <= DcLimit /\ dlGrant' = [dlGrant EXCEPT ![c] = dur]
      /\ dlHistory' = Within(dlHistory, dlNow) /\ dlNow' = dlNow
  BY DEF Ask, CanTransmit
<1>2. /\ dlNow \in Nat /\ Positive(dlHistory)
      /\ dlGrant \in [DlCallers -> DlAirtimes \cup {0}] /\ Counts(dlGrant)
  BY DEF LimiterInv
<1>3. dur \in Nat /\ N \in Int /\ DcLimit \in Nat
  BY AirtimesAsked, LimitTyped
<1>4. Airtime(dlGrant) <= N /\ Airtime(dlGrant) \in Nat
  BY <1>1, <1>2, GrantOfOthers, AirtimeIs
<1>5. dlGrant' \in [DlCallers -> DlAirtimes \cup {0}] /\ dlGrant' \in [DlCallers -> Nat]
      /\ (\A t \in DlCallers \ {c} : dlGrant'[t] = dlGrant[t]) /\ dlGrant'[c] = dur
  BY <1>1, <1>2, AirtimesAsked
<1>6. Counts(dlGrant') /\ Airtime(dlGrant') = Airtime(dlGrant) + dur
  <2>1. DOMAIN dlGrant = DlCallers /\ DlCallers \cup {c} = DlCallers
    BY <1>2
  <2>2. dlGrant' \in [DOMAIN dlGrant \cup {c} -> Nat] /\ (\A t \in DOMAIN dlGrant \ {c} : dlGrant'[t] = dlGrant[t])
        /\ dlGrant'[c] = (IF c \in DOMAIN dlGrant THEN dlGrant[c] ELSE 0) + dur
    BY <1>1, <1>3, <1>5, <2>1
  <2> QED BY <1>2, <1>3, <2>2, MoreAt
<1>7. Positive(dlHistory') /\ Used(dlHistory', dlNow') = Used(dlHistory, dlNow) /\ Used(dlHistory, dlNow) \in Nat
  BY <1>1, <1>2, WindowPositive
<1> HIDE DEF N
<1>8. Used(dlHistory', dlNow') + Airtime(dlGrant') <= DcLimit + N
  BY <1>1, <1>3, <1>4, <1>6, <1>7
<1> QED BY <1>1, <1>2, <1>5, <1>6, <1>7, <1>8 DEF LimiterInv, N

LEMMA RecordingKeeps ==
  ASSUME LimiterInv, NEW c \in DlCallers, RecordTransmission(c)
  PROVE  LimiterInv'
<1> DEFINE N == (Cardinality(DlCallers) - 1) * MaxAirtime
           g == dlGrant[c]
           h == Recorded(dlHistory, dlNow, g)
<1>1. /\ g > 0 /\ dlHistory' = Within(h, dlNow) /\ dlGrant' = [dlGrant EXCEPT ![c] = 0] /\ dlNow' = dlNow
  BY DEF RecordTransmission
<1>2. /\ dlNow \in Nat /\ Positive(dlHistory)
      /\ dlGrant \in [DlCallers -> DlAirtimes \cup {0}] /\ Counts(dlGrant)
      /\ Used(dlHistory, dlNow) + Airtime(dlGrant) <= DcLimit + N
  BY DEF LimiterInv
<1>3. g \in Nat /\ N \in Int /\ DcLimit \in Nat
  <2>1. g \in DlAirtimes \cup {0}
    BY <1>2
  <2>2. g \in Nat
    <3> HIDE DEF g
    <3> QED BY <2>1, AirtimesAsked
  <2>3. N \in Int /\ DcLimit \in Nat
    BY LimitTyped
  <2> QED BY <2>2, <2>3
<1>4. dlGrant' \in [DlCallers -> DlAirtimes \cup {0}] /\ dlGrant'[c] = 0 /\ (\A t \in DlCallers \ {c} : dlGrant[t] = dlGrant'[t])
      /\ dlGrant \in [DlCallers -> Nat]
  BY <1>1, <1>2, AirtimesAsked
<1>5. Counts(dlGrant')
  BY <1>4, GrantOfOthers
<1>6. Airtime(dlGrant) = Airtime(dlGrant') + g
  <2>1. DOMAIN dlGrant' = DlCallers /\ DlCallers \cup {c} = DlCallers
    BY <1>4
  <2>2. dlGrant \in [DOMAIN dlGrant' \cup {c} -> Nat] /\ (\A t \in DOMAIN dlGrant' \ {c} : dlGrant[t] = dlGrant'[t])
        /\ dlGrant[c] = (IF c \in DOMAIN dlGrant' THEN dlGrant'[c] ELSE 0) + g
    BY <1>3, <1>4, <2>1
  <2> QED BY <1>3, <1>5, <2>2, MoreAt
<1>7. /\ Counts(h) /\ DOMAIN h = DOMAIN dlHistory \cup {dlNow} /\ (\A t \in DOMAIN dlHistory \ {dlNow} : h[t] = dlHistory[t])
      /\ h[dlNow] = (IF dlNow \in DOMAIN dlHistory THEN dlHistory[dlNow] ELSE 0) + g
  <2>1. Counts(dlHistory) /\ g \in Nat
    BY <1>2, <1>3 DEF Positive
  <2>2. h = Recorded(dlHistory, dlNow, g)
    OBVIOUS
  <2> HIDE DEF g, h
  <2>3. Counts(h) /\ Grown(h, dlHistory, dlNow, g)
    BY <2>1, <2>2, RecordedAirtime
  <2> QED BY <2>3 DEF Grown
<1> HIDE DEF h, g, N
<1>8. Positive(h)
  <2>1. \A t \in DOMAIN h : h[t] > 0
    BY <1>1, <1>2, <1>3, <1>7 DEF Counts, Positive
  <2> QED BY <1>2, <1>7, <2>1 DEF Positive
<1>9. Positive(dlHistory') /\ Used(dlHistory', dlNow') = Used(h, dlNow)
  BY <1>1, <1>2, <1>8, WindowPositive
<1>10. Used(h, dlNow) = Used(dlHistory, dlNow) + g
  <2> DEFINE v == Within(dlHistory, dlNow)
             w == Within(h, dlNow)
  <2>1. /\ Counts(v) /\ DOMAIN v = {t \in DOMAIN dlHistory : t > dlNow - DcWindow} /\ (\A t \in DOMAIN v : v[t] = dlHistory[t])
        /\ Airtime(v) = Used(dlHistory, dlNow)
    BY <1>2, WindowOf DEF Positive
  <2>2. /\ Counts(w) /\ DOMAIN w = {t \in DOMAIN h : t > dlNow - DcWindow} /\ (\A t \in DOMAIN w : w[t] = h[t])
        /\ Airtime(w) = Used(h, dlNow)
    BY <1>7, WindowOf
  <2> HIDE DEF v, w
  <2>3. dlNow > dlNow - DcWindow
    BY <1>2, AirtimeAssumption
  <2>4. DOMAIN w = DOMAIN v \cup {dlNow}
    BY <1>7, <2>1, <2>2, <2>3
  <2>5. \A t \in DOMAIN v \ {dlNow} : w[t] = v[t]
    BY <1>7, <2>1, <2>2, <2>4
  <2>6. w[dlNow] = (IF dlNow \in DOMAIN v THEN v[dlNow] ELSE 0) + g
    BY <1>7, <2>1, <2>2, <2>3, <2>4
  <2>7. w \in [DOMAIN v \cup {dlNow} -> Nat]
    BY <2>2, <2>4 DEF Counts
  <2>8. Airtime(w) = Airtime(v) + g
    BY <1>3, <2>1, <2>5, <2>6, <2>7, MoreAt
  <2> QED BY <2>1, <2>2, <2>8
<1>11. Used(dlHistory', dlNow') + Airtime(dlGrant') <= DcLimit + N
  <2>1. Used(dlHistory, dlNow) \in Nat /\ Airtime(dlGrant') \in Nat
    BY <1>2, <1>5, WindowPositive, AirtimeIs
  <2> QED BY <1>2, <1>3, <1>6, <1>9, <1>10, <2>1
<1> QED BY <1>1, <1>2, <1>4, <1>5, <1>9, <1>11 DEF LimiterInv, N

LEMMA LimiterSteps == LimiterInv /\ [DlNext]_dlVars => LimiterInv'
<1> SUFFICES ASSUME LimiterInv, [DlNext]_dlVars PROVE LimiterInv'
  OBVIOUS
<1>1. ASSUME NEW c \in DlCallers, RecordTransmission(c) PROVE LimiterInv'
  BY <1>1, RecordingKeeps
<1>2. ASSUME NEW c \in DlCallers, NEW dur \in DlAirtimes, Ask(c, dur) PROVE LimiterInv'
  BY <1>2, AskKeeps
<1>3. CASE DlElapse
  <2>1. dlNow' = dlNow + 1 /\ dlHistory' = dlHistory /\ dlGrant' = dlGrant /\ dlNow \in Nat
    BY <1>3 DEF DlElapse, LimiterInv
  <2>2. Used(dlHistory, dlNow + 1) <= Used(dlHistory, dlNow) /\ Used(dlHistory, dlNow) \in Nat /\ Used(dlHistory, dlNow + 1) \in Nat
    <3>1. Counts(dlHistory) /\ DOMAIN dlHistory \subseteq Nat /\ dlNow <= dlNow + 1 /\ dlNow + 1 \in Nat
      BY <2>1 DEF LimiterInv, Positive
    <3>2. Used(dlHistory, dlNow + 1) <= Used(dlHistory, dlNow)
      BY <2>1, <3>1, WindowTwice
    <3> QED BY <3>1, <3>2, WindowOf
  <2>3. Airtime(dlGrant) \in Nat /\ DcLimit + (Cardinality(DlCallers) - 1) * MaxAirtime \in Int
    BY AirtimeIs, LimitTyped DEF LimiterInv
  <2> QED BY <2>1, <2>2, <2>3 DEF LimiterInv
<1>4. CASE UNCHANGED dlVars
  BY <1>4 DEF dlVars, LimiterInv
<1> QED BY <1>1, <1>2, <1>3, <1>4 DEF DlNext

LEMMA LimiterHolds == LimiterInv => LimiterSound
<1> SUFFICES ASSUME LimiterInv PROVE LimiterSound
  OBVIOUS
<1>0. dlNow \in Nat /\ Counts(dlHistory) /\ DOMAIN dlHistory \subseteq Nat /\ \A t \in DOMAIN dlHistory : dlHistory[t] > 0
  BY DEF LimiterInv, Positive
<1>1. Used(dlHistory, dlNow) <= DcLimit + (Cardinality(DlCallers) - 1) * MaxAirtime
  <2>1. Airtime(dlGrant) \in Nat /\ Used(dlHistory, dlNow) \in Nat /\ DcLimit + (Cardinality(DlCallers) - 1) * MaxAirtime \in Int
    <3>1. Airtime(dlGrant) \in Nat
      BY AirtimeIs DEF LimiterInv
    <3>2. Used(dlHistory, dlNow) \in Nat
      BY <1>0, WindowOf
    <3>3. DcLimit + (Cardinality(DlCallers) - 1) * MaxAirtime \in Int
      <4> DEFINE N == (Cardinality(DlCallers) - 1) * MaxAirtime
      <4>1. N \in Nat /\ DcLimit \in Nat
        BY LimitTyped
      <4> HIDE DEF N
      <4>2. DcLimit + N \in Int
        BY <4>1
      <4> QED BY <4>2 DEF N
    <3> QED BY <3>1, <3>2, <3>3
  <2> QED BY <2>1 DEF LimiterInv
<1> DEFINE wait == TimeUntilAvailable(dlHistory, dlNow)
           live == DOMAIN Within(dlHistory, dlNow)
<1>2. ASSUME wait > 0, Used(dlHistory, dlNow) = DcLimit PROVE Used(dlHistory, dlNow + wait) < DcLimit
  <2>1. live # {} /\ wait = Min(live) + DcWindow - dlNow
    <3>1. wait = IF Used(dlHistory, dlNow) < DcLimit \/ live = {} THEN 0 ELSE Min(live) + DcWindow - dlNow
      BY DEF TimeUntilAvailable
    <3> HIDE DEF wait, live
    <3>2. ~(0 > 0)
      OBVIOUS
    <3> QED BY <1>2, <3>1, <3>2
  <2>2. live = {t \in DOMAIN dlHistory : t > dlNow - DcWindow}
    BY <1>0, WindowOf
  <2>3. Min(live) \in live
    <3>1. \E x \in live : \A y \in live : x <= y
      BY <1>0, <2>1, <2>2, LeastNatural
    <3> QED BY <3>1 DEF Min
  <2> DEFINE m == Min(live)
             w == Within(dlHistory, dlNow)
             D == {t \in DOMAIN w : t > m}
  <2>4. m \in Nat /\ dlNow + wait = m + DcWindow /\ dlNow <= dlNow + wait /\ dlNow + wait \in Nat
    BY <1>0, <1>2, <2>1, <2>2, <2>3, AirtimeAssumption
  <2>5. Within(w, dlNow + wait) = Restrict(w, D)
    <3>1. (dlNow + wait) - DcWindow = m
      BY <2>4, AirtimeAssumption
    <3> QED BY <3>1 DEF Within
  <2>6. Counts(w) /\ Airtime(w) = Used(dlHistory, dlNow) /\ w[m] > 0 /\ m \in DOMAIN w
    BY <1>0, <2>2, <2>3, WindowOf
  <2>7. m \in DOMAIN w \ D
    BY <2>4, <2>6
  <2>8. Airtime(Restrict(w, D)) < Airtime(w)
    <3> HIDE DEF w, m
    <3>1. D \in SUBSET DOMAIN w
      OBVIOUS
    <3> HIDE DEF D
    <3> QED BY <2>6, <2>7, <3>1, PartOf
  <2>9. Within(w, dlNow + wait) = Within(dlHistory, dlNow + wait)
    BY <1>0, <2>4, WindowTwice
  <2> QED BY <1>2, <2>5, <2>6, <2>8, <2>9 DEF Used
<1> QED BY <1>1, <1>2 DEF LimiterSound

-----------------------------------------------------------------------------
(* DutyCycleManager.                                                       *)

(* What was begun in the window before window_start: what a window that    *)
(* was over had the record forget.                                         *)
Forgotten(air, start, now) == {t \in DOMAIN air : t > now - DcWindow /\ t < start}

(* The record of the manager and the airtime begun: the record is all of   *)
(* the sliding window since window_start, and what it has forgotten of the *)
(* window is less than the limit.                                          *)
Accounted(sent, air, start, now) ==
  /\ now \in Nat /\ start \in 0..now
  /\ Counts(sent) /\ DOMAIN sent \subseteq 0..now
  /\ Counts(air) /\ DOMAIN air \subseteq 0..now
  /\ \A t \in 0..now : t > now - DcWindow =>
       /\ t \in DOMAIN sent <=> t \in DOMAIN air /\ t >= start
       /\ t \in DOMAIN sent => sent[t] = air[t]
  /\ Used(sent, now) <= DcLimit
  /\ Airtime(Restrict(air, Forgotten(air, start, now))) < DcLimit
  /\ now \in DOMAIN air => now - start <= DcWindow

AirInv   == Accounted(dcSent, dcAir, dcStart, dcNow)

(* A node that has slept since standby was commanded may not sleep again.  *)
SleepInv ==
  /\ dcRadio \in [mode : Radio!RadioState, state : Radio!RadioState]
  /\ dcSlept \in {0, 1} /\ (dcSlept = 1 => ~Radio!MaySleep(dcRadio))

LEMMA RadioCommands ==
  ASSUME NEW r \in [mode : Radio!RadioState, state : Radio!RadioState]
  PROVE  /\ {Radio!SetSleep(r), Radio!SetRx(r), Radio!SetTx(r), Radio!SetStandby(r)}
              \subseteq [mode : Radio!RadioState, state : Radio!RadioState]
         /\ ~Radio!MaySleep(Radio!SetSleep(r))
         /\ Radio!MaySleep(Radio!SetRx(r)) = Radio!MaySleep(r) /\ Radio!MaySleep(Radio!SetTx(r)) = Radio!MaySleep(r)
<1> USE DEF Radio!SetSleep, Radio!SetRx, Radio!SetTx, Radio!SetStandby, Radio!SetStandbyCommand, Radio!GetState,
            Radio!RadioState, Radio!MaySleep, Radio!Standby
<1>1. {Radio!SetSleep(r), Radio!SetRx(r), Radio!SetTx(r), Radio!SetStandby(r)}
        \subseteq [mode : Radio!RadioState, state : Radio!RadioState]
  OBVIOUS
<1>2. ~Radio!MaySleep(Radio!SetSleep(r)) /\ Radio!SetRx(r).state = r.state /\ Radio!SetTx(r).state = r.state
  OBVIOUS
<1> QED BY <1>1, <1>2

LEMMA SameHistory ==
  ASSUME NEW f, NEW D, NEW g, NEW E, D = E, \A t \in D : f[t] = g[t]
  PROVE  Restrict(f, D) = Restrict(g, E)
BY DEF Restrict

LEMMA StillAccounted ==
  ASSUME NEW sent, NEW air, NEW start, NEW now, Accounted(sent, air, start, now),
         NEW n \in Nat, now <= n, NEW m \in Nat, now <= m, m <= n,
         NEW left, left = sent \/ left = Within(sent, m)
  PROVE  Accounted(left, air, start, n)
<1>1. /\ now \in Nat /\ start \in 0..now /\ Counts(sent) /\ DOMAIN sent \subseteq 0..now
      /\ Counts(air) /\ DOMAIN air \subseteq 0..now
      /\ Used(sent, now) <= DcLimit /\ Airtime(Restrict(air, Forgotten(air, start, now))) < DcLimit
      /\ (now \in DOMAIN air => now - start <= DcWindow)
  BY DEF Accounted
<1>2. \A t \in 0..now : t > now - DcWindow =>
       /\ t \in DOMAIN sent <=> t \in DOMAIN air /\ t >= start
       /\ t \in DOMAIN sent => sent[t] = air[t]
  BY DEF Accounted
<1>w. DcWindow \in Nat /\ DcLimit \in Nat
  BY AirtimeAssumption
<1>3. /\ Counts(left) /\ DOMAIN left \subseteq DOMAIN sent /\ (\A t \in DOMAIN left : left[t] = sent[t])
      /\ (\A t \in DOMAIN sent : t > n - DcWindow => t \in DOMAIN left)
  <2>1. CASE left = sent
    BY <1>1, <2>1
  <2>2. CASE left = Within(sent, m)
    <3>1. /\ Counts(left) /\ DOMAIN left = {t \in DOMAIN sent : t > m - DcWindow}
          /\ \A t \in DOMAIN left : left[t] = sent[t]
      BY <1>1, <2>2, WindowOf
    <3>2. \A t \in 0..now : t > n - DcWindow => t > m - DcWindow
      BY <1>1, <1>w
    <3> QED BY <1>1, <3>1, <3>2
  <2> QED BY <2>1, <2>2
<1>4. Used(left, n) <= DcLimit
  <2>1. Used(left, n) = Used(sent, n)
    <3>1. CASE left = Within(sent, m)
      BY <1>1, <3>1, WindowTwice
    <3> QED BY <3>1
  <2>2. Used(sent, n) <= Used(sent, now) /\ Used(sent, n) \in Nat /\ Used(sent, now) \in Nat
    <3>1. DOMAIN sent \subseteq Nat
      BY <1>1
    <3>2. Used(sent, n) <= Used(sent, now)
      BY <1>1, <3>1, WindowTwice
    <3> QED BY <1>1, <3>2, WindowOf
  <2> QED BY <1>1, <1>w, <2>1, <2>2
<1>5. \A t \in 0..n : t > n - DcWindow =>
       /\ t \in DOMAIN left <=> t \in DOMAIN air /\ t >= start
       /\ t \in DOMAIN left => left[t] = air[t]
  <2> SUFFICES ASSUME NEW t \in 0..n, t > n - DcWindow
               PROVE  /\ t \in DOMAIN left <=> t \in DOMAIN air /\ t >= start
                      /\ t \in DOMAIN left => left[t] = air[t]
    OBVIOUS
  <2>1. CASE t \in 0..now
    <3>1. t > now - DcWindow
      BY <1>1, <1>w, <2>1
    <3> QED BY <1>2, <1>3, <2>1, <3>1
  <2>2. CASE t \notin 0..now
    BY <1>1, <1>3, <2>2
  <2> QED BY <2>1, <2>2
<1>6. Airtime(Restrict(air, Forgotten(air, start, n))) < DcLimit
  <2> DEFINE F == Forgotten(air, start, now)
             G == Forgotten(air, start, n)
             r == Restrict(air, F)
  <2>1. G \subseteq F /\ F \subseteq DOMAIN air
    <3>1. \A t \in 0..now : t > n - DcWindow => t > now - DcWindow
      BY <1>1, <1>w
    <3> QED BY <1>1, <3>1 DEF Forgotten
  <2> HIDE DEF F, G
  <2>2. Counts(r) /\ DOMAIN r = F
    BY <1>1, <2>1, PartOf
  <2>3. Airtime(Restrict(r, G)) <= Airtime(r) /\ Airtime(r) \in Nat /\ Airtime(Restrict(r, G)) \in Nat
    <3> HIDE DEF r
    <3>1. Airtime(Restrict(r, G)) <= Airtime(r) /\ Counts(Restrict(r, G))
      BY <2>1, <2>2, PartOf
    <3> QED BY <2>2, <3>1, AirtimeIs
  <2>4. Restrict(r, G) = Restrict(air, G)
    <3>1. \A t \in F : r[t] = air[t]
      BY DEF Restrict
    <3> HIDE DEF r
    <3> QED BY <2>1, <3>1, SameHistory
  <2>5. Airtime(r) < DcLimit
    BY <1>1 DEF F
  <2> HIDE DEF r
  <2> QED BY <1>w, <2>3, <2>4, <2>5 DEF G
<1>7. n \in DOMAIN air => n - start <= DcWindow
  <2>1. ASSUME n \in DOMAIN air PROVE n = now
    BY <1>1, <2>1
  <2> QED BY <1>1, <2>1
<1>8. start \in 0..n /\ DOMAIN left \subseteq 0..n /\ DOMAIN air \subseteq 0..n
  BY <1>1, <1>3
<1> QED BY <1>1, <1>3, <1>4, <1>5, <1>6, <1>7, <1>8 DEF Accounted

LEMMA SendingAccounted ==
  ASSUME NEW sent, NEW air, NEW start, NEW now, Accounted(sent, air, start, now),
         NEW dur \in Nat \ {0}, CanTransmit(sent, now, dur),
         NEW s2, s2 = AddTransmission(Within(sent, now), start, now, dur),
         NEW a2, a2 = Recorded(Within(air, now), now, dur),
         NEW b2, b2 = IF WindowOver(start, now) THEN now ELSE start
  PROVE  Accounted(s2, a2, b2, now)
<1> DEFINE w == Within(sent, now)
           a == Within(air, now)
<1>1. /\ now \in Nat /\ start \in 0..now /\ Counts(sent) /\ DOMAIN sent \subseteq 0..now
      /\ Counts(air) /\ DOMAIN air \subseteq 0..now
      /\ Airtime(Restrict(air, Forgotten(air, start, now))) < DcLimit
      /\ (now \in DOMAIN air => now - start <= DcWindow)
  BY DEF Accounted
<1>2. \A t \in 0..now : t > now - DcWindow =>
       /\ t \in DOMAIN sent <=> t \in DOMAIN air /\ t >= start
       /\ t \in DOMAIN sent => sent[t] = air[t]
  BY DEF Accounted
<1>3. DcWindow \in Nat \ {0} /\ DcLimit \in Nat /\ now > now - DcWindow
  BY <1>1, AirtimeAssumption
<1>4. /\ Counts(w) /\ DOMAIN w = {t \in DOMAIN sent : t > now - DcWindow} /\ (\A t \in DOMAIN w : w[t] = sent[t])
      /\ Airtime(w) = Used(sent, now) /\ Airtime(w) \in Nat
  BY <1>1, WindowOf
<1>5. /\ Counts(a) /\ DOMAIN a = {t \in DOMAIN air : t > now - DcWindow} /\ (\A t \in DOMAIN a : a[t] = air[t])
  BY <1>1, WindowOf
<1>6. Airtime(w) + dur <= DcLimit
  BY <1>4 DEF CanTransmit
<1> HIDE DEF w, a
<1>7. Counts(a2) /\ Grown(a2, a, now, dur)
  BY <1>5, RecordedAirtime DEF a
<1>8. DOMAIN a2 \subseteq 0..now /\ now \in DOMAIN a2
  BY <1>1, <1>5, <1>7 DEF Grown
<1>9. CASE ~WindowOver(start, now)
  <2>1. Counts(s2) /\ Airtime(s2) = Airtime(w) + dur /\ Grown(s2, w, now, dur) /\ b2 = start
    <3>1. s2 = Recorded(w, now, dur) /\ b2 = start
      BY <1>9 DEF AddTransmission, w
    <3> QED BY <1>4, <3>1, RecordedAirtime
  <2>2. DOMAIN s2 \subseteq 0..now /\ now \in DOMAIN s2
    BY <1>1, <1>4, <2>1 DEF Grown
  <2>3. Used(s2, now) <= DcLimit
    <3>1. \A t \in DOMAIN s2 : t > now - DcWindow
      BY <1>3, <1>4, <2>1 DEF Grown
    <3>2. Used(s2, now) = Airtime(s2)
      BY <2>1, <3>1, WindowWhole
    <3> QED BY <1>6, <2>1, <3>2
  <2>4. \A t \in 0..now : t > now - DcWindow =>
         /\ t \in DOMAIN s2 <=> t \in DOMAIN a2 /\ t >= start
         /\ t \in DOMAIN s2 => s2[t] = a2[t]
    <3> SUFFICES ASSUME NEW t \in 0..now, t > now - DcWindow
                 PROVE  /\ t \in DOMAIN s2 <=> t \in DOMAIN a2 /\ t >= start
                        /\ t \in DOMAIN s2 => s2[t] = a2[t]
      OBVIOUS
    <3>0. /\ t \in DOMAIN w <=> t \in DOMAIN a /\ t >= start
          /\ t \in DOMAIN w => w[t] = a[t]
      BY <1>2, <1>4, <1>5
    <3>1. CASE t = now
      <4>1. now >= start
        BY <1>1
      <4>2. s2[now] = a2[now]
        BY <1>7, <2>1, <3>0, <3>1, <4>1 DEF Grown
      <4> QED BY <1>8, <2>2, <3>1, <4>1, <4>2
    <3>2. CASE t # now
      <4>1. (t \in DOMAIN s2 <=> t \in DOMAIN w) /\ (t \in DOMAIN w => s2[t] = w[t])
        BY <2>1, <3>2 DEF Grown
      <4>2. (t \in DOMAIN a2 <=> t \in DOMAIN a) /\ (t \in DOMAIN a => a2[t] = a[t])
        BY <1>7, <3>2 DEF Grown
      <4> QED BY <3>0, <4>1, <4>2
    <3> QED BY <3>1, <3>2
  <2>5. Restrict(a2, Forgotten(a2, start, now)) = Restrict(air, Forgotten(air, start, now))
    <3>1. \A t \in 0..now : t < start => t # now
      BY <1>1
    <3>2. Forgotten(a2, start, now) = Forgotten(air, start, now)
      BY <1>1, <1>5, <1>7, <1>8, <3>1 DEF Forgotten, Grown
    <3>3. \A t \in Forgotten(a2, start, now) : a2[t] = air[t]
      BY <1>5, <1>7, <1>8, <3>1 DEF Forgotten, Grown
    <3> QED BY <3>2, <3>3, SameHistory
  <2>6. now - start <= DcWindow
    BY <1>1, <1>3, <1>9 DEF WindowOver
  <2> QED BY <1>1, <1>7, <1>8, <2>1, <2>2, <2>3, <2>4, <2>5, <2>6 DEF Accounted
<1>10. CASE WindowOver(start, now)
  <2>1. b2 = now /\ s2 = Recorded(NoAirtime, now, dur)
    BY <1>10 DEF AddTransmission
  <2>2. Counts(s2) /\ Airtime(s2) = dur /\ Grown(s2, NoAirtime, now, dur)
    <3>1. Counts(s2) /\ Airtime(s2) = Airtime(NoAirtime) + dur /\ Grown(s2, NoAirtime, now, dur)
      BY <2>1, NothingSent, RecordedAirtime
    <3> QED BY <3>1, NothingSent
  <2>3. DOMAIN s2 = {now} /\ s2[now] = dur
    BY <2>2, NothingSent DEF Grown
  <2>4. now \notin DOMAIN air /\ now \notin DOMAIN a /\ now - DcWindow > start
    <3>1. now - start > DcWindow
      BY <1>10 DEF WindowOver
    <3>2. ~(now - start <= DcWindow) /\ now - DcWindow > start
      BY <1>1, <1>3, <3>1
    <3> QED BY <1>1, <1>5, <3>2
  <2>5. a2[now] = dur
    BY <1>7, <2>4 DEF Grown
  <2>6. Used(s2, now) <= DcLimit
    <3>1. Used(s2, now) = Airtime(s2)
      BY <1>3, <2>2, <2>3, WindowWhole
    <3> QED BY <1>3, <1>4, <1>6, <2>2, <3>1
  <2>7. \A t \in 0..now : t > now - DcWindow =>
         /\ t \in DOMAIN s2 <=> t \in DOMAIN a2 /\ t >= now
         /\ t \in DOMAIN s2 => s2[t] = a2[t]
    <3> SUFFICES ASSUME NEW t \in 0..now
                 PROVE  /\ t \in DOMAIN s2 <=> t \in DOMAIN a2 /\ t >= now
                        /\ t \in DOMAIN s2 => s2[t] = a2[t]
      OBVIOUS
    <3>1. t >= now <=> t = now
      BY <1>1
    <3> QED BY <1>8, <2>3, <2>5, <3>1
  <2>8. Airtime(Restrict(a2, Forgotten(a2, now, now))) < DcLimit
    <3>1. \A t \in 0..now : t < now <=> t # now
      BY <1>1
    <3>2. Forgotten(a2, now, now) = DOMAIN a
      BY <1>5, <1>7, <1>8, <2>4, <3>1 DEF Forgotten, Grown
    <3>3. DOMAIN a = DOMAIN w
      <4> SUFFICES ASSUME NEW t \in 0..now, t > now - DcWindow PROVE t \in DOMAIN air <=> t \in DOMAIN sent
        BY <1>1, <1>4, <1>5
      <4>1. t >= start
        BY <1>1, <1>3, <2>4
      <4> QED BY <1>2, <4>1
    <3>4. \A t \in DOMAIN w : a2[t] = w[t]
      <4> SUFFICES ASSUME NEW t \in DOMAIN w PROVE a2[t] = w[t]
        OBVIOUS
      <4>1. t \in 0..now /\ t > now - DcWindow /\ t \in DOMAIN sent /\ w[t] = sent[t]
        BY <1>1, <1>4
      <4>2. a[t] = sent[t] /\ t \in DOMAIN a /\ t # now
        BY <1>2, <1>5, <2>4, <3>3, <4>1
      <4> QED BY <1>7, <4>1, <4>2 DEF Grown
    <3>5. Restrict(a2, Forgotten(a2, now, now)) = w
      <4>1. w = [t \in DOMAIN w |-> w[t]]
        BY <1>4 DEF Counts
      <4> QED BY <3>2, <3>3, <3>4, <4>1 DEF Restrict
    <3> QED BY <1>3, <1>4, <1>6, <3>5
  <2>9. now - now <= DcWindow /\ now \in 0..now
    BY <1>1, <1>3
  <2> QED BY <1>1, <1>7, <1>8, <2>1, <2>2, <2>3, <2>6, <2>7, <2>8, <2>9 DEF Accounted
<1> QED BY <1>9, <1>10

LEMMA DutyCycleStarts == DcInit => AirInv /\ SleepInv
<1> SUFFICES ASSUME DcInit PROVE AirInv /\ SleepInv
  OBVIOUS
<1>0. dcRadio \in [mode : Radio!RadioState, state : Radio!RadioState]
  BY DEF DcInit, PowerUp, Radio!RadioState
<1>1. dcNow = 0 /\ dcStart = 0 /\ dcSent = NoAirtime /\ dcAir = NoAirtime /\ dcSlept = 0
  BY DEF DcInit
<1>2. Counts(NoAirtime) /\ Airtime(NoAirtime) = 0 /\ DOMAIN NoAirtime = {}
  BY NothingSent
<1>3. Used(NoAirtime, 0) = 0
  BY <1>2, WindowWhole
<1>4. Airtime(Restrict(NoAirtime, Forgotten(NoAirtime, 0, 0))) = 0
  <2>1. Forgotten(NoAirtime, 0, 0) = {}
    BY <1>2 DEF Forgotten
  <2>2. Restrict(NoAirtime, {}) = NoAirtime
    BY DEF Restrict, NoAirtime
  <2> QED BY <1>2, <2>1, <2>2
<1>5. DcLimit \in Nat \ {0}
  BY AirtimeAssumption
<1>6. Accounted(NoAirtime, NoAirtime, 0, 0)
  BY <1>2, <1>3, <1>4, <1>5 DEF Accounted
<1> QED BY <1>0, <1>1, <1>6 DEF AirInv, SleepInv

LEMMA TransmitKeeps == ASSUME AirInv, NEW dur \in DcAirtimes, Transmit(dur) PROVE AirInv'
<1>0. Accounted(dcSent, dcAir, dcStart, dcNow) /\ dcNow \in Nat /\ dcNow <= dcNow /\ dcNow' = dcNow
  BY DEF AirInv, Accounted, Transmit
<1>1. CASE /\ CanTransmit(dcSent, dcNow, dur)
           /\ dcSent' = AddTransmission(Within(dcSent, dcNow), dcStart, dcNow, dur)
           /\ dcStart' = IF WindowOver(dcStart, dcNow) THEN dcNow ELSE dcStart
           /\ dcAir' = Recorded(Within(dcAir, dcNow), dcNow, dur)
  <2>1. dur \in Nat \ {0}
    BY DcAssumption
  <2>2. Accounted(dcSent', dcAir', dcStart', dcNow)
    BY <1>0, <1>1, <2>1, SendingAccounted
  <2> QED BY <1>0, <2>2 DEF AirInv
<1>2. CASE dcSent' = Within(dcSent, dcNow) /\ UNCHANGED <<dcStart, dcAir>>
  <2>1. Accounted(dcSent', dcAir, dcStart, dcNow)
    BY <1>0, <1>2, StillAccounted
  <2> QED BY <1>0, <1>2, <2>1 DEF AirInv
<1> QED BY <1>1, <1>2 DEF Transmit

LEMMA TickKeeps == ASSUME AirInv, SleepInv, ProcessTick PROVE AirInv' /\ SleepInv'
<1>0. Accounted(dcSent, dcAir, dcStart, dcNow) /\ dcNow \in Nat /\ dcAir' = dcAir /\ dcStart' = dcStart
  BY DEF AirInv, Accounted, ProcessTick
<1>1. DcActive \in Nat /\ DcSleep \in Nat \ {0} /\ (1 + DcSleep) \div 2 \in Nat
  BY DcAssumption
<1>2. ASSUME dcNow' \in Nat, NEW m \in Nat, dcNow <= m, m <= dcNow', dcSent' = dcSent \/ dcSent' = Within(dcSent, m)
      PROVE  AirInv'
  <2>1. dcNow <= dcNow'
    BY <1>0, <1>2
  <2>2. Accounted(dcSent', dcAir, dcStart, dcNow')
    BY <1>0, <1>2, <2>1, StillAccounted
  <2> QED BY <1>0, <2>2 DEF AirInv
<1>3. CASE LowPowerTick
  <2> DEFINE then == dcNow + DcActive
             awake == Radio!SetRx(dcRadio)
  <2>1. /\ dcSent' = Within(dcSent, then) /\ dcNow' \in {then + DcSleep, then + 1}
        /\ \/ Radio!MaySleep(awake) /\ dcRadio' = Radio!SetSleep(awake) /\ dcSlept' = dcSlept + 1
           \/ dcRadio' = awake /\ dcSlept' = dcSlept
    BY <1>3 DEF LowPowerTick
  <2>2. AirInv'
    <3>1. then \in Nat /\ dcNow <= then /\ dcNow' \in Nat /\ then <= dcNow'
      BY <1>0, <1>1, <2>1
    <3> QED BY <1>2, <2>1, <3>1
  <2>3. SleepInv'
    <3>1. dcRadio \in [mode : Radio!RadioState, state : Radio!RadioState]
      BY DEF SleepInv
    <3>2. awake \in [mode : Radio!RadioState, state : Radio!RadioState] /\ Radio!MaySleep(awake) = Radio!MaySleep(dcRadio)
      BY <3>1, RadioCommands
    <3> HIDE DEF awake
    <3>3. Radio!SetSleep(awake) \in [mode : Radio!RadioState, state : Radio!RadioState] /\ ~Radio!MaySleep(Radio!SetSleep(awake))
      BY <3>2, RadioCommands
    <3> QED BY <2>1, <3>2, <3>3 DEF SleepInv
  <2> QED BY <2>2, <2>3
<1>4. CASE UltraLowPowerTick
  <2>1. AdaptiveSleep \in Nat
    BY <1>1 DEF AdaptiveSleep
  <2>2. dcNow' \in {dcNow + AdaptiveSleep, dcNow + 1} /\ (dcSent' = dcSent \/ dcSent' = Within(dcSent, dcNow)) /\ dcSlept' = dcSlept
    BY <1>4 DEF UltraLowPowerTick
  <2>3. AirInv'
    <3>1. dcNow <= dcNow /\ dcNow' \in Nat /\ dcNow <= dcNow'
      BY <1>0, <2>1, <2>2
    <3> QED BY <1>0, <1>2, <2>2, <3>1
  <2>4. SleepInv'
    <3>1. dcRadio \in [mode : Radio!RadioState, state : Radio!RadioState] /\ (dcSlept = 1 => ~Radio!MaySleep(dcRadio)) /\ dcSlept \in {0, 1}
      BY DEF SleepInv
    <3> DEFINE asleep == Radio!SetSleep(dcRadio)
    <3>2. asleep \in [mode : Radio!RadioState, state : Radio!RadioState] /\ ~Radio!MaySleep(asleep)
      BY <3>1, RadioCommands
    <3>3. dcRadio' \in {Radio!SetRx(asleep), dcRadio}
      BY <1>4 DEF UltraLowPowerTick
    <3> HIDE DEF asleep
    <3>4. Radio!SetRx(asleep) \in [mode : Radio!RadioState, state : Radio!RadioState] /\ ~Radio!MaySleep(Radio!SetRx(asleep))
      BY <3>2, RadioCommands
    <3> QED BY <2>2, <3>1, <3>3, <3>4 DEF SleepInv
  <2> QED BY <2>3, <2>4
<1>5. CASE IdleTick
  <2>1. dcNow' = dcNow + 1 /\ dcSent' = dcSent /\ dcSlept' = dcSlept /\ dcRadio' = dcRadio
    BY <1>5 DEF IdleTick
  <2>2. dcNow <= dcNow /\ dcNow' \in Nat /\ dcNow <= dcNow'
    BY <1>0, <2>1
  <2>3. AirInv'
    BY <1>0, <1>2, <2>1, <2>2
  <2> QED BY <2>1, <2>3 DEF SleepInv
<1> QED BY <1>3, <1>4, <1>5 DEF ProcessTick

LEMMA DutyCycleSteps == AirInv /\ SleepInv /\ [DcNext]_dcVars => AirInv' /\ SleepInv'
<1> SUFFICES ASSUME AirInv, SleepInv, [DcNext]_dcVars PROVE AirInv' /\ SleepInv'
  OBVIOUS
<1>1. ASSUME NEW m \in PowerMode, SetPowerMode(m) PROVE AirInv' /\ SleepInv'
  <2>1. AirInv'
    BY <1>1 DEF SetPowerMode, AirInv
  <2>2. \/ dcRadio' = Radio!SetSleep(dcRadio) /\ dcSlept' = dcSlept
        \/ dcRadio' = Radio!SetStandby(dcRadio) /\ dcSlept' = 0
        \/ dcRadio' = dcRadio /\ dcSlept' = dcSlept
    BY <1>1 DEF SetPowerMode
  <2>3. SleepInv'
    BY <2>2, RadioCommands DEF SleepInv
  <2> QED BY <2>1, <2>3
<1>2. ASSUME NEW dur \in DcAirtimes, Transmit(dur) PROVE AirInv' /\ SleepInv'
  <2>1. AirInv'
    BY <1>2, TransmitKeeps
  <2>2. SleepInv'
    <3>1. dcRadio' \in {Radio!SetTx(dcRadio), dcRadio} /\ dcSlept' = dcSlept
      BY <1>2 DEF Transmit
    <3> QED BY <3>1, RadioCommands DEF SleepInv
  <2> QED BY <2>1, <2>2
<1>3. CASE Wake
  BY <1>3, RadioCommands DEF Wake, AirInv, SleepInv
<1>4. CASE Run
  BY <1>4 DEF Run, AirInv, SleepInv
<1>5. CASE ProcessTick
  BY <1>5, TickKeeps
<1>6. CASE Elapse
  <2>1. /\ Accounted(dcSent, dcAir, dcStart, dcNow) /\ dcNow \in Nat
        /\ dcNow' = dcNow + 1 /\ UNCHANGED <<dcSent, dcAir, dcStart, dcSlept, dcRadio>>
    BY <1>6 DEF AirInv, Accounted, Elapse
  <2>2. dcNow <= dcNow /\ dcNow <= dcNow + 1 /\ dcNow + 1 \in Nat
    BY <2>1
  <2>3. Accounted(dcSent, dcAir, dcStart, dcNow + 1)
    BY <2>1, <2>2, StillAccounted
  <2> QED BY <2>1, <2>3 DEF AirInv, SleepInv
<1>7. CASE UNCHANGED dcVars
  BY <1>7 DEF dcVars, AirInv, SleepInv
<1> QED BY <1>1, <1>2, <1>3, <1>4, <1>5, <1>6, <1>7 DEF DcNext

LEMMA DutyCycleHolds == AirInv /\ SleepInv => OveruseBounded /\ SleepsOnce
<1> SUFFICES ASSUME AirInv, SleepInv PROVE OveruseBounded
  BY DEF SleepInv, SleepsOnce
<1> DEFINE F == Forgotten(dcAir, dcStart, dcNow)
           E == {t \in DOMAIN dcAir : t > dcNow - DcWindow /\ t >= dcStart}
<1>1. /\ dcNow \in Nat /\ dcStart \in 0..dcNow /\ Counts(dcSent) /\ DOMAIN dcSent \subseteq 0..dcNow
      /\ Counts(dcAir) /\ DOMAIN dcAir \subseteq 0..dcNow
      /\ Used(dcSent, dcNow) <= DcLimit /\ Airtime(Restrict(dcAir, F)) < DcLimit
  BY DEF AirInv, Accounted
<1>2. \A t \in 0..dcNow : t > dcNow - DcWindow =>
       /\ t \in DOMAIN dcSent <=> t \in DOMAIN dcAir /\ t >= dcStart
       /\ t \in DOMAIN dcSent => dcSent[t] = dcAir[t]
  BY DEF AirInv, Accounted
<1>3. /\ F \in SUBSET DOMAIN dcAir /\ E \in SUBSET DOMAIN dcAir /\ F \cap E = {}
      /\ F \cup E = {t \in DOMAIN dcAir : t > dcNow - DcWindow}
  BY <1>1 DEF Forgotten
<1>4. E = {t \in DOMAIN dcSent : t > dcNow - DcWindow} /\ \A t \in E : dcAir[t] = dcSent[t]
  BY <1>1, <1>2
<1> HIDE DEF E, F
<1>5. Restrict(dcAir, E) = Within(dcSent, dcNow) /\ Within(dcAir, dcNow) = Restrict(dcAir, F \cup E)
  BY <1>3, <1>4, SameHistory DEF Within
<1>6. Airtime(Restrict(dcAir, F \cup E)) = Airtime(Restrict(dcAir, F)) + Airtime(Restrict(dcAir, E))
  BY <1>1, <1>3, PartsAdd
<1>7. Airtime(Restrict(dcAir, F)) \in Nat /\ Airtime(Restrict(dcAir, E)) \in Nat /\ DcLimit \in Nat
  BY <1>1, <1>3, PartOf, AirtimeIs, AirtimeAssumption
<1>8. Airtime(Restrict(dcAir, E)) <= DcLimit
  BY <1>1, <1>5 DEF Used
<1>9. Used(dcAir, dcNow) = Airtime(Restrict(dcAir, F)) + Airtime(Restrict(dcAir, E))
  BY <1>5, <1>6 DEF Used
<1> QED BY <1>1, <1>7, <1>8, <1>9 DEF OveruseBounded

-----------------------------------------------------------------------------
(* The queue of interrupts.                                                *)

(* A call of process_all_events under way has spilt nothing yet, and what a *)
(* refused event takes with it is of the seven interrupts.                 *)
QueueInv ==
  /\ iqPending \subseteq ToSet(CheckOrder)
  /\ iqStats \in [total : Nat, dropped : Nat] /\ iqLost \in Nat
  /\ iqLost <= 7 * iqStats.dropped
  /\ iqSpilt \in Nat /\ iqDrains \in Nat /\ iqDrain \in BOOLEAN
  /\ iqSpilt <= iqDrains /\ (iqDrain => iqSpilt < iqDrains)

LEMMA SevenChecks == Len(CheckOrder) = 7 /\ DOMAIN CheckOrder = 1..7
BY DEF CheckOrder

LEMMA FlagsCounted ==
  ASSUME NEW F \in SUBSET ToSet(CheckOrder)
  PROVE  Cardinality(F) \in Nat /\ Cardinality(F) <= 7
<1>1. IsFiniteSet(1..7) /\ Cardinality(1..7) = 7
  <2>1. \A n \in Nat : IsFiniteSet(1..n) /\ Cardinality(1..n) = IF 1 > n THEN 0 ELSE n - 1 + 1
    BY FS_Interval
  <2>2. \A n \in Nat : n > 0 => Cardinality(1..n) = n
    BY <2>1
  <2>3. 7 \in Nat /\ 7 > 0
    OBVIOUS
  <2> QED BY <2>1, <2>2, <2>3
<1>2. CheckOrder \in [1..7 -> ToSet(CheckOrder)] /\ ToSet(CheckOrder) = {CheckOrder[i] : i \in 1..7}
  BY SevenChecks DEF ToSet, CheckOrder
<1>3. IsFiniteSet(ToSet(CheckOrder)) /\ Cardinality(ToSet(CheckOrder)) <= 7
  <2>1. CheckOrder \in Surjection(1..7, ToSet(CheckOrder))
    <3>1. \A t \in ToSet(CheckOrder) : \E i \in 1..7 : CheckOrder[i] = t
      BY <1>2
    <3> QED BY <1>2, <3>1 DEF Surjection
  <2> QED BY <1>1, <2>1, FS_Surjection
<1>4. IsFiniteSet(F) /\ Cardinality(F) <= Cardinality(ToSet(CheckOrder))
  BY <1>3, FS_Subset
<1>5. Cardinality(F) \in Nat /\ Cardinality(ToSet(CheckOrder)) \in Nat
  BY <1>3, <1>4, FS_CardinalityType
<1> QED BY <1>3, <1>4, <1>5

LEMMA QueueStarts == IqInit => QueueInv
<1> SUFFICES ASSUME IqInit PROVE QueueInv
  OBVIOUS
<1>1. /\ iqPending = {} /\ iqStats = [total |-> 0, dropped |-> 0] /\ iqLost = 0
      /\ iqSpilt = 0 /\ iqDrains = 0 /\ iqDrain = FALSE
  BY DEF IqInit, NoStats
<1>2. iqStats \in [total : Nat, dropped : Nat] /\ iqStats.dropped = 0
  BY <1>1
<1>3. iqLost \in Nat /\ iqLost <= 7 * iqStats.dropped
  BY <1>1, <1>2
<1>4. iqSpilt \in Nat /\ iqDrains \in Nat /\ iqSpilt <= iqDrains
  BY <1>1
<1>5. iqDrain \in BOOLEAN /\ ~iqDrain /\ iqPending \subseteq ToSet(CheckOrder)
  BY <1>1
<1> QED BY <1>2, <1>3, <1>4, <1>5 DEF QueueInv

LEMMA QueueSteps == QueueInv /\ [IqNext]_iqVars => QueueInv'
<1> SUFFICES ASSUME QueueInv, [IqNext]_iqVars PROVE QueueInv'
  OBVIOUS
<1>1. ASSUME NEW flags \in SUBSET IqFlags, ProcessIrqStatus(flags) PROVE QueueInv'
  BY <1>1, IqFlagsAssumption DEF ProcessIrqStatus, QueueInv
<1>2. CASE QueueEvent
  <2>1. CASE iqPending' = iqPending \ {FirstOf(iqPending)} /\ iqStats' = Counted(iqStats) /\ iqLost' = iqLost
    <3>1. iqStats' \in [total : Nat, dropped : Nat] /\ iqStats'.dropped = iqStats.dropped
      BY <2>1 DEF QueueInv, Counted
    <3> QED BY <1>2, <2>1, <3>1 DEF QueueInv, QueueEvent
  <2>2. CASE iqPending' = {} /\ iqStats' = Dropped(iqStats) /\ iqLost' = iqLost + Cardinality(iqPending)
    <3>1. iqStats' \in [total : Nat, dropped : Nat] /\ iqStats'.dropped = iqStats.dropped + 1
      <4>1. iqStats \in [total : Nat, dropped : Nat] /\ iqStats.total \in Nat /\ iqStats.dropped \in Nat
        BY DEF QueueInv
      <4>2. iqStats' = [total |-> iqStats.total + 1, dropped |-> iqStats.dropped + 1]
        BY <2>2, <4>1 DEF Dropped
      <4> QED BY <4>1, <4>2
    <3>2. Cardinality(iqPending) \in Nat /\ Cardinality(iqPending) <= 7
      BY FlagsCounted DEF QueueInv
    <3>3. iqStats.dropped \in Nat /\ iqLost \in Nat /\ iqLost <= 7 * iqStats.dropped
      BY DEF QueueInv
    <3>4. iqLost' \in Nat /\ iqLost' <= 7 * iqStats'.dropped
      BY <2>2, <3>1, <3>2, <3>3
    <3> QED BY <1>2, <2>2, <3>1, <3>4 DEF QueueInv, QueueEvent
  <2> QED BY <1>2, <2>1, <2>2 DEF QueueEvent
<1>3. CASE GetNextEvent \/ IrqProcessorTask
  BY <1>3 DEF GetNextEvent, IrqProcessorTask, TakeRx, ReceiveAs, QueueInv
<1>4. CASE ProcessAllEvents
  <2>1. /\ iqPending' = iqPending /\ iqStats' = iqStats /\ iqLost' = iqLost
        /\ \/ ~iqDrain /\ iqDrain' = TRUE /\ iqDrains' = iqDrains + 1 /\ iqSpilt' = iqSpilt
           \/ iqDrain' = FALSE /\ iqSpilt' = iqSpilt /\ iqDrains' = iqDrains
           \/ iqDrain' = iqDrain /\ iqSpilt' = iqSpilt /\ iqDrains' = iqDrains
           \/ iqDrain /\ iqDrain' = FALSE /\ iqSpilt' = iqSpilt + 1 /\ iqDrains' = iqDrains
    BY <1>4 DEF ProcessAllEvents
  <2>2. /\ iqSpilt \in Nat /\ iqDrains \in Nat /\ iqDrain \in BOOLEAN
        /\ iqSpilt <= iqDrains /\ (iqDrain => iqSpilt < iqDrains)
    BY DEF QueueInv
  <2>3. /\ iqSpilt' \in Nat /\ iqDrains' \in Nat /\ iqDrain' \in BOOLEAN
        /\ iqSpilt' <= iqDrains' /\ (iqDrain' => iqSpilt' < iqDrains')
    <3>1. CASE ~iqDrain /\ iqDrain' = TRUE /\ iqDrains' = iqDrains + 1 /\ iqSpilt' = iqSpilt
      <4>1. iqSpilt' \in Nat /\ iqDrains' \in Nat /\ iqSpilt' <= iqDrains' /\ iqSpilt' < iqDrains'
        BY <2>2, <3>1
      <4> QED BY <3>1, <4>1
    <3>2. CASE iqDrain' = FALSE /\ iqSpilt' = iqSpilt /\ iqDrains' = iqDrains
      BY <2>2, <3>2
    <3>3. CASE iqDrain' = iqDrain /\ iqSpilt' = iqSpilt /\ iqDrains' = iqDrains
      BY <2>2, <3>3
    <3>4. CASE iqDrain /\ iqDrain' = FALSE /\ iqSpilt' = iqSpilt + 1 /\ iqDrains' = iqDrains
      <4>1. iqSpilt < iqDrains
        BY <2>2, <3>4
      <4>2. iqSpilt' \in Nat /\ iqDrains' \in Nat /\ iqSpilt' <= iqDrains'
        BY <2>2, <3>4, <4>1
      <4> QED BY <3>4, <4>2
    <3> QED BY <2>1, <3>1, <3>2, <3>3, <3>4
  <2> QED BY <2>1, <2>3 DEF QueueInv
<1>5. CASE ResetStats
  BY <1>5 DEF ResetStats, NoStats, QueueInv
<1>6. CASE UNCHANGED iqVars
  BY <1>6 DEF iqVars, QueueInv
<1> QED BY <1>1, <1>2, <1>3, <1>4, <1>5, <1>6 DEF IqNext

LEMMA QueueHolds == QueueInv => LossBounded
BY SevenChecks DEF QueueInv, LossBounded

-----------------------------------------------------------------------------
(* The pins and their holders.                                             *)

PinInv ==
  /\ gpHolder \in [GpPins -> {"free", "hal", "gpio"}]
  /\ gpConfig \in [GpPins -> [debounce : Nat, since : Nat]]
  /\ Held("hal") = {} \/ \E pins \in GpWirings : Held("hal") = ToSet(pins)

(* A non-empty set of numbers with a bound has a greatest one.              *)
LEMMA GreatestNatural ==
  ASSUME NEW n \in Nat, NEW S \in SUBSET (0..n), S # {}
  PROVE  \E x \in S : \A y \in S : y <= x
<1> DEFINE B == {b \in 0..n : \A y \in S : y <= b}
<1>1. B \in SUBSET Nat /\ B # {}
  <2>1. n \in B
    OBVIOUS
  <2> QED BY <2>1
<1>2. PICK b \in B : \A c \in B : b <= c
  BY <1>1, LeastNatural
<1>3. b \in S
  <2> SUFFICES ASSUME b \notin S PROVE FALSE
    OBVIOUS
  <2>1. \A y \in S : y < b
    BY <1>2
  <2>2. b - 1 \in B
    <3>0. PICK least \in S : least < b
      BY <2>1
    <3>1. b > 0
      BY <1>2, <3>0
    <3>2. b - 1 \in 0..n /\ \A y \in S : y <= b - 1
      BY <1>2, <2>1, <3>1
    <3> QED BY <3>2
  <2>3. ~(b <= b - 1)
    BY <1>2
  <2> QED BY <1>2, <2>2, <2>3
<1> QED BY <1>2, <1>3

LEMMA PinsStart == GpInit => PinInv
BY DEF GpInit, PinInv, Held, NotWatched

PinsKept == BuildHal \/ DropHal \/ SetupInterrupts \/ RemoveInterrupt

LEMMA OtherSteps ==
  ASSUME [GpNext]_gpVars PROVE PinsKept \/ UNCHANGED gpPinVars
BY DEF GpNext, gpVars, gpPinVars, gpEventVars, PinsKept, WriteCommand, ReadCommand, ResetRadio, ChipReady, Callback, PollEvents, WaitForPin,
       WaitChecks, WaitReckons, WaitReceives, WaitTimesOut, Waiting, FifoFills, UseFifo, UseSoftware, GpTick

(* What setup_interrupt takes was free.                                     *)
LEMMA SetupTakes ==
  ASSUME PinInv, gpLog \in Seq([pin : GpPins, at : Nat, skipped : BOOLEAN, mine : BOOLEAN, within : Nat]), SetupInterrupts
  PROVE  \E ready \in SUBSET {p \in GpPins : gpHolder[p] = "free"} :
           /\ gpHolder' = [p \in GpPins |-> IF p \in ready THEN "gpio" ELSE gpHolder[p]]
           /\ gpConfig' \in [GpPins -> [debounce : Nat, since : Nat]]
           /\ \A p \in ready : gpConfig'[p].since = Len(gpLog)
           /\ \A p \in GpPins \ ready : gpConfig'[p] = gpConfig[p]
<1>1. PICK configs \in GpSetups, fault \in BOOLEAN :
        LET n == Len(configs)
            Free(i) == gpHolder[configs[i].pin] = "free" /\ \A j \in 1..i - 1 : configs[j].pin # configs[i].pin
            upto == Max({i \in 0..IF fault THEN n - 1 ELSE n : \A j \in 1..i : Free(j)})
            ready == {configs[i].pin : i \in 1..upto}
            ConfigOf(p) == CHOOSE c \in {configs[i] : i \in 1..upto} : c.pin = p
        IN /\ gpHolder' = [p \in GpPins |-> IF p \in ready THEN "gpio" ELSE gpHolder[p]]
           /\ gpConfig' = [p \in GpPins |-> IF p \in ready THEN [debounce |-> ConfigOf(p).debounce, since |-> Len(gpLog)]
                                                          ELSE gpConfig[p]]
  BY DEF SetupInterrupts
<1> DEFINE n == Len(configs)
           Free(i) == gpHolder[configs[i].pin] = "free" /\ \A j \in 1..i - 1 : configs[j].pin # configs[i].pin
           S == {i \in 0..IF fault THEN n - 1 ELSE n : \A j \in 1..i : Free(j)}
           upto == Max(S)
           ready == {configs[i].pin : i \in 1..upto}
           ConfigOf(p) == CHOOSE c \in {configs[i] : i \in 1..upto} : c.pin = p
<1>2. /\ gpHolder' = [p \in GpPins |-> IF p \in ready THEN "gpio" ELSE gpHolder[p]]
      /\ gpConfig' = [p \in GpPins |-> IF p \in ready THEN [debounce |-> ConfigOf(p).debounce, since |-> Len(gpLog)]
                                                     ELSE gpConfig[p]]
  BY <1>1
<1>3. n \in Nat \ {0} /\ \A i \in 1..n : configs[i] \in [pin : GpPins, debounce : Nat]
  <2>1. configs \in Seq([pin : GpPins, debounce : Nat]) /\ configs # <<>>
    BY GpAssumption
  <2>2. Len(configs) \in Nat /\ Len(configs) # 0
    BY <2>1, EmptySeq
  <2>3. \A i \in 1..Len(configs) : configs[i] \in [pin : GpPins, debounce : Nat]
    BY <2>1, ElementOfSeq
  <2>4. n = Len(configs)
    OBVIOUS
  <2> HIDE DEF n
  <2> QED BY <2>2, <2>3, <2>4
<1>4. upto \in S
  <2>1. 0 \in S /\ S \in SUBSET (0..n)
    BY <1>3
  <2> HIDE DEF S
  <2>2. \E x \in S : \A y \in S : y <= x
    BY <1>3, <2>1, GreatestNatural
  <2>3. \E x \in S : \A y \in S : x >= y
    <3>1. \A x \in S, y \in S : x >= y <=> y <= x
      BY <1>3, <2>1
    <3> QED BY <2>2, <3>1
  <2> QED BY <2>3 DEF Max
<1>5. 1..upto \subseteq 1..n /\ \A j \in 1..upto : Free(j)
  <2>1. upto \in 0..n
    <3>1. S \subseteq 0..n
      BY <1>3
    <3> HIDE DEF S
    <3> QED BY <1>4, <3>1
  <2>2. \A j \in 1..upto : Free(j)
    BY <1>4
  <2> HIDE DEF upto
  <2> QED BY <1>3, <2>1, <2>2
<1> HIDE DEF upto, S
<1>6. ready \in SUBSET {p \in GpPins : gpHolder[p] = "free"}
  BY <1>3, <1>5
<1>7. \A p \in ready : ConfigOf(p).debounce \in Nat
  <2> SUFFICES ASSUME NEW p \in ready PROVE ConfigOf(p).debounce \in Nat
    OBVIOUS
  <2>1. \E c \in {configs[i] : i \in 1..upto} : c.pin = p
    OBVIOUS
  <2>2. ConfigOf(p) \in {configs[i] : i \in 1..upto}
    BY <2>1
  <2> QED BY <1>3, <1>5, <2>2
<1> HIDE DEF ready
<1>8. Len(gpLog) \in Nat /\ gpConfig \in [GpPins -> [debounce : Nat, since : Nat]]
  BY DEF PinInv
<1>9. gpConfig' \in [GpPins -> [debounce : Nat, since : Nat]]
  BY <1>2, <1>7, <1>8
<1>10. (\A p \in ready : gpConfig'[p].since = Len(gpLog)) /\ \A p \in GpPins \ ready : gpConfig'[p] = gpConfig[p]
  BY <1>2, <1>6
<1> QED BY <1>2, <1>6, <1>9, <1>10

LEMMA PinsStep ==
  ASSUME PinInv, gpLog \in Seq([pin : GpPins, at : Nat, skipped : BOOLEAN, mine : BOOLEAN, within : Nat]), [GpNext]_gpVars
  PROVE  PinInv'
<1>0. gpHolder \in [GpPins -> {"free", "hal", "gpio"}] /\ gpConfig \in [GpPins -> [debounce : Nat, since : Nat]]
  BY DEF PinInv
<1>1. CASE BuildHal
  <2>1. Held("hal") = {} /\ UNCHANGED gpConfig
    BY <1>1 DEF BuildHal
  <2>2. PICK pins \in GpWirings : gpHolder' = Acquired(pins)
    BY <1>1 DEF BuildHal
  <2>3. CASE gpHolder' = gpHolder
    BY <2>1, <2>3 DEF PinInv, Held
  <2>4. CASE gpHolder' = [p \in GpPins |-> IF p \in ToSet(pins) THEN "hal" ELSE gpHolder[p]]
    <3>1. ToSet(pins) \subseteq GpPins
      BY GpAssumption DEF ToSet
    <3>2. Held("hal")' = ToSet(pins)
      BY <2>1, <2>4, <3>1 DEF Held
    <3> QED BY <1>0, <2>1, <2>4, <3>2 DEF PinInv
  <2> QED BY <2>2, <2>3, <2>4 DEF Acquired
<1>2. CASE DropHal
  <2>1. gpHolder' = [p \in GpPins |-> IF gpHolder[p] = "hal" THEN "free" ELSE gpHolder[p]] /\ UNCHANGED gpConfig
    BY <1>2 DEF DropHal
  <2>2. Held("hal")' = {}
    BY <2>1 DEF Held
  <2> QED BY <1>0, <2>1, <2>2 DEF PinInv
<1>3. CASE SetupInterrupts
  <2>1. PICK ready \in SUBSET {p \in GpPins : gpHolder[p] = "free"} :
          /\ gpHolder' = [p \in GpPins |-> IF p \in ready THEN "gpio" ELSE gpHolder[p]]
          /\ gpConfig' \in [GpPins -> [debounce : Nat, since : Nat]]
    BY <1>3, SetupTakes
  <2>2. Held("hal")' = Held("hal")
    BY <2>1 DEF Held
  <2> QED BY <1>0, <2>1, <2>2 DEF PinInv
<1>4. CASE RemoveInterrupt
  <2>1. PICK p \in GpPins : /\ gpHolder[p] # "hal" /\ gpHolder' = [gpHolder EXCEPT ![p] = "free"]
                            /\ gpConfig' = [gpConfig EXCEPT ![p] = NotWatched]
    BY <1>4 DEF RemoveInterrupt
  <2>2. Held("hal")' = Held("hal")
    BY <1>0, <2>1 DEF Held
  <2>3. NotWatched \in [debounce : Nat, since : Nat]
    BY DEF NotWatched
  <2> QED BY <1>0, <2>1, <2>2, <2>3 DEF PinInv
<1>5. CASE UNCHANGED gpPinVars
  BY <1>5 DEF gpPinVars, PinInv, Held
<1> QED BY <1>1, <1>2, <1>3, <1>4, <1>5, OtherSteps DEF PinsKept

(* The chip: a command is missed only while it is busy, and its caller was  *)
(* told when it went busy.                                                 *)
ChipInv ==
  /\ gpChip \in [busy : BOOLEAN, missed : Nat, errors : Nat]
  /\ gpChip.busy \/ gpChip.missed > 0 => gpChip.errors > 0

LEMMA ChipStarts == GpInit => ChipInv
BY DEF GpInit, ChipInv

LEMMA ChipStep == ChipInv /\ [GpNext]_gpVars => ChipInv'
<1> SUFFICES ASSUME ChipInv, [GpNext]_gpVars PROVE ChipInv'
  OBVIOUS
<1>0. /\ gpChip \in [busy : BOOLEAN, missed : Nat, errors : Nat]
      /\ gpChip.busy \in BOOLEAN /\ gpChip.missed \in Nat /\ gpChip.errors \in Nat
      /\ (gpChip.busy => gpChip.errors > 0) /\ (gpChip.missed > 0 => gpChip.errors > 0)
  BY DEF ChipInv
<1>1. ASSUME gpChip' = [gpChip EXCEPT !.errors = @ + 1] PROVE ChipInv'
  <2>1. gpChip' = [busy |-> gpChip.busy, missed |-> gpChip.missed, errors |-> gpChip.errors + 1]
    BY <1>0, <1>1
  <2> QED BY <1>0, <2>1 DEF ChipInv
<1>2. ASSUME gpChip' = [gpChip EXCEPT !.busy = FALSE] PROVE ChipInv'
  <2>1. gpChip' = [busy |-> FALSE, missed |-> gpChip.missed, errors |-> gpChip.errors]
    BY <1>0, <1>2
  <2> QED BY <1>0, <2>1 DEF ChipInv
<1>3. ASSUME gpChip' = gpChip PROVE ChipInv'
  BY <1>3 DEF ChipInv
<1>4. CASE WriteCommand
  <2>1. PICK still \in BOOLEAN :
          \/ gpChip' = [gpChip EXCEPT !.errors = @ + 1]
          \/ gpChip' = [busy |-> still, missed |-> gpChip.missed + IF gpChip.busy THEN 1 ELSE 0,
                        errors |-> gpChip.errors + IF WaitBusyLow(TRUE, still) THEN 0 ELSE 1]
    BY <1>4 DEF WriteCommand
  <2>2. CASE gpChip' = [busy |-> still, missed |-> gpChip.missed + IF gpChip.busy THEN 1 ELSE 0,
                        errors |-> gpChip.errors + IF WaitBusyLow(TRUE, still) THEN 0 ELSE 1]
    <3>1. /\ gpChip'.busy = still /\ gpChip'.busy \in BOOLEAN
          /\ gpChip'.missed = gpChip.missed + (IF gpChip.busy THEN 1 ELSE 0) /\ gpChip'.missed \in Nat
          /\ gpChip'.errors = gpChip.errors + (IF still THEN 1 ELSE 0) /\ gpChip'.errors \in Nat
          /\ gpChip' \in [busy : BOOLEAN, missed : Nat, errors : Nat]
      BY <1>0, <2>2 DEF WaitBusyLow
    <3>2. gpChip'.busy => gpChip'.errors > 0
      BY <1>0, <3>1
    <3>3. gpChip'.missed > 0 => gpChip'.errors > 0
      BY <1>0, <3>1
    <3> QED BY <3>1, <3>2, <3>3 DEF ChipInv
  <2> QED BY <1>1, <2>1, <2>2
<1>5. CASE ReadCommand \/ ResetRadio \/ ChipReady
  BY <1>1, <1>2, <1>3, <1>5 DEF ReadCommand, ResetRadio, ChipReady
<1>6. CASE GpNext /\ ~WriteCommand /\ ~ReadCommand /\ ~ResetRadio /\ ~ChipReady
  BY <1>3, <1>6 DEF GpNext, BuildHal, DropHal, SetupInterrupts, RemoveInterrupt, Callback, PollEvents, WaitForPin,
       WaitChecks, WaitReckons, WaitReceives, WaitTimesOut, Waiting, FifoFills, UseFifo, UseSoftware, GpTick
<1>7. CASE UNCHANGED gpVars
  BY <1>3, <1>7 DEF gpVars
<1> QED BY <1>4, <1>5, <1>6, <1>7

(* The words of the FIFO.                                                  *)
WordInv ==
  /\ gpFifo \in [words : Seq(SUBSET {0, 1}), cycles : Nat, pushed : Seq(SUBSET {0, 1}), taken : Seq(SUBSET {0, 1})]
  /\ WordsKept

LEMMA WordsStart == GpInit => WordInv
BY DEF GpInit, WordInv, WordsKept

LEMMA JoinedMove ==
  ASSUME NEW T, NEW s \in Seq(T), NEW t \in Seq(T), t # <<>>
  PROVE  s \o t = Append(s, Head(t)) \o Tail(t)
OBVIOUS

LEMMA JoinedSplit ==
  ASSUME NEW T, NEW s \in Seq(T), NEW t \in Seq(T), NEW n \in 0..Len(t)
  PROVE  /\ SubSeq(t, 1, n) \in Seq(T) /\ SubSeq(t, n + 1, Len(t)) \in Seq(T)
         /\ s \o t = (s \o SubSeq(t, 1, n)) \o SubSeq(t, n + 1, Len(t))
<1> DEFINE l == SubSeq(t, 1, n)
           r == SubSeq(t, n + 1, Len(t))
<1>1. Len(t) \in Nat /\ n \in Nat /\ n <= Len(t)
  BY LenProperties
<1>2. l \in Seq(T) /\ r \in Seq(T)
  <2>1. \A i \in 1..Len(t) : t[i] \in T
    BY ElementOfSeq
  <2>2. (\A i \in 1..n : t[i] \in T) /\ \A i \in n + 1..Len(t) : t[i] \in T
    BY <1>1, <2>1
  <2> QED BY <1>1, <2>2, SubSeqProperties
<1>3. t = l \o r
  <2>1. 1 \in 1..Len(t) + 1 /\ n \in 1 - 1..Len(t) /\ Len(t) \in n..Len(t)
    BY <1>1
  <2>2. SubSeq(t, 1, n) \o SubSeq(t, n + 1, Len(t)) = SubSeq(t, 1, Len(t))
    BY <2>1, ConcatAdjacentSubSeq
  <2> QED BY <2>2, SubSeqFull
<1> HIDE DEF l, r
<1>4. s \o (l \o r) = (s \o l) \o r
  BY <1>2, ConcatAssociative, SMTT(30)
<1>5. l \in Seq(T) /\ r \in Seq(T) /\ s \o t = (s \o l) \o r
  BY <1>2, <1>3, <1>4
<1> QED BY <1>5 DEF l, r

LEMMA WordsStep == WordInv /\ [GpNext]_gpVars => WordInv'
<1> SUFFICES ASSUME WordInv, [GpNext]_gpVars PROVE WordInv'
  OBVIOUS
<1> DEFINE W == SUBSET {0, 1}
           f == gpFifo
<1> HIDE DEF W
<1>0. /\ f = [words |-> f.words, cycles |-> f.cycles, pushed |-> f.pushed, taken |-> f.taken]
      /\ f.words \in Seq(W) /\ f.cycles \in Nat /\ f.pushed \in Seq(W) /\ f.taken \in Seq(W)
      /\ f.pushed = f.taken \o f.words
  BY DEF WordInv, WordsKept, W
<1>1. ASSUME NEW w \in Seq(W), NEW t \in Seq(W), NEW p \in Seq(W), NEW c \in Nat,
             gpFifo' = [words |-> w, cycles |-> c, pushed |-> p, taken |-> t], p = t \o w
      PROVE  WordInv'
  BY <1>1 DEF WordInv, WordsKept, W
<1>2. CASE FifoFills
  <2>1. PICK lines \in W : gpFifo' = [f EXCEPT !.words = Append(@, lines), !.pushed = Append(@, lines)]
    BY <1>2 DEF FifoFills, W
  <2>2. gpFifo' = [words |-> Append(f.words, lines), cycles |-> f.cycles, pushed |-> Append(f.pushed, lines), taken |-> f.taken]
    BY <1>0, <2>1
  <2>3. Append(f.words, lines) \in Seq(W) /\ Append(f.pushed, lines) \in Seq(W)
    BY <1>0
  <2>4. Append(f.pushed, lines) = f.taken \o Append(f.words, lines)
    <3>1. f.taken \in Seq(W) /\ f.words \in Seq(W) /\ lines \in W /\ f.pushed = f.taken \o f.words
      BY <1>0
    <3> HIDE DEF f
    <3>2. <<lines>> \in Seq(W)
      OBVIOUS
    <3>3. Append(f.pushed, lines) = f.pushed \o <<lines>> /\ Append(f.words, lines) = f.words \o <<lines>>
      BY <1>0, AppendIsConcat
    <3>4. (f.taken \o f.words) \o <<lines>> = f.taken \o (f.words \o <<lines>>)
      <4> DEFINE one == <<lines>>
                 a == f.taken
                 b == f.words
      <4>1. one \in Seq(W) /\ a \in Seq(W) /\ b \in Seq(W)
        BY <3>1, <3>2
      <4> HIDE DEF one, a, b
      <4>2. (a \o b) \o one = a \o (b \o one)
        BY <4>1, ConcatAssociative
      <4> QED BY <4>2 DEF one, a, b
    <3> QED BY <3>1, <3>3, <3>4
  <2> QED BY <1>0, <1>1, <2>2, <2>3, <2>4
<1>3. CASE UseFifo
  <2>1. ASSUME NEW mask \in SUBSET {0, 1}, NEW us \in {0, 10}, DebounceIrq(mask, us) PROVE WordInv'
    <3>0. Cycles(us) \in Nat
      BY DEF Cycles
    <3>1. CASE f.words = <<>>
      <4>1. gpFifo' = [words |-> f.words, cycles |-> Cycles(us), pushed |-> f.pushed, taken |-> f.taken]
        BY <1>0, <2>1, <3>1 DEF DebounceIrq
      <4> QED BY <1>0, <1>1, <3>0, <4>1
    <3>2. CASE f.words # <<>>
      <4>1. gpFifo' = [words |-> Tail(f.words), cycles |-> Cycles(us), pushed |-> f.pushed, taken |-> Append(f.taken, Head(f.words))]
        BY <1>0, <2>1, <3>2 DEF DebounceIrq
      <4>2. Tail(f.words) \in Seq(W) /\ Append(f.taken, Head(f.words)) \in Seq(W)
        BY <1>0, <3>2
      <4>3. f.pushed = Append(f.taken, Head(f.words)) \o Tail(f.words)
        BY <1>0, <3>2, JoinedMove
      <4> QED BY <1>0, <1>1, <3>0, <4>1, <4>2, <4>3
    <3> QED BY <3>1, <3>2
  <2>2. CASE ClearFifo
    <3> DEFINE n == IF Len(f.words) > 8 THEN 8 ELSE Len(f.words)
    <3>1. gpFifo' = [words |-> SubSeq(f.words, n + 1, Len(f.words)), cycles |-> f.cycles, pushed |-> f.pushed,
                     taken |-> f.taken \o SubSeq(f.words, 1, n)]
      BY <1>0, <2>2 DEF ClearFifo
    <3>2. n \in 0..Len(f.words)
      BY <1>0
    <3> HIDE DEF n
    <3>3. /\ SubSeq(f.words, 1, n) \in Seq(W) /\ SubSeq(f.words, n + 1, Len(f.words)) \in Seq(W)
          /\ f.pushed = (f.taken \o SubSeq(f.words, 1, n)) \o SubSeq(f.words, n + 1, Len(f.words))
      <4> DEFINE t == f.taken
                 u == f.words
      <4>1. t \in Seq(W) /\ u \in Seq(W) /\ n \in 0..Len(u) /\ f.pushed = t \o u
        BY <1>0, <3>2
      <4> HIDE DEF t, u
      <4>2. /\ SubSeq(u, 1, n) \in Seq(W) /\ SubSeq(u, n + 1, Len(u)) \in Seq(W)
            /\ t \o u = (t \o SubSeq(u, 1, n)) \o SubSeq(u, n + 1, Len(u))
        BY <4>1, JoinedSplit
      <4> QED BY <4>1, <4>2 DEF t, u
    <3>4. f.taken \o SubSeq(f.words, 1, n) \in Seq(W)
      BY <1>0, <3>3
    <3> QED BY <1>0, <1>1, <3>1, <3>3, <3>4
  <2> QED BY <1>3, <2>1, <2>2 DEF UseFifo
<1>4. ASSUME gpFifo' = gpFifo PROVE WordInv'
  BY <1>4 DEF WordInv, WordsKept
<1>5. CASE GpNext /\ ~FifoFills /\ ~UseFifo
  BY <1>4, <1>5 DEF GpNext, BuildHal, DropHal, WriteCommand, ReadCommand, ResetRadio, ChipReady, SetupInterrupts,
       RemoveInterrupt, Callback, PollEvents, WaitForPin, WaitChecks, WaitReckons, WaitReceives, WaitTimesOut, Waiting,
       UseSoftware, GpTick
<1>6. CASE UNCHANGED gpVars
  BY <1>4, <1>6 DEF gpVars
<1> QED BY <1>2, <1>3, <1>5, <1>6
-----------------------------------------------------------------------------
(* The edges and the events they become.                                   *)

Edge == [pin : GpPins, at : Nat, skipped : BOOLEAN, mine : BOOLEAN, within : Nat]

EdgeTyped ==
  /\ gpNow \in Nat /\ gpLog \in Seq(Edge) /\ gpLast \in [GpPins -> Nat \cup {-1}]
  /\ gpQueue \in Seq(GpPins) /\ gpReceived \in Seq(GpPins)
  /\ \A i \in DOMAIN gpLog : gpLog[i].at <= gpNow

(* The time kept of a pin is that of an event of it that was let through,   *)
(* and none that its callback timed since it was set up is later.           *)
LEMMA EarlierApart ==
  ASSUME NEW now \in Nat, NEW at \in Nat, NEW last \in Nat, NEW d \in Nat, at <= last, now - last >= d
  PROVE  now - at >= d
OBVIOUS

LastOfPin ==
  /\ \A p \in GpPins : gpLast[p] >= 0 =>
       \E i \in DOMAIN gpLog : gpLog[i].pin = p /\ ~gpLog[i].skipped /\ gpLog[i].at = gpLast[p]
  /\ \A p \in Held("gpio") : gpConfig[p].debounce > 0 =>
       \A i \in gpConfig[p].since + 1..Len(gpLog) :
         gpLog[i].pin = p /\ gpLog[i].mine /\ ~gpLog[i].skipped => gpLog[i].at <= gpLast[p]

EdgeInv == EdgeTyped /\ LastOfPin /\ EdgesReach /\ BouncesHeld

LEMMA EdgesStart == GpInit => EdgeInv
<1> SUFFICES ASSUME GpInit PROVE EdgeInv
  OBVIOUS
<1>1. /\ gpLog = <<>> /\ gpQueue = <<>> /\ gpReceived = <<>> /\ gpNow = 0
      /\ gpLast = [p \in GpPins |-> -1] /\ gpHolder = [p \in GpPins |-> "free"]
  BY DEF GpInit
<1>2. Len(gpLog) = 0 /\ DOMAIN gpLog = {} /\ Held("gpio") = {}
  BY <1>1 DEF Held
<1>3. Through(Len(gpLog)) = {}
  BY <1>2 DEF Through
<1>4. EdgesReach
  <2>1. gpReceived \o gpQueue = <<>> /\ Len(<<>>) = 0
    BY <1>1
  <2>2. Cardinality({}) = 0
    BY FS_EmptySet
  <2> QED BY <1>2, <1>3, <2>1, <2>2 DEF EdgesReach
<1>5. EdgeTyped
  BY <1>1, <1>2 DEF EdgeTyped
<1>6. LastOfPin
  BY <1>1, <1>2 DEF LastOfPin
<1>7. BouncesHeld
  BY <1>2 DEF BouncesHeld
<1> QED BY <1>4, <1>5, <1>6, <1>7 DEF EdgeInv

(* The account of the events depends on the log and on what was received    *)
(* or will be, whatever moved from the queue.                              *)
LEMMA ReachKept ==
  ASSUME EdgesReach, UNCHANGED gpLog, gpReceived' \o gpQueue' = gpReceived \o gpQueue
  PROVE  EdgesReach'
<1>1. \A n : Through(n)' = Through(n)
  BY DEF Through
<1> QED BY <1>1 DEF EdgesReach

(* Pins that are given up, or taken since, do not count for the bounces.    *)
LEMMA BouncesKept ==
  ASSUME EdgeTyped, LastOfPin, BouncesHeld, UNCHANGED gpLog, PinInv,
         \A p \in Held("gpio")' : \/ p \in Held("gpio") /\ gpConfig'[p] = gpConfig[p] /\ gpLast'[p] = gpLast[p]
                                  \/ gpConfig'[p].since = Len(gpLog),
         \A p \in GpPins : gpLast'[p] \in {gpLast[p], -1}
  PROVE  LastOfPin' /\ BouncesHeld'
<1>1. Len(gpLog) \in Nat /\ Len(gpLog) + 1..Len(gpLog) = {} /\ Len(gpLog') = Len(gpLog)
  <2>1. Len(gpLog) \in Nat
    BY DEF EdgeTyped
  <2> QED BY <2>1
<1>2. BouncesHeld'
  <2> SUFFICES ASSUME NEW p \in Held("gpio")',
                      NEW i \in gpConfig'[p].since + 1..Len(gpLog'), NEW j \in gpConfig'[p].since + 1..Len(gpLog'),
                      i < j, \A k \in {i, j} : gpLog'[k].pin = p /\ gpLog'[k].mine /\ ~gpLog'[k].skipped
               PROVE  gpLog'[j].at - gpLog'[i].at >= gpConfig'[p].debounce
    BY DEF BouncesHeld
  <2>1. p \in Held("gpio") /\ gpConfig'[p] = gpConfig[p]
    BY <1>1
  <2> QED BY <2>1 DEF BouncesHeld
<1>3. LastOfPin'
  <2>1. ASSUME NEW p \in GpPins, gpLast'[p] >= 0
        PROVE  \E i \in DOMAIN gpLog' : gpLog'[i].pin = p /\ ~gpLog'[i].skipped /\ gpLog'[i].at = gpLast'[p]
    <3>1. gpLast'[p] = gpLast[p]
      BY <2>1
    <3> QED BY <2>1, <3>1 DEF LastOfPin
  <2>2. ASSUME NEW p \in Held("gpio")', gpConfig'[p].debounce > 0,
               NEW i \in gpConfig'[p].since + 1..Len(gpLog'),
               gpLog'[i].pin = p, gpLog'[i].mine, ~gpLog'[i].skipped
        PROVE  gpLog'[i].at <= gpLast'[p]
    <3>1. p \in Held("gpio") /\ gpConfig'[p] = gpConfig[p] /\ gpLast'[p] = gpLast[p]
      BY <1>1
    <3> QED BY <2>2, <3>1 DEF LastOfPin
  <2> QED BY <2>1, <2>2 DEF LastOfPin
<1> QED BY <1>2, <1>3

LEMMA CallbackStep ==
  ASSUME PinInv, EdgeInv, Callback
  PROVE  EdgeInv'
<1>0. PICK n \in Nat : n = Len(gpLog)
  BY LenProperties DEF EdgeInv, EdgeTyped
<1>1. PICK p \in Held("gpio"), mine \in BOOLEAN :
        LET skip == Bouncing(p, mine) IN
        /\ gpLog' = Append(gpLog, [pin |-> p, at |-> gpNow, skipped |-> skip, mine |-> mine, within |-> gpConfig[p].debounce])
        /\ gpLast' = IF skip THEN gpLast ELSE Stamped(p, mine)
        /\ gpQueue' = IF skip THEN gpQueue ELSE Append(gpQueue, p)
  BY DEF Callback
<1> DEFINE skip == Bouncing(p, mine)
           e == [pin |-> p, at |-> gpNow, skipped |-> skip, mine |-> mine, within |-> gpConfig[p].debounce]
<1>2. /\ gpLog' = Append(gpLog, e)
      /\ gpLast' = IF skip THEN gpLast ELSE Stamped(p, mine)
      /\ gpQueue' = IF skip THEN gpQueue ELSE Append(gpQueue, p)
      /\ UNCHANGED <<gpHolder, gpConfig, gpReceived, gpNow>>
  BY <1>1 DEF Callback
<1>3. /\ p \in GpPins /\ gpHolder[p] = "gpio" /\ gpConfig[p].debounce \in Nat
      /\ gpNow \in Nat /\ gpLog \in Seq(Edge) /\ gpLast \in [GpPins -> Nat \cup {-1}]
      /\ gpQueue \in Seq(GpPins) /\ gpReceived \in Seq(GpPins)
      /\ \A q \in GpPins : gpConfig[q].since \in Nat /\ gpConfig[q].debounce \in Nat
  BY DEF EdgeInv, EdgeTyped, PinInv, Held
<1>4. skip \in BOOLEAN
  BY DEF Bouncing
<1>5. skip <=> mine /\ gpConfig[p].debounce > 0 /\ gpLast[p] >= 0 /\ gpNow - gpLast[p] < gpConfig[p].debounce
  BY DEF Bouncing
<1>6. e \in Edge /\ e.pin = p /\ e.at = gpNow /\ e.skipped = skip /\ e.mine = mine /\ e.within = gpConfig[p].debounce
  BY <1>3, <1>4 DEF Edge
<1> HIDE DEF e, skip
<1>7. /\ gpLog' \in Seq(Edge) /\ Len(gpLog') = n + 1 /\ gpLog'[n + 1] = e
      /\ \A i \in 1..n : gpLog'[i] = gpLog[i]
      /\ DOMAIN gpLog' = 1..n + 1 /\ DOMAIN gpLog = 1..n
  BY <1>0, <1>2, <1>3, <1>6
<1>8. \A i \in 1..n : /\ gpLog[i].at \in Nat /\ gpLog[i].at <= gpNow /\ gpLog[i].skipped \in BOOLEAN
  <2>1. \A i \in 1..n : gpLog[i] \in Edge
    BY <1>0, <1>3, ElementOfSeq
  <2> QED BY <1>7, <2>1 DEF EdgeInv, EdgeTyped, Edge
<1>9. /\ gpLast' \in [GpPins -> Nat \cup {-1}]
      /\ \A q \in GpPins : gpLast'[q] = IF q = p /\ ~skip /\ mine /\ gpConfig[p].debounce > 0 THEN gpNow ELSE gpLast[q]
  BY <1>2, <1>3, <1>4 DEF Stamped
<1>10. EdgeTyped'
  <2>1. gpQueue' \in Seq(GpPins)
    BY <1>2, <1>3
  <2>2. \A i \in 1..n + 1 : gpLog'[i].at <= gpNow
    <3> SUFFICES ASSUME NEW i \in 1..n + 1 PROVE gpLog'[i].at <= gpNow
      OBVIOUS
    <3>1. i = n + 1 \/ i \in 1..n
      BY <1>3
    <3> QED BY <1>3, <1>6, <1>7, <1>8, <3>1
  <2> QED BY <1>2, <1>3, <1>7, <1>9, <2>1, <2>2 DEF EdgeTyped
<1>11. LastOfPin'
  <2>1. ASSUME NEW q \in GpPins, gpLast'[q] >= 0
        PROVE  \E i \in DOMAIN gpLog' : gpLog'[i].pin = q /\ ~gpLog'[i].skipped /\ gpLog'[i].at = gpLast'[q]
    <3>1. CASE q = p /\ ~skip /\ mine /\ gpConfig[p].debounce > 0
      <4>1. gpLog'[n + 1].pin = q /\ ~gpLog'[n + 1].skipped /\ gpLog'[n + 1].at = gpLast'[q]
        BY <1>6, <1>7, <1>9, <3>1
      <4>2. n + 1 \in DOMAIN gpLog'
        BY <1>3, <1>7
      <4> QED BY <4>1, <4>2
    <3>2. CASE ~(q = p /\ ~skip /\ mine /\ gpConfig[p].debounce > 0)
      <4>1. gpLast'[q] = gpLast[q]
        BY <1>9, <3>2
      <4>2. PICK i \in DOMAIN gpLog : gpLog[i].pin = q /\ ~gpLog[i].skipped /\ gpLog[i].at = gpLast[q]
        BY <2>1, <4>1 DEF EdgeInv, LastOfPin
      <4>3. i \in DOMAIN gpLog' /\ gpLog'[i] = gpLog[i]
        BY <1>3, <1>7
      <4> QED BY <4>1, <4>2, <4>3
    <3> QED BY <3>1, <3>2
  <2>2. ASSUME NEW q \in Held("gpio")', gpConfig'[q].debounce > 0,
               NEW i \in gpConfig'[q].since + 1..Len(gpLog'),
               gpLog'[i].pin = q, gpLog'[i].mine, ~gpLog'[i].skipped
        PROVE  gpLog'[i].at <= gpLast'[q]
    <3>0. q \in GpPins /\ q \in Held("gpio") /\ gpConfig'[q] = gpConfig[q] /\ gpConfig[q].since \in Nat
      BY <1>2, <1>3 DEF Held
    <3>1. CASE i = n + 1
      BY <1>6, <1>7, <1>9, <2>2, <3>0, <3>1, <1>3
    <3>2. CASE i \in 1..n
      <4>1. i \in gpConfig[q].since + 1..Len(gpLog)
        BY <1>0, <3>0, <3>2
      <4>2. gpLog'[i] = gpLog[i] /\ gpLog[i].at \in Nat /\ gpLog[i].at <= gpNow
        BY <1>7, <1>8, <3>2
      <4>3. gpLog[i].at <= gpLast[q]
        BY <2>2, <3>0, <4>1, <4>2 DEF EdgeInv, LastOfPin
      <4> QED BY <1>9, <3>0, <4>2, <4>3
    <3>3. i = n + 1 \/ i \in 1..n
      BY <1>3, <1>7, <3>0
    <3> QED BY <3>1, <3>2, <3>3
  <2> QED BY <2>1, <2>2 DEF LastOfPin
<1>12. BouncesHeld'
  <2> SUFFICES ASSUME NEW q \in Held("gpio")',
                      NEW i \in gpConfig'[q].since + 1..Len(gpLog'), NEW j \in gpConfig'[q].since + 1..Len(gpLog'),
                      i < j, \A k \in {i, j} : gpLog'[k].pin = q /\ gpLog'[k].mine /\ ~gpLog'[k].skipped
               PROVE  gpLog'[j].at - gpLog'[i].at >= gpConfig'[q].debounce
    BY DEF BouncesHeld
  <2>0. q \in GpPins /\ q \in Held("gpio") /\ gpConfig'[q] = gpConfig[q] /\ gpConfig[q].since \in Nat /\ gpConfig[q].debounce \in Nat
    BY <1>2, <1>3 DEF Held
  <2>1. /\ gpLog'[i].pin = q /\ gpLog'[i].mine /\ ~gpLog'[i].skipped
        /\ gpLog'[j].pin = q /\ gpLog'[j].mine /\ ~gpLog'[j].skipped
    OBVIOUS
  <2>2. /\ i \in 1..n /\ i \in gpConfig[q].since + 1..n /\ (j = n + 1 \/ (j \in 1..n /\ j \in gpConfig[q].since + 1..n))
        /\ gpLog'[i] = gpLog[i]
    BY <1>3, <1>7, <2>0
  <2>3. CASE j \in 1..n /\ j \in gpConfig[q].since + 1..n
    <3>1. gpLog'[j] = gpLog[j]
      BY <1>7, <2>3
    <3>2. \A k \in {i, j} : gpLog[k].pin = q /\ gpLog[k].mine /\ ~gpLog[k].skipped
      BY <2>1, <2>2, <3>1
    <3> QED BY <1>0, <2>0, <2>2, <2>3, <3>1, <3>2 DEF EdgeInv, BouncesHeld
  <2>4. CASE j = n + 1
    <3>1. q = p /\ mine /\ ~skip /\ gpLog'[j].at = gpNow
      BY <1>6, <1>7, <2>1, <2>4
    <3>2. gpLog[i].at \in Nat /\ gpLog[i].at <= gpNow
      BY <1>8, <2>2
    <3>3. CASE gpConfig[q].debounce = 0
      BY <1>3, <2>0, <2>2, <3>1, <3>2, <3>3
    <3>4. CASE gpConfig[q].debounce > 0
      <4>1. gpLog[i].at <= gpLast[q]
        BY <1>0, <2>0, <2>1, <2>2, <3>4 DEF EdgeInv, LastOfPin
      <4>2. gpLast[q] \in Nat \cup {-1}
        BY <1>3, <2>0
      <4>3. gpLast[q] >= 0 /\ gpLast[q] \in Nat
        BY <3>2, <4>1, <4>2
      <4>4. gpNow - gpLast[q] >= gpConfig[q].debounce
        BY <1>3, <1>5, <3>1, <3>4, <4>3
      <4>5. gpNow - gpLog[i].at >= gpConfig[q].debounce
        <5>1. gpNow \in Nat
          BY <1>3
        <5> QED BY <5>1, <2>0, <3>2, <4>1, <4>3, <4>4, EarlierApart
      <4> QED BY <2>0, <2>2, <3>1, <4>5
    <3> QED BY <2>0, <3>3, <3>4
  <2> QED BY <2>2, <2>3, <2>4
<1>13. EdgesReach'
  <2> DEFINE T == Through(n)
  <2>1. /\ T \subseteq 1..n /\ IsFiniteSet(T) /\ Cardinality(T) \in Nat
    <3>1. IsFiniteSet(1..n)
      BY <1>3, FS_Interval
    <3>2. T \subseteq 1..n
      BY DEF Through
    <3> QED BY <3>1, <3>2, FS_Subset, FS_CardinalityType
  <2>2. \A j \in 1..n : Through(j)' = Through(j)
    <3> SUFFICES ASSUME NEW j \in 1..n PROVE Through(j)' = Through(j)
      OBVIOUS
    <3>1. \A i \in 1..j : gpLog'[i] = gpLog[i]
      BY <1>3, <1>7
    <3> QED BY <3>1 DEF Through
  <2>3. Through(n + 1)' = IF skip THEN T ELSE T \cup {n + 1}
    <3>1. \A i : i \in 1..n + 1 <=> i \in 1..n \/ i = n + 1
      BY <1>3
    <3>2. n + 1 \notin 1..n
      BY <1>3
    <3>3. Through(n + 1)' = {i \in 1..n + 1 : ~gpLog'[i].skipped} /\ T = {i \in 1..n : ~gpLog[i].skipped}
      BY DEF Through
    <3> HIDE DEF T
    <3>4. \A i \in 1..n : i \in Through(n + 1)' <=> i \in T
      BY <1>7, <3>1, <3>3
    <3>5. n + 1 \in Through(n + 1)' <=> ~skip
      BY <1>6, <1>7, <3>1, <3>3
    <3>6. \A i : (i \in T => i \in 1..n) /\ (i \in Through(n + 1)' => i \in 1..n \/ i = n + 1)
      BY <3>1, <3>3
    <3>7. CASE skip
      <4>1. \A i : i \in Through(n + 1)' <=> i \in T
        BY <3>4, <3>5, <3>6, <3>7
      <4>2. Through(n + 1)' = T
        BY <4>1
      <4> QED BY <3>7, <4>2
    <3>8. CASE ~skip
      <4>1. \A i : i \in Through(n + 1)' <=> i \in T \cup {n + 1}
        BY <3>4, <3>5, <3>6, <3>8
      <4>2. Through(n + 1)' = T \cup {n + 1}
        BY <4>1
      <4> QED BY <3>8, <4>2
    <3> QED BY <1>4, <3>7, <3>8
  <2>4. \A j \in T : Cardinality(Through(j)) \in 1..Cardinality(T)
    <3> SUFFICES ASSUME NEW j \in T PROVE Cardinality(Through(j)) \in 1..Cardinality(T)
      OBVIOUS
    <3>1. Through(j) \subseteq T /\ j \in Through(j)
      BY <1>3, <2>1 DEF Through
    <3>2. IsFiniteSet(Through(j)) /\ Cardinality(Through(j)) <= Cardinality(T)
      BY <2>1, <3>1, FS_Subset
    <3>3. Cardinality(Through(j)) \in Nat /\ Cardinality(Through(j)) # 0
      BY <3>1, <3>2, FS_CardinalityType, FS_EmptySet
    <3> QED BY <2>1, <3>2, <3>3
  <2> DEFINE events == gpReceived \o gpQueue
             after == gpReceived' \o gpQueue'
  <2>5. events \in Seq(GpPins) /\ Len(events) = Cardinality(T) /\ \A j \in T : events[Cardinality(Through(j))] = gpLog[j].pin
    <3>1. events \in Seq(GpPins)
      BY <1>3, ConcatProperties
    <3> QED BY <1>0, <3>1 DEF EdgeInv, EdgesReach
  <2>6. \A j \in 1..n : gpLog[j].skipped =>
          \E i \in 1..j - 1 : /\ gpLog[i].pin = gpLog[j].pin /\ ~gpLog[i].skipped
                              /\ gpLog[j].at - gpLog[i].at < gpLog[j].within
    BY <1>7 DEF EdgeInv, EdgesReach
  <2>7. \A j \in 1..n + 1 : gpLog'[j].skipped =>
          \E i \in 1..j - 1 : /\ gpLog'[i].pin = gpLog'[j].pin /\ ~gpLog'[i].skipped
                              /\ gpLog'[j].at - gpLog'[i].at < gpLog'[j].within
    <3> SUFFICES ASSUME NEW j \in 1..n + 1, gpLog'[j].skipped
                 PROVE  \E i \in 1..j - 1 : /\ gpLog'[i].pin = gpLog'[j].pin /\ ~gpLog'[i].skipped
                                            /\ gpLog'[j].at - gpLog'[i].at < gpLog'[j].within
      OBVIOUS
    <3>1. CASE j \in 1..n
      <4>0. \A i \in 1..j - 1 : i \in 1..n
        BY <1>3, <3>1
      <4>1. gpLog'[j] = gpLog[j] /\ \A i \in 1..j - 1 : gpLog'[i] = gpLog[i]
        BY <1>7, <3>1, <4>0
      <4>2. PICK i \in 1..j - 1 : /\ gpLog[i].pin = gpLog[j].pin /\ ~gpLog[i].skipped
                                  /\ gpLog[j].at - gpLog[i].at < gpLog[j].within
        BY <2>6, <3>1, <4>1
      <4> QED BY <4>1, <4>2
    <3>2. CASE j = n + 1
      <4>1. skip /\ gpLog'[j] = e
        BY <1>6, <1>7, <3>2
      <4>2. gpLast[p] >= 0 /\ gpNow - gpLast[p] < gpConfig[p].debounce
        BY <1>5, <4>1
      <4>3. PICK i \in DOMAIN gpLog : gpLog[i].pin = p /\ ~gpLog[i].skipped /\ gpLog[i].at = gpLast[p]
        BY <1>3, <4>2 DEF EdgeInv, LastOfPin
      <4>4. i \in 1..j - 1 /\ gpLog'[i] = gpLog[i]
        BY <1>3, <1>7, <3>2
      <4>5. gpLog'[i].pin = gpLog'[j].pin /\ ~gpLog'[i].skipped /\ gpLog'[j].at - gpLog'[i].at < gpLog'[j].within
        BY <1>6, <4>1, <4>2, <4>3, <4>4
      <4> QED BY <4>4, <4>5
    <3>3. j \in 1..n \/ j = n + 1
      BY <1>3
    <3> QED BY <3>1, <3>2, <3>3
  <2>10. Through(Len(gpLog))' = Through(n + 1)'
    BY <1>7 DEF Through
  <2>8. CASE skip
    <3>1. after = events /\ Through(n + 1)' = T
      BY <1>2, <2>3, <2>8
    <3>2. \A j \in T : Through(j)' = Through(j) /\ gpLog'[j] = gpLog[j]
      BY <1>7, <2>1, <2>2
    <3>3. Len(after) = Cardinality(Through(n + 1)') /\ \A j \in Through(n + 1)' : after[Cardinality(Through(j)')] = gpLog'[j].pin
      <4> HIDE DEF events, after, T
      <4> QED BY <1>7, <2>5, <3>1, <3>2
    <3> QED BY <1>7, <2>7, <2>10, <3>3 DEF EdgesReach
  <2>9. CASE ~skip
    <3>1. after = gpReceived \o Append(gpQueue, p) /\ Through(n + 1)' = T \cup {n + 1}
      BY <1>2, <2>3, <2>9
    <3>2. after = Append(events, p)
      <4>1. after = gpReceived \o (gpQueue \o <<p>>)
        BY <1>3, <3>1, AppendIsConcat
      <4>2. Append(events, p) = (gpReceived \o gpQueue) \o <<p>>
        BY <1>3, <2>5, AppendIsConcat
      <4>3. <<p>> \in Seq(GpPins)
        BY <1>3
      <4>4. (gpReceived \o gpQueue) \o <<p>> = gpReceived \o (gpQueue \o <<p>>)
        BY <1>3, <4>3, ConcatAssociative
      <4> QED BY <4>1, <4>2, <4>4
    <3>3. n + 1 \notin T /\ Cardinality(T \cup {n + 1}) = Cardinality(T) + 1
      <4>1. n + 1 \notin T
        BY <1>3, <2>1
      <4> QED BY <2>1, <4>1, FS_AddElement
    <3> HIDE DEF events, after, T
    <3>4. Len(after) = Cardinality(T) + 1 /\ after[Cardinality(T) + 1] = p /\ \A k \in 1..Cardinality(T) : after[k] = events[k]
      BY <1>3, <2>1, <2>5, <3>2
    <3>5. \A j \in T : after[Cardinality(Through(j)')] = gpLog'[j].pin
      <4> SUFFICES ASSUME NEW j \in T PROVE after[Cardinality(Through(j)')] = gpLog'[j].pin
        OBVIOUS
      <4>1. j \in 1..n /\ Through(j)' = Through(j) /\ gpLog'[j] = gpLog[j]
        BY <1>7, <2>1, <2>2
      <4> QED BY <2>4, <2>5, <3>4, <4>1
    <3>6. after[Cardinality(Through(n + 1)')] = gpLog'[n + 1].pin
      BY <1>6, <1>7, <3>1, <3>3, <3>4
    <3>7. Len(after) = Cardinality(Through(n + 1)') /\ \A j \in Through(n + 1)' : after[Cardinality(Through(j)')] = gpLog'[j].pin
      BY <1>7, <3>1, <3>3, <3>4, <3>5, <3>6
    <3> QED BY <1>7, <2>7, <2>10, <3>7 DEF EdgesReach, after
  <2> QED BY <1>4, <2>8, <2>9
<1> QED BY <1>10, <1>11, <1>12, <1>13 DEF EdgeInv

LEMMA EdgesStep ==
  ASSUME PinInv, EdgeInv, [GpNext]_gpVars
  PROVE  EdgeInv'
<1>0. /\ EdgeTyped /\ LastOfPin /\ EdgesReach /\ BouncesHeld
      /\ gpLog \in Seq([pin : GpPins, at : Nat, skipped : BOOLEAN, mine : BOOLEAN, within : Nat])
      /\ gpNow \in Nat /\ gpQueue \in Seq(GpPins) /\ gpReceived \in Seq(GpPins) /\ gpLast \in [GpPins -> Nat \cup {-1}]
      /\ gpHolder \in [GpPins -> {"free", "hal", "gpio"}] /\ gpConfig \in [GpPins -> [debounce : Nat, since : Nat]]
  BY DEF EdgeInv, EdgeTyped, Edge, PinInv
<1> DEFINE PinsTell == \A p \in Held("gpio")' : \/ p \in Held("gpio") /\ gpConfig'[p] = gpConfig[p] /\ gpLast'[p] = gpLast[p]
                                                \/ gpConfig'[p].since = Len(gpLog)
(* Steps that only move events from the queue, or none at all.              *)
<1>1. ASSUME UNCHANGED <<gpLog, gpLast, gpNow, gpHolder, gpConfig>>,
             gpQueue' \in Seq(GpPins), gpReceived' \in Seq(GpPins), gpReceived' \o gpQueue' = gpReceived \o gpQueue
      PROVE  EdgeInv'
  <2>1. EdgesReach'
    BY <1>0, <1>1, ReachKept
  <2>2. PinsTell /\ \A p \in GpPins : gpLast'[p] \in {gpLast[p], -1}
    BY <1>1 DEF Held
  <2>3. LastOfPin' /\ BouncesHeld'
    BY <1>0, <1>1, <2>2, BouncesKept
  <2>4. EdgeTyped'
    BY <1>0, <1>1 DEF EdgeTyped
  <2> QED BY <2>1, <2>3, <2>4 DEF EdgeInv
(* Steps that change who holds which pins.                                  *)
<1>2. ASSUME UNCHANGED <<gpLog, gpNow, gpQueue, gpReceived>>, PinsTell,
             gpLast' \in [GpPins -> Nat \cup {-1}], \A p \in GpPins : gpLast'[p] \in {gpLast[p], -1}
      PROVE  EdgeInv'
  <2>1. EdgesReach'
    BY <1>0, <1>2, ReachKept
  <2>2. LastOfPin' /\ BouncesHeld'
    BY <1>0, <1>2, BouncesKept
  <2>3. EdgeTyped'
    BY <1>0, <1>2 DEF EdgeTyped
  <2> QED BY <2>1, <2>2, <2>3 DEF EdgeInv
<1>3. CASE BuildHal
  <2>1. PICK pins \in GpWirings : gpHolder' = Acquired(pins)
    BY <1>3 DEF BuildHal
  <2>2. UNCHANGED <<gpLog, gpNow, gpQueue, gpReceived, gpConfig, gpLast>>
    BY <1>3 DEF BuildHal
  <2>3. \A p \in GpPins : gpHolder'[p] = "gpio" => gpHolder[p] = "gpio"
    BY <1>0, <2>1 DEF Acquired
  <2>4. PinsTell
    BY <2>2, <2>3 DEF Held
  <2> QED BY <1>0, <1>2, <2>2, <2>4
<1>4. CASE DropHal
  <2>1. UNCHANGED <<gpLog, gpNow, gpQueue, gpReceived, gpConfig, gpLast>>
    BY <1>4 DEF DropHal
  <2>2. \A p \in GpPins : gpHolder'[p] = "gpio" => gpHolder[p] = "gpio"
    BY <1>0, <1>4 DEF DropHal
  <2>3. PinsTell
    BY <2>1, <2>2 DEF Held
  <2> QED BY <1>0, <1>2, <2>1, <2>3
<1>5. CASE SetupInterrupts
  <2>1. UNCHANGED <<gpLog, gpNow, gpQueue, gpReceived, gpLast>>
    BY <1>5 DEF SetupInterrupts
  <2>2. PICK ready \in SUBSET {p \in GpPins : gpHolder[p] = "free"} :
          /\ gpHolder' = [p \in GpPins |-> IF p \in ready THEN "gpio" ELSE gpHolder[p]]
          /\ \A p \in ready : gpConfig'[p].since = Len(gpLog)
          /\ \A p \in GpPins \ ready : gpConfig'[p] = gpConfig[p]
    BY <1>0, <1>5, SetupTakes
  <2>3. PinsTell
    BY <2>1, <2>2 DEF Held
  <2> QED BY <1>0, <1>2, <2>1, <2>3
<1>6. CASE RemoveInterrupt
  <2>1. PICK p \in GpPins : /\ gpHolder' = [gpHolder EXCEPT ![p] = "free"]
                            /\ gpConfig' = [gpConfig EXCEPT ![p] = NotWatched]
                            /\ gpLast' = gpLast \/ gpLast' = [gpLast EXCEPT ![p] = -1]
    BY <1>6 DEF RemoveInterrupt
  <2>2. UNCHANGED <<gpLog, gpNow, gpQueue, gpReceived>>
    BY <1>6 DEF RemoveInterrupt
  <2>3. PinsTell
    BY <1>0, <2>1 DEF Held
  <2>4. gpLast' \in [GpPins -> Nat \cup {-1}] /\ \A q \in GpPins : gpLast'[q] \in {gpLast[q], -1}
    BY <1>0, <2>1
  <2> QED BY <1>2, <2>2, <2>3, <2>4
<1>7. CASE Callback
  BY <1>7, CallbackStep
<1>8. CASE PollEvents
  <2>1. UNCHANGED <<gpLog, gpLast, gpNow, gpHolder, gpConfig>> /\ gpReceived' = gpReceived \o gpQueue /\ gpQueue' = <<>>
    BY <1>8 DEF PollEvents, Receives
  <2>2. gpReceived' \in Seq(GpPins)
    BY <1>0, <2>1, ConcatProperties
  <2>3. gpReceived' \o <<>> = gpReceived'
    BY <2>2, ConcatEmptySeq
  <2> QED BY <1>1, <2>1, <2>2, <2>3
<1>9. CASE WaitReceives
  <2>1. /\ UNCHANGED <<gpLog, gpLast, gpNow, gpHolder, gpConfig>> /\ gpQueue # <<>>
        /\ gpReceived' = gpReceived \o <<Head(gpQueue)>> /\ gpQueue' = Tail(gpQueue)
    BY <1>9 DEF WaitReceives, Waiting, Receives
  <2>2. Tail(gpQueue) \in Seq(GpPins) /\ gpReceived \o <<Head(gpQueue)>> = Append(gpReceived, Head(gpQueue))
        /\ Append(gpReceived, Head(gpQueue)) \in Seq(GpPins)
    <3>1. Head(gpQueue) \in GpPins /\ Tail(gpQueue) \in Seq(GpPins)
      BY <1>0, <2>1, HeadTailProperties
    <3> QED BY <1>0, <3>1, AppendIsConcat
  <2>3. gpReceived \o gpQueue = Append(gpReceived, Head(gpQueue)) \o Tail(gpQueue)
    BY <1>0, <2>1, JoinedMove
  <2> QED BY <1>1, <2>1, <2>2, <2>3
<1>10. CASE GpTick
  <2>1. UNCHANGED <<gpLog, gpLast, gpQueue, gpReceived, gpHolder, gpConfig>> /\ gpNow' = gpNow + 1
    BY <1>10 DEF GpTick
  <2>2. EdgesReach'
    BY <1>0, <2>1, ReachKept
  <2>3. PinsTell /\ \A p \in GpPins : gpLast'[p] \in {gpLast[p], -1}
    BY <2>1 DEF Held
  <2>4. LastOfPin' /\ BouncesHeld'
    BY <1>0, <2>1, <2>3, BouncesKept
  <2>5. EdgeTyped'
    <3>1. \A i \in DOMAIN gpLog : gpLog[i].at \in Nat /\ gpLog[i].at <= gpNow
      <4>1. \A i \in DOMAIN gpLog : gpLog[i] \in Edge
        BY <1>0 DEF EdgeTyped
      <4> QED BY <1>0, <4>1 DEF EdgeTyped, Edge
    <3>2. \A i \in DOMAIN gpLog : gpLog[i].at <= gpNow + 1
      <4> SUFFICES ASSUME NEW i \in DOMAIN gpLog PROVE gpLog[i].at <= gpNow + 1
        OBVIOUS
      <4> DEFINE at == gpLog[i].at
      <4>1. at \in Nat /\ at <= gpNow
        BY <3>1
      <4>2. gpNow \in Nat
        BY <1>0 DEF EdgeTyped
      <4> HIDE DEF at
      <4>3. at <= gpNow + 1
        BY <4>1, <4>2
      <4> QED BY <4>3 DEF at
    <3> QED BY <1>0, <2>1, <3>2 DEF EdgeTyped
  <2> QED BY <2>2, <2>4, <2>5 DEF EdgeInv
<1>11. CASE \/ WriteCommand \/ ReadCommand \/ ResetRadio \/ ChipReady \/ WaitForPin \/ WaitChecks
            \/ WaitReckons \/ WaitTimesOut \/ FifoFills \/ UseFifo \/ UseSoftware \/ UNCHANGED gpVars
  <2>1. UNCHANGED <<gpLog, gpLast, gpNow, gpHolder, gpConfig, gpQueue, gpReceived>>
    BY <1>11 DEF WriteCommand, ReadCommand, ResetRadio, ChipReady, WaitForPin, WaitChecks, WaitReckons, WaitTimesOut,
         Waiting, gpEventVars, FifoFills, UseFifo, UseSoftware, gpVars
  <2> QED BY <1>0, <1>1, <2>1
<1> QED BY <1>3, <1>4, <1>5, <1>6, <1>7, <1>8, <1>9, <1>10, <1>11 DEF GpNext

-----------------------------------------------------------------------------
(* The manager of the buses, the network and the line (BusManager).        *)

(* The manager, the network and the line: what stands between the steps.   *)
CallInv ==
  /\ bmCall \in [name : {"none", "request", "scan"}, all : SUBSET (BmPorts \cup BmRadios), ask : SUBSET (BmPorts \cup BmRadios),
                 got : SUBSET (BmPorts \cup BmRadios), told : {"none", "Ok", "Err"}]
  /\ bmHandles \subseteq BmPorts \cup BmRadios
  /\ bmCall.name # "none" => bmCall.told = "none" /\ bmCall.all = bmCall.ask \cup bmCall.got
  /\ AnswerComplete

(* A discovery under way has entered every strong device it heard.          *)
TopologyInv ==
  /\ nwCall \in [on : BOOLEAN, scanned : Nat, told : {"none", "Ok", "Err"}]
  /\ nwCall.on => nwFound = nwStrong /\ nwCall.told = "none"
  /\ TopologyHonest

LineKnown == [auto : BOOLEAN, retries : Nat, open : BOOLEAN, rate : Nat, port : Nat, stats : [coll : Nat, good : Nat],
         doing : {"none", "detect", "ask"}, tries : Nat, heard : BOOLEAN]

(* Statistics that began with the rate count no collision of another rate.  *)
LineInv ==
  /\ bmLine \in LineKnown
  /\ bmSeen \in [coll : Nat, clean : BOOLEAN] /\ bmJudged \in [coll : Nat, clean : BOOLEAN]
  /\ bmLine.doing = "detect" => ~bmLine.open
  /\ bmSeen.clean => bmSeen.coll >= bmLine.stats.coll
  /\ RateTrue

BusesInv == CallInv /\ TopologyInv /\ LineInv /\ bmPresent \subseteq BmAddresses

(* No call is under way when the manager and the line are made.           *)
LEMMA BusesStart == BmInit => BusesInv
<1> SUFFICES ASSUME BmInit PROVE BusesInv
  OBVIOUS
<1>1. CallInv
  BY DEF BmInit, CallInv, AnswerComplete
<1>2. TopologyInv
  BY DEF BmInit, TopologyInv, TopologyHonest
<1>3. LineInv
  <2>1. PICK auto \in BOOLEAN, retries \in {0, 5} : bmLine = NewLine(auto, retries)
    BY DEF BmInit
  <2> QED BY <2>1 DEF BmInit, LineInv, LineKnown, RateTrue, NewLine, NoCollisions
<1> QED BY <1>1, <1>2, <1>3 DEF BusesInv, BmInit

(* Who was asked has answered, or is to be asked still: a call that fails   *)
(* drops its answers, and one that is over has asked everybody.            *)
LEMMA CallSteps == CallInv /\ [BmNext]_bmVars => CallInv'
<1> SUFFICES ASSUME CallInv, [BmNext]_bmVars PROVE CallInv'
  OBVIOUS
<1> USE DEF CallInv, AnswerComplete
<1>1. CASE UNCHANGED <<bmHandles, bmCall>>
  BY <1>1
<1>2. ASSUME NEW name \in BmPorts \cup BmRadios, NEW connects \in BOOLEAN, AddHandle(name, connects) PROVE CallInv'
  BY <1>2 DEF AddHandle
<1>3. ASSUME NEW name \in {"request", "scan"}, AskHandles(name) PROVE CallInv'
  BY <1>3 DEF AskHandles
<1>4. CASE HandleAnswers
  <2>1. PICK h \in NextHandle : bmCall' = [bmCall EXCEPT !.ask = @ \ {h}, !.got = @ \cup {h}]
    BY <1>4 DEF HandleAnswers
  <2>2. h \in bmCall.ask /\ bmCall.name # "none" /\ bmHandles' = bmHandles
    BY <1>4 DEF HandleAnswers, NextHandle
  <2>3. bmCall.told = "none" /\ bmCall.all = bmCall.ask \cup bmCall.got
    BY <2>2
  <2>4. /\ bmCall'.ask = bmCall.ask \ {h} /\ bmCall'.got = bmCall.got \cup {h} /\ bmCall'.all = bmCall.all
        /\ bmCall'.told = bmCall.told /\ bmCall'.name = bmCall.name
    BY <2>1
  <2> QED BY <2>1, <2>2, <2>3, <2>4
<1>5. CASE HandleFails
  BY <1>5 DEF HandleFails, Given
<1>6. CASE AllAsked
  BY <1>6 DEF AllAsked
<1>7. CASE DisconnectAll
  BY <1>7 DEF DisconnectAll, BeginsBm, AtRestBm
<1> QED
  BY <1>1, <1>2, <1>3, <1>4, <1>5, <1>6, <1>7 DEF BmNext, bmVars, DiscoverSecondary, Discover, ScanFails, ConnectLine, TryRate,
     SwitchRate, ResetStatistics, AskAdapting, ReceptionCounts, RequestSucceeds, RequestFails, ScanFrequency, blElse

(* A scan enters what it heard, or stops at the limit.                     *)
LEMMA TopologySteps == TopologyInv /\ [BmNext]_bmVars => TopologyInv'
<1> SUFFICES ASSUME TopologyInv, [BmNext]_bmVars PROVE TopologyInv'
  OBVIOUS
<1> USE DEF TopologyInv, TopologyHonest, AtLimit
<1>1. CASE UNCHANGED nwVars
  BY <1>1 DEF nwVars
<1>2. CASE Discover
  BY <1>2 DEF Discover, FreshFound
<1>3. CASE ScanFails
  BY <1>3 DEF ScanFails
<1>4. ASSUME NEW strong \in SUBSET NwDevices, ScanFrequency(strong) PROVE TopologyInv'
  <2> DEFINE n == nwCall.scanned + 1
             over == n = NwFrequencies \/ AtLimit(nwFound')
  <2>1. nwCall' = [on |-> ~over, scanned |-> n, told |-> IF over THEN "Ok" ELSE "none"]
    BY <1>4 DEF ScanFrequency
  <2>2. nwFound = nwStrong /\ nwStrong' = nwStrong \cup strong
    BY <1>4 DEF ScanFrequency
  <2>3. /\ nwFound' \subseteq nwStrong' /\ (nwFound' = nwStrong' \/ AtLimit(nwFound'))
        /\ NwMaxDevices > 0 => Cardinality(nwFound') <= NwMaxDevices
    BY <1>4, <2>2 DEF ScanFrequency
  <2>4. n \in Nat
    BY DEF TopologyInv
  <2> HIDE DEF n
  <2> QED BY <2>1, <2>3, <2>4
<1> QED
  BY <1>1, <1>2, <1>3, <1>4 DEF BmNext, bmVars, nwVars, DiscoverSecondary, ConnectLine, TryRate, AddHandle, AskHandles, HandleAnswers,
     HandleFails, AllAsked, DisconnectAll,
     SwitchRate, ResetStatistics, AskAdapting, ReceptionCounts, RequestSucceeds, RequestFails, blElse

(* What a step has to see to.                                              *)
LEMMA LineKept ==
  ASSUME bmLine' \in LineKnown, bmSeen' \in [coll : Nat, clean : BOOLEAN], bmJudged' \in [coll : Nat, clean : BOOLEAN],
         bmLine'.doing = "detect" => ~bmLine'.open, bmLine'.open => bmLine'.rate = bmLine'.port,
         bmSeen'.clean => bmSeen'.coll >= bmLine'.stats.coll, bmJudged'.clean => bmJudged'.coll > 0
  PROVE  LineInv'
BY DEF LineInv, RateTrue

(* A step that counts nothing.                                             *)
LEMMA LineOnly ==
  ASSUME LineInv, bmLine' \in LineKnown, bmLine'.stats = bmLine.stats, UNCHANGED <<bmSeen, bmJudged>>,
         bmLine'.doing = "detect" => ~bmLine'.open, bmLine'.open => bmLine'.rate = bmLine'.port
  PROVE  LineInv'
BY DEF LineInv, RateTrue

(* The rate on record is the port's after every switch, and the statistics  *)
(* of a rate that is left were counted at it.                              *)
LEMMA LineSteps == LineInv /\ [BmNext]_bmVars => LineInv'
<1> SUFFICES ASSUME LineInv, [BmNext]_bmVars PROVE LineInv'
  OBVIOUS
<1>0. /\ bmLine \in LineKnown /\ bmSeen \in [coll : Nat, clean : BOOLEAN] /\ bmJudged \in [coll : Nat, clean : BOOLEAN]
      /\ bmLine.doing = "detect" => ~bmLine.open
      /\ bmLine.open => bmLine.rate = bmLine.port
      /\ bmSeen.clean => bmSeen.coll >= bmLine.stats.coll
      /\ bmJudged.clean => bmJudged.coll > 0
  BY DEF LineInv, RateTrue
<1>1. CASE UNCHANGED blVars
  BY <1>1 DEF blVars, LineInv, RateTrue
<1>2. ASSUME NEW rate \in 1..BmRates, ConnectLine(rate) PROVE LineInv'
  <2>1. UNCHANGED <<bmSeen, bmJudged>> /\ ~bmLine.open /\ rate \in Nat
    BY <1>2, BmAssumption DEF ConnectLine
  <2>2. PICK opens \in BOOLEAN :
          bmLine' = IF bmLine.auto THEN [bmLine EXCEPT !.doing = "detect", !.rate = 1]
                                   ELSE [bmLine EXCEPT !.open = opens, !.rate = rate, !.port = rate]
    BY <1>2 DEF ConnectLine
  <2>3. bmLine.doing = "none"
    BY <1>2 DEF ConnectLine, BeginsBm, AtRestBm
  <2>4. CASE bmLine' = [bmLine EXCEPT !.doing = "detect", !.rate = 1]
    <3>1. bmLine' \in LineKnown /\ bmLine'.stats = bmLine.stats /\ bmLine'.open = bmLine.open
      BY <1>0, <2>4 DEF LineKnown
    <3> QED BY <2>1, <3>1, LineOnly
  <2>5. CASE bmLine' = [bmLine EXCEPT !.open = opens, !.rate = rate, !.port = rate]
    <3>1. /\ bmLine' \in LineKnown /\ bmLine'.stats = bmLine.stats /\ bmLine'.doing = "none"
          /\ bmLine'.rate = rate /\ bmLine'.port = rate
      BY <1>0, <2>1, <2>3, <2>5 DEF LineKnown
    <3> QED BY <2>1, <3>1, LineOnly
  <2> QED BY <2>2, <2>4, <2>5
<1>3. ASSUME NEW works \in BOOLEAN, TryRate(works) PROVE LineInv'
  <2>1. UNCHANGED <<bmSeen, bmJudged>> /\ ~bmLine.open
    BY <1>0, <1>3 DEF TryRate
  <2>2. \/ bmLine' = [bmLine EXCEPT !.open = TRUE, !.port = bmLine.rate, !.doing = "none"]
        \/ bmLine' = [bmLine EXCEPT !.rate = @ + 1]
        \/ bmLine' = [bmLine EXCEPT !.doing = "none"]
    BY <1>3 DEF TryRate
  <2>3. CASE bmLine' = [bmLine EXCEPT !.open = TRUE, !.port = bmLine.rate, !.doing = "none"]
    <3>1. /\ bmLine' \in LineKnown /\ bmLine'.stats = bmLine.stats /\ bmLine'.doing = "none"
          /\ bmLine'.rate = bmLine.rate /\ bmLine'.port = bmLine.rate
      BY <1>0, <2>3 DEF LineKnown
    <3> QED BY <2>1, <3>1, LineOnly
  <2>4. CASE bmLine' = [bmLine EXCEPT !.rate = @ + 1] \/ bmLine' = [bmLine EXCEPT !.doing = "none"]
    <3>1. bmLine' \in LineKnown /\ bmLine'.stats = bmLine.stats /\ bmLine'.open = bmLine.open
      BY <1>0, <2>4 DEF LineKnown
    <3> QED BY <2>1, <3>1, LineOnly
  <2> QED BY <2>2, <2>3, <2>4
<1>4. ASSUME NEW rate \in 1..BmRates, NEW port \in {"refused", "silent", "Ok"}, SwitchRate(rate, port) PROVE LineInv'
  <2>1. UNCHANGED bmJudged /\ bmLine.doing = "none" /\ rate \in Nat
    BY <1>4, BmAssumption DEF SwitchRate, BeginsBm, AtRestBm
  <2>2. CASE port = "refused"
    <3>1. bmLine' = bmLine /\ bmSeen' = bmSeen
      BY <1>4, <2>2 DEF SwitchRate, Switched
    <3> QED BY <1>0, <2>1, <3>1, LineOnly
  <2>3. CASE port # "refused"
    <3>1. /\ bmLine' = [bmLine EXCEPT !.rate = rate, !.port = rate]
          /\ bmSeen' = [coll |-> 0, clean |-> bmLine.stats = NoCollisions]
      BY <1>4, <2>3 DEF SwitchRate, Switched
    <3>2. /\ bmLine' \in LineKnown /\ bmLine'.stats = bmLine.stats /\ bmLine'.doing = "none"
          /\ bmLine'.rate = rate /\ bmLine'.port = rate
      BY <1>0, <2>1, <3>1 DEF LineKnown
    <3>3. bmSeen' \in [coll : Nat, clean : BOOLEAN] /\ bmSeen'.coll = 0
      BY <3>1
    <3>4. bmSeen'.clean => bmLine.stats.coll = 0
      <4>1. bmSeen'.clean => bmLine.stats = [coll |-> 0, good |-> 0]
        BY <3>1 DEF NoCollisions
      <4> QED BY <4>1
    <3> QED BY <1>0, <2>1, <3>2, <3>3, <3>4, LineKept
  <2> QED BY <2>2, <2>3
<1>5. CASE ResetStatistics
  <2>1. /\ bmLine' = [bmLine EXCEPT !.stats = [coll |-> 0, good |-> 0]]
        /\ bmSeen' = [bmSeen EXCEPT !.clean = TRUE] /\ UNCHANGED bmJudged
    BY <1>5 DEF ResetStatistics, NoCollisions
  <2>2. /\ bmLine' \in LineKnown /\ bmLine'.stats.coll = 0 /\ bmLine'.doing = bmLine.doing
        /\ bmLine'.open = bmLine.open /\ bmLine'.rate = bmLine.rate /\ bmLine'.port = bmLine.port
    BY <1>0, <2>1 DEF LineKnown
  <2>3. bmSeen' \in [coll : Nat, clean : BOOLEAN]
    BY <1>0, <2>1
  <2>4. bmSeen'.coll >= 0
    BY <2>3
  <2> QED BY <1>0, <2>1, <2>2, <2>3, <2>4, LineKept
<1>6. CASE AskAdapting
  <2>1. bmLine' = [bmLine EXCEPT !.doing = "ask", !.tries = 2, !.heard = FALSE] /\ UNCHANGED <<bmSeen, bmJudged>>
    BY <1>6 DEF AskAdapting
  <2>2. /\ bmLine' \in LineKnown /\ bmLine'.stats = bmLine.stats /\ bmLine'.doing = "ask"
        /\ bmLine'.open = bmLine.open /\ bmLine'.rate = bmLine.rate /\ bmLine'.port = bmLine.port
    BY <1>0, <2>1 DEF LineKnown
  <2> QED BY <1>0, <2>1, <2>2, LineOnly
<1>7. CASE ReceptionCounts
  <2>1. UNCHANGED bmJudged
    BY <1>7 DEF ReceptionCounts
  <2>2. CASE bmLine.retries = 0
    <3>1. bmLine' = [bmLine EXCEPT !.stats.coll = @ + 1] /\ bmSeen' = [bmSeen EXCEPT !.coll = @ + 1]
      BY <1>7, <2>2 DEF ReceptionCounts
    <3>2. /\ bmLine' \in LineKnown /\ bmLine'.stats.coll = bmLine.stats.coll + 1 /\ bmLine'.doing = bmLine.doing
          /\ bmLine'.open = bmLine.open /\ bmLine'.rate = bmLine.rate /\ bmLine'.port = bmLine.port
      BY <1>0, <3>1 DEF LineKnown
    <3>3. bmSeen' \in [coll : Nat, clean : BOOLEAN] /\ bmSeen'.coll = bmSeen.coll + 1 /\ bmSeen'.clean = bmSeen.clean
      BY <1>0, <3>1
    <3>4. bmLine.stats.coll \in Nat /\ bmSeen.coll \in Nat
      BY <1>0 DEF LineKnown
    <3> QED BY <1>0, <2>1, <3>2, <3>3, <3>4, LineKept
  <2>3. CASE bmLine.retries # 0
    <3>1. bmLine' = [bmLine EXCEPT !.stats.good = @ + 1, !.heard = TRUE] /\ bmSeen' = bmSeen
      BY <1>7, <2>3 DEF ReceptionCounts
    <3>2. /\ bmLine' \in LineKnown /\ bmLine'.stats.coll = bmLine.stats.coll /\ bmLine'.doing = bmLine.doing
          /\ bmLine'.open = bmLine.open /\ bmLine'.rate = bmLine.rate /\ bmLine'.port = bmLine.port
      <4> DEFINE s == [bmLine.stats EXCEPT !.good = @ + 1]
      <4>1. s \in [coll : Nat, good : Nat] /\ s.coll = bmLine.stats.coll
        BY <1>0 DEF LineKnown
      <4>2. bmLine' = [bmLine EXCEPT !.stats = s, !.heard = TRUE]
        BY <3>1
      <4> HIDE DEF s
      <4> QED BY <1>0, <4>1, <4>2 DEF LineKnown
    <3> QED BY <1>0, <2>1, <3>1, <3>2, LineKept
  <2> QED BY <2>2, <2>3
<1>8. CASE RequestSucceeds
  <2>1. bmLine' = [bmLine EXCEPT !.doing = "none"] /\ UNCHANGED <<bmSeen, bmJudged>>
    BY <1>8 DEF RequestSucceeds
  <2>2. /\ bmLine' \in LineKnown /\ bmLine'.stats = bmLine.stats /\ bmLine'.doing = "none"
        /\ bmLine'.open = bmLine.open /\ bmLine'.rate = bmLine.rate /\ bmLine'.port = bmLine.port
    BY <1>0, <2>1 DEF LineKnown
  <2> QED BY <1>0, <2>1, <2>2, LineOnly
<1>9. ASSUME NEW port \in {"refused", "silent", "Ok"}, RequestFails(port) PROVE LineInv'
  <2>0. bmLine.doing = "ask" /\ bmLine.tries \in Nat /\ bmLine.rate \in Nat
    BY <1>0, <1>9 DEF RequestFails, LineKnown
  <2>1. CASE bmLine.tries > 0 /\ bmLine.auto /\ HighRate(bmLine.stats) /\ bmLine.rate < BmRates
    <3>1. bmLine.stats.coll > 0 /\ bmLine.stats.coll \in Nat
      BY <1>0, <2>1 DEF HighRate, LineKnown
    <3>2. /\ bmLine' = [Adapted(bmLine, port) EXCEPT !.heard = FALSE]
          /\ bmSeen' = IF port = "refused" THEN bmSeen ELSE [coll |-> 0, clean |-> port = "Ok"]
          /\ bmJudged' = IF port = "refused" THEN bmJudged ELSE bmSeen
      BY <1>9, <2>1 DEF RequestFails
    <3>3. bmJudged' \in [coll : Nat, clean : BOOLEAN] /\ (bmJudged'.clean => bmJudged'.coll > 0)
      BY <1>0, <3>1, <3>2
    <3>6. CASE port = "refused"
      <4>1. bmLine' = [bmLine EXCEPT !.doing = "none", !.heard = FALSE] /\ bmSeen' = bmSeen
        BY <3>2, <3>6 DEF Adapted, Switched
      <4>2. /\ bmLine' \in LineKnown /\ bmLine'.stats = bmLine.stats /\ bmLine'.doing = "none"
            /\ bmLine'.open = bmLine.open /\ bmLine'.rate = bmLine.rate /\ bmLine'.port = bmLine.port
        BY <1>0, <4>1 DEF LineKnown
      <4> QED BY <1>0, <3>3, <4>1, <4>2, LineKept
    <3>7. CASE port = "silent"
      <4>1. /\ bmLine' = [bmLine EXCEPT !.rate = bmLine.rate + 1, !.port = bmLine.rate + 1, !.doing = "none", !.heard = FALSE]
            /\ bmSeen' = [coll |-> 0, clean |-> FALSE]
        BY <3>2, <3>7 DEF Adapted, Switched
      <4>2. bmLine' \in LineKnown /\ bmLine'.doing = "none" /\ bmLine'.rate = bmLine'.port
        <5> DEFINE r == bmLine.rate + 1
        <5>1. r \in Nat
          BY <2>0
        <5>2. bmLine' = [bmLine EXCEPT !.rate = r, !.port = r, !.doing = "none", !.heard = FALSE]
          BY <4>1
        <5> HIDE DEF r
        <5> QED BY <1>0, <5>1, <5>2 DEF LineKnown
      <4> QED BY <3>3, <4>1, <4>2, LineKept
    <3>8. CASE port = "Ok"
      <4>1. /\ bmLine' = [bmLine EXCEPT !.rate = bmLine.rate + 1, !.port = bmLine.rate + 1, !.stats = [coll |-> 0, good |-> 0],
                                        !.tries = bmLine.tries - 1, !.heard = FALSE]
            /\ bmSeen' = [coll |-> 0, clean |-> TRUE]
        BY <3>2, <3>8 DEF Adapted, Switched, NoCollisions
      <4>2. bmLine.tries - 1 \in Nat
        BY <2>0, <2>1
      <4>3. bmLine' \in LineKnown /\ bmLine'.doing = "ask" /\ bmLine'.rate = bmLine'.port /\ bmLine'.stats.coll = 0
        <5> DEFINE r == bmLine.rate + 1
                   t == bmLine.tries - 1
        <5>1. r \in Nat /\ t \in Nat
          BY <2>0, <4>2
        <5>2. bmLine' = [bmLine EXCEPT !.rate = r, !.port = r, !.stats = [coll |-> 0, good |-> 0], !.tries = t, !.heard = FALSE]
          BY <4>1
        <5> HIDE DEF r, t
        <5> QED BY <1>0, <2>0, <5>1, <5>2 DEF LineKnown
      <4> QED BY <3>3, <4>1, <4>3, LineKept
    <3> QED BY <3>6, <3>7, <3>8
  <2>2. CASE ~(bmLine.tries > 0 /\ bmLine.auto /\ HighRate(bmLine.stats) /\ bmLine.rate < BmRates)
    <3>1. /\ bmLine' = [bmLine EXCEPT !.heard = FALSE, !.tries = IF @ > 0 THEN @ - 1 ELSE 0,
                                      !.doing = IF bmLine.tries = 0 THEN "none" ELSE @]
          /\ UNCHANGED <<bmSeen, bmJudged>>
      BY <1>9, <2>2 DEF RequestFails
    <3>2. /\ bmLine' \in LineKnown /\ bmLine'.stats = bmLine.stats /\ bmLine'.doing \in {"none", "ask"}
          /\ bmLine'.open = bmLine.open /\ bmLine'.rate = bmLine.rate /\ bmLine'.port = bmLine.port
      <4> DEFINE t == IF bmLine.tries > 0 THEN bmLine.tries - 1 ELSE 0
                 d == IF bmLine.tries = 0 THEN "none" ELSE "ask"
      <4>1. t \in Nat /\ d \in {"none", "ask"}
        BY <2>0
      <4>2. bmLine' = [bmLine EXCEPT !.heard = FALSE, !.tries = t, !.doing = d]
        BY <2>0, <3>1
      <4> HIDE DEF t, d
      <4> QED BY <1>0, <4>1, <4>2 DEF LineKnown
    <3> QED BY <1>0, <3>1, <3>2, LineOnly
  <2> QED BY <2>1, <2>2
<1> QED
  BY <1>1, <1>2, <1>3, <1>4, <1>5, <1>6, <1>7, <1>8, <1>9 DEF BmNext, bmVars, nwVars, DiscoverSecondary, AddHandle, AskHandles, HandleAnswers,
     HandleFails, AllAsked, DisconnectAll, Discover, ScanFails, ScanFrequency, blVars

(* A step of the manager, the network or a line keeps all of them.         *)
LEMMA BusesSteps == BusesInv /\ [BmNext]_bmVars => BusesInv'
<1> SUFFICES ASSUME BusesInv, [BmNext]_bmVars PROVE BusesInv'
  OBVIOUS
<1>1. bmPresent' \subseteq BmAddresses
  <2>1. CASE UNCHANGED bmPresent
    BY <2>1 DEF BusesInv
  <2>2. ASSUME NEW port \in BmPorts, NEW present \in SUBSET BmAddresses, DiscoverSecondary(port, present) PROVE bmPresent' \subseteq BmAddresses
    BY <2>2 DEF DiscoverSecondary
  <2> QED BY <2>1, <2>2 DEF BmNext, bmVars, nwVars, blElse, AddHandle, AskHandles, HandleAnswers, HandleFails, AllAsked, DisconnectAll, Discover,
     ScanFails, ScanFrequency, ConnectLine, TryRate, SwitchRate, ResetStatistics, AskAdapting, ReceptionCounts, RequestSucceeds, RequestFails
<1> QED BY <1>1, CallSteps, TopologySteps, LineSteps DEF BusesInv

(* One round of the search, when `found` tells what is found deeper.        *)
NarrowedTo(p, k, d) == [p EXCEPT ![k] = d]
OneRound(found, p, k) ==
  UNION {IF Cardinality(Selected(NarrowedTo(p, k, d))) = 0 THEN {}
         ELSE IF Cardinality(Selected(NarrowedTo(p, k, d))) = 1 THEN QuerySpecific(NarrowedTo(p, k, d))
         ELSE found[k + 1][NarrowedTo(p, k, d)] : d \in Digit}
SearchRound(found, k) ==
  [p \in Pattern |-> IF k > BmDigits THEN QuerySpecific(p) ELSE OneRound(found, p, k)]
Searches(found, from) == found = [k \in from..BmDigits + 1 |-> SearchRound(found, k)]

(* There is such a function: the last round needs no other, and each round  *)
(* is made from the one after it.  A round that cannot be made would have a *)
(* least number of rounds behind it.                                       *)
LEMMA SearchExists == \E found : Searches(found, 1)
<1> DEFINE S == {j \in 0..BmDigits : ~\E found : Searches(found, BmDigits + 1 - j)}
<1>0. BmDigits \in Nat /\ BmDigits > 1
  BY BmAssumption
<1>1. SUFFICES ASSUME S # {} PROVE FALSE
  <2>1. BmDigits \notin S
    BY <1>1
  <2>2. BmDigits \in 0..BmDigits /\ BmDigits + 1 - BmDigits = 1
    BY <1>0
  <2> QED BY <2>1, <2>2
<1>2. PICK m \in S : \A y \in S : m <= y
  <2>1. S \in SUBSET Nat
    BY <1>0
  <2> QED BY <1>1, <2>1, LeastNatural
<1>3. CASE m = 0
  <2> DEFINE f == [k \in (BmDigits + 1)..(BmDigits + 1) |-> [p \in Pattern |-> QuerySpecific(p)]]
  <2>1. \A k \in (BmDigits + 1)..(BmDigits + 1) : SearchRound(f, k) = [p \in Pattern |-> QuerySpecific(p)]
    BY <1>0 DEF SearchRound
  <2>2. Searches(f, BmDigits + 1)
    BY <2>1 DEF Searches
  <2> QED BY <1>0, <1>2, <1>3, <2>2
<1>4. CASE m # 0
  <2>1. m \in 1..BmDigits /\ m - 1 \in 0..BmDigits /\ m - 1 \notin S
    BY <1>0, <1>2, <1>4
  <2> DEFINE k0 == BmDigits + 1 - m
  <2>2. PICK f : Searches(f, k0 + 1)
    <3>1. BmDigits + 1 - (m - 1) = k0 + 1
      BY <1>0, <2>1
    <3> QED BY <2>1, <3>1
  <2>3. k0 \in 1..BmDigits
    BY <1>0, <2>1
  <2>9. m \in S
    OBVIOUS
  <2> HIDE DEF k0
  <2> DEFINE g == [k \in k0..BmDigits + 1 |-> IF k = k0 THEN SearchRound(f, k0) ELSE f[k]]
  <2>4. \A k \in k0..BmDigits + 1 : SearchRound(g, k) = SearchRound(f, k)
    <3> SUFFICES ASSUME NEW k \in k0..BmDigits + 1 PROVE SearchRound(g, k) = SearchRound(f, k)
      OBVIOUS
    <3>1. CASE k > BmDigits
      BY <3>1 DEF SearchRound
    <3>2. CASE ~(k > BmDigits)
      <4>1. g[k + 1] = f[k + 1]
        BY <1>0, <2>3, <3>2
      <4> HIDE DEF g
      <4>2. \A p \in Pattern : OneRound(g, p, k) = OneRound(f, p, k)
        BY <4>1 DEF OneRound
      <4> QED BY <3>2, <4>2 DEF SearchRound
    <3> QED BY <3>1, <3>2
  <2>5. \A k \in k0..BmDigits + 1 : g[k] = SearchRound(g, k)
    <3> SUFFICES ASSUME NEW k \in k0..BmDigits + 1 PROVE g[k] = SearchRound(f, k)
      BY <2>4
    <3>1. CASE k = k0
      BY <3>1
    <3>2. CASE k # k0
      <4>1. k \in k0 + 1..BmDigits + 1
        BY <1>0, <2>3, <3>2
      <4>2. f[k] = SearchRound(f, k)
        BY <2>2, <4>1 DEF Searches
      <4> QED BY <3>2, <4>2
    <3> QED BY <3>1, <3>2
  <2>8. Searches(g, k0)
    <3>1. g = [k \in k0..BmDigits + 1 |-> g[k]]
      OBVIOUS
    <3> HIDE DEF g
    <3> QED BY <2>5, <3>1 DEF Searches
  <2> QED BY <2>8, <2>9 DEF k0
<1> QED BY <1>3, <1>4

(* The search is that function.                                            *)
LEMMA SearchIs == Searches(search, 1)
<1>1. PICK f : Searches(f, 1)
  BY SearchExists
<1>2. f = [k \in 1..BmDigits + 1 |-> SearchRound(f, k)]
  BY <1>1 DEF Searches
<1>3. search = CHOOSE h : h = [k \in 1..BmDigits + 1 |-> SearchRound(h, k)]
  BY DEF search, SearchRound, OneRound, NarrowedTo
<1>4. search = [k \in 1..BmDigits + 1 |-> SearchRound(search, k)]
  BY <1>2, <1>3
<1> QED BY <1>4 DEF Searches

(* Of the meters a pattern selects there is none, one, or a second.         *)
LEMMA SelectedCounted ==
  ASSUME bmPresent \subseteq BmAddresses, NEW q
  PROVE  /\ Cardinality(Selected(q)) = 0 <=> Selected(q) = {}
         /\ Cardinality(Selected(q)) = 1 => \A a, b \in Selected(q) : a = b
         /\ Cardinality(Selected(q)) \notin {0, 1} => \A a \in Selected(q) : \E b \in Selected(q) : b # a
<1> DEFINE S == Selected(q)
<1>1. IsFiniteSet(S)
  BY BmAssumption, FS_Subset DEF Selected
<1>2. Cardinality(S) = 0 <=> S = {}
  BY <1>1, FS_EmptySet
<1>3. Cardinality(S) = 1 <=> \E x : S = {x}
  BY <1>1, FS_Singleton
<1> HIDE DEF S
<1>4. Cardinality(S) \notin {0, 1} => \A a \in S : \E b \in S : b # a
  <2> SUFFICES ASSUME Cardinality(S) \notin {0, 1}, NEW a \in S, \A b \in S : b = a PROVE FALSE
    OBVIOUS
  <2>1. S = {a}
    OBVIOUS
  <2> QED BY <1>3, <2>1
<1> QED BY <1>2, <1>3, <1>4 DEF S

(* A meter that a pattern narrowed to k - 1 bytes can be an answer to.       *)
Speakable(a) == Range(a) \subseteq Digit \ {AnyDigit}
FitsUpTo(a, p, k) == a \in bmPresent /\ Speakable(a) /\ \A i \in 1..k - 1 : p[i] = a[i]
Twin(a)      == \E b \in bmPresent \ {a} : \A i \in 1..BmDigits - 1 : a[i] = b[i]
OpenFrom(p, k)   == p \in Pattern /\ \A i \in k..BmDigits : p[i] = AnyDigit
FindsFrom(k) ==
  \A p : OpenFrom(p, k) => search[k][p] = {a \in bmPresent : FitsUpTo(a, p, k) /\ (k = BmDigits \/ Twin(a))}

(* An address is a function of its bytes.                                  *)
LEMMA AddressBytes ==
  ASSUME bmPresent \subseteq BmAddresses, NEW a \in bmPresent
  PROVE  DOMAIN a = 1..BmDigits /\ a = [i \in 1..BmDigits |-> a[i]] /\ (Speakable(a) <=> \A i \in 1..BmDigits : a[i] \in Digit \ {AnyDigit})
<1>1. a \in [1..BmDigits -> 0..255]
  BY BmAssumption
<1> QED BY <1>1 DEF Speakable, Range

(* A pattern with a wildcard left is no address.                           *)
LEMMA WildQueriesNothing ==
  ASSUME NEW q \in Pattern
  PROVE  QuerySpecific(q) = IF \E i \in 1..BmDigits : q[i] = AnyDigit THEN {} ELSE {q}
BY DEF QuerySpecific, Pattern, Range

(* A round that is not the last narrows the pattern by one byte.            *)
LEMMA SearchRoundOf ==
  ASSUME NEW k \in 1..BmDigits, NEW p \in Pattern
  PROVE  search[k][p] = OneRound(search, p, k)
<1>1. k \in 1..BmDigits + 1 /\ ~(k > BmDigits)
  BY BmAssumption
<1>2. search[k] = SearchRound(search, k)
  BY <1>1, SearchIs DEF Searches
<1> QED BY <1>1, <1>2 DEF SearchRound

(* With only the last byte open, every value of it that a meter answers to  *)
(* is asked, and no wildcard is left.                                      *)
LEMMA LastRound ==
  ASSUME bmPresent \subseteq BmAddresses PROVE FindsFrom(BmDigits)
<1>0. BmDigits \in Nat /\ BmDigits > 1 /\ BmDigits \in 1..BmDigits
  BY BmAssumption
<1> SUFFICES ASSUME NEW p, OpenFrom(p, BmDigits)
             PROVE  search[BmDigits][p] = {a \in bmPresent : FitsUpTo(a, p, BmDigits)}
  BY DEF FindsFrom
<1>1. p \in Pattern
  BY DEF OpenFrom
<1>2. \A q \in Pattern : search[BmDigits + 1][q] = QuerySpecific(q)
  <2>1. BmDigits + 1 \in 1..BmDigits + 1 /\ BmDigits + 1 > BmDigits
    BY <1>0
  <2>2. search[BmDigits + 1] = SearchRound(search, BmDigits + 1)
    BY <2>1, SearchIs DEF Searches
  <2> QED BY <2>1, <2>2 DEF SearchRound
<1>3. ASSUME NEW d \in Digit
      PROVE  LET q == NarrowedTo(p, BmDigits, d) IN
             /\ q \in Pattern /\ q[BmDigits] = d /\ \A i \in 1..BmDigits - 1 : q[i] = p[i]
             /\ q = [i \in 1..BmDigits |-> q[i]]
  <2> DEFINE q == NarrowedTo(p, BmDigits, d)
  <2>1. q \in Pattern /\ q[BmDigits] = d /\ \A i \in 1..BmDigits - 1 : q[i] = p[i]
    BY <1>0, <1>1 DEF NarrowedTo, Pattern
  <2> HIDE DEF q
  <2>2. q = [i \in 1..BmDigits |-> q[i]]
    BY <2>1 DEF Pattern
  <2> QED BY <2>1, <2>2 DEF q
<1>4. search[BmDigits][p] = UNION {IF Selected(NarrowedTo(p, BmDigits, d)) = {} THEN {}
                                   ELSE QuerySpecific(NarrowedTo(p, BmDigits, d)) : d \in Digit}
  <2>1. search[BmDigits][p] = OneRound(search, p, BmDigits)
    BY <1>0, <1>1, SearchRoundOf
  <2>2. ASSUME NEW d \in Digit
        PROVE  (IF Cardinality(Selected(NarrowedTo(p, BmDigits, d))) = 0 THEN {}
                ELSE IF Cardinality(Selected(NarrowedTo(p, BmDigits, d))) = 1 THEN QuerySpecific(NarrowedTo(p, BmDigits, d))
                ELSE search[BmDigits + 1][NarrowedTo(p, BmDigits, d)])
               = IF Selected(NarrowedTo(p, BmDigits, d)) = {} THEN {} ELSE QuerySpecific(NarrowedTo(p, BmDigits, d))
    BY <1>2, <1>3, SelectedCounted
  <2> QED BY <2>1, <2>2 DEF OneRound
<1>5. ASSUME NEW d \in Digit, NEW x, Selected(NarrowedTo(p, BmDigits, d)) # {}, x \in QuerySpecific(NarrowedTo(p, BmDigits, d))
      PROVE  FitsUpTo(x, p, BmDigits)
  <2> DEFINE q == NarrowedTo(p, BmDigits, d)
  <2>1. /\ q \in Pattern /\ q[BmDigits] = d /\ \A i \in 1..BmDigits - 1 : q[i] = p[i]
        /\ q = [i \in 1..BmDigits |-> q[i]]
    BY <1>3
  <2> HIDE DEF q
  <2>2. x = q /\ \A i \in 1..BmDigits : q[i] # AnyDigit
    BY <1>5, <2>1, WildQueriesNothing DEF q
  <2>3. PICK a \in Selected(q) : TRUE
    BY <1>5 DEF q
  <2>4. a \in bmPresent /\ \A i \in 1..BmDigits : q[i] = a[i]
    BY <2>2, <2>3 DEF Selected
  <2>5. a = q
    BY <2>1, <2>4, AddressBytes
  <2>6. Speakable(a)
    <3>1. \A i \in 1..BmDigits : q[i] \in Digit
      BY <2>1 DEF Pattern
    <3> QED BY <2>2, <2>4, <3>1, AddressBytes
  <2> QED BY <2>1, <2>2, <2>4, <2>5, <2>6 DEF FitsUpTo
<1>6. ASSUME NEW a \in bmPresent, FitsUpTo(a, p, BmDigits)
      PROVE  \E d \in Digit : Selected(NarrowedTo(p, BmDigits, d)) # {} /\ a \in QuerySpecific(NarrowedTo(p, BmDigits, d))
  <2>1. a = [i \in 1..BmDigits |-> a[i]] /\ \A i \in 1..BmDigits : a[i] \in Digit \ {AnyDigit}
    BY <1>6, AddressBytes DEF FitsUpTo
  <2> DEFINE q == NarrowedTo(p, BmDigits, a[BmDigits])
  <2>2. /\ q \in Pattern /\ q[BmDigits] = a[BmDigits] /\ \A i \in 1..BmDigits - 1 : q[i] = p[i]
        /\ q = [i \in 1..BmDigits |-> q[i]]
    BY <1>0, <1>3, <2>1
  <2> HIDE DEF q
  <2>3. \A i \in 1..BmDigits : q[i] = a[i]
    <3> TAKE i \in 1..BmDigits
    <3>1. i = BmDigits \/ i \in 1..BmDigits - 1
      BY <1>0
    <3> QED BY <1>6, <2>2, <3>1 DEF FitsUpTo
  <2>4. q = a
    BY <2>1, <2>2, <2>3
  <2>5. a \in Selected(q)
    BY <2>3 DEF Selected
  <2>6. a \in QuerySpecific(q)
    BY <2>1, <2>2, <2>3, <2>4, WildQueriesNothing
  <2> QED BY <1>0, <2>1, <2>5, <2>6 DEF q
<1>7. \A x : x \in search[BmDigits][p] <=> x \in {a \in bmPresent : FitsUpTo(a, p, BmDigits)}
  BY <1>4, <1>5, <1>6 DEF FitsUpTo
<1> QED BY <1>7

(* With more bytes open, a value that one meter answers to finds nothing,    *)
(* since the pattern has a wildcard left; one that several answer to is     *)
(* searched deeper, and twins answer to the same value.                    *)
LEMMA EarlierRound ==
  ASSUME bmPresent \subseteq BmAddresses, NEW k \in 1..BmDigits - 1, FindsFrom(k + 1) PROVE FindsFrom(k)
<1>0. BmDigits \in Nat /\ BmDigits > 1 /\ k \in 1..BmDigits /\ k # BmDigits /\ k + 1 \in 1..BmDigits
  BY BmAssumption
<1> SUFFICES ASSUME NEW p, OpenFrom(p, k)
             PROVE  search[k][p] = {a \in bmPresent : FitsUpTo(a, p, k) /\ Twin(a)}
  BY <1>0 DEF FindsFrom
<1>1. p \in Pattern
  BY DEF OpenFrom
<1>3. ASSUME NEW d \in Digit
      PROVE  LET q == NarrowedTo(p, k, d) IN
             /\ OpenFrom(q, k + 1) /\ q[k] = d /\ \A i \in 1..BmDigits \ {k} : q[i] = p[i]
             /\ QuerySpecific(q) = {}
  <2> DEFINE q == NarrowedTo(p, k, d)
  <2>1. q \in Pattern /\ q[k] = d /\ \A i \in 1..BmDigits \ {k} : q[i] = p[i]
    BY <1>0, <1>1 DEF NarrowedTo, Pattern
  <2> HIDE DEF q
  <2>2. \A i \in k + 1..BmDigits : q[i] = AnyDigit
    BY <1>0, <2>1 DEF OpenFrom
  <2>3. QuerySpecific(q) = {}
    BY <1>0, <2>1, <2>2, WildQueriesNothing
  <2> QED BY <2>1, <2>2, <2>3 DEF OpenFrom, q
<1>4. ASSUME NEW x
      PROVE  x \in search[k][p] <=> \E d \in Digit : /\ Cardinality(Selected(NarrowedTo(p, k, d))) \notin {0, 1}
                                                     /\ x \in search[k + 1][NarrowedTo(p, k, d)]
  <2>1. search[k][p] = OneRound(search, p, k)
    BY <1>0, <1>1, SearchRoundOf
  <2> QED BY <1>3, <2>1 DEF OneRound
<1>5. ASSUME NEW d \in Digit, NEW x, Cardinality(Selected(NarrowedTo(p, k, d))) \notin {0, 1}, x \in search[k + 1][NarrowedTo(p, k, d)]
      PROVE  x \in bmPresent /\ FitsUpTo(x, p, k) /\ Twin(x)
  <2> DEFINE q == NarrowedTo(p, k, d)
  <2>1. OpenFrom(q, k + 1) /\ q[k] = d /\ \A i \in 1..BmDigits \ {k} : q[i] = p[i]
    BY <1>3
  <2> HIDE DEF q
  <2>2. x \in bmPresent /\ FitsUpTo(x, q, k + 1) /\ (k + 1 = BmDigits \/ Twin(x))
    BY <1>5, <2>1 DEF FindsFrom, q
  <2>3. \A i \in 1..k : q[i] = x[i]
    BY <1>0, <2>2 DEF FitsUpTo
  <2>4. \A i \in 1..k - 1 : p[i] = x[i]
    BY <1>0, <2>1, <2>3
  <2>5. ASSUME k + 1 = BmDigits PROVE Twin(x)
    <3>1. \A i \in 1..BmDigits : x[i] # AnyDigit
      BY <2>2, AddressBytes DEF FitsUpTo
    <3>2. x \in Selected(q)
      <4>1. \A i \in 1..BmDigits : q[i] = AnyDigit \/ q[i] = x[i]
        <5> TAKE i \in 1..BmDigits
        <5>1. i \in 1..k \/ i \in k + 1..BmDigits
          BY <1>0
        <5> QED BY <2>1, <2>3, <5>1 DEF OpenFrom
      <4> QED BY <2>2, <4>1 DEF Selected
    <3>3. PICK b \in Selected(q) : b # x
      BY <1>5, <3>2, SelectedCounted DEF q
    <3>4. \A i \in 1..BmDigits - 1 : x[i] = b[i]
      <4> TAKE i \in 1..BmDigits - 1
      <4>1. i \in 1..BmDigits /\ i \in 1..k
        BY <1>0, <2>5
      <4>2. q[i] = AnyDigit \/ q[i] = b[i]
        BY <3>3, <4>1 DEF Selected
      <4> QED BY <2>3, <3>1, <4>1, <4>2
    <3> QED BY <3>3, <3>4 DEF Twin, Selected
  <2> QED BY <2>2, <2>4, <2>5 DEF FitsUpTo
<1>6. ASSUME NEW a \in bmPresent, FitsUpTo(a, p, k), Twin(a)
      PROVE  \E d \in Digit : /\ Cardinality(Selected(NarrowedTo(p, k, d))) \notin {0, 1}
                             /\ a \in search[k + 1][NarrowedTo(p, k, d)]
  <2>1. \A i \in 1..BmDigits : a[i] \in Digit \ {AnyDigit}
    BY <1>6, AddressBytes DEF FitsUpTo
  <2> DEFINE q == NarrowedTo(p, k, a[k])
  <2>2. OpenFrom(q, k + 1) /\ q[k] = a[k] /\ \A i \in 1..BmDigits \ {k} : q[i] = p[i]
    BY <1>0, <1>3, <2>1
  <2>d. a[k] \in Digit
    BY <1>0, <2>1
  <2> HIDE DEF q
  <2>3. \A i \in 1..k : q[i] = a[i]
    <3> TAKE i \in 1..k
    <3>1. i = k \/ (i \in 1..k - 1 /\ i \in 1..BmDigits \ {k})
      BY <1>0
    <3> QED BY <1>6, <2>2, <3>1 DEF FitsUpTo
  <2>4. \A i \in 1..BmDigits : i \in 1..k \/ q[i] = AnyDigit
    <3> TAKE i \in 1..BmDigits
    <3>1. i \in 1..k \/ i \in k + 1..BmDigits
      BY <1>0
    <3> QED BY <2>2, <3>1 DEF OpenFrom
  <2>5. PICK b \in bmPresent \ {a} : \A i \in 1..BmDigits - 1 : a[i] = b[i]
    BY <1>6 DEF Twin
  <2>6. a \in Selected(q)
    BY <2>3, <2>4 DEF Selected
  <2>7. b \in Selected(q)
    <3>1. \A i \in 1..k : q[i] = b[i]
      BY <1>0, <2>3, <2>5
    <3> QED BY <2>4, <2>5, <3>1 DEF Selected
  <2>8. Cardinality(Selected(q)) \notin {0, 1}
    BY <2>5, <2>6, <2>7, SelectedCounted
  <2>9. FitsUpTo(a, q, k + 1)
    <3>1. (k + 1) - 1 = k
      BY <1>0
    <3> QED BY <1>6, <2>3, <3>1 DEF FitsUpTo
  <2>10. a \in search[k + 1][q]
    BY <1>6, <2>2, <2>9 DEF FindsFrom
  <2> QED BY <2>d, <2>8, <2>10 DEF q
<1>7. \A x : x \in search[k][p] <=> x \in {a \in bmPresent : FitsUpTo(a, p, k) /\ Twin(a)}
  BY <1>4, <1>5, <1>6
<1> QED BY <1>7

(* So the search finds the twins: from the last byte to the first.          *)
LEMMA SearchHolds == bmPresent \subseteq BmAddresses => SearchFinds
<1> SUFFICES ASSUME bmPresent \subseteq BmAddresses PROVE SearchFinds
  OBVIOUS
<1>0. BmDigits \in Nat /\ BmDigits > 1
  BY BmAssumption
<1> DEFINE T == {j \in 0..BmDigits - 1 : ~FindsFrom(BmDigits - j)}
<1>1. T = {}
  <2> SUFFICES ASSUME T # {} PROVE FALSE
    OBVIOUS
  <2>1. T \in SUBSET Nat
    BY <1>0
  <2>2. PICK m \in T : \A y \in T : m <= y
    BY <2>1, LeastNatural
  <2>3. m # 0
    BY <1>0, <2>2, LastRound
  <2>4. m - 1 \in 0..BmDigits - 1 /\ m - 1 \notin T
    BY <1>0, <2>2, <2>3
  <2>5. BmDigits - m \in 1..BmDigits - 1 /\ BmDigits - (m - 1) = (BmDigits - m) + 1
    BY <1>0, <2>2, <2>3
  <2>6. FindsFrom(BmDigits - m)
    BY <2>4, <2>5, EarlierRound
  <2> QED BY <2>2, <2>6
<1>2. FindsFrom(1)
  <2>1. BmDigits - 1 \in 0..BmDigits - 1 /\ BmDigits - (BmDigits - 1) = 1
    BY <1>0
  <2> QED BY <1>1, <2>1
<1> DEFINE all == [i \in 1..BmDigits |-> AnyDigit]
<1>3. OpenFrom(all, 1)
  BY DEF OpenFrom, Pattern, Digit, AnyDigit
<1>4. search[1][all] = {a \in bmPresent : FitsUpTo(a, all, 1) /\ Twin(a)}
  BY <1>0, <1>2, <1>3 DEF FindsFrom
<1>5. \A a \in bmPresent : FitsUpTo(a, all, 1) <=> Range(a) \subseteq Digit \ {AnyDigit}
  BY DEF FitsUpTo, Speakable
<1> QED BY <1>4, <1>5 DEF SearchFinds, Twin
=============================================================================
