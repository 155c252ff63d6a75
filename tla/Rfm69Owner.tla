----------------------------- MODULE Rfm69Owner -----------------------------
(***************************************************************************)
(* Everything an owner may do to an Rfm69Driver (src/wmbus/radio/rfm69.rs), *)
(* in any order and again: Rfm69Receiver follows one receiver byte by byte *)
(* from a successful initialize() on, here initialize() itself is taken    *)
(* apart, may fail anywhere and may be called on a driver that runs.  A    *)
(* call is a sequence of accesses to the chip, between any two of which an *)
(* interrupt task may write the same mode register.                        *)
(***************************************************************************)
EXTENDS Naturals, Sequences, FiniteSets

CONSTANTS
  RoCalls,              \* bound: calls of the owner
  RoFaults,             \* bound: accesses that fail
  RoBursts              \* bound: bursts that fill the FIFO to its threshold

ASSUME RoAssumption == RoCalls \in Nat /\ RoFaults \in Nat /\ RoBursts \in Nat

VARIABLES
  roChip,               \* the chip: mode, FIFO at its threshold, settings
  roConfig,             \* Rfm69Config: pins, key and network id
  roCurrent,            \* current_mode
  roTask,               \* interrupt_task and shutdown_tx: the task they are of, 0 if none
  roTasks,              \* where every task that was ever spawned is
  roEnding,             \* tasks sent a shutdown, or aborted
  roCall,               \* the call, what it found current_mode to be, what it told
  roPlan,               \* accesses it has still to make
  roWriter,             \* history: who wrote the mode last
  roLeft                \* calls, faults and bursts left

roVars  == <<roChip, roConfig, roCurrent, roTask, roTasks, roEnding, roCall, roPlan, roWriter, roLeft>>
roOwner == <<roConfig, roCurrent, roTask, roCall, roPlan>>

(* Rfm69Driver::new takes the chip for asleep; it is in standby after       *)
(* power-up, or as another process has left it.                            *)
RoInit ==
  /\ roChip \in [mode : {"Standby", "Rx"}, level : {FALSE}, set : {"other"}, aes : BOOLEAN, net : {FALSE}]
  /\ roConfig \in [reset : BOOLEAN, irq : BOOLEAN, key : {"none", "hex32", "invalid"}, net : BOOLEAN]
  /\ roCurrent = "Sleep" /\ roTask = 0 /\ roTasks = <<>> /\ roEnding = [stop |-> {}, abort |-> {}]
  /\ roCall = [name |-> "new", found |-> "Sleep", told |-> "Ok"] /\ roPlan = <<>>
  /\ roWriter = "other" /\ roLeft = [calls |-> RoCalls, faults |-> RoFaults, bursts |-> RoBursts]

-----------------------------------------------------------------------------
(* The calls as sequences of accesses.                                     *)

Access(op, arg)     == <<[op |-> op, arg |-> arg]>>
When(condition, s)  == IF condition THEN s ELSE <<>>

(* Mutant of ModePlan: the mode is on record before it is written.          *)
ModePlanEarly(m) ==
  When(roCurrent # m, Access("Record", m) \o Access("Mode", m)
                      \o When(roCurrent = "Sleep", Access("Ready", m)))

(* set_mode: nothing when the mode is on record, else the mode bits, the    *)
(* wait for ModeReady after sleep, and the record.                         *)
ModePlan(m) ==
  When(roCurrent # m, Access("Mode", m) \o When(roCurrent = "Sleep", Access("Ready", m))
                      \o Access("Record", m))

(* configure_wmbus: standby behind the back of current_mode, then thirty     *)
(* writes, some of which may be made when one fails.                       *)
Configure == Access("Standby", "none") \o Access("Set", "some") \o Access("Set", "wmbus")

(* configure_aes refuses a key that is not 32 hex digits before it writes.  *)
ConfigureAes(key) ==
  CASE key = "none" -> <<>> [] key = "hex32" -> Access("Aes", "on") [] key = "invalid" -> Access("Refuse", "key")

InitializePlan(config) ==
  When(config.reset, Access("Reset", "none")) \o Access("Verify", "none") \o Configure
  \o ConfigureAes(config.key) \o When(config.net, Access("Network", "none"))
  \o When(config.irq, Access("Spawn", "none")) \o ModePlan("Rx")

(* start_receive: the FIFO drained, PayloadReady never set, RestartRx.      *)
StartPlan == Access("Drain", "none") \o ModePlan("Rx") \o Access("RestartRx", "none")

(* Mutant of ShutdownPlan: the task is told to stop and not waited for.     *)
ShutdownPlanHasty == When(roTask # 0, Access("Stop", "none")) \o ModePlan("Sleep")

(* shutdown waits for the task it has a handle of and then parks the chip.  *)
ShutdownPlan == When(roTask # 0, Access("Stop", "none") \o Access("Join", "none")) \o ModePlan("Sleep")

Plan(name, config) ==
  CASE name = "initialize"    -> InitializePlan(config)
    [] name = "start_receive" -> StartPlan         \* and is_channel_clear, whose answer is fixed
    [] name = "stop_receive"  -> ModePlan("Standby")   \* and wake_up
    [] name = "sleep"         -> ModePlan("Sleep")
    [] name = "transmit"      -> ModePlan("Standby") \o Access("Refuse", "TX not implemented")
    [] name = "shutdown"      -> ShutdownPlan
    [] name = "drop"          -> When(roTask # 0, Access("Stop", "none") \o Access("Abort", "none"))

(* The trait's initialize takes 32 bytes of a sync word for a key, and their *)
(* 64 hex digits are refused; the key stays with the driver.               *)
Called(name) ==
  /\ roPlan = <<>> /\ roCall.name # "drop" /\ roLeft.calls > 0
  /\ roLeft' = [roLeft EXCEPT !.calls = @ - 1]
  /\ roConfig' \in {roConfig} \cup (IF name = "initialize" THEN {[roConfig EXCEPT !.key = "invalid"]} ELSE {})
  /\ roPlan' = Plan(name, roConfig')
  /\ roCall' = [name |-> name, found |-> roCurrent, told |-> IF roPlan' = <<>> THEN "Ok" ELSE "running"]
  /\ UNCHANGED <<roChip, roCurrent, roTask, roTasks, roEnding, roWriter>>

(* A write to RegOpMode; entering Rx resets the FIFO.                       *)
InMode(m) == [roChip EXCEPT !.mode = m, !.level = @ /\ ~(m = "Rx" /\ roChip.mode # "Rx")]

(* What an access does to the chip.                                        *)
Accessed(c) ==
  CASE c.op = "Reset"   -> [mode |-> "Standby", level |-> FALSE, set |-> "reset", aes |-> FALSE, net |-> FALSE]
    [] c.op = "Standby" -> InMode("Standby")
    [] c.op = "Mode"    -> InMode(c.arg)
    [] c.op = "Set"     -> [roChip EXCEPT !.set = c.arg, !.net = FALSE]
    [] c.op = "Aes"     -> [roChip EXCEPT !.aes = TRUE]
    [] c.op = "Network" -> [roChip EXCEPT !.net = TRUE]
    [] c.op = "Drain"   -> [roChip EXCEPT !.level = FALSE]
    [] OTHER            -> roChip

Goes(c) ==
  /\ roPlan # <<>> /\ c = Head(roPlan)
  /\ roPlan' = Tail(roPlan)
  /\ roCall' = [roCall EXCEPT !.told = IF Tail(roPlan) = <<>> THEN "Ok" ELSE @]
  /\ UNCHANGED <<roConfig, roLeft>>

ChipAccess ==
  \E c \in {Head(roPlan) : x \in {1} \cap DOMAIN roPlan} :
    /\ c.op \notin {"Record", "Spawn", "Stop", "Join", "Abort", "Refuse"} /\ Goes(c)
    /\ roChip' = Accessed(c)
    /\ roWriter' = CASE c.op = "Mode" -> "set_mode" [] c.op \in {"Standby", "Reset"} -> "initialize"
                     [] OTHER -> roWriter
    /\ UNCHANGED <<roCurrent, roTask, roTasks, roEnding>>

RecordMode ==
  \E m \in {"Sleep", "Standby", "Rx"} :
    /\ Goes([op |-> "Record", arg |-> m]) /\ roCurrent' = m
    /\ UNCHANGED <<roChip, roTask, roTasks, roEnding, roWriter>>

(* start_interrupt_handling: the handle and the sender of an earlier task   *)
(* are dropped, which neither ends the task nor tells it to stop.          *)
SpawnTask ==
  /\ Goes([op |-> "Spawn", arg |-> "none"])
  /\ roTasks' = Append(roTasks, "poll") /\ roTask' = Len(roTasks')
  /\ UNCHANGED <<roChip, roCurrent, roEnding, roWriter>>

StopTask ==
  /\ Goes([op |-> "Stop", arg |-> "none"])
  /\ roEnding' = [roEnding EXCEPT !.stop = @ \cup {roTask}]
  /\ UNCHANGED <<roChip, roCurrent, roTask, roTasks, roWriter>>

JoinTask ==
  /\ roTask # 0 /\ roTasks[roTask] = "ended"
  /\ Goes([op |-> "Join", arg |-> "none"])
  /\ roTask' = 0
  /\ UNCHANGED <<roChip, roCurrent, roTasks, roEnding, roWriter>>

AbortTask ==
  /\ Goes([op |-> "Abort", arg |-> "none"])
  /\ roEnding' = [roEnding EXCEPT !.abort = @ \cup {roTask}] /\ roTask' = 0
  /\ UNCHANGED <<roChip, roCurrent, roTasks, roWriter>>

(* A call ends with an error: refused by itself, or because an access      *)
(* failed, the chip did not answer after the reset, or ModeReady did not   *)
(* come.  shutdown only logs that the radio could not be put to sleep.     *)
Fails ==
  /\ roPlan # <<>>
  /\ \/ Head(roPlan).op = "Refuse" /\ UNCHANGED roLeft
     \/ /\ Head(roPlan).op \notin {"Record", "Stop", "Join", "Abort", "Refuse"} /\ roLeft.faults > 0
        /\ roLeft' = [roLeft EXCEPT !.faults = @ - 1]
  /\ roPlan' = <<>>
  /\ roCall' = [roCall EXCEPT !.told = IF roCall.name = "shutdown" THEN "Ok" ELSE "Err"]
  /\ roWriter' = IF Head(roPlan).op = "Ready" THEN "timeout" ELSE roWriter
  /\ UNCHANGED <<roChip, roConfig, roCurrent, roTask, roTasks, roEnding>>

-----------------------------------------------------------------------------
(* The interrupt tasks, and the air.                                       *)

TaskMoves(t, from, to) ==
  /\ t \in DOMAIN roTasks /\ roTasks[t] = from /\ t \notin roEnding.abort
  /\ roTasks' = [roTasks EXCEPT ![t] = to]
  /\ UNCHANGED <<roOwner, roEnding>>

(* A burst at the threshold, or an overrun, is taken up.                   *)
TaskTakes(t) ==
  /\ t \notin roEnding.stop /\ roChip.level /\ TaskMoves(t, "poll", "burst")
  /\ UNCHANGED <<roChip, roWriter, roLeft>>

(* It has read what there was: standby, then Rx.                           *)
TaskStandby(t) ==
  /\ TaskMoves(t, "burst", "rearm")
  /\ roChip' = [InMode("Standby") EXCEPT !.level = FALSE] /\ roWriter' = "task"
  /\ UNCHANGED roLeft

TaskRearms(t) ==
  /\ TaskMoves(t, "rearm", "poll")
  /\ roChip' = InMode("Rx") /\ roWriter' = "task"
  /\ UNCHANGED roLeft

(* An access of its handler fails: the loop goes on.                        *)
TaskFails(t) ==
  /\ roLeft.faults > 0 /\ roLeft' = [roLeft EXCEPT !.faults = @ - 1]
  /\ TaskMoves(t, "burst", "poll") \/ TaskMoves(t, "rearm", "poll")
  /\ UNCHANGED <<roChip, roWriter>>

(* The shutdown is found at the top of the loop, abort() at any await.      *)
TaskStops(t) ==
  /\ \/ t \in roEnding.stop /\ TaskMoves(t, "poll", "ended")
     \/ /\ t \in roEnding.abort /\ roTasks[t] # "ended"
        /\ roTasks' = [roTasks EXCEPT ![t] = "ended"] /\ UNCHANGED <<roOwner, roEnding>>
  /\ UNCHANGED <<roChip, roWriter, roLeft>>

Burst ==
  /\ roChip.mode = "Rx" /\ ~roChip.level /\ roLeft.bursts > 0
  /\ roChip' = [roChip EXCEPT !.level = TRUE]
  /\ roLeft' = [roLeft EXCEPT !.bursts = @ - 1]
  /\ UNCHANGED <<roOwner, roTasks, roEnding, roWriter>>

RoNext ==
  \/ \E name \in {"initialize", "start_receive", "stop_receive", "sleep", "transmit", "shutdown", "drop"} :
       Called(name)
  \/ ChipAccess \/ RecordMode \/ SpawnTask \/ StopTask \/ JoinTask \/ AbortTask \/ Fails
  \/ \E t \in DOMAIN roTasks :
       TaskTakes(t) \/ TaskStandby(t) \/ TaskRearms(t) \/ TaskFails(t) \/ TaskStops(t)
  \/ Burst

-----------------------------------------------------------------------------
(* Between calls the chip is in the mode on record, unless it was written   *)
(* since by somebody who does not record it: an interrupt task at the end  *)
(* of its burst, an initialize() (which then skips the entry into Rx, if   *)
(* Rx was on record), or a set_mode that timed out.  Every start, stop and *)
(* sleep that finds its mode on record does nothing, so all of these last. *)
RecordHolds == roPlan = <<>> /\ roWriter = "set_mode" => roChip.mode = roCurrent

(* An initialize that answers Ok has set all of the radio up, however the   *)
(* earlier ones ended: with the key if there is one, without what an       *)
(* earlier owner left if there is a reset pin; and it listens, unless it   *)
(* found Rx on record, or a task has just begun to re-arm the chip or      *)
(* failed to.                                                              *)
InitializedWhole ==
  roCall.name = "initialize" /\ roCall.told = "Ok" =>
    /\ roChip.set = "wmbus" /\ roChip.net = roConfig.net
    /\ (roConfig.key = "hex32" => roChip.aes) /\ (roConfig.key = "none" /\ roConfig.reset => ~roChip.aes)
    /\ roChip.mode = "Rx" \/ roCall.found = "Rx" \/ roWriter = "task"

(* A task outlives shutdown() only if an initialize() replaced it: the last *)
(* one started is over, so the chip that was put to sleep is never woken   *)
(* by a driver that was initialized once.                                  *)
Replaced == 1..(Len(roTasks) - 1)
LastTaskEnds ==
  roCall.name = "shutdown" /\ roCall.told = "Ok" => {t \in DOMAIN roTasks : roTasks[t] # "ended"} \subseteq Replaced

OwnerServed == RecordHolds /\ InitializedWhole /\ LastTaskEnds
=============================================================================
