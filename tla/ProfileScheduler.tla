-------------------------- MODULE ProfileScheduler --------------------------
(***************************************************************************)
(* ProfileScheduler::run (src/wmbus/radio/scheduler.rs): one run holds the *)
(* shared radio in the base GFSK profile, opens the scheduled windows in   *)
(* turn, and is to end in base GFSK reception whatever happens.            *)
(*                                                                         *)
(* A transition (enter_profile_rx) holds the driver lock throughout and    *)
(* touches nothing that changes meanwhile, so it is one step; any SPI      *)
(* access in it may fail.  A wait (wait_until) is several steps, because   *)
(* CancelToken::cancel runs on another thread: it stores the flag, then    *)
(* wakes whoever is already waiting.                                       *)
(***************************************************************************)
EXTENDS Sx126xDriver, Sequences

CONSTANTS
  Schedules,            \* the window lists a caller may pass to run
  CanCancel             \* whether anyone calls cancel()

(* A window is [offset, duration, profile], times in units of the timeline. *)
ASSUME SchedulesAssumption ==
  Schedules \subseteq Seq([offset : Nat, duration : Nat, profile : Modem])
ASSUME CanCancelAssumption == CanCancel \in BOOLEAN

VARIABLES
  spc,                  \* where the run is
  windows,              \* the list it was given
  win,                  \* the window being served, 1..Len(windows)
  outcome,              \* what run returned
  failed,               \* run_inner ended with an error (restore's `original`)
  cancel,               \* CancelToken: flag, and whether cancel() has returned
  woken,                \* the notification reached the pending wait
  late                  \* window changes attempted since the flag was stored

sched == <<spc, windows, win, outcome, failed, cancel, woken, late>>

Base == "GFSK"

(* Opening: base profile held until the window opens.  Closing: the window *)
(* is open.  Within each: flag check, subscription, wait, second check,    *)
(* profile change.                                                         *)
WaitStep == {"check", "subscribe", "wait", "recheck", "change"}
SchedPc  == [at : {"start", "enter", "restore", "done"}, step : {"-"}]
              \cup [at : {"opening", "closing"}, step : WaitStep]
At(a)      == [at |-> a, step |-> "-"]
In(a, s)   == [at |-> a, step |-> s]
Outcome    == {"none", "finished", "cancelled", "error", "recovery_failed", "overlapping"}

(* validate_windows: each window opens at or after the end of the previous. *)
ValidWindows(ws) ==
  \A i \in 1..Len(ws) :
    i > 1 => ws[i].offset >= ws[i-1].offset + ws[i-1].duration

SchedInit ==
  /\ DriverInit
  /\ spc = At("start")
  /\ windows \in Schedules
  /\ win = 1
  /\ outcome = "none"
  /\ failed = FALSE
  /\ cancel = [flag |-> FALSE, returned |-> FALSE]
  /\ woken = FALSE
  /\ late = 0

-----------------------------------------------------------------------------
(* Where the timeline goes after window w: the next one, or the end.       *)
NextWindow(w) == IF w <= Len(windows) THEN In("opening", "check") ELSE At("done")

(* run: a bad list is refused before the radio is touched.                 *)
RunStart ==
  /\ spc = At("start")
  /\ IF ValidWindows(windows)
       THEN spc' = At("enter") /\ UNCHANGED outcome
       ELSE spc' = At("done") /\ outcome' = "overlapping"
  /\ UNCHANGED <<windows, win, failed, cancel, woken, late, driver>>

(* Transitions need the driver lock; they release it before they end.      *)
Transition(p) ==
  /\ lock = Free /\ UNCHANGED <<lock, faults>>
  /\ radio' = EnterProfileRx(radio, p)
TransitionFails(p) ==
  /\ lock = Free /\ UNCHANGED lock
  /\ Fault
  /\ radio' \in FailedEntry(radio, p)

(* run_inner's first step: take the base profile.                          *)
EnterBase ==
  /\ spc = At("enter")
  /\ \/ /\ Transition(Base)
        /\ spc' = NextWindow(1)
        /\ outcome' = IF windows = <<>> THEN "finished" ELSE outcome
        /\ UNCHANGED failed
     \/ /\ TransitionFails(Base)
        /\ spc' = At("restore") /\ failed' = TRUE
        /\ UNCHANGED outcome
  /\ UNCHANGED <<windows, win, cancel, woken, late>>

-----------------------------------------------------------------------------
(* Mutant of IsCancelled: a token without a flag, only a notification.     *)
NeverFlagged == FALSE

(* CancelToken::is_cancelled.                                              *)
IsCancelled == cancel.flag

(* wait_until, and the second check of run_inner behind it.                *)

GoTo(s) == spc' = [spc EXCEPT !.step = s]
Abandon == spc' = At("restore")
WaitVars == <<windows, win, outcome, failed, cancel, late, driver>>

(* The check before the wait, or the one before the profile change.        *)
CheckFlag ==
  /\ spc.step \in {"check", "recheck"}
  /\ IF IsCancelled THEN Abandon
     ELSE GoTo(IF spc.step = "check" THEN "subscribe" ELSE "change")
  /\ UNCHANGED woken /\ UNCHANGED WaitVars

(* The first poll of the select registers the waiter; an earlier           *)
(* notify_waiters is lost.                                                 *)
Subscribe ==
  /\ spc.step = "subscribe"
  /\ GoTo("wait")
  /\ woken' = FALSE
  /\ UNCHANGED WaitVars

(* Mutant of WaitElapses: a select without its timer.                      *)
WaitNeverElapses ==
  /\ spc.step = "wait" /\ IsCancelled
  /\ Abandon
  /\ UNCHANGED woken /\ UNCHANGED WaitVars

(* sleep_until completes: the flag is read once more.                      *)
WaitElapses ==
  /\ spc.step = "wait"
  /\ IF IsCancelled THEN Abandon ELSE GoTo("recheck")
  /\ UNCHANGED woken /\ UNCHANGED WaitVars

WaitWoken ==
  /\ spc.step = "wait" /\ woken
  /\ Abandon
  /\ UNCHANGED woken /\ UNCHANGED WaitVars

-----------------------------------------------------------------------------
(* The profile changes of one window.                                      *)

(* Mutant of ChangeFails: the error behind a restore is forgotten.         *)
ChangeFailsSilently(p) ==
  /\ TransitionFails(p)
  /\ Abandon
  /\ UNCHANGED <<win, outcome, failed>>

ChangeFails(p) ==
  /\ TransitionFails(p)
  /\ Abandon /\ failed' = TRUE
  /\ UNCHANGED <<win, outcome>>

OpenWindow ==
  /\ spc = In("opening", "change")
  /\ \/ /\ Transition(windows[win].profile)
        /\ spc' = In("closing", "check")
        /\ UNCHANGED <<win, outcome, failed>>
     \/ ChangeFails(windows[win].profile)
  /\ late' = IF cancel.flag THEN late + 1 ELSE late
  /\ UNCHANGED <<windows, cancel, woken>>

CloseWindow ==
  /\ spc = In("closing", "change")
  /\ \/ /\ Transition(Base)
        /\ win' = win + 1
        /\ spc' = NextWindow(win + 1)
        /\ outcome' = IF win = Len(windows) THEN "finished" ELSE outcome
        /\ UNCHANGED failed
     \/ ChangeFails(Base)
  /\ UNCHANGED <<windows, cancel, woken, late>>

(* Mutant of RestoreBase: a failed restore is swallowed.                   *)
RestoreBaseSwallow ==
  /\ spc = At("restore")
  /\ \/ Transition(Base) \/ TransitionFails(Base)
  /\ outcome' = IF failed THEN "error" ELSE "cancelled"
  /\ spc' = At("done")
  /\ UNCHANGED <<windows, win, failed, cancel, woken, late>>

(* restore_base, after an error or a cancellation.                         *)
RestoreBase ==
  /\ spc = At("restore")
  /\ \/ /\ Transition(Base)
        /\ outcome' = IF failed THEN "error" ELSE "cancelled"
     \/ /\ TransitionFails(Base)
        /\ outcome' = "recovery_failed"
  /\ spc' = At("done")
  /\ UNCHANGED <<windows, win, failed, cancel, woken, late>>

-----------------------------------------------------------------------------
(* CancelToken::cancel, called from another task.                          *)

CancelStore ==
  /\ CanCancel /\ ~cancel.flag
  /\ cancel' = [cancel EXCEPT !.flag = TRUE]
  /\ UNCHANGED <<spc, windows, win, outcome, failed, woken, late, driver>>

CancelNotify ==
  /\ cancel.flag /\ ~cancel.returned
  /\ cancel' = [cancel EXCEPT !.returned = TRUE]
  /\ woken' = (spc.step = "wait")
  /\ UNCHANGED <<spc, windows, win, outcome, failed, late, driver>>

-----------------------------------------------------------------------------
Transitions == EnterBase \/ OpenWindow \/ CloseWindow \/ RestoreBase
Waits       == CheckFlag \/ Subscribe \/ WaitElapses \/ WaitWoken
RunStep     == RunStart \/ Transitions \/ Waits
Cancel      == CancelStore \/ CancelNotify
SchedNext   == RunStep \/ Cancel

(* The timers of a window list are finite and the runtime keeps polling the *)
(* run; tokio's Mutex queues its waiters first come, first served, so a    *)
(* transition that keeps finding the lock taken gets it in the end.        *)
SchedFairness ==
  /\ WF_sched(RunStart) /\ WF_sched(Waits)
  /\ SF_sched(Transitions)

SchedSpec == SchedInit /\ [][SchedNext]_<<sched, driver>> /\ SchedFairness

-----------------------------------------------------------------------------
SchedTypeOK ==
  /\ DriverTypeOK
  /\ spc \in SchedPc
  /\ windows \in Schedules
  /\ win \in 1..(Len(windows) + 1)
  /\ outcome \in Outcome
  /\ failed \in BOOLEAN
  /\ cancel \in [flag : BOOLEAN, returned : BOOLEAN]
  /\ woken \in BOOLEAN
  /\ late \in Nat

(* Whenever the run waits, the radio really receives in the profile the    *)
(* timeline calls for: base until a window opens, the window's profile     *)
(* while it is open (run_inner).                                           *)
HoldsProfile ==
  /\ spc.at = "opening" => ArmedIn(radio, Base)
  /\ spc.at = "closing" => ArmedIn(radio, windows[win].profile)

(* "each run ends in the documented state: base GFSK RX": whatever run     *)
(* returns, short of RecoveryFailed or a list it refused, the radio is     *)
(* armed in the base profile.                                              *)
ReturnsInBase ==
  spc = At("done") /\ outcome \in {"finished", "cancelled", "error"}
    => ArmedIn(radio, Base)

(* A request to cancel stops the schedule: the flag may be stored between  *)
(* the last check and the profile change, so one more change to a window   *)
(* may happen, never two.                                                  *)
CancelStopsWindows == late <= 1

(* What run returns is what happened: it finished only after the last      *)
(* window, was cancelled only on request, failed only because an access    *)
(* did, and gave up on the base profile only after a second failure or a   *)
(* failure behind a cancellation.                                          *)
OutcomeTruthful ==
  /\ outcome = "finished"  => win = Len(windows) + 1 /\ ~failed
  /\ outcome = "cancelled" => cancel.flag
  /\ outcome = "error"     => faults > 0
  /\ outcome = "recovery_failed" => faults > 1 \/ (faults = 1 /\ cancel.flag)
  /\ outcome = "overlapping" => ~ValidWindows(windows) /\ radio = NewRadio

(* Every run returns.                                                      *)
RunReturns == <>(spc = At("done"))

(* A run is a lease of the base profile (ProfileLease).                    *)
ReceivingIn(r) ==
  IF \E p \in Modem : ArmedIn(r, p) THEN CHOOSE p \in Modem : ArmedIn(r, p) ELSE "lost"
Told ==
  CASE outcome \in {"finished", "cancelled", "error"} -> "home"
    [] outcome = "overlapping" -> "refused"
    [] OTHER -> outcome
Lease == INSTANCE ProfileLease
           WITH Profile <- Modem, lease <- ReceivingIn(radio), verdict <- Told
ImplementsLease == Lease!Spec
=============================================================================
