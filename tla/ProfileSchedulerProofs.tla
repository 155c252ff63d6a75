----------------------- MODULE ProfileSchedulerProofs -----------------------
(***************************************************************************)
(* What ProfileScheduler promises, and that a scheduled run implements the *)
(* abstract lease of the base profile (ProfileLease), for every list of    *)
(* windows, every number of HAL errors and every moment of cancellation.   *)
(***************************************************************************)
EXTENDS ProfileScheduler, TLAPS

-----------------------------------------------------------------------------
(* The driver methods keep the radio well formed, and a completed entry    *)
(* arms the profile it was asked for, from whatever state it started.      *)

LEMMA SetStandbyType ==
  ASSUME NEW r \in RadioType
  PROVE  SetStandbyCommand(r) \in RadioType /\ SetStandby(r) \in RadioType
BY DEF RadioType, SetStandby, SetStandbyCommand, GetState, RadioState

LEMMA SetPacketTypeType ==
  ASSUME NEW r \in RadioType, NEW p \in Modem
  PROVE  SetPacketType(r, p) \in RadioType
BY DEF RadioType, SetPacketType

LEMMA SetModulationType ==
  ASSUME NEW r \in RadioType, NEW p \in Modem
  PROVE  SetModulationParams(r, p) \in RadioType
BY DEF RadioType, SetModulationParams

LEMMA ProfileMaskType ==
  ASSUME NEW p \in Modem
  PROVE  ProfileMask(p) \in SUBSET IrqBit
BY DEF ProfileMask, IrqBit

LEMMA ApplyProfileType ==
  ASSUME NEW r \in RadioType, NEW p \in Modem
  PROVE  ApplyProfile(r, p) \in RadioType
BY SetModulationType, ProfileMaskType DEF RadioType, ApplyProfile, SetDioIrqParams

LEMMA SwitchProfileType ==
  ASSUME NEW r \in RadioType, NEW p \in Modem
  PROVE  SwitchProfile(r, p) \in RadioType
BY SetStandbyType, SetPacketTypeType, ApplyProfileType DEF SwitchProfile

LEMMA EnterProfileType ==
  ASSUME NEW r \in RadioType, NEW p \in Modem
  PROVE  EnterProfileRx(r, p) \in RadioType
<1>1. SwitchProfile(SetStandby(r), p) \in RadioType
  BY SetStandbyType, SwitchProfileType
<1>2. ASSUME NEW s \in RadioType PROVE SetRx(s) \in RadioType
  BY DEF RadioType, SetRx, RadioState
<1> QED BY <1>1, <1>2 DEF EnterProfileRx

LEMMA FailedEntryType ==
  ASSUME NEW r \in RadioType, NEW p \in Modem
  PROVE  FailedEntry(r, p) \subseteq RadioType
<1>1. SetPacketType(SetStandby(r), p) \in RadioType
  BY SetStandbyType, SetPacketTypeType
<1> QED BY <1>1, SetStandbyType, SetModulationType, SwitchProfileType DEF FailedEntry

LEMMA EnterProfileArms ==
  ASSUME NEW r \in RadioType, NEW p \in Modem
  PROVE  ArmedIn(EnterProfileRx(r, p), p)
BY DEF ArmedIn, Hears, EnterProfileRx, SwitchProfile, ApplyProfile, SetRx,
       SetDioIrqParams, SetModulationParams, SetPacketType, SetStandby,
       SetStandbyCommand, GetState, RadioType

LEMMA NewRadioType == NewRadio \in RadioType
<1> DEFINE r0 == [mode |-> "Sleep", modem |-> Unset, mask |-> {}, irq |-> {}, buf |-> Blank,
                  state |-> "Sleep", ptype |-> Unset, mod |-> Unset]
<1>1. r0 \in RadioType
  BY DEF RadioType, RadioState, Content, Blank
<1>2. "GFSK" \in Modem
  BY DEF Modem
<1> HIDE DEF r0
<1>3. SetPacketType(r0, "GFSK") \in RadioType
  BY <1>1, <1>2, SetPacketTypeType
<1>4. ApplyProfile(SetPacketType(r0, "GFSK"), "GFSK") \in RadioType
  BY <1>2, <1>3, ApplyProfileType
<1> QED BY <1>4 DEF NewRadio, ConfigureForWmbus, r0

LEMMA BaseIsModem == Base \in Modem
BY DEF Base, Modem

(* A transition that completes leaves the radio armed in its profile; one  *)
(* that fails leaves it well formed and costs a fault.                     *)
LEMMA TransitionEffect ==
  ASSUME DriverTypeOK, NEW p \in Modem, Transition(p)
  PROVE  DriverTypeOK' /\ ArmedIn(radio', p)
BY EnterProfileType, EnterProfileArms DEF DriverTypeOK, Transition

LEMMA TransitionFailsEffect ==
  ASSUME DriverTypeOK, NEW p \in Modem, TransitionFails(p)
  PROVE  DriverTypeOK' /\ faults' > 0
<1>1. radio' \in RadioType
  BY FailedEntryType DEF DriverTypeOK, TransitionFails
<1>2. faults' \in 0..MaxFaults /\ faults' > 0
  BY MaxFaultsAssumption DEF DriverTypeOK, TransitionFails, Fault
<1> QED BY <1>1, <1>2 DEF DriverTypeOK, TransitionFails

-----------------------------------------------------------------------------
(* The inductive invariant.  HoldsProfile alone is not inductive: that the *)
(* window being served exists, that a run not yet opening has served none, *)
(* and that nothing has been told before the end has to be known as well.  *)

WindowServed ==
  /\ spc.at \in {"start", "enter"} => win = 1
  /\ spc.at \in {"opening", "closing"} => win \in 1..Len(windows)

SchedInv == SchedTypeOK /\ WindowServed /\ HoldsProfile /\ ReturnsInBase

LEMMA WindowProfile ==
  ASSUME SchedTypeOK, NEW i \in 1..Len(windows)
  PROVE  windows[i].profile \in Modem
<1> DEFINE Window == [offset : Nat, duration : Nat, profile : Modem]
<1>1. windows \in Seq(Window)
  BY SchedulesAssumption DEF SchedTypeOK
<1>2. ASSUME NEW w \in Window PROVE w.profile \in Modem
  OBVIOUS
<1> HIDE DEF Window
<1>3. windows[i] \in Window
  BY <1>1
<1> QED BY <1>2, <1>3

LEMMA WindowsLength ==
  ASSUME SchedTypeOK
  PROVE  Len(windows) \in Nat /\ (windows = <<>> <=> Len(windows) = 0)
BY SchedulesAssumption DEF SchedTypeOK

LEMMA SchedInitInv == SchedInit => SchedInv
<1> SUFFICES ASSUME SchedInit PROVE SchedInv
  OBVIOUS
<1> USE DEF SchedInit
<1>1. DriverTypeOK
  BY NewRadioType, MaxFaultsAssumption DEF DriverInit, DriverTypeOK, Holder, Free
<1>2. spc \in SchedPc /\ spc.at = "start"
  BY DEF SchedPc, At
<1>3. Len(windows) \in Nat
  BY SchedulesAssumption
<1>4. failed \in BOOLEAN /\ woken \in BOOLEAN
  OBVIOUS
<1>5. cancel \in [flag : BOOLEAN, returned : BOOLEAN]
  OBVIOUS
<1>6. windows \in Schedules /\ win \in 1..(Len(windows) + 1) /\ outcome \in Outcome /\ late \in Nat
  BY <1>3 DEF Outcome
<1>7. SchedTypeOK
  BY <1>1, <1>2, <1>4, <1>5, <1>6 DEF SchedTypeOK
<1> QED BY <1>2, <1>7 DEF SchedInv, WindowServed, HoldsProfile, ReturnsInBase, At

(* The control states a step can lead to.                                  *)
LEMMA PcTypes ==
  /\ \A a \in {"start", "enter", "restore", "done"} : At(a) \in SchedPc /\ At(a).at = a
  /\ \A a \in {"opening", "closing"}, s \in WaitStep : In(a, s) \in SchedPc /\ In(a, s).at = a
BY DEF At, In, SchedPc

LEMMA NextWindowPc ==
  ASSUME SchedTypeOK, NEW w \in Nat
  PROVE  /\ NextWindow(w) \in SchedPc
         /\ NextWindow(w).at \in {"opening", "done"}
         /\ NextWindow(w).at = "opening" => w <= Len(windows)
BY PcTypes DEF NextWindow, WaitStep

LEMMA WaitStepInv ==
  ASSUME SchedInv, Waits
  PROVE  SchedInv'
<1> USE DEF SchedInv
<1>1. /\ UNCHANGED <<windows, win, outcome, failed, cancel, late, radio, lock, faults>>
      /\ woken' \in BOOLEAN
  BY DEF Waits, CheckFlag, Subscribe, WaitElapses, WaitWoken, WaitVars, driver, SchedTypeOK
<1>2. spc.at \in {"opening", "closing"} /\ spc.step \in WaitStep
  BY DEF Waits, CheckFlag, Subscribe, WaitElapses, WaitWoken, SchedTypeOK, SchedPc, WaitStep
<1>3. spc' = At("restore") \/ \E s \in WaitStep : spc' = [spc EXCEPT !.step = s]
  BY DEF Waits, CheckFlag, Subscribe, WaitElapses, WaitWoken, Abandon, GoTo, WaitStep
<1>4. spc' \in SchedPc /\ spc'.at \in {spc.at, "restore"}
  BY <1>2, <1>3, PcTypes DEF SchedTypeOK, SchedPc
<1>5. SchedTypeOK'
  BY <1>1, <1>4 DEF SchedTypeOK, DriverTypeOK
<1> QED BY <1>1, <1>2, <1>4, <1>5 DEF WindowServed, HoldsProfile, ReturnsInBase, ArmedIn, Hears, At

LEMMA CancelInv ==
  ASSUME SchedInv, Cancel
  PROVE  SchedInv'
<1> USE DEF SchedInv
<1>1. /\ UNCHANGED <<spc, windows, win, outcome, failed, late, radio, lock, faults>>
      /\ cancel' \in [flag : BOOLEAN, returned : BOOLEAN]
      /\ woken' \in BOOLEAN
  BY DEF Cancel, CancelStore, CancelNotify, driver, SchedTypeOK
<1>2. SchedTypeOK'
  BY <1>1 DEF SchedTypeOK, DriverTypeOK
<1> QED BY <1>1, <1>2 DEF WindowServed, HoldsProfile, ReturnsInBase, ArmedIn, Hears

LEMMA RunStartInv ==
  ASSUME SchedInv, RunStart
  PROVE  SchedInv'
<1> USE DEF SchedInv
<1>1. UNCHANGED <<windows, win, failed, cancel, woken, late, radio, lock, faults>>
  BY DEF RunStart, driver
<1>2. CASE spc' = At("enter") /\ outcome' = outcome
  BY <1>1, <1>2, PcTypes
     DEF RunStart, SchedTypeOK, DriverTypeOK, WindowServed, HoldsProfile, ReturnsInBase, At
<1>3. CASE spc' = At("done") /\ outcome' = "overlapping"
  BY <1>1, <1>3, PcTypes
     DEF RunStart, SchedTypeOK, DriverTypeOK, WindowServed, HoldsProfile, ReturnsInBase, Outcome, At
<1> QED BY <1>2, <1>3 DEF RunStart

LEMMA EnterBaseInv ==
  ASSUME SchedInv, EnterBase
  PROVE  SchedInv'
<1> USE DEF SchedInv
<1>1. UNCHANGED <<windows, win, cancel, woken, late>> /\ win = 1 /\ DriverTypeOK
  BY DEF EnterBase, WindowServed, SchedTypeOK, At
<1>2. CASE /\ Transition(Base) /\ spc' = NextWindow(1) /\ UNCHANGED failed
           /\ outcome' = IF windows = <<>> THEN "finished" ELSE outcome
  <2>1. DriverTypeOK' /\ ArmedIn(radio', Base)
    BY <1>1, <1>2, TransitionEffect, BaseIsModem
  <2>2. SchedTypeOK'
    BY <1>1, <1>2, <2>1, NextWindowPc DEF SchedTypeOK, Outcome
  <2>3. WindowServed'
    BY <1>1, <1>2, NextWindowPc, WindowsLength DEF WindowServed
  <2>4. HoldsProfile' /\ ReturnsInBase'
    BY <1>2, <2>1, NextWindowPc DEF HoldsProfile, ReturnsInBase
  <2> QED BY <2>2, <2>3, <2>4
<1>3. CASE /\ TransitionFails(Base) /\ spc' = At("restore") /\ failed' = TRUE
           /\ UNCHANGED outcome
  <2>1. DriverTypeOK'
    BY <1>1, <1>3, TransitionFailsEffect, BaseIsModem
  <2> QED BY <1>1, <1>3, <2>1, PcTypes
          DEF SchedTypeOK, WindowServed, HoldsProfile, ReturnsInBase, At
<1> QED BY <1>2, <1>3 DEF EnterBase

LEMMA ChangeFailsInv ==
  ASSUME SchedInv, NEW p \in Modem, ChangeFails(p),
         UNCHANGED <<windows, cancel, woken>>, late' \in Nat
  PROVE  SchedInv'
<1>1. DriverTypeOK'
  BY TransitionFailsEffect DEF SchedInv, SchedTypeOK, ChangeFails
<1> QED BY <1>1, PcTypes
        DEF SchedInv, SchedTypeOK, WindowServed, HoldsProfile, ReturnsInBase,
            ChangeFails, Abandon, At

LEMMA OpenWindowInv ==
  ASSUME SchedInv, OpenWindow
  PROVE  SchedInv'
<1> USE DEF SchedInv
<1>1. spc.at = "opening" /\ win \in 1..Len(windows) /\ UNCHANGED <<windows, cancel, woken>>
  BY DEF OpenWindow, WindowServed, In
<1>2. PICK p \in Modem : p = windows[win].profile
  BY <1>1, WindowProfile
<1>3. late' \in Nat
  BY DEF OpenWindow, SchedTypeOK
<1>4. CASE /\ Transition(p) /\ spc' = In("closing", "check")
           /\ UNCHANGED <<win, outcome, failed>>
  <2>1. DriverTypeOK' /\ ArmedIn(radio', p)
    BY <1>2, <1>4, TransitionEffect DEF SchedTypeOK
  <2>2. ArmedIn(radio, windows[win].profile)'
    BY <1>1, <1>2, <1>4, <2>1
  <2>3. spc' \in SchedPc /\ spc'.at = "closing"
    BY <1>4, PcTypes DEF WaitStep
  <2> QED BY <1>1, <1>3, <1>4, <2>1, <2>2, <2>3
          DEF SchedTypeOK, WindowServed, HoldsProfile, ReturnsInBase, At
<1>5. CASE ChangeFails(p)
  BY <1>1, <1>2, <1>3, <1>5, ChangeFailsInv
<1> QED BY <1>2, <1>4, <1>5 DEF OpenWindow

LEMMA CloseWindowInv ==
  ASSUME SchedInv, CloseWindow
  PROVE  SchedInv'
<1> USE DEF SchedInv
<1>1. spc.at = "closing" /\ win \in 1..Len(windows) /\ UNCHANGED <<windows, cancel, woken, late>>
  BY DEF CloseWindow, WindowServed, In
<1>2. CASE /\ Transition(Base) /\ win' = win + 1 /\ spc' = NextWindow(win + 1)
           /\ outcome' = IF win = Len(windows) THEN "finished" ELSE outcome
           /\ UNCHANGED failed
  <2>1. DriverTypeOK' /\ ArmedIn(radio', Base)
    BY <1>2, TransitionEffect, BaseIsModem DEF SchedTypeOK
  <2>2. win' \in Nat /\ win' \in 1..(Len(windows) + 1) /\ Len(windows) \in Nat
    BY <1>1, <1>2, WindowsLength
  <2>3. /\ spc' \in SchedPc /\ spc'.at \in {"opening", "done"}
        /\ spc'.at = "opening" => win' <= Len(windows)
    BY <1>2, <2>2, NextWindowPc
  <2>4. SchedTypeOK'
    BY <1>1, <1>2, <2>1, <2>2, <2>3 DEF SchedTypeOK, Outcome
  <2>5. WindowServed'
    BY <1>1, <2>2, <2>3 DEF WindowServed
  <2>6. HoldsProfile' /\ ReturnsInBase'
    BY <2>1, <2>3 DEF HoldsProfile, ReturnsInBase
  <2> QED BY <2>4, <2>5, <2>6
<1>3. CASE ChangeFails(Base)
  BY <1>1, <1>3, ChangeFailsInv, BaseIsModem DEF SchedTypeOK
<1> QED BY <1>2, <1>3 DEF CloseWindow

LEMMA RestoreBaseInv ==
  ASSUME SchedInv, RestoreBase
  PROVE  SchedInv'
<1> USE DEF SchedInv
<1>1. UNCHANGED <<windows, win, failed, cancel, woken, late>> /\ spc' = At("done")
  BY DEF RestoreBase
<1>2. CASE Transition(Base) /\ outcome' = IF failed THEN "error" ELSE "cancelled"
  <2>1. DriverTypeOK' /\ ArmedIn(radio', Base)
    BY <1>2, TransitionEffect, BaseIsModem DEF SchedTypeOK
  <2> QED BY <1>1, <1>2, <2>1, PcTypes
          DEF SchedTypeOK, Outcome, WindowServed, HoldsProfile, ReturnsInBase
<1>3. CASE TransitionFails(Base) /\ outcome' = "recovery_failed"
  <2>1. DriverTypeOK'
    BY <1>3, TransitionFailsEffect, BaseIsModem DEF SchedTypeOK
  <2> QED BY <1>1, <1>3, <2>1, PcTypes
          DEF SchedTypeOK, Outcome, WindowServed, HoldsProfile, ReturnsInBase
<1> QED BY <1>1, <1>2, <1>3 DEF RestoreBase

LEMMA SchedStepInv == SchedInv /\ [SchedNext]_<<sched, driver>> => SchedInv'
<1> SUFFICES ASSUME SchedInv, [SchedNext]_<<sched, driver>> PROVE SchedInv'
  OBVIOUS
<1>1. CASE RunStart      BY <1>1, RunStartInv
<1>2. CASE EnterBase     BY <1>2, EnterBaseInv
<1>3. CASE OpenWindow    BY <1>3, OpenWindowInv
<1>4. CASE CloseWindow   BY <1>4, CloseWindowInv
<1>5. CASE RestoreBase   BY <1>5, RestoreBaseInv
<1>6. CASE Waits         BY <1>6, WaitStepInv
<1>7. CASE Cancel        BY <1>7, CancelInv
<1>8. CASE UNCHANGED <<sched, driver>>
  BY <1>8 DEF sched, driver, SchedInv, SchedTypeOK, DriverTypeOK, WindowServed,
              HoldsProfile, ReturnsInBase, ArmedIn, Hears
<1> QED BY <1>1, <1>2, <1>3, <1>4, <1>5, <1>6, <1>7, <1>8
        DEF SchedNext, RunStep, Transitions

(* Every variable of a scheduled run keeps its type, for every list of     *)
(* windows (SchedTypeOK; src/wmbus/radio/scheduler.rs, run).               *)
THEOREM SchedTypeCorrect == SchedSpec => []SchedTypeOK
<1>1. SchedInv => SchedTypeOK BY DEF SchedInv
<1> QED BY <1>1, SchedInitInv, SchedStepInv, PTL DEF SchedSpec

(* Whenever the run waits, the radio receives in the profile the timeline  *)
(* calls for (run_inner).                                                  *)
THEOREM SchedHoldsProfile == SchedSpec => []HoldsProfile
<1>1. SchedInv => HoldsProfile BY DEF SchedInv
<1> QED BY <1>1, SchedInitInv, SchedStepInv, PTL DEF SchedSpec

(* "each run ends in the documented state: base GFSK RX", unless run       *)
(* reports that recovery failed or refused the list (run, restore_base).   *)
THEOREM SchedReturnsInBase == SchedSpec => []ReturnsInBase
<1>1. SchedInv => ReturnsInBase BY DEF SchedInv
<1> QED BY <1>1, SchedInitInv, SchedStepInv, PTL DEF SchedSpec

-----------------------------------------------------------------------------
(* Cancellation.  The flag never goes back, and a run that has seen one    *)
(* change to a window since it was stored meets a check before the next.   *)

LateOnce ==
  /\ late \in {0, 1}
  /\ late = 1 => /\ cancel.flag
                 /\ spc = In("closing", "check") \/ spc.at \in {"restore", "done"}

LEMMA CancelStep ==
  ASSUME SchedTypeOK, LateOnce, [SchedNext]_<<sched, driver>>
  PROVE  LateOnce'
<1>1. CASE RunStart
  BY <1>1 DEF RunStart, LateOnce, At, In
<1>2. CASE EnterBase
  BY <1>2 DEF EnterBase, LateOnce, At, In
<1>3. CASE OpenWindow
  <2>1. late = 0 /\ cancel' = cancel
    BY <1>3 DEF OpenWindow, LateOnce, In
  <2>2. spc' = In("closing", "check") \/ spc' = At("restore")
    BY <1>3 DEF OpenWindow, ChangeFails, Abandon
  <2>3. late' \in {0, 1} /\ (late' = 1 => cancel.flag)
    BY <1>3, <2>1 DEF OpenWindow
  <2> QED BY <2>1, <2>2, <2>3 DEF LateOnce, At
<1>4. CASE CloseWindow
  BY <1>4 DEF CloseWindow, LateOnce, In
<1>5. CASE RestoreBase
  BY <1>5 DEF RestoreBase, LateOnce, At
<1>6. CASE Waits
  <2>1. UNCHANGED <<cancel, late>>
    BY <1>6 DEF Waits, CheckFlag, Subscribe, WaitElapses, WaitWoken, WaitVars
  <2>2. late = 1 => spc' = At("restore")
    BY <1>6 DEF Waits, CheckFlag, Subscribe, WaitElapses, WaitWoken, LateOnce, Abandon,
                IsCancelled, In, SchedTypeOK, SchedPc, WaitStep
  <2> QED BY <2>1, <2>2 DEF LateOnce, At
<1>7. CASE Cancel
  BY <1>7 DEF Cancel, CancelStore, CancelNotify, LateOnce, SchedTypeOK
<1>8. CASE UNCHANGED <<sched, driver>>
  BY <1>8 DEF sched, LateOnce
<1> QED BY <1>1, <1>2, <1>3, <1>4, <1>5, <1>6, <1>7, <1>8
        DEF SchedNext, RunStep, Transitions

(* Once cancel() has stored its flag, at most one more change to a window  *)
(* is attempted, however the wait and the notification race (wait_until,   *)
(* CancelToken).                                                           *)
THEOREM SchedCancelStops == SchedSpec => []CancelStopsWindows
<1>1. SchedInit => LateOnce
  BY DEF SchedInit, LateOnce
<1>2. SchedTypeOK /\ LateOnce /\ [SchedNext]_<<sched, driver>> => LateOnce'
  BY CancelStep
<1>3. LateOnce => CancelStopsWindows
  BY DEF LateOnce, CancelStopsWindows
<1> QED BY <1>1, <1>2, <1>3, SchedTypeCorrect, PTL DEF SchedSpec

-----------------------------------------------------------------------------
(* The profile a radio receives in, as the lease sees it.                  *)

LEMMA ArmedReceives ==
  ASSUME NEW r, NEW p \in Modem, ArmedIn(r, p)
  PROVE  ReceivingIn(r) = p
<1>1. \A q \in Modem : ArmedIn(r, q) => q = p
  BY DEF ArmedIn, Hears
<1> DEFINE chosen == CHOOSE q \in Modem : ArmedIn(r, q)
<1>2. chosen \in Modem /\ ArmedIn(r, chosen)
  OBVIOUS
<1>3. ReceivingIn(r) = chosen
  BY DEF ReceivingIn
<1> QED BY <1>1, <1>2, <1>3

LEMMA SilentIsLost ==
  ASSUME NEW r, r.mode # "Rx"
  PROVE  ReceivingIn(r) = "lost"
BY DEF ReceivingIn, ArmedIn, Hears

(* An entry cut short leaves the radio as it was or not receiving.         *)
LEMMA FailedEntryLoses ==
  ASSUME NEW r \in RadioType, NEW p \in Modem, NEW s \in FailedEntry(r, p)
  PROVE  ReceivingIn(s) \in {ReceivingIn(r), "lost"}
<1> DEFINE selected == SetPacketType(SetStandby(r), p)
<1>1. CASE s = r
  BY <1>1
<1>2. CASE s # r
  <2>1. SetStandbyCommand(r).mode = "StandbyRc" /\ SetStandby(r).mode = "StandbyRc"
    BY DEF RadioType, SetStandby, SetStandbyCommand, GetState
  <2>2. selected \in RadioType /\ selected.mode = "StandbyRc"
    BY <2>1, SetStandbyType, SetPacketTypeType DEF SetPacketType, RadioType
  <2>3. SetModulationParams(selected, p).mode = "StandbyRc"
    BY <2>2 DEF SetModulationParams, RadioType
  <2>4. SwitchProfile(r, p).mode = "StandbyRc"
    BY <2>2, <2>3, SetModulationType
       DEF SwitchProfile, ApplyProfile, SetDioIrqParams, RadioType
  <2>5. s.mode = "StandbyRc"
    BY <1>2, <2>1, <2>2, <2>3, <2>4 DEF FailedEntry
  <2> QED BY <2>5, SilentIsLost
<1> QED BY <1>1, <1>2

LEMMA FailedTransitionLoses ==
  ASSUME DriverTypeOK, NEW p \in Modem, TransitionFails(p)
  PROVE  ReceivingIn(radio') \in {ReceivingIn(radio), "lost"}
BY FailedEntryLoses DEF DriverTypeOK, TransitionFails

-----------------------------------------------------------------------------
(* The caller is told once, at the end.                                    *)

ToldAtEnd == outcome # "none" <=> spc.at = "done"

LEMMA NextWindowTells ==
  ASSUME SchedTypeOK, NEW w \in Nat
  PROVE  NextWindow(w).at = "done" <=> w > Len(windows)
<1>1. Len(windows) \in Nat
  BY WindowsLength
<1> QED BY <1>1 DEF NextWindow, In, At

LEMMA ToldAtEndStep ==
  ASSUME SchedInv, ToldAtEnd, [SchedNext]_<<sched, driver>>
  PROVE  ToldAtEnd'
<1> USE DEF ToldAtEnd
<1>0. SchedTypeOK /\ Len(windows) \in Nat /\ (windows = <<>> <=> Len(windows) = 0)
  BY WindowsLength DEF SchedInv
<1>1. CASE RunStart
  BY <1>1 DEF RunStart, At
<1>2. CASE EnterBase
  <2>1. NextWindow(1).at = "done" <=> windows = <<>>
    BY <1>0, NextWindowTells
  <2> QED BY <1>2, <2>1 DEF EnterBase, At
<1>3. CASE OpenWindow
  BY <1>3 DEF OpenWindow, ChangeFails, Abandon, At, In
<1>4. CASE CloseWindow
  <2>1. win \in 1..Len(windows)
    BY <1>4 DEF CloseWindow, SchedInv, WindowServed, In
  <2>2. NextWindow(win + 1).at = "done" <=> win = Len(windows)
    BY <1>0, <2>1, NextWindowTells
  <2> QED BY <1>4, <2>2 DEF CloseWindow, ChangeFails, Abandon, At, In
<1>5. CASE RestoreBase
  BY <1>5 DEF RestoreBase, At
<1>6. CASE Waits
  <2>1. outcome' = outcome /\ spc.at \in {"opening", "closing"}
    BY <1>0, <1>6 DEF Waits, CheckFlag, Subscribe, WaitElapses, WaitWoken, WaitVars,
                      SchedTypeOK, SchedPc
  <2>2. spc' = At("restore") \/ \E s \in WaitStep : spc' = [spc EXCEPT !.step = s]
    BY <1>6 DEF Waits, CheckFlag, Subscribe, WaitElapses, WaitWoken, Abandon, GoTo, WaitStep
  <2>3. spc'.at # "done"
    BY <1>0, <2>1, <2>2 DEF At, SchedTypeOK, SchedPc
  <2> QED BY <2>1, <2>3
<1>7. CASE Cancel
  BY <1>7 DEF Cancel, CancelStore, CancelNotify
<1>8. CASE UNCHANGED <<sched, driver>>
  BY <1>8 DEF sched
<1> QED BY <1>1, <1>2, <1>3, <1>4, <1>5, <1>6, <1>7, <1>8
        DEF SchedNext, RunStep, Transitions

-----------------------------------------------------------------------------
(* Each step of a run is a step of the lease, or none.                     *)

LEMMA LeaseInit == SchedInit => Lease!Init
<1> SUFFICES ASSUME SchedInit PROVE Lease!Init
  OBVIOUS
<1>1. radio.mode = "Sleep"
  BY DEF SchedInit, DriverInit, NewRadio, ConfigureForWmbus, ApplyProfile, SetDioIrqParams,
         SetModulationParams, SetPacketType
<1>2. ReceivingIn(radio) = "lost"
  BY <1>1, SilentIsLost
<1>3. Told = "none"
  BY DEF SchedInit, Told
<1> QED BY <1>2, <1>3 DEF Lease!Init, Lease!Lost

LEMMA LeaseStep ==
  ASSUME SchedInv, ToldAtEnd, ToldAtEnd', [SchedNext]_<<sched, driver>>
  PROVE  [Lease!Next]_Lease!vars
<1> USE DEF Lease!Next, Lease!vars, Lease!Lend, Lease!TakeBack, Lease!Falter, Lease!Admit,
            Lease!Refuse, Lease!Lost
<1>0. DriverTypeOK /\ Base \in Modem /\ SchedTypeOK
  BY BaseIsModem DEF SchedInv, SchedTypeOK
<1>1. CASE RunStart
  BY <1>1 DEF RunStart, ToldAtEnd, Told, driver, At
<1>2. CASE EnterBase
  <2>1. Told = "none"
    BY <1>2 DEF EnterBase, ToldAtEnd, Told, At
  <2>2. CASE Transition(Base) /\ outcome' \in {"finished", outcome}
    <3>1. ReceivingIn(radio') = Base
      BY <1>0, <2>2, TransitionEffect, ArmedReceives
    <3> QED BY <2>1, <2>2, <3>1 DEF Told
  <2>3. CASE TransitionFails(Base) /\ UNCHANGED outcome
    BY <1>0, <2>1, <2>3, FailedTransitionLoses DEF Told
  <2> QED BY <1>2, <2>2, <2>3 DEF EnterBase
<1>3. CASE OpenWindow
  <2>1. Told = "none" /\ ReceivingIn(radio) = Base
    BY <1>0, <1>3, ArmedReceives DEF OpenWindow, ToldAtEnd, Told, In, SchedInv, HoldsProfile
  <2>2. windows[win].profile \in Modem
    BY <1>0, <1>3, WindowProfile DEF OpenWindow, In, SchedInv, WindowServed
  <2>3. CASE Transition(windows[win].profile) /\ UNCHANGED outcome
    <3>1. ReceivingIn(radio') = windows[win].profile
      BY <1>0, <2>2, <2>3, TransitionEffect, ArmedReceives
    <3> QED BY <2>1, <2>2, <2>3, <3>1 DEF Told
  <2>4. CASE ChangeFails(windows[win].profile)
    BY <1>0, <2>1, <2>2, <2>4, FailedTransitionLoses DEF Told, ChangeFails
  <2> QED BY <1>3, <2>3, <2>4 DEF OpenWindow
<1>4. CASE CloseWindow
  <2>1. Told = "none"
    BY <1>4 DEF CloseWindow, ToldAtEnd, Told, In
  <2>2. CASE Transition(Base) /\ outcome' \in {"finished", outcome}
    <3>1. ReceivingIn(radio') = Base
      BY <1>0, <2>2, TransitionEffect, ArmedReceives
    <3> QED BY <2>1, <2>2, <3>1 DEF Told
  <2>3. CASE ChangeFails(Base)
    BY <1>0, <2>1, <2>3, FailedTransitionLoses DEF Told, ChangeFails
  <2> QED BY <1>4, <2>2, <2>3 DEF CloseWindow
<1>5. CASE RestoreBase
  <2>1. Told = "none"
    BY <1>5 DEF RestoreBase, ToldAtEnd, Told, At
  <2>2. CASE Transition(Base) /\ outcome' \in {"error", "cancelled"}
    <3>1. ReceivingIn(radio') = Base
      BY <1>0, <2>2, TransitionEffect, ArmedReceives
    <3> QED BY <2>1, <2>2, <3>1 DEF Told
  <2>3. CASE TransitionFails(Base) /\ outcome' = "recovery_failed"
    BY <1>0, <2>1, <2>3, FailedTransitionLoses DEF Told
  <2> QED BY <1>5, <2>2, <2>3 DEF RestoreBase
<1>6. CASE Waits \/ Cancel \/ UNCHANGED <<sched, driver>>
  <2>1. UNCHANGED <<radio, outcome>>
    BY <1>6 DEF Waits, CheckFlag, Subscribe, WaitElapses, WaitWoken, WaitVars, driver,
                Cancel, CancelStore, CancelNotify, sched
  <2> QED BY <2>1 DEF Told
<1> QED BY <1>1, <1>2, <1>3, <1>4, <1>5, <1>6 DEF SchedNext, RunStep, Transitions

(* A run is a lease (ImplementsLease; module documentation of              *)
(* src/wmbus/radio/scheduler.rs): windows are lent from the base profile   *)
(* one at a time, and a caller told anything but "recovery failed" or      *)
(* "refused" has the radio back in it.                                     *)
THEOREM SchedImplementsLease == SchedSpec => ImplementsLease
<1>1. SchedInit => ToldAtEnd
  BY DEF SchedInit, ToldAtEnd, At
<1>2. SchedInv /\ ToldAtEnd /\ [SchedNext]_<<sched, driver>> => ToldAtEnd'
  BY ToldAtEndStep
<1>3. SchedInv /\ ToldAtEnd /\ ToldAtEnd' /\ [SchedNext]_<<sched, driver>>
        => [Lease!Next]_Lease!vars
  BY LeaseStep
<1> QED BY <1>1, <1>2, <1>3, LeaseInit, SchedInitInv, SchedStepInv, PTL
        DEF SchedSpec, ImplementsLease, Lease!Spec

-----------------------------------------------------------------------------
(* What the outcome rests on: a run that still follows its timeline has    *)
(* seen no error, one that goes home has a reason to, and each error cost  *)
(* a failing access.                                                       *)
Reasons ==
  /\ spc.at \notin {"restore", "done"} => ~failed
  /\ spc.at = "restore" => failed \/ cancel.flag
  /\ failed => faults > 0
  /\ woken => cancel.flag
  /\ spc = At("start") => radio = NewRadio

TruthInv == Reasons /\ OutcomeTruthful

LEMMA TruthStep ==
  ASSUME SchedInv, ToldAtEnd, TruthInv, [SchedNext]_<<sched, driver>>
  PROVE  TruthInv'
<1> USE DEF TruthInv, Reasons, OutcomeTruthful
<1>0. /\ DriverTypeOK /\ SchedTypeOK /\ Base \in Modem /\ faults \in Nat
      /\ Len(windows) \in Nat /\ (windows = <<>> <=> Len(windows) = 0)
      /\ failed \in BOOLEAN /\ cancel.flag \in BOOLEAN
  BY BaseIsModem, WindowsLength, MaxFaultsAssumption DEF SchedInv, SchedTypeOK, DriverTypeOK
<1>1. CASE RunStart
  <2>1. UNCHANGED <<windows, win, failed, cancel, woken, radio, faults>> /\ spc = At("start")
    BY <1>1 DEF RunStart, driver
  <2>2. outcome = "none"
    BY <2>1 DEF ToldAtEnd, At
  <2>3. CASE ValidWindows(windows) /\ spc' = At("enter") /\ UNCHANGED outcome
    BY <2>1, <2>2, <2>3 DEF At
  <2>4. CASE ~ValidWindows(windows) /\ spc' = At("done") /\ outcome' = "overlapping"
    BY <2>1, <2>4 DEF At, ValidWindows
  <2> QED BY <1>1, <2>3, <2>4 DEF RunStart
<1>2. CASE EnterBase
  <2>1. /\ UNCHANGED <<windows, win, cancel, woken>> /\ outcome = "none" /\ ~failed /\ win = 1
        /\ spc.at = "enter"
    BY <1>2 DEF EnterBase, ToldAtEnd, At, SchedInv, WindowServed
  <2>2. CASE /\ spc' = NextWindow(1) /\ UNCHANGED failed
             /\ outcome' = IF windows = <<>> THEN "finished" ELSE outcome
    <3>1. spc'.at \in {"opening", "done"}
      BY <1>0, <2>2, NextWindowPc
    <3> QED BY <1>0, <2>1, <2>2, <3>1 DEF At
  <2>3. CASE TransitionFails(Base) /\ spc' = At("restore") /\ failed' = TRUE /\ UNCHANGED outcome
    <3>1. faults' > 0
      BY <1>0, <2>3, TransitionFailsEffect
    <3> QED BY <2>1, <2>3, <3>1 DEF At
  <2> QED BY <1>2, <2>2, <2>3 DEF EnterBase
<1>3. ASSUME NEW p \in Modem, ChangeFails(p), UNCHANGED <<cancel, woken>>,
             spc.at \in {"opening", "closing"}
      PROVE  TruthInv'
  <2>1. faults' > 0 /\ failed' = TRUE /\ spc' = At("restore") /\ outcome' = outcome
    BY <1>0, <1>3, TransitionFailsEffect DEF ChangeFails, Abandon
  <2>2. outcome = "none"
    BY <1>3 DEF ToldAtEnd
  <2> QED BY <1>3, <2>1, <2>2 DEF At
<1>4. CASE OpenWindow
  <2>1. /\ spc.at = "opening" /\ UNCHANGED <<cancel, woken>> /\ outcome = "none"
        /\ windows[win].profile \in Modem
    BY <1>0, <1>4, WindowProfile DEF OpenWindow, In, SchedInv, WindowServed, ToldAtEnd
  <2>2. CASE Transition(windows[win].profile) /\ spc' = In("closing", "check")
             /\ UNCHANGED <<win, outcome, failed>>
    BY <2>1, <2>2 DEF Transition, In, At
  <2> QED BY <1>3, <1>4, <2>1, <2>2 DEF OpenWindow
<1>5. CASE CloseWindow
  <2>1. /\ spc.at = "closing" /\ UNCHANGED <<windows, cancel, woken>> /\ outcome = "none"
        /\ win \in 1..Len(windows) /\ ~failed
    BY <1>5 DEF CloseWindow, In, SchedInv, WindowServed, ToldAtEnd
  <2>2. CASE /\ win' = win + 1 /\ spc' = NextWindow(win + 1) /\ UNCHANGED failed
             /\ outcome' = IF win = Len(windows) THEN "finished" ELSE outcome
    <3>1. spc'.at \in {"opening", "done"}
      BY <1>0, <2>1, <2>2, NextWindowPc
    <3> QED BY <1>0, <2>1, <2>2, <3>1 DEF At
  <2> QED BY <1>0, <1>3, <1>5, <2>1, <2>2 DEF CloseWindow
<1>6. CASE RestoreBase
  <2>1. /\ UNCHANGED <<windows, win, failed, cancel, woken>> /\ spc' = At("done")
        /\ failed \/ cancel.flag
    BY <1>6 DEF RestoreBase, At
  <2>2. CASE Transition(Base) /\ outcome' = IF failed THEN "error" ELSE "cancelled"
    BY <1>0, <2>1, <2>2 DEF Transition, At
  <2>3. CASE TransitionFails(Base) /\ outcome' = "recovery_failed"
    <3>1. faults' = faults + 1
      BY <2>3 DEF TransitionFails, Fault
    <3>2. faults' > 1 \/ (faults' = 1 /\ cancel'.flag)
      BY <1>0, <2>1, <3>1
    <3>3. failed' => faults' > 0
      BY <1>0, <3>1
    <3> QED BY <2>1, <2>3, <3>2, <3>3 DEF At
  <2> QED BY <1>6, <2>2, <2>3 DEF RestoreBase
<1>7. CASE Waits
  <2>1. /\ UNCHANGED <<windows, win, outcome, failed, cancel, radio, faults>> /\ outcome = "none"
        /\ spc.at \in {"opening", "closing"} /\ (woken' => cancel'.flag)
    BY <1>0, <1>7 DEF Waits, CheckFlag, Subscribe, WaitElapses, WaitWoken, WaitVars, driver,
                      SchedTypeOK, SchedPc, ToldAtEnd
  <2>2. CASE spc' = At("restore") /\ cancel.flag
    BY <2>1, <2>2 DEF At
  <2>3. CASE \E s \in WaitStep : spc' = [spc EXCEPT !.step = s]
    <3>1. spc'.at = spc.at
      BY <1>0, <2>3 DEF SchedTypeOK, SchedPc
    <3> QED BY <2>1, <3>1 DEF At
  <2>4. CASE WaitWoken
    <3>1. cancel.flag
      BY <2>4 DEF WaitWoken
    <3> QED BY <2>2, <2>4, <3>1 DEF WaitWoken, Abandon
  <2> QED BY <1>7, <2>2, <2>3, <2>4 DEF Waits, CheckFlag, Subscribe, WaitElapses, Abandon, GoTo,
             WaitStep, IsCancelled
<1>8. CASE Cancel
  <2>1. /\ UNCHANGED <<spc, windows, win, outcome, failed, radio, faults>>
        /\ cancel.flag => cancel'.flag
        /\ woken' => cancel'.flag
    BY <1>0, <1>8 DEF Cancel, CancelStore, CancelNotify, driver, SchedTypeOK
  <2> QED BY <2>1 DEF ValidWindows
<1>9. CASE UNCHANGED <<sched, driver>>
  BY <1>9 DEF sched, driver, ValidWindows
<1> QED BY <1>1, <1>2, <1>4, <1>5, <1>6, <1>7, <1>8, <1>9 DEF SchedNext, RunStep, Transitions

(* What run returns is what happened (OutcomeTruthful; restore_base keeps  *)
(* the original error apart from the failed recovery).                     *)
THEOREM SchedOutcomeTruthful == SchedSpec => []OutcomeTruthful
<1>1. SchedInit => ToldAtEnd /\ TruthInv
  BY DEF SchedInit, DriverInit, ToldAtEnd, TruthInv, Reasons, OutcomeTruthful, At
<1>2. SchedInv /\ ToldAtEnd /\ TruthInv /\ [SchedNext]_<<sched, driver>>
        => ToldAtEnd' /\ TruthInv'
  BY ToldAtEndStep, TruthStep
<1>3. TruthInv => OutcomeTruthful
  BY DEF TruthInv
<1> QED BY <1>1, <1>2, <1>3, SchedInitInv, SchedStepInv, PTL DEF SchedSpec
=============================================================================
