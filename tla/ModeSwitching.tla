---------------------------- MODULE ModeSwitching ----------------------------
(***************************************************************************)
(* Finding a wM-Bus mode both ends can use (wmbus/mode_switching.rs): the  *)
(* ModeSwitcher cycles through its sequence of modes with a growing pause  *)
(* and gives up after max_cycles; two ModeNegotiators exchange capability  *)
(* frames and each picks a mode.                                           *)
(*                                                                         *)
(* next_mode first sleeps for what is left of the pause; only the length   *)
(* of the pause is kept here.                                              *)
(***************************************************************************)
EXTENDS Naturals, Sequences, FiniteSets, SequencesExt

CONSTANTS
  MsModes,      \* the modes, in mode_to_index order
  MsSequences,  \* mode sequences a switcher may be given
  MsMaxCycles,  \* values of max_cycles
  MsPauses      \* values for set_switch_delay, in ms

ASSUME MsAssumption ==
  /\ Range(MsModes) \subseteq {"T1", "T2", "S1", "S2", "C1", "C2"}
  /\ MsSequences \subseteq Seq(Range(MsModes)) \ {<<>>}
  /\ MsMaxCycles \subseteq Nat /\ MsPauses \subseteq Nat

VARIABLES
  msSequence,     \* mode_sequence
  msIndex,        \* sequence_index, from 0
  msCycles,       \* cycle_count
  msLimit,        \* max_cycles
  msPause,        \* switch_delay_ms
  msEstablished,  \* established_mode
  msGaveUp,       \* the last next_mode returned None
  msTried,        \* times each mode was switched to since new() or reset()
  msTuned,        \* set_switch_delay or set_max_cycles was called since then
  msPeers         \* supported_modes of two negotiators

msVars == <<msSequence, msIndex, msCycles, msLimit, msPause, msEstablished, msGaveUp,
            msTried, msTuned, msPeers>>

NoMode   == "none"
Pause    == 10
MaxPause == 1000
AllModes == Range(MsModes)

MsInit ==
  /\ msSequence \in MsSequences /\ msLimit \in MsMaxCycles
  /\ msIndex = 0 /\ msCycles = 0 /\ msPause = Pause
  /\ msEstablished = NoMode /\ msGaveUp = FALSE
  /\ msTried = [m \in AllModes |-> 0] /\ msTuned = FALSE
  /\ msPeers \in [1..2 -> {Range(s) : s \in MsSequences}]

(* The pause doubles after every cycle but the first.                      *)
Backoff(cycles, pause) ==
  IF cycles > 1 THEN (IF 2 * pause < MaxPause THEN 2 * pause ELSE MaxPause) ELSE pause

(* Mutant of Wrapped: the first entry is where the sequence was left.      *)
WrappedEarly(i) == IF i + 2 >= Len(msSequence) THEN 0 ELSE i + 1

Wrapped(i) == (i + 1) % Len(msSequence)

(* next_mode with no mode established: it moves on before it tries.        *)
SwitchMode ==
  LET i == Wrapped(msIndex)
      m == msSequence[i + 1]
      wrapped == i = 0
  IN  /\ msEstablished = NoMode /\ msCycles < msLimit
      /\ msIndex' = i
      /\ msCycles' = IF wrapped THEN msCycles + 1 ELSE msCycles
      /\ msPause' = IF wrapped THEN Backoff(msCycles', msPause) ELSE msPause
      /\ msTried' = [msTried EXCEPT ![m] = @ + 1]
      /\ UNCHANGED <<msSequence, msLimit, msEstablished, msGaveUp, msTuned, msPeers>>

(* next_mode after max_cycles.                                             *)
GiveUp ==
  /\ msEstablished = NoMode /\ msCycles >= msLimit /\ ~msGaveUp
  /\ msGaveUp' = TRUE
  /\ UNCHANGED <<msSequence, msIndex, msCycles, msLimit, msPause, msEstablished, msTried,
                 msTuned, msPeers>>

(* mode_established: from then on next_mode returns that mode.             *)
Establish(m) ==
  /\ msEstablished # m
  /\ msEstablished' = m
  /\ UNCHANGED <<msSequence, msIndex, msCycles, msLimit, msPause, msGaveUp, msTried, msTuned,
                 msPeers>>

(* reset, which restores neither the limit nor a pause that was set.       *)
ResetSwitcher ==
  /\ msEstablished' = NoMode /\ msIndex' = 0 /\ msCycles' = 0 /\ msPause' = Pause
  /\ msGaveUp' = FALSE /\ msTried' = [m \in AllModes |-> 0] /\ msTuned' = FALSE
  /\ UNCHANGED <<msSequence, msLimit, msPeers>>

SetSwitchDelay(pause) ==
  /\ msPause' = pause /\ msTuned' = TRUE
  /\ UNCHANGED <<msSequence, msIndex, msCycles, msLimit, msEstablished, msGaveUp, msTried, msPeers>>

SetMaxCycles(limit) ==
  /\ msLimit' = limit /\ msTuned' = TRUE
  /\ UNCHANGED <<msSequence, msIndex, msCycles, msPause, msEstablished, msGaveUp, msTried, msPeers>>

MsNext ==
  \/ SwitchMode \/ GiveUp \/ ResetSwitcher
  \/ \E m \in AllModes : Establish(m)
  \/ \E pause \in MsPauses : SetSwitchDelay(pause)
  \/ \E limit \in MsMaxCycles : SetMaxCycles(limit)

-----------------------------------------------------------------------------
(* The modes of a capability frame: a bit each, sent and read back.        *)
CapabilityBits(modes) == {i \in DOMAIN MsModes : MsModes[i] \in modes}
CapabilityModes(bits) == {MsModes[i] : i \in bits}

(* select_best_mode: the first of a fixed order that both support.         *)
Preference == <<"C1", "C2", "T1", "T2", "S1", "S2">>

SelectBestMode(own, remote) ==
  LET shared == {i \in DOMAIN Preference : Preference[i] \in own /\ Preference[i] \in remote}
  IN  IF shared = {} THEN NoMode ELSE Preference[Min(shared)]

Picks(i) == SelectBestMode(msPeers[i], CapabilityModes(CapabilityBits(msPeers[3 - i])))

-----------------------------------------------------------------------------
PlacesOf(m) == {i \in DOMAIN msSequence : msSequence[i] = m}
Doubled     == <<10, 20, 40, 80, 160, 320, 640>>

(* A switcher that gives up has tried every mode max_cycles times for each    *)
(* place it has in the sequence, and no other mode; and its pause has        *)
(* doubled with every cycle but the first (next_mode).                      *)
TriedEqually ==
  msGaveUp /\ ~msTuned /\ msEstablished = NoMode =>
    /\ \A m \in AllModes : msTried[m] = msLimit * Cardinality(PlacesOf(m))
    /\ msLimit > 0 => msPause = (IF msLimit < 8 THEN Doubled[msLimit] ELSE MaxPause)

(* Both ends of a negotiation pick the same mode, and one that both support   *)
(* whenever there is one (select_best_mode).                               *)
BothAgree ==
  /\ Picks(1) = Picks(2)
  /\ Picks(1) = NoMode <=> msPeers[1] \cap msPeers[2] = {}

ModesFound == TriedEqually /\ BothAgree
=============================================================================
