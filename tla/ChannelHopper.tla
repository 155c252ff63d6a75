---------------------------- MODULE ChannelHopper ----------------------------
(***************************************************************************)
(* The channel hopping controller of the LoRa radio                        *)
(* (src/wmbus/radio/lora/channel_hopping.rs).                              *)
(*                                                                         *)
(* A channel's quality is known by its side of the two thresholds the code *)
(* compares it with: 1 below 0.2, 2 in between, 3 above 0.5.  The moving   *)
(* averages are the steps between these levels that one sample can make.   *)
(***************************************************************************)
EXTENDS Naturals, FiniteSets, FiniteSetsExt

CONSTANT Channels       \* number of channels; indices start at 0 as in the code

ASSUME ChannelsAssumption == Channels \in Nat \ {0}

Index == 0..Channels - 1
Strategy == {"RoundRobin", "Random", "Adaptive"} \cup {"Fixed"}
Low  == 1
Mid  == 2
High == 3
NoHop == [ch |-> 0, usable |-> TRUE, full |-> FALSE]

VARIABLES
  hpStrategy,           \* strategy, given at creation
  hpCurrent,            \* current_index
  hpQuality,            \* quality of each channel
  hpBlack,              \* blacklist
  hpHop                 \* the last hop: its channel, was it usable, was the blacklist full

hpVars == <<hpStrategy, hpCurrent, hpQuality, hpBlack, hpHop>>

HpInit ==
  /\ hpStrategy \in Strategy
  /\ hpCurrent = 0 /\ hpQuality = [i \in Index |-> High] /\ hpBlack = {}
  /\ hpHop = NoHop

Usable == Index \ hpBlack
AfterIndex(i, d) == (i + d) % Channels

-----------------------------------------------------------------------------
(* next_channel                                                            *)

HopTo(i) ==
  /\ hpCurrent' = i
  /\ hpHop' = [ch |-> i, usable |-> i \notin hpBlack', full |-> Usable = {}]

(* next_round_robin: the first usable channel after the current one.  The   *)
(* loop looks at the size of the blacklist only when it has met a member,   *)
(* and clears a full one, so that the channel it takes then is the second.  *)
StepToUsable == Min({d \in 1..Channels : AfterIndex(hpCurrent, d) \in Usable})

NextRoundRobin ==
  /\ hpStrategy = "RoundRobin"
  /\ \/ /\ Usable # {}
        /\ UNCHANGED hpBlack
        /\ HopTo(AfterIndex(hpCurrent, StepToUsable))
     \/ /\ Usable = {}
        /\ hpBlack' = {}
        /\ HopTo(AfterIndex(hpCurrent, 2))
  /\ UNCHANGED <<hpStrategy, hpQuality>>

(* next_random draws until the channel is usable: with a full blacklist it  *)
(* draws for ever, and this step is the hop that never returns.            *)
NextRandom ==
  /\ hpStrategy = "Random"
  /\ UNCHANGED <<hpStrategy, hpQuality, hpBlack>>
  /\ \E i \in Usable : HopTo(i)

(* next_adaptive: a best usable channel; with a full blacklist, the current *)
(* one.  Qualities on the same side of the thresholds differ below what the *)
(* levels tell, so any of them may be the best.                            *)
Best(set) == {i \in set : \A j \in set : hpQuality[j] <= hpQuality[i]}
BestOfAll == Best(Index)
BestOrCurrent == IF Usable = {} THEN {hpCurrent} ELSE Best(Usable)

NextAdaptive ==
  /\ hpStrategy = "Adaptive"
  /\ UNCHANGED <<hpStrategy, hpQuality, hpBlack>>
  /\ \E i \in BestOrCurrent : HopTo(i)

(* Fixed(idx): the channel is answered and current_index stays behind.     *)
NextFixed ==
  /\ hpStrategy = "Fixed"
  /\ \E i \in Index : hpHop' = [ch |-> i, usable |-> i \in Usable, full |-> Usable = {}]
  /\ UNCHANGED <<hpStrategy, hpCurrent, hpQuality, hpBlack>>

-----------------------------------------------------------------------------
(* update_quality, 0.8 of the old value and 0.2 of the sample's: from the   *)
(* best value one bad sample can reach the middle, and one good sample can  *)
(* lift a low value to the middle and a middle one above.                  *)
Averages(q) == {p \in Low..High : p <= q + 1 /\ q <= p + 1}

UpdateQuality(i) ==
  /\ \E q \in Averages(hpQuality[i]) :
       /\ hpQuality' = [hpQuality EXCEPT ![i] = q]
       /\ hpBlack' = IF q = Low THEN hpBlack \cup {i} ELSE hpBlack
  /\ UNCHANGED <<hpStrategy, hpCurrent, hpHop>>

(* scan_channels: every channel in turn, 0.7 of the old value and 0.3 of    *)
(* the noise floor's.  A good quality is the only way off the blacklist; a  *)
(* low one found here does not put the channel on it.                      *)
ScanChannels ==
  /\ \E scanned \in [Index -> Low..High] :
       /\ \A i \in Index : scanned[i] \in Averages(hpQuality[i])
       /\ hpQuality' = scanned
       /\ hpBlack' = {i \in hpBlack : scanned[i] # High}
  /\ UNCHANGED <<hpStrategy, hpCurrent, hpHop>>

HpNext ==
  \/ NextRoundRobin \/ NextRandom \/ NextAdaptive \/ NextFixed
  \/ \E i \in Index : UpdateQuality(i)
  \/ ScanChannels

-----------------------------------------------------------------------------
(* A hop lands on a channel that is not blacklisted, whatever updates and   *)
(* scans came before it.  The exceptions are the fixed channel, which       *)
(* next_channel never checks, and next_adaptive under a full blacklist,     *)
(* which stays where it is; a banned channel may have become the best one   *)
(* since update_quality banned it, for only a scan lifts the ban.          *)
HopUsable == hpHop.usable \/ hpStrategy = "Fixed" \/ (hpStrategy = "Adaptive" /\ hpHop.full)
=============================================================================
