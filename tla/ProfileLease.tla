---------------------------- MODULE ProfileLease ----------------------------
(***************************************************************************)
(* What a scheduled run of the dual-mode radio promises, without saying    *)
(* how (module documentation of src/wmbus/radio/scheduler.rs): the radio   *)
(* is lent from the base profile to one window at a time and handed back,  *)
(* and a caller told anything but "recovery failed" has the radio back in  *)
(* the base profile.                                                       *)
(***************************************************************************)
CONSTANTS Base, Profile       \* Base is one of the profiles, "lost" is not

Lost == "lost"                \* in no complete profile, or not receiving

VARIABLES
  lease,                \* the profile the radio receives in, or Lost
  verdict               \* what the caller was told

vars == <<lease, verdict>>

Init == lease \in {Lost, Base} /\ verdict = "none"

(* A hand-over from or back to the base profile.                           *)
Lend(p) == lease = Base /\ lease' = p /\ UNCHANGED verdict
TakeBack == lease' = Base /\ verdict' \in {"none", "home"}

(* A hand-over goes wrong half way; the caller has not been told yet.      *)
Falter == lease' = Lost /\ UNCHANGED verdict

(* The radio could not be brought home, and the caller is told so.         *)
Admit == lease' \in {lease, Lost} /\ verdict' = "recovery_failed"

(* The request was refused before the radio was touched.                   *)
Refuse == verdict' = "refused" /\ UNCHANGED lease

Next ==
  /\ verdict = "none"
  /\ \/ \E p \in Profile : Lend(p)
     \/ TakeBack \/ Falter \/ Admit \/ Refuse

Spec == Init /\ [][Next]_vars
=============================================================================
