---------------------------- MODULE MCScheduler -----------------------------
(* Window lists for one scheduled run: none, one, two in sequence, a GFSK  *)
(* window, and one that opens before the previous one closes.              *)
EXTENDS ProfileScheduler

Window(o, d, p) == [offset |-> o, duration |-> d, profile |-> p]

MCSchedules ==
  { <<>>,
    <<Window(1, 1, "LoRa")>>,
    <<Window(0, 1, "LoRa"), Window(1, 1, "LoRa")>>,
    <<Window(1, 1, "LoRa"), Window(2, 2, "GFSK"), Window(4, 0, "LoRa")>>,
    <<Window(0, 2, "LoRa"), Window(1, 1, "LoRa")>> }
=============================================================================
