----------------------------- MODULE MCDualMode -----------------------------
(* Window lists for the composed radio.                                    *)
EXTENDS DualModeRadio

Window(o, d, p) == [offset |-> o, duration |-> d, profile |-> p]
NoWindows  == { <<>> }
OneWindow  == { <<Window(1, 1, "LoRa")>> }
=============================================================================
