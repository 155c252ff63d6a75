----------------------------- MODULE MCFrameSize -----------------------------
(* Two frames of lengths that leave one byte, and more, in the last block.  *)
EXTENDS FrameStream

MCFrames == {[type |-> "A", l |-> 26], [type |-> "A", l |-> 27]}
=============================================================================
