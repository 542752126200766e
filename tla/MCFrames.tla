------------------------------ MODULE MCFrames ------------------------------
(* Model checking of Frames. *)
EXTENDS Frames

(* Memory maps with a hole of up to two frames anywhere. *)
HoleyMaps == {FrameSet \ (h .. h + k) : h \in FrameSet, k \in 0 .. 1} \cup {FrameSet}

=============================================================================
