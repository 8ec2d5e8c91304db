-------------------------------- MODULE MCMux --------------------------------
(* Instances of Mux for TLC. *)
EXTENDS Mux
CONSTANTS s0, s1, a, b
TwoSlots == {s0, s1}
TwoIds == {a, b}
=============================================================================
