---------------------------- MODULE MCHttpServing ----------------------------
(* Instances of HttpServing for TLC. *)
EXTENDS HttpServing
CONSTANTS s0, s1, h1, h2
TwoSlots == {s0, s1}
TwoHandlers == {h1, h2}
=============================================================================
