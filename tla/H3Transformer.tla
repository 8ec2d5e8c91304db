---------------------------- MODULE H3Transformer ----------------------------
(* What the stores of the H3 engine and its denoising loop agree on: the      *)
(* transformers of a checkpoint (model/h3.cpp: FL2VA and Ref2VA), all of one  *)
(* depth, and how their layers are numbered.                                  *)
EXTENDS Integers

CONSTANTS Models,    \* transformer directories
          NoModel,
          Depth      \* n_blocks

ASSUME TransformerAssumption == NoModel \notin Models /\ Depth \in Nat \ {0}

Layers == 0..Depth - 1
NoLayer == -1
=============================================================================
