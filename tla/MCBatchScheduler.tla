-------------------------- MODULE MCBatchScheduler --------------------------
(* Instances of BatchScheduler for TLC. *)
EXTENDS BatchScheduler

CONSTANTS s0, s1, s2

TwoSlots == {s0, s1}
ThreeSlots == {s0, s1, s2}
OneSlot == {s0}

(* One token and one prompt: what matters is who holds which slot. *)
OnePrompt == {<<1>>}
WithEmptyPrompt == {<<>>, <<1>>}

(* Two tokens and prompts that extend, repeat, shorten and contradict one    *)
(* another, as the turns of a conversation and of another one do.            *)
Turns == {<<1>>, <<2>>, <<1, 1>>, <<1, 2, 1>>}
=============================================================================
