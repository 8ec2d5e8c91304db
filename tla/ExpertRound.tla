----------------------------- MODULE ExpertRound -----------------------------
(***************************************************************************)
(* What a MoE layer expects of the expert store, and nothing of how: a     *)
(* round asks for a sequence of experts and is fed the weights of each of  *)
(* them, in that order, before it is answered.  A round may be given up,   *)
(* and may start over.  Once the disk has failed a read the promise no     *)
(* longer covers whose weights are fed, only how many.                     *)
(***************************************************************************)
EXTENDS Naturals, Sequences

CONSTANTS Rounds,    \* the sequences of experts a layer asks for
          Weights,   \* whatever a buffer may hold
          Failures   \* the answers of a round that is given up

VARIABLES phase,     \* "Idle" or "Busy"
          asked,     \* the experts of the current, or the last, round
          fed,       \* the weights it has computed with
          answer,
          disk       \* "Sound", or "Failing" once a read has failed

roundVars == <<phase, asked, fed, answer, disk>>

RoundInit == /\ phase = "Idle" /\ fed = <<>> /\ disk = "Sound" /\ answer = "Ok"
             /\ asked = <<>>

Ask(keys) == /\ phase = "Idle" /\ phase' = "Busy"
             /\ asked' = keys /\ fed' = <<>>
             /\ UNCHANGED answer

Feed(w) == /\ phase = "Busy" /\ Len(fed) < Len(asked)
           /\ disk = "Sound" => w = asked[Len(fed) + 1]
           /\ fed' = Append(fed, w)
           /\ UNCHANGED <<phase, asked, answer>>

StartOver == /\ phase = "Busy" /\ fed' = <<>>
             /\ UNCHANGED <<phase, asked, answer>>

Answer == /\ phase = "Busy" /\ Len(fed) = Len(asked)
          /\ phase' = "Idle" /\ answer' = "Ok"
          /\ UNCHANGED <<asked, fed>>

GiveUp(why) == /\ phase = "Busy" /\ phase' = "Idle" /\ answer' = why
               /\ UNCHANGED <<asked, fed>>

ReadSomething == UNCHANGED <<phase, asked, fed, answer>>

RoundNext == /\ \/ \E keys \in Rounds : Ask(keys)
                \/ \E w \in Weights : Feed(w)
                \/ \E why \in Failures : GiveUp(why)
                \/ StartOver \/ Answer \/ ReadSomething
             /\ disk' \in {disk, "Failing"}

RoundSpec == RoundInit /\ [][RoundNext]_roundVars
=============================================================================
