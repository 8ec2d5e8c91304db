----------------------------- MODULE DenoisePass -----------------------------
(***************************************************************************)
(* What a client expects of a video generation, and nothing of how: the    *)
(* latent is moved a fixed number of times; the first and the last time by *)
(* a run through all layers, in order, with the weights of the model asked *)
(* for; in between a run may be skipped.  A generation is refused at the   *)
(* start or answered at the end, and given up on the way only once the     *)
(* disk has failed; from then on the promise no longer covers whose        *)
(* weights are used, only how many.                                        *)
(***************************************************************************)
EXTENDS Naturals, Sequences

CONSTANTS Models, Weights,
          Depth,     \* layers of a model
          Steps      \* times the latent is moved

VARIABLES phase,     \* "Idle" or "Busy"
          model,     \* asked for
          layers,    \* of it, how many are run
          run,       \* the weights of the current run
          moved,     \* times the latent has been moved
          answer,
          disk       \* "Sound", or "Failing" once a read or an open has failed

passVars == <<phase, model, layers, run, moved, answer, disk>>

PassInit == /\ phase = "Idle" /\ model \in Models /\ layers \in 1..Depth
            /\ run = <<>> /\ moved = 0 /\ answer = "Ok" /\ disk = "Sound"

Ask == /\ phase = "Idle" /\ phase' = "Busy"
       /\ model' \in Models /\ layers' \in 1..Depth
       /\ run' = <<>> /\ moved' = 0 /\ answer' = "Ok"

RunLayer == /\ phase = "Busy" /\ Len(run) < layers
            /\ \E w \in Weights : /\ disk = "Sound" => w = <<model, Len(run)>>
                                  /\ run' = Append(run, w)
            /\ UNCHANGED <<phase, model, layers, moved, answer>>

(* A new run begins where the last one, if it moved anything, has ended. *)
Restart == /\ phase = "Busy" /\ moved < Steps
           /\ Len(run) \in {0, layers}
           /\ run' = <<>>
           /\ UNCHANGED <<phase, model, layers, moved, answer>>

Done == moved + 1 = Steps
Move == /\ phase = "Busy" /\ moved < Steps
        /\ moved' = moved + 1
        /\ \/ Len(run) = layers /\ run' = run
           \/ moved > 0 /\ ~Done /\ run' = <<>>
        /\ phase' = IF Done THEN "Idle" ELSE "Busy"
        /\ UNCHANGED <<model, layers, answer>>

Refuse == /\ phase = "Busy" /\ moved = 0 /\ run = <<>>
          /\ phase' = "Idle" /\ answer' = "Refused"
          /\ UNCHANGED <<model, layers, run, moved>>

GiveUp == /\ phase = "Busy" /\ disk' = "Failing"
          /\ phase' = "Idle" /\ answer' = "Failed"
          /\ UNCHANGED <<model, layers, run, moved>>

PassNext == /\ disk' \in {disk, "Failing"}
            /\ \/ Ask \/ RunLayer \/ Restart \/ Move \/ Refuse \/ GiveUp
               \/ UNCHANGED <<phase, model, layers, run, moved, answer>>

PassSpec == PassInit /\ [][PassNext]_passVars
=============================================================================
