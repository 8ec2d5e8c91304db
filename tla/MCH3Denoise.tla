----------------------------- MODULE MCH3Denoise -----------------------------
(* Instances of H3Denoise for TLC. *)
EXTENDS H3Denoise

CONSTANTS s0, s1
TwoSlots == {s0, s1}
Transformers == {Text, Ref}
FirstTwo == {0, 1}

Plain(want, stream) == [want |-> want, core |-> 1, every |-> 1, custom |-> {},
                        stream |-> stream, layers |-> Depth]
(* Either transformer, streamed or not, and every kind of reuse. *)
Mixed == {Plain(Text, TRUE), Plain(Ref, TRUE), Plain(Ref, FALSE)}
         \cup {[Plain(Text, TRUE) EXCEPT !.core = 2],
               [Plain(Text, FALSE) EXCEPT !.every = 3],
               [Plain(Ref, TRUE) EXCEPT !.every = 2, !.custom = {0, 1, Steps - 1}],
               [Plain(Text, TRUE) EXCEPT !.every = 2, !.custom = {0, 1}],
               [Plain(Text, TRUE) EXCEPT !.core = 2, !.every = 2],
               [Plain(Text, TRUE) EXCEPT !.layers = Depth - 1]}
OneOfEach == {Plain(Text, TRUE), Plain(Ref, TRUE)}
=============================================================================
