----------------------------- MODULE FamilySlot -----------------------------
(***************************************************************************)
(* One KV slot of a family engine (LlamaSlot, K3Slot): what begin_generate,*)
(* next_token and end_generate do to it, as operators on a slot record.    *)
(*                                                                         *)
(*   history   slot.history: prompt and sampled tokens                     *)
(*   rows      the tokens the cache rows [0, slot.pos) were computed from, *)
(*             so slot.pos = Len(rows)                                     *)
(*   absorbed  the tokens the recurrent state (K3's KDA S / windows) has   *)
(*             been advanced by; a layer is advanced before the MoE of the *)
(*             same step can fail, so it may run ahead of rows             *)
(*   emitted   slot.emitted,  max  slot.gp.max_new_tokens                  *)
(*                                                                         *)
(* Llama cannot fail in the middle of a step; Kimi K3 returns the expert   *)
(* store's error out of slot_step / slot_prefill.                          *)
(***************************************************************************)
EXTENDS KvPrefix

CONSTANT Chunk   \* RuntimeConfig::prefill_chunk; prompt tokens per prefill step

ASSUME ChunkAssumption == Chunk \in Nat \ {0}

SlotRecords(T) == [have : BOOLEAN, live : BOOLEAN, history : Seq(T), rows : Seq(T),
                   absorbed : Seq(T), emitted : Nat, max : Nat]

(* A slot before its first use, and what slot_alloc resets it to. *)
EmptySlot == [have |-> FALSE, live |-> FALSE, history |-> <<>>, rows |-> <<>>,
              absorbed |-> <<>>, emitted |-> 0, max |-> 0]

(* Faulty variants of an operator, each before it, carry its name and a word. *)
AppliedReuse_TrustsClient(sl, ids, reuse) ==
  IF sl.have /\ Len(sl.rows) > 0 /\ Len(sl.rows) <= reuse /\ Len(sl.rows) <= Len(ids)
  THEN Len(sl.rows) ELSE 0

(* The rows begin_generate keeps: all of them or none. *)
AppliedReuse(sl, ids, reuse) ==
  LET match == IF sl.have THEN CommonPrefix(sl.history, ids) ELSE 0
      want  == Least(reuse, match)
      pos   == Len(sl.rows)
  IN IF sl.have /\ pos > 0 /\ pos <= want /\ pos <= Len(ids) THEN pos ELSE 0

(* slot_ensure_t keeps the state, slot_alloc drops it. *)
SlotForPrompt(sl, ids, reuse) ==
  IF AppliedReuse(sl, ids, reuse) > 0 THEN sl ELSE EmptySlot

(* begin_generate returning Ok: the rest of the prompt is prefilled. *)
BegunSlot(sl, ids, max, reuse) ==
  LET base == SlotForPrompt(sl, ids, reuse)
      rest == SubSeq(ids, AppliedReuse(sl, ids, reuse) + 1, Len(ids))
  IN [have |-> TRUE, live |-> TRUE, history |-> ids,
      rows |-> base.rows \o rest, absorbed |-> base.absorbed \o rest,
      emitted |-> 0, max |-> max]

(* The prefill chunks that can be complete when a later one fails. *)
ChunksBeforeFailure(sl, ids, reuse) ==
  {c \in 0..Len(ids) : Chunk * c + AppliedReuse(sl, ids, reuse) < Len(ids)}

(* slot_prefill failing after c chunks: pos counts the finished chunks only, *)
(* the first layers have absorbed the failing chunk too, and begin_generate *)
(* returns before it sets history, live and have.                           *)
BeginFailedSlot(sl, ids, reuse, c) ==
  LET base == SlotForPrompt(sl, ids, reuse)
      a    == AppliedReuse(sl, ids, reuse)
      pos  == a + Chunk * c
  IN [base EXCEPT !.rows = @ \o SubSeq(ids, a + 1, pos),
                  !.absorbed = @ \o SubSeq(ids, a + 1, Least(pos + Chunk, Len(ids)))]

(* next_token has a budget left; without it, it reports done and token -1. *)
HasBudget(sl) == sl.emitted < sl.max

(* next_token says done: stop token, stop string or the budget reached. *)
LastToken(sl, stop) == stop \/ sl.emitted + 1 >= sl.max

SteppedSlot_Uncounted(sl, t, stop) ==
  LET sampled == [sl EXCEPT !.history = Append(@, t)]
  IN IF LastToken(sl, stop) THEN sampled
     ELSE [sampled EXCEPT !.rows = Append(@, t), !.absorbed = Append(@, t)]

(* next_token, returning Ok with a budget left: the last token of a          *)
(* generation is never stepped, so it has no row.                            *)
SteppedSlot(sl, t, stop) ==
  LET sampled == [sl EXCEPT !.history = Append(@, t), !.emitted = @ + 1]
  IN IF LastToken(sl, stop) THEN sampled
     ELSE [sampled EXCEPT !.rows = Append(@, t), !.absorbed = Append(@, t)]

(* slot_step failing under next_token / next_tokens: the token is already in  *)
(* history and absorbed, ++pos is not reached.                               *)
StepFailedSlot(sl, t, stop) ==
  LET sampled == [sl EXCEPT !.history = Append(@, t), !.emitted = @ + 1]
  IN IF LastToken(sl, stop) THEN sampled
     ELSE [sampled EXCEPT !.absorbed = Append(@, t)]

(* end_generate. *)
EndedSlot(sl) == [sl EXCEPT !.live = FALSE]
=============================================================================
