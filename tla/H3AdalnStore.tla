----------------------------- MODULE H3AdalnStore -----------------------------
(***************************************************************************)
(* H3AdalnStore (src/model/h3_adaln_store.cpp): the AdaLN projection of    *)
(* every layer of the bound transformer, which turns the time embedding    *)
(* into the layer's modulation.  A projection is resident, or read ahead   *)
(* by a helper thread, or read when it is asked for.                       *)
(*                                                                         *)
(* pref_st_ is written by the helper outside mu_, and hits_ and files_ are *)
(* read there: the helper relies on everybody joining it first, so every   *)
(* operation of the main thread is guarded by the join it makes.           *)
(*                                                                         *)
(* A projection is the pair of its transformer and layer.  Its shape is a  *)
(* function of the two, so the row and column checks never tell a          *)
(* prefetched projection from the one asked for.  The bias is always       *)
(* resident and left out.                                                  *)
(***************************************************************************)
EXTENDS H3Transformer

CONSTANTS Usable,    \* layers whose projection has the right shape and type
          Capacity   \* MVLLM_H3_ADALN_MAX when it is positive: cap_

ASSUME AdalnAssumption == Usable \subseteq Layers /\ Capacity \in Nat

VARIABLES setting,   \* the environment: MVLLM_H3_ADALN_RESIDENT and _MAX
          adaln,     \* of: whose projections; mode; open: files_; resident: w_res_
          ahead,     \* pref_layer_ and pref_w_: the projection read ahead
          reader,    \* th_: the layer it reads, or NoLayer
          readerSt   \* pref_st_

adalnVars == <<setting, adaln, ahead, reader, readerSt>>

Settings == {"Skip", "Stream", "Resident", "Capped"}
Projections == Models \X Layers
Unmodulated == <<>>

AdalnTypeOK ==
  /\ setting \in Settings
  /\ adaln \in [of : Models \cup {NoModel}, mode : Settings \cup {"Off"},
                open : BOOLEAN, resident : SUBSET Layers]
  /\ ahead \in Projections \cup {Unmodulated}
  /\ reader \in Layers \cup {NoLayer}
  /\ readerSt \in {"Ok", "IoError"}

ClosedStore == [of |-> NoModel, mode |-> "Off", open |-> FALSE, resident |-> {}]

AdalnInit == /\ setting \in Settings
             /\ adaln = ClosedStore
             /\ ahead = Unmodulated
             /\ reader = NoLayer
             /\ readerSt = "Ok"
-----------------------------------------------------------------------------
(* bind reads these projections into w_res_, and closes the files unless some *)
(* layer is still to be read from them.                                       *)
Wanted == CASE setting = "Resident" -> Usable
            [] setting = "Capped" -> {b \in Usable : b < Capacity}
            [] OTHER -> {}

BoundTo(m, resident) ==
  IF setting = "Skip" THEN [ClosedStore EXCEPT !.mode = "Skip"]
  ELSE IF Usable = {} THEN ClosedStore
  ELSE [of |-> m, mode |-> setting, open |-> setting # "Resident", resident |-> resident]

(* close joins the helper. *)
AdalnClose == /\ reader = NoLayer
              /\ adaln' = ClosedStore
              /\ ahead' = Unmodulated
              /\ UNCHANGED <<setting, reader, readerSt>>

AdalnBind(m, resident) ==
  /\ reader = NoLayer /\ resident \subseteq Wanted
  /\ adaln' = BoundTo(m, resident)
  /\ ahead' = Unmodulated
  /\ UNCHANGED <<setting, reader, readerSt>>

(* has *)
HasProjection(b) == IF adaln.open THEN b \in Usable ELSE b \in adaln.resident

(* prefetch: join, drop what was read ahead, start to read if there is need. *)
AdalnPrefetch(b) ==
  /\ reader = NoLayer
  /\ ahead' = Unmodulated
  /\ reader' = IF HasProjection(b) /\ b \notin adaln.resident /\ adaln.open
               THEN b ELSE NoLayer
  /\ UNCHANGED <<setting, adaln, readerSt>>

(* load_mod after its join: which projection it uses, and what is left of the *)
(* one read ahead.  Its direct read may fail.                                 *)
ReadAhead_AnyLayer(b) == ahead # Unmodulated /\ readerSt = "Ok"
ReadAhead(b) == ahead # Unmodulated /\ ahead[2] = b /\ readerSt = "Ok"
Readable(b) == adaln.open /\ b \in Usable

LoadMod_NoFallback(b, readOk) ==
  IF ~HasProjection(b) THEN [by |-> "Nothing", mod |-> Unmodulated]
  ELSE IF b \in adaln.resident THEN [by |-> "Resident", mod |-> <<adaln.of, b>>]
  ELSE IF ReadAhead(b) THEN [by |-> "Ahead", mod |-> ahead]
  ELSE IF Readable(b) /\ readOk /\ readerSt = "Ok" THEN [by |-> "File", mod |-> <<adaln.of, b>>]
  ELSE [by |-> "Nothing", mod |-> Unmodulated]

LoadMod(b, readOk) ==
  IF ~HasProjection(b) THEN [by |-> "Nothing", mod |-> Unmodulated]
  ELSE IF b \in adaln.resident THEN [by |-> "Resident", mod |-> <<adaln.of, b>>]
  ELSE IF ReadAhead(b) THEN [by |-> "Ahead", mod |-> ahead]
  ELSE IF Readable(b) /\ readOk THEN [by |-> "File", mod |-> <<adaln.of, b>>]
  ELSE [by |-> "Nothing", mod |-> Unmodulated]

Loaded(b, readOk) ==
  /\ reader = NoLayer
  /\ ahead' = IF LoadMod(b, readOk).by = "Ahead" THEN Unmodulated ELSE ahead
  /\ UNCHANGED <<setting, adaln, reader, readerSt>>
-----------------------------------------------------------------------------
(* The helper thread. *)

ReaderReads == /\ reader # NoLayer
               /\ ahead' = <<adaln.of, reader>>
               /\ reader' = NoLayer /\ readerSt' = "Ok"
               /\ UNCHANGED <<setting, adaln>>

ReaderFails == /\ reader # NoLayer
               /\ reader' = NoLayer /\ readerSt' = "IoError"
               /\ UNCHANGED <<setting, adaln, ahead>>
=============================================================================
