------------------------------ MODULE BlockStore ------------------------------
(***************************************************************************)
(* BlockStore (src/store/block_store.cpp): a window of a few page-aligned  *)
(* slots through which the blocks of an H3 transformer are streamed.  The  *)
(* main thread acquires and releases blocks; one helper thread reads the   *)
(* next block ahead.                                                       *)
(*                                                                         *)
(* Unlike ExpertStore it keeps mu_ for a whole read, so acquire, release   *)
(* and prefetch exclude one another; but the main thread computes with a   *)
(* slot's memory without the mutex, so the helper's read has a beginning   *)
(* and an end.  The operations here say nothing of the caller: H3Denoise   *)
(* puts them into the loop that makes the calls.                           *)
(*                                                                         *)
(* used and clock_ only ever order the slots, so older keeps that order.   *)
(* Not modelled: the counters, and descriptors shared between blocks.      *)
(***************************************************************************)
EXTENDS H3Transformer, FiniteSets

CONSTANTS Slots,     \* n_slots_ of them
          NoSlot, NoBlock, Torn

ASSUME BlockAssumption ==
  /\ Slots # {} /\ IsFiniteSet(Slots) /\ NoSlot \notin Slots
  /\ NoBlock \notin Models \X Layers /\ Torn \notin Models \X Layers

VARIABLES meta,      \* of a layer: the transformer whose file is registered for it
          slot,      \* Slot: index (NoLayer when not valid), pins, bytes at base
          older,     \* of a slot: the slots used less recently
          helper,    \* prefetch_th_: the layer it was given, the slot it reads into
          status     \* prefetch_st_

storeVars == <<meta, slot, older, helper, status>>

Blocks == Models \X Layers
Bytes == Blocks \cup {NoBlock, Torn}
Slot == [index : Layers \cup {NoLayer}, pins : Nat, bytes : Bytes]
Helper == [pc : {"Idle", "Spawned", "Reading"}, layer : Layers \cup {NoLayer},
           slot : Slots \cup {NoSlot}]

StoreTypeOK == /\ meta \in [Layers -> Models \cup {NoModel}]
               /\ slot \in [Slots -> Slot]
               /\ older \in [Slots -> SUBSET Slots]
               /\ helper \in Helper
               /\ status \in {"Ok", "NotFound", "IoError"}

EmptySlots == [s \in Slots |-> [index |-> NoLayer, pins |-> 0, bytes |-> NoBlock]]
Resting == [pc |-> "Idle", layer |-> NoLayer, slot |-> NoSlot]

StoreInit(m) == /\ meta = [b \in Layers |-> m]
                /\ slot = EmptySlots
                /\ older = [s \in Slots |-> {}]
                /\ helper = Resting
                /\ status = "Ok"
-----------------------------------------------------------------------------
(* Operators named with an underscore and a word are faulty variants of the   *)
(* operation that follows them: PROJECT.json names the property each breaks.  *)

(* find *)
Holding(b) == {s \in Slots : slot[s].index = b}
Found(b) == CHOOSE s \in Holding(b) : TRUE

(* victim; which of the free slots comes first makes no difference. *)
Victims_EvenPinned ==
  LET free == {s \in Slots : slot[s].index = NoLayer}
  IN IF free # {} THEN free ELSE Slots

Victims ==
  LET unpinned == {s \in Slots : slot[s].pins = 0}
      free == {s \in unpinned : slot[s].index = NoLayer}
  IN IF free # {} THEN free ELSE {s \in unpinned : older[s] \cap unpinned = {}}

Touched(s) == [t \in Slots |-> IF t = s THEN Slots \ {s} ELSE older[t] \ {s}]
Unlocked == helper.pc # "Reading"

Filled(s, b, pins) == [slot EXCEPT ![s] = [index |-> b, pins |-> pins,
                                           bytes |-> <<meta[b], b>>]]

(* A read that fails may have overwritten part of the block that was there;   *)
(* load_into leaves the slot valid for it.                                    *)
Spoilt(s) == {[slot EXCEPT ![s].bytes = bytes] : bytes \in {slot[s].bytes, Torn}}

(* What the main thread finds in a slot it computes with. *)
Content(s) == IF helper.pc = "Reading" /\ helper.slot = s THEN Torn ELSE slot[s].bytes

(* open, after its close has joined the helper, and the register_block calls  *)
(* for the first blocks of a transformer: upto is n_blocks_ unless one fails. *)
Open(m, upto) ==
  /\ helper.pc = "Idle"
  /\ meta' = [b \in Layers |-> IF b < upto THEN m ELSE NoModel]
  /\ slot' = EmptySlots
  /\ older' = [s \in Slots |-> {}]
  /\ UNCHANGED <<helper, status>>

AcquireHit(b) ==
  /\ Unlocked /\ meta[b] # NoModel /\ Holding(b) # {}
  /\ slot' = [slot EXCEPT ![Found(b)].pins = @ + 1]
  /\ older' = Touched(Found(b))
  /\ UNCHANGED <<meta, helper, status>>

AcquireRead(b) ==
  /\ Unlocked /\ meta[b] # NoModel /\ Holding(b) = {}
  /\ \E s \in Victims : /\ slot' = Filled(s, b, slot[s].pins + 1)
                        /\ older' = Touched(s)
  /\ UNCHANGED <<meta, helper, status>>

AcquireReadFails(b) ==
  /\ Unlocked /\ meta[b] # NoModel /\ Holding(b) = {}
  /\ \E s \in Victims : slot' \in Spoilt(s)
  /\ UNCHANGED <<meta, older, helper, status>>

(* "block not registered", or "all block slots pinned". *)
AcquireRefused(b) ==
  /\ Unlocked
  /\ meta[b] = NoModel \/ (Holding(b) = {} /\ Victims = {})
  /\ UNCHANGED storeVars

ReleaseBlock(b) ==
  /\ Unlocked
  /\ slot' = IF Holding(b) = {} THEN slot
             ELSE [slot EXCEPT ![Found(b)].pins = IF @ > 0 THEN @ - 1 ELSE @]
  /\ UNCHANGED <<meta, older, helper, status>>

(* prefetch_async; it joins the thread before it, if any. *)
PrefetchAsync(b) ==
  /\ helper.pc = "Idle"
  /\ helper' = [pc |-> "Spawned", layer |-> b, slot |-> NoSlot]
  /\ status' = "Ok"
  /\ UNCHANGED <<meta, slot, older>>
-----------------------------------------------------------------------------
(* The helper thread: prefetch. *)

PrefetchSkips ==
  LET b == helper.layer
  IN /\ helper.pc = "Spawned"
     /\ \/ /\ meta[b] = NoModel
           /\ status' = "NotFound" /\ UNCHANGED older
        \/ /\ meta[b] # NoModel /\ Holding(b) # {}
           /\ older' = Touched(Found(b)) /\ UNCHANGED status
        \/ /\ meta[b] # NoModel /\ Holding(b) = {} /\ Victims = {}
           /\ UNCHANGED <<older, status>>
     /\ helper' = Resting
     /\ UNCHANGED <<meta, slot>>

PrefetchBegins ==
  /\ helper.pc = "Spawned" /\ meta[helper.layer] # NoModel /\ Holding(helper.layer) = {}
  /\ \E s \in Victims : helper' = [helper EXCEPT !.pc = "Reading", !.slot = s]
  /\ UNCHANGED <<meta, slot, older, status>>

PrefetchReads ==
  /\ helper.pc = "Reading"
  /\ slot' = Filled(helper.slot, helper.layer, slot[helper.slot].pins)
  /\ older' = Touched(helper.slot)
  /\ helper' = Resting
  /\ UNCHANGED <<meta, status>>

PrefetchReadFails ==
  /\ helper.pc = "Reading"
  /\ slot' \in Spoilt(helper.slot)
  /\ status' = "IoError"
  /\ helper' = Resting
  /\ UNCHANGED <<meta, older>>
=============================================================================
