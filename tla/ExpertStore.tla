----------------------------- MODULE ExpertStore -----------------------------
(***************************************************************************)
(* ExpertStore (src/store/expert_store.cpp) with the MoE loop that drives  *)
(* it: lookup, use, release each expert of a round in turn, while a helper *)
(* thread reads the next one; or, on the CUDA expert-parallel path, lease  *)
(* the whole round first.  Layers share no slot, so one layer is modelled. *)
(*                                                                         *)
(* mu_ is dropped during pread, and load_into also writes slot and         *)
(* by_expert without it.  An action is what happens between two points     *)
(* where the other thread can be seen; load says which slot each thread    *)
(* is reading a file into.                                                 *)
(*                                                                         *)
(* used and clock_ only ever order the slots, so older keeps that order.   *)
(* Not modelled: the statistics and REPIN queue, which nothing reads back. *)
(***************************************************************************)
EXTENDS Naturals, Sequences, FiniteSets

CONSTANTS Experts,     \* of the layer
          Registered,  \* experts that have a file
          Slots,       \* slots_per_layer_ of them
          Rounds,      \* moe_union_ids: the distinct experts of a batch, in order
          Pipe,        \* rt_.pipe: read ahead on the helper thread
          Grouped,     \* the CUDA path that leases a whole round may be taken
          MaxFaults,   \* bound: file reads that fail
          NoExpert, NoSlot, Torn

ASSUME StoreAssumption ==
  /\ Slots # {} /\ IsFiniteSet(Slots) /\ Registered \subseteq Experts
  /\ Rounds \subseteq Seq(Experts)
  /\ \A keys \in Rounds : /\ keys # <<>>
                          /\ \A i, j \in DOMAIN keys : keys[i] = keys[j] => i = j
  /\ Pipe \in BOOLEAN /\ Grouped \in BOOLEAN /\ MaxFaults \in Nat
  /\ NoExpert \notin Experts /\ Torn \notin Experts /\ NoSlot \notin Slots
  /\ Torn # NoExpert

VARIABLES slot,      \* Slot: eid (NoExpert when not valid), pins, bytes at base
          byExpert,  \* by_expert
          older,     \* of a slot: the slots used less recently
          load,      \* of a thread: the slot it is reading into, without mu_
          main,      \* the MoE loop
          leases,    \* slots it has looked up and not released
          fed,       \* the bytes it has computed with in this round
          helper,    \* prefetch_th_
          status,    \* prefetch_st_
          faults     \* file reads that have failed

store == <<slot, byExpert, older>>
vars == <<store, load, main, leases, fed, helper, status, faults>>

Threads == {"main", "helper"}
Bytes == Experts \cup {NoExpert, Torn}
Slot == [eid : Experts \cup {NoExpert}, pins : Nat, bytes : Bytes]
Failures == {"NotFound", "Oom", "IoError"}
MainSteps == {"Idle", "Lookup", "Reading", "Leased", "Using", "Release", "Join"}
Main == [pc : MainSteps, keys : Seq(Experts), pos : Nat, grouped : BOOLEAN,
         view : Slots \cup {NoSlot}, outcome : Failures \cup {"Ok"}, base : Nat]
Helper == [pc : {"Idle", "Spawned", "Reading"}, eid : Experts \cup {NoExpert},
           loaded : BOOLEAN]

TypeOK == /\ slot \in [Slots -> Slot]
          /\ byExpert \in [Experts -> Slots \cup {NoSlot}]
          /\ older \in [Slots -> SUBSET Slots]
          /\ load \in [Threads -> Slots \cup {NoSlot}]
          /\ main \in Main
          /\ leases \in SUBSET Slots
          /\ fed \in Seq(Bytes)
          /\ helper \in Helper
          /\ status \in {"Ok", "IoError"}
          /\ faults \in 0..MaxFaults

Init == /\ slot = [s \in Slots |-> [eid |-> NoExpert, pins |-> 0, bytes |-> NoExpert]]
        /\ byExpert = [e \in Experts |-> NoSlot]
        /\ older = [s \in Slots |-> {}]
        /\ load = [t \in Threads |-> NoSlot]
        /\ main = [pc |-> "Idle", keys |-> <<>>, pos |-> 1, grouped |-> FALSE,
                   view |-> NoSlot, outcome |-> "Ok", base |-> 0]
        /\ leases = {} /\ fed = <<>> /\ status = "Ok" /\ faults = 0
        /\ helper = [pc |-> "Idle", eid |-> NoExpert, loaded |-> FALSE]
-----------------------------------------------------------------------------
(* The store's own steps.  Operators named with an underscore and a word are  *)
(* faulty variants of the operation that follows them: PROJECT.json names the *)
(* property each of them breaks.                                              *)

(* find_slot *)
Resident(e) == byExpert[e] # NoSlot /\ slot[byExpert[e]].eid = e

(* evict_or_free; which of the free slots comes first makes no difference. *)
Free == {s \in Slots : slot[s].pins = 0 /\ slot[s].eid = NoExpert}
Evictable == {s \in Slots : slot[s].pins = 0 /\ slot[s].eid # NoExpert}
Victims_EvenPinned == IF Free # {} THEN Free ELSE Slots
Victims == IF Free # {} THEN Free
           ELSE {s \in Evictable : older[s] \cap Evictable = {}}

Touched(s) == [t \in Slots |-> IF t = s THEN Slots \ {s} ELSE older[t] \ {s}]
Pinned(s) == [slot EXCEPT ![s].pins = @ + 1]
Less(pins) == IF pins > 0 THEN pins - 1 ELSE pins

(* lookup, prefetch: pin the victim, drop mu_, start to read. *)
BeginLoad(t, s) == /\ slot' = Pinned(s)
                   /\ load' = [load EXCEPT ![t] = s]
                   /\ UNCHANGED <<byExpert, older>>

(* load_into's tail: the slot changes hands. *)
Installed(s, e, pins) == [slot EXCEPT ![s] = [eid |-> e, pins |-> pins, bytes |-> e]]
Reindexed(s, e) == [x \in Experts |-> IF x = e THEN s
                                      ELSE IF x = slot[s].eid THEN NoSlot ELSE byExpert[x]]

(* A read that fails may have overwritten the blob that was there; the slot   *)
(* stays valid for the expert it held.                                        *)
FailLoad(t, s) ==
  /\ faults < MaxFaults /\ faults' = faults + 1
  /\ load' = [load EXCEPT ![t] = NoSlot]
  /\ \E bytes \in {slot[s].bytes, Torn} :
       slot' = [slot EXCEPT ![s].pins = Less(@), ![s].bytes = bytes]
  /\ UNCHANGED <<byExpert, older>>

Released(held) == [s \in Slots |-> IF s \in held THEN [slot[s] EXCEPT !.pins = Less(@)]
                                  ELSE slot[s]]

(* What a reader of the slot's memory gets while, or after, it is read into. *)
Content(s) == IF \E t \in Threads : load[t] = s THEN Torn ELSE slot[s].bytes
-----------------------------------------------------------------------------
(* The MoE loop. *)

Key == main.keys[main.pos]
More == main.pos < Len(main.keys)
Ended(why) == [main EXCEPT !.pc = "Idle", !.outcome = why]
Advanced == IF More THEN [main EXCEPT !.pc = "Lookup", !.pos = @ + 1] ELSE Ended("Ok")
FellBack_ToGrouped == [main EXCEPT !.pc = "Lookup", !.pos = 1]
(* The per-expert loop that runs when the grouped path has failed. *)
FellBack == [main EXCEPT !.pc = "Lookup", !.pos = 1, !.grouped = FALSE]

StartRound(keys, grouped) ==
  /\ main.pc = "Idle"
  /\ grouped => Grouped
  /\ main' = [main EXCEPT !.pc = "Lookup", !.keys = keys, !.pos = 1,
                          !.grouped = grouped, !.base = faults]
  /\ fed' = <<>>
  /\ UNCHANGED <<store, load, leases, helper, status, faults>>

LookupHit_NoPin ==
  /\ main.pc = "Lookup" /\ Key \in Registered /\ Resident(Key)
  /\ older' = Touched(byExpert[Key])
  /\ leases' = leases \cup {byExpert[Key]}
  /\ main' = [main EXCEPT !.pc = "Leased", !.view = byExpert[Key]]
  /\ UNCHANGED <<slot, byExpert, load, fed, helper, status, faults>>

LookupHit ==
  /\ main.pc = "Lookup" /\ Key \in Registered /\ Resident(Key)
  /\ slot' = Pinned(byExpert[Key])
  /\ older' = Touched(byExpert[Key])
  /\ leases' = leases \cup {byExpert[Key]}
  /\ main' = [main EXCEPT !.pc = "Leased", !.view = byExpert[Key]]
  /\ UNCHANGED <<byExpert, load, fed, helper, status, faults>>

LookupMiss ==
  /\ main.pc = "Lookup" /\ Key \in Registered /\ ~Resident(Key)
  /\ \E s \in Victims : BeginLoad("main", s)
  /\ main' = [main EXCEPT !.pc = "Reading"]
  /\ UNCHANGED <<leases, fed, helper, status, faults>>

LookupLoaded ==
  LET s == load["main"]
  IN /\ main.pc = "Reading"
     /\ slot' = Installed(s, Key, slot[s].pins)
     /\ byExpert' = Reindexed(s, Key)
     /\ older' = Touched(s)
     /\ load' = [load EXCEPT !["main"] = NoSlot]
     /\ leases' = leases \cup {s}
     /\ main' = [main EXCEPT !.pc = "Leased", !.view = s]
     /\ UNCHANGED <<fed, helper, status, faults>>

(* No file, or every slot pinned.  The per-expert loop then joins the helper. *)
Refused == Key \notin Registered \/ (~Resident(Key) /\ Victims = {})
LookupRefused ==
  /\ main.pc = "Lookup" /\ ~main.grouped /\ Refused
  /\ helper.pc = "Idle"
  /\ main' = Ended(IF Key \in Registered THEN "Oom" ELSE "NotFound")
  /\ UNCHANGED <<store, load, leases, fed, helper, status, faults>>

LookupFailed ==
  /\ main.pc = "Reading" /\ ~main.grouped
  /\ helper.pc = "Idle"
  /\ FailLoad("main", load["main"])
  /\ main' = Ended("IoError")
  /\ UNCHANGED <<leases, fed, helper, status>>

(* A lookup or a kernel of the grouped path fails: it releases what it holds. *)
GroupGivesUp_KeepsSums ==
  /\ main.grouped
  /\ main.pc = "Leased" \/ (main.pc = "Lookup" /\ Refused)
  /\ slot' = Released(leases)
  /\ leases' = {}
  /\ main' = FellBack
  /\ UNCHANGED <<byExpert, older, load, fed, helper, status, faults>>

GroupGivesUp ==
  /\ main.grouped
  /\ main.pc = "Leased" \/ (main.pc = "Lookup" /\ Refused)
  /\ slot' = Released(leases)
  /\ leases' = {} /\ fed' = <<>>
  /\ main' = FellBack
  /\ UNCHANGED <<byExpert, older, load, helper, status, faults>>

GroupReadFailed ==
  LET s == load["main"]
  IN /\ main.pc = "Reading" /\ main.grouped
     /\ faults < MaxFaults /\ faults' = faults + 1
     /\ load' = [load EXCEPT !["main"] = NoSlot]
     /\ \E bytes \in {slot[s].bytes, Torn} :
          slot' = [Released(leases \cup {s}) EXCEPT ![s].bytes = bytes]
     /\ leases' = {} /\ fed' = <<>>
     /\ main' = FellBack
     /\ UNCHANGED <<byExpert, older, helper, status>>

SpawnPrefetch_OneTooFar ==
  /\ main.pc = "Leased" /\ ~main.grouped /\ Pipe /\ main.pos + 1 < Len(main.keys)
  /\ helper.pc = "Idle"
  /\ status' = "Ok"
  /\ helper' = [pc |-> "Spawned", eid |-> main.keys[main.pos + 2], loaded |-> FALSE]
  /\ main' = [main EXCEPT !.pc = "Using"]
  /\ UNCHANGED <<store, load, leases, fed, faults>>

(* prefetch_one_async joins the thread before it, if any. *)
SpawnPrefetch ==
  /\ main.pc = "Leased" /\ ~main.grouped /\ Pipe /\ More
  /\ helper.pc = "Idle"
  /\ status' = "Ok"
  /\ helper' = [pc |-> "Spawned", eid |-> main.keys[main.pos + 1], loaded |-> FALSE]
  /\ main' = [main EXCEPT !.pc = "Using"]
  /\ UNCHANGED <<store, load, leases, fed, faults>>

(* The matrix products of one expert read the leased slot. *)
Use ==
  /\ main.pc = "Using" \/ (main.pc = "Leased" /\ (main.grouped \/ ~Pipe \/ ~More))
  /\ fed' = Append(fed, Content(main.view))
  /\ main' = [main EXCEPT !.pc = IF main.grouped /\ More THEN "Lookup" ELSE "Release",
                          !.pos = IF main.grouped /\ More THEN @ + 1 ELSE @]
  /\ UNCHANGED <<store, load, leases, helper, status, faults>>

(* release: of the one expert, or of the whole round. *)
Release ==
  /\ main.pc = "Release"
  /\ slot' = Released(leases)
  /\ leases' = {}
  /\ main' = IF main.grouped THEN Ended("Ok")
             ELSE IF Pipe THEN [main EXCEPT !.pc = "Join"] ELSE Advanced
  /\ UNCHANGED <<byExpert, older, load, fed, helper, status, faults>>

(* wait_prefetch; prefetch_st_ keeps its value until the next prefetch. *)
Join_DoesNotWait ==
  /\ main.pc = "Join"
  /\ main' = IF status = "Ok" THEN Advanced ELSE Ended(status)
  /\ UNCHANGED <<store, load, leases, fed, helper, status, faults>>

Join ==
  /\ main.pc = "Join" /\ helper.pc = "Idle"
  /\ main' = IF status = "Ok" THEN Advanced ELSE Ended(status)
  /\ UNCHANGED <<store, load, leases, fed, helper, status, faults>>
-----------------------------------------------------------------------------
(* The helper thread: prefetch(&key, 1). *)

HelperIdle(loaded) == [helper EXCEPT !.pc = "Idle", !.loaded = loaded]

(* Nothing to read, or nowhere to put it: prefetch succeeds all the same. *)
PrefetchSkips ==
  /\ helper.pc = "Spawned"
  /\ \/ helper.eid \notin Registered /\ UNCHANGED older
     \/ helper.eid \in Registered /\ Resident(helper.eid)
        /\ older' = Touched(byExpert[helper.eid])
     \/ helper.eid \in Registered /\ ~Resident(helper.eid) /\ Victims = {}
        /\ UNCHANGED older
  /\ helper' = HelperIdle(FALSE)
  /\ UNCHANGED <<slot, byExpert, load, main, leases, fed, status, faults>>

PrefetchBegins ==
  /\ helper.pc = "Spawned" /\ helper.eid \in Registered /\ ~Resident(helper.eid)
  /\ \E s \in Victims : BeginLoad("helper", s)
  /\ helper' = [helper EXCEPT !.pc = "Reading"]
  /\ UNCHANGED <<main, leases, fed, status, faults>>

PrefetchLoaded_KeepsPin ==
  LET s == load["helper"]
  IN /\ helper.pc = "Reading"
     /\ slot' = Installed(s, helper.eid, slot[s].pins)
     /\ byExpert' = Reindexed(s, helper.eid)
     /\ older' = Touched(s)
     /\ load' = [load EXCEPT !["helper"] = NoSlot]
     /\ helper' = HelperIdle(TRUE)
     /\ UNCHANGED <<main, leases, fed, status, faults>>

PrefetchLoaded ==
  LET s == load["helper"]
  IN /\ helper.pc = "Reading"
     /\ slot' = Installed(s, helper.eid, Less(slot[s].pins))
     /\ byExpert' = Reindexed(s, helper.eid)
     /\ older' = Touched(s)
     /\ load' = [load EXCEPT !["helper"] = NoSlot]
     /\ helper' = HelperIdle(TRUE)
     /\ UNCHANGED <<main, leases, fed, status, faults>>

PrefetchFailed ==
  /\ helper.pc = "Reading"
  /\ FailLoad("helper", load["helper"])
  /\ helper' = HelperIdle(FALSE)
  /\ status' = "IoError"
  /\ UNCHANGED <<main, leases, fed>>
-----------------------------------------------------------------------------
MainStep == \/ LookupHit \/ LookupMiss \/ LookupLoaded \/ LookupRefused \/ LookupFailed
            \/ GroupGivesUp \/ GroupReadFailed
            \/ SpawnPrefetch \/ Use \/ Release \/ Join
HelperStep == PrefetchSkips \/ PrefetchBegins \/ PrefetchLoaded \/ PrefetchFailed

Next == \/ \E keys \in Rounds, grouped \in BOOLEAN : StartRound(keys, grouped)
        \/ MainStep
        \/ HelperStep

Spec == Init /\ [][Next]_vars
(* Threads run, and a read returns; nobody owes the store another round. *)
LiveSpec == Spec /\ WF_vars(MainStep) /\ WF_vars(HelperStep)
-----------------------------------------------------------------------------
One(b) == IF b THEN 1 ELSE 0

(* Every pin is the lease of somebody, or a read in progress: none leaks and  *)
(* none is lost, whatever fails, so every slot of the layer stays usable.     *)
PinsAreLeases ==
  \A s \in Slots :
    slot[s].pins = One(load["main"] = s) + One(load["helper"] = s) + One(s \in leases)

(* So the per-expert loop never finds every slot pinned, even with one slot.  *)
NeverOutOfSlots == main.outcome # "Oom"

(* by_expert and the slots are inverse to each other, though load_into writes *)
(* both without the mutex: no expert is held twice, none is lost.             *)
IndexIsInverse ==
  /\ \A e \in Experts : byExpert[e] # NoSlot => slot[byExpert[e]].eid = e
  /\ \A s \in Slots : slot[s].eid # NoExpert => byExpert[slot[s].eid] = s

(* load_into runs without the mutex, so while one thread is in it the other   *)
(* neither looks anything up nor reads.                                       *)
UnlockedLoadIsAlone == load["helper"] # NoSlot => main.pc \in {"Using", "Release", "Join"}

(* Until a file read has failed, a round computes with the weights of the     *)
(* experts it asked for, in the order it asked for them.                      *)
RightWeights == \A i \in DOMAIN fed : fed[i] = main.keys[i]
RightWeightsUntilFault == faults = 0 => RightWeights

(* A leased slot keeps its expert and its bytes until it is released.         *)
LeasesKept == \A s \in leases \cap leases' : /\ slot'[s].eid = slot[s].eid
                                             /\ slot'[s].bytes = slot[s].bytes
                                             /\ Content(s) = Content(s)'
LeasedSlotIsStable == [][LeasesKept]_vars

(* What the helper has read is still there when the round gets to it, however *)
(* few slots there are: reading ahead never reads a file twice in a row.      *)
PrefetchPaysOff ==
  main.pc = "Lookup" /\ main.pos > 1 /\ ~main.grouped /\ Pipe
    /\ helper.loaded => Resident(Key)

(* prefetch is advisory: a round is not failed for a read error of a past one.*)
FailedRoundsHadAFault ==
  main.pc = "Idle" /\ main.outcome = "IoError" => faults > main.base

(* Every round is answered. *)
RoundsEnd == main.pc # "Idle" ~> main.pc = "Idle"

(* The store implements what a layer expects of it. *)
Promised == INSTANCE ExpertRound WITH
  Weights <- Bytes,
  phase <- IF main.pc = "Idle" THEN "Idle" ELSE "Busy",
  asked <- main.keys,
  answer <- main.outcome,
  disk <- IF faults = 0 THEN "Sound" ELSE "Failing"
KeepsPromise == Promised!RoundSpec
=============================================================================
