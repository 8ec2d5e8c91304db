-------------------------- MODULE ExpertStoreProofs --------------------------
(***************************************************************************)
(* Proofs about ExpertStore.  StoreInv strengthens the checked invariants  *)
(* with what each pc of the two threads implies about the slots they hold; *)
(* it is inductive for any number of experts, slots and failing reads.     *)
(***************************************************************************)
EXTENDS ExpertStore, FiniteSetTheorems, WellFoundedInduction, TLAPS

(* Where the MoE loop is, and what it holds there. *)
RoundShape == main.pc # "Idle" => main.keys \in Rounds /\ main.pos \in 1..Len(main.keys)
Computed == main.pc # "Idle" =>
              Len(fed) = IF main.pc \in {"Release", "Join"} THEN main.pos ELSE main.pos - 1
Holding == main.pc \in {"Leased", "Using", "Release"}
HeldLeases == /\ main.pc \in {"Idle", "Join"} => leases = {}
              /\ ~main.grouped /\ main.pc \in {"Lookup", "Reading"} => leases = {}
              /\ ~main.grouped /\ Holding => leases = {main.view}
              /\ Holding => main.view \in leases
              /\ main.pc \in {"Leased", "Using"} => slot[main.view].eid = Key
GroupShape == /\ main.pc \in {"Using", "Join"} => ~main.grouped
              /\ main.grouped /\ main.pc = "Release" => main.pos = Len(main.keys)
(* What the grouped path has leased is behind it in the round. *)
GroupLeases == main.grouped /\ main.pc \in {"Lookup", "Reading", "Leased"} =>
                 \A s \in leases, i \in main.pos..Len(main.keys) :
                   slot[s].eid = main.keys[i] => main.pc = "Leased" /\ i = main.pos

(* Which slots are being read into, and that their expert is nowhere yet. *)
MainLoad == /\ load["main"] # NoSlot <=> main.pc = "Reading"
            /\ main.pc = "Reading" => Key \in Experts /\ ~Resident(Key)
HelperLoad == /\ load["helper"] # NoSlot <=> helper.pc = "Reading"
              /\ helper.pc # "Idle" => helper.eid \in Experts /\ ~main.grouped
              /\ helper.pc # "Idle" => Pipe /\ main.pc \in {"Using", "Release", "Join"}
              /\ helper.pc # "Idle" => More /\ helper.eid = main.keys[main.pos + 1]
              /\ helper.pc = "Reading" => ~Resident(helper.eid)
LoadsUnleased == \A t \in Threads : load[t] \notin leases

SoundBytes == faults = 0 => \A s \in Slots : slot[s].bytes = slot[s].eid
ReadAhead == Pipe /\ ~main.grouped /\ helper.loaded /\ More
               /\ main.pc \in {"Using", "Release", "Join"}
               => helper.eid = main.keys[main.pos + 1] /\ Resident(helper.eid)

StoreInv == /\ TypeOK /\ PinsAreLeases /\ IndexIsInverse
            /\ RoundShape /\ Computed /\ HeldLeases /\ GroupShape /\ GroupLeases
            /\ MainLoad /\ HelperLoad /\ LoadsUnleased
            /\ SoundBytes /\ RightWeightsUntilFault
            /\ ReadAhead /\ PrefetchPaysOff

LEMMA LessIsNat == \A n \in Nat : Less(n) \in Nat
BY DEF Less

USE StoreAssumption
-----------------------------------------------------------------------------
LEMMA InitEstablishes == Init => StoreInv
<1> SUFFICES ASSUME Init PROVE StoreInv
    OBVIOUS
<1>1. TypeOK
      BY DEF Init, TypeOK, Slot, Bytes, Threads, Main, MainSteps, Failures, Helper
<1>2. PinsAreLeases /\ IndexIsInverse
      BY DEF Init, PinsAreLeases, One, IndexIsInverse, Threads
<1>3. RoundShape /\ Computed /\ HeldLeases /\ GroupShape /\ GroupLeases
      BY DEF Init, RoundShape, Computed, HeldLeases, Holding, GroupShape, GroupLeases
<1>4. MainLoad /\ HelperLoad /\ LoadsUnleased
      BY DEF Init, MainLoad, HelperLoad, LoadsUnleased, Threads
<1>5. SoundBytes /\ RightWeightsUntilFault /\ ReadAhead /\ PrefetchPaysOff
      BY DEF Init, SoundBytes, RightWeightsUntilFault, RightWeights, ReadAhead, PrefetchPaysOff,
             NeverOutOfSlots
<1> QED
    BY <1>1, <1>2, <1>3, <1>4, <1>5 DEF StoreInv

(* The key the loop is at is an expert. *)
LEMMA KeyIsExpert == RoundShape /\ main.pc # "Idle" => /\ Key \in Experts
                                                       /\ main.pos \in DOMAIN main.keys
                                                       /\ main.keys \in Seq(Experts)
                                                       /\ main.pos \in Nat \ {0}
                                                       /\ More => main.keys[main.pos + 1] \in Experts
BY DEF RoundShape, Key, More

(* A victim is a slot nobody has pinned. *)
LEMMA VictimsAreUnpinned == ASSUME NEW s \in Victims PROVE s \in Slots /\ slot[s].pins = 0
BY DEF Victims, Free, Evictable
-----------------------------------------------------------------------------
(* Type correctness, step by step. *)
LEMMA TypeStep == StoreInv /\ [Next]_vars => TypeOK'
<1> SUFFICES ASSUME StoreInv, [Next]_vars PROVE TypeOK'
    OBVIOUS
<1>a. TypeOK /\ RoundShape
      BY DEF StoreInv
<1>t. /\ slot \in [Slots -> Slot] /\ byExpert \in [Experts -> Slots \cup {NoSlot}]
      /\ older \in [Slots -> SUBSET Slots] /\ load \in [Threads -> Slots \cup {NoSlot}]
      /\ main \in Main /\ leases \in SUBSET Slots /\ fed \in Seq(Bytes) /\ helper \in Helper
      /\ status \in {"Ok", "IoError"} /\ faults \in 0..MaxFaults
      BY <1>a DEF TypeOK
<1>b. main.pc # "Idle" => /\ Key \in Experts /\ main.pos \in Nat
                          /\ More => main.keys[main.pos + 1] \in Experts
      BY <1>a, KeyIsExpert
<1>c. \A why \in Failures \cup {"Ok"} : Ended(why) \in Main
      BY <1>t DEF Ended, Main, MainSteps
<1>d. Advanced \in Main /\ FellBack \in Main
  <2> main.pos + 1 \in Nat
      BY <1>t DEF Main
  <2> QED
      BY <1>t, <1>c DEF Advanced, FellBack, Main, MainSteps
<1>e. \A s \in Slots : Touched(s) \in [Slots -> SUBSET Slots]
      BY <1>t DEF Touched
<1>f. \A s \in Slots : slot[s].pins \in Nat /\ slot[s].bytes \in Bytes /\ slot[s].eid \in Experts \cup {NoExpert}
      BY <1>t DEF Slot
<1>g. \A s \in Slots, n \in Nat, b \in Bytes :
        /\ [slot EXCEPT ![s].pins = n] \in [Slots -> Slot]
        /\ [slot EXCEPT ![s].pins = n, ![s].bytes = b] \in [Slots -> Slot]
  <2> TAKE s \in Slots, n \in Nat, b \in Bytes
  <2>1. slot[s] \in Slot
        BY <1>t
  <2>2. [slot[s] EXCEPT !.pins = n] \in Slot /\ [slot[s] EXCEPT !.pins = n, !.bytes = b] \in Slot
        BY <2>1 DEF Slot
  <2>3. [slot EXCEPT ![s] = [slot[s] EXCEPT !.pins = n]] \in [Slots -> Slot]
        BY <1>t, <2>2
  <2>4. [slot EXCEPT ![s] = [slot[s] EXCEPT !.pins = n, !.bytes = b]] \in [Slots -> Slot]
        BY <1>t, <2>2
  <2>5. [slot EXCEPT ![s].pins = n, ![s].bytes = b]
           = [slot EXCEPT ![s] = [slot[s] EXCEPT !.pins = n, !.bytes = b]]
        BY <1>t, <2>1 DEF Slot
  <2> QED
      BY <2>3, <2>4, <2>5
<1>h. \A n \in Nat : Less(n) \in Nat
      BY LessIsNat
<1>i. \A held \in SUBSET Slots : Released(held) \in [Slots -> Slot]
  <2> TAKE held \in SUBSET Slots
  <2>1. ASSUME NEW s \in Slots PROVE [slot[s] EXCEPT !.pins = Less(@)] \in Slot
    <3>1. slot[s] \in Slot /\ Less(slot[s].pins) \in Nat
          BY <1>t, <1>f, <1>h
    <3> HIDE DEF Less
    <3> QED
        BY <3>1 DEF Slot
  <2> QED
      BY <1>t, <2>1 DEF Released
<1>j. \A s \in Slots, e \in Experts, n \in Nat :
         /\ Installed(s, e, n) \in [Slots -> Slot]
         /\ Reindexed(s, e) \in [Experts -> Slots \cup {NoSlot}]
      BY <1>t DEF Installed, Reindexed, Slot, Bytes
<1>k. \A s \in Slots : Content(s) \in Bytes
      BY <1>f DEF Content, Bytes
<1>l. \A t \in Threads, s \in Slots \cup {NoSlot} :
        [load EXCEPT ![t] = s] \in [Threads -> Slots \cup {NoSlot}]
      BY <1>t
<1>m. \A pc \in MainSteps, p \in Nat, g \in BOOLEAN, v \in Slots \cup {NoSlot} :
        /\ [main EXCEPT !.pc = pc] \in Main
        /\ [main EXCEPT !.pc = pc, !.pos = p] \in Main
        /\ [main EXCEPT !.pc = pc, !.view = v] \in Main
        /\ \A keys \in Rounds : [main EXCEPT !.pc = pc, !.keys = keys, !.pos = p, !.grouped = g,
                                             !.base = faults] \in Main
  <2> TAKE pc \in MainSteps, p \in Nat, g \in BOOLEAN, v \in Slots \cup {NoSlot}
  <2>1. [main EXCEPT !.pc = pc] \in Main /\ [main EXCEPT !.pc = pc, !.pos = p] \in Main
        BY <1>t DEF Main
  <2>2. [main EXCEPT !.pc = pc, !.view = v] \in Main
        BY <1>t DEF Main
  <2>3. ASSUME NEW keys \in Rounds
        PROVE [main EXCEPT !.pc = pc, !.keys = keys, !.pos = p, !.grouped = g, !.base = faults]
                \in Main
    <3> keys \in Seq(Experts) /\ faults \in Nat
        BY <1>t
    <3> QED
        BY <1>t DEF Main
  <2> QED
      BY <2>1, <2>2, <2>3
<1>n. /\ main.pc = "Reading" => load["main"] \in Slots
      /\ helper.pc = "Reading" => load["helper"] \in Slots
      /\ helper.pc # "Idle" => helper.eid \in Experts
      /\ Holding => main.view \in Slots
      BY <1>t DEF StoreInv, MainLoad, HelperLoad, HeldLeases, Threads
<1>o. \A e \in Experts : Resident(e) => byExpert[e] \in Slots
      BY <1>t DEF Resident
<1>p. \A b \in BOOLEAN : HelperIdle(b) \in Helper
      BY <1>t DEF HelperIdle, Helper
<1>q. "main" \in Threads /\ "helper" \in Threads /\ {"Idle", "Lookup", "Reading", "Leased", "Using", "Release", "Join"} \subseteq MainSteps
      BY DEF Threads, MainSteps
<1>u. \A s \in Slots : Pinned(s) \in [Slots -> Slot]
  <2> TAKE s \in Slots
  <2>1. slot[s] \in Slot /\ slot[s].pins + 1 \in Nat
        BY <1>t, <1>f
  <2>2. [slot[s] EXCEPT !.pins = slot[s].pins + 1] \in Slot
        BY <2>1 DEF Slot
  <2>3. Pinned(s) = [slot EXCEPT ![s] = [slot[s] EXCEPT !.pins = slot[s].pins + 1]]
        BY <1>t DEF Pinned
  <2> QED
      BY <1>t, <2>2, <2>3
<1>r. \A t \in Threads, s \in Slots : BeginLoad(t, s) =>
        /\ slot' \in [Slots -> Slot] /\ byExpert' = byExpert /\ older' = older
        /\ load' \in [Threads -> Slots \cup {NoSlot}]
  <2> TAKE t \in Threads, s \in Slots
  <2> QED
      BY <1>l, <1>u DEF BeginLoad
<1>s. \A t \in Threads, s \in Slots : FailLoad(t, s) =>
        /\ slot' \in [Slots -> Slot] /\ byExpert' = byExpert /\ older' = older
        /\ load' \in [Threads -> Slots \cup {NoSlot}] /\ faults' \in 0..MaxFaults
  <2> TAKE t \in Threads, s \in Slots
  <2> SUFFICES ASSUME FailLoad(t, s)
               PROVE slot' \in [Slots -> Slot] /\ load' \in [Threads -> Slots \cup {NoSlot}]
                     /\ faults' \in 0..MaxFaults
      BY DEF FailLoad
  <2>1. PICK b \in {slot[s].bytes, Torn} :
          slot' = [slot EXCEPT ![s].pins = Less(slot[s].pins), ![s].bytes = b]
        BY DEF FailLoad
  <2>2. b \in Bytes /\ Less(slot[s].pins) \in Nat
        BY <1>f, <1>h DEF Bytes
  <2>3. slot' \in [Slots -> Slot]
        BY <1>g, <2>1, <2>2
  <2> QED
      BY <1>t, <1>l, <2>3 DEF FailLoad
<1> HIDE DEF Holding
<1>1. ASSUME NEW keys \in Rounds, NEW grouped \in BOOLEAN, StartRound(keys, grouped) PROVE TypeOK'
  <2> main' \in Main
      BY <1>1, <1>m, <1>q DEF StartRound
  <2> QED
      BY <1>1, <1>t DEF StartRound, store, TypeOK
<1>2. CASE LookupHit
  <2>1. byExpert[Key] \in Slots
        BY <1>2, <1>b, <1>o DEF LookupHit
  <2>2. main' \in Main
        BY <1>2, <1>m, <1>q, <2>1 DEF LookupHit
  <2>3. slot' \in [Slots -> Slot]
        BY <1>2, <1>u, <2>1 DEF LookupHit
  <2> QED
      BY <1>2, <1>t, <1>e, <2>1, <2>2, <2>3 DEF LookupHit, TypeOK
<1>3. CASE LookupMiss
  <2>1. main' \in Main
        BY <1>3, <1>m, <1>q DEF LookupMiss
  <2> QED
      BY <1>3, <1>t, <1>q, <1>r, <2>1, VictimsAreUnpinned DEF LookupMiss, TypeOK
<1>4. CASE LookupLoaded
  <2>1. load["main"] \in Slots /\ Key \in Experts /\ slot[load["main"]].pins \in Nat
        BY <1>4, <1>b, <1>f, <1>n DEF LookupLoaded
  <2>2. main' \in Main
        BY <1>4, <1>m, <1>q, <2>1 DEF LookupLoaded
  <2> QED
      BY <1>4, <1>t, <1>e, <1>j, <1>l, <1>q, <2>1, <2>2 DEF LookupLoaded, TypeOK
<1>5. CASE LookupRefused
  <2> main' \in Main
      BY <1>5, <1>c DEF LookupRefused, Failures
  <2> QED
      BY <1>5, <1>t DEF LookupRefused, store, TypeOK
<1>6. CASE LookupFailed
      BY <1>6, <1>t, <1>c, <1>n, <1>q, <1>s DEF LookupFailed, Failures, TypeOK
<1>7. CASE GroupGivesUp
      BY <1>7, <1>t, <1>d, <1>i DEF GroupGivesUp, TypeOK
<1>8. CASE GroupReadFailed
  <2> DEFINE s == load["main"]
  <2>1. s \in Slots /\ Released(leases \cup {s}) \in [Slots -> Slot]
        BY <1>8, <1>t, <1>i, <1>n DEF GroupReadFailed
  <2>2. PICK b \in {slot[s].bytes, Torn} :
          slot' = [Released(leases \cup {s}) EXCEPT ![s].bytes = b]
        BY <1>8 DEF GroupReadFailed
  <2>3. b \in Bytes
        BY <1>f, <2>1 DEF Bytes
  <2>4. slot' \in [Slots -> Slot]
    <3> DEFINE R == Released(leases \cup {s})
    <3>1. R \in [Slots -> Slot] /\ slot' = [R EXCEPT ![s].bytes = b]
          BY <2>1, <2>2
    <3> HIDE DEF R, s
    <3> QED
        BY <2>1, <2>3, <3>1 DEF Slot
  <2>5. load' \in [Threads -> Slots \cup {NoSlot}] /\ main' \in Main
        BY <1>8, <1>d, <1>l, <1>q DEF GroupReadFailed
  <2>6. faults' \in 0..MaxFaults
        BY <1>8, <1>t DEF GroupReadFailed
  <2>7. leases' \in SUBSET Slots /\ fed' \in Seq(Bytes)
        BY <1>8 DEF GroupReadFailed
  <2>8. UNCHANGED <<byExpert, older, helper, status>>
        BY <1>8 DEF GroupReadFailed
  <2> QED
      BY <1>t, <2>4, <2>5, <2>6, <2>7, <2>8 DEF TypeOK
<1>9. CASE SpawnPrefetch
  <2>1. main' \in Main /\ helper' \in Helper
        BY <1>9, <1>b, <1>m, <1>q DEF SpawnPrefetch, Helper
  <2> QED
      BY <1>9, <1>t, <2>1 DEF SpawnPrefetch, store, TypeOK
<1>10. CASE Use
  <2>1. Content(main.view) \in Bytes
        BY <1>10, <1>k, <1>n DEF Use, Holding
  <2>2. main' \in Main
    <3> main.pos \in Nat /\ main.pos + 1 \in Nat
        BY <1>t DEF Main
    <3> QED
        BY <1>10, <1>m, <1>q DEF Use
  <2> QED
      BY <1>10, <1>t, <2>1, <2>2 DEF Use, store, TypeOK
<1>11. CASE Release
  <2> main' \in Main
      BY <1>11, <1>c, <1>d, <1>m, <1>q DEF Release
  <2> QED
      BY <1>11, <1>t, <1>i DEF Release, TypeOK
<1>12. CASE Join
  <2> main' \in Main
      BY <1>12, <1>t, <1>c, <1>d DEF Join, Failures
  <2> QED
      BY <1>12, <1>t DEF Join, store, TypeOK
<1>13. CASE PrefetchSkips
  <2>0. helper.eid \in Experts
        BY <1>13, <1>n DEF PrefetchSkips
  <2>1. helper' \in Helper
        BY <1>13, <1>p DEF PrefetchSkips
  <2>2. older' \in [Slots -> SUBSET Slots]
        BY <1>13, <1>t, <1>e, <1>o, <2>0 DEF PrefetchSkips
  <2> QED
      BY <1>13, <1>t, <2>1, <2>2 DEF PrefetchSkips, TypeOK
<1>14. CASE PrefetchBegins
  <2>1. helper' \in Helper
        BY <1>14, <1>t DEF PrefetchBegins, Helper
  <2> QED
      BY <1>14, <1>t, <1>q, <1>r, <2>1, VictimsAreUnpinned DEF PrefetchBegins, TypeOK
<1>15. CASE PrefetchLoaded
  <2>1. load["helper"] \in Slots /\ helper.eid \in Experts
        /\ Less(slot[load["helper"]].pins) \in Nat
        BY <1>15, <1>f, <1>h, <1>n DEF PrefetchLoaded
  <2> QED
      BY <1>15, <1>t, <1>e, <1>j, <1>l, <1>p, <1>q, <2>1 DEF PrefetchLoaded, TypeOK
<1>16. CASE PrefetchFailed
      BY <1>16, <1>t, <1>n, <1>p, <1>q, <1>s DEF PrefetchFailed, TypeOK
<1>17. CASE UNCHANGED vars
       BY <1>17, <1>a DEF vars, store, TypeOK
<1> QED
    BY <1>1, <1>2, <1>3, <1>4, <1>5, <1>6, <1>7, <1>8, <1>9, <1>10, <1>11, <1>12, <1>13, <1>14,
       <1>15, <1>16, <1>17 DEF Next, MainStep, HelperStep
-----------------------------------------------------------------------------
(* What each primitive of the store does to one slot. *)
LEMMA PinnedEffect ==
  ASSUME TypeOK, NEW s \in Slots, NEW t \in Slots
  PROVE  /\ Pinned(s)[t].eid = slot[t].eid /\ Pinned(s)[t].bytes = slot[t].bytes
         /\ Pinned(s)[t].pins = slot[t].pins + One(t = s)
BY DEF TypeOK, Slot, Pinned, One

LEMMA ReleasedEffect ==
  ASSUME TypeOK, NEW held \in SUBSET Slots, NEW t \in Slots
  PROVE  /\ Released(held)[t].eid = slot[t].eid /\ Released(held)[t].bytes = slot[t].bytes
         /\ Released(held)[t].pins = IF t \in held THEN Less(slot[t].pins) ELSE slot[t].pins
BY DEF TypeOK, Slot, Released

LEMMA InstalledEffect ==
  ASSUME TypeOK, NEW s \in Slots, NEW e \in Experts, NEW n \in Nat, NEW t \in Slots
  PROVE  /\ Installed(s, e, n)[t].eid = IF t = s THEN e ELSE slot[t].eid
         /\ Installed(s, e, n)[t].bytes = IF t = s THEN e ELSE slot[t].bytes
         /\ Installed(s, e, n)[t].pins = IF t = s THEN n ELSE slot[t].pins
BY DEF TypeOK, Slot, Installed

LEMMA FailEffect ==
  ASSUME TypeOK, NEW th \in Threads, NEW s \in Slots, FailLoad(th, s), NEW t \in Slots
  PROVE  /\ slot'[t].eid = slot[t].eid /\ (t # s => slot'[t].bytes = slot[t].bytes)
         /\ slot'[t].pins = IF t = s THEN Less(slot[t].pins) ELSE slot[t].pins
         /\ byExpert' = byExpert /\ load' = [load EXCEPT ![th] = NoSlot]
         /\ faults' # 0
<1>1. PICK b : slot' = [slot EXCEPT ![s].pins = Less(slot[s].pins), ![s].bytes = b]
      BY DEF FailLoad
<1>2. slot'[t].eid = slot[t].eid /\ (t # s => slot'[t].bytes = slot[t].bytes)
         /\ slot'[t].pins = IF t = s THEN Less(slot[t].pins) ELSE slot[t].pins
      BY <1>1 DEF TypeOK, Slot
<1>3. faults' # 0
      BY DEF FailLoad, TypeOK
<1> QED
    BY <1>2, <1>3 DEF FailLoad

(* An expert that is nowhere may be installed anywhere. *)
LEMMA InstallKeepsIndex ==
  ASSUME TypeOK, IndexIsInverse, NEW s \in Slots, NEW e \in Experts, NEW n \in Nat, ~Resident(e),
         slot' = Installed(s, e, n), byExpert' = Reindexed(s, e)
  PROVE  IndexIsInverse' /\ Resident(e)'
<1>1. byExpert \in [Experts -> Slots \cup {NoSlot}]
      /\ \A x \in Experts : byExpert'[x] = IF x = e THEN s
                                           ELSE IF x = slot[s].eid THEN NoSlot ELSE byExpert[x]
      BY DEF TypeOK, Reindexed
<1>2. \A t \in Slots : /\ slot'[t].eid = IF t = s THEN e ELSE slot[t].eid
                       /\ slot[t].eid \in Experts \cup {NoExpert} /\ slot[t].eid # e
  <2> TAKE t \in Slots
  <2>1. slot'[t].eid = IF t = s THEN e ELSE slot[t].eid
        BY InstalledEffect
  <2>2. slot[t].eid \in Experts \cup {NoExpert}
        BY DEF TypeOK, Slot
  <2>3. slot[t].eid # e
        BY DEF IndexIsInverse, Resident
  <2> QED
      BY <2>1, <2>2, <2>3
<1>3. ASSUME NEW x \in Experts, byExpert'[x] # NoSlot PROVE slot'[byExpert'[x]].eid = x
      BY <1>1, <1>2, <1>3 DEF IndexIsInverse
<1>4. ASSUME NEW t \in Slots, slot'[t].eid # NoExpert PROVE byExpert'[slot'[t].eid] = t
      BY <1>1, <1>2, <1>4 DEF IndexIsInverse
<1>5. Resident(e)'
      BY <1>1, <1>2 DEF Resident
<1> QED
    BY <1>3, <1>4, <1>5 DEF IndexIsInverse

(* A step that leaves every slot's expert alone leaves the index alone. *)
LEMMA SameExperts ==
  ASSUME TypeOK, byExpert' = byExpert, \A t \in Slots : slot'[t].eid = slot[t].eid
  PROVE  /\ IndexIsInverse => IndexIsInverse'
         /\ \A e \in Experts : Resident(e)' = Resident(e)
<1>1. \A e \in Experts : byExpert[e] # NoSlot => byExpert[e] \in Slots
      BY DEF TypeOK
<1>2. IndexIsInverse => IndexIsInverse'
      BY <1>1 DEF IndexIsInverse
<1>3. \A e \in Experts : Resident(e)' <=> Resident(e)
      BY <1>1 DEF Resident
<1>4. \A e \in Experts : Resident(e)' \in BOOLEAN /\ Resident(e) \in BOOLEAN
      BY DEF Resident
<1> QED
    BY <1>2, <1>3, <1>4
-----------------------------------------------------------------------------
(* The fields of the records the loop and the helper are updated through. *)
LEMMA MainFields ==
  ASSUME TypeOK
  PROVE  /\ main.pos \in Nat /\ main.grouped \in BOOLEAN /\ main.keys \in Seq(Experts)
         /\ main.pc \in MainSteps /\ helper.pc \in {"Idle", "Spawned", "Reading"}
         /\ \A why : /\ Ended(why).pc = "Idle" /\ Ended(why).grouped = main.grouped
                     /\ Ended(why).keys = main.keys /\ Ended(why).pos = main.pos
                     /\ Ended(why).outcome = why
         /\ \A pc : LET next == [main EXCEPT !.pc = pc]
                    IN next.pc = pc /\ next.keys = main.keys /\ next.pos = main.pos
                       /\ next.grouped = main.grouped /\ next.view = main.view
                       /\ next.outcome = main.outcome
         /\ \A pc, pos : LET next == [main EXCEPT !.pc = pc, !.pos = pos]
                         IN next.pc = pc /\ next.keys = main.keys /\ next.pos = pos
                            /\ next.grouped = main.grouped /\ next.view = main.view
                            /\ next.outcome = main.outcome
         /\ \A pc, view : LET next == [main EXCEPT !.pc = pc, !.view = view]
                          IN next.pc = pc /\ next.keys = main.keys /\ next.pos = main.pos
                             /\ next.grouped = main.grouped /\ next.view = view
                             /\ next.outcome = main.outcome
         /\ FellBack.pc = "Lookup" /\ FellBack.pos = 1 /\ FellBack.keys = main.keys
         /\ FellBack.grouped = FALSE
BY DEF TypeOK, Main, Helper, Ended, FellBack

(* The round is answered: nothing is held, and the helper has been joined. *)
LEMMA EndStep ==
  ASSUME StoreInv, TypeOK', NEW why, main' = Ended(why), helper.pc = "Idle", helper' = helper,
         leases' = {}, load'["main"] = NoSlot, load'["helper"] = NoSlot,
         PinsAreLeases', IndexIsInverse', SoundBytes', RightWeightsUntilFault'
  PROVE  StoreInv'
<1>1. main'.pc = "Idle"
      BY MainFields DEF StoreInv
<1>2. RoundShape' /\ Computed' /\ HeldLeases' /\ GroupShape' /\ GroupLeases'
      BY <1>1 DEF RoundShape, Computed, HeldLeases, Holding, GroupShape, GroupLeases
<1>3. MainLoad' /\ HelperLoad' /\ LoadsUnleased' /\ ReadAhead' /\ PrefetchPaysOff'
      BY <1>1 DEF MainLoad, HelperLoad, LoadsUnleased, ReadAhead, PrefetchPaysOff
<1> QED
    BY <1>2, <1>3 DEF StoreInv

(* The loop goes on to the next expert, which the helper may have read. *)
LEMMA AdvanceStep ==
  ASSUME StoreInv, TypeOK', main' = Advanced, main.pc \in {"Release", "Join"}, ~main.grouped,
         helper.pc = "Idle", helper' = helper, leases' = {}, fed' = fed, load' = load,
         faults' = faults, byExpert' = byExpert, PinsAreLeases',
         \A t \in Slots : slot'[t].eid = slot[t].eid /\ slot'[t].bytes = slot[t].bytes
  PROVE  StoreInv'
<1>1. IndexIsInverse' /\ \A e \in Experts : Resident(e)' = Resident(e)
      BY SameExperts DEF StoreInv
<1>2. /\ main'.keys = main.keys /\ ~main'.grouped
      /\ load["main"] = NoSlot /\ load["helper"] = NoSlot
      BY MainFields DEF Advanced, StoreInv, MainLoad, HelperLoad
<1>3. SoundBytes' /\ RightWeightsUntilFault'
      BY <1>2 DEF StoreInv, SoundBytes, RightWeightsUntilFault, RightWeights
<1>4. CASE ~More
      BY <1>1, <1>2, <1>3, <1>4, EndStep DEF Advanced
<1>5. CASE More
  <2>1. main'.pc = "Lookup" /\ main'.pos = main.pos + 1
        BY <1>5, MainFields DEF Advanced, StoreInv
  <2>2. RoundShape' /\ Computed' /\ HeldLeases' /\ GroupShape' /\ GroupLeases'
        BY <1>2, <1>5, <2>1, KeyIsExpert
           DEF StoreInv, RoundShape, Computed, HeldLeases, Holding, GroupShape, GroupLeases, More
  <2>3. MainLoad' /\ HelperLoad' /\ LoadsUnleased' /\ ReadAhead'
        BY <1>2, <2>1 DEF MainLoad, HelperLoad, LoadsUnleased, ReadAhead
  <2>4. PrefetchPaysOff'
    <3>1. Key' \in Experts /\ Key' = main.keys[main.pos + 1]
          BY <1>2, <1>5, <2>1, KeyIsExpert DEF StoreInv, Key
    <3> QED
        BY <1>1, <1>5, <3>1 DEF StoreInv, ReadAhead, PrefetchPaysOff
  <2> QED
      BY <1>1, <1>3, <2>2, <2>3, <2>4 DEF StoreInv
<1> QED
    BY <1>4, <1>5

LEMMA ReleaseStep == ASSUME StoreInv, TypeOK', Release PROVE StoreInv'
<1>1. /\ slot' = Released(leases) /\ byExpert' = byExpert /\ load' = load /\ leases' = {}
      /\ fed' = fed /\ helper' = helper /\ faults' = faults
      /\ main.pc = "Release"
      BY DEF Release
<1>2. TypeOK /\ leases \in SUBSET Slots
      BY DEF StoreInv, TypeOK
<1>3. \A t \in Slots : slot'[t].eid = slot[t].eid /\ slot'[t].bytes = slot[t].bytes
      BY <1>1, <1>2, ReleasedEffect
<1>4. PinsAreLeases'
  <2> SUFFICES ASSUME NEW t \in Slots
               PROVE slot'[t].pins = One(load["main"] = t) + One(load["helper"] = t)
      BY <1>1 DEF PinsAreLeases, One
  <2>1. slot'[t].pins = IF t \in leases THEN Less(slot[t].pins) ELSE slot[t].pins
        BY <1>1, <1>2, ReleasedEffect
  <2>2. slot[t].pins = One(load["main"] = t) + One(load["helper"] = t) + One(t \in leases)
        BY DEF StoreInv, PinsAreLeases
  <2> QED
      BY <2>1, <2>2 DEF One, Less
<1>5. /\ IndexIsInverse' /\ \A e \in Experts : Resident(e)' = Resident(e)
      BY <1>1, <1>2, <1>3, SameExperts DEF StoreInv
<1>6. CASE main.grouped
  <2>1. main' = Ended("Ok") /\ helper.pc = "Idle"
        BY <1>6 DEF Release, StoreInv, HelperLoad
  <2>2. load["main"] = NoSlot /\ load["helper"] = NoSlot
        BY <1>1, <2>1 DEF StoreInv, MainLoad, HelperLoad
  <2>3. SoundBytes' /\ RightWeightsUntilFault'
        BY <1>1, <1>2, <1>3, <2>1, MainFields
           DEF StoreInv, SoundBytes, RightWeightsUntilFault, RightWeights
  <2> QED
      BY <1>1, <1>4, <1>5, <2>1, <2>2, <2>3, EndStep
<1>7. CASE ~main.grouped /\ Pipe
  <2>1. /\ main'.pc = "Join" /\ ~main'.grouped /\ main'.pos = main.pos /\ main'.keys = main.keys
        BY <1>1, <1>2, <1>7, MainFields DEF Release
  <2>2. RoundShape' /\ Computed' /\ HeldLeases' /\ GroupShape' /\ GroupLeases'
        BY <1>1, <2>1 DEF StoreInv, RoundShape, Computed, HeldLeases, Holding, GroupShape, GroupLeases
  <2>4. More' = More
        BY <2>1 DEF More
  <2>3. MainLoad' /\ HelperLoad' /\ LoadsUnleased'
    <3>1. helper.pc = "Reading" => ~Resident(helper.eid)'
      <4> SUFFICES ASSUME helper.pc = "Reading" PROVE ~Resident(helper.eid)'
          OBVIOUS
      <4>1. helper.eid \in Experts /\ ~Resident(helper.eid)
            BY DEF StoreInv, HelperLoad
      <4>2. byExpert[helper.eid] \in Slots \cup {NoSlot}
            BY <1>2, <4>1 DEF TypeOK
      <4> QED
          BY <1>1, <1>3, <4>1, <4>2 DEF Resident
    <3>2. HelperLoad'
          BY <1>1, <1>7, <2>1, <2>4, <3>1 DEF StoreInv, HelperLoad
    <3> QED
        BY <1>1, <2>1, <3>2 DEF StoreInv, MainLoad, LoadsUnleased
  <2>5. SoundBytes' /\ RightWeightsUntilFault' /\ PrefetchPaysOff'
        BY <1>1, <1>3, <2>1 DEF StoreInv, SoundBytes, RightWeightsUntilFault, RightWeights,
                                PrefetchPaysOff
  <2>6. ReadAhead'
    <3>1. More => main.keys[main.pos + 1] \in Experts
          BY <1>1, KeyIsExpert DEF StoreInv
    <3> QED
        BY <1>1, <1>2, <1>5, <1>7, <2>1, <2>4, <3>1 DEF StoreInv, ReadAhead
  <2> QED
      BY <1>4, <1>5, <2>2, <2>3, <2>5, <2>6 DEF StoreInv
<1>8. CASE ~main.grouped /\ ~Pipe
  <2>1. main' = Advanced /\ helper.pc = "Idle"
        BY <1>8 DEF Release, StoreInv, HelperLoad
  <2> QED
      BY <1>1, <1>3, <1>4, <1>8, <2>1, AdvanceStep
<1> QED
    BY <1>2, <1>6, <1>7, <1>8, MainFields

(* The grouped path gives up: the loop starts over, holding nothing. *)
LEMMA FallBackStep ==
  ASSUME StoreInv, TypeOK', main.pc # "Idle", main' = FellBack, main.grouped, helper' = helper,
         fed' = <<>>, leases' = {}, load'["main"] = NoSlot, load'["helper"] = NoSlot,
         PinsAreLeases', IndexIsInverse', SoundBytes'
  PROVE  StoreInv'
<1>1. /\ main'.pc = "Lookup" /\ main'.pos = 1 /\ main'.keys = main.keys /\ ~main'.grouped
      /\ helper.pc = "Idle" /\ main.keys \in Rounds /\ main.pos \in 1..Len(main.keys)
      BY MainFields DEF StoreInv, HelperLoad, RoundShape
<1>2. RoundShape' /\ Computed' /\ HeldLeases' /\ GroupShape' /\ GroupLeases'
      BY <1>1 DEF RoundShape, Computed, HeldLeases, Holding, GroupShape, GroupLeases
<1>3. /\ MainLoad' /\ HelperLoad' /\ LoadsUnleased'
      /\ RightWeightsUntilFault' /\ ReadAhead' /\ PrefetchPaysOff'
      BY <1>1 DEF MainLoad, HelperLoad, LoadsUnleased, RightWeightsUntilFault, RightWeights,
                  ReadAhead, PrefetchPaysOff
<1> QED
    BY <1>2, <1>3 DEF StoreInv

(* A lookup succeeds: the slot that holds the expert is leased. *)
LEMMA LeaseStep ==
  ASSUME StoreInv, TypeOK', main.pc \in {"Lookup", "Reading"}, NEW s \in Slots,
         main' = [main EXCEPT !.pc = "Leased", !.view = s], slot'[s].eid = Key,
         leases' = leases \cup {s}, fed' = fed, helper' = helper, faults' = faults,
         load'["main"] = NoSlot, load'["helper"] = NoSlot,
         \A t \in leases : slot'[t].eid = slot[t].eid,
         PinsAreLeases', IndexIsInverse', SoundBytes'
  PROVE  StoreInv'
<1>1. /\ main'.pc = "Leased" /\ main'.pos = main.pos /\ main'.keys = main.keys
      /\ main'.grouped = main.grouped /\ main'.view = s /\ Key' = Key
      /\ helper.pc = "Idle"
      BY MainFields DEF StoreInv, HelperLoad, Key
<1>2. RoundShape' /\ Computed' /\ HeldLeases' /\ GroupShape'
      BY <1>1 DEF StoreInv, RoundShape, Computed, HeldLeases, Holding, GroupShape
<1>6. GroupLeases'
  <2> SUFFICES ASSUME main.grouped, NEW t \in leases', NEW i \in main.pos..Len(main.keys),
                      slot'[t].eid = main.keys[i]
               PROVE  i = main.pos
      BY <1>1 DEF GroupLeases
  <2>1. CASE t \in leases
        BY <2>1 DEF StoreInv, GroupLeases
  <2>2. CASE t = s
    <3>1. main.keys[main.pos] = main.keys[i]
          BY <2>2 DEF Key
    <3>2. main.keys \in Rounds /\ main.pos \in DOMAIN main.keys /\ i \in DOMAIN main.keys
          BY DEF StoreInv, RoundShape, TypeOK, Main
    <3> QED
        BY <3>1, <3>2 DEF StoreAssumption
  <2> QED
      BY <2>1, <2>2
<1>3. MainLoad' /\ HelperLoad' /\ ReadAhead' /\ PrefetchPaysOff'
      BY <1>1 DEF MainLoad, HelperLoad, ReadAhead, PrefetchPaysOff
<1>4. LoadsUnleased'
      BY DEF LoadsUnleased, Threads, TypeOK
<1>5. RightWeightsUntilFault'
      BY <1>1 DEF StoreInv, RightWeightsUntilFault, RightWeights
<1> QED
    BY <1>2, <1>3, <1>4, <1>5, <1>6 DEF StoreInv

LEMMA StartRoundStep ==
  ASSUME StoreInv, TypeOK', NEW keys \in Rounds, NEW grouped \in BOOLEAN,
         StartRound(keys, grouped)
  PROVE  StoreInv'
<1>1. /\ slot' = slot /\ byExpert' = byExpert /\ load' = load /\ leases' = leases
      /\ fed' = <<>> /\ helper' = helper /\ faults' = faults /\ main.pc = "Idle"
      BY DEF StartRound, store
<1>2. /\ main'.pc = "Lookup" /\ main'.pos = 1 /\ main'.keys = keys
      BY DEF StartRound, StoreInv, TypeOK, Main
<1>3. /\ leases = {} /\ helper.pc = "Idle" /\ load["main"] = NoSlot /\ load["helper"] = NoSlot
      BY <1>1 DEF StoreInv, HeldLeases, HelperLoad, MainLoad
<1>4. PinsAreLeases' /\ SoundBytes'
      BY <1>1 DEF StoreInv, PinsAreLeases, SoundBytes
<1>5. IndexIsInverse'
      BY <1>1 DEF StoreInv, IndexIsInverse
<1>6. 1 \in 1..Len(keys)
      BY DEF StoreAssumption
<1>7. RoundShape' /\ Computed' /\ HeldLeases' /\ GroupShape' /\ GroupLeases'
      BY <1>1, <1>2, <1>3, <1>6 DEF RoundShape, Computed, HeldLeases, Holding, GroupShape, GroupLeases
<1>8. /\ MainLoad' /\ HelperLoad' /\ LoadsUnleased' /\ ReadAhead' /\ PrefetchPaysOff'
      /\ RightWeightsUntilFault'
      BY <1>1, <1>2, <1>3 DEF MainLoad, HelperLoad, LoadsUnleased, ReadAhead, PrefetchPaysOff,
         RightWeightsUntilFault, RightWeights
<1> QED
    BY <1>4, <1>5, <1>7, <1>8 DEF StoreInv

LEMMA LookupHitStep == ASSUME StoreInv, TypeOK', LookupHit PROVE StoreInv'
<1> DEFINE s == byExpert[Key]
<1>1. /\ slot' = Pinned(s) /\ byExpert' = byExpert /\ load' = load /\ leases' = leases \cup {s}
      /\ fed' = fed /\ helper' = helper /\ faults' = faults /\ main.pc = "Lookup"
      /\ main' = [main EXCEPT !.pc = "Leased", !.view = s]
      BY DEF LookupHit
<1>2. TypeOK /\ Key \in Experts
      BY <1>1, KeyIsExpert DEF StoreInv
<1>3. s \in Slots /\ slot[s].eid = Key
      BY <1>2 DEF LookupHit, Resident, TypeOK
<1> HIDE DEF s
<1>4. \A t \in Slots : /\ slot'[t].eid = slot[t].eid /\ slot'[t].bytes = slot[t].bytes
                       /\ slot'[t].pins = slot[t].pins + One(t = s)
      BY <1>1, <1>2, <1>3, PinnedEffect
<1>5. load["main"] = NoSlot /\ load["helper"] = NoSlot
      BY <1>1 DEF StoreInv, MainLoad, HelperLoad
<1>6. s \notin leases
  <2>1. CASE ~main.grouped
        BY <1>1, <2>1 DEF StoreInv, HeldLeases
  <2>2. CASE main.grouped
    <3>1. main.pos \in main.pos..Len(main.keys) /\ slot[s].eid = main.keys[main.pos]
          BY <1>1, <1>3 DEF StoreInv, RoundShape, Key
    <3> QED
        BY <1>1, <2>2, <3>1 DEF StoreInv, GroupLeases
  <2> QED
      BY <2>1, <2>2
<1>7. PinsAreLeases'
      BY <1>1, <1>4, <1>5, <1>6 DEF StoreInv, PinsAreLeases, One
<1>8. IndexIsInverse' /\ SoundBytes'
      BY <1>1, <1>2, <1>4, SameExperts DEF StoreInv, SoundBytes
<1>9. leases \in SUBSET Slots
      BY <1>2 DEF TypeOK
<1> QED
    BY <1>1, <1>3, <1>4, <1>5, <1>7, <1>8, <1>9, LeaseStep

(* A victim is not leased and not being read into. *)
LEMMA VictimIsNobodys ==
  ASSUME StoreInv, NEW s \in Victims
  PROVE  /\ s \in Slots /\ s \notin leases /\ load["main"] # s /\ load["helper"] # s
         /\ slot[s].pins = 0
<1>1. s \in Slots /\ slot[s].pins = 0
      BY VictimsAreUnpinned
<1> QED
    BY <1>1 DEF StoreInv, PinsAreLeases, One

LEMMA LookupMissStep == ASSUME StoreInv, TypeOK', LookupMiss PROVE StoreInv'
<1>1. PICK s \in Victims : BeginLoad("main", s)
      BY DEF LookupMiss
<1>2. /\ slot' = Pinned(s) /\ byExpert' = byExpert /\ load' = [load EXCEPT !["main"] = s]
      /\ leases' = leases /\ fed' = fed /\ helper' = helper /\ faults' = faults
      /\ main.pc = "Lookup" /\ ~Resident(Key)
      BY <1>1 DEF LookupMiss, BeginLoad
<1>3. /\ main'.pc = "Reading" /\ main'.pos = main.pos /\ main'.keys = main.keys
      /\ main'.grouped = main.grouped /\ Key' = Key
      BY MainFields DEF LookupMiss, StoreInv, Key
<1>4. TypeOK /\ Key \in Experts /\ s \in Slots /\ s \notin leases
      BY <1>2, KeyIsExpert, VictimIsNobodys DEF StoreInv
<1>5. \A t \in Slots : /\ slot'[t].eid = slot[t].eid /\ slot'[t].bytes = slot[t].bytes
                       /\ slot'[t].pins = slot[t].pins + One(t = s)
      BY <1>2, <1>4, PinnedEffect
<1>6. /\ load["main"] = NoSlot /\ load["helper"] = NoSlot /\ helper.pc = "Idle"
      /\ load'["main"] = s /\ load'["helper"] = NoSlot
      BY <1>2, <1>4 DEF StoreInv, MainLoad, HelperLoad, TypeOK, Threads
<1>7. PinsAreLeases'
      BY <1>2, <1>4, <1>5, <1>6 DEF StoreInv, PinsAreLeases, One
<1>8. IndexIsInverse' /\ SoundBytes' /\ ~Resident(Key)'
  <2>1. IndexIsInverse' /\ SoundBytes'
        BY <1>2, <1>4, <1>5, SameExperts DEF StoreInv, SoundBytes
  <2>2. ~Resident(Key)'
    <3> byExpert[Key] \in Slots \cup {NoSlot}
        BY <1>4 DEF TypeOK
    <3> QED
        BY <1>2, <1>3, <1>5 DEF Resident
  <2> QED
      BY <2>1, <2>2
<1>9. RoundShape' /\ Computed' /\ HeldLeases' /\ GroupShape'
      BY <1>2, <1>3 DEF StoreInv, RoundShape, Computed, HeldLeases, Holding, GroupShape
<1>10. GroupLeases'
  <2> leases \in SUBSET Slots
      BY <1>4 DEF TypeOK
  <2> QED
      BY <1>2, <1>3, <1>5 DEF StoreInv, GroupLeases
<1>11. s # NoSlot
      BY <1>4 DEF StoreAssumption
<1>12. MainLoad' /\ HelperLoad' /\ LoadsUnleased'
      BY <1>2, <1>3, <1>4, <1>6, <1>8, <1>11 DEF StoreInv, MainLoad, HelperLoad, LoadsUnleased, Threads
<1>13. RightWeightsUntilFault' /\ ReadAhead' /\ PrefetchPaysOff'
      BY <1>2, <1>3 DEF StoreInv, RightWeightsUntilFault, RightWeights, ReadAhead, PrefetchPaysOff
<1> QED
    BY <1>7, <1>8, <1>9, <1>10, <1>12, <1>13 DEF StoreInv

LEMMA LookupLoadedStep == ASSUME StoreInv, TypeOK', LookupLoaded PROVE StoreInv'
<1> DEFINE s == load["main"]
<1>1. /\ slot' = Installed(s, Key, slot[s].pins) /\ byExpert' = Reindexed(s, Key)
      /\ load' = [load EXCEPT !["main"] = NoSlot]
      /\ leases' = leases \cup {s} /\ fed' = fed /\ helper' = helper /\ faults' = faults
      /\ main.pc = "Reading" /\ main' = [main EXCEPT !.pc = "Leased", !.view = s]
      BY DEF LookupLoaded
<1>2. /\ TypeOK /\ Key \in Experts /\ ~Resident(Key) /\ s \in Slots /\ s \notin leases
      /\ load["helper"] = NoSlot /\ slot[s].pins \in Nat
  <2>1. TypeOK /\ ~Resident(Key) /\ Key \in Experts
        BY <1>1 DEF StoreInv, MainLoad
  <2>2. s \in Slots /\ s \notin leases /\ load["helper"] = NoSlot
        BY <1>1, <2>1 DEF StoreInv, MainLoad, HelperLoad, LoadsUnleased, TypeOK, Threads
  <2> QED
      BY <2>1, <2>2 DEF TypeOK, Slot
<1>3. load'["main"] = NoSlot /\ load'["helper"] = NoSlot
      BY <1>1, <1>2 DEF TypeOK, Threads
<1> HIDE DEF s
<1>4. \A t \in Slots : /\ slot'[t].eid = IF t = s THEN Key ELSE slot[t].eid
                       /\ slot'[t].bytes = IF t = s THEN Key ELSE slot[t].bytes
                       /\ slot'[t].pins = slot[t].pins
      BY <1>1, <1>2, InstalledEffect
<1>5. IndexIsInverse'
      BY <1>1, <1>2, InstallKeepsIndex DEF StoreInv
<1>6. SoundBytes'
      BY <1>1, <1>4 DEF StoreInv, SoundBytes
<1>7. PinsAreLeases'
  <2> NoSlot \notin Slots
      BY DEF StoreAssumption
  <2> QED
      BY <1>1, <1>2, <1>3, <1>4 DEF StoreInv, PinsAreLeases, One, s
<1>8. leases \in SUBSET Slots
      BY <1>2 DEF TypeOK
<1> QED
    BY <1>1, <1>2, <1>3, <1>4, <1>5, <1>6, <1>7, <1>8, LeaseStep

LEMMA LookupRefusedStep == ASSUME StoreInv, TypeOK', LookupRefused PROVE StoreInv'
<1>1. /\ slot' = slot /\ byExpert' = byExpert /\ load' = load /\ leases' = leases
      /\ fed' = fed /\ helper' = helper /\ faults' = faults /\ main.pc = "Lookup"
      /\ ~main.grouped /\ helper.pc = "Idle"
      /\ main' = Ended(IF Key \in Registered THEN "Oom" ELSE "NotFound")
      BY DEF LookupRefused, store
<1>2. leases' = {} /\ load'["main"] = NoSlot /\ load'["helper"] = NoSlot
      BY <1>1 DEF StoreInv, HeldLeases, MainLoad, HelperLoad
<1>3. PinsAreLeases' /\ IndexIsInverse' /\ SoundBytes'
      BY <1>1 DEF StoreInv, PinsAreLeases, IndexIsInverse, SoundBytes
<1>4. RightWeightsUntilFault'
      BY <1>1, MainFields DEF StoreInv, RightWeightsUntilFault, RightWeights
<1> QED
    BY <1>1, <1>2, <1>3, <1>4, EndStep

LEMMA LookupFailedStep == ASSUME StoreInv, TypeOK', LookupFailed PROVE StoreInv'
<1> DEFINE s == load["main"]
<1>1. /\ FailLoad("main", s) /\ leases' = leases /\ fed' = fed /\ helper' = helper
      /\ main.pc = "Reading" /\ ~main.grouped /\ helper.pc = "Idle" /\ main' = Ended("IoError")
      BY DEF LookupFailed
<1>2. TypeOK /\ s \in Slots /\ leases = {} /\ load["helper"] = NoSlot
      BY <1>1 DEF StoreInv, MainLoad, HelperLoad, HeldLeases, TypeOK, Threads
<1>3. "main" \in Threads
      BY DEF Threads
<1>4. \A t \in Slots : /\ slot'[t].eid = slot[t].eid
                       /\ slot'[t].pins = IF t = s THEN Less(slot[t].pins) ELSE slot[t].pins
                       /\ byExpert' = byExpert /\ load' = [load EXCEPT !["main"] = NoSlot]
                       /\ faults' # 0
      BY <1>1, <1>2, <1>3, FailEffect
<1>5. load'["main"] = NoSlot /\ load'["helper"] = NoSlot /\ byExpert' = byExpert /\ faults' # 0
      BY <1>2, <1>4 DEF TypeOK, Threads
<1>6. PinsAreLeases'
  <2> SUFFICES ASSUME NEW t \in Slots PROVE slot'[t].pins = 0
    <3> NoSlot \notin Slots
        BY DEF StoreAssumption
    <3> QED
        BY <1>1, <1>2, <1>5 DEF PinsAreLeases, One
  <2>1. slot[t].pins = One(s = t)
    <3> NoSlot \notin Slots
        BY DEF StoreAssumption
    <3> QED
        BY <1>2 DEF StoreInv, PinsAreLeases, One
  <2> QED
      BY <1>4, <2>1 DEF One, Less
<1>7. IndexIsInverse'
      BY <1>2, <1>4, <1>5, SameExperts DEF StoreInv
<1>8. SoundBytes' /\ RightWeightsUntilFault'
      BY <1>5 DEF SoundBytes, RightWeightsUntilFault
<1> QED
    BY <1>1, <1>2, <1>5, <1>6, <1>7, <1>8, EndStep

LEMMA GroupGivesUpStep == ASSUME StoreInv, TypeOK', GroupGivesUp PROVE StoreInv'
<1>1. /\ slot' = Released(leases) /\ byExpert' = byExpert /\ load' = load /\ leases' = {}
      /\ fed' = <<>> /\ helper' = helper /\ faults' = faults /\ main.grouped
      /\ main.pc \in {"Leased", "Lookup"} /\ main' = FellBack
      BY DEF GroupGivesUp
<1>2. TypeOK /\ leases \in SUBSET Slots /\ load["main"] = NoSlot /\ load["helper"] = NoSlot
      BY <1>1 DEF StoreInv, TypeOK, MainLoad, HelperLoad
<1>3. \A t \in Slots :
        /\ slot'[t].eid = slot[t].eid /\ slot'[t].bytes = slot[t].bytes
        /\ slot'[t].pins = IF t \in leases THEN Less(slot[t].pins) ELSE slot[t].pins
      BY <1>1, <1>2, ReleasedEffect
<1>4. PinsAreLeases'
  <2> SUFFICES ASSUME NEW t \in Slots PROVE slot'[t].pins = 0
    <3> NoSlot \notin Slots
        BY DEF StoreAssumption
    <3> QED
        BY <1>1, <1>2 DEF PinsAreLeases, One
  <2>1. slot[t].pins = One(t \in leases)
    <3> NoSlot \notin Slots
        BY DEF StoreAssumption
    <3> QED
        BY <1>2 DEF StoreInv, PinsAreLeases, One
  <2> QED
      BY <1>3, <2>1 DEF One, Less
<1>5. IndexIsInverse' /\ SoundBytes'
      BY <1>1, <1>2, <1>3, SameExperts DEF StoreInv, SoundBytes
<1> QED
    BY <1>1, <1>2, <1>4, <1>5, FallBackStep

LEMMA GroupReadFailedStep == ASSUME StoreInv, TypeOK', GroupReadFailed PROVE StoreInv'
<1> DEFINE s == load["main"]
           held == leases \cup {s}
<1>1. PICK b : slot' = [Released(held) EXCEPT ![s].bytes = b]
      BY DEF GroupReadFailed
<1>2. /\ byExpert' = byExpert /\ load' = [load EXCEPT !["main"] = NoSlot] /\ leases' = {}
      /\ fed' = <<>> /\ helper' = helper /\ faults' = faults + 1 /\ main.grouped
      /\ main.pc = "Reading" /\ main' = FellBack
      BY DEF GroupReadFailed
<1>3. TypeOK /\ s \in Slots /\ held \in SUBSET Slots /\ s \notin leases /\ load["helper"] = NoSlot
      BY <1>2 DEF StoreInv, TypeOK, MainLoad, HelperLoad, LoadsUnleased, Threads
<1>4. load'["main"] = NoSlot /\ load'["helper"] = NoSlot /\ faults' # 0
      BY <1>2, <1>3 DEF TypeOK, Threads
<1> HIDE DEF s, held
<1>5. \A t \in Slots :
        /\ slot'[t].eid = slot[t].eid
        /\ slot'[t].pins = IF t \in held THEN Less(slot[t].pins) ELSE slot[t].pins
  <2> TAKE t \in Slots
  <2>1. /\ Released(held)[t].eid = slot[t].eid
        /\ Released(held)[t].pins = IF t \in held THEN Less(slot[t].pins) ELSE slot[t].pins
        BY <1>3, ReleasedEffect
  <2>2. slot'[t].eid = Released(held)[t].eid /\ slot'[t].pins = Released(held)[t].pins
        BY <1>1, <1>3 DEF Released, TypeOK, Slot
  <2> QED
      BY <2>1, <2>2
<1>6. PinsAreLeases'
  <2> SUFFICES ASSUME NEW t \in Slots PROVE slot'[t].pins = 0
    <3> NoSlot \notin Slots
        BY DEF StoreAssumption
    <3> QED
        BY <1>2, <1>4 DEF PinsAreLeases, One
  <2>1. slot[t].pins = One(t \in held)
    <3> NoSlot \notin Slots
        BY DEF StoreAssumption
    <3> QED
        BY <1>3 DEF StoreInv, PinsAreLeases, One, held, s
  <2> QED
      BY <1>5, <2>1 DEF One, Less
<1>7. IndexIsInverse'
      BY <1>2, <1>3, <1>5, SameExperts DEF StoreInv
<1>8. SoundBytes'
      BY <1>4 DEF SoundBytes
<1> QED
    BY <1>2, <1>4, <1>6, <1>7, <1>8, FallBackStep

LEMMA SpawnPrefetchStep == ASSUME StoreInv, TypeOK', SpawnPrefetch PROVE StoreInv'
<1>1. /\ slot' = slot /\ byExpert' = byExpert /\ load' = load /\ leases' = leases
      /\ fed' = fed /\ faults' = faults /\ main.pc = "Leased" /\ ~main.grouped /\ Pipe /\ More
      /\ helper' = [pc |-> "Spawned", eid |-> main.keys[main.pos + 1], loaded |-> FALSE]
      BY DEF SpawnPrefetch, store
<1>2. /\ main'.pc = "Using" /\ main'.pos = main.pos /\ main'.keys = main.keys
      /\ ~main'.grouped /\ main'.view = main.view /\ Key' = Key
      BY <1>1, MainFields DEF SpawnPrefetch, StoreInv, Key
<1>3. PinsAreLeases' /\ IndexIsInverse' /\ SoundBytes' /\ RightWeightsUntilFault'
      BY <1>1, <1>2 DEF StoreInv, PinsAreLeases, IndexIsInverse, SoundBytes,
                        RightWeightsUntilFault, RightWeights
<1>4. RoundShape' /\ Computed' /\ HeldLeases' /\ GroupShape' /\ GroupLeases'
      BY <1>1, <1>2 DEF StoreInv, RoundShape, Computed, HeldLeases, Holding, GroupShape, GroupLeases
<1>5. MainLoad' /\ HelperLoad' /\ LoadsUnleased'
  <2>1. main.keys[main.pos + 1] \in Experts /\ load["helper"] = NoSlot
        BY <1>1, KeyIsExpert DEF StoreInv, HelperLoad, SpawnPrefetch
  <2>2. More'
        BY <1>1, <1>2 DEF More
  <2>3. HelperLoad'
        BY <1>1, <1>2, <2>1, <2>2 DEF HelperLoad
  <2> QED
      BY <1>1, <1>2, <2>3 DEF StoreInv, MainLoad, LoadsUnleased
<1>6. ReadAhead' /\ PrefetchPaysOff'
      BY <1>1, <1>2 DEF ReadAhead, PrefetchPaysOff
<1> QED
    BY <1>3, <1>4, <1>5, <1>6 DEF StoreInv

LEMMA UseStep == ASSUME StoreInv, TypeOK', Use PROVE StoreInv'
<1>1. /\ slot' = slot /\ byExpert' = byExpert /\ load' = load /\ leases' = leases
      /\ helper' = helper /\ faults' = faults /\ fed' = Append(fed, Content(main.view))
      /\ main.pc \in {"Leased", "Using"}
      BY DEF Use, store
<1>2. TypeOK /\ main.view \in leases /\ slot[main.view].eid = Key /\ leases \in SUBSET Slots
      BY <1>1 DEF StoreInv, HeldLeases, Holding, TypeOK
<1>3. /\ main'.keys = main.keys /\ main'.grouped = main.grouped /\ main'.view = main.view
      /\ main'.pc = IF main.grouped /\ More THEN "Lookup" ELSE "Release"
      /\ main'.pos = IF main.grouped /\ More THEN main.pos + 1 ELSE main.pos
      BY <1>2, MainFields DEF Use
<1>4. PinsAreLeases' /\ IndexIsInverse' /\ SoundBytes'
      BY <1>1 DEF StoreInv, PinsAreLeases, IndexIsInverse, SoundBytes
<1>5. /\ main.keys \in Rounds /\ main.keys \in Seq(Experts) /\ fed \in Seq(Bytes)
      /\ main.pos \in 1..Len(main.keys) /\ Len(fed) = main.pos - 1
      BY <1>1, <1>2, KeyIsExpert DEF StoreInv, RoundShape, Computed, TypeOK
<1>6. RoundShape' /\ Computed'
      BY <1>1, <1>3, <1>5 DEF RoundShape, Computed, More
<1>7. HeldLeases' /\ GroupShape'
      BY <1>1, <1>3, <1>5 DEF StoreInv, HeldLeases, Holding, GroupShape, More
<1>8. GroupLeases'
  <2> SUFFICES ASSUME main.grouped, More, NEW t \in leases,
                      NEW i \in main.pos + 1..Len(main.keys), slot[t].eid = main.keys[i]
               PROVE  FALSE
      BY <1>1, <1>3 DEF GroupLeases
  <2>1. main.pc = "Leased" /\ i \in main.pos..Len(main.keys)
        BY <1>1, <1>5 DEF StoreInv, GroupShape
  <2>2. i = main.pos
        BY <2>1 DEF StoreInv, GroupLeases
  <2> QED
      BY <1>5, <2>2
<1>9. MainLoad' /\ HelperLoad' /\ LoadsUnleased'
  <2>1. MainLoad' /\ LoadsUnleased'
        BY <1>1, <1>3 DEF StoreInv, MainLoad, LoadsUnleased
  <2>2. helper.pc # "Idle" => ~main.grouped /\ main'.pc = "Release"
        BY <1>1, <1>3 DEF StoreInv, HelperLoad
  <2>3. Resident(helper.eid)' = Resident(helper.eid)
        BY <1>1 DEF Resident
  <2>4. HelperLoad'
    <3> (helper.pc # "Idle" => main'.pos = main.pos) /\ main'.keys = main.keys
        BY <1>3, <2>2
    <3> helper.pc # "Idle" => More' = More
        BY DEF More
    <3> QED
        BY <1>1, <1>3, <2>2, <2>3 DEF StoreInv, HelperLoad
  <2> QED
      BY <2>1, <2>4
<1>10. RightWeightsUntilFault'
  <2> SUFFICES ASSUME faults = 0, NEW i \in DOMAIN fed' PROVE fed'[i] = main.keys[i]
      BY <1>1, <1>3 DEF RightWeightsUntilFault, RightWeights
  <2>1. \A t \in Threads : load[t] # main.view
        BY <1>2 DEF StoreInv, LoadsUnleased
  <2>2. Content(main.view) = Key
        BY <1>2, <2>1 DEF Content, StoreInv, SoundBytes
  <2>3. i \in DOMAIN fed \/ i = main.pos
        BY <1>1, <1>5
  <2>4. CASE i \in DOMAIN fed
        BY <1>1, <1>5, <2>4 DEF StoreInv, RightWeightsUntilFault, RightWeights
  <2>5. CASE i = main.pos
        BY <1>1, <1>5, <2>2, <2>5 DEF Key
  <2> QED
      BY <2>3, <2>4, <2>5
<1>11. ReadAhead'
  <2>1. CASE main.pc = "Using"
    <3>1. ~main.grouped /\ main'.pos = main.pos /\ main'.pc = "Release"
          BY <1>3, <2>1 DEF StoreInv, GroupShape
    <3>2. Resident(helper.eid)' = Resident(helper.eid) /\ More' = More
          BY <1>1, <1>3, <3>1 DEF Resident, More
    <3> QED
        BY <1>1, <1>3, <2>1, <3>1, <3>2 DEF StoreInv, ReadAhead
  <2>2. CASE main.pc = "Leased"
    <3>1. main.grouped \/ ~Pipe \/ ~More
          BY <2>2 DEF Use
    <3> QED
        BY <1>3, <3>1 DEF ReadAhead, More
  <2> QED
      BY <1>1, <2>1, <2>2
<1>12. PrefetchPaysOff'
      BY <1>3 DEF PrefetchPaysOff
<1> QED
    BY <1>4, <1>6, <1>7, <1>8, <1>9, <1>10, <1>11, <1>12 DEF StoreInv

LEMMA JoinStep == ASSUME StoreInv, TypeOK', Join PROVE StoreInv'
<1>1. /\ slot' = slot /\ byExpert' = byExpert /\ load' = load /\ leases' = leases
      /\ fed' = fed /\ helper' = helper /\ faults' = faults /\ main.pc = "Join"
      /\ helper.pc = "Idle" /\ main' = IF status = "Ok" THEN Advanced ELSE Ended(status)
      BY DEF Join, store
<1>2. leases = {} /\ ~main.grouped /\ load["main"] = NoSlot /\ load["helper"] = NoSlot
      BY <1>1 DEF StoreInv, HeldLeases, GroupShape, MainLoad, HelperLoad
<1>3. PinsAreLeases' /\ IndexIsInverse' /\ SoundBytes'
      BY <1>1 DEF StoreInv, PinsAreLeases, IndexIsInverse, SoundBytes
<1>4. CASE status = "Ok"
      BY <1>1, <1>2, <1>3, <1>4, AdvanceStep
<1>5. CASE status # "Ok"
  <2> RightWeightsUntilFault'
      BY <1>1, <1>5, MainFields DEF StoreInv, RightWeightsUntilFault, RightWeights
  <2> QED
      BY <1>1, <1>2, <1>3, <1>5, EndStep
<1> QED
    BY <1>4, <1>5

(* The helper's steps: the loop stands still. *)
LEMMA HelperStepShape ==
  ASSUME StoreInv, TypeOK', main' = main, leases' = leases, fed' = fed, helper.pc # "Idle",
         \A t \in leases : slot'[t].eid = slot[t].eid, faults' = faults \/ faults' # 0
  PROVE  /\ RoundShape' /\ Computed' /\ HeldLeases' /\ GroupShape' /\ GroupLeases'
         /\ RightWeightsUntilFault' /\ PrefetchPaysOff'
<1>1. main.pc \in {"Using", "Release", "Join"} /\ ~main.grouped
      BY DEF StoreInv, HelperLoad
<1>2. RoundShape' /\ Computed' /\ GroupShape' /\ GroupLeases' /\ PrefetchPaysOff'
      BY <1>1 DEF StoreInv, RoundShape, Computed, GroupShape, GroupLeases, PrefetchPaysOff
<1>3. Key' = Key
      BY DEF Key
<1>4. HeldLeases'
      BY <1>1, <1>3 DEF StoreInv, HeldLeases, Holding
<1>5. RightWeightsUntilFault'
      BY DEF StoreInv, RightWeightsUntilFault, RightWeights
<1> QED
    BY <1>2, <1>4, <1>5

LEMMA PrefetchSkipsStep == ASSUME StoreInv, TypeOK', PrefetchSkips PROVE StoreInv'
<1>1. /\ slot' = slot /\ byExpert' = byExpert /\ load' = load /\ leases' = leases
      /\ main' = main /\ fed' = fed /\ faults' = faults /\ helper.pc = "Spawned"
      /\ helper' = HelperIdle(FALSE)
      BY DEF PrefetchSkips
<1>2. helper'.pc = "Idle" /\ ~helper'.loaded
      BY <1>1 DEF HelperIdle, StoreInv, TypeOK, Helper
<1>3. /\ RoundShape' /\ Computed' /\ HeldLeases' /\ GroupShape' /\ GroupLeases'
      /\ RightWeightsUntilFault' /\ PrefetchPaysOff'
      BY <1>1, HelperStepShape
<1>4. PinsAreLeases' /\ IndexIsInverse' /\ SoundBytes'
      BY <1>1 DEF StoreInv, PinsAreLeases, IndexIsInverse, SoundBytes
<1>5. Resident(Key)' = Resident(Key) /\ Key' = Key
      BY <1>1 DEF Resident, Key
<1>6. MainLoad' /\ HelperLoad' /\ LoadsUnleased' /\ ReadAhead'
      BY <1>1, <1>2, <1>5 DEF StoreInv, MainLoad, HelperLoad, LoadsUnleased, ReadAhead
<1> QED
    BY <1>3, <1>4, <1>6 DEF StoreInv

LEMMA PrefetchBeginsStep == ASSUME StoreInv, TypeOK', PrefetchBegins PROVE StoreInv'
<1>1. PICK s \in Victims : BeginLoad("helper", s)
      BY DEF PrefetchBegins
<1>2. /\ slot' = Pinned(s) /\ byExpert' = byExpert /\ load' = [load EXCEPT !["helper"] = s]
      /\ leases' = leases /\ fed' = fed /\ main' = main /\ faults' = faults
      /\ helper.pc = "Spawned" /\ ~Resident(helper.eid) /\ helper' = [helper EXCEPT !.pc = "Reading"]
      BY <1>1 DEF PrefetchBegins, BeginLoad
<1>3. helper'.pc = "Reading" /\ helper'.eid = helper.eid /\ helper'.loaded = helper.loaded
      BY <1>2 DEF StoreInv, TypeOK, Helper
<1>4. /\ TypeOK /\ helper.eid \in Experts /\ s \in Slots /\ s \notin leases /\ s # NoSlot
      /\ main.pc \in {"Using", "Release", "Join"} /\ ~main.grouped /\ Pipe
      BY <1>2, VictimIsNobodys DEF StoreInv, HelperLoad, StoreAssumption
<1>5. \A t \in Slots : /\ slot'[t].eid = slot[t].eid /\ slot'[t].bytes = slot[t].bytes
                       /\ slot'[t].pins = slot[t].pins + One(t = s)
      BY <1>2, <1>4, PinnedEffect
<1>6. /\ load["main"] = NoSlot /\ load["helper"] = NoSlot
      /\ load'["helper"] = s /\ load'["main"] = NoSlot
      BY <1>2, <1>4 DEF StoreInv, MainLoad, HelperLoad, TypeOK, Threads
<1>7. PinsAreLeases'
      BY <1>2, <1>4, <1>5, <1>6 DEF StoreInv, PinsAreLeases, One
<1>8. IndexIsInverse' /\ SoundBytes'
      BY <1>2, <1>4, <1>5, SameExperts DEF StoreInv, SoundBytes
<1>9. ~Resident(helper.eid)'
  <2> byExpert[helper.eid] \in Slots \cup {NoSlot}
      BY <1>4 DEF TypeOK
  <2> QED
      BY <1>2, <1>3, <1>5 DEF Resident
<1>10. leases \in SUBSET Slots
      BY <1>4 DEF TypeOK
<1>11. /\ RoundShape' /\ Computed' /\ HeldLeases' /\ GroupShape' /\ GroupLeases'
       /\ RightWeightsUntilFault' /\ PrefetchPaysOff'
       BY <1>2, <1>5, <1>10, HelperStepShape
<1>12. MainLoad' /\ HelperLoad' /\ LoadsUnleased'
  <2>1. More' = More /\ More /\ helper.eid = main.keys[main.pos + 1]
        BY <1>2 DEF StoreInv, HelperLoad, More
  <2>2. HelperLoad'
        BY <1>2, <1>3, <1>4, <1>6, <1>9, <2>1 DEF HelperLoad
  <2> QED
      BY <1>2, <1>4, <1>6, <2>2 DEF StoreInv, MainLoad, LoadsUnleased, Threads
<1>13. ReadAhead'
  <2>1. More' = More
        BY <1>2 DEF More
  <2>2. ~(helper.loaded /\ More)
        BY <1>2, <1>4 DEF StoreInv, ReadAhead
  <2> QED
      BY <1>2, <1>3, <2>1, <2>2 DEF ReadAhead
<1> QED
    BY <1>7, <1>8, <1>11, <1>12, <1>13 DEF StoreInv

LEMMA PrefetchLoadedStep == ASSUME StoreInv, TypeOK', PrefetchLoaded PROVE StoreInv'
<1> DEFINE s == load["helper"]
<1>0. PICK e \in Experts : e = helper.eid
      BY DEF PrefetchLoaded, StoreInv, HelperLoad
<1>1. /\ slot' = Installed(s, e, Less(slot[s].pins)) /\ byExpert' = Reindexed(s, e)
      /\ load' = [load EXCEPT !["helper"] = NoSlot]
      /\ leases' = leases /\ fed' = fed /\ main' = main /\ faults' = faults
      /\ helper.pc = "Reading" /\ helper' = HelperIdle(TRUE)
      BY <1>0 DEF PrefetchLoaded
<1>2. /\ TypeOK /\ e \in Experts /\ ~Resident(e) /\ s \in Slots /\ s \notin leases
      /\ load["main"] = NoSlot /\ main.pc \in {"Using", "Release", "Join"} /\ ~main.grouped
  <2>1. TypeOK /\ e \in Experts /\ ~Resident(e)
        /\ main.pc \in {"Using", "Release", "Join"} /\ ~main.grouped
        BY <1>0, <1>1 DEF StoreInv, HelperLoad
  <2> QED
      BY <1>1, <2>1 DEF StoreInv, MainLoad, HelperLoad, LoadsUnleased, TypeOK, Threads
<1>3. helper'.pc = "Idle" /\ helper'.eid = e
      BY <1>0, <1>1 DEF HelperIdle, StoreInv, TypeOK, Helper
<1>4. load'["main"] = NoSlot /\ load'["helper"] = NoSlot
      BY <1>1, <1>2 DEF TypeOK, Threads
<1>5. Less(slot[s].pins) \in Nat /\ leases \in SUBSET Slots
      BY <1>2 DEF TypeOK, Slot, Less
<1> HIDE DEF s
<1>6. \A t \in Slots :
        /\ slot'[t].eid = IF t = s THEN e ELSE slot[t].eid
        /\ slot'[t].bytes = IF t = s THEN e ELSE slot[t].bytes
        /\ slot'[t].pins = IF t = s THEN Less(slot[s].pins) ELSE slot[t].pins
      BY <1>1, <1>2, <1>5, InstalledEffect
<1>7. IndexIsInverse' /\ Resident(e)'
      BY <1>1, <1>2, <1>5, InstallKeepsIndex DEF StoreInv
<1>8. SoundBytes'
      BY <1>1, <1>6 DEF StoreInv, SoundBytes
<1>9. PinsAreLeases'
  <2> SUFFICES ASSUME NEW t \in Slots PROVE slot'[t].pins = One(t \in leases)
    <3> NoSlot \notin Slots
        BY DEF StoreAssumption
    <3> QED
        BY <1>1, <1>4 DEF PinsAreLeases, One
  <2>1. slot[t].pins = One(s = t) + One(t \in leases)
    <3> NoSlot \notin Slots
        BY DEF StoreAssumption
    <3> QED
        BY <1>2 DEF StoreInv, PinsAreLeases, One, s
  <2> QED
      BY <1>2, <1>6, <2>1 DEF One, Less
<1>10. \A t \in leases : slot'[t].eid = slot[t].eid
       BY <1>2, <1>5, <1>6
<1>11. /\ RoundShape' /\ Computed' /\ HeldLeases' /\ GroupShape' /\ GroupLeases'
       /\ RightWeightsUntilFault' /\ PrefetchPaysOff'
       BY <1>1, <1>10, HelperStepShape
<1>12. MainLoad' /\ HelperLoad' /\ LoadsUnleased'
  <2>1. HelperLoad'
        BY <1>3, <1>4 DEF HelperLoad
  <2>2. NoSlot \notin leases
        BY <1>5 DEF StoreAssumption
  <2> QED
      BY <1>1, <1>2, <1>4, <2>1, <2>2 DEF MainLoad, LoadsUnleased, Threads
<1>13. ReadAhead'
  <2>1. More => e = main.keys[main.pos + 1]
        BY <1>0, <1>1 DEF StoreInv, HelperLoad
  <2>2. Resident(helper.eid)'
        BY <1>3, <1>7 DEF Resident
  <2> QED
      BY <1>1, <1>3, <2>1, <2>2 DEF ReadAhead, More
<1> QED
    BY <1>7, <1>8, <1>9, <1>11, <1>12, <1>13 DEF StoreInv

LEMMA PrefetchFailedStep == ASSUME StoreInv, TypeOK', PrefetchFailed PROVE StoreInv'
<1> DEFINE s == load["helper"]
<1>1. /\ FailLoad("helper", s) /\ leases' = leases /\ fed' = fed /\ main' = main
      /\ helper.pc = "Reading" /\ helper' = HelperIdle(FALSE)
      BY DEF PrefetchFailed
<1>2. /\ TypeOK /\ s \in Slots /\ s \notin leases /\ load["main"] = NoSlot
      /\ main.pc \in {"Using", "Release", "Join"} /\ ~main.grouped /\ leases \in SUBSET Slots
  <2>1. TypeOK /\ main.pc \in {"Using", "Release", "Join"} /\ ~main.grouped
        BY <1>1 DEF StoreInv, HelperLoad
  <2> QED
      BY <1>1, <2>1 DEF StoreInv, MainLoad, HelperLoad, LoadsUnleased, TypeOK, Threads
<1>3. helper'.pc = "Idle" /\ ~helper'.loaded
      BY <1>1 DEF HelperIdle, StoreInv, TypeOK, Helper
<1>4. "helper" \in Threads
      BY DEF Threads
<1>5. \A t \in Slots : /\ slot'[t].eid = slot[t].eid
                       /\ slot'[t].pins = IF t = s THEN Less(slot[t].pins) ELSE slot[t].pins
                       /\ byExpert' = byExpert /\ load' = [load EXCEPT !["helper"] = NoSlot]
                       /\ faults' # 0
      BY <1>1, <1>2, <1>4, FailEffect
<1>6. load'["main"] = NoSlot /\ load'["helper"] = NoSlot /\ byExpert' = byExpert /\ faults' # 0
      BY <1>2, <1>5 DEF TypeOK, Threads
<1>7. PinsAreLeases'
  <2> SUFFICES ASSUME NEW t \in Slots PROVE slot'[t].pins = One(t \in leases)
    <3> NoSlot \notin Slots
        BY DEF StoreAssumption
    <3> QED
        BY <1>1, <1>6 DEF PinsAreLeases, One
  <2>1. slot[t].pins = One(s = t) + One(t \in leases)
    <3> NoSlot \notin Slots
        BY DEF StoreAssumption
    <3> QED
        BY <1>2 DEF StoreInv, PinsAreLeases, One
  <2> QED
      BY <1>2, <1>5, <2>1 DEF One, Less
<1>8. IndexIsInverse' /\ SoundBytes'
      BY <1>2, <1>5, <1>6, SameExperts DEF StoreInv, SoundBytes
<1>9. /\ RoundShape' /\ Computed' /\ HeldLeases' /\ GroupShape' /\ GroupLeases'
      /\ RightWeightsUntilFault' /\ PrefetchPaysOff'
      BY <1>1, <1>2, <1>5, <1>6, HelperStepShape
<1>10. MainLoad' /\ HelperLoad' /\ LoadsUnleased' /\ ReadAhead'
       BY <1>1, <1>2, <1>3, <1>6 DEF MainLoad, HelperLoad, LoadsUnleased, ReadAhead, Threads
<1> QED
    BY <1>7, <1>8, <1>9, <1>10 DEF StoreInv

LEMMA StutterStep == ASSUME StoreInv, TypeOK', UNCHANGED vars PROVE StoreInv'
<1> USE DEF vars, store
<1>1. PinsAreLeases' /\ IndexIsInverse' /\ SoundBytes' /\ RightWeightsUntilFault'
      BY DEF StoreInv, PinsAreLeases, IndexIsInverse, SoundBytes, RightWeightsUntilFault,
             RightWeights
<1>2. RoundShape' /\ Computed' /\ HeldLeases' /\ GroupShape' /\ GroupLeases'
  <2> Key' = Key
      BY DEF Key
  <2> QED
      BY DEF StoreInv, RoundShape, Computed, HeldLeases, Holding, GroupShape, GroupLeases
<1>3. (\A e : Resident(e)' = Resident(e)) /\ Key' = Key /\ More' = More /\ Resident(Key)' = Resident(Key)
      /\ Resident(helper.eid)' = Resident(helper.eid)
      BY DEF Resident, Key, More
<1>4. MainLoad' /\ HelperLoad' /\ LoadsUnleased' /\ ReadAhead' /\ PrefetchPaysOff'
      BY <1>3 DEF StoreInv, MainLoad, HelperLoad, LoadsUnleased, ReadAhead, PrefetchPaysOff
<1> QED
    BY <1>1, <1>2, <1>4 DEF StoreInv

LEMMA StoreStep == StoreInv /\ [Next]_vars => StoreInv'
<1> SUFFICES ASSUME StoreInv, [Next]_vars PROVE StoreInv'
    OBVIOUS
<1>1. TypeOK'
      BY TypeStep
<1>2. CASE MainStep
      BY <1>1, <1>2, LookupHitStep, LookupMissStep, LookupLoadedStep, LookupRefusedStep,
         LookupFailedStep, GroupGivesUpStep, GroupReadFailedStep, SpawnPrefetchStep, UseStep,
         ReleaseStep, JoinStep DEF MainStep
<1>3. CASE HelperStep
      BY <1>1, <1>3, PrefetchSkipsStep, PrefetchBeginsStep, PrefetchLoadedStep, PrefetchFailedStep
         DEF HelperStep
<1> QED
    BY <1>1, <1>2, <1>3, StartRoundStep, StutterStep DEF Next
-----------------------------------------------------------------------------
(* The invariant holds in every reachable state, for any numbers of experts,  *)
(* slots and failing reads: the base of every result below.                   *)
THEOREM Invariant == Spec => []StoreInv
BY InitEstablishes, StoreStep, PTL DEF Spec

(* Every variable of the store keeps its type. *)
THEOREM TypeCorrect == Spec => []TypeOK
<1> StoreInv => TypeOK
    BY DEF StoreInv
<1> QED
    BY Invariant, PTL

(* No pin of a slot leaks or is lost, whichever reads fail on either thread.  *)
THEOREM NoPinLeaks == Spec => []PinsAreLeases
<1> StoreInv => PinsAreLeases
    BY DEF StoreInv
<1> QED
    BY Invariant, PTL

(* by_expert and the slots stay inverse, though they are written unlocked.    *)
THEOREM IndexIsConsistent == Spec => []IndexIsInverse
<1> StoreInv => IndexIsInverse
    BY DEF StoreInv
<1> QED
    BY Invariant, PTL

(* The helper is in load_into only while the loop stays out of the store.     *)
THEOREM LoadsAreAlone == Spec => []UnlockedLoadIsAlone
<1> StoreInv => UnlockedLoadIsAlone
    BY DEF StoreInv, HelperLoad, UnlockedLoadIsAlone
<1> QED
    BY Invariant, PTL

(* Until a read fails, every round computes with its own experts' weights.    *)
THEOREM WeightsAreRight == Spec => []RightWeightsUntilFault
<1> StoreInv => RightWeightsUntilFault
    BY DEF StoreInv
<1> QED
    BY Invariant, PTL

(* What was read ahead is a hit when its turn comes. *)
THEOREM ReadAheadHits == Spec => []PrefetchPaysOff
<1> StoreInv => PrefetchPaysOff
    BY DEF StoreInv
<1> QED
    BY Invariant, PTL
-----------------------------------------------------------------------------
(* Steps and the slots that stay leased through them. *)
LEMMA StableStep ==
  ASSUME StoreInv, StoreInv', [Next]_vars, NEW s \in leases, s \in leases'
  PROVE  /\ slot'[s].eid = slot[s].eid /\ slot'[s].bytes = slot[s].bytes
         /\ Content(s) = Content(s)'
<1>1. TypeOK /\ s \in Slots /\ "main" \in Threads /\ "helper" \in Threads
      BY DEF StoreInv, TypeOK, Threads
<1>2. load["main"] # s /\ load["helper"] # s /\ load'["main"] # s /\ load'["helper"] # s
      BY DEF StoreInv, LoadsUnleased, Threads
<1> DEFINE Kept == slot'[s].eid = slot[s].eid /\ slot'[s].bytes = slot[s].bytes
<1>3. Kept
  <2>1. ASSUME NEW x \in Slots, slot' = Pinned(x) PROVE Kept
        BY <1>1, <2>1, PinnedEffect
  <2>2. ASSUME NEW x \in Slots, NEW e \in Experts, NEW n \in Nat, slot' = Installed(x, e, n), x # s
        PROVE Kept
        BY <1>1, <2>2, InstalledEffect
  <2>3. ASSUME NEW th \in Threads, load[th] \in Slots, FailLoad(th, load[th]), load[th] # s
        PROVE Kept
        BY <1>1, <2>3, FailEffect
  <2>4. CASE LookupHit
    <3> byExpert[Key] \in Slots
        BY <1>1, <2>4, KeyIsExpert DEF LookupHit, Resident, StoreInv, TypeOK
    <3> QED
        BY <2>1, <2>4 DEF LookupHit
  <2>5. CASE LookupMiss \/ PrefetchBegins
        BY <2>1, <2>5, VictimsAreUnpinned DEF LookupMiss, PrefetchBegins, BeginLoad
  <2>6. CASE LookupLoaded
    <3> load["main"] \in Slots /\ Key \in Experts
        BY <1>1, <2>6 DEF LookupLoaded, StoreInv, MainLoad, TypeOK
    <3> slot[load["main"]].pins \in Nat
        BY <1>1 DEF TypeOK, Slot
    <3> QED
        BY <1>2, <2>2, <2>6 DEF LookupLoaded
  <2>7. CASE LookupFailed
    <3> load["main"] \in Slots
        BY <1>1, <2>7 DEF LookupFailed, StoreInv, MainLoad, TypeOK
    <3> QED
        BY <1>1, <1>2, <2>3, <2>7 DEF LookupFailed
  <2>8. CASE PrefetchLoaded
    <3> load["helper"] \in Slots /\ helper.eid \in Experts
        BY <1>1, <2>8 DEF PrefetchLoaded, StoreInv, HelperLoad, TypeOK
    <3> Less(slot[load["helper"]].pins) \in Nat
        BY <1>1 DEF TypeOK, Slot, Less
    <3> QED
        BY <1>2, <2>2, <2>8 DEF PrefetchLoaded
  <2>9. CASE PrefetchFailed
    <3> load["helper"] \in Slots
        BY <1>1, <2>9 DEF PrefetchFailed, StoreInv, HelperLoad, TypeOK
    <3> QED
        BY <1>1, <1>2, <2>3, <2>9 DEF PrefetchFailed
  <2>10. CASE GroupGivesUp \/ GroupReadFailed \/ Release
         BY <2>10 DEF GroupGivesUp, GroupReadFailed, Release
  <2>11. CASE LookupRefused \/ SpawnPrefetch \/ Use \/ Join \/ PrefetchSkips \/ UNCHANGED vars
         BY <2>11 DEF LookupRefused, SpawnPrefetch, Use, Join, PrefetchSkips, vars, store
  <2>12. ASSUME NEW keys \in Rounds, NEW grouped \in BOOLEAN, StartRound(keys, grouped)
         PROVE Kept
         BY <2>12 DEF StartRound, store
  <2> QED
      BY <2>4, <2>5, <2>6, <2>7, <2>8, <2>9, <2>10, <2>11, <2>12 DEF Next, MainStep, HelperStep
<1> QED
    BY <1>2, <1>3 DEF Content, Threads

(* The memory a caller holds a lease on is never overwritten under it.        *)
THEOREM LeasesProtect == Spec => LeasedSlotIsStable
<1>1. StoreInv /\ StoreInv' /\ [Next]_vars => [LeasesKept]_vars
      BY StableStep DEF LeasesKept
<1> QED
    BY <1>1, Invariant, PTL DEF Spec, LeasedSlotIsStable
-----------------------------------------------------------------------------
(* used and clock_: the slots are ordered by their last use. *)
UseOrder == /\ \A s \in Slots : s \notin older[s]
            /\ \A s, t \in Slots : t \in older[s] => older[t] \subseteq older[s]

(* Making a slot the one used last keeps the order. *)
LEMMA TouchKeepsOrder ==
  ASSUME TypeOK, UseOrder, NEW s \in Slots, older' = Touched(s)
  PROVE  UseOrder'
<1>1. older \in [Slots -> SUBSET Slots]
      BY DEF TypeOK
<1>2. \A t \in Slots : older'[t] = IF t = s THEN Slots \ {s} ELSE older[t] \ {s}
      BY DEF Touched
<1>3. \A t \in Slots : t \notin older'[t]
      BY <1>2 DEF UseOrder
<1>4. ASSUME NEW t \in Slots, NEW u \in Slots, u \in older'[t]
      PROVE  older'[u] \subseteq older'[t]
  <2>1. u # s /\ older'[u] = older[u] \ {s}
        BY <1>2, <1>4
  <2>2. CASE t = s
        BY <1>1, <1>2, <2>1, <2>2
  <2>3. CASE t # s
    <3>1. u \in older[t] /\ older'[t] = older[t] \ {s}
          BY <1>2, <1>4, <2>3
    <3> QED
        BY <2>1, <3>1 DEF UseOrder
  <2> QED
      BY <2>2, <2>3
<1> QED
    BY <1>3, <1>4 DEF UseOrder

LEMMA OrderStep == StoreInv /\ UseOrder /\ [Next]_vars => UseOrder'
<1> SUFFICES ASSUME StoreInv, UseOrder, [Next]_vars PROVE UseOrder'
    OBVIOUS
<1>1. TypeOK /\ byExpert \in [Experts -> Slots \cup {NoSlot}] /\ RoundShape
      BY DEF StoreInv, TypeOK
<1>2. older' = older => UseOrder'
      BY DEF UseOrder
<1>3. ASSUME NEW s, older' = Touched(s), s \in Slots PROVE UseOrder'
      BY <1>1, <1>3, TouchKeepsOrder
<1>4. CASE LookupHit
  <2>1. byExpert[Key] \in Slots
        BY <1>1, <1>4, KeyIsExpert DEF LookupHit, Resident
  <2> QED
      BY <1>3, <1>4, <2>1 DEF LookupHit
<1>5. CASE LookupLoaded
  <2>1. load["main"] \in Slots
        BY <1>5 DEF LookupLoaded, StoreInv, MainLoad, TypeOK, Threads
  <2> QED
      BY <1>3, <1>5, <2>1 DEF LookupLoaded
<1>6. CASE PrefetchLoaded
  <2>1. load["helper"] \in Slots
        BY <1>6 DEF PrefetchLoaded, StoreInv, HelperLoad, TypeOK, Threads
  <2> QED
      BY <1>3, <1>6, <2>1 DEF PrefetchLoaded
<1>7. CASE PrefetchSkips
  <2>1. helper.pc # "Idle" => helper.eid \in Experts
        BY DEF StoreInv, HelperLoad
  <2>2. older' = older \/ (older' = Touched(byExpert[helper.eid]) /\ byExpert[helper.eid] \in Slots)
        BY <1>1, <1>7, <2>1 DEF PrefetchSkips, Resident
  <2> QED
      BY <1>2, <1>3, <2>2
<1>8. CASE \/ LookupMiss \/ LookupRefused \/ LookupFailed \/ GroupGivesUp \/ GroupReadFailed
           \/ SpawnPrefetch \/ Use \/ Release \/ Join \/ PrefetchBegins \/ PrefetchFailed
           \/ UNCHANGED vars
      BY <1>2, <1>8 DEF LookupMiss, LookupRefused, LookupFailed, GroupGivesUp, GroupReadFailed,
         SpawnPrefetch, Use, Release, Join, PrefetchBegins, PrefetchFailed, BeginLoad, FailLoad,
         vars, store
<1>9. ASSUME NEW keys \in Rounds, NEW grouped \in BOOLEAN, StartRound(keys, grouped)
      PROVE  UseOrder'
      BY <1>2, <1>9 DEF StartRound, store
<1> QED
    BY <1>4, <1>5, <1>6, <1>7, <1>8, <1>9 DEF Next, MainStep, HelperStep

(* Some slot of a set of them was used less recently than every other in it:  *)
(* the one with the fewest slots before it.                                  *)
LEMMA SomeSlotIsOldest ==
  ASSUME TypeOK, UseOrder, NEW S \in SUBSET Slots, S # {}
  PROVE  \E s \in S : older[s] \cap S = {}
<1> DEFINE Sizes == {Cardinality(older[s]) : s \in S}
<1>1. \A s \in Slots : older[s] \in SUBSET Slots
      BY DEF TypeOK
<1>2. \A s \in Slots : IsFiniteSet(older[s]) /\ Cardinality(older[s]) \in Nat
      BY <1>1, FS_Subset, FS_CardinalityType
<1>3. Sizes \subseteq Nat /\ Sizes # {}
      BY <1>2
<1>4. PICK n \in Sizes : \A m \in Sizes : ~(<<m, n>> \in OpToRel(<, Nat))
      BY <1>3, NatLessThanWellFounded, WFMin
<1>5. \A m \in Sizes : n <= m
  <2>1. \A m, k \in Nat : m < k => <<m, k>> \in OpToRel(<, Nat)
        BY DEF OpToRel
  <2> HIDE DEF Sizes
  <2>2. \A m \in Sizes : ~(m < n)
        BY <1>3, <1>4, <2>1
  <2>3. n \in Nat /\ \A m \in Sizes : m \in Nat
        BY <1>3, <1>4
  <2> QED
      BY <2>2, <2>3
<1>6. PICK s \in S : n = Cardinality(older[s])
      BY <1>4
<1>7. ASSUME NEW t \in S, t \in older[s] PROVE FALSE
  <2>1. older[t] \subseteq older[s] /\ t \notin older[t]
        BY <1>7 DEF UseOrder
  <2>2. Cardinality(older[t]) <= Cardinality(older[s]) /\ older[t] # older[s]
        BY <1>2, <1>7, <2>1, FS_Subset
  <2>3. Cardinality(older[s]) # Cardinality(older[t])
        BY <1>2, <2>1, <2>2, FS_Subset
  <2>4. n <= Cardinality(older[t])
        BY <1>5
  <2> QED
      BY <1>2, <1>6, <2>2, <2>3, <2>4
<1> QED
    BY <1>6, <1>7

(* A lookup of the per-expert loop holds no lease, and it fails only once the  *)
(* helper has been joined: then every slot is free or can be evicted.         *)
LEMMA VictimAtRefusal ==
  ASSUME StoreInv, UseOrder, LookupRefused, Key \in Registered
  PROVE  FALSE
<1>1. /\ main.pc = "Lookup" /\ ~main.grouped /\ helper.pc = "Idle" /\ Victims = {}
      BY DEF LookupRefused, Refused
<1>2. leases = {} /\ load["main"] = NoSlot /\ load["helper"] = NoSlot
      BY <1>1 DEF StoreInv, HeldLeases, MainLoad, HelperLoad
<1>3. \A s \in Slots : slot[s].pins = 0
      BY <1>2 DEF StoreInv, PinsAreLeases, One
<1>4. Free = {} /\ Evictable = Slots
      BY <1>1, <1>3 DEF Victims, Free, Evictable
<1>5. \E s \in Slots : older[s] \cap Slots = {}
      BY SomeSlotIsOldest DEF StoreInv
<1> QED
    BY <1>1, <1>4, <1>5 DEF Victims

LEMMA OutcomeStep ==
  StoreInv /\ UseOrder /\ NeverOutOfSlots /\ [Next]_vars => NeverOutOfSlots'
<1> SUFFICES ASSUME StoreInv, UseOrder, NeverOutOfSlots, [Next]_vars PROVE NeverOutOfSlots'
    OBVIOUS
<1>1. main \in Main /\ status \in {"Ok", "IoError"} /\ main.outcome # "Oom"
      BY DEF StoreInv, TypeOK, NeverOutOfSlots
<1>2. \A why : Ended(why).outcome = why
      BY <1>1 DEF Ended, Main
<1>3. Advanced.outcome # "Oom" /\ FellBack.outcome # "Oom"
      BY <1>1, <1>2 DEF Advanced, FellBack, Main
<1>4. CASE LookupRefused
      BY <1>2, <1>4, VictimAtRefusal DEF LookupRefused, NeverOutOfSlots
<1>5. CASE LookupFailed \/ GroupGivesUp \/ GroupReadFailed
      BY <1>2, <1>3, <1>5 DEF LookupFailed, GroupGivesUp, GroupReadFailed, NeverOutOfSlots
<1>6. CASE Release
  <2>1. main'.outcome \in {main.outcome, "Ok", Advanced.outcome}
    <3>1. [main EXCEPT !.pc = "Join"].outcome = main.outcome
          BY <1>1 DEF Main
    <3> QED
        BY <1>2, <1>6, <3>1 DEF Release
  <2> QED
      BY <1>1, <1>3, <2>1 DEF NeverOutOfSlots
<1>7. CASE Join
      BY <1>1, <1>2, <1>3, <1>7 DEF Join, NeverOutOfSlots
<1>8. CASE LookupHit \/ LookupMiss \/ LookupLoaded \/ SpawnPrefetch \/ Use
      BY <1>1, <1>8 DEF LookupHit, LookupMiss, LookupLoaded, SpawnPrefetch, Use, Main, NeverOutOfSlots
<1>9. CASE PrefetchSkips \/ PrefetchBegins \/ PrefetchLoaded \/ PrefetchFailed \/ UNCHANGED vars
      BY <1>1, <1>9 DEF PrefetchSkips, PrefetchBegins, PrefetchLoaded, PrefetchFailed, vars, NeverOutOfSlots
<1>10. ASSUME NEW keys \in Rounds, NEW grouped \in BOOLEAN, StartRound(keys, grouped)
       PROVE  NeverOutOfSlots'
       BY <1>1, <1>10 DEF StartRound, Main, NeverOutOfSlots
<1> QED
    BY <1>4, <1>5, <1>6, <1>7, <1>8, <1>9, <1>10 DEF Next, MainStep, HelperStep

(* However few slots a layer has, the per-expert loop finds one to load into. *)
THEOREM AlwaysASlot == Spec => []NeverOutOfSlots
<1>1. Init => UseOrder /\ NeverOutOfSlots
      BY DEF Init, UseOrder, NeverOutOfSlots
<1> QED
    BY <1>1, Invariant, OrderStep, OutcomeStep, PTL DEF Spec
-----------------------------------------------------------------------------
(* Every step is a step of ExpertRound, or changes nothing it speaks of.      *)
LEMMA RoundStep ==
  ASSUME StoreInv, StoreInv', [Next]_vars
  PROVE  [Promised!RoundNext]_Promised!roundVars
<1> DEFINE Phase == IF main.pc = "Idle" THEN "Idle" ELSE "Busy"
<1> USE DEF Promised!RoundNext, Promised!roundVars
<1>1. TypeOK /\ faults \in Nat
      BY DEF StoreInv, TypeOK
<1>m. main \in Main
      BY <1>1 DEF TypeOK
<1>3. ASSUME main'.keys = main.keys, fed' = fed, main'.outcome = main.outcome, Phase' = Phase,
             faults' = faults \/ faults' # 0
      PROVE  Promised!RoundNext
      BY <1>3 DEF Promised!ReadSomething
<1>4. ASSUME NEW keys \in Rounds, NEW grouped \in BOOLEAN, StartRound(keys, grouped)
      PROVE  Promised!RoundNext
  <2>1. /\ main'.keys = keys /\ main'.outcome = main.outcome /\ main'.pc = "Lookup"
        /\ main.pc = "Idle" /\ fed' = <<>> /\ faults' = faults
        BY <1>1, <1>4 DEF StartRound, TypeOK, Main
  <2> QED
      BY <2>1 DEF Promised!Ask
<1>5. ASSUME main.pc # "Idle", NEW why \in Failures, main' = Ended(why), fed' = fed,
             faults' = faults \/ faults' # 0
      PROVE  Promised!RoundNext
  <2>1. main'.keys = main.keys /\ main'.outcome = why /\ main'.pc = "Idle"
        BY <1>1, <1>5, MainFields
  <2> QED
      BY <1>5, <2>1 DEF Promised!GiveUp
<1>6. ASSUME main.pc # "Idle", main' = Ended("Ok"), fed' = fed, faults' = faults,
             Len(fed) = Len(main.keys)
      PROVE  Promised!RoundNext
  <2>1. main'.keys = main.keys /\ main'.outcome = "Ok" /\ main'.pc = "Idle"
        BY <1>1, <1>6, MainFields
  <2> QED
      BY <1>6, <2>1 DEF Promised!Answer
<1>7. ASSUME main.pc \in {"Release", "Join"}, main' = Advanced, fed' = fed, faults' = faults
      PROVE  Promised!RoundNext
  <2>1. CASE More
    <3>1. main'.keys = main.keys /\ main'.outcome = main.outcome /\ main'.pc = "Lookup"
          BY <1>1, <1>7, <2>1, MainFields DEF Advanced
    <3> QED
        BY <1>3, <1>7, <3>1
  <2>2. CASE ~More
    <3>1. main.pos \in 1..Len(main.keys) /\ Len(fed) = main.pos /\ main.keys \in Seq(Experts)
          BY <1>1, <1>7 DEF StoreInv, RoundShape, Computed, TypeOK, Main
    <3>2. Len(fed) = Len(main.keys)
          BY <2>2, <3>1 DEF More
    <3> QED
        BY <1>6, <1>7, <2>2, <3>2 DEF Advanced
  <2> QED
      BY <2>1, <2>2
<1>8. CASE LookupHit \/ LookupMiss \/ LookupLoaded \/ SpawnPrefetch
  <2>1. /\ main'.keys = main.keys /\ main'.outcome = main.outcome /\ main'.pc # "Idle"
        /\ main.pc # "Idle" /\ fed' = fed /\ faults' = faults
    <3>1. CASE LookupHit
      <4>1. /\ fed' = fed /\ faults' = faults /\ main.pc = "Lookup"
            /\ main' = [main EXCEPT !.pc = "Leased", !.view = byExpert[Key]]
            BY <3>1 DEF LookupHit
      <4> QED
          BY <1>m, <4>1 DEF Main
    <3>2. CASE LookupLoaded
      <4>1. /\ fed' = fed /\ faults' = faults /\ main.pc = "Reading"
            /\ main' = [main EXCEPT !.pc = "Leased", !.view = load["main"]]
            BY <3>2 DEF LookupLoaded
      <4> QED
          BY <1>m, <4>1 DEF Main
    <3>3. CASE LookupMiss
      <4>1. /\ fed' = fed /\ faults' = faults /\ main.pc = "Lookup"
            /\ main' = [main EXCEPT !.pc = "Reading"]
            BY <3>3 DEF LookupMiss
      <4> QED
          BY <1>m, <4>1 DEF Main
    <3>4. CASE SpawnPrefetch
      <4>1. /\ fed' = fed /\ faults' = faults /\ main.pc = "Leased"
            /\ main' = [main EXCEPT !.pc = "Using"]
            BY <3>4 DEF SpawnPrefetch
      <4> QED
          BY <1>m, <4>1 DEF Main
    <3> QED
        BY <1>8, <3>1, <3>2, <3>3, <3>4
  <2> QED
      BY <1>3, <2>1
<1>9. CASE LookupRefused
      BY <1>5, <1>9 DEF LookupRefused, Failures
<1>10. CASE LookupFailed
  <2>1. faults' # 0
        BY <1>1, <1>10 DEF LookupFailed, FailLoad
  <2> QED
      BY <1>5, <1>10, <2>1 DEF LookupFailed, Failures
<1>11. CASE GroupGivesUp \/ GroupReadFailed
  <2>1. /\ main' = FellBack /\ fed' = <<>> /\ main.pc # "Idle"
        /\ faults' = faults \/ faults' # 0
        BY <1>1, <1>11 DEF GroupGivesUp, GroupReadFailed
  <2>2. main'.keys = main.keys /\ main'.pc = "Lookup" /\ main'.outcome = main.outcome
        BY <1>1, <2>1 DEF FellBack, TypeOK, Main
  <2> QED
      BY <2>1, <2>2 DEF Promised!StartOver
<1>12. CASE Use
  <2>1. /\ fed' = Append(fed, Content(main.view)) /\ faults' = faults /\ main.pc \in {"Leased", "Using"}
        BY <1>12 DEF Use
  <2>2. main'.keys = main.keys /\ main'.pc # "Idle" /\ main'.outcome = main.outcome
        BY <1>1, <1>12, MainFields DEF Use
  <2>3. /\ main.pos \in 1..Len(main.keys) /\ Len(fed) = main.pos - 1 /\ fed \in Seq(Bytes)
        /\ main.keys \in Seq(Experts) /\ main.view \in leases /\ slot[main.view].eid = Key
        BY <1>1, <2>1 DEF StoreInv, RoundShape, Computed, HeldLeases, Holding, TypeOK, Main
  <2>4. main.view \in Slots
        BY <1>1, <2>3 DEF TypeOK
  <2>5. Content(main.view) = slot[main.view].bytes
        BY <2>3 DEF StoreInv, LoadsUnleased, Content
  <2>6. slot[main.view].bytes \in Bytes
        BY <1>1, <2>4 DEF TypeOK, Slot
  <2>7. faults = 0 => Content(main.view) = main.keys[Len(fed) + 1]
        BY <2>3, <2>4, <2>5 DEF StoreInv, SoundBytes, Key
  <2>8. PICK w \in Bytes : w = Content(main.view)
        BY <2>5, <2>6
  <2>9. Promised!Feed(w)
        BY <2>1, <2>2, <2>3, <2>7, <2>8 DEF Promised!Feed
  <2> QED
      BY <2>1, <2>9
<1>13. CASE Release
  <2>1. fed' = fed /\ faults' = faults /\ main.pc = "Release"
        BY <1>13 DEF Release
  <2>2. CASE main.grouped
    <3>1. Len(fed) = Len(main.keys)
          BY <2>1, <2>2 DEF StoreInv, GroupShape, Computed
    <3> QED
        BY <1>6, <1>13, <2>1, <2>2, <3>1 DEF Release
  <2>3. CASE ~main.grouped /\ Pipe
    <3>1. main'.keys = main.keys /\ main'.pc = "Join" /\ main'.outcome = main.outcome
          BY <1>1, <1>13, <2>3, MainFields DEF Release
    <3> QED
        BY <1>3, <2>1, <3>1
  <2>4. CASE ~main.grouped /\ ~Pipe
        BY <1>7, <1>13, <2>1, <2>4 DEF Release
  <2> QED
      BY <1>1, <2>2, <2>3, <2>4, MainFields
<1>14. CASE Join
  <2>1. fed' = fed /\ faults' = faults /\ main.pc = "Join" /\ status \in {"Ok", "IoError"}
        BY <1>1, <1>14 DEF Join, TypeOK
  <2>2. CASE status = "Ok"
        BY <1>7, <1>14, <2>1, <2>2 DEF Join
  <2>3. CASE status = "IoError"
        BY <1>5, <1>14, <2>1, <2>3 DEF Join, Failures
  <2> QED
      BY <2>1, <2>2, <2>3
<1>15. CASE PrefetchSkips \/ PrefetchBegins \/ PrefetchLoaded
       BY <1>3, <1>15 DEF PrefetchSkips, PrefetchBegins, PrefetchLoaded
<1>16. CASE PrefetchFailed
  <2>1. faults' # 0
        BY <1>1, <1>16 DEF PrefetchFailed, FailLoad
  <2> QED
      BY <1>3, <1>16, <2>1 DEF PrefetchFailed
<1>17. CASE UNCHANGED vars
       BY <1>3, <1>17 DEF vars
<1> QED
    BY <1>4, <1>8, <1>9, <1>10, <1>11, <1>12, <1>13, <1>14, <1>15, <1>16, <1>17
       DEF Next, MainStep, HelperStep

(* A round computes with the weights it asked for, all of them and in order,  *)
(* or is given up: the store implements ExpertRound.                          *)
THEOREM Refinement == Spec => KeepsPromise
<1>1. Init => Promised!RoundInit
      BY DEF Init, Promised!RoundInit
<1>2. StoreInv /\ StoreInv' /\ [Next]_vars => [Promised!RoundNext]_Promised!roundVars
      BY RoundStep
<1> QED
    BY <1>1, <1>2, Invariant, PTL DEF Spec, KeepsPromise, Promised!RoundSpec
=============================================================================
