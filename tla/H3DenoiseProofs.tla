--------------------------- MODULE H3DenoiseProofs ---------------------------
(***************************************************************************)
(* Theorems about H3Denoise for every depth, window, schedule and fault:   *)
(* what a layer computes with is held and stays, it is modulated by its    *)
(* own projection, and the loop implements DenoisePass.                    *)
(***************************************************************************)
EXTENDS H3Denoise, FiniteSetTheorems, SequenceTheorems, WellFoundedInduction, TLAPS

InCore == gen.pc = "Acquire" \/ HoldsBlock

(* The loop: how far it is, and that the steps it skips have others to build  *)
(* on.                                                                       *)
Control ==
  /\ gen.count <= gen.step
  /\ gen.pc # "Idle" => gen.step < Steps /\ gen.step = Len(path)
  /\ gen.pc \in {"Bind", "Rebind", "Check"} => fed = <<>> /\ gen.step = 0
  /\ gen.pc = "Step" => Len(fed) \in {0, request.layers}
  /\ InCore => Len(fed) = IF gen.pc = "Join" THEN gen.layer + 1 ELSE gen.layer
  /\ InCore => gen.layer < request.layers
  /\ gen.pc = "Step" \/ InCore => ~Refusable(request)
  /\ gen.pc # "Idle" /\ gen.step = 0 => gen.residual = NoStep
  /\ gen.pc # "Idle" /\ gen.step > 0 /\ request.every > 1 => gen.last # NoStep

Ordered(order) == \A s \in Slots : s \notin order[s] /\ \A t \in order[s] : order[t] \subseteq order[s]

(* The window of blocks: what is pinned, what is read into, and the order of  *)
(* use, in which there is always a first.                                     *)
Window ==
  /\ PinsAreTheLayer /\ OneSlotPerBlock
  /\ HoldsBlock => gen.view \in Slots /\ slot[gen.view].index = gen.layer
  /\ helper.pc # "Idle" => /\ helper.layer \in Layers /\ request.stream
                           /\ gen.pc \in {"Modulate", "Ahead", "Compute", "Join"}
  /\ gen.pc = "Fetch" => request.stream
  /\ helper.pc = "Reading" => /\ helper.slot \in Slots /\ slot[helper.slot].pins = 0
                              /\ Holding(helper.layer) = {} /\ meta[helper.layer] # NoModel
  /\ Ordered(older)

(* As long as no open and no block read has failed, whose weights are there.  *)
Sound == faults \cap {"Bind", "Block"} = {}
Weights == /\ Sound => /\ \A b \in Layers : meta[b] = dense
                       /\ \A s \in Slots : slot[s].index # NoLayer =>
                            slot[s].bytes = <<dense, slot[s].index>>
                       /\ gen.pc \notin {"Idle", "Bind"} => dense = request.want
           /\ status # "Ok" => ~Sound

(* Whose projections there are, and that one is found where there is one.     *)
Sure == setting # "Skip" /\ faults \cap {"Bind", "Mod"} = {}
Modulation ==
  /\ ReaderIsAlone /\ ModulationIsOfTheLayer /\ ModulatedWhereUsable
  /\ adaln.open \/ adaln.resident # {} => adaln.of = dense
  /\ ahead # Unmodulated => ahead[1] = dense
  /\ HoldsBlock => gen.mod \in {Unmodulated, <<dense, gen.layer>>}
  /\ Sure => adaln = BoundTo(dense, Wanted)
  /\ Sure /\ gen.pc \in {"Ahead", "Compute"} /\ gen.layer \in Usable => gen.mod # Unmodulated

(* The inductive invariant. *)
IInv == TypeOK /\ Control /\ Window /\ Weights /\ Modulation
-----------------------------------------------------------------------------
Gen == [pc : Stages, outcome : {"Ok", "Refused", "Failed"}, step : 0..Steps,
        layer : Layers, view : Slots \cup {NoSlot}, mod : Projections \cup {Unmodulated},
        count : 0..Steps, residual : StepOrNone, last : StepOrNone, prev : StepOrNone]
Layer == [block : Bytes, mod : Projections \cup {Unmodulated}]

LEMMA Typed ==
  ASSUME IInv
  PROVE  /\ StoreTypeOK /\ AdalnTypeOK /\ dense \in Models /\ request \in Requests
         /\ gen \in Gen /\ fed \in Seq(Layer) /\ path \in Seq(Moved) /\ faults \subseteq FaultKinds
         /\ request \in Request /\ request.layers \in 1..Depth /\ request.want \in Models
         /\ request.core \in Nat \ {0} /\ request.every \in Nat \ {0}
<1>1. TypeOK
  BY DEF IInv
<1>2. request \in Requests /\ request \in Request /\ request.core > 0 /\ request.every > 0
  BY <1>1, DenoiseAssumption DEF TypeOK
<1>3. QED
  BY <1>1, <1>2 DEF TypeOK, Gen, Layer, Request

LEMMA Numbers == /\ Depth \in Nat \ {0} /\ Steps \in Nat \ {0} /\ 0 \in Layers
                 /\ NoLayer \notin Layers /\ NoStep \notin 0..Steps - 1
                 /\ \A b \in Layers : b \in Nat /\ b < Depth
BY TransformerAssumption, DenoiseAssumption DEF Layers, NoLayer, NoStep

LEMMA ProjectionsAre ==
  /\ Unmodulated \notin Projections
  /\ \A m \in Models, b \in Layers : <<m, b>> \in Projections
BY DEF Projections, Unmodulated

LEMMA ToldApart == /\ NoModel \notin Models /\ NoSlot \notin Slots /\ Slots # {}
                   /\ NoBlock \notin Blocks /\ Torn \notin Blocks /\ Usable \subseteq Layers
                   /\ Text \in Models /\ Ref \in Models /\ Models = {Text, Ref}
BY TransformerAssumption, BlockAssumption, AdalnAssumption, DenoiseAssumption DEF Blocks
-----------------------------------------------------------------------------
(* The store by itself: the types its operations keep, and what they change.  *)
LEMMA FilledIs ==
  ASSUME StoreTypeOK, NEW s \in Slots, NEW b \in Layers, meta[b] # NoModel, NEW pins \in Nat
  PROVE  /\ Filled(s, b, pins) \in [Slots -> Slot]
         /\ Filled(s, b, pins)[s].index = b /\ Filled(s, b, pins)[s].pins = pins
         /\ Filled(s, b, pins)[s].bytes = <<meta[b], b>>
         /\ \A t \in Slots \ {s} : Filled(s, b, pins)[t] = slot[t]
<1> DEFINE new == [index |-> b, pins |-> pins, bytes |-> <<meta[b], b>>]
<1>1. meta[b] \in Models
  BY DEF StoreTypeOK
<1>2. <<meta[b], b>> \in Blocks
  BY <1>1 DEF Blocks
<1>3. new \in Slot /\ new.index = b /\ new.pins = pins /\ new.bytes = <<meta[b], b>>
  BY <1>2 DEF Slot, Bytes
<1> HIDE DEF new
<1>4. Filled(s, b, pins) = [slot EXCEPT ![s] = new] /\ slot \in [Slots -> Slot]
  BY DEF Filled, new, StoreTypeOK
<1>5. QED
  BY <1>3, <1>4

LEMMA PinnedIs ==
  ASSUME StoreTypeOK, NEW s \in Slots, NEW n \in Nat
  PROVE  \A other : other = [slot EXCEPT ![s].pins = n] =>
           /\ other \in [Slots -> Slot]
           /\ other[s].index = slot[s].index /\ other[s].pins = n /\ other[s].bytes = slot[s].bytes
           /\ \A t \in Slots \ {s} : other[t] = slot[t]
<1> DEFINE other == [slot EXCEPT ![s].pins = n]
           new == [slot[s] EXCEPT !.pins = n]
<1>1. slot \in [Slots -> Slot] /\ slot[s] \in Slot
  BY DEF StoreTypeOK
<1>2. new \in Slot /\ new.index = slot[s].index /\ new.pins = n /\ new.bytes = slot[s].bytes
  BY <1>1 DEF Slot
<1> HIDE DEF new
<1>3. other = [slot EXCEPT ![s] = new]
  BY DEF new
<1>4. QED
  BY <1>1, <1>2, <1>3

LEMMA SpoiltIs ==
  ASSUME StoreTypeOK, NEW s \in Slots, NEW other \in Spoilt(s)
  PROVE  /\ other \in [Slots -> Slot]
         /\ \A t \in Slots : other[t].index = slot[t].index /\ other[t].pins = slot[t].pins
         /\ \A t \in Slots \ {s} : other[t] = slot[t]
<1>1. slot \in [Slots -> Slot] /\ slot[s].bytes \in Bytes /\ Torn \in Bytes
  BY DEF StoreTypeOK, Slot, Bytes
<1>2. PICK bytes \in Bytes : other = [slot EXCEPT ![s].bytes = bytes]
  BY <1>1 DEF Spoilt
<1>3. QED
  BY <1>1, <1>2 DEF Slot

LEMMA FoundIs ==
  ASSUME NEW b, Holding(b) # {}
  PROVE  Found(b) \in Slots /\ slot[Found(b)].index = b
<1>1. Found(b) \in Holding(b)
  BY DEF Found
<1>2. QED
  BY <1>1 DEF Holding

LEMMA VictimIs ==
  ASSUME NEW s \in Victims
  PROVE  s \in Slots /\ slot[s].pins = 0
BY DEF Victims

LEMMA TouchedIs ==
  ASSUME older \in [Slots -> SUBSET Slots], Ordered(older), NEW s \in Slots
  PROVE  Touched(s) \in [Slots -> SUBSET Slots] /\ Ordered(Touched(s))
<1>1. Touched(s) = [t \in Slots |-> IF t = s THEN Slots \ {s} ELSE older[t] \ {s}]
  BY DEF Touched
<1>2. Touched(s) \in [Slots -> SUBSET Slots]
  BY <1>1
<1>3. ASSUME NEW t \in Slots
      PROVE  t \notin Touched(s)[t] /\ \A u \in Touched(s)[t] : Touched(s)[u] \subseteq Touched(s)[t]
  <2>1. t \notin Touched(s)[t]
    BY <1>1 DEF Ordered
  <2>2. ASSUME NEW u \in Touched(s)[t] PROVE Touched(s)[u] \subseteq Touched(s)[t]
    <3>1. u \in Slots /\ u # s /\ Touched(s)[u] = older[u] \ {s}
      BY <1>1
    <3>2. CASE t = s
      BY <1>1, <3>1, <3>2
    <3>3. CASE t # s
      <4>1. u \in older[t] /\ Touched(s)[t] = older[t] \ {s}
        BY <1>1, <3>3
      <4>2. older[u] \subseteq older[t]
        BY <4>1 DEF Ordered
      <4>3. QED
        BY <3>1, <4>1, <4>2
    <3>4. QED
      BY <3>2, <3>3
  <2>3. QED
    BY <2>1, <2>2
<1>4. QED
  BY <1>2, <1>3 DEF Ordered

(* With nothing pinned there is a slot to read into: of finitely many, some   *)
(* are used less recently than none.                                         *)
LEMMA SomeVictim ==
  ASSUME StoreTypeOK, Ordered(older), \A s \in Slots : slot[s].pins = 0
  PROVE  Victims # {}
<1> DEFINE free == {s \in Slots : slot[s].index = NoLayer}
           size(s) == Cardinality(older[s])
           Sizes == {size(s) : s \in Slots}
<1>1. older \in [Slots -> SUBSET Slots] /\ IsFiniteSet(Slots) /\ Slots # {}
  BY BlockAssumption DEF StoreTypeOK
<1>2. ASSUME NEW s \in Slots PROVE IsFiniteSet(older[s]) /\ size(s) \in Nat
  <2>1. IsFiniteSet(older[s])
    BY <1>1, FS_Subset
  <2>2. QED
    BY <2>1, FS_CardinalityType
<1>3. PICK n \in Sizes : \A m \in Sizes : <<m, n>> \notin OpToRel(<, Nat)
  <2>1. Sizes \subseteq Nat /\ Sizes # {}
    BY <1>1, <1>2
  <2>2. QED
    BY <2>1, WFMin, NatLessThanWellFounded
<1>4. PICK s \in Slots : n = size(s)
  BY <1>3
<1>5. older[s] = {}
  <2>1. SUFFICES ASSUME NEW t \in older[s] PROVE FALSE
    OBVIOUS
  <2>2. t \in Slots /\ older[t] \subseteq older[s] /\ t \notin older[t]
    BY <1>1 DEF Ordered
  <2>3. older[t] # older[s] /\ IsFiniteSet(older[s])
    BY <1>2, <2>2
  <2>4. size(t) < size(s)
    BY <2>2, <2>3, FS_Subset, FS_CardinalityType
  <2>5. size(t) \in Sizes /\ size(t) \in Nat /\ size(s) \in Nat
    BY <1>2, <2>2
  <2>6. <<size(t), n>> \in OpToRel(<, Nat)
    BY <1>4, <2>4, <2>5 DEF OpToRel
  <2>7. QED
    BY <1>3, <2>5, <2>6
<1>6. {t \in Slots : slot[t].pins = 0} = Slots
  OBVIOUS
<1>7. QED
  BY <1>4, <1>5, <1>6 DEF Victims
-----------------------------------------------------------------------------
(* Types: of the block store, ... *)
LEMMA StoreTypes == ASSUME IInv, Next PROVE StoreTypeOK'
<1> USE Typed, ToldApart, Numbers
<1>0. StoreTypeOK /\ Ordered(older)
  BY DEF IInv, Window
<1>1. CASE UNCHANGED storeVars
  BY <1>0, <1>1 DEF storeVars, StoreTypeOK
<1>2. ASSUME NEW m \in Models, NEW upto \in 0..Depth, Open(m, upto) PROVE StoreTypeOK'
  <2>1. /\ meta' = [b \in Layers |-> IF b < upto THEN m ELSE NoModel]
        /\ slot' = EmptySlots /\ older' = [s \in Slots |-> {}] /\ UNCHANGED <<helper, status>>
    BY <1>2 DEF Open
  <2>2. EmptySlots \in [Slots -> Slot]
    BY DEF EmptySlots, Slot, Bytes
  <2>3. QED
    BY <1>0, <2>1, <2>2 DEF StoreTypeOK
<1>3. ASSUME NEW b \in Layers, AcquireHit(b) \/ AcquireRead(b) PROVE StoreTypeOK'
  <2>1. CASE AcquireHit(b)
    <3>1. Found(b) \in Slots
      BY <2>1, FoundIs DEF AcquireHit
    <3>2. PICK s \in Slots : s = Found(b)
      BY <3>1
    <3>3. slot' = [slot EXCEPT ![s].pins = slot[s].pins + 1] /\ older' = Touched(s)
          /\ UNCHANGED <<meta, helper, status>>
      BY <2>1, <3>2 DEF AcquireHit
    <3>4. slot' \in [Slots -> Slot]
      <4>1. PICK n \in Nat : n = slot[s].pins + 1
        BY <1>0 DEF StoreTypeOK, Slot
      <4>2. QED
        BY <1>0, <3>3, <4>1, PinnedIs
    <3>5. Touched(s) \in [Slots -> SUBSET Slots]
      BY <1>0, TouchedIs DEF StoreTypeOK
    <3>6. QED
      BY <1>0, <3>3, <3>4, <3>5 DEF StoreTypeOK
  <2>2. CASE AcquireRead(b)
    <3>1. PICK s \in Victims : slot' = Filled(s, b, slot[s].pins + 1) /\ older' = Touched(s)
      BY <2>2 DEF AcquireRead
    <3>2. s \in Slots /\ slot[s].pins = 0 /\ meta[b] # NoModel /\ UNCHANGED <<meta, helper, status>>
      BY <2>2, VictimIs DEF AcquireRead
    <3>3. slot[s].pins + 1 = 1
      BY <3>2
    <3>4. slot' = Filled(s, b, 1)
      BY <3>1, <3>3
    <3>5. slot' \in [Slots -> Slot]
      BY <1>0, <3>2, <3>4, FilledIs
    <3>6. Touched(s) \in [Slots -> SUBSET Slots]
      BY <1>0, <3>2, TouchedIs DEF StoreTypeOK
    <3>7. QED
      BY <1>0, <3>1, <3>2, <3>5, <3>6 DEF StoreTypeOK
  <2>3. QED
    BY <1>3, <2>1, <2>2
<1>4. ASSUME NEW b \in Layers, AcquireReadFails(b) PROVE StoreTypeOK'
  <2>1. PICK s \in Victims : slot' \in Spoilt(s)
    BY <1>4 DEF AcquireReadFails
  <2>2. slot' \in [Slots -> Slot]
    BY <1>0, <2>1, VictimIs, SpoiltIs
  <2>3. QED
    BY <1>0, <1>4, <2>2 DEF AcquireReadFails, StoreTypeOK
<1>5. ASSUME NEW b \in Layers, ReleaseBlock(b) PROVE StoreTypeOK'
  <2>1. UNCHANGED <<meta, older, helper, status>>
    BY <1>5 DEF ReleaseBlock
  <2>2. CASE Holding(b) = {}
    BY <1>0, <1>5, <2>1, <2>2 DEF ReleaseBlock, StoreTypeOK
  <2>3. CASE Holding(b) # {}
    <3>1. PICK s \in Slots : s = Found(b)
      BY <2>3, FoundIs
    <3>2. PICK n \in Nat : n = IF slot[s].pins > 0 THEN slot[s].pins - 1 ELSE slot[s].pins
      BY <1>0 DEF StoreTypeOK, Slot
    <3>3. slot' \in [Slots -> Slot]
      <4>1. slot' = [slot EXCEPT ![s].pins = n]
        BY <1>5, <2>3, <3>1, <3>2 DEF ReleaseBlock
      <4>2. QED
        BY <1>0, <4>1, PinnedIs
    <3>4. QED
      BY <1>0, <2>1, <3>3 DEF StoreTypeOK
  <2>4. QED
    BY <2>2, <2>3
<1>6. ASSUME NEW b \in Layers, PrefetchAsync(b) PROVE StoreTypeOK'
  BY <1>0, <1>6 DEF PrefetchAsync, StoreTypeOK, Helper
<1>7. ASSUME HelperStep PROVE StoreTypeOK'
  <2>1. helper.pc # "Idle" /\ helper.layer \in Layers /\ helper \in Helper
        /\ (helper.pc = "Reading" => helper.slot \in Slots /\ slot[helper.slot].pins = 0)
    BY <1>0, <1>7 DEF HelperStep, PrefetchSkips, PrefetchBegins, PrefetchReads, PrefetchReadFails,
                      IInv, Window, StoreTypeOK
  <2>2. PICK b \in Layers : b = helper.layer
    BY <2>1
  <2>3. Resting \in Helper
    BY DEF Resting, Helper
  <2>4. CASE PrefetchSkips
    <3>1. slot' = slot /\ meta' = meta /\ helper' = Resting /\ status' \in {status, "NotFound"}
          /\ (older' = older \/ (Holding(b) # {} /\ older' = Touched(Found(b))))
      BY <2>2, <2>4 DEF PrefetchSkips
    <3>2. older' \in [Slots -> SUBSET Slots]
      <4>1. CASE older' = older
        BY <1>0, <4>1 DEF StoreTypeOK
      <4>2. CASE Holding(b) # {} /\ older' = Touched(Found(b))
        <5>1. PICK s \in Slots : s = Found(b)
          BY <4>2, FoundIs
        <5>2. QED
          BY <1>0, <4>2, <5>1, TouchedIs DEF StoreTypeOK
      <4>3. QED
        BY <3>1, <4>1, <4>2
    <3>3. QED
      BY <1>0, <2>3, <3>1, <3>2 DEF StoreTypeOK
  <2>5. CASE PrefetchBegins
    <3>1. PICK s \in Victims : helper' = [helper EXCEPT !.pc = "Reading", !.slot = s]
      BY <2>5 DEF PrefetchBegins
    <3>2. helper' \in Helper
      BY <2>1, <3>1, VictimIs DEF Helper
    <3>3. QED
      BY <1>0, <2>5, <3>2 DEF PrefetchBegins, StoreTypeOK
  <2>6. CASE PrefetchReads
    <3>1. helper.pc = "Reading"
      BY <2>6 DEF PrefetchReads
    <3>2. PICK s \in Slots : s = helper.slot
      BY <2>1, <3>1
    <3>3. /\ slot' = Filled(s, b, slot[s].pins) /\ older' = Touched(s) /\ helper' = Resting
          /\ UNCHANGED <<meta, status>>
      BY <2>2, <2>6, <3>2 DEF PrefetchReads
    <3>4. slot' = [slot EXCEPT ![s] = [index |-> b, pins |-> 0, bytes |-> <<meta[b], b>>]]
      BY <2>1, <3>1, <3>2, <3>3 DEF Filled
    <3>5. <<meta[b], b>> \in Bytes
      <4>1. meta[b] \in Models
        BY <1>0, <3>1, <2>2 DEF StoreTypeOK, IInv, Window
      <4>2. QED
        BY <4>1 DEF Bytes, Blocks
    <3>6. slot' \in [Slots -> Slot]
      BY <1>0, <3>4, <3>5 DEF StoreTypeOK, Slot
    <3>7. Touched(s) \in [Slots -> SUBSET Slots]
      BY <1>0, TouchedIs DEF StoreTypeOK
    <3>8. QED
      BY <1>0, <2>3, <3>3, <3>6, <3>7 DEF StoreTypeOK
  <2>7. CASE PrefetchReadFails
    <3>1. PICK s \in Slots : s = helper.slot
      BY <2>1, <2>7 DEF PrefetchReadFails
    <3>2. slot' \in Spoilt(s) /\ status' = "IoError" /\ helper' = Resting /\ UNCHANGED <<meta, older>>
      BY <2>7, <3>1 DEF PrefetchReadFails
    <3>3. slot' \in [Slots -> Slot]
      BY <1>0, <3>2, SpoiltIs
    <3>4. QED
      BY <1>0, <2>3, <3>2, <3>3 DEF StoreTypeOK
  <2>8. QED
    BY <1>7, <2>4, <2>5, <2>6, <2>7 DEF HelperStep
<1>8. gen.layer \in Layers /\ NextLayer \in Layers /\ BindTarget \in Models
  <2>1. gen.layer \in Layers
    BY DEF Gen
  <2>2. NextLayer \in Layers
    BY <2>1 DEF NextLayer, Layers
  <2>3. QED
    BY <2>1, <2>2 DEF BindTarget
<1>9. PICK b \in Layers, c \in Layers, m \in Models : b = gen.layer /\ c = NextLayer /\ m = BindTarget
  BY <1>8
<1>10. \/ UNCHANGED storeVars \/ (\E upto \in 0..Depth : Open(m, upto))
       \/ AcquireHit(b) \/ AcquireRead(b) \/ AcquireReadFails(b) \/ ReleaseBlock(b)
       \/ PrefetchAsync(c) \/ HelperStep
  <2>1. CASE \/ Check \/ Extrapolate \/ AddResidual \/ BeginCore \/ Modulate
             \/ ModulateAhead \/ Compute \/ BindFailsEarly
    BY <2>1 DEF Check, Extrapolate, AddResidual, BeginCore, Modulate, ModulateAhead, Compute,
                BindFailsEarly, blockVars
  <2>3. CASE BindOk \/ BindFailsHalfWay
    <3>1. Depth \in 0..Depth /\ 0..Depth - 1 \subseteq 0..Depth
      OBVIOUS
    <3>2. QED
      BY <1>9, <2>3, <3>1 DEF BindOk, BindFailsHalfWay
  <2>4. CASE AcquireBlock \/ AcquireFails
    BY <1>9, <2>4 DEF AcquireBlock, AcquireFails, AcquireRefused
  <2>5. CASE FetchNext \/ FinishLayer \/ PrefetchFailed
    BY <1>9, <2>5 DEF FetchNext, FinishLayer, PrefetchFailed
  <2>2. CASE ReaderStep \/ \E r \in Requests : StartGeneration(r)
    BY <2>2 DEF ReaderStep, StartGeneration, blockVars
  <2>6. QED
    BY <2>1, <2>2, <2>3, <2>4, <2>5 DEF Next, MainStep
<1>11. QED
  BY <1>1, <1>2, <1>3, <1>4, <1>5, <1>6, <1>7, <1>10

(* ... of the AdaLN store, ... *)
LEMMA WantedIs == Wanted \subseteq Usable /\ Wanted \subseteq Layers
BY ToldApart DEF Wanted

Adaln == [of : Models \cup {NoModel}, mode : Settings \cup {"Off"}, open : BOOLEAN,
          resident : SUBSET Layers]

LEMMA BoundToIs ==
  ASSUME setting \in Settings, NEW m \in Models, NEW resident \in SUBSET Wanted
  PROVE  /\ BoundTo(m, resident) \in Adaln
         /\ BoundTo(m, resident).open \/ BoundTo(m, resident).resident # {} =>
              BoundTo(m, resident).of = m
         /\ ClosedStore \in Adaln /\ ~ClosedStore.open /\ ClosedStore.resident = {}
<1>1. resident \subseteq Layers
  BY WantedIs
<1>2. ClosedStore \in Adaln /\ ~ClosedStore.open /\ ClosedStore.resident = {}
  BY DEF ClosedStore, Adaln
<1>3. CASE setting = "Skip"
  BY <1>1, <1>2, <1>3 DEF BoundTo, ClosedStore, Adaln, Settings
<1>4. CASE setting # "Skip" /\ Usable = {}
  BY <1>1, <1>2, <1>4 DEF BoundTo
<1>5. CASE setting # "Skip" /\ Usable # {}
  BY <1>1, <1>2, <1>5 DEF BoundTo, Adaln
<1>6. QED
  BY <1>3, <1>4, <1>5

LEMMA LoadModIs ==
  ASSUME IInv, NEW b \in Layers, NEW ok \in BOOLEAN
  PROVE  /\ LoadMod(b, ok).mod \in {Unmodulated, <<dense, b>>}
         /\ LoadMod(b, ok).by = "Ahead" => LoadMod(b, ok).mod = ahead
<1> USE Typed
<1>1. /\ adaln.open \/ adaln.resident # {} => adaln.of = dense
      /\ ahead # Unmodulated => ahead[1] = dense /\ ahead \in Projections
  BY DEF IInv, Modulation, AdalnTypeOK
<1>2. ReadAhead(b) => ahead = <<dense, b>>
  BY <1>1 DEF ReadAhead, Projections
<1>3. Readable(b) => adaln.of = dense
  BY <1>1 DEF Readable
<1>4. QED
  BY <1>1, <1>2, <1>3 DEF LoadMod

LEMMA AdalnTypes == ASSUME IInv, Next PROVE AdalnTypeOK'
<1> USE Typed, ToldApart, Numbers
<1>0. /\ setting \in Settings /\ adaln \in Adaln /\ ahead \in Projections \cup {Unmodulated}
      /\ reader \in Layers \cup {NoLayer} /\ readerSt \in {"Ok", "IoError"}
  BY DEF AdalnTypeOK, Adaln
<1>1. CASE UNCHANGED adalnVars
  BY <1>0, <1>1 DEF adalnVars, AdalnTypeOK, Adaln
<1>2. ASSUME AdalnClose PROVE AdalnTypeOK'
  BY <1>0, <1>2, BoundToIs DEF AdalnClose, AdalnTypeOK, Adaln, ClosedStore, Settings
<1>3. ASSUME NEW m \in Models, NEW resident \in SUBSET Wanted, AdalnBind(m, resident)
      PROVE  AdalnTypeOK'
  <2>1. adaln' \in Adaln
    BY <1>0, <1>3, BoundToIs DEF AdalnBind
  <2>2. QED
    BY <1>0, <1>3, <2>1 DEF AdalnBind, AdalnTypeOK, Adaln
<1>4. ASSUME NEW b, AdalnPrefetch(b) PROVE AdalnTypeOK'
  <2>1. HasProjection(b) => b \in Layers
    BY <1>0 DEF HasProjection, Adaln
  <2>2. QED
    BY <1>0, <1>4, <2>1 DEF AdalnPrefetch, AdalnTypeOK, Adaln
<1>5. ASSUME NEW b, NEW ok, Loaded(b, ok) PROVE AdalnTypeOK'
  BY <1>0, <1>5 DEF Loaded, AdalnTypeOK, Adaln
<1>6. ASSUME ReaderStep PROVE AdalnTypeOK'
  <2>1. ReaderReads => adaln.of \in Models
    BY <1>0 DEF ReaderReads, IInv, Modulation, ReaderIsAlone, Adaln
  <2>2. QED
    BY <1>0, <1>6, <2>1 DEF ReaderStep, ReaderReads, ReaderFails, AdalnTypeOK, Adaln, Projections
<1>7. PICK m \in Models : m = BindTarget
  BY DEF BindTarget
<1>8. CASE BindOk
  BY <1>3, <1>7, <1>8 DEF BindOk
<1>9. CASE BindFailsEarly \/ BindFailsHalfWay
  BY <1>2, <1>9 DEF BindFailsEarly, BindFailsHalfWay
<1>10. CASE Modulate
  <2>1. PICK b, ok : Loaded(b, ok)
    BY <1>10 DEF Modulate
  <2>2. QED
    BY <1>5, <2>1
<1>11. CASE ModulateAhead
  <2>1. PICK b : AdalnPrefetch(b)
    BY <1>11 DEF ModulateAhead
  <2>2. QED
    BY <1>4, <2>1
<1>12. CASE \/ Check \/ Extrapolate \/ AddResidual \/ BeginCore \/ AcquireBlock \/ AcquireFails
            \/ FetchNext \/ Compute \/ FinishLayer \/ PrefetchFailed
            \/ HelperStep \/ \E r \in Requests : StartGeneration(r)
  <2>1. UNCHANGED adalnVars
    BY <1>12 DEF Check, Extrapolate, AddResidual, BeginCore, AcquireBlock, AcquireFails, FetchNext,
                 Compute, FinishLayer, PrefetchFailed, HelperStep, StartGeneration
  <2>2. QED
    BY <1>1, <2>1
<1>13. QED
  BY <1>6, <1>8, <1>9, <1>10, <1>11, <1>12 DEF Next, MainStep
-----------------------------------------------------------------------------
(* ... and of the loop. *)
LEMMA LoopStays ==
  ASSUME IInv, HelperStep \/ ReaderStep
  PROVE  UNCHANGED <<dense, request, gen, fed, path>>
BY DEF HelperStep, ReaderStep, mainVars

LEMMA FaultsGrow == ASSUME IInv, Next PROVE faults \subseteq faults' /\ faults' \subseteq FaultKinds
<1>1. \/ UNCHANGED faults
      \/ \E kind \in FaultKinds : Fault(kind)
  <2>1. {"Bind", "Block", "Ahead", "Mod"} = FaultKinds
    BY DEF FaultKinds
  <2>2. CASE HelperStep \/ ReaderStep \/ \E r \in Requests : StartGeneration(r)
    BY <2>1, <2>2 DEF HelperStep, ReaderStep, StartGeneration
  <2>3. CASE \/ BindOk \/ BindFailsEarly \/ BindFailsHalfWay \/ AcquireFails \/ Modulate
    BY <2>1, <2>3 DEF BindOk, BindFailsEarly, BindFailsHalfWay, AcquireFails, Modulate
  <2>4. CASE \/ Check \/ Extrapolate \/ AddResidual \/ BeginCore \/ AcquireBlock
             \/ FetchNext \/ ModulateAhead \/ Compute \/ FinishLayer \/ PrefetchFailed
    BY <2>4 DEF Check, Extrapolate, AddResidual, BeginCore, AcquireBlock,
                FetchNext, ModulateAhead, Compute, FinishLayer, PrefetchFailed
  <2>5. QED
    BY <2>2, <2>3, <2>4 DEF Next, MainStep
<1>2. QED
  BY <1>1, Typed DEF Fault

(* A step of the latent: where it leaves the loop. *)
LEMMA SteppedIs ==
  ASSUME NEW g \in Gen, g.step < Steps
  PROVE  /\ Stepped(g) \in Gen /\ Stepped(g).step = g.step + 1
         /\ Stepped(g).pc = IF g.step + 1 = Steps THEN "Idle" ELSE "Step"
         /\ Stepped(g).count = g.count /\ Stepped(g).outcome = g.outcome
         /\ Stepped(g).residual = g.residual /\ Stepped(g).last = g.last
         /\ Stepped(g).prev = g.prev /\ Stepped(g).layer = g.layer
<1>1. g.step + 1 \in 0..Steps
  BY Numbers DEF Gen
<1>2. QED
  BY <1>1 DEF Stepped, Gen, Stages

LEMMA EndedIs ==
  ASSUME gen \in Gen, NEW why \in {"Refused", "Failed"}
  PROVE  /\ Ended(why) \in Gen /\ Ended(why).pc = "Idle" /\ Ended(why).outcome = why
         /\ Ended(why).step = gen.step /\ Ended(why).count = gen.count
BY DEF Ended, Gen, Stages

LEMMA FreshIs == /\ Fresh \in Gen
                 /\ \A place \in Stages : [Fresh EXCEPT !.pc = place] \in Gen
BY Numbers, ToldApart DEF Fresh, Gen, Stages, StepOrNone

(* What acquire leaves: the layer in one slot, pinned once, as it was there   *)
(* or as it has been read now.                                               *)
LEMMA AcquiredIs ==
  ASSUME IInv, AcquireBlock
  PROVE  \E s \in Slots :
           /\ gen' = [gen EXCEPT !.pc = AfterAcquire, !.mod = Unmodulated, !.view = s]
           /\ slot'[s].index = gen.layer /\ slot'[s].pins = 1
           /\ \/ slot[s].index = gen.layer /\ slot'[s].bytes = slot[s].bytes
              \/ slot'[s].bytes = <<meta[gen.layer], gen.layer>>
           /\ \A t \in Slots \ {s} : slot'[t] = slot[t] /\ slot[t].index # gen.layer
                                     /\ slot[t].pins = 0
           /\ older' = Touched(s) /\ UNCHANGED <<meta, helper, status>>
<1> USE Typed
<1>0. /\ gen.pc = "Acquire" /\ StoreTypeOK /\ \A s \in Slots : slot[s].pins = 0
      /\ gen' = [gen EXCEPT !.pc = AfterAcquire, !.mod = Unmodulated,
                            !.view = CHOOSE s \in Slots : slot'[s].index = gen.layer]
  BY DEF AcquireBlock, IInv, Window, PinsAreTheLayer, HoldsBlock
<1>1. PICK b \in Layers : b = gen.layer
  BY DEF Gen
<1>2. \E s \in Slots :
        /\ slot'[s].index = b /\ slot'[s].pins = 1
        /\ (slot[s].index = b /\ slot'[s].bytes = slot[s].bytes) \/ slot'[s].bytes = <<meta[b], b>>
        /\ \A t \in Slots \ {s} : slot'[t] = slot[t] /\ slot[t].index # b
        /\ older' = Touched(s) /\ UNCHANGED <<meta, helper, status>>
  <2>1. CASE AcquireHit(b)
    <3>1. PICK s \in Slots : s = Found(b) /\ slot[s].index = b
      BY <2>1, FoundIs DEF AcquireHit
    <3>2. slot' = [slot EXCEPT ![s].pins = slot[s].pins + 1] /\ older' = Touched(s)
          /\ UNCHANGED <<meta, helper, status>>
      BY <2>1, <3>1 DEF AcquireHit
    <3>3. PICK n \in Nat : n = slot[s].pins + 1 /\ n = 1
      <4>1. slot[s].pins = 0
        BY <1>0
      <4>2. QED
        BY <4>1
    <3>4. /\ slot'[s].index = b /\ slot'[s].pins = 1 /\ slot'[s].bytes = slot[s].bytes
          /\ \A t \in Slots \ {s} : slot'[t] = slot[t]
      <4>1. slot' = [slot EXCEPT ![s].pins = n]
        BY <3>2, <3>3
      <4>2. QED
        BY <1>0, <3>1, <3>3, <4>1, PinnedIs
    <3>5. \A t \in Slots \ {s} : slot[t].index # b
      BY <3>1, Numbers DEF IInv, Window, OneSlotPerBlock
    <3>6. QED
      BY <3>1, <3>2, <3>4, <3>5
  <2>2. CASE AcquireRead(b)
    <3>1. PICK s \in Victims : slot' = Filled(s, b, slot[s].pins + 1) /\ older' = Touched(s)
      BY <2>2 DEF AcquireRead
    <3>2. /\ s \in Slots /\ slot[s].pins + 1 = 1 /\ meta[b] # NoModel
          /\ Holding(b) = {} /\ UNCHANGED <<meta, helper, status>>
      BY <2>2, VictimIs DEF AcquireRead
    <3>3. slot' = Filled(s, b, 1)
      BY <3>1, <3>2
    <3>4. /\ slot'[s].index = b /\ slot'[s].pins = 1 /\ slot'[s].bytes = <<meta[b], b>>
          /\ \A t \in Slots \ {s} : slot'[t] = slot[t]
      BY <1>0, <3>2, <3>3, FilledIs
    <3>5. \A t \in Slots : slot[t].index # b
      BY <3>2 DEF Holding
    <3>6. QED
      BY <3>1, <3>2, <3>4, <3>5
  <2>3. QED
    BY <1>1, <2>1, <2>2 DEF AcquireBlock
<1>3. PICK s \in Slots :
        /\ slot'[s].index = b /\ slot'[s].pins = 1
        /\ (slot[s].index = b /\ slot'[s].bytes = slot[s].bytes) \/ slot'[s].bytes = <<meta[b], b>>
        /\ \A t \in Slots \ {s} : slot'[t] = slot[t] /\ slot[t].index # b
        /\ older' = Touched(s) /\ UNCHANGED <<meta, helper, status>>
  BY <1>2
<1>4. \A t \in Slots : slot'[t].index = b <=> t = s
  BY <1>3
<1>5. (CHOOSE t \in Slots : slot'[t].index = gen.layer) = s
  BY <1>1, <1>4
<1>6. QED
  BY <1>0, <1>1, <1>3, <1>5

(* A step that is not selected is neither the first nor the last. *)
LEMMA SkippedIs ==
  ASSUME IInv, ~Refusable(request), NEW s \in 0..Steps - 1, s \notin Selected(request)
  PROVE  s # 0 /\ s # Steps - 1 /\ request.every > 1
<1> USE Typed
<1>1. request.every \in Nat \ {0}
  OBVIOUS
<1>2. CASE Customised(request)
  BY <1>2 DEF Refusable, Selected, Customised
<1>3. CASE ~Customised(request)
  BY <1>1, <1>3 DEF Selected, Schedule
<1>4. QED
  BY <1>2, <1>3

LoopTypeOK == /\ dense \in Models /\ request \in Requests /\ gen \in Gen
              /\ fed \in Seq(Layer) /\ path \in Seq(Moved)

CoreStages == {"Acquire", "Fetch", "Modulate", "Ahead", "Compute", "Join"}

LEMMA InCoreIs == InCore <=> gen.pc \in CoreStages
BY DEF InCore, HoldsBlock, CoreStages

(* Within a layer. *)
LEMMA WithinLayer ==
  ASSUME IInv, gen' \in Gen, gen.pc \in CoreStages \ {"Join"}, gen'.pc \in CoreStages \ {"Join"},
         gen'.step = gen.step, gen'.layer = gen.layer, gen'.count = gen.count,
         gen'.residual = gen.residual, gen'.last = gen.last,
         UNCHANGED <<dense, request, fed, path>>
  PROVE  LoopTypeOK' /\ Control'
<1>1. LoopTypeOK'
  BY Typed DEF LoopTypeOK
<1>2. Control'
  BY DEF IInv, Control, InCore, HoldsBlock, CoreStages, Refusable, Customised
<1>3. QED
  BY <1>1, <1>2

(* A generation that is answered. *)
LEMMA EndsLoop ==
  ASSUME IInv, gen' \in Gen, gen'.pc = "Idle", gen'.count <= gen'.step,
         UNCHANGED <<dense, request, fed>>, path' \in Seq(Moved)
  PROVE  LoopTypeOK' /\ Control'
BY Typed DEF LoopTypeOK, Control, InCore, HoldsBlock

LEMMA LoopBegins ==
  ASSUME IInv,
         \/ BindOk \/ BindFailsEarly \/ BindFailsHalfWay \/ Check
         \/ \E r \in Requests : StartGeneration(r)
  PROVE  LoopTypeOK' /\ Control'
<1> USE Typed
<1>1. ASSUME NEW r \in Requests, StartGeneration(r) PROVE LoopTypeOK' /\ Control'
  <2>1. PICK place \in {"Check", "Bind"} : gen' = [Fresh EXCEPT !.pc = place]
    BY <1>1 DEF StartGeneration
  <2>2. /\ gen' \in Gen /\ gen'.pc = place /\ gen'.step = 0 /\ gen'.count = 0
        /\ gen'.residual = NoStep
    BY <2>1, FreshIs DEF Fresh, Stages
  <2>3. request' = r /\ fed' = <<>> /\ path' = <<>> /\ UNCHANGED dense
    BY <1>1 DEF StartGeneration
  <2>4. LoopTypeOK'
    BY <2>2, <2>3 DEF LoopTypeOK
  <2>5. Len(path') = 0 /\ 0 < Steps
    BY <2>3, Numbers
  <2>6. QED
    BY <2>2, <2>3, <2>4, <2>5 DEF Control, InCore, HoldsBlock
<1>2. CASE BindOk \/ BindFailsEarly \/ BindFailsHalfWay
  <2>1. gen.pc \in {"Bind", "Rebind"} /\ UNCHANGED <<request, fed, path>> /\ dense' \in Models
    BY <1>2 DEF BindOk, BindFailsEarly, BindFailsHalfWay, Binding, BindTarget
  <2>2. PICK place \in {"Check", "Rebind"} : gen' = [gen EXCEPT !.pc = place]
    BY <1>2 DEF BindOk, BindFailsEarly, BindFailsHalfWay, AfterFailedBind
  <2>3. /\ gen' \in Gen /\ gen'.pc = place /\ gen'.step = gen.step /\ gen'.count = gen.count
        /\ gen'.residual = gen.residual
    BY <2>2 DEF Gen, Stages
  <2>4. LoopTypeOK'
    BY <2>1, <2>3 DEF LoopTypeOK
  <2>5. QED
    BY <2>1, <2>3, <2>4 DEF IInv, Control, InCore, HoldsBlock
<1>3. CASE Check
  <2>1. gen.pc = "Check" /\ UNCHANGED <<dense, request, fed, path>>
    BY <1>3 DEF Check
  <2>2. CASE Refusable(request)
    <3>1. gen' = Ended("Refused")
      BY <1>3, <2>2 DEF Check
    <3>2. gen' \in Gen /\ gen'.pc = "Idle" /\ gen'.count <= gen'.step
      BY <3>1, EndedIs DEF IInv, Control
    <3>3. QED
      BY <2>1, <3>2, EndsLoop
  <2>3. CASE ~Refusable(request)
    <3>1. gen' = [gen EXCEPT !.pc = "Step"]
      BY <1>3, <2>3 DEF Check
    <3>2. /\ gen' \in Gen /\ gen'.pc = "Step" /\ gen'.step = gen.step /\ gen'.count = gen.count
          /\ gen'.residual = gen.residual
      BY <3>1 DEF Gen, Stages
    <3>3. LoopTypeOK' /\ Len(fed') = 0 /\ ~Refusable(request)'
      BY <2>1, <2>3, <3>2 DEF LoopTypeOK, IInv, Control, Refusable, Customised
    <3>4. QED
      BY <2>1, <3>2, <3>3 DEF IInv, Control, InCore, HoldsBlock
  <2>4. QED
    BY <2>2, <2>3
<1>4. QED
  BY <1>1, <1>2, <1>3

(* The latent moves. *)
LEMMA LoopMoves ==
  ASSUME IInv, NEW g \in Gen, gen.pc \in {"Step"} \cup CoreStages, gen' = Stepped(g),
         g.step = gen.step, g.count \in {gen.count, gen.count + 1},
         NEW by \in Moved, path' = Append(path, by),
         request.every > 1 => g.last # NoStep,
         UNCHANGED <<dense, request>>, fed' \in Seq(Layer), Len(fed') \in {0, request.layers}
  PROVE  LoopTypeOK' /\ Control'
<1> USE Typed, Numbers
<1>1. /\ gen.step < Steps /\ gen.step \in Nat /\ gen.step = Len(path) /\ gen.count \in Nat
      /\ gen.count <= gen.step /\ ~Refusable(request)
  <2>1. gen.pc # "Idle" /\ (gen.pc = "Step" \/ InCore)
    BY InCoreIs DEF CoreStages
  <2>2. gen.step \in Nat /\ gen.count \in Nat
    BY DEF Gen
  <2>3. QED
    BY <2>1, <2>2 DEF IInv, Control
<1>2. /\ gen' \in Gen /\ gen'.step = gen.step + 1 /\ gen'.pc \in {"Idle", "Step"}
      /\ gen'.pc = "Step" => gen'.step # Steps
      /\ gen'.count <= gen'.step /\ gen'.last = g.last
  <2>1. g.step < Steps /\ gen' = Stepped(g)
    BY <1>1
  <2>2. /\ gen' \in Gen /\ gen'.step = gen.step + 1 /\ gen'.count = g.count /\ gen'.last = g.last
        /\ gen'.pc = IF gen.step + 1 = Steps THEN "Idle" ELSE "Step"
    BY <1>1, <2>1, SteppedIs
  <2>3. gen'.pc \in {"Idle", "Step"} /\ (gen'.pc = "Step" => gen'.step # Steps)
    BY <2>2
  <2>4. g.count <= gen.step + 1
    BY <1>1
  <2>5. QED
    BY <2>2, <2>3, <2>4
<1>3. path' \in Seq(Moved) /\ Len(path') = gen.step + 1
  BY <1>1
<1>4. LoopTypeOK'
  BY <1>2, <1>3 DEF LoopTypeOK
<1>5. ~Refusable(request)'
  BY <1>1 DEF Refusable, Customised
<1>6. gen'.step \in 0..Steps /\ gen'.step > 0
  BY <1>1, <1>2
<1>7. QED
  BY <1>1, <1>2, <1>3, <1>4, <1>5, <1>6 DEF Control, InCore, HoldsBlock

LEMMA LoopSkips ==
  ASSUME IInv, Extrapolate \/ AddResidual \/ BeginCore
  PROVE  LoopTypeOK' /\ Control'
<1> USE Typed, Numbers
<1>0. /\ gen.pc = "Step" /\ gen.step \in 0..Steps - 1 /\ ~Refusable(request) /\ gen.count \in 0..Steps
      /\ fed' = <<>> /\ UNCHANGED <<dense, request>> /\ gen.count <= gen.step
  BY DEF Extrapolate, AddResidual, BeginCore, IInv, Control, Gen
<1>1. <<>> \in Seq(Layer) /\ Len(<<>>) = 0
  OBVIOUS
<1>2. CASE Extrapolate
  <2>1. gen.step # 0 /\ request.every > 1
    BY <1>0, <1>2, SkippedIs DEF Extrapolate
  <2>2. gen.last # NoStep
    BY <1>0, <2>1 DEF IInv, Control
  <2>3. path' = Append(path, [by |-> "Extrapolation", last |-> gen.last, prev |-> gen.prev])
        /\ gen' = Stepped(gen)
    BY <1>2, <2>2 DEF Extrapolate
  <2>4. [by |-> "Extrapolation", last |-> gen.last, prev |-> gen.prev] \in Moved
    BY DEF Moved, Gen
  <2>5. QED
    BY <1>0, <1>1, <2>2, <2>3, <2>4, LoopMoves
<1>3. CASE AddResidual
  <2>1. gen.residual # NoStep /\ gen.step # 0
    BY <1>0, <1>3 DEF AddResidual, EvaluatesCore, IInv, Control
  <2>2. request.every > 1 => gen.last # NoStep
    BY <1>0, <2>1 DEF IInv, Control
  <2>3. PICK g : g = [gen EXCEPT !.count = @ + 1]
    OBVIOUS
  <2>4. g \in Gen /\ g.step = gen.step /\ g.count = gen.count + 1 /\ g.last = gen.last
    <3>1. gen.count + 1 \in 0..Steps
      BY <1>0
    <3>2. QED
      BY <2>3, <3>1 DEF Gen
  <2>5. path' = Append(path, [by |-> "Residual", last |-> gen.residual, prev |-> NoStep])
        /\ gen' = Stepped(g)
    BY <1>3, <2>3 DEF AddResidual
  <2>6. [by |-> "Residual", last |-> gen.residual, prev |-> NoStep] \in Moved
    BY DEF Moved, Gen, StepOrNone
  <2>7. QED
    BY <1>0, <1>1, <2>2, <2>4, <2>5, <2>6, LoopMoves
<1>4. CASE BeginCore
  <2>1. gen' = [gen EXCEPT !.pc = "Acquire", !.layer = 0] /\ UNCHANGED path
    BY <1>4 DEF BeginCore
  <2>2. /\ gen' \in Gen /\ gen'.pc = "Acquire" /\ gen'.layer = 0 /\ gen'.step = gen.step
        /\ gen'.count = gen.count /\ gen'.residual = gen.residual /\ gen'.last = gen.last
    BY <2>1 DEF Gen, Stages
  <2>3. LoopTypeOK' /\ Len(fed') = 0 /\ ~Refusable(request)'
    BY <1>0, <1>1, <2>1, <2>2 DEF LoopTypeOK, Refusable, Customised
  <2>4. QED
    BY <1>0, <2>1, <2>2, <2>3 DEF IInv, Control, InCore, HoldsBlock
<1>5. QED
  BY <1>2, <1>3, <1>4

LEMMA LoopInLayer ==
  ASSUME IInv, AcquireBlock \/ AcquireFails \/ FetchNext \/ Modulate \/ ModulateAhead \/ Compute
  PROVE  LoopTypeOK' /\ Control'
<1> USE Typed, Numbers
<1>1. CASE AcquireBlock
  <2>1. PICK s \in Slots : gen' = [gen EXCEPT !.pc = AfterAcquire, !.mod = Unmodulated, !.view = s]
    BY <1>1, AcquiredIs
  <2>2. AfterAcquire \in CoreStages \ {"Join"} /\ AfterAcquire \in Stages
    BY DEF AfterAcquire, AfterFetch, CoreStages, Stages
  <2>3. /\ gen' \in Gen /\ gen'.pc = AfterAcquire /\ gen'.step = gen.step /\ gen'.layer = gen.layer
        /\ gen'.count = gen.count /\ gen'.residual = gen.residual /\ gen'.last = gen.last
    BY <2>1, <2>2 DEF Gen
  <2>4. gen.pc \in CoreStages \ {"Join"} /\ UNCHANGED <<dense, request, fed, path>>
    BY <1>1 DEF AcquireBlock, CoreStages
  <2>5. QED
    BY <2>2, <2>3, <2>4, WithinLayer
<1>2. CASE AcquireFails
  <2>1. gen' = Ended("Failed") /\ UNCHANGED <<dense, request, fed, path>>
    BY <1>2 DEF AcquireFails
  <2>2. gen' \in Gen /\ gen'.pc = "Idle" /\ gen'.count <= gen'.step
    BY <2>1, EndedIs DEF IInv, Control
  <2>3. QED
    BY <2>1, <2>2, EndsLoop
<1>3. CASE FetchNext \/ ModulateAhead
  <2>1. PICK place \in {"Modulate", "Compute"} : gen' = [gen EXCEPT !.pc = place]
    BY <1>3 DEF FetchNext, ModulateAhead, AfterFetch
  <2>2. /\ gen' \in Gen /\ gen'.pc = place /\ gen'.step = gen.step /\ gen'.layer = gen.layer
        /\ gen'.count = gen.count /\ gen'.residual = gen.residual /\ gen'.last = gen.last
    BY <2>1 DEF Gen, Stages
  <2>3. gen.pc \in CoreStages \ {"Join"} /\ UNCHANGED <<dense, request, fed, path>>
    BY <1>3 DEF FetchNext, ModulateAhead, CoreStages
  <2>4. QED
    BY <2>2, <2>3, WithinLayer DEF CoreStages
<1>4. CASE Modulate
  <2>1. PICK ok \in BOOLEAN : gen' = [gen EXCEPT !.pc = "Ahead", !.mod = LoadMod(gen.layer, ok).mod]
    BY <1>4 DEF Modulate
  <2>2. LoadMod(gen.layer, ok).mod \in Projections \cup {Unmodulated}
    <3>1. PICK b \in Layers : b = gen.layer
      BY DEF Gen
    <3>2. LoadMod(b, ok).mod \in {Unmodulated, <<dense, b>>}
      BY LoadModIs
    <3>3. QED
      BY <3>1, <3>2, ProjectionsAre
  <2>3. /\ gen' \in Gen /\ gen'.pc = "Ahead" /\ gen'.step = gen.step /\ gen'.layer = gen.layer
        /\ gen'.count = gen.count /\ gen'.residual = gen.residual /\ gen'.last = gen.last
    BY <2>1, <2>2 DEF Gen, Stages
  <2>4. gen.pc \in CoreStages \ {"Join"} /\ UNCHANGED <<dense, request, fed, path>>
    BY <1>4 DEF Modulate, CoreStages
  <2>5. QED
    BY <2>3, <2>4, WithinLayer DEF CoreStages
<1>5. CASE Compute
  <2>1. /\ gen.pc = "Compute" /\ gen' = [gen EXCEPT !.pc = "Join"]
        /\ fed' = Append(fed, [block |-> Content(gen.view), mod |-> gen.mod])
        /\ UNCHANGED <<dense, request, path>>
    BY <1>5 DEF Compute
  <2>2. /\ gen' \in Gen /\ gen'.pc = "Join" /\ gen'.step = gen.step /\ gen'.layer = gen.layer
        /\ gen'.count = gen.count /\ gen'.residual = gen.residual /\ gen'.last = gen.last
    BY <2>1 DEF Gen, Stages
  <2>3. [block |-> Content(gen.view), mod |-> gen.mod] \in Layer
    <3>1. gen.view \in Slots
      BY <2>1 DEF IInv, Window, HoldsBlock
    <3>2. Content(gen.view) \in Bytes
      BY <3>1 DEF Content, StoreTypeOK, Slot, Bytes
    <3>3. QED
      BY <3>2 DEF Layer, Gen
  <2>4. fed' \in Seq(Layer) /\ Len(fed') = Len(fed) + 1
    BY <2>1, <2>3
  <2>5. Len(fed) = gen.layer
    BY <2>1 DEF IInv, Control, InCore, HoldsBlock
  <2>6. LoopTypeOK' /\ (Refusable(request)' <=> Refusable(request))
    BY <2>1, <2>2, <2>4 DEF LoopTypeOK, Refusable, Customised
  <2>7. QED
    BY <2>1, <2>2, <2>4, <2>5, <2>6 DEF IInv, Control, InCore, HoldsBlock
<1>6. QED
  BY <1>1, <1>2, <1>3, <1>4, <1>5

(* Where CoreDone leaves the loop. *)
LEMMA CoreDoneIs ==
  ASSUME IInv, gen.pc = "Join"
  PROVE  \E g \in Gen : /\ CoreDone = Stepped(g) /\ g.step = gen.step
                        /\ g.outcome = gen.outcome /\ g.count = gen.count + 1
                        /\ request.every > 1 => g.last # NoStep
<1>1. gen \in Gen /\ gen.step \in 0..Steps - 1 /\ gen.count + 1 \in 0..Steps
  BY Typed, Numbers DEF IInv, Control, Gen
<1>2. gen.step \in StepOrNone /\ gen.step # NoStep
  BY <1>1, Numbers DEF StepOrNone, NoStep
<1>3. gen.residual \in StepOrNone /\ gen.prev \in StepOrNone /\ gen.last \in StepOrNone
  BY <1>1 DEF Gen
<1>4. PICK a \in StepOrNone : a = IF request.core > 1 THEN gen.step ELSE gen.residual
  BY <1>2, <1>3
<1>5. PICK b \in StepOrNone : b = IF request.every > 1 THEN gen.last ELSE gen.prev
  BY <1>3
<1>6. PICK c \in StepOrNone : c = IF request.every > 1 THEN gen.step ELSE gen.last
  BY <1>2, <1>3
<1>7. PICK n \in 0..Steps : n = gen.count + 1
  BY <1>1
<1>8. PICK h \in Gen : h = gen
  BY <1>1
<1>9. PICK g : g = [h EXCEPT !.count = n, !.residual = a, !.prev = b, !.last = c]
  OBVIOUS
<1>10. /\ g \in Gen /\ g.step = gen.step /\ g.outcome = gen.outcome
       /\ g.count = gen.count + 1 /\ g.last = c
  <2>1. g \in Gen /\ g.step = h.step /\ g.outcome = h.outcome /\ g.count = n /\ g.last = c
    BY <1>9 DEF Gen
  <2>2. QED
    BY <1>7, <1>8, <2>1
<1>11. CoreDone = Stepped(g)
  BY <1>4, <1>5, <1>6, <1>7, <1>8, <1>9 DEF CoreDone
<1>12. request.every > 1 => g.last # NoStep
  BY <1>2, <1>6, <1>10
<1>13. QED
  BY <1>10, <1>11, <1>12

LEMMA LoopLeavesLayer ==
  ASSUME IInv, FinishLayer \/ PrefetchFailed
  PROVE  LoopTypeOK' /\ Control'
<1> USE Typed, Numbers
<1>0. /\ gen.pc = "Join" /\ UNCHANGED <<dense, request, fed>>
      /\ gen.layer < request.layers /\ Len(fed) = gen.layer + 1
      /\ gen.layer \in Nat /\ request.layers \in 1..Depth
  BY DEF FinishLayer, PrefetchFailed, IInv, Control, InCore, HoldsBlock, Gen
<1>1. CASE PrefetchFailed
  <2>1. gen' = Ended("Failed") /\ UNCHANGED path
    BY <1>1 DEF PrefetchFailed
  <2>2. gen' \in Gen /\ gen'.pc = "Idle" /\ gen'.count <= gen'.step
    BY <2>1, EndedIs DEF IInv, Control
  <2>3. QED
    BY <1>0, <2>1, <2>2, EndsLoop
<1>2. CASE FinishLayer /\ LastLayer
  <2>1. PICK g \in Gen : /\ CoreDone = Stepped(g) /\ g.step = gen.step
                         /\ g.count = gen.count + 1
                         /\ request.every > 1 => g.last # NoStep
    BY <1>0, CoreDoneIs
  <2>2. gen' = Stepped(g) /\ path' = Append(path, [by |-> "Core", last |-> gen.step, prev |-> NoStep])
    BY <1>2, <2>1 DEF FinishLayer
  <2>3. [by |-> "Core", last |-> gen.step, prev |-> NoStep] \in Moved
    BY <1>0 DEF Moved, StepOrNone, IInv, Control, Gen
  <2>4. Len(fed) = request.layers
    BY <1>0, <1>2 DEF LastLayer
  <2>5. QED
    BY <1>0, <2>1, <2>2, <2>3, <2>4, LoopMoves DEF CoreStages
<1>3. CASE FinishLayer /\ ~LastLayer
  <2>1. gen' = [gen EXCEPT !.pc = "Acquire", !.layer = gen.layer + 1, !.view = NoSlot] /\ UNCHANGED path
    BY <1>3 DEF FinishLayer
  <2>2. gen.layer + 1 < request.layers /\ gen.layer + 1 \in Layers
    BY <1>0, <1>3 DEF LastLayer, Layers
  <2>3. /\ gen' \in Gen /\ gen'.pc = "Acquire" /\ gen'.step = gen.step /\ gen'.layer = gen.layer + 1
        /\ gen'.count = gen.count /\ gen'.residual = gen.residual /\ gen'.last = gen.last
    BY <2>1, <2>2 DEF Gen, Stages
  <2>4. LoopTypeOK' /\ (Refusable(request)' <=> Refusable(request))
    BY <1>0, <2>1, <2>3 DEF LoopTypeOK, Refusable, Customised
  <2>5. QED
    BY <1>0, <2>1, <2>2, <2>3, <2>4 DEF IInv, Control, InCore, HoldsBlock
<1>4. QED
  BY <1>1, <1>2, <1>3

LEMMA LoopStep == ASSUME IInv, Next PROVE LoopTypeOK' /\ Control'
<1>1. CASE HelperStep \/ ReaderStep
  <2>1. UNCHANGED <<dense, request, gen, fed, path>>
    BY <1>1, LoopStays
  <2>2. LoopTypeOK'
    BY <2>1, Typed DEF LoopTypeOK
  <2>3. Control'
    BY <2>1 DEF IInv, Control, InCore, HoldsBlock, Refusable, Customised
  <2>4. QED
    BY <2>2, <2>3
<1>2. QED
  BY <1>1, LoopBegins, LoopSkips, LoopInLayer, LoopLeavesLayer DEF Next, MainStep
-----------------------------------------------------------------------------
(* The window of blocks. *)
LEMMA StoreStays ==
  ASSUME IInv, UNCHANGED storeVars, HoldsBlock' <=> HoldsBlock,
         HoldsBlock => gen'.layer = gen.layer /\ gen'.view = gen.view,
         gen'.pc = "Fetch" => request'.stream,
         helper.pc # "Idle" => /\ UNCHANGED request
                               /\ gen'.pc \in {"Modulate", "Ahead", "Compute", "Join"}
  PROVE  Window'
<1>1. UNCHANGED <<meta, slot, older, helper, status>>
  BY DEF storeVars
<1>2. PinsAreTheLayer' /\ OneSlotPerBlock' /\ Ordered(older)'
  BY <1>1 DEF IInv, Window, PinsAreTheLayer, OneSlotPerBlock, Ordered
<1>3. QED
  BY <1>1, <1>2 DEF IInv, Window, Holding

LEMMA HelperRests ==
  ASSUME IInv, gen.pc \notin {"Modulate", "Ahead", "Compute", "Join"}
  PROVE  helper.pc = "Idle"
BY DEF IInv, Window

(* Nothing is pinned any more, or yet. *)
LEMMA NothingHeld ==
  ASSUME IInv, ~HoldsBlock
  PROVE  \A s \in Slots : slot[s].pins = 0
BY DEF IInv, Window, PinsAreTheLayer

LEMMA SlotTypes == ASSUME IInv PROVE slot \in [Slots -> Slot] /\ older \in [Slots -> SUBSET Slots]
BY Typed DEF StoreTypeOK

LEMMA PassesOver ==
  ASSUME IInv,
         \/ BindFailsEarly \/ Check \/ Extrapolate \/ AddResidual \/ BeginCore
         \/ \E r \in Requests : StartGeneration(r)
  PROVE  Window'
<1> USE Typed, Numbers
<1>1. ~HoldsBlock /\ helper.pc = "Idle"
  BY HelperRests DEF BindFailsEarly, Check, Extrapolate, AddResidual, BeginCore,
                     StartGeneration, Binding, HoldsBlock
<1>2. UNCHANGED storeVars
  BY DEF BindFailsEarly, Check, Extrapolate, AddResidual, BeginCore, StartGeneration, blockVars
<1>3. gen'.pc \in {"Idle", "Check", "Bind", "Rebind", "Step", "Acquire"}
  <2>1. CASE \E r \in Requests : StartGeneration(r)
    BY <2>1 DEF StartGeneration, Fresh
  <2>2. CASE BindFailsEarly
    BY <2>2 DEF BindFailsEarly, AfterFailedBind, Gen
  <2>3. CASE Check \/ BeginCore
    BY <2>3 DEF Check, BeginCore, Ended, Gen
  <2>4. CASE Extrapolate \/ AddResidual
    BY <2>4 DEF Extrapolate, AddResidual, Stepped, Gen
  <2>5. QED
    BY <2>1, <2>2, <2>3, <2>4
<1>4. ~HoldsBlock' /\ gen'.pc # "Fetch"
  BY <1>3 DEF HoldsBlock
<1>5. QED
  BY <1>1, <1>2, <1>4, StoreStays

LEMMA WorksOn ==
  ASSUME IInv, Modulate \/ ModulateAhead \/ Compute \/ ReaderStep
  PROVE  Window'
<1> USE Typed
<1>1. UNCHANGED storeVars /\ UNCHANGED request
  BY DEF Modulate, ModulateAhead, Compute, ReaderStep, blockVars, mainVars
<1>2. CASE ReaderStep
  BY <1>1, <1>2, LoopStays, StoreStays DEF IInv, Window, HoldsBlock
<1>3. CASE Modulate \/ ModulateAhead \/ Compute
  <2>1. /\ gen.pc \in {"Modulate", "Ahead", "Compute"} /\ gen'.pc \in {"Ahead", "Compute", "Join"}
        /\ gen'.layer = gen.layer /\ gen'.view = gen.view
    BY <1>3 DEF Modulate, ModulateAhead, Compute, Gen
  <2>2. HoldsBlock /\ HoldsBlock' /\ gen'.pc # "Fetch"
    BY <2>1 DEF HoldsBlock
  <2>3. QED
    BY <1>1, <2>1, <2>2, StoreStays
<1>4. QED
  BY <1>2, <1>3

LEMMA OpensWindow == ASSUME IInv, BindOk \/ BindFailsHalfWay PROVE Window'
<1> USE Typed
<1>1. /\ slot' = EmptySlots /\ older' = [s \in Slots |-> {}] /\ helper' = helper
      /\ helper.pc = "Idle"
  BY DEF BindOk, BindFailsHalfWay, Open
<1>2. gen'.pc \in {"Check", "Rebind"}
  BY DEF BindOk, BindFailsHalfWay, AfterFailedBind, Gen
<1>3. ~HoldsBlock'
  BY <1>2 DEF HoldsBlock
<1>4. \A s \in Slots : slot'[s].pins = 0 /\ slot'[s].index = NoLayer
  BY <1>1 DEF EmptySlots
<1>5. PinsAreTheLayer' /\ OneSlotPerBlock' /\ Ordered(older)'
  BY <1>1, <1>3, <1>4 DEF PinsAreTheLayer, OneSlotPerBlock, Ordered
<1>6. QED
  BY <1>1, <1>2, <1>3, <1>5 DEF Window

LEMMA AcquiresInWindow == ASSUME IInv, AcquireBlock PROVE Window'
<1> USE Typed, Numbers
<1>1. PICK s \in Slots :
           /\ gen' = [gen EXCEPT !.pc = AfterAcquire, !.mod = Unmodulated, !.view = s]
           /\ slot'[s].index = gen.layer /\ slot'[s].pins = 1
           /\ \A t \in Slots \ {s} : slot'[t] = slot[t] /\ slot[t].index # gen.layer
                                     /\ slot[t].pins = 0
           /\ older' = Touched(s) /\ UNCHANGED <<meta, helper, status>>
  BY AcquiredIs
<1>2. /\ gen'.pc \in {"Fetch", "Modulate", "Compute"} /\ gen'.view = s /\ gen'.layer = gen.layer
      /\ gen'.pc = "Fetch" => request'.stream
  BY <1>1 DEF AcquireBlock, AfterAcquire, AfterFetch, Gen
<1>3. HoldsBlock' /\ helper.pc = "Idle"
  BY <1>2, HelperRests DEF HoldsBlock, AcquireBlock
<1>4. PinsAreTheLayer'
  BY <1>1, <1>2, <1>3 DEF PinsAreTheLayer
<1>5. OneSlotPerBlock'
  BY <1>1 DEF IInv, Window, OneSlotPerBlock
<1>6. Ordered(older)'
  BY <1>1, SlotTypes, TouchedIs DEF IInv, Window, Ordered
<1>7. QED
  BY <1>1, <1>2, <1>3, <1>4, <1>5, <1>6 DEF Window

LEMMA FailsInWindow == ASSUME IInv, AcquireFails PROVE Window'
<1> USE Typed, Numbers
<1>1. /\ gen.pc = "Acquire" /\ gen'.pc = "Idle" /\ UNCHANGED request
  BY EndedIs DEF AcquireFails
<1>2. ~HoldsBlock /\ ~HoldsBlock' /\ helper.pc = "Idle" /\ gen'.pc # "Fetch"
  BY <1>1, HelperRests DEF HoldsBlock
<1>3. PICK b \in Layers : b = gen.layer
  BY DEF Gen
<1>4. CASE AcquireRefused(b)
  BY <1>2, <1>4, StoreStays DEF AcquireRefused
<1>5. CASE AcquireReadFails(b)
  <2>1. PICK s \in Victims : slot' \in Spoilt(s)
    BY <1>5 DEF AcquireReadFails
  <2>2. \A t \in Slots : slot'[t].index = slot[t].index /\ slot'[t].pins = slot[t].pins
    BY <2>1, VictimIs, SpoiltIs
  <2>3. UNCHANGED <<meta, older, helper>>
    BY <1>5 DEF AcquireReadFails
  <2>4. PinsAreTheLayer' /\ OneSlotPerBlock' /\ Ordered(older)'
    BY <1>2, <2>2, <2>3 DEF IInv, Window, PinsAreTheLayer, OneSlotPerBlock, Ordered
  <2>5. QED
    BY <1>2, <2>3, <2>4 DEF Window
<1>6. QED
  BY <1>3, <1>4, <1>5 DEF AcquireFails

LEMMA FetchesInWindow == ASSUME IInv, FetchNext PROVE Window'
<1> USE Typed, Numbers
<1>1. /\ gen.pc = "Fetch" /\ UNCHANGED <<meta, slot, older, request>>
      /\ helper' = [pc |-> "Spawned", layer |-> NextLayer, slot |-> NoSlot]
      /\ gen'.pc \in {"Modulate", "Compute"} /\ gen'.layer = gen.layer /\ gen'.view = gen.view
  BY DEF FetchNext, PrefetchAsync, AfterFetch, Gen
<1>2. HoldsBlock /\ HoldsBlock'
  BY <1>1 DEF HoldsBlock
<1>3. NextLayer \in Layers
  <2>1. gen.layer \in Layers
    BY DEF Gen
  <2>2. QED
    BY <2>1 DEF NextLayer, Layers
<1>4. request.stream
  BY <1>1 DEF IInv, Window
<1>5. PinsAreTheLayer' /\ OneSlotPerBlock' /\ Ordered(older)'
  BY <1>1, <1>2 DEF IInv, Window, PinsAreTheLayer, OneSlotPerBlock, Ordered
<1>6. QED
  BY <1>1, <1>2, <1>3, <1>4, <1>5 DEF IInv, Window

LEMMA LeavesWindow == ASSUME IInv, FinishLayer \/ PrefetchFailed PROVE Window'
<1> USE Typed, Numbers
<1>1. /\ gen.pc = "Join" /\ HoldsBlock /\ helper.pc = "Idle" /\ gen.layer \in Layers
      /\ UNCHANGED <<meta, older, helper>> /\ ReleaseBlock(gen.layer)
  <2>1. gen.pc = "Join" /\ HoldsBlock /\ gen.layer \in Layers /\ ReleaseBlock(gen.layer)
    BY DEF FinishLayer, PrefetchFailed, HoldsBlock, Gen
  <2>2. helper.pc = "Idle"
    BY DEF FinishLayer, PrefetchFailed, IInv, Window
  <2>3. QED
    BY <2>1, <2>2 DEF ReleaseBlock
<1>2. gen'.pc \in {"Idle", "Step", "Acquire"}
  BY DEF FinishLayer, PrefetchFailed, CoreDone, Stepped, Ended, Gen
<1>3. PICK b \in Layers : b = gen.layer
  BY <1>1
<1>4. PICK s \in Slots : s = gen.view /\ slot[s].index = b
  BY <1>1, <1>3 DEF IInv, Window
<1>5. Found(b) = s /\ Holding(b) # {}
  <2>1. Holding(b) # {}
    BY <1>4 DEF Holding
  <2>2. Found(b) \in Slots /\ slot[Found(b)].index = b
    BY <2>1, FoundIs
  <2>3. QED
    BY <1>4, <2>1, <2>2 DEF IInv, Window, OneSlotPerBlock
<1>6. slot[s].pins = 1 /\ \A t \in Slots \ {s} : slot[t].pins = 0
  BY <1>1, <1>3, <1>4 DEF IInv, Window, OneSlotPerBlock, PinsAreTheLayer
<1>7. slot' = [slot EXCEPT ![s].pins = 0]
  <2>1. slot' = [slot EXCEPT ![s].pins = IF slot[s].pins > 0 THEN slot[s].pins - 1 ELSE slot[s].pins]
    BY <1>1, <1>3, <1>5 DEF ReleaseBlock
  <2>2. (IF slot[s].pins > 0 THEN slot[s].pins - 1 ELSE slot[s].pins) = 0
    BY <1>6
  <2>3. QED
    BY <2>1, <2>2
<1>8. \A t \in Slots : slot'[t].pins = 0 /\ slot'[t].index = slot[t].index
  BY <1>6, <1>7, PinnedIs
<1>9. ~HoldsBlock'
  BY <1>2 DEF HoldsBlock
<1>10. PinsAreTheLayer' /\ OneSlotPerBlock' /\ Ordered(older)'
  BY <1>1, <1>8, <1>9 DEF IInv, Window, PinsAreTheLayer, OneSlotPerBlock, Ordered
<1>11. QED
  BY <1>1, <1>2, <1>9, <1>10 DEF Window

(* What the helper thread does in the window: never to the slot in use. *)
LEMMA HelperInWindow == ASSUME IInv, HelperStep PROVE Window'
<1> USE Typed, Numbers
<1>1. /\ helper.pc # "Idle" /\ helper.layer \in Layers /\ request.stream /\ HoldsBlock
      /\ UNCHANGED <<dense, request, gen>> /\ gen.pc \in {"Modulate", "Ahead", "Compute", "Join"}
      /\ meta' = meta /\ helper \in Helper
  <2>1. helper.pc # "Idle" /\ meta' = meta
    BY DEF HelperStep, PrefetchSkips, PrefetchBegins, PrefetchReads, PrefetchReadFails
  <2>2. QED
    BY <2>1, LoopStays DEF IInv, Window, HoldsBlock, StoreTypeOK
<1>2. PICK b \in Layers : b = helper.layer
  BY <1>1
<1>3. HoldsBlock' /\ gen'.pc # "Fetch"
  BY <1>1 DEF HoldsBlock
<1>4. Resting.pc = "Idle"
  BY DEF Resting
<1>5. CASE PrefetchSkips
  <2>1. slot' = slot /\ helper' = Resting
        /\ (older' = older \/ (Holding(b) # {} /\ older' = Touched(Found(b))))
    BY <1>2, <1>5 DEF PrefetchSkips
  <2>2. Ordered(older)'
    <3>1. CASE older' = older
      BY <3>1 DEF IInv, Window, Ordered
    <3>2. CASE Holding(b) # {} /\ older' = Touched(Found(b))
      <4>1. PICK s \in Slots : s = Found(b)
        BY <3>2, FoundIs
      <4>2. QED
        BY <3>2, <4>1, SlotTypes, TouchedIs DEF IInv, Window, Ordered
    <3>3. QED
      BY <2>1, <3>1, <3>2
  <2>3. PinsAreTheLayer' /\ OneSlotPerBlock'
    BY <1>1, <1>3, <2>1 DEF IInv, Window, PinsAreTheLayer, OneSlotPerBlock
  <2>4. QED
    BY <1>1, <1>3, <1>4, <2>1, <2>2, <2>3 DEF IInv, Window
<1>6. CASE PrefetchBegins
  <2>1. PICK s \in Victims : helper' = [helper EXCEPT !.pc = "Reading", !.slot = s]
    BY <1>6 DEF PrefetchBegins
  <2>2. s \in Slots /\ slot[s].pins = 0 /\ UNCHANGED <<slot, older>> /\ meta[b] # NoModel
        /\ Holding(b) = {}
    BY <1>2, <1>6, <2>1, VictimIs DEF PrefetchBegins
  <2>3. helper'.pc = "Reading" /\ helper'.slot = s /\ helper'.layer = b
    BY <1>1, <1>2, <2>1 DEF Helper
  <2>4. PinsAreTheLayer' /\ OneSlotPerBlock' /\ Ordered(older)'
    BY <1>1, <1>3, <2>2 DEF IInv, Window, PinsAreTheLayer, OneSlotPerBlock, Ordered
  <2>5. Holding(b)' = {}
    BY <2>2 DEF Holding
  <2>6. QED
    BY <1>1, <1>3, <2>2, <2>3, <2>4, <2>5 DEF IInv, Window
<1>7. CASE PrefetchReads \/ PrefetchReadFails
  <2>1. PICK s \in Slots : s = helper.slot /\ slot[s].pins = 0 /\ helper' = Resting
                            /\ Holding(b) = {} /\ meta[b] # NoModel
    BY <1>2, <1>7 DEF PrefetchReads, PrefetchReadFails, IInv, Window
  <2>2. s # gen.view /\ gen.view \in Slots /\ slot[gen.view].index = gen.layer /\ b # gen.layer
    BY <1>1, <2>1 DEF IInv, Window, PinsAreTheLayer, Holding
  <2>3. \A t \in Slots \ {s} : slot'[t] = slot[t]
    <3>1. CASE PrefetchReads
      BY <1>2, <2>1, <3>1, FilledIs DEF PrefetchReads
    <3>2. CASE PrefetchReadFails
      BY <2>1, <3>2, SpoiltIs DEF PrefetchReadFails
    <3>3. QED
      BY <1>7, <3>1, <3>2
  <2>4. slot'[s].pins = 0 /\ slot'[s].index \in {b, slot[s].index}
    <3>1. CASE PrefetchReads
      BY <1>2, <2>1, <3>1, FilledIs DEF PrefetchReads
    <3>2. CASE PrefetchReadFails
      BY <2>1, <3>2, SpoiltIs DEF PrefetchReadFails
    <3>3. QED
      BY <1>7, <3>1, <3>2
  <2>5. \A t \in Slots \ {s} : slot[t].index # b
    BY <2>1 DEF Holding
  <2>6. slot[s].index # gen.layer
    BY <1>1, <2>1 DEF IInv, Window, PinsAreTheLayer
  <2>7. PinsAreTheLayer'
    BY <1>1, <1>3, <2>2, <2>3, <2>4, <2>6 DEF IInv, Window, PinsAreTheLayer
  <2>8. OneSlotPerBlock'
    BY <2>3, <2>4, <2>5 DEF IInv, Window, OneSlotPerBlock
  <2>9. Ordered(older)'
    BY <1>7, <2>1, SlotTypes, TouchedIs DEF PrefetchReads, PrefetchReadFails, IInv, Window, Ordered
  <2>10. slot'[gen.view] = slot[gen.view]
    BY <2>2, <2>3
  <2>11. QED
    BY <1>1, <1>3, <1>4, <2>1, <2>2, <2>7, <2>8, <2>9, <2>10 DEF Window
<1>8. QED
  BY <1>5, <1>6, <1>7 DEF HelperStep

LEMMA WindowStep == ASSUME IInv, Next PROVE Window'
BY PassesOver, WorksOn, OpensWindow, AcquiresInWindow, FailsInWindow, FetchesInWindow,
   LeavesWindow, HelperInWindow DEF Next, MainStep
-----------------------------------------------------------------------------
(* Whose weights are there. *)
LEMMA SoundBefore == ASSUME IInv, Next PROVE Sound' => Sound
BY FaultsGrow DEF Sound

LEMMA FaultIs ==
  ASSUME NEW kind, Fault(kind)
  PROVE  kind \in {"Bind", "Block"} => ~Sound'
BY DEF Fault, Sound

LEMMA WeightsStay ==
  ASSUME IInv, Next, UNCHANGED <<meta, dense>>, status' \in {status, "Ok"},
         \A s \in Slots : /\ slot'[s].index = slot[s].index
                          /\ slot'[s].bytes = slot[s].bytes,
         gen'.pc \notin {"Idle", "Bind"} => \/ dense = request'.want
                                         \/ (UNCHANGED request /\ gen.pc \notin {"Idle", "Bind"})
  PROVE  Weights'
BY SoundBefore DEF IInv, Weights

LEMMA WeightsOfLoop ==
  ASSUME IInv, Next,
         \/ Check \/ Extrapolate \/ AddResidual \/ BeginCore \/ FetchNext
         \/ Modulate \/ ModulateAhead \/ Compute \/ ReaderStep
         \/ \E r \in Requests : StartGeneration(r)
  PROVE  Weights'
<1> USE Typed
<1>1. UNCHANGED <<meta, dense, slot>> /\ status' \in {status, "Ok"}
  <2>1. CASE FetchNext
    BY <2>1 DEF FetchNext, PrefetchAsync
  <2>2. CASE \/ Check \/ Extrapolate \/ AddResidual \/ BeginCore
             \/ Modulate \/ ModulateAhead \/ Compute \/ ReaderStep
             \/ \E r \in Requests : StartGeneration(r)
    BY <2>2 DEF Check, Extrapolate, AddResidual, BeginCore, Modulate, ModulateAhead, Compute,
                ReaderStep, StartGeneration, blockVars, storeVars, mainVars
  <2>3. QED
    BY <2>1, <2>2
<1>2. CASE \E r \in Requests : StartGeneration(r)
  <2>1. gen'.pc \notin {"Idle", "Bind"} => dense = request'.want
    BY <1>2 DEF StartGeneration, Fresh
  <2>2. meta' = meta /\ dense' = dense /\ slot' = slot
    BY <1>1
  <2>3. QED
    BY <1>1, <2>1, <2>2, SoundBefore DEF IInv, Weights
<1>3. CASE \/ Check \/ Extrapolate \/ AddResidual \/ BeginCore \/ FetchNext
           \/ Modulate \/ ModulateAhead \/ Compute
  <2>1. gen.pc \notin {"Idle", "Bind"} /\ UNCHANGED request
    BY <1>3 DEF Check, Extrapolate, AddResidual, BeginCore, FetchNext, Modulate, ModulateAhead, Compute
  <2>2. QED
    BY <1>1, <2>1, WeightsStay
<1>4. CASE ReaderStep
  BY <1>1, <1>4, LoopStays, WeightsStay
<1>5. QED
  BY <1>2, <1>3, <1>4

LEMMA WeightsBound ==
  ASSUME IInv, Next, BindOk \/ BindFailsEarly \/ BindFailsHalfWay
  PROVE  Weights'
<1> USE Typed, Numbers
<1>1. CASE BindOk
  <2>1. /\ meta' = [b \in Layers |-> IF b < Depth THEN BindTarget ELSE NoModel]
        /\ slot' = EmptySlots /\ UNCHANGED <<status, request>> /\ dense' = BindTarget
        /\ gen.pc \in {"Bind", "Rebind"}
    BY <1>1 DEF BindOk, Open, Binding
  <2>2. \A b \in Layers : meta'[b] = dense'
    BY <2>1
  <2>3. \A s \in Slots : slot'[s].index = NoLayer
    BY <2>1 DEF EmptySlots
  <2>4. Sound => dense' = request.want
    BY <2>1 DEF BindTarget, IInv, Weights
  <2>5. QED
    BY <2>1, <2>2, <2>3, <2>4, SoundBefore DEF IInv, Weights
<1>2. CASE BindFailsEarly \/ BindFailsHalfWay
  <2>1. ~Sound'
    BY <1>2, FaultIs DEF BindFailsEarly, BindFailsHalfWay
  <2>2. QED
    BY <2>1 DEF Weights
<1>3. QED
  BY <1>1, <1>2

LEMMA WeightsAcquired ==
  ASSUME IInv, Next, AcquireBlock \/ AcquireFails
  PROVE  Weights'
<1> USE Typed, Numbers
<1>0. gen.pc = "Acquire" /\ UNCHANGED <<dense, request>>
  BY DEF AcquireBlock, AcquireFails
<1>1. CASE AcquireBlock
  <2>1. PICK s \in Slots :
           /\ slot'[s].index = gen.layer
           /\ \/ slot[s].index = gen.layer /\ slot'[s].bytes = slot[s].bytes
              \/ slot'[s].bytes = <<meta[gen.layer], gen.layer>>
           /\ \A t \in Slots \ {s} : slot'[t] = slot[t]
           /\ UNCHANGED <<meta, status>>
    BY <1>1, AcquiredIs
  <2>2. gen.layer \in Layers
    BY DEF Gen
  <2>3. Sound => \A t \in Slots : slot'[t].index # NoLayer =>
                                   slot'[t].bytes = <<dense, slot'[t].index>>
    BY <2>1, <2>2 DEF IInv, Weights
  <2>4. QED
    BY <1>0, <2>1, <2>3, SoundBefore DEF IInv, Weights
<1>2. CASE AcquireFails
  <2>1. gen'.pc = "Idle"
    BY <1>2, EndedIs DEF AcquireFails
  <2>2. CASE AcquireRefused(gen.layer)
    <3>1. UNCHANGED storeVars
      BY <2>2 DEF AcquireRefused
    <3>2. QED
      BY <1>0, <2>1, <3>1, WeightsStay DEF storeVars
  <2>3. CASE Fault("Block")
    BY <2>3, FaultIs DEF Weights
  <2>4. QED
    BY <1>2, <2>2, <2>3 DEF AcquireFails
<1>3. QED
  BY <1>1, <1>2

LEMMA WeightsReleased ==
  ASSUME IInv, Next, FinishLayer \/ PrefetchFailed
  PROVE  Weights'
<1> USE Typed, Numbers
<1>1. gen.pc = "Join" /\ UNCHANGED <<dense, request>> /\ ReleaseBlock(gen.layer)
  BY DEF FinishLayer, PrefetchFailed
<1>2. \A s \in Slots : slot'[s].index = slot[s].index /\ slot'[s].bytes = slot[s].bytes
  <2>1. CASE Holding(gen.layer) = {}
    BY <1>1, <2>1 DEF ReleaseBlock
  <2>2. CASE Holding(gen.layer) # {}
    <3>1. PICK s \in Slots : s = Found(gen.layer)
      BY <2>2, FoundIs
    <3>2. PICK n \in Nat : n = IF slot[s].pins > 0 THEN slot[s].pins - 1 ELSE slot[s].pins
      BY DEF StoreTypeOK, Slot
    <3>3. slot' = [slot EXCEPT ![s].pins = n]
      BY <1>1, <2>2, <3>1, <3>2 DEF ReleaseBlock
    <3>4. QED
      BY <3>3, PinnedIs
  <2>3. QED
    BY <2>1, <2>2
<1>3. UNCHANGED <<meta, status>>
  BY <1>1 DEF ReleaseBlock
<1>4. QED
  BY <1>1, <1>2, <1>3, WeightsStay

LEMMA WeightsReadAhead ==
  ASSUME IInv, Next, HelperStep
  PROVE  Weights'
<1> USE Typed, Numbers, ToldApart
<1>0. UNCHANGED <<dense, request, gen>> /\ helper.pc # "Idle" /\ helper.layer \in Layers
  BY LoopStays DEF HelperStep, PrefetchSkips, PrefetchBegins, PrefetchReads, PrefetchReadFails,
                   IInv, Window
<1>1. CASE PrefetchSkips
  <2>1. UNCHANGED <<meta, slot>> /\ (status' = status \/ meta[helper.layer] = NoModel)
    BY <1>1 DEF PrefetchSkips
  <2>2. status' = status \/ ~Sound
    BY <1>0, <2>1 DEF IInv, Weights
  <2>3. QED
    BY <1>0, <2>1, <2>2, SoundBefore DEF IInv, Weights
<1>2. CASE PrefetchBegins
  BY <1>0, <1>2, WeightsStay DEF PrefetchBegins
<1>3. CASE PrefetchReads
  <2>1. PICK s \in Slots, b \in Layers : /\ s = helper.slot /\ b = helper.layer /\ slot[s].pins = 0
                                        /\ meta[b] # NoModel
    BY <1>0, <1>3 DEF PrefetchReads, IInv, Window
  <2>2. slot' = Filled(s, b, 0) /\ UNCHANGED <<meta, status>>
    BY <1>3, <2>1 DEF PrefetchReads
  <2>3. /\ slot'[s].index = b /\ slot'[s].bytes = <<meta[b], b>>
        /\ \A t \in Slots \ {s} : slot'[t] = slot[t]
    BY <2>1, <2>2, FilledIs
  <2>4. Sound => \A t \in Slots : slot'[t].index # NoLayer =>
                                   slot'[t].bytes = <<dense, slot'[t].index>>
    BY <2>3 DEF IInv, Weights
  <2>5. QED
    BY <1>0, <2>2, <2>4, SoundBefore DEF IInv, Weights
<1>4. CASE Fault("Block")
  <2>1. ~Sound'
    BY <1>4, FaultIs
  <2>2. QED
    BY <2>1 DEF Weights
<1>5. QED
  BY <1>1, <1>2, <1>3, <1>4 DEF HelperStep

LEMMA WeightsStep == ASSUME IInv, Next PROVE Weights'
BY WeightsOfLoop, WeightsBound, WeightsAcquired, WeightsReleased, WeightsReadAhead
   DEF Next, MainStep
-----------------------------------------------------------------------------
(* Whose projections there are. *)
LEMMA SureBefore == ASSUME IInv, Next PROVE (Sure' => Sure) /\ UNCHANGED setting
<1>1. UNCHANGED setting
  <2>1. CASE UNCHANGED adalnVars
    BY <2>1 DEF adalnVars
  <2>2. CASE \/ BindOk \/ BindFailsEarly \/ BindFailsHalfWay \/ Modulate \/ ModulateAhead \/ ReaderStep
    BY <2>2 DEF BindOk, BindFailsEarly, BindFailsHalfWay, Modulate, ModulateAhead, ReaderStep,
                AdalnBind, AdalnClose, Loaded, AdalnPrefetch, ReaderReads, ReaderFails
  <2>3. CASE \/ Check \/ Extrapolate \/ AddResidual \/ BeginCore \/ AcquireBlock \/ AcquireFails
             \/ FetchNext \/ Compute \/ FinishLayer \/ PrefetchFailed
             \/ HelperStep \/ \E r \in Requests : StartGeneration(r)
    BY <2>1, <2>3 DEF Check, Extrapolate, AddResidual, BeginCore, AcquireBlock, AcquireFails, FetchNext,
                 Compute, FinishLayer, PrefetchFailed, HelperStep, StartGeneration
  <2>4. QED
    BY <2>2, <2>3 DEF Next, MainStep
<1>2. QED
  BY <1>1, FaultsGrow DEF Sure

LEMMA ModFaultIs ==
  ASSUME NEW kind \in {"Bind", "Mod"}, Fault(kind)
  PROVE  ~Sure'
BY DEF Fault, Sure

(* A layer that has a projection is given one, if its file can be read. *)
LEMMA LoadModFinds ==
  ASSUME IInv, Sure, NEW b \in Usable
  PROVE  LoadMod(b, TRUE).mod # Unmodulated
<1> USE Typed, ToldApart
<1>1. adaln = [of |-> dense, mode |-> setting, open |-> setting # "Resident", resident |-> Wanted]
  BY DEF IInv, Modulation, Sure, BoundTo
<1>2. /\ adaln.open <=> setting # "Resident"
      /\ adaln.resident = Wanted
  BY <1>1
<1>3. setting = "Resident" => Wanted = Usable
  BY DEF Wanted
<1>4. HasProjection(b)
  BY <1>2, <1>3 DEF HasProjection
<1>5. b \notin adaln.resident => Readable(b)
  BY <1>2, <1>3 DEF Readable
<1>6. <<adaln.of, b>> # Unmodulated
  BY DEF Unmodulated
<1>7. ReadAhead(b) => ahead # Unmodulated
  BY DEF ReadAhead
<1>8. QED
  BY <1>4, <1>5, <1>6, <1>7 DEF LoadMod

LEMMA ModulationStays ==
  ASSUME IInv, Next, UNCHANGED adalnVars, UNCHANGED dense, fed' \in {fed, <<>>},
         reader # NoLayer => gen'.pc \in {"Compute", "Join"},
         HoldsBlock' => \/ gen'.mod = Unmodulated
                        \/ HoldsBlock /\ gen'.mod = gen.mod /\ gen'.layer = gen.layer,
         gen'.pc \in {"Ahead", "Compute"} => \/ ~Sure \/ gen'.layer \notin Usable
                                           \/ UNCHANGED gen
  PROVE  Modulation'
<1>1. UNCHANGED <<setting, adaln, ahead, reader, readerSt>>
  BY DEF adalnVars
<1>2. (Sure' => Sure) /\ Wanted' = Wanted /\ BoundTo(dense, Wanted)' = BoundTo(dense, Wanted)
  BY <1>1, SureBefore DEF Wanted, BoundTo
<1>3. ReaderIsAlone'
  BY <1>1 DEF IInv, Modulation, ReaderIsAlone
<1>4. ModulationIsOfTheLayer' /\ ModulatedWhereUsable'
  <2>1. CASE fed' = fed
    BY <1>1, <1>2, <2>1 DEF IInv, Modulation, ModulationIsOfTheLayer, ModulatedWhereUsable, Sure
  <2>2. CASE fed' = <<>>
    BY <2>2 DEF ModulationIsOfTheLayer, ModulatedWhereUsable
  <2>3. QED
    BY <2>1, <2>2
<1>5. HoldsBlock' => gen'.mod \in {Unmodulated, <<dense', gen'.layer>>}
  BY DEF IInv, Modulation
<1>6. Sure' /\ gen'.pc \in {"Ahead", "Compute"} /\ gen'.layer \in Usable => gen'.mod # Unmodulated
  BY <1>2 DEF IInv, Modulation
<1>7. Sure' => adaln' = BoundTo(dense, Wanted)'
  BY <1>1, <1>2 DEF IInv, Modulation
<1>8. QED
  BY <1>1, <1>3, <1>4, <1>5, <1>6, <1>7 DEF IInv, Modulation

LEMMA NotModulated ==
  ASSUME IInv, Sure, ~Modulated
  PROVE  Usable = {}
BY Typed DEF IInv, Modulation, Modulated, BoundTo, Sure, AdalnTypeOK, Settings

LEMMA ModulationOfLoop ==
  ASSUME IInv, Next,
         \/ Check \/ Extrapolate \/ AddResidual \/ BeginCore \/ AcquireBlock \/ AcquireFails
         \/ FetchNext \/ FinishLayer \/ PrefetchFailed
         \/ HelperStep \/ \E r \in Requests : StartGeneration(r)
  PROVE  Modulation'
<1> USE Typed, Numbers
<1>1. UNCHANGED adalnVars /\ UNCHANGED dense /\ fed' \in {fed, <<>>}
  BY DEF Check, Extrapolate, AddResidual, BeginCore, AcquireBlock, AcquireFails, FetchNext,
         FinishLayer, PrefetchFailed, HelperStep, mainVars, StartGeneration
<1>2. CASE HelperStep
  <2>1. UNCHANGED gen
    BY <1>2, LoopStays
  <2>2. QED
    BY <1>1, <2>1, ModulationStays DEF IInv, Modulation, ReaderIsAlone, HoldsBlock
<1>3. CASE \/ Check \/ Extrapolate \/ AddResidual \/ BeginCore \/ AcquireFails
           \/ FinishLayer \/ PrefetchFailed \/ \E r \in Requests : StartGeneration(r)
  <2>1. reader = NoLayer
    BY <1>3 DEF Check, Extrapolate, AddResidual, BeginCore, AcquireFails, FinishLayer,
                PrefetchFailed, StartGeneration, IInv, Modulation, ReaderIsAlone
  <2>2. gen'.pc \in {"Idle", "Check", "Bind", "Step", "Acquire"}
    <3>1. CASE \E r \in Requests : StartGeneration(r)
      BY <3>1 DEF StartGeneration, Fresh
    <3>2. CASE Check \/ BeginCore
      BY <3>2 DEF Check, BeginCore, Ended, Gen
    <3>3. CASE Extrapolate \/ AddResidual
      BY <3>3 DEF Extrapolate, AddResidual, Stepped, Gen
    <3>4. CASE AcquireFails \/ FinishLayer \/ PrefetchFailed
      BY <3>4 DEF AcquireFails, FinishLayer, PrefetchFailed, CoreDone, Stepped, Ended, Gen
    <3>5. QED
      BY <1>3, <3>1, <3>2, <3>3, <3>4
  <2>3. ~HoldsBlock'
    BY <2>2 DEF HoldsBlock
  <2>4. QED
    BY <1>1, <2>1, <2>2, <2>3, ModulationStays
<1>4. CASE AcquireBlock \/ FetchNext
  <2>1. gen.pc \in {"Acquire", "Fetch"} /\ gen'.pc \in {"Fetch", "Modulate", "Compute"}
        /\ (gen'.pc = "Compute" => ~Modulated)
    <3>1. CASE AcquireBlock
      <4>1. gen.pc = "Acquire" /\ gen'.pc = AfterAcquire
        BY <3>1 DEF AcquireBlock, Gen
      <4>2. QED
        BY <4>1 DEF AfterAcquire, AfterFetch
    <3>2. CASE FetchNext
      <4>1. gen.pc = "Fetch" /\ gen'.pc = AfterFetch
        BY <3>2 DEF FetchNext, Gen
      <4>2. QED
        BY <4>1 DEF AfterFetch
    <3>3. QED
      BY <1>4, <3>1, <3>2
  <2>2. reader = NoLayer
    BY <2>1 DEF IInv, Modulation, ReaderIsAlone
  <2>3. gen'.pc \in {"Ahead", "Compute"} => ~Sure \/ gen'.layer \notin Usable
    BY <2>1, NotModulated
  <2>4. gen'.mod = Unmodulated \/ (HoldsBlock /\ gen'.mod = gen.mod /\ gen'.layer = gen.layer)
    BY <1>4 DEF AcquireBlock, FetchNext, HoldsBlock, Gen
  <2>5. QED
    BY <1>1, <2>2, <2>3, <2>4, ModulationStays
<1>5. QED
  BY <1>2, <1>3, <1>4

LEMMA ModulationOfReader ==
  ASSUME IInv, Next, ReaderStep
  PROVE  Modulation'
<1> USE Typed, Numbers
<1>1. /\ UNCHANGED <<dense, gen, fed, setting, adaln>>
      /\ reader # NoLayer /\ reader' = NoLayer /\ ahead' \in {ahead, <<adaln.of, reader>>}
  BY LoopStays DEF ReaderStep, ReaderReads, ReaderFails
<1>2. adaln.of = dense
  BY <1>1 DEF IInv, Modulation, ReaderIsAlone
<1>3. ahead' # Unmodulated => ahead'[1] = dense
  BY <1>1, <1>2 DEF IInv, Modulation
<1>4. (Sure' => Sure) /\ Wanted' = Wanted /\ BoundTo(dense, Wanted)' = BoundTo(dense, Wanted)
  BY <1>1, SureBefore DEF Wanted, BoundTo
<1>5. ReaderIsAlone' /\ ModulationIsOfTheLayer' /\ ModulatedWhereUsable'
  BY <1>1, <1>4 DEF IInv, Modulation, ReaderIsAlone, ModulationIsOfTheLayer, ModulatedWhereUsable, Sure
<1>6. QED
  BY <1>1, <1>3, <1>4, <1>5 DEF IInv, Modulation, HoldsBlock

LEMMA ModulationBound ==
  ASSUME IInv, Next, BindOk \/ BindFailsEarly \/ BindFailsHalfWay
  PROVE  Modulation'
<1> USE Typed, Numbers
<1>1. /\ gen.pc \in {"Bind", "Rebind"} /\ gen'.pc \in {"Check", "Rebind"} /\ fed' = fed
      /\ UNCHANGED <<setting, reader>> /\ reader = NoLayer /\ ahead' = Unmodulated
  BY DEF BindOk, BindFailsEarly, BindFailsHalfWay, Binding, AfterFailedBind, AdalnClose, AdalnBind, Gen
<1>2. fed' = <<>>
  BY <1>1 DEF IInv, Control
<1>3. ReaderIsAlone' /\ ModulationIsOfTheLayer' /\ ModulatedWhereUsable' /\ ~HoldsBlock'
  BY <1>1, <1>2 DEF ReaderIsAlone, ModulationIsOfTheLayer, ModulatedWhereUsable, HoldsBlock
<1>4. CASE BindOk
  <2>1. PICK m \in Models, resident \in SUBSET Wanted :
          /\ dense' = m /\ adaln' = BoundTo(m, resident)
          /\ resident = Wanted \/ Fault("Mod")
    BY <1>4 DEF BindOk, AdalnBind, BindTarget
  <2>2. adaln'.open \/ adaln'.resident # {} => adaln'.of = dense'
    BY <2>1, BoundToIs DEF AdalnTypeOK
  <2>3. Sure' => adaln' = BoundTo(m, Wanted)
    BY <2>1, ModFaultIs
  <2>4. BoundTo(dense, Wanted)' = BoundTo(m, Wanted)
    BY <1>1, <2>1 DEF BoundTo, Wanted
  <2>5. QED
    BY <1>1, <1>3, <2>2, <2>3, <2>4 DEF Modulation
<1>5. CASE BindFailsEarly \/ BindFailsHalfWay
  <2>1. ~Sure' /\ adaln' = ClosedStore
    BY <1>5, ModFaultIs DEF BindFailsEarly, BindFailsHalfWay, AdalnClose
  <2>2. ~adaln'.open /\ adaln'.resident = {}
    BY <2>1 DEF ClosedStore
  <2>3. QED
    BY <1>1, <1>3, <2>1, <2>2 DEF Modulation
<1>6. QED
  BY <1>4, <1>5

LEMMA ModulationOfLayer ==
  ASSUME IInv, Next, Modulate \/ ModulateAhead \/ Compute
  PROVE  Modulation'
<1> USE Typed, Numbers
<1>1. UNCHANGED <<dense, adaln, setting>> /\ gen.layer \in Layers /\ HoldsBlock
  BY DEF Modulate, ModulateAhead, Compute, Loaded, AdalnPrefetch, adalnVars, Gen, HoldsBlock
<1>2. (Sure' => Sure) /\ Wanted' = Wanted /\ BoundTo(dense, Wanted)' = BoundTo(dense, Wanted)
  BY <1>1, SureBefore DEF Wanted, BoundTo
<1>3. (Sure' => adaln' = BoundTo(dense, Wanted)')
      /\ (adaln'.open \/ adaln'.resident # {} => adaln'.of = dense')
  BY <1>1, <1>2 DEF IInv, Modulation
<1>4. CASE Modulate
  <2>1. PICK ok \in BOOLEAN :
          /\ Loaded(gen.layer, ok)
          /\ gen' = [gen EXCEPT !.pc = "Ahead", !.mod = LoadMod(gen.layer, ok).mod]
          /\ LoadMod(gen.layer, ok) = LoadMod(gen.layer, TRUE) \/ Fault("Mod")
    BY <1>4 DEF Modulate
  <2>2. gen'.pc = "Ahead" /\ gen'.layer = gen.layer /\ gen'.mod = LoadMod(gen.layer, ok).mod
        /\ UNCHANGED <<fed, reader>> /\ reader = NoLayer /\ ahead' \in {ahead, Unmodulated}
    BY <1>4, <2>1 DEF Modulate, Loaded, Gen
  <2>3. gen'.mod \in {Unmodulated, <<dense, gen.layer>>}
    BY <1>1, <2>2, LoadModIs
  <2>4. Sure' /\ gen.layer \in Usable => gen'.mod # Unmodulated
    <3>1. SUFFICES ASSUME Sure', gen.layer \in Usable PROVE gen'.mod # Unmodulated
      OBVIOUS
    <3>2. Sure /\ LoadMod(gen.layer, ok) = LoadMod(gen.layer, TRUE)
      BY <1>2, <2>1, <3>1, ModFaultIs
    <3>3. LoadMod(gen.layer, TRUE).mod # Unmodulated
      BY <3>1, <3>2, LoadModFinds
    <3>4. QED
      BY <2>2, <3>2, <3>3
  <2>5. ReaderIsAlone' /\ ModulationIsOfTheLayer' /\ ModulatedWhereUsable'
    BY <1>1, <1>2, <2>2 DEF IInv, Modulation, ReaderIsAlone, ModulationIsOfTheLayer,
                            ModulatedWhereUsable, Sure
  <2>6. ahead' # Unmodulated => ahead'[1] = dense'
    BY <1>1, <2>2 DEF IInv, Modulation
  <2>7. QED
    BY <1>1, <1>3, <2>2, <2>3, <2>4, <2>5, <2>6 DEF Modulation
<1>5. CASE ModulateAhead
  <2>1. /\ gen.pc = "Ahead" /\ gen'.pc = "Compute" /\ gen'.layer = gen.layer /\ gen'.mod = gen.mod
        /\ UNCHANGED fed /\ ahead' = Unmodulated
        /\ reader' # NoLayer => adaln.open
    BY <1>5 DEF ModulateAhead, AdalnPrefetch, Gen
  <2>2. ReaderIsAlone' /\ ModulationIsOfTheLayer' /\ ModulatedWhereUsable'
    BY <1>1, <1>2, <2>1 DEF IInv, Modulation, ReaderIsAlone, ModulationIsOfTheLayer,
                            ModulatedWhereUsable, Sure
  <2>3. gen'.mod \in {Unmodulated, <<dense', gen'.layer>>}
    BY <1>1, <2>1 DEF IInv, Modulation
  <2>4. Sure' /\ gen'.layer \in Usable => gen'.mod # Unmodulated
    BY <1>2, <2>1 DEF IInv, Modulation
  <2>5. QED
    BY <1>3, <2>1, <2>2, <2>3, <2>4 DEF Modulation
<1>6. CASE Compute
  <2>1. /\ gen.pc = "Compute" /\ gen'.pc = "Join" /\ gen'.layer = gen.layer /\ gen'.mod = gen.mod
        /\ UNCHANGED <<ahead, reader>>
        /\ fed' = Append(fed, [block |-> Content(gen.view), mod |-> gen.mod])
    BY <1>6 DEF Compute, adalnVars, Gen
  <2>2. Len(fed) = gen.layer
    BY <2>1 DEF IInv, Control, InCore, HoldsBlock
  <2>3. /\ DOMAIN fed' = 1..gen.layer + 1 /\ fed'[gen.layer + 1].mod = gen.mod
        /\ \A i \in 1..gen.layer : i \in DOMAIN fed /\ fed'[i] = fed[i]
    <3>1. PICK last : last = [block |-> Content(gen.view), mod |-> gen.mod]
      OBVIOUS
    <3>2. last.mod = gen.mod
      BY <3>1
    <3>3. fed' = Append(fed, last) /\ fed \in Seq(Layer)
      BY <2>1, <3>1
    <3>4. QED
      BY <1>1, <2>2, <3>2, <3>3
  <2>4. \A i \in 1..gen.layer + 1 : i \in 1..gen.layer \/ (i = gen.layer + 1 /\ i - 1 = gen.layer)
    BY <1>1
  <2>5. ModulationIsOfTheLayer'
    BY <1>1, <2>1, <2>3, <2>4 DEF IInv, Modulation, ModulationIsOfTheLayer
  <2>6. ModulatedWhereUsable'
    BY <1>1, <1>2, <2>1, <2>3, <2>4 DEF IInv, Modulation, ModulatedWhereUsable, Sure
  <2>7. ReaderIsAlone'
    BY <1>1, <2>1 DEF IInv, Modulation, ReaderIsAlone
  <2>8. QED
    BY <1>1, <1>3, <2>1, <2>5, <2>6, <2>7 DEF IInv, Modulation
<1>7. QED
  BY <1>4, <1>5, <1>6

LEMMA ModulationStep == ASSUME IInv, Next PROVE Modulation'
BY ModulationOfLoop, ModulationOfReader, ModulationBound, ModulationOfLayer DEF Next, MainStep
-----------------------------------------------------------------------------
LEMMA InitInv == Init => IInv
<1> SUFFICES ASSUME Init PROVE IInv
  OBVIOUS
<1> USE Numbers, ToldApart
<1>1. /\ meta = [b \in Layers |-> Text] /\ slot = EmptySlots /\ older = [s \in Slots |-> {}]
      /\ helper = Resting /\ status = "Ok" /\ setting \in Settings /\ adaln = BoundTo(Text, Wanted)
      /\ ahead = Unmodulated /\ reader = NoLayer /\ readerSt = "Ok" /\ dense = Text
      /\ request \in Requests /\ gen = Fresh /\ fed = <<>> /\ path = <<>> /\ faults = {}
  BY DEF Init, StoreInit
<1>2. gen \in Gen /\ gen.pc = "Idle" /\ gen.count = 0 /\ gen.step = 0
  BY <1>1, FreshIs DEF Fresh
<1>3. \A s \in Slots : slot[s].pins = 0 /\ slot[s].index = NoLayer
  BY <1>1 DEF EmptySlots
<1>4. /\ adaln \in Adaln
      /\ adaln.open \/ adaln.resident # {} => adaln.of = dense
  BY <1>1, BoundToIs
<1>5. TypeOK
  <2>1. EmptySlots \in [Slots -> Slot] /\ Resting \in Helper
    BY DEF EmptySlots, Slot, Bytes, Resting, Helper
  <2>2. StoreTypeOK
    BY <1>1, <2>1 DEF StoreTypeOK
  <2>3. AdalnTypeOK
    BY <1>1, <1>4 DEF AdalnTypeOK, Adaln
  <2>4. <<>> \in Seq(Layer) /\ <<>> \in Seq(Moved)
    OBVIOUS
  <2>5. QED
    BY <1>1, <1>2, <2>2, <2>3, <2>4 DEF TypeOK, Gen, Layer
<1>6. Control
  BY <1>2 DEF Control, InCore, HoldsBlock
<1>7. Window
  <2>1. helper.pc = "Idle"
    BY <1>1 DEF Resting
  <2>2. PinsAreTheLayer /\ OneSlotPerBlock /\ Ordered(older)
    BY <1>1, <1>2, <1>3 DEF PinsAreTheLayer, OneSlotPerBlock, HoldsBlock, Ordered
  <2>3. QED
    BY <1>2, <2>1, <2>2 DEF Window, HoldsBlock
<1>8. Weights
  BY <1>1, <1>2, <1>3 DEF Weights
<1>9. Modulation
  BY <1>1, <1>2, <1>4 DEF Modulation, ReaderIsAlone, ModulationIsOfTheLayer, ModulatedWhereUsable,
                          HoldsBlock
<1>10. QED
  BY <1>5, <1>6, <1>7, <1>8, <1>9 DEF IInv

LEMMA TypeStep == ASSUME IInv, Next PROVE TypeOK'
<1>1. LoopTypeOK' /\ StoreTypeOK' /\ AdalnTypeOK' /\ faults' \subseteq FaultKinds
  BY LoopStep, StoreTypes, AdalnTypes, FaultsGrow
<1>2. QED
  BY <1>1 DEF LoopTypeOK, TypeOK, Gen, Layer

LEMMA NextInv == IInv /\ [Next]_vars => IInv'
<1> SUFFICES ASSUME IInv, [Next]_vars PROVE IInv'
  OBVIOUS
<1>1. CASE Next
  BY <1>1, TypeStep, LoopStep, WindowStep, WeightsStep, ModulationStep DEF IInv
<1>2. CASE UNCHANGED vars
  <2>1. UNCHANGED <<meta, slot, older, helper, status>>
    BY <1>2 DEF vars, storeVars
  <2>2. UNCHANGED <<setting, adaln, ahead, reader, readerSt>>
    BY <1>2 DEF vars, adalnVars
  <2>3. UNCHANGED <<dense, request, gen, fed, path, faults>>
    BY <1>2 DEF vars
  <2>4. TypeOK'
    BY <2>1, <2>2, <2>3 DEF IInv, TypeOK, StoreTypeOK, AdalnTypeOK
  <2>5. Control'
    BY <2>3 DEF IInv, Control, InCore, HoldsBlock, Refusable, Customised
  <2>6. Window'
    BY <2>1, <2>3 DEF IInv, Window, PinsAreTheLayer, OneSlotPerBlock, HoldsBlock, Holding, Ordered
  <2>7. Weights'
    BY <2>1, <2>3 DEF IInv, Weights, Sound
  <2>8. Modulation'
    BY <2>2, <2>3 DEF IInv, Modulation, ReaderIsAlone, ModulationIsOfTheLayer, ModulatedWhereUsable,
                      HoldsBlock, Sure, BoundTo, Wanted
  <2>9. QED
    BY <2>4, <2>5, <2>6, <2>7, <2>8 DEF IInv
<1>3. QED
  BY <1>1, <1>2

(* The inductive invariant holds in every reachable state. *)
THEOREM Invariant == Spec => []IInv
<1>1. QED
  BY InitInv, NextInv, PTL DEF Spec

(* Every variable of the loop and of its two stores keeps its type. *)
THEOREM TypeCorrect == Spec => []TypeOK
<1>1. IInv => TypeOK
  BY DEF IInv
<1>2. QED
  BY <1>1, Invariant, PTL

(* One slot is pinned, once, while a layer computes, and none otherwise, by   *)
(* whatever way a generation ends (acquire and release of BlockStore).        *)
THEOREM PinsBalance == Spec => []PinsAreTheLayer
<1>1. IInv => PinsAreTheLayer
  BY DEF IInv, Window
<1>2. QED
  BY <1>1, Invariant, PTL

(* A layer is modulated by its own projection of the bound transformer, or by *)
(* none (load_mod of H3AdalnStore).                                          *)
THEOREM ModulatedByItsOwn == Spec => []ModulationIsOfTheLayer
<1>1. IInv => ModulationIsOfTheLayer
  BY DEF IInv, Modulation
<1>2. QED
  BY <1>1, Invariant, PTL

(* A layer that has a projection goes without it only after a direct read or  *)
(* a binding has failed: a failed read ahead is silently made up for.        *)
THEOREM FallbackIsSilent == Spec => []ModulatedWhereUsable
<1>1. IInv => ModulatedWhereUsable
  BY DEF IInv, Modulation
<1>2. QED
  BY <1>1, Invariant, PTL

(* What the AdaLN helper thread writes outside the mutex, the main thread     *)
(* does not touch while it runs, and the files stay open.                    *)
THEOREM ReaderRunsAlone == Spec => []ReaderIsAlone
<1>1. IInv => ReaderIsAlone
  BY DEF IInv, Modulation
<1>2. QED
  BY <1>1, Invariant, PTL
-----------------------------------------------------------------------------
(* What a layer computes with. *)
LEMMA ContentIs ==
  ASSUME IInv, HoldsBlock
  PROVE  Content(gen.view) = slot[gen.view].bytes /\ gen.view \in Slots
<1>1. gen.view \in Slots /\ slot[gen.view].pins = 1
  BY DEF IInv, Window, PinsAreTheLayer
<1>2. helper.pc = "Reading" => slot[helper.slot].pins = 0
  BY DEF IInv, Window
<1>3. QED
  BY <1>1, <1>2 DEF Content

LEMMA SameLayerSameSlot ==
  ASSUME IInv, Next, HoldsBlock, HoldsBlock', gen'.layer = gen.layer
  PROVE  gen'.view = gen.view /\ slot'[gen.view] = slot[gen.view]
<1> USE Typed, Numbers
<1>1. gen.view \in Slots /\ slot[gen.view].pins = 1
  BY DEF IInv, Window, PinsAreTheLayer
<1>2. CASE FetchNext \/ Modulate \/ ModulateAhead \/ Compute
  BY <1>2 DEF FetchNext, PrefetchAsync, Modulate, ModulateAhead, Compute, blockVars, storeVars, Gen
<1>3. CASE ReaderStep
  BY <1>3, LoopStays DEF ReaderStep, blockVars, storeVars
<1>4. CASE HelperStep
  <2>1. UNCHANGED gen
    BY <1>4, LoopStays
  <2>2. CASE PrefetchSkips \/ PrefetchBegins
    BY <2>1, <2>2 DEF PrefetchSkips, PrefetchBegins
  <2>3. CASE PrefetchReads \/ PrefetchReadFails
    <3>1. PICK s \in Slots, b \in Layers : /\ s = helper.slot /\ b = helper.layer
                                          /\ slot[s].pins = 0 /\ meta[b] # NoModel
      BY <2>3 DEF PrefetchReads, PrefetchReadFails, IInv, Window
    <3>2. CASE PrefetchReads
      <4>1. slot' = Filled(s, b, 0) /\ s # gen.view
        BY <1>1, <3>1, <3>2 DEF PrefetchReads
      <4>2. \A t \in Slots \ {s} : slot'[t] = slot[t]
        BY <3>1, <4>1, FilledIs
      <4>3. QED
        BY <1>1, <2>1, <4>1, <4>2
    <3>3. CASE PrefetchReadFails
      BY <1>1, <2>1, <3>1, <3>3, SpoiltIs DEF PrefetchReadFails
    <3>4. QED
      BY <2>3, <3>2, <3>3
  <2>4. QED
    BY <1>4, <2>2, <2>3 DEF HelperStep
<1>5. CASE FinishLayer \/ PrefetchFailed
  <2>1. gen'.pc \in {"Idle", "Step", "Acquire"}
    BY <1>5 DEF FinishLayer, PrefetchFailed, CoreDone, Stepped, Ended, Gen
  <2>2. QED
    BY <2>1 DEF HoldsBlock
<1>6. CASE \/ BindOk \/ BindFailsEarly \/ BindFailsHalfWay \/ Check
           \/ Extrapolate \/ AddResidual \/ BeginCore \/ AcquireBlock \/ AcquireFails
           \/ \E r \in Requests : StartGeneration(r)
  <2>1. gen.pc \in {"Bind", "Rebind", "Check", "Step", "Acquire", "Idle"}
    BY <1>6 DEF BindOk, BindFailsEarly, BindFailsHalfWay, Binding, Check, Extrapolate, AddResidual,
                BeginCore, AcquireBlock, AcquireFails, StartGeneration
  <2>2. QED
    BY <2>1 DEF HoldsBlock
<1>7. QED
  BY <1>2, <1>3, <1>4, <1>5, <1>6 DEF Next, MainStep

(* The weights a layer computes with do not change from acquire to release,   *)
(* though the helper reads the next block into the window meanwhile.         *)
THEOREM HeldBlockStays == Spec => HeldBlockIsStable
<1> DEFINE Stable == HoldsBlock /\ HoldsBlock' /\ gen'.layer = gen.layer =>
                       Content(gen.view)' = Content(gen.view)
<1>1. IInv /\ IInv' /\ Next => Stable
  <2> SUFFICES ASSUME IInv, IInv', Next, HoldsBlock, HoldsBlock', gen'.layer = gen.layer
               PROVE  Content(gen.view)' = Content(gen.view)
    OBVIOUS
  <2>1. gen'.view = gen.view /\ slot'[gen.view] = slot[gen.view] /\ gen.view \in Slots
    BY SameLayerSameSlot, ContentIs
  <2>2. helper'.pc = "Reading" => helper'.slot # gen'.view
    BY DEF IInv, Window, PinsAreTheLayer
  <2>3. QED
    BY <2>1, <2>2, ContentIs DEF Content
<1>2. IInv /\ IInv' /\ [Next]_vars => [Stable]_vars
  BY <1>1
<1>3. QED
  BY <1>2, Invariant, PTL DEF Spec, HeldBlockIsStable
-----------------------------------------------------------------------------
(* The loop as DenoisePass sees it. *)
Run == [i \in DOMAIN fed |-> fed[i].block]
Phase == IF gen.pc = "Idle" THEN "Idle" ELSE "Busy"
Disk == IF faults \cap {"Bind", "Block"} = {} THEN "Sound" ELSE "Failing"

LEMMA RunIs ==
  ASSUME NEW new \in Seq(Layer)
  PROVE  \A blocks : blocks = [i \in DOMAIN new |-> new[i].block] =>
           /\ blocks \in Seq(Bytes) /\ Len(blocks) = Len(new)
           /\ \A i \in 1..Len(new) : blocks[i] = new[i].block
<1>1. PICK n \in Nat : n = Len(new)
  BY LenProperties
<1>2. DOMAIN new = 1..n /\ \A i \in 1..n : new[i] \in Layer
  BY <1>1, LenProperties
<1>3. \A i \in 1..n : new[i].block \in Bytes
  BY <1>2 DEF Layer
<1>4. [i \in 1..n |-> new[i].block] \in Seq(Bytes) /\ Len([i \in 1..n |-> new[i].block]) = n
  BY <1>3
<1>5. QED
  BY <1>1, <1>2, <1>4

LEMMA RunNow == ASSUME IInv PROVE /\ Run \in Seq(Bytes) /\ Len(Run) = Len(fed)
                                  /\ \A i \in 1..Len(fed) : Run[i] = fed[i].block
BY Typed, RunIs DEF Run

LEMMA NoRun ==
  ASSUME NEW new, new = <<>>
  PROVE  [i \in DOMAIN new |-> new[i].block] = <<>>
<1>1. new \in Seq(Layer) /\ Len(new) = 0
  BY EmptySeq
<1>2. PICK blocks : blocks = [i \in DOMAIN new |-> new[i].block]
  OBVIOUS
<1>3. blocks \in Seq(Bytes) /\ Len(blocks) = 0
  BY <1>1, <1>2, RunIs
<1>4. blocks = <<>>
  BY <1>3, EmptySeq
<1>5. QED
  BY <1>2, <1>4

LEMMA DiskFails == ASSUME IInv, Next PROVE Disk' \in {Disk, "Failing"}
BY FaultsGrow DEF Disk

PassStep == Promised!PassNext

LEMMA Hidden ==
  ASSUME IInv, Next, UNCHANGED <<request, fed, path>>, gen'.outcome = gen.outcome,
         gen'.pc = "Idle" <=> gen.pc = "Idle"
  PROVE  PassStep
BY DiskFails DEF PassStep, Promised!PassNext, Disk

(* Which action does what of it. *)
LEMMA Asks ==
  ASSUME IInv, NEW r \in Requests, StartGeneration(r)
  PROVE  Promised!Ask
<1> USE Typed
<1>1. /\ gen.pc = "Idle" /\ request' = r /\ fed' = <<>> /\ path' = <<>>
      /\ gen'.pc # "Idle" /\ gen'.outcome = "Ok"
  BY DEF StartGeneration, Fresh
<1>2. r.want \in Models /\ r.layers \in 1..Depth
  BY DenoiseAssumption DEF Request
<1>3. Run' = <<>> /\ Len(path') = 0
  BY <1>1, NoRun DEF Run
<1>4. QED
  BY <1>1, <1>2, <1>3 DEF Promised!Ask, Run

LEMMA Runs ==
  ASSUME IInv, Compute, fed' \in Seq(Layer)
  PROVE  Promised!RunLayer
<1> USE Typed, Numbers
<1>1. /\ gen.pc = "Compute" /\ HoldsBlock /\ gen'.pc = "Join" /\ gen'.outcome = gen.outcome
      /\ UNCHANGED <<request, path>>
      /\ fed' = Append(fed, [block |-> Content(gen.view), mod |-> gen.mod])
  BY DEF Compute, HoldsBlock, Gen
<1>2. Len(fed) = gen.layer /\ gen.layer < request.layers
  BY <1>1 DEF IInv, Control, InCore
<1>3. PICK w \in Bytes : w = Content(gen.view)
  BY <1>1, ContentIs DEF StoreTypeOK, Slot
<1>4. Sound => w = <<request.want, Len(fed)>>
  <2>1. /\ w = slot[gen.view].bytes /\ gen.view \in Slots
        /\ slot[gen.view].index = gen.layer /\ gen.layer # NoLayer
    BY <1>1, <1>3, ContentIs DEF IInv, Window, Gen
  <2>2. Sound => slot[gen.view].bytes = <<dense, gen.layer>> /\ dense = request.want
    BY <1>1, <2>1 DEF IInv, Weights
  <2>3. QED
    BY <1>2, <2>1, <2>2
<1>5. Run' = Append(Run, w)
  <2>1. PICK last \in Layer : last = [block |-> w, mod |-> gen.mod]
    BY <1>3 DEF Layer, Gen
  <2>2. fed' = Append(fed, last) /\ last.block = w
    BY <1>1, <1>3, <2>1
  <2>3. Run' \in Seq(Bytes) /\ Len(Run') = Len(fed') /\ \A i \in 1..Len(fed') : Run'[i] = fed'[i].block
    BY RunIs DEF Run
  <2>4. /\ Len(fed') = Len(fed) + 1 /\ fed'[Len(fed) + 1] = last
        /\ \A i \in 1..Len(fed) : fed'[i] = fed[i]
    BY <2>2, AppendProperties
  <2>5. /\ Append(Run, w) \in Seq(Bytes) /\ Len(Append(Run, w)) = Len(fed) + 1
        /\ Append(Run, w)[Len(fed) + 1] = w
        /\ \A i \in 1..Len(fed) : Append(Run, w)[i] = fed[i].block
    BY <1>3, RunNow, AppendProperties
  <2>6. \A i \in 1..Len(fed) + 1 : Run'[i] = Append(Run, w)[i]
    <3>1. \A i \in 1..Len(fed) + 1 : i \in 1..Len(fed) \/ i = Len(fed) + 1
      BY LenProperties
    <3>2. QED
      BY <2>2, <2>3, <2>4, <2>5, <3>1
  <2>7. QED
    BY <2>3, <2>4, <2>5, <2>6, SeqEqual
<1>6. Len(Run) = Len(fed)
  BY RunNow
<1>7. Disk = "Sound" => Sound
  BY DEF Disk, Sound
<1>8. QED
  BY <1>1, <1>2, <1>3, <1>4, <1>5, <1>6, <1>7 DEF Promised!RunLayer, Run, Disk

LEMMA Restarts ==
  ASSUME IInv, BeginCore
  PROVE  Promised!Restart
<1> USE Typed, Numbers
<1>1. /\ gen.pc = "Step" /\ gen'.pc = "Acquire" /\ gen'.outcome = gen.outcome
      /\ UNCHANGED <<request, path>> /\ fed' = <<>>
  BY DEF BeginCore, Gen
<1>2. Len(path) < Steps /\ Len(fed) \in {0, request.layers}
  BY <1>1 DEF IInv, Control
<1>3. Run' = <<>> /\ Len(Run) = Len(fed)
  <2>1. Run' = <<>>
    BY <1>1, NoRun DEF Run
  <2>2. QED
    BY <2>1, RunNow
<1>4. QED
  BY <1>1, <1>2, <1>3 DEF Promised!Restart, Run

LEMMA MovesBySkipping ==
  ASSUME IInv, Extrapolate \/ AddResidual
  PROVE  Promised!Move
<1> USE Typed, Numbers
<1>1. /\ gen.pc = "Step" /\ gen.step = Len(path) /\ gen.step \in 0..Steps - 1 /\ fed' = <<>>
      /\ UNCHANGED request /\ ~Refusable(request)
  BY DEF Extrapolate, AddResidual, IInv, Control, Gen
<1>2. gen.step # 0 /\ gen.step # Steps - 1
  <2>1. CASE Extrapolate
    BY <1>1, <2>1, SkippedIs DEF Extrapolate
  <2>2. CASE AddResidual
    BY <1>1, <2>2 DEF AddResidual, EvaluatesCore, IInv, Control
  <2>3. QED
    BY <2>1, <2>2
<1>3. gen'.pc = "Step" /\ gen'.outcome = gen.outcome
  <2>1. gen.step + 1 # Steps
    BY <1>1, <1>2
  <2>2. CASE Extrapolate
    BY <2>1, <2>2 DEF Extrapolate, Stepped, Gen
  <2>3. CASE AddResidual
    BY <2>1, <2>3 DEF AddResidual, Stepped, Gen
  <2>4. QED
    BY <2>2, <2>3
<1>4. Len(path') = Len(path) + 1
  <2>1. CASE Extrapolate
    <3>1. gen.last # NoStep
      BY <1>1, <1>2, <2>1, SkippedIs DEF Extrapolate, IInv, Control
    <3>2. PICK by \in Moved : path' = Append(path, by)
      BY <2>1, <3>1 DEF Extrapolate, Moved, Gen
    <3>3. QED
      BY <3>2
  <2>2. CASE AddResidual
    <3>1. PICK by \in Moved : path' = Append(path, by)
      BY <2>2 DEF AddResidual, Moved, Gen, StepOrNone
    <3>2. QED
      BY <3>1
  <2>3. QED
    BY <2>1, <2>2
<1>5. Run' = <<>>
  BY <1>1, NoRun DEF Run
<1>6. Len(path) > 0 /\ Len(path) < Steps /\ Len(path) + 1 # Steps
  BY <1>1, <1>2
<1>7. QED
  BY <1>1, <1>3, <1>4, <1>5, <1>6 DEF Promised!Move, Promised!Done, Run

LEMMA MovesByCore ==
  ASSUME IInv, FinishLayer, LastLayer
  PROVE  Promised!Move
<1> USE Typed, Numbers
<1>1. /\ gen.pc = "Join" /\ gen.step = Len(path) /\ gen.step \in 0..Steps - 1
      /\ UNCHANGED <<request, fed>> /\ Len(fed) = request.layers
  BY DEF FinishLayer, LastLayer, IInv, Control, InCore, HoldsBlock, Gen
<1>2. PICK g \in Gen : CoreDone = Stepped(g) /\ g.step = gen.step /\ g.outcome = gen.outcome
  BY <1>1, CoreDoneIs
<1>3. gen'.outcome = gen.outcome /\ gen'.pc = IF gen.step + 1 = Steps THEN "Idle" ELSE "Step"
  <2>1. gen' = Stepped(g)
    BY <1>2 DEF FinishLayer
  <2>2. g.step < Steps
    BY <1>1, <1>2
  <2>3. QED
    BY <1>2, <2>1, <2>2, SteppedIs
<1>4. Len(path') = Len(path) + 1
  <2>1. PICK by \in Moved : path' = Append(path, by)
    BY <1>1 DEF FinishLayer, Moved, StepOrNone
  <2>2. QED
    BY <2>1
<1>5. Run' = Run /\ Len(Run) = request.layers
  BY <1>1, RunNow DEF Run
<1>6. QED
  BY <1>1, <1>3, <1>4, <1>5 DEF Promised!Move, Promised!Done, Run

LEMMA Refuses ==
  ASSUME IInv, Check, Refusable(request)
  PROVE  Promised!Refuse
<1> USE Typed, Numbers
<1>1. /\ gen.pc = "Check" /\ gen'.pc = "Idle" /\ gen'.outcome = "Refused"
      /\ UNCHANGED <<request, fed, path>> /\ fed = <<>> /\ Len(path) = 0
  BY EndedIs DEF Check, IInv, Control
<1>2. Run = <<>>
  BY <1>1, NoRun DEF Run
<1>3. QED
  BY <1>1, <1>2 DEF Promised!Refuse, Run

LEMMA GivesUp ==
  ASSUME IInv, Next, AcquireFails \/ PrefetchFailed
  PROVE  Promised!GiveUp
<1> USE Typed, Numbers, ToldApart
<1>1. /\ gen.pc # "Idle" /\ gen'.pc = "Idle" /\ gen'.outcome = "Failed"
      /\ UNCHANGED <<request, fed, path>>
  BY EndedIs DEF AcquireFails, PrefetchFailed
<1>2. ~Sound'
  <2>1. CASE AcquireFails
    <3>1. CASE Fault("Block")
      BY <3>1, FaultIs
    <3>2. CASE AcquireRefused(gen.layer) /\ UNCHANGED faults
      <4>1. Victims # {}
        BY <2>1, NothingHeld, SomeVictim DEF AcquireFails, HoldsBlock, IInv, Window
      <4>2. meta[gen.layer] = NoModel /\ gen.layer \in Layers
        BY <3>2, <4>1 DEF AcquireRefused, Gen
      <4>3. QED
        BY <3>2, <4>2 DEF IInv, Weights, Sound
    <3>3. QED
      BY <2>1, <3>1, <3>2 DEF AcquireFails
  <2>2. CASE PrefetchFailed
    BY <2>2, SoundBefore DEF PrefetchFailed, IInv, Weights
  <2>3. QED
    BY <2>1, <2>2
<1>3. Disk' = "Failing"
  BY <1>2 DEF Disk, Sound
<1>4. QED
  BY <1>1, <1>3 DEF Promised!GiveUp, Disk

LEMMA PassStepIs ==
  ASSUME IInv, Next,
         \/ Promised!Ask \/ Promised!RunLayer \/ Promised!Restart \/ Promised!Move
         \/ Promised!Refuse \/ Promised!GiveUp
  PROVE  PassStep
BY DiskFails DEF PassStep, Promised!PassNext, Disk

LEMMA HiddenSteps ==
  ASSUME IInv, Next,
         \/ BindOk \/ BindFailsEarly \/ BindFailsHalfWay \/ (Check /\ ~Refusable(request))
         \/ AcquireBlock \/ FetchNext \/ Modulate \/ ModulateAhead \/ (FinishLayer /\ ~LastLayer)
         \/ HelperStep \/ ReaderStep
  PROVE  PassStep
<1> USE Typed
<1>1. CASE HelperStep \/ ReaderStep
  BY <1>1, LoopStays, Hidden
<1>2. CASE BindOk \/ BindFailsEarly \/ BindFailsHalfWay
  <2>1. /\ UNCHANGED <<request, fed, path>> /\ gen.pc # "Idle" /\ gen'.pc # "Idle"
        /\ gen'.outcome = gen.outcome
    BY <1>2 DEF BindOk, BindFailsEarly, BindFailsHalfWay, Binding, AfterFailedBind, Gen
  <2>2. QED
    BY <2>1, Hidden
<1>3. CASE AcquireBlock
  <2>1. /\ UNCHANGED <<request, fed, path>> /\ gen.pc # "Idle" /\ gen'.pc = AfterAcquire
        /\ gen'.outcome = gen.outcome
    BY <1>3 DEF AcquireBlock, Gen
  <2>2. AfterAcquire # "Idle"
    BY DEF AfterAcquire, AfterFetch
  <2>3. QED
    BY <2>1, <2>2, Hidden
<1>4. CASE FetchNext
  <2>1. /\ UNCHANGED <<request, fed, path>> /\ gen.pc # "Idle" /\ gen'.pc = AfterFetch
        /\ gen'.outcome = gen.outcome
    BY <1>4 DEF FetchNext, Gen
  <2>2. AfterFetch # "Idle"
    BY DEF AfterFetch
  <2>3. QED
    BY <2>1, <2>2, Hidden
<1>5. CASE \/ (Check /\ ~Refusable(request)) \/ Modulate \/ ModulateAhead
           \/ (FinishLayer /\ ~LastLayer)
  <2>1. /\ UNCHANGED <<request, fed, path>> /\ gen.pc # "Idle" /\ gen'.pc # "Idle"
        /\ gen'.outcome = gen.outcome
    BY <1>5 DEF Check, Modulate, ModulateAhead, FinishLayer, Gen
  <2>2. QED
    BY <2>1, Hidden
<1>6. QED
  BY <1>1, <1>2, <1>3, <1>4, <1>5

LEMMA EveryStepKeepsPromise == ASSUME IInv, Next PROVE PassStep
<1>1. CASE \E r \in Requests : StartGeneration(r)
  BY <1>1, Asks, PassStepIs
<1>2. CASE Check
  BY <1>2, Refuses, PassStepIs, HiddenSteps
<1>3. CASE Extrapolate \/ AddResidual
  BY <1>3, MovesBySkipping, PassStepIs
<1>4. CASE BeginCore
  BY <1>4, Restarts, PassStepIs
<1>5. CASE AcquireFails \/ PrefetchFailed
  BY <1>5, GivesUp, PassStepIs
<1>6. CASE Compute
  <2>1. fed' \in Seq(Layer)
    BY LoopStep DEF LoopTypeOK
  <2>2. QED
    BY <1>6, <2>1, Runs, PassStepIs
<1>7. CASE FinishLayer
  BY <1>7, MovesByCore, PassStepIs, HiddenSteps
<1>8. CASE \/ BindOk \/ BindFailsEarly \/ BindFailsHalfWay \/ AcquireBlock
           \/ FetchNext \/ Modulate \/ ModulateAhead \/ HelperStep \/ ReaderStep
  BY <1>8, HiddenSteps
<1>9. QED
  BY <1>1, <1>2, <1>3, <1>4, <1>5, <1>6, <1>7, <1>8 DEF Next, MainStep

(* The denoising loop, with its streamed blocks, failed bindings, skipped     *)
(* steps and helper threads, does what a client expects of a generation: it   *)
(* implements DenoisePass.                                                   *)
THEOREM PromiseIsKept == Spec => KeepsPromise
<1>1. Init => Promised!PassInit
  <2> SUFFICES ASSUME Init PROVE Promised!PassInit
    OBVIOUS
  <2>1. IInv
    BY InitInv
  <2>2. gen.pc = "Idle" /\ gen.outcome = "Ok" /\ fed = <<>> /\ Len(path) = 0 /\ faults = {}
    BY DEF Init, Fresh
  <2>3. request.want \in Models /\ request.layers \in 1..Depth
    BY <2>1, Typed
  <2>4. Run = <<>>
    BY <2>2, NoRun DEF Run
  <2>5. QED
    BY <2>2, <2>3, <2>4 DEF Promised!PassInit, Run
<1>2. IInv /\ [Next]_vars => [Promised!PassNext]_Promised!passVars
  <2> SUFFICES ASSUME IInv, [Next]_vars PROVE [Promised!PassNext]_Promised!passVars
    OBVIOUS
  <2>1. CASE Next
    BY <2>1, EveryStepKeepsPromise DEF PassStep
  <2>2. CASE UNCHANGED vars
    <3>1. UNCHANGED <<request, gen, fed, path, faults>>
      BY <2>2 DEF vars
    <3>2. QED
      BY <3>1 DEF Promised!passVars
  <2>3. QED
    BY <2>1, <2>2
<1>3. QED
  BY <1>1, <1>2, Invariant, PTL DEF Spec, KeepsPromise, Promised!PassSpec
-----------------------------------------------------------------------------
(* A remainder that is not zero is one more than the one before. *)
LEMMA OneRemainder ==
  ASSUME NEW a \in Int, NEW b \in Int, NEW c \in Nat \ {0}, NEW r \in 0..c - 1, NEW q \in 0..c - 1,
         c * a + r = c * b + q
  PROVE  r = q
<1>1. c * (a - b) = q - r
  OBVIOUS
<1>2. a - b = 0 \/ a - b >= 1 \/ a - b <= -1
  OBVIOUS
<1>3. a - b >= 1 => c * (a - b) >= c
  OBVIOUS
<1>4. a - b <= -1 => c * (a - b) <= -c
  OBVIOUS
<1>5. QED
  BY <1>1, <1>2, <1>3, <1>4

LEMMA NextRemainder ==
  ASSUME NEW k \in Nat, NEW c \in Nat \ {0}, (k + 1) % c # 0
  PROVE  (k + 1) % c = (k % c) + 1 /\ (k + 1) % c < c
<1> DEFINE a == k \div c
           b == (k + 1) \div c
           r == k % c
           q == (k + 1) % c
<1>1. a \in Int /\ b \in Int /\ r \in 0..c - 1 /\ q \in 0..c - 1
  OBVIOUS
<1>2. k = c * a + r /\ k + 1 = c * b + q
  OBVIOUS
<1>3. q # 0
  OBVIOUS
<1> HIDE DEF a, b, r, q
<1>4. q - 1 \in 0..c - 1
  BY <1>1, <1>3
<1>5. c * a \in Int /\ c * b \in Int
  BY <1>1
<1>6. c * a + r = c * b + (q - 1)
  BY <1>1, <1>2, <1>5
<1>7. r = q - 1
  BY <1>1, <1>4, <1>6, OneRemainder
<1>8. r + 1 = q /\ q < c
  BY <1>1, <1>7
<1>9. QED
  BY <1>8 DEF r, q
-----------------------------------------------------------------------------
(* The steps of a path that have run the core, and whether step s continues   *)
(* from the latest of them.                                                  *)
CoresOf(p, n) == {t \in 0..n - 1 : p[t + 1].by = "Core"}
Continues(p, s, core) ==
  LET before == CoresOf(p, s)
      latest == NewestOrNone(before)
  IN CASE p[s + 1].by = "Core" -> TRUE
       [] p[s + 1].by = "Residual" -> p[s + 1].last = latest /\ s - latest < core
       [] OTHER -> /\ p[s + 1].last = latest
                   /\ p[s + 1].prev = NewestOrNone(before \ {latest})
CoreFirst(p) == p # <<>> => p[1].by = "Core"
CoreLast(p) == Len(p) = Steps => p[Steps].by = "Core"

LEMMA ReuseIs ==
  ReuseIsTheLatest <=> /\ \A s \in 0..Len(path) - 1 : Continues(path, s, request.core)
                       /\ CoreFirst(path) /\ CoreLast(path)
<1>1. Steps \in Nat \ {0} /\ (0 + 1) = 1 /\ (Steps - 1) + 1 = Steps
  BY Numbers
<1>2. (path # <<>> => Evaluated(0)) <=> CoreFirst(path)
  BY <1>1 DEF Evaluated, CoreFirst
<1>3. (Len(path) = Steps => Evaluated(Steps - 1)) <=> CoreLast(path)
  BY <1>1 DEF Evaluated, CoreLast
<1>4. ASSUME NEW s \in 0..Len(path) - 1
      PROVE  {t \in 0..s - 1 : Evaluated(t)} = CoresOf(path, s)
  BY DEF Evaluated, CoresOf
<1>5. QED
  BY <1>2, <1>3, <1>4 DEF ReuseIsTheLatest, Continues

(* What the loop remembers of the evaluated steps: of denoise_reuse the last  *)
(* two, of core_reuse the last, and how many steps ago at most that was.      *)
Memory ==
  gen.pc # "Idle" =>
    /\ request.every > 1 => /\ gen.last = NewestOrNone(CoresOf(path, Len(path)))
                            /\ gen.prev = NewestOrNone(CoresOf(path, Len(path)) \ {gen.last})
    /\ request.core > 1 => gen.residual = NewestOrNone(CoresOf(path, Len(path)))
    /\ request.every = 1 => gen.count = gen.step
    /\ request.core > 1 /\ request.every = 1 /\ gen.step > 0 =>
         (gen.step - 1) - gen.residual <= (gen.step - 1) % request.core

ReuseInv == Memory /\ ReuseIsTheLatest

LEMMA NewestIs ==
  ASSUME NEW n \in Nat, NEW S \in SUBSET (0..n - 1)
  PROVE  NewestOrNone(S \cup {n}) = n /\ (S \cup {n}) \ {n} = S
<1>1. n \in S \cup {n} /\ \A t \in S \cup {n} : t \in 0..n /\ t <= n
  OBVIOUS
<1>2. \A s \in S \cup {n} : (\A t \in S \cup {n} : t <= s) => s = n
  BY <1>1
<1>3. Newest(S \cup {n}) = n
  BY <1>1, <1>2 DEF Newest
<1>4. S \cup {n} # {} /\ n \notin S
  BY <1>1
<1>5. QED
  BY <1>3, <1>4 DEF NewestOrNone

(* One step more: the steps before it continue as they did. *)
LEMMA PathGrows ==
  ASSUME NEW p \in Seq(Moved), NEW m \in Moved, NEW new, new = Append(p, m)
  PROVE  /\ new \in Seq(Moved) /\ Len(new) = Len(p) + 1 /\ Len(p) \in Nat
         /\ new[Len(p) + 1] = m /\ new # <<>>
         /\ Len(p) > 0 => p # <<>> /\ new[1] = p[1]
         /\ CoresOf(new, Len(p)) = CoresOf(p, Len(p))
         /\ m.by = "Core" => CoresOf(new, Len(new)) = CoresOf(p, Len(p)) \cup {Len(p)}
         /\ m.by # "Core" => CoresOf(new, Len(new)) = CoresOf(p, Len(p))
         /\ \A core : \A s \in 0..Len(p) - 1 : Continues(p, s, core) <=> Continues(new, s, core)
<1> DEFINE n == Len(p)
<1>1. /\ new \in Seq(Moved) /\ Len(new) = n + 1 /\ n \in Nat
      /\ new[n + 1] = m /\ \A i \in 1..n : new[i] = p[i]
  BY AppendProperties
<1>2. \A s \in 0..n : CoresOf(new, s) = CoresOf(p, s)
  <2>1. SUFFICES ASSUME NEW s \in 0..n PROVE CoresOf(new, s) = CoresOf(p, s)
    OBVIOUS
  <2>2. \A t \in 0..s - 1 : t + 1 \in 1..n
    BY <1>1
  <2>3. \A t \in 0..s - 1 : new[t + 1] = p[t + 1]
    BY <1>1, <2>2
  <2>4. QED
    BY <2>3 DEF CoresOf
<1>3. CoresOf(new, n) = CoresOf(p, n)
  BY <1>1, <1>2
<1>4. /\ m.by = "Core" => CoresOf(new, n + 1) = CoresOf(p, n) \cup {n}
      /\ m.by # "Core" => CoresOf(new, n + 1) = CoresOf(p, n)
  <2>1. 0..(n + 1) - 1 = (0..n - 1) \cup {n} /\ n \notin 0..n - 1
    BY <1>1
  <2>2. CoresOf(new, n + 1) = CoresOf(new, n) \cup {t \in {n} : new[t + 1].by = "Core"}
    BY <2>1 DEF CoresOf
  <2>3. QED
    BY <1>1, <1>3, <2>2
<1>5. \A core : \A s \in 0..n - 1 : Continues(p, s, core) <=> Continues(new, s, core)
  <2>1. SUFFICES ASSUME NEW core, NEW s \in 0..n - 1
                 PROVE  Continues(p, s, core) <=> Continues(new, s, core)
    OBVIOUS
  <2>2. s \in 0..n /\ s + 1 \in 1..n
    BY <1>1
  <2>3. new[s + 1] = p[s + 1] /\ CoresOf(new, s) = CoresOf(p, s)
    BY <1>1, <1>2, <2>2
  <2>4. QED
    BY <2>3 DEF Continues
<1>6. new # <<>> /\ (n > 0 => p # <<>> /\ new[1] = p[1])
  BY <1>1
<1> HIDE DEF n
<1>7. QED
  BY <1>1, <1>3, <1>4, <1>5, <1>6 DEF n

LEMMA ReuseIsNext ==
  ReuseIsTheLatest' <=> /\ \A s \in 0..Len(path') - 1 : Continues(path', s, request'.core)
                        /\ CoreFirst(path') /\ CoreLast(path')
<1>1. (ReuseIsTheLatest <=> /\ \A s \in 0..Len(path) - 1 : Continues(path, s, request.core)
                            /\ CoreFirst(path) /\ CoreLast(path))'
  BY ReuseIs, PTL
<1>2. QED
  BY <1>1

LEMMA PathMoves ==
  ASSUME IInv, ReuseIsTheLatest, gen.step = Len(path), gen.step \in 0..Steps - 1,
         NEW m \in Moved, path' = Append(path, m), UNCHANGED request,
         Continues(path', Len(path), request.core),
         gen.step \in {0, Steps - 1} => m.by = "Core"
  PROVE  ReuseIsTheLatest'
<1> DEFINE n == Len(path)
<1>1. path \in Seq(Moved) /\ Steps \in Nat \ {0}
  BY Typed, Numbers
<1>2. /\ path' \in Seq(Moved) /\ Len(path') = n + 1 /\ n \in Nat
      /\ path'[n + 1] = m /\ n > 0 => path # <<>> /\ path'[1] = path[1]
      /\ \A core : \A s \in 0..n - 1 : Continues(path, s, core) <=> Continues(path', s, core)
  BY <1>1, PathGrows
<1>3. /\ \A s \in 0..n - 1 : Continues(path, s, request.core)
      /\ CoreFirst(path)
  BY ReuseIs
<1>4. \A s \in 0..Len(path') - 1 : Continues(path', s, request'.core)
  <2>1. SUFFICES ASSUME NEW s \in 0..Len(path') - 1 PROVE Continues(path', s, request.core)
    OBVIOUS
  <2>2. s \in 0..n - 1 \/ s = n
    BY <1>2
  <2>3. QED
    BY <1>2, <1>3, <2>2
<1>5. CoreFirst(path')
  <2>1. CASE n = 0
    BY <1>2, <2>1 DEF CoreFirst
  <2>2. CASE n > 0
    BY <1>2, <1>3, <2>2 DEF CoreFirst
  <2>3. QED
    BY <1>2, <2>1, <2>2
<1>6. CoreLast(path')
  <2>1. Len(path') = Steps => n = Steps - 1 /\ n + 1 = Steps
    BY <1>1, <1>2
  <2>2. QED
    BY <1>2, <2>1 DEF CoreLast
<1>7. QED
  BY <1>4, <1>5, <1>6, ReuseIsNext

LEMMA CoresMove ==
  ASSUME path \in Seq(Moved), NEW m \in Moved, path' = Append(path, m)
  PROVE  /\ CoresOf(path', Len(path)) = CoresOf(path, Len(path))
         /\ path'[Len(path) + 1] = m
         /\ m.by = "Core" => CoresOf(path', Len(path')) = CoresOf(path, Len(path)) \cup {Len(path)}
         /\ m.by # "Core" => CoresOf(path', Len(path')) = CoresOf(path, Len(path))
BY PathGrows

(* What a step that leaves path and memory alone leaves alone. *)
LEMMA MemoryStays ==
  ASSUME IInv, ReuseInv, UNCHANGED <<request, path>>, gen'.pc # "Idle" => gen.pc # "Idle",
         gen'.step = gen.step, gen'.count = gen.count, gen'.residual = gen.residual,
         gen'.last = gen.last, gen'.prev = gen.prev
  PROVE  ReuseInv'
<1>1. Memory'
  BY DEF ReuseInv, Memory
<1>2. ReuseIsTheLatest'
  BY ReuseIs, ReuseIsNext DEF ReuseInv
<1>3. QED
  BY <1>1, <1>2 DEF ReuseInv

LEMMA NewestOfNone == CoresOf(<<>>, 0) = {} /\ NewestOrNone({}) = NoStep
BY DEF CoresOf, NewestOrNone

LEMMA StartForgets ==
  ASSUME NEW r \in Requests, StartGeneration(r)
  PROVE  ReuseInv'
<1>1. path' = <<>> /\ Len(path') = 0
  BY DEF StartGeneration
<1>2. /\ gen'.last = NoStep /\ gen'.prev = NoStep /\ gen'.residual = NoStep
      /\ gen'.count = 0 /\ gen'.step = 0
  BY DEF StartGeneration, Fresh
<1>3. Memory'
  <2>1. CoresOf(path', Len(path')) = {}
    BY <1>1, NewestOfNone
  <2>2. CoresOf(path', Len(path')) \ {gen'.last} = {}
    BY <2>1
  <2>3. QED
    BY <1>2, <2>1, <2>2, NewestOfNone DEF Memory
<1>4. CoreFirst(path') /\ CoreLast(path')
  BY <1>1, Numbers DEF CoreFirst, CoreLast
<1>5. \A s \in 0..Len(path') - 1 : FALSE
  BY <1>1
<1>6. ReuseIsTheLatest'
  BY <1>4, <1>5, ReuseIsNext
<1>7. QED
  BY <1>3, <1>6 DEF ReuseInv

LEMMA ExtrapolateReuses ==
  ASSUME IInv, ReuseInv, Extrapolate
  PROVE  ReuseInv'
<1> DEFINE n == Len(path)
           m == [by |-> "Extrapolation", last |-> gen.last, prev |-> gen.prev]
<1>1. /\ gen.pc = "Step" /\ gen.step = n /\ gen.step \in 0..Steps - 1 /\ UNCHANGED request
      /\ ~Refusable(request) /\ gen.step \notin Selected(request) /\ gen \in Gen
      /\ path \in Seq(Moved) /\ gen' = Stepped(gen)
  BY Typed, Numbers DEF Extrapolate, IInv, Control, Gen
<1>2. gen.step # 0 /\ gen.step # Steps - 1 /\ request.every > 1
  BY <1>1, SkippedIs
<1>3. ~(request.core > 1) /\ request.every # 1
  BY <1>1, <1>2 DEF Refusable
<1>4. gen.last # NoStep
  BY <1>1, <1>2, Typed DEF IInv, Control, Gen
<1>5. path' = Append(path, m) /\ m \in Moved
  BY <1>1, <1>4 DEF Extrapolate, Moved, Gen
<1>6. /\ gen.last = NewestOrNone(CoresOf(path, n))
      /\ gen.prev = NewestOrNone(CoresOf(path, n) \ {gen.last})
  BY <1>1, <1>2 DEF ReuseInv, Memory
<1>7. m.by = "Extrapolation" /\ m.last = gen.last /\ m.prev = gen.prev
  OBVIOUS
<1> HIDE DEF m
<1>8. /\ CoresOf(path', n) = CoresOf(path, n) /\ CoresOf(path', Len(path')) = CoresOf(path, n)
      /\ path'[n + 1] = m
  BY <1>1, <1>5, <1>7, CoresMove
<1>9. Continues(path', n, request.core)
  BY <1>6, <1>7, <1>8 DEF Continues
<1>10. ReuseIsTheLatest'
  BY <1>1, <1>2, <1>5, <1>9, PathMoves DEF ReuseInv
<1>11. gen'.last = gen.last /\ gen'.prev = gen.prev
  BY <1>1, SteppedIs, Numbers
<1>12. Memory'
  BY <1>1, <1>3, <1>6, <1>8, <1>11 DEF Memory
<1>13. QED
  BY <1>10, <1>12 DEF ReuseInv

LEMMA ResidualReuses ==
  ASSUME IInv, ReuseInv, AddResidual
  PROVE  ReuseInv'
<1> DEFINE n == Len(path)
           m == [by |-> "Residual", last |-> gen.residual, prev |-> NoStep]
           g == [gen EXCEPT !.count = @ + 1]
<1>1. /\ gen.pc = "Step" /\ gen.step = n /\ gen.step \in 0..Steps - 1 /\ UNCHANGED request
      /\ ~Refusable(request) /\ ~EvaluatesCore /\ gen \in Gen /\ gen.count <= gen.step
      /\ path \in Seq(Moved) /\ gen' = Stepped(g) /\ path' = Append(path, m)
  BY Typed, Numbers DEF AddResidual, IInv, Control, Gen
<1>2. /\ request.core \in Nat \ {0} /\ request.core > 1 /\ request.every = 1
  <2>1. request.core \in Nat \ {0} /\ request.every \in Nat \ {0}
    BY Typed
  <2>2. request.core # 1
    BY <1>1 DEF EvaluatesCore
  <2>3. ~(request.core > 1 /\ request.every > 1)
    BY <1>1 DEF Refusable
  <2>4. QED
    BY <2>1, <2>2, <2>3
<1>3. /\ gen.residual # NoStep /\ gen.count % request.core # 0 /\ gen.step # Steps - 1
      /\ gen.count = gen.step /\ gen.step > 0
  BY <1>1, <1>2, Numbers DEF EvaluatesCore, ReuseInv, Memory, IInv, Control
<1>4. /\ gen.residual = NewestOrNone(CoresOf(path, n))
      /\ (gen.step - 1) - gen.residual <= (gen.step - 1) % request.core
      /\ gen.residual \in 0..Steps - 1
  BY <1>1, <1>2, <1>3 DEF ReuseInv, Memory, Gen, StepOrNone
<1>5. /\ gen.step % request.core = ((gen.step - 1) % request.core) + 1
      /\ gen.step % request.core < request.core
  <2>1. gen.step - 1 \in Nat /\ (gen.step - 1) + 1 = gen.step
    BY <1>1, <1>3, Numbers
  <2>2. ((gen.step - 1) + 1) % request.core # 0
    BY <1>3, <2>1
  <2>3. QED
    BY <1>2, <2>1, <2>2, NextRemainder
<1>6. (gen.step - 1) % request.core \in Int
  BY <1>1, <1>2, Numbers
<1>7. n - gen.residual <= gen.step % request.core /\ n - gen.residual < request.core
  <2> DEFINE a == (gen.step - 1) % request.core
             b == gen.step % request.core
  <2>1. a \in Int /\ b = a + 1 /\ b < request.core /\ (gen.step - 1) - gen.residual <= a
    BY <1>4, <1>5, <1>6
  <2> HIDE DEF a, b
  <2>2. n - gen.residual <= b /\ n - gen.residual < request.core
    BY <1>1, <1>2, <1>4, <2>1, Numbers
  <2>3. QED
    BY <2>2 DEF b
<1>8. m \in Moved /\ m.by = "Residual" /\ m.last = gen.residual
  BY <1>1 DEF Moved, Gen, StepOrNone
<1> HIDE DEF m
<1>9. /\ CoresOf(path', n) = CoresOf(path, n) /\ CoresOf(path', Len(path')) = CoresOf(path, n)
      /\ path'[n + 1] = m
  BY <1>1, <1>8, CoresMove
<1>10. Continues(path', n, request.core)
  BY <1>4, <1>7, <1>8, <1>9 DEF Continues
<1>11. ReuseIsTheLatest'
  BY <1>1, <1>3, <1>8, <1>10, PathMoves DEF ReuseInv
<1>12. /\ g \in Gen /\ g.step = gen.step /\ g.step < Steps /\ g.count = gen.count + 1
       /\ g.residual = gen.residual
  BY <1>1, Numbers DEF Gen
<1> HIDE DEF g
<1>13. gen'.step = gen.step + 1 /\ gen'.count = gen'.step /\ gen'.residual = gen.residual
  BY <1>1, <1>3, <1>12, SteppedIs
<1>14. (gen'.step - 1) - gen'.residual <= (gen'.step - 1) % request.core
  <2>1. gen'.step - 1 = gen.step
    BY <1>1, <1>13, Numbers
  <2>2. QED
    BY <1>1, <1>7, <1>13, <2>1
<1>15. Memory'
  BY <1>1, <1>2, <1>4, <1>9, <1>13, <1>14 DEF Memory
<1>16. QED
  BY <1>11, <1>15 DEF ReuseInv

LEMMA CoreIsRemembered ==
  ASSUME IInv, ReuseInv, FinishLayer, LastLayer
  PROVE  ReuseInv'
<1> DEFINE n == Len(path)
           m == [by |-> "Core", last |-> gen.step, prev |-> NoStep]
           g == [gen EXCEPT !.count = @ + 1,
                            !.residual = IF request.core > 1 THEN gen.step ELSE @,
                            !.prev = IF request.every > 1 THEN gen.last ELSE @,
                            !.last = IF request.every > 1 THEN gen.step ELSE @]
<1>1. /\ gen.pc = "Join" /\ gen.step = n /\ gen.step \in 0..Steps - 1 /\ UNCHANGED request
      /\ gen \in Gen /\ gen.count <= gen.step
      /\ path \in Seq(Moved) /\ gen' = Stepped(g) /\ path' = Append(path, m)
  BY Typed, Numbers DEF FinishLayer, CoreDone, IInv, Control, Gen
<1>2. m \in Moved /\ m.by = "Core"
  BY <1>1 DEF Moved, StepOrNone
<1> HIDE DEF m
<1>3. /\ CoresOf(path', Len(path')) = CoresOf(path, n) \cup {n} /\ path'[n + 1] = m
  BY <1>1, <1>2, CoresMove
<1>4. Continues(path', n, request.core)
  BY <1>2, <1>3 DEF Continues
<1>5. ReuseIsTheLatest'
  BY <1>1, <1>2, <1>4, PathMoves DEF ReuseInv
<1>6. n \in Nat /\ CoresOf(path, n) \in SUBSET (0..n - 1)
  BY <1>1, Numbers DEF CoresOf
<1>7. NewestOrNone(CoresOf(path', Len(path'))) = n /\ CoresOf(path', Len(path')) \ {n} = CoresOf(path, n)
  BY <1>3, <1>6, NewestIs
<1>8. /\ g \in Gen /\ g.step = gen.step /\ g.step < Steps /\ g.count = gen.count + 1
      /\ request.core > 1 => g.residual = gen.step
      /\ request.every > 1 => g.last = gen.step /\ g.prev = gen.last
  <2>1. gen.step \in StepOrNone /\ gen.count + 1 \in 0..Steps /\ gen.step < Steps
    BY <1>1, Numbers DEF StepOrNone, Gen
  <2>2. PICK a : a = IF request.core > 1 THEN gen.step ELSE gen.residual
    OBVIOUS
  <2>3. PICK b : b = IF request.every > 1 THEN gen.last ELSE gen.prev
    OBVIOUS
  <2>4. PICK c : c = IF request.every > 1 THEN gen.step ELSE gen.last
    OBVIOUS
  <2>5. a \in StepOrNone /\ b \in StepOrNone /\ c \in StepOrNone
    BY <1>1, <2>1, <2>2, <2>3, <2>4 DEF Gen
  <2>6. g = [gen EXCEPT !.count = gen.count + 1, !.residual = a, !.prev = b, !.last = c]
    BY <2>2, <2>3, <2>4
  <2> HIDE DEF g
  <2>7. /\ g \in Gen /\ g.step = gen.step /\ g.count = gen.count + 1
        /\ g.residual = a /\ g.prev = b /\ g.last = c
    BY <1>1, <2>1, <2>5, <2>6 DEF Gen
  <2>8. QED
    BY <2>1, <2>2, <2>3, <2>4, <2>7
<1> HIDE DEF g
<1>9. /\ gen'.step = gen.step + 1 /\ gen'.count = gen.count + 1
      /\ request.core > 1 => gen'.residual = n
      /\ request.every > 1 => gen'.last = n /\ gen'.prev = gen.last
  BY <1>1, <1>8, SteppedIs
<1>10. request.every > 1 => gen.last = NewestOrNone(CoresOf(path, n))
  BY <1>1 DEF ReuseInv, Memory
<1>11. request.every = 1 => gen.count = gen.step
  BY <1>1 DEF ReuseInv, Memory
<1>12. request.core > 1 => (gen'.step - 1) - gen'.residual <= (gen'.step - 1) % request.core
  <2>1. SUFFICES ASSUME request.core > 1
                 PROVE  (gen'.step - 1) - gen'.residual <= (gen'.step - 1) % request.core
    OBVIOUS
  <2>2. gen'.step - 1 = n /\ gen'.residual = n /\ n - n = 0
    BY <1>1, <1>6, <1>9, <2>1
  <2>3. 0 <= n % request.core
    BY <1>6, Typed
  <2>4. QED
    BY <2>2, <2>3
<1>13. Memory'
  BY <1>1, <1>7, <1>9, <1>10, <1>11, <1>12 DEF Memory
<1>14. QED
  BY <1>5, <1>13 DEF ReuseInv

LEMMA ReuseStep == ASSUME IInv, ReuseInv, Next PROVE ReuseInv'
<1> USE Typed
<1>1. CASE HelperStep \/ ReaderStep
  BY <1>1, LoopStays, MemoryStays
<1>2. CASE \E r \in Requests : StartGeneration(r)
  BY <1>2, StartForgets
<1>3. CASE BindOk \/ BindFailsEarly \/ BindFailsHalfWay \/ Check \/ BeginCore
  <2>1. /\ UNCHANGED <<request, path>> /\ gen.pc # "Idle" /\ gen'.step = gen.step
        /\ gen'.count = gen.count /\ gen'.residual = gen.residual
        /\ gen'.last = gen.last /\ gen'.prev = gen.prev
    BY <1>3 DEF BindOk, BindFailsEarly, BindFailsHalfWay, Binding, Check, BeginCore, Ended, Gen
  <2>2. QED
    BY <2>1, MemoryStays
<1>4. CASE AcquireBlock \/ AcquireFails \/ FetchNext \/ ModulateAhead \/ Compute
           \/ Modulate \/ PrefetchFailed \/ (FinishLayer /\ ~LastLayer)
  <2>1. /\ UNCHANGED <<request, path>> /\ gen.pc # "Idle" /\ gen'.step = gen.step
        /\ gen'.count = gen.count /\ gen'.residual = gen.residual
        /\ gen'.last = gen.last /\ gen'.prev = gen.prev
    BY <1>4 DEF AcquireBlock, AcquireFails, FetchNext, Modulate, ModulateAhead, Compute,
                PrefetchFailed, FinishLayer, Ended, Gen
  <2>2. QED
    BY <2>1, MemoryStays
<1>5. CASE Extrapolate
  BY <1>5, ExtrapolateReuses
<1>6. CASE AddResidual
  BY <1>6, ResidualReuses
<1>7. CASE FinishLayer /\ LastLayer
  BY <1>7, CoreIsRemembered
<1>8. QED
  BY <1>1, <1>2, <1>3, <1>4, <1>5, <1>6, <1>7 DEF Next, MainStep

(* A step that is not evaluated continues from the latest evaluated steps of  *)
(* its generation, whatever the schedule and the cadence of core_reuse, and   *)
(* the first and the last step are always evaluated.                         *)
THEOREM ReuseContinues == Spec => []ReuseIsTheLatest
<1>1. Init => ReuseInv
  <2> SUFFICES ASSUME Init PROVE ReuseInv
    OBVIOUS
  <2>1. path = <<>> /\ gen.pc = "Idle" /\ Len(path) = 0
    BY DEF Init, Fresh
  <2>2. CoreFirst(path) /\ CoreLast(path)
    BY <2>1, Numbers DEF CoreFirst, CoreLast
  <2>3. \A s \in 0..Len(path) - 1 : FALSE
    BY <2>1
  <2>4. ReuseIsTheLatest
    BY <2>2, <2>3, ReuseIs
  <2>5. QED
    BY <2>1, <2>4 DEF ReuseInv, Memory
<1>2. IInv /\ ReuseInv /\ [Next]_vars => ReuseInv'
  <2> SUFFICES ASSUME IInv, ReuseInv, [Next]_vars PROVE ReuseInv'
    OBVIOUS
  <2>1. CASE Next
    BY <2>1, ReuseStep
  <2>2. CASE UNCHANGED vars
    <3>1. UNCHANGED <<request, gen, path>>
      BY <2>2 DEF vars
    <3>2. QED
      BY <3>1, MemoryStays
  <2>3. QED
    BY <2>1, <2>2
<1>3. ReuseInv => ReuseIsTheLatest
  BY DEF ReuseInv
<1>4. QED
  BY <1>1, <1>2, <1>3, Invariant, PTL DEF Spec
=============================================================================
