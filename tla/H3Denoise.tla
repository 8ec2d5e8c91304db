------------------------------ MODULE H3Denoise ------------------------------
(***************************************************************************)
(* generate_video of H3Engine (src/model/h3.cpp): bind the transformer the *)
(* request calls for, then run the denoising steps.  A step runs a core,   *)
(* all layers in turn on blocks streamed through BlockStore and modulated  *)
(* through H3AdalnStore, or reuses earlier work.  The main thread and the  *)
(* helpers of both stores interleave; the engine serves one generation at  *)
(* a time.                                                                 *)
(*                                                                         *)
(* The numbers are left out: fed records which block and which modulation  *)
(* each layer of a core has computed with, and path by which means each    *)
(* step has moved the latent.  The checkpoint holds both transformers, of  *)
(* one geometry, with its output heads and time embedder.                  *)
(***************************************************************************)
EXTENDS BlockStore, H3AdalnStore, Sequences, FiniteSets

CONSTANTS Text, Ref,   \* fl2va_dir_ and ref2va_dir_
          Steps,       \* denoising steps
          Requests,    \* what generate_video is called with
          MaxFaults    \* bound: kinds of fault that happen in a behaviour

Request == [want : Models,              \* reference images or not
            core : Nat, every : Nat,    \* core_reuse, denoise_reuse
            custom : SUBSET (0..Steps - 1),  \* H3_REUSE_STEPS, {} when it is not set
            stream : BOOLEAN,           \* ssd_streaming
            layers : 1..Depth]          \* dit_layers

ASSUME DenoiseAssumption ==
  /\ Models = {Text, Ref} /\ Text # Ref
  /\ Steps \in Nat \ {0} /\ MaxFaults \in Nat
  /\ Requests \subseteq Request
  /\ \A r \in Requests : r.core > 0 /\ r.every > 0

VARIABLES dense,    \* transformer_dir_: whose small weights are loaded
          request,  \* of the current, or the last, generation
          gen,      \* the generation
          fed,      \* block and modulation of each layer the core has run
          path,     \* how each step so far has moved the latent
          faults    \* the kinds of fault that have happened

vars == <<storeVars, adalnVars, dense, request, gen, fed, path, faults>>
blockVars == storeVars

FaultKinds == {"Bind",   \* a transformer cannot be opened or registered
               "Block",  \* a block read fails
               "Ahead",  \* an AdaLN read fails on the helper thread
               "Mod"}    \* an AdaLN read fails on the main thread
Stages == {"Idle", "Bind", "Rebind", "Check", "Step", "Acquire", "Fetch", "Modulate",
           "Ahead", "Compute", "Join"}
NoStep == -1
StepOrNone == (0..Steps - 1) \cup {NoStep}
Moved == [by : {"Core", "Residual", "Extrapolation"}, last : StepOrNone, prev : StepOrNone]

TypeOK ==
  /\ StoreTypeOK /\ AdalnTypeOK
  /\ dense \in Models
  /\ request \in Requests
  /\ gen \in [pc : Stages, outcome : {"Ok", "Refused", "Failed"}, step : 0..Steps,
              layer : Layers, view : Slots \cup {NoSlot},
              mod : Projections \cup {Unmodulated},
              count : 0..Steps, residual : StepOrNone,
              last : StepOrNone, prev : StepOrNone]
  /\ fed \in Seq([block : Bytes, mod : Projections \cup {Unmodulated}])
  /\ path \in Seq(Moved)
  /\ faults \subseteq FaultKinds

Fresh == [pc |-> "Idle", outcome |-> "Ok", step |-> 0, layer |-> 0, view |-> NoSlot,
          mod |-> Unmodulated, count |-> 0, residual |-> NoStep,
          last |-> NoStep, prev |-> NoStep]

(* load_checkpoint has bound FL2VA and found Ref2VA next to it. *)
Init == /\ StoreInit(Text)
        /\ setting \in Settings
        /\ adaln = BoundTo(Text, Wanted)
        /\ ahead = Unmodulated /\ reader = NoLayer /\ readerSt = "Ok"
        /\ dense = Text
        /\ request \in Requests
        /\ gen = Fresh /\ fed = <<>> /\ path = <<>> /\ faults = {}

Fault(kind) == /\ kind \in faults \/ Cardinality(faults) < MaxFaults
               /\ faults' = faults \cup {kind}
Ended(why) == [gen EXCEPT !.pc = "Idle", !.outcome = why, !.view = NoSlot]
-----------------------------------------------------------------------------
(* The transformer. *)

StartGeneration(r) ==
  /\ gen.pc = "Idle"
  /\ request' = r
  /\ gen' = [Fresh EXCEPT !.pc = IF dense = r.want THEN "Check" ELSE "Bind"]
  /\ fed' = <<>> /\ path' = <<>>
  /\ UNCHANGED <<blockVars, adalnVars, dense, faults>>

(* A failed binding of Ref2VA is undone; what becomes of that, and of a failed *)
(* binding of FL2VA, is ignored.                                              *)
BindTarget == IF gen.pc = "Bind" THEN request.want ELSE dense
AfterFailedBind_TriesAgain == IF request.want = Ref THEN "Rebind" ELSE "Check"

AfterFailedBind == IF gen.pc = "Bind" /\ request.want = Ref THEN "Rebind" ELSE "Check"
Binding == gen.pc \in {"Bind", "Rebind"}

BindOk ==
  /\ Binding
  /\ Open(BindTarget, Depth)
  /\ \E resident \in SUBSET Wanted :
       /\ AdalnBind(BindTarget, resident)
       /\ IF resident = Wanted THEN UNCHANGED faults ELSE Fault("Mod")
  /\ dense' = BindTarget
  /\ gen' = [gen EXCEPT !.pc = "Check"]
  /\ UNCHANGED <<request, fed, path>>

(* Before the store is opened... *)
BindFailsEarly ==
  /\ Binding /\ helper.pc = "Idle"
  /\ AdalnClose
  /\ Fault("Bind")
  /\ gen' = [gen EXCEPT !.pc = AfterFailedBind]
  /\ UNCHANGED <<blockVars, dense, request, fed, path>>

(* ... or after, with only the first blocks registered. *)
BindFailsHalfWay ==
  /\ Binding
  /\ \E upto \in 0..Depth - 1 : Open(BindTarget, upto)
  /\ AdalnClose
  /\ Fault("Bind")
  /\ gen' = [gen EXCEPT !.pc = AfterFailedBind]
  /\ UNCHANGED <<dense, request, fed, path>>
-----------------------------------------------------------------------------
(* Which steps run a core: h3_dit_reuse_schedule, H3_REUSE_STEPS, core_reuse. *)

Schedule(every) ==
  {s \in 0..Steps - 1 : every = 1 \/ s = 0 \/ s = Steps - 1 \/ s % every = 0}

Customised(r) == r.every > 1 /\ r.custom # {}
Selected(r) == IF Customised(r) THEN r.custom ELSE Schedule(r.every)

Refusable(r) == \/ r.core > 1 /\ r.every > 1
                \/ Customised(r) /\ ~({0, Steps - 1} \subseteq r.custom)

EvaluatesCore_NotLast == \/ request.core = 1
                         \/ gen.residual = NoStep
                         \/ gen.count % request.core = 0

EvaluatesCore == \/ request.core = 1
                 \/ gen.residual = NoStep
                 \/ gen.count % request.core = 0
                 \/ gen.step = Steps - 1

Check ==
  /\ gen.pc = "Check"
  /\ gen' = IF Refusable(request) THEN Ended("Refused") ELSE [gen EXCEPT !.pc = "Step"]
  /\ UNCHANGED <<blockVars, adalnVars, dense, request, fed, path, faults>>

Stepped(g) == IF g.step + 1 = Steps
              THEN [g EXCEPT !.pc = "Idle", !.step = Steps, !.view = NoSlot]
              ELSE [g EXCEPT !.pc = "Step", !.step = @ + 1, !.view = NoSlot]

(* A step that is not selected extrapolates the velocities of the last two    *)
(* evaluated ones, or repeats the last.                                       *)
Extrapolate ==
  /\ gen.pc = "Step" /\ gen.step \notin Selected(request)
  /\ path' = IF gen.last = NoStep THEN path
             ELSE Append(path, [by |-> "Extrapolation", last |-> gen.last, prev |-> gen.prev])
  /\ gen' = Stepped(gen)
  /\ fed' = <<>>
  /\ UNCHANGED <<blockVars, adalnVars, dense, request, faults>>

(* The core is replaced by the difference it made when it last ran. *)
AddResidual ==
  /\ gen.pc = "Step" /\ gen.step \in Selected(request) /\ ~EvaluatesCore
  /\ path' = Append(path, [by |-> "Residual", last |-> gen.residual, prev |-> NoStep])
  /\ gen' = Stepped([gen EXCEPT !.count = @ + 1])
  /\ fed' = <<>>
  /\ UNCHANGED <<blockVars, adalnVars, dense, request, faults>>

BeginCore ==
  /\ gen.pc = "Step" /\ gen.step \in Selected(request) /\ EvaluatesCore
  /\ gen' = [gen EXCEPT !.pc = "Acquire", !.layer = 0]
  /\ fed' = <<>>
  /\ UNCHANGED <<blockVars, adalnVars, dense, request, path, faults>>
-----------------------------------------------------------------------------
(* One layer of a core. *)

Modulated == adaln.mode \notin {"Off", "Skip"}
AfterFetch == IF Modulated THEN "Modulate" ELSE "Compute"
AfterAcquire == IF request.stream THEN "Fetch" ELSE AfterFetch

AcquireBlock ==
  /\ gen.pc = "Acquire"
  /\ AcquireHit(gen.layer) \/ AcquireRead(gen.layer)
  /\ gen' = [gen EXCEPT !.pc = AfterAcquire, !.mod = Unmodulated,
                        !.view = CHOOSE s \in Slots : slot'[s].index = gen.layer]
  /\ UNCHANGED <<adalnVars, dense, request, fed, path, faults>>

AcquireFails ==
  /\ gen.pc = "Acquire"
  /\ \/ AcquireRefused(gen.layer) /\ UNCHANGED faults
     \/ AcquireReadFails(gen.layer) /\ Fault("Block")
  /\ gen' = Ended("Failed")
  /\ UNCHANGED <<adalnVars, dense, request, fed, path>>

NextLayer == IF gen.layer + 1 < request.layers THEN gen.layer + 1 ELSE 0

FetchNext ==
  /\ gen.pc = "Fetch"
  /\ PrefetchAsync(NextLayer)
  /\ gen' = [gen EXCEPT !.pc = AfterFetch]
  /\ UNCHANGED <<adalnVars, dense, request, fed, path, faults>>

(* A layer whose projection cannot be loaded runs unmodulated. *)
Modulate ==
  /\ gen.pc = "Modulate"
  /\ \E readOk \in BOOLEAN :
       /\ Loaded(gen.layer, readOk)
       /\ gen' = [gen EXCEPT !.pc = "Ahead", !.mod = LoadMod(gen.layer, readOk).mod]
       /\ IF LoadMod(gen.layer, readOk) # LoadMod(gen.layer, TRUE)
          THEN Fault("Mod") ELSE UNCHANGED faults
  /\ UNCHANGED <<blockVars, dense, request, fed, path>>

ModulateAhead ==
  /\ gen.pc = "Ahead"
  /\ AdalnPrefetch(gen.layer + 1)
  /\ gen' = [gen EXCEPT !.pc = "Compute"]
  /\ UNCHANGED <<blockVars, dense, request, fed, path, faults>>

Compute ==
  /\ gen.pc = "Compute"
  /\ fed' = Append(fed, [block |-> Content(gen.view), mod |-> gen.mod])
  /\ gen' = [gen EXCEPT !.pc = "Join"]
  /\ UNCHANGED <<blockVars, adalnVars, dense, request, path, faults>>

(* What the last layer of a core adds: the residual of the core, the velocity *)
(* of an evaluated step, and the step of the latent itself.                   *)
CoreDone_KeepsPrevious ==
  Stepped([gen EXCEPT !.count = @ + 1,
                      !.residual = IF request.core > 1 THEN gen.step ELSE @,
                      !.last = IF request.every > 1 THEN gen.step ELSE @])

CoreDone ==
  Stepped([gen EXCEPT !.count = @ + 1,
                      !.residual = IF request.core > 1 THEN gen.step ELSE @,
                      !.prev = IF request.every > 1 THEN gen.last ELSE @,
                      !.last = IF request.every > 1 THEN gen.step ELSE @])
LastLayer == gen.layer + 1 = request.layers

FinishLayer_NoJoin ==
  /\ gen.pc = "Join"
  /\ request.stream => helper.pc = "Idle" /\ status = "Ok"
  /\ ReleaseBlock(gen.layer)
  /\ gen' = IF LastLayer THEN CoreDone
            ELSE [gen EXCEPT !.pc = "Acquire", !.layer = @ + 1, !.view = NoSlot]
  /\ path' = IF LastLayer
             THEN Append(path, [by |-> "Core", last |-> gen.step, prev |-> NoStep]) ELSE path
  /\ UNCHANGED <<adalnVars, dense, request, fed, faults>>

(* Join the helpers of both stores, as far as they were started, and release. *)
FinishLayer ==
  /\ gen.pc = "Join"
  /\ reader = NoLayer
  /\ request.stream => helper.pc = "Idle" /\ status = "Ok"
  /\ ReleaseBlock(gen.layer)
  /\ gen' = IF LastLayer THEN CoreDone
            ELSE [gen EXCEPT !.pc = "Acquire", !.layer = @ + 1, !.view = NoSlot]
  /\ path' = IF LastLayer
             THEN Append(path, [by |-> "Core", last |-> gen.step, prev |-> NoStep]) ELSE path
  /\ UNCHANGED <<adalnVars, dense, request, fed, faults>>

PrefetchFailed_KeepsPin ==
  /\ gen.pc = "Join"
  /\ reader = NoLayer /\ request.stream
  /\ helper.pc = "Idle" /\ status # "Ok"
  /\ gen' = Ended("Failed")
  /\ UNCHANGED <<blockVars, adalnVars, dense, request, fed, path, faults>>

(* A block that could not be read ahead ends the generation. *)
PrefetchFailed ==
  /\ gen.pc = "Join"
  /\ reader = NoLayer /\ request.stream
  /\ helper.pc = "Idle" /\ status # "Ok"
  /\ ReleaseBlock(gen.layer)
  /\ gen' = Ended("Failed")
  /\ UNCHANGED <<adalnVars, dense, request, fed, path, faults>>
-----------------------------------------------------------------------------
MainStep == \/ BindOk \/ BindFailsEarly \/ BindFailsHalfWay \/ Check
            \/ Extrapolate \/ AddResidual \/ BeginCore
            \/ AcquireBlock \/ AcquireFails \/ FetchNext \/ Modulate \/ ModulateAhead
            \/ Compute \/ FinishLayer \/ PrefetchFailed

mainVars == <<dense, request, gen, fed, path>>
HelperStep ==
  /\ \/ PrefetchSkips /\ UNCHANGED faults
     \/ PrefetchBegins /\ UNCHANGED faults
     \/ PrefetchReads /\ UNCHANGED faults
     \/ PrefetchReadFails /\ Fault("Block")
  /\ UNCHANGED <<adalnVars, mainVars>>

ReaderStep ==
  /\ \/ ReaderReads /\ UNCHANGED faults
     \/ ReaderFails /\ Fault("Ahead")
  /\ UNCHANGED <<blockVars, mainVars>>

Next == \/ \E r \in Requests : StartGeneration(r)
        \/ MainStep \/ HelperStep \/ ReaderStep

Spec == Init /\ [][Next]_vars
(* Threads run and reads return; nobody owes the engine another request. *)
LiveSpec == Spec /\ WF_vars(MainStep) /\ WF_vars(HelperStep) /\ WF_vars(ReaderStep)
-----------------------------------------------------------------------------
(* Between acquire and release, and only then, one slot is pinned, by the one *)
(* layer that computes: no way out of a generation leaves a slot pinned.      *)
HoldsBlock == gen.pc \in {"Fetch", "Modulate", "Ahead", "Compute", "Join"}
PinsAreTheLayer ==
  \A s \in Slots : slot[s].pins = IF HoldsBlock /\ slot[s].index = gen.layer THEN 1 ELSE 0

(* No block is in two slots, so release gives back what acquire has pinned.   *)
OneSlotPerBlock ==
  \A s, t \in Slots : slot[s].index = slot[t].index /\ slot[s].index # NoLayer => s = t

(* "acquire(i) returns a pointer that stays valid until release(i).           *)
(* prefetch(i+1) may overlap with compute on i." (block_store.hpp)            *)
HeldBlockIsStable ==
  [][HoldsBlock /\ HoldsBlock' /\ gen'.layer = gen.layer =>
       Content(gen.view)' = Content(gen.view)]_vars

(* A layer is modulated by its own projection of the transformer whose small  *)
(* weights are loaded, or by none: whatever fails, never by that of another   *)
(* layer or of the transformer bound before.                                  *)
ModulationIsOfTheLayer ==
  \A i \in DOMAIN fed : fed[i].mod \in {Unmodulated, <<dense, i - 1>>}

(* "Prefetch failures are silent fallbacks to sync read": a layer that has a  *)
(* projection goes without it only if that read fails too, or a binding has.  *)
ModulatedWhereUsable ==
  setting # "Skip" /\ faults \cap {"Bind", "Mod"} = {} =>
    \A i \in DOMAIN fed : i - 1 \in Usable => fed[i].mod # Unmodulated

(* The helper of the AdaLN store never runs while the main thread uses or     *)
(* closes what they share, nor with the files closed ("Prefetch pread after   *)
(* st_close_dir on Ref2VA rebind").                                           *)
ReaderIsAlone == reader # NoLayer => gen.pc \in {"Compute", "Join"} /\ adaln.open

(* A step that is not evaluated continues from the latest evaluated steps of  *)
(* this generation, and the first and the last step are always evaluated.     *)
Evaluated(s) == path[s + 1].by = "Core"
Newest(S) == CHOOSE s \in S : \A t \in S : t <= s
NewestOrNone(S) == IF S = {} THEN NoStep ELSE Newest(S)
ReuseIsTheLatest ==
  /\ \A s \in 0..Len(path) - 1 :
       LET before == {t \in 0..s - 1 : Evaluated(t)}
           latest == NewestOrNone(before)
       IN CASE path[s + 1].by = "Core" -> TRUE
            [] path[s + 1].by = "Residual" -> path[s + 1].last = latest /\ s - latest < request.core
            [] OTHER -> /\ path[s + 1].last = latest
                        /\ path[s + 1].prev = NewestOrNone(before \ {latest})
  /\ path # <<>> => Evaluated(0)
  /\ Len(path) = Steps => Evaluated(Steps - 1)

(* Every generation is answered. *)
GenerationsEnd == gen.pc # "Idle" ~> gen.pc = "Idle"

(* Reference images select "Ref2VA/transformer when present" (family.hpp).    *)
ReferencesReadRef2VA ==
  gen.pc = "Idle" /\ gen.outcome = "Ok" /\ request.want = Ref =>
    \A i \in DOMAIN fed : fed[i].block \in {<<Ref, b>> : b \in Layers}

(* The loop implements what a client expects of a generation. *)
Promised == INSTANCE DenoisePass WITH
  Weights <- Bytes,
  phase <- IF gen.pc = "Idle" THEN "Idle" ELSE "Busy",
  model <- request.want,
  layers <- request.layers,
  run <- [i \in DOMAIN fed |-> fed[i].block],
  moved <- Len(path),
  answer <- gen.outcome,
  disk <- IF faults \cap {"Bind", "Block"} = {} THEN "Sound" ELSE "Failing"
KeepsPromise == Promised!PassSpec
=============================================================================
