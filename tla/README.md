# Formal models of micro-vllm

TLA+ models of the parts of micro-vllm whose correctness is a matter of order,
sharing and failure: the batch scheduler with the KV slots it hands out, the
stdin/stdout mux and the HTTP server that drive it, the expert store with its
read-ahead thread, the H3 denoising loop with its two stores, and the
conversation file with what the engine makes of it. TLC checks small instances;
TLAPS proves the safety of all of them for every value of their constants.

`src/...` paths below are relative to the source root (`src/serve/...` is the
repository's `src/serve/...`).

## 1. The system and its parts

A server process owns one `Engine` (one model) and serves requests over HTTP
or over a line protocol on stdin/stdout (the "mux").

    HTTP handler threads --engine_mu_--+
                                       +--> BatchScheduler --g_batch_mu--> SessionStore (busy, histories)
    Mux loop (one thread) -------------+          |                  +--> Engine (KvPrefix, persist file)
          |                                       v                             |
          +-- direct generate_ids --------> FamilyEngine slots (KV rows) <------+ export/import rows
                                                  |
                                    ExpertStore --helper thread--> files

    HTTP /v1/videos --> H3Engine::generate_video --> BlockStore, H3AdalnStore --helper threads--> files

| Component (sources) | State | Operations | Correct when |
|---|---|---|---|
| BatchScheduler (`serve/scheduler.cpp`) | `jobs_`, ids, counters | submit, stop, cancel, pump | a slot has one owner, an ended job stays ended, first come first served, every job ends, counters add up |
| SessionStore (`serve/session.cpp`) | per slot: busy, history | try_acquire, release, commit, match | a history is a completed transcript |
| KvPrefix (`store/kv_prefix.cpp`) | token ids recorded for a slot | alloc, grow, record, reuse | never makes a request reuse rows of another text |
| Family engines (`model/llama.cpp`, `model/kimi_k3.cpp`, others) | per slot: history, KV rows, pos, recurrent state, budget | begin_generate, next_token(s), end_generate, generate, export/import rows | a token is sampled from exactly the transcript |
| Engine (`engine.cpp`) | prefixes, persist file, persist_hist_ | generate_ids, persist_open/commit/close | the file follows the conversation, a reopen restores it |
| KvPersist V1/V2/V3 (`store/kv_persist*.cpp`) | file, `disk_nrec_`, stale | open, load, append, truncate | a crash leaves the log before or after the call |
| ExpertStore (`store/expert_store.cpp`) | per layer: slots (expert, pins, LRU age), by_expert; prefetch thread and its status | lookup, release, prefetch(_one_async), wait_prefetch | right weights, leases stable, no pin leaks, rounds end |
| BlockStore (`store/block_store.cpp`) | slots of a window: block, pins, age; prefetch thread and its status | open, register_block, acquire, release, prefetch_async, wait_prefetch | a held block stays what it is, pins balance |
| H3AdalnStore (`model/h3_adaln_store.cpp`) | resident projections, one read ahead, its thread and status | bind, close, prefetch, load_mod | a layer is modulated by its own projection or by none |
| H3 denoising loop (`model/h3.cpp`) | bound transformer, step, layer, residual and velocity caches | generate_video | layers in order, reuse of the latest steps, pins given back on every way out |
| Mux (`serve/mux_stdio.cpp`) | flights, sched_to_client, pending images, `generating`, eof | SUBMIT, STOP, CANCEL, IMAGE, pump, harvest | one terminal frame per accepted id, and it drains at the end of input |
| HTTP server (`serve/http_server.cpp`, `serve/anthropic.cpp`) | threads, `inflight_`, `engine_mu_` | handler loops, hang-up, keep-alive, direct generations | one reply or one ended stream per request, no job outlives its handler |
| Codecs, tokenizer, grammar, quantisation, operators, media, GPU, config | none or numeric | pure functions | not a matter of state (section 8) |

What makes the system hard: jobs of several clients are advanced by whichever
client pumps, and its on_token closures live on the stacks of other threads;
jobs are cancelled, stopped and expired between any two steps; commands are read
in the middle of a generation; rows stay in a slot after its job and are reused;
a forward step can fail half way; the stores read files on second threads, some
of it outside the mutex; appends, fsyncs and the process can die at any point;
and the file is opened by a later process with what is left. `PROJECT.json`
lists these hazards line by line, with the properties that watch each.

## 2. Modules

| Module | Models |
|---|---|
| `KvPrefix` | pure operators of `KvPrefix` and `kv_common_prefix`; a record is `[cap, fed]` |
| `FamilySlot` | pure operators on one slot: what begin_generate, next_token, a failing prefill or step, and end_generate leave. `rows` are the tokens the cache rows were computed from, `absorbed` the tokens the K3 recurrent state has seen |
| `BatchScheduler` | the scheduler with everything a call changes: jobs, busy flags, histories, prefix records, slots, counters |
| `ConversationSlots` | what clients of the scheduler were promised: requests take a slot, start in order, end once, and only an answer changes a conversation |
| `PumpedSlots` | that promise as the two servers use it: with max_queue, a token budget, and the on_token calls of a pump |
| `Mux`, `MuxProtocol` | the mux over `PumpedSlots`; what its client sees |
| `HttpServing`, `HttpExchange` | the HTTP server over `PumpedSlots`; what one connection is owed |
| `ExpertStore`, `ExpertRound` | one layer's slots, `by_expert` and LRU order, the MoE loop that leases (`main`), the read-ahead thread (`helper`), the grouped path of dsv4; what a layer expects of a round |
| `H3Transformer` | the transformers of a checkpoint and the numbering of their layers |
| `BlockStore`, `H3AdalnStore` | the two stores of the H3 engine, operation by operation |
| `H3Denoise`, `DenoisePass` | generate_video, which composes both stores; what a client expects of a generation |
| `KvPersist`, `CrashSafeLog` | the file as the kernel shows it and as the disk has it, and the handle, between any two writes; what a caller may count on |
| `EnginePersist` | turns against an open file: slots, prefixes, sessions, log, restarts |
| `*Proofs` | theorems about the module named |
| `MC*` and `*.cfg` | instances for TLC |

The scheduler appears at two levels. `BatchScheduler` is the code, and TLC and
TLAPS show that it implements `ConversationSlots`. `Mux` and `HttpServing` are
composed with `PumpedSlots`, which extends `ConversationSlots`, so what they are
shown to do rests on the promise and not on the scheduler's code.

How the code maps to actions:

* Every scheduler method holds `g_batch_mu` throughout, so `Submit`, `Stop`,
  `Cancel` and `Pump` are one action each. A pump ends the stopped jobs,
  expires a set of queued ones (ids below a bound, because `queued_at` grows
  with the id), and then either admits the oldest queued job (`AdmitOk`,
  `AdmitError`, `AdmitWhole` for a family without begin_generate) or decodes
  one step of every running job (`DecodeOk`, `DecodeError`). `Settle` is
  finish_done / finish_err / expiry: slot, busy flag, history and prefix change
  with the job's state. `next_tokens` fails or succeeds for all jobs at once,
  as every family with begin_generate implements it.
* In `Mux` a command is one action, read by `run()` (`AtRun`) or, during a
  direct generation, by `poll_controls` inside on_token (`InCallback`). A direct
  generation is therefore several actions (`SubmitDirect`, `DirectToken`,
  `DirectEnds`) between which commands arrive, and the id that is `generating`
  can be cancelled from within. A pump and the harvest after it are one action;
  `sent` holds the frames of the last action per id. `turn` is the alternation
  of `run()`: a command, then a pump if there is a flight.
* In `HttpServing` an action of a handler is one critical section of
  `engine_mu_`, or what lies between two of them. `Pump(h)` writes to the
  sockets of all handlers whose jobs got a token. A generation under the lock
  (`engineMu`), and one of the Anthropic handler, which takes no lock, last for
  several actions. `serve_forever` returns when its listener has failed and the
  last thread is gone.
* In `ExpertStore` an action is what happens between two points at which the
  other thread can be seen: taking a pin under the mutex (`LookupMiss`,
  `PrefetchBegins`), the unlocked read with its unlocked installation
  (`...Loaded`, `...Failed`), `Use`, `Release`, `Join`. A failing read leaves
  either the old bytes or a torn blob.
* `BlockStore` keeps its mutex for a whole read, so `Acquire...`,
  `ReleaseBlock` and the helper's `Prefetch...` exclude one another; but the
  main thread computes with a slot without the mutex, so the helper's read has a
  beginning and an end, and `Content(s)` is torn while the helper writes to `s`.
  `H3AdalnStore` has no lock around its files at all: each operation is guarded
  by the join it makes.
* `H3Denoise` puts the calls into the loop that makes them: `BindOk` and the two
  ways a binding fails, the reuse schedules (`Extrapolate`, `AddResidual`,
  `BeginCore`), and per layer acquire, prefetch, modulate, compute, join,
  release. `fed` records the block and the modulation each layer of the current
  core has computed with, `path` by which means each step moved the latent.
* In `KvPersist` an action is one write or one fsync. `Fail`, `Kill` and
  `PowerLoss` may strike at each of them, after any number of whole records
  and with one half written; a power loss mixes kernel and disk record by
  record. V2 and V3 have the same control and only other record encodings.
* In `EnginePersist` a turn is one action (engine_mu_ and the busy flag let one
  run per slot) and an append happens or fails as a whole, as `KvPersist`
  shows. A row is the context it was computed in, and `<<>>` when it was never
  computed or was computed over a wrong row.

Operators with an underscore and a word in their name (`Cancel_ForgetsOnly`, ...)
are faulty variants of the operator after them. They are used by the mutants
in `PROJECT.json` and by nothing else.

## 3. Runs

| Run | Question and answer |
|---|---|
| `sched_slots` | three jobs, two slots, stops, cancels, timeouts, failing steps: ownership, liveness of slots, accounting, order, finality, refinement of `ConversationSlots`, and with a pumping caller every job ends |
| `sched_data` | one slot, prompts that extend, repeat, shorten and contradict its past, untrusted `prefix_reuse`, budgets 0 and 2: every token is sampled from its transcript; only completions rewrite history |
| `sched_whole` | the inductive invariant of the proofs and the bound of the queue, with whole generations per pump, three slots and a full queue |
| `mux_stdio` | two ids mix scheduled and direct requests with images, STOP, CANCEL and the end of input anywhere: every job has its flight, a stashed image is not lost, a cancelled id is silent, refinement of `MuxProtocol`, and the mux drains and returns |
| `http_serve` | two connections of any kind, streamed or not, hang-ups, a failing listener: no job without a handler in its loop, refinement of `HttpExchange`, every handler ends |
| `store_pipe` | rounds of up to three of four experts (one without a file) over two slots, read-ahead, grouped leases, two failing reads: pins, exclusion, read-ahead, leases, refinement of `ExpertRound`, every round answered |
| `h3_stream` | generations on either transformer, streamed or not, with every kind of reuse and two kinds of fault: pins, held blocks, modulation, the lone reader, reuse, refinement of `DenoisePass`, every generation ends |
| `persist_crash` | files of up to three records, two failing calls, any number of kills and power losses: nothing counted is overwritten, nrec is fresh, and the file is a `CrashSafeLog` |
| `persist_turns` | one client, texts of up to four tokens, abandoned jobs, one failing append or open, reopens and restarts: the file is the conversation, its rows belong to their tokens, no slot keeps rows of another text |

Three runs expect a violation; each is a place where the code does other than
what a doc, a comment or a test says, and is a finding in `PROJECT.json`:

* `taint_doc`: a K3 step that fails in a MoE layer has advanced the recurrent
  state; the slot is reused and the token is absorbed twice.
* `persist_hist_doc`: the tail to append is chosen by length, so a turn of
  another slot or a rewritten conversation is appended behind another text.
* `http_serial_doc`: a message of the Anthropic API generates without
  `engine_mu_`, so two threads prefill in one engine.

Bounds, and why they are enough.

* Scheduler: three jobs and two slots give a holder, one that waits for the same
  slot and one on another slot; with a queue of two, one submission is refused.
  Two tokens and prompts of up to three make every relation of prompt to history
  (equal, longer, shorter, diverging). A budget of two has a first, a last and a
  stop-token end; zero is in `sched_data` and `sched_whole`.
* Mux (70,748 states): two ids are one that is scheduled and one that is
  generated directly, or two that are scheduled; a queue of one refuses the
  second; a budget of two has a token after which a command can arrive and one
  after it. Ids are reused as soon as they are free.
* HTTP (344,168 states): two handlers are the one that pumps and the one whose
  job is pumped, or the two that compete for the lock; either may hang up at any
  point. With one slot every completion is direct.
* Expert store: two slots and three experts per round force an eviction in every
  round; one slot is covered by the proofs, which hold for every number of slots.
* H3 (382,012 states): three layers over two slots force an eviction in every
  core and let the read-ahead of block 0 meet the last layer; four steps have a
  first, a last, and two that can be skipped in a row; `Usable` of two layers
  leaves one without a projection, and `Capacity` 1 makes one resident and one
  streamed. Two kinds of fault, each as often as it likes, allow a fault during
  the recovery from another.
* Files: three records and two record values let an append, a truncation and a
  rewrite overlap; `Records` is a symmetry set of `persist_crash`, which checks
  no liveness.

`MaxJobs`, `MaxRejects`, `MaxFaults`, `MaxRecs`, `MaxLen`, the sets of
`Requests`, the upper end of `MaxQueue` and the size of rounds are the only
bounds that the code does not have.

Deadlock checking is on except in the mux and HTTP runs, where the program
really stops: `run()` and `serve_forever` return.

Fairness. `EveryJobEnds` assumes weak fairness of `Pump`: the mux loop pumps on
every turn and each HTTP handler pumps until its job is finished. Clients
promise nothing, so the finite `MaxJobs` matters: a stream of submissions that
never stops would postpone decoding for ever, since a pump that admits does not
decode. `RoundsEnd` and `GenerationsEnd` assume that threads run and reads
return; nobody owes a store another round, nor the engine another generation.
`DrainsAtEof` assumes weak fairness of the mux's own work (`Work`): after the end
of input it has nothing else to do. `HandlersEnd` assumes that each handler
thread runs, weakly and on its own (`ByHandler(h)`): a thread waits for
`engine_mu_` while another has it, but each takes it a bounded number of times,
because a budget bounds the pumps. Neither the clients, the keep-alive thread
nor the listener are assumed to do anything.

## 4. What is proved

Every safety property a passing run checks is a theorem here. The named `ASSUME`s
(`SchedulerAssumption`, `StoreAssumption`, ...) say only what kind of value a
constant is, and that slots are finitely many; TLC evaluates them in every run.
Two hypotheses are left, each on the theorems named below: `~StepMayFail` (no
forward step fails half way) and `OneConversation` (one client, in one slot, that
only adds to what was said). `MCSchedTaintDoc.cfg` and `MCPersistHistDoc.cfg` have
the constants of the instances without them: there TLC finds the invariants of
those theorems violated when they are listed too.

**Scheduler** (`BatchSchedulerProofs`). The inductive invariant `SchedulerInv`
is `TypeOK` with `SlotOwnership`, `RunningIsLive`, `NoOrphanGeneration` and three
facts these need: ids are handed out in order (so a submission never overwrites
a job), a queued job has produced nothing (so an admitted one is in step with
its slot) and only ended jobs carry an error (so a stopped job ends Ok).
`SettleKeepsInv` carries the proof: whatever a pump computes, if it is
"in step" before Settle, the invariant holds after it; each kind of pump then
only has to show that. From the invariant follow type correctness, ownership,
`RunningIsLive` (with it, that no token -1 reaches a transcript),
`TerminalIsFinal`, `StoppedEndsDone`, `HistoryByCompletion`, `FifoAdmission`,
`QueueBound`, and that the scheduler implements `ConversationSlots`: each of the
four calls maps to a step of it or to a stutter.

`ContextIsTranscript` needs more: `ContextInv` says that the rows and the
recurrent state of every slot, in use or not, are those of a beginning of its
history. With it, the family's own comparison of histories is enough, whatever the
prefix record and the client's `prefix_reuse` say (`AppliedReuse`). It holds under
`~StepMayFail`: a K3 step that fails half way breaks it, which is the finding of
`taint_doc`. `Accounting` compares counters with sizes of sets of jobs; `CountInv`
adds the fact that makes it inductive, that the queued jobs were not yet
admitted (`admitted` and the queue together do not exceed the ids given out), and
`CountsAddUp` shows that the sets of live and ended jobs partition the ids.

**Pumped slots, mux and HTTP server.** `PumpedSlotsProofs` has the lemmas about
what a step of the scheduler's promise does to the set of accepted requests and
to the budgets: in particular that whatever a pump's outcome is, it is a `Serve`
whose tokens are within the budgets (`BudgetsLast`), which both servers cite.

* `MuxProofs`: the invariant is `TypeOK`, `BudgetsLast`, a one-to-one relation
  between unfinished jobs and scheduled flights (`JobsHaveFlights` as a bijection),
  `ImageOutlivesJob`, `SlotsGivenBack`, `DirectHasFlight`, that only a direct
  flight is ever marked cancelled, and that nothing is left once `run()` has
  returned. Each is needed by another: a harvest closes the right flight only
  because of the bijection, and `KeepsProtocol` needs `DirectHasFlight` to know
  that `DirectEnds` closes an open id exactly once. Proved from it: the two
  invariants above on images and slots (which no run repeats), `JobsHaveFlights`,
  `CancelledIsSilent`, `StashKept`, and the refinement of `MuxProtocol`.
* `HttpServingProofs`: `TypeOK`, `BudgetsLast`, for each handler which places it
  can be at with or without a job and with or without the lock (`HandlerOK`), at
  most one handler per job, and that `serve_forever` has returned only when it no
  longer listens. Proved from it: `JobsHaveHandlers` and the refinement of
  `HttpExchange`.

**Expert store** (`ExpertStoreProofs`). `StoreInv` strengthens the checked
invariants with: the shape of a round, what has been computed so far, which
leases a round holds (one, or one per expert of a group), that a read in
progress holds a pin of a slot nobody leases, and that a slot's bytes are its
expert's until a read has failed. It is needed because mutual exclusion here is
no lock but the join: `UnlockedLoadIsAlone` follows from where the main thread
can be while the helper reads. Proved from it: type correctness, `PinsAreLeases`,
`IndexIsInverse`, `UnlockedLoadIsAlone`, `RightWeightsUntilFault`,
`PrefetchPaysOff`, `LeasedSlotIsStable`, and the refinement of `ExpertRound`.
`NeverOutOfSlots` rests on a second invariant, `UseOrder`: `older`, the order of
last use, is a strict order of the slots, so among finitely many that are unpinned
one is the oldest (`SomeSlotIsOldest`); and the per-expert loop gives up a lookup
only after it has joined the helper, when no lease and no pin is left
(`VictimAtRefusal`).

**H3 loop** (`H3DenoiseProofs`). `IInv` is `TypeOK` with four parts. `Control`:
at which places of the loop which thread can run and what the step, the layer and
the caches are there. `Window`: no block is in two slots, one pin at most and
that of the layer in hand, and the helper never reads into it. `Weights`: until
an open or a block read has failed, a slot's bytes are the block of the
transformer asked for. `Modulation`: what is resident or read ahead is of the
bound transformer, whose small weights are also the ones loaded. The helper
threads make this more than bookkeeping: that the reader of `H3AdalnStore`
writes `pref_st_` without the mutex is harmless only because `Control` shows that
it runs between `ModulateAhead` and the join alone. Proved from it, for every
number of layers, slots, steps and every set of requests: type correctness,
`PinsAreTheLayer`, `ModulationIsOfTheLayer`, `ModulatedWhereUsable`,
`ReaderIsAlone`, `HeldBlockIsStable`, and the refinement of `DenoisePass`.
`ReuseIsTheLatest` is about the whole path of a generation; `Memory` ties it to
what the loop keeps: with `denoise_reuse`, `last` and `prev` are the newest two
evaluated steps of `path`; with `core_reuse`, `residual` is the newest, `count` is
the step, and the residual is at most `(step - 1) % core` steps older than the
step before, which is why it is never older than the cadence (`NextRemainder`).

**Conversation file** (`KvPersistProofs`), for every bound on records, faults and
crashes. `IInv` is `Shape`, which always holds, and `Settled`, which holds while
`sound` does. `Shape` is `TypeOK` with which call can be at which step
(`CallShape`) and that a call writes within the file it has (`Fits`). `Settled`
is what makes a power loss harmless: all records that either header counts, or
that the header about to be written will count, are whole and the same in the
kernel and on the disk (`Agree`), and the disk counts more than the kernel only
while a truncation syncs. It is needed because `AppendsPastHeader` alone says
nothing of the bytes under the next header: that they were synced before it is
written is what the order write, fsync, header, fsync is for. Proved from it: type
correctness, `AppendsPastHeader`, `NrecIsFresh`, and the refinement of
`CrashSafeLog`; the lemmas on `SubSeq` and on overwriting a part of a sequence
(`Patched`, `Joined`) carry the steps, and `LeftSettles` the power loss.

**Turns and the file** (`EnginePersistProofs`), for every number of slots, length
of a text and number of failures. The invariant `EngineInv` says that the logged
tokens begin what the client was told (`FileWasTold`), that what it was told and
the history of its slot are of one conversation, one beginning the other
(`HomeFollowsTold`: an abandoned job runs ahead of it, a reopened file may lag
behind), that the other slots are fresh, and of each slot's rows that a wrong
one is missing and answered for by a record of the same conversation, at or before
it, that the file keeps without its row (`Follows`). The last is the hard part:
`FilledFollows` shows that begin_generate's comparison keeps rows only of the text
both share, so the blame carries over to the new text; `GrownFile` that a record
appended from such rows belongs to its token; `ImportedFollows` that rows beyond
the file's, which an import leaves in the slot, are of the conversation the file
begins. Proved from it, under `OneConversation`: `FileIsTranscript`,
`StoredRowsBelong`, `OnlyTheFileMisleads`; type correctness holds with any clients.
With clients that contradict a conversation or use two slots all three fail, as in
`persist_hist_doc`.

Only model-checked: liveness (`EveryJobEnds`, `RoundsEnd`, `GenerationsEnd`,
`DrainsAtEof`, `HandlersEnd`), which TLAPS cannot prove.

## 5. Assumptions about the environment

* fsync makes a file durable with its name; pages of an fsync that failed are
  written by the next one that succeeds; the 40-byte header is written whole.
* A read of an expert, a block, a projection or of the file fails cleanly or
  returns all it was asked; a failed read may have overwritten part of its target.
* Client threads call the scheduler through its methods only; `engine_mu_`
  serialises HTTP handlers, and the mux is one thread.
* A command of the mux arrives whole: `run()` blocks inside one that has only
  begun to arrive, and pumps nothing meanwhile.
* The engine serves one video generation at a time (the handler holds
  `engine_mu_`), and a checkpoint has both transformers, of one geometry.
* `sound` in `KvPersist` is FALSE once a header write failed half way, or a
  load stopped at a read error; `KeepsLog`, `AppendsPastHeader` and `NrecIsFresh`
  promise nothing after that (next section).

## 6. Known deviations without a run

Met while modelling; each can be repeated by adding the line named to the cfg
named.

* `INVARIANT RightWeights` in `MCStorePipe.cfg`: a failed expert read leaves its
  victim slot valid, and a later lookup of the evicted expert hits the
  overwritten bytes. `BlockStore` has the same habit: a torn block is hit again
  by the next generation (`DenoisePass` promises nothing about weights once a
  read has failed).
* `PROPERTY FailedRoundsHadAFault` in `MCStorePipe.cfg`: the status of a failed
  read-ahead is kept and fails a later round that read nothing ahead.
* `INVARIANT WholeRecords` in `MCPersistCrash.cfg`: an fsync of nrec that fails
  makes the next append overwrite records the header may count; a crash then
  leaves half a record in the history.
* `INVARIANT ReopenRestoresRows` in `MCPersistTurns.cfg`: the last token of a
  turn that ends at a stop has no row; a zero row is stored, and a reopen takes
  it for computed.
* `PROPERTY HeadersFirst` in `MCHttpServe.cfg`: submit gives `engine_mu_` back
  before open_sse writes the headers, so a pump of another handler can send a
  chunk of the new job first.
* `INVARIANT ReferencesReadRef2VA` in `MCH3Stream.cfg`: when Ref2VA cannot be
  bound, the generation silently uses FL2VA's weights. Likewise the FL branch
  (`model/h3.cpp:259`) ignores the status of its bind.

And without a property:

* A failed bind leaves `transformer_dir_` unchanged, so a later request for the
  old transformer does not bind again and runs with AdaLN off; the model
  follows the code (`BindFailsEarly` closes `adaln` and keeps `dense`).
* The last layer of the last core reads block 0 ahead, and its failure fails a
  generation that has all its results (`model/h3.cpp:1175`).
* The HTTP handler reads the job's queue wait right after submit, so the
  queue-wait header is nearly always 0.
* The mux checks max_tokens before it looks for a duplicate id
  (`serve/mux_stdio.cpp:635-641`), so a duplicate can be answered `BAD_REQUEST`.
* `kv_prefix.hpp:7` says a KvPrefix holds the ids "the current KV state was built
  from", yet a job stopped in the queue is recorded, a cancelled one is not, and
  a shorter history keeps the tail of a longer one. It has no consequence: the
  family engine compares its own history before it keeps a row, which is what
  `ContextIsTranscript` shows.

## 7. Plan

1. Done: `KvPrefix`, `FamilySlot`, `BatchScheduler`, `ConversationSlots`;
   `ExpertStore`, `ExpertRound`; `KvPersist`, `CrashSafeLog`; `EnginePersist`;
   and their proofs.
2. Done: `BlockStore`, `H3AdalnStore`, `H3Denoise` with `DenoisePass`, and their
   proofs.
3. Done: `PumpedSlots`, `Mux` with `MuxProtocol`, and their proofs.
4. Done: `HttpServing` with `HttpExchange`, and their proofs.
5. Left: `EnginePersist` composed with two slots and the K3 recurrent state, whose
   import_kv_rows restores rows but not that state.
6. Left to prove: that `EnginePersist`, whose append happens or fails as a whole,
   may rest on `CrashSafeLog` step by step, as it does in words now.

## 8. Not modelled

Layer arithmetic, quantisation, sampling, tokenisation, grammars and codecs: pure
functions over data TLC cannot enumerate; the models take any token the sampler
could return and any read that could fail. They are most of the source: the
largest file, `include/json.hpp`, is vendored, and `model/ops.cpp`, the families'
layers, the H3 VAE and text encoder, and the GPU backends are numeric. What the
map covers is the control of the engine, its stores and its servers.

Left out of the modelled components: parsing and formatting of requests and
frames, the sidebands of the mux (STAT, TIERS, HITS, tools), statistics and
telemetry, and `stop()` of the HTTP server, which only the destructor calls, when
no thread is left. Of the H3 engine: conditioning, token reduction, audio and the
decoding of latents (one thread, numeric). Configuration, command line, the
legacy program, routing statistics: no shared state that a property could be
about. Performance counters and profiles. `KvPrefix::taint` and `clear`, which
nothing calls.
