--------------------------- MODULE BatchScheduler ---------------------------
(***************************************************************************)
(* BatchScheduler (src/serve/scheduler.cpp) together with everything one   *)
(* of its calls changes: the SessionStore's busy flags and histories, the  *)
(* engine's KvPrefix records and the family engine's KV slots.  Every      *)
(* method runs under g_batch_mu, so every method is one action.            *)
(*                                                                         *)
(* jobs_ is a vector that only grows; a job here is indexed by its id, and *)
(* an id that submit has not handed out yet is in state "None".            *)
(* The persist file is closed (no kv_path), so persist_commit is a no-op;  *)
(* EnginePersist models an open one.                                       *)
(***************************************************************************)
EXTENDS FamilySlot, FiniteSets

CONSTANTS Slots,        \* KV slots of the SessionStore
          Tokens,       \* token ids the sampler can produce
          Prompts,      \* prompts clients submit
          Budgets,      \* max_new_tokens clients ask for
          Reuses,       \* gp.prefix_reuse clients pass: any number, never trusted
          MaxQueue,     \* max_queue_
          MaxJobs,      \* bound: ids submit hands out
          MaxRejects,   \* bound: "queue full" answers that are counted
          Stepwise,     \* the family has begin_generate / next_token
          StepMayFail   \* an expert read can fail inside a forward step

ASSUME SchedulerAssumption ==
  /\ Slots # {} /\ Tokens \subseteq Nat /\ Prompts \subseteq Seq(Tokens)
  /\ Budgets \subseteq Nat /\ Reuses \subseteq Nat
  /\ MaxQueue \in Nat \ {0} /\ MaxJobs \in Nat /\ MaxRejects \in Nat
  /\ Stepwise \in BOOLEAN /\ StepMayFail \in BOOLEAN

VARIABLES jobs,      \* jobs_, by id
          nextId,    \* next_id_
          busy,      \* SessionStore::busy_
          hist,      \* SessionStore::hist_
          prefix,    \* Engine::prefixes_
          fam,       \* the family engine's slots_
          count      \* admitted_, completed_, rejected_, timed_out_, cancelled_

vars == <<jobs, nextId, busy, hist, prefix, fam, count>>

Jobs == 1..MaxJobs
JobStates == {"None", "Queued", "Running", "Stopped", "Done", "Cancelled"}
Outcomes == {"Ok", "Error", "Timeout"}
Transcripts == Seq(Tokens)

Job == [state : JobStates, slot : Slots, ids : Transcripts, toks : Transcripts,
        max : Nat, reuse : Nat, outcome : Outcomes]
Counters == [admitted : Nat, completed : Nat, rejected : Nat, timedOut : Nat,
             cancelled : Nat]

TypeOK == /\ jobs \in [Jobs -> Job]
          /\ nextId \in 1..MaxJobs + 1
          /\ busy \in [Slots -> BOOLEAN]
          /\ hist \in [Slots -> Transcripts]
          /\ prefix \in [Slots -> Prefixes(Tokens)]
          /\ fam \in [Slots -> SlotRecords(Tokens)]
          /\ count \in Counters

JobsIn(state) == {j \in Jobs : jobs[j].state = state}
Terminal(job) == job.state \in {"Done", "Cancelled"}
Live(job) == job.state \in {"Queued", "Running", "Stopped"}
LiveJobs == {j \in Jobs : Live(jobs[j])}
Transcript(job) == job.ids \o job.toks

Init ==
  /\ jobs = [j \in Jobs |-> [state |-> "None", slot |-> CHOOSE s \in Slots : TRUE,
                             ids |-> <<>>, toks |-> <<>>, max |-> 0, reuse |-> 0,
                             outcome |-> "Ok"]]
  /\ nextId = 1
  /\ busy = [s \in Slots |-> FALSE]
  /\ hist = [s \in Slots |-> <<>>]
  /\ prefix = [s \in Slots |-> NoPrefix]
  /\ fam = [s \in Slots |-> EmptySlot]
  /\ count = [admitted |-> 0, completed |-> 0, rejected |-> 0, timedOut |-> 0,
              cancelled |-> 0]
-----------------------------------------------------------------------------
(* The operators whose name ends in an underscore and a word are faulty       *)
(* variants of the operation that follows them: PROJECT.json names the        *)
(* property each of them breaks.                                              *)

Submit_OneTooMany(s, ids, max, reuse) ==
  /\ nextId <= MaxJobs
  /\ Cardinality(LiveJobs) <= MaxQueue
  /\ ~busy[s]
  /\ busy' = [busy EXCEPT ![s] = TRUE]
  /\ jobs' = [jobs EXCEPT ![nextId] =
                [state |-> "Queued", slot |-> s, ids |-> ids, toks |-> <<>>, max |-> max,
                 reuse |-> reuse, outcome |-> "Ok"]]
  /\ nextId' = nextId + 1
  /\ UNCHANGED <<hist, prefix, fam, count>>

(* submit: the queue has room and try_acquire(slot) succeeds. *)
Submit(s, ids, max, reuse) ==
  LET armed    == PrefixArm(prefix[s], hist[s], ids, 0)
      official == PrefixReuse(armed, ids)
  IN /\ nextId <= MaxJobs
     /\ Cardinality(LiveJobs) < MaxQueue
     /\ ~busy[s]
     /\ busy' = [busy EXCEPT ![s] = TRUE]
     /\ prefix' = [prefix EXCEPT ![s] = armed]
     /\ jobs' = [jobs EXCEPT ![nextId] =
                   [state |-> "Queued", slot |-> s, ids |-> ids, toks |-> <<>>, max |-> max,
                    reuse |-> IF official > 0 THEN official ELSE reuse, outcome |-> "Ok"]]
     /\ nextId' = nextId + 1
     /\ UNCHANGED <<hist, fam, count>>

(* submit: "queue full".  "SLOT_BUSY" changes nothing at all. *)
RejectFull ==
  /\ Cardinality(LiveJobs) >= MaxQueue
  /\ count.rejected < MaxRejects
  /\ count' = [count EXCEPT !.rejected = @ + 1]
  /\ UNCHANGED <<jobs, nextId, busy, hist, prefix, fam>>

(* stop: the job is finished, as DONE, by a later pump. *)
Stop(j) ==
  /\ jobs[j].state \in {"Queued", "Running"}
  /\ jobs' = [jobs EXCEPT ![j].state = "Stopped"]
  /\ UNCHANGED <<nextId, busy, hist, prefix, fam, count>>

Cancel_Orphan(j) ==
  /\ Live(jobs[j])
  /\ busy' = [busy EXCEPT ![jobs[j].slot] = FALSE]
  /\ jobs' = [jobs EXCEPT ![j].state = "Cancelled"]
  /\ count' = [count EXCEPT !.cancelled = @ + 1]
  /\ UNCHANGED <<nextId, hist, prefix, fam>>

Cancel_Commits(j) ==
  /\ Live(jobs[j])
  /\ fam' = [fam EXCEPT ![jobs[j].slot] = EndedSlot(@)]
  /\ busy' = [busy EXCEPT ![jobs[j].slot] = FALSE]
  /\ hist' = [hist EXCEPT ![jobs[j].slot] = Transcript(jobs[j])]
  /\ jobs' = [jobs EXCEPT ![j].state = "Cancelled"]
  /\ count' = [count EXCEPT !.cancelled = @ + 1]
  /\ UNCHANGED <<nextId, prefix>>

(* cancel: the slot is given back, its history is kept. *)
Cancel(j) ==
  /\ Live(jobs[j])
  /\ fam' = [fam EXCEPT ![jobs[j].slot] = EndedSlot(@)]
  /\ busy' = [busy EXCEPT ![jobs[j].slot] = FALSE]
  /\ jobs' = [jobs EXCEPT ![j].state = "Cancelled"]
  /\ count' = [count EXCEPT !.cancelled = @ + 1]
  /\ UNCHANGED <<nextId, hist, prefix>>
-----------------------------------------------------------------------------
(* What a pump leaves behind: js and sl are the jobs and slots after the    *)
(* forward step; the jobs of D are finish_done'd, those of F finish_err'd,   *)
(* those of E expired out of the queue.                                     *)
EndedOn(s, js, J) == \E j \in J : js[j].slot = s
EnderOn(s, js, J) == CHOOSE j \in J : js[j].slot = s

Settle_KeepsFailedSlot(js, sl, D, F, E) ==
  LET over(s) == EndedOn(s, js, D \cup E)
      said(s) == Transcript(js[EnderOn(s, js, D)])
  IN /\ jobs' = [j \in Jobs |->
                   IF j \in D THEN [js[j] EXCEPT !.state = "Done"]
                   ELSE IF j \in F THEN [js[j] EXCEPT !.state = "Done", !.outcome = "Error"]
                   ELSE IF j \in E THEN [js[j] EXCEPT !.state = "Done", !.outcome = "Timeout"]
                   ELSE js[j]]
     /\ fam' = [s \in Slots |-> IF over(s) THEN EndedSlot(sl[s]) ELSE sl[s]]
     /\ busy' = [s \in Slots |-> busy[s] /\ ~over(s)]
     /\ hist' = [s \in Slots |-> IF EndedOn(s, js, D) THEN said(s) ELSE hist[s]]
     /\ prefix' = [s \in Slots |-> IF EndedOn(s, js, D) THEN PrefixCommit(prefix[s], said(s))
                                   ELSE prefix[s]]
     /\ nextId' = nextId

Settle(js, sl, D, F, E) ==
  LET over(s) == EndedOn(s, js, D \cup F \cup E)
      said(s) == Transcript(js[EnderOn(s, js, D)])
  IN /\ jobs' = [j \in Jobs |->
                   IF j \in D THEN [js[j] EXCEPT !.state = "Done"]
                   ELSE IF j \in F THEN [js[j] EXCEPT !.state = "Done", !.outcome = "Error"]
                   ELSE IF j \in E THEN [js[j] EXCEPT !.state = "Done", !.outcome = "Timeout"]
                   ELSE js[j]]
     /\ fam' = [s \in Slots |-> IF over(s) THEN EndedSlot(sl[s]) ELSE sl[s]]
     /\ busy' = [s \in Slots |-> busy[s] /\ ~over(s)]
     /\ hist' = [s \in Slots |-> IF EndedOn(s, js, D) THEN said(s) ELSE hist[s]]
     /\ prefix' = [s \in Slots |-> IF EndedOn(s, js, D) THEN PrefixCommit(prefix[s], said(s))
                                   ELSE prefix[s]]
     /\ nextId' = nextId

Tally_ExpiryUncounted(admitted, D, E) ==
  count' = [count EXCEPT !.admitted = @ + admitted, !.completed = @ + Cardinality(D)]

Tally(admitted, D, E) ==
  count' = [count EXCEPT !.admitted = @ + admitted, !.completed = @ + Cardinality(D),
                         !.timedOut = @ + Cardinality(E)]

(* Jobs queued for queue_timeout_s_ or longer: queued_at grows with the id. *)
ExpirySets == {{j \in JobsIn("Queued") : j < k} : k \in 1..MaxJobs + 1}

FirstOf_Newest(Q) == CHOOSE j \in Q : \A k \in Q : k <= j

FirstOf(Q) == CHOOSE j \in Q : \A k \in Q : j <= k

(* pump, admitting the oldest queued job q: begin_generate succeeds... *)
AdmitOk(q, E) ==
  LET job == jobs[q]
  IN /\ Stepwise
     /\ job.ids # <<>>
     /\ Settle([jobs EXCEPT ![q].state = "Running",
                            ![q].reuse = AppliedReuse(fam[job.slot], job.ids, job.reuse)],
               [fam EXCEPT ![job.slot] = BegunSlot(@, job.ids, job.max, job.reuse)],
               JobsIn("Stopped"), {}, E)
     /\ Tally(1, JobsIn("Stopped"), E)

(* ... or refuses the prompt ("empty prompt"), or fails inside the prefill. *)
AdmitError(q, E) ==
  LET job == jobs[q]
  IN /\ Stepwise
     /\ \/ /\ job.ids = <<>>
           /\ Settle(jobs, fam, JobsIn("Stopped"), {q}, E)
        \/ /\ StepMayFail
           /\ \E c \in ChunksBeforeFailure(fam[job.slot], job.ids, job.reuse) :
                Settle(jobs, [fam EXCEPT ![job.slot] =
                                BeginFailedSlot(@, job.ids, job.reuse, c)],
                       JobsIn("Stopped"), {q}, E)
     /\ Tally(1, JobsIn("Stopped"), E)

(* ... or is Unsupported: the whole generation runs inside this pump. *)
AdmitWhole(q, E) ==
  /\ ~Stepwise
  /\ \/ \E toks \in UNION {[1..n -> Tokens] : n \in 0..jobs[q].max} :
          LET D == JobsIn("Stopped") \cup {q}
          IN /\ Settle([jobs EXCEPT ![q].toks = toks, ![q].reuse = 0], fam, D, {}, E)
             /\ Tally(1, D, E)
     \/ /\ Settle([jobs EXCEPT ![q].reuse = 0], fam, JobsIn("Stopped"), {q}, E)
        /\ Tally(1, JobsIn("Stopped"), E)

PumpAdmit(E) ==
  /\ JobsIn("Queued") \ E # {}
  /\ LET q == FirstOf(JobsIn("Queued") \ E)
     IN AdmitOk(q, E) \/ AdmitError(q, E) \/ AdmitWhole(q, E)
-----------------------------------------------------------------------------
(* pump with nothing queued: one decode step of every running job. *)
Spent(job) == Len(job.toks) >= job.max
Decoding_WithStopped == {j \in JobsIn("Running") \cup JobsIn("Stopped") : ~Spent(jobs[j])}

Decoding == {j \in JobsIn("Running") : ~Spent(jobs[j])}
DecodingOn(s) == {j \in Decoding : jobs[j].slot = s}

(* next_token(s) of a live slot hands the job the sampled token tok[j], or -1 *)
(* and done when the slot's own budget is already used up.                   *)
NoToken == -1

DecodeOk(E, tok, stop) ==
  LET js == [j \in Jobs |->
               IF j \in Decoding
               THEN [jobs[j] EXCEPT !.toks =
                       Append(@, IF HasBudget(fam[jobs[j].slot]) THEN tok[j] ELSE NoToken)]
               ELSE jobs[j]]
      sl == [s \in Slots |->
               IF DecodingOn(s) # {} /\ HasBudget(fam[s])
               THEN LET j == CHOOSE j \in DecodingOn(s) : TRUE
                    IN SteppedSlot(fam[s], tok[j], j \in stop)
               ELSE fam[s]]
      last == {j \in Decoding : \/ ~HasBudget(fam[jobs[j].slot])
                                \/ LastToken(fam[jobs[j].slot], j \in stop)
                                \/ Spent(js[j])}
      D == JobsIn("Stopped") \cup (JobsIn("Running") \ Decoding) \cup last
  IN /\ \A j \in Decoding : fam[jobs[j].slot].live
     /\ Settle(js, sl, D, {}, E)
     /\ Tally(0, D, E)

(* next_token / next_tokens fails: no job gets a token and all of them end.  *)
(* With no live generation in a slot the call is refused before any sampling.*)
DecodeError(E, tok, stop) ==
  LET stale == \E j \in Decoding : ~fam[jobs[j].slot].live
      sl == [s \in Slots |->
               IF ~stale /\ DecodingOn(s) # {} /\ HasBudget(fam[s])
               THEN LET j == CHOOSE j \in DecodingOn(s) : TRUE
                    IN StepFailedSlot(fam[s], tok[j], j \in stop)
               ELSE fam[s]]
      D == JobsIn("Stopped") \cup (JobsIn("Running") \ Decoding)
  IN /\ \/ stale
        \/ /\ StepMayFail
           /\ \E j \in Decoding : /\ HasBudget(fam[jobs[j].slot])
                                  /\ ~LastToken(fam[jobs[j].slot], j \in stop)
     /\ Settle(jobs, sl, D, Decoding, E)
     /\ Tally(0, D, E)

PumpDecode_NothingToDecode(E) ==
  /\ JobsIn("Queued") \subseteq E
  /\ Decoding # {}
  /\ \E tok \in [Decoding -> Tokens], stop \in SUBSET Decoding :
       DecodeOk(E, tok, stop) \/ DecodeError(E, tok, stop)

PumpDecode(E) ==
  /\ JobsIn("Queued") \subseteq E
  /\ \E tok \in [Decoding -> Tokens], stop \in SUBSET Decoding :
       DecodeOk(E, tok, stop) \/ DecodeError(E, tok, stop)

Pump == \E E \in ExpirySets : PumpAdmit(E) \/ PumpDecode(E)

Next ==
  \/ \E s \in Slots, ids \in Prompts, max \in Budgets, reuse \in Reuses :
       Submit(s, ids, max, reuse)
  \/ RejectFull
  \/ \E j \in Jobs : Stop(j) \/ Cancel(j)
  \/ Pump

Spec == Init /\ [][Next]_vars

(* The mux loop and every HTTP handler keep pumping while a job of theirs is *)
(* not finished; clients promise nothing.                                    *)
FairSpec == Spec /\ WF_vars(Pump)
-----------------------------------------------------------------------------
(* A slot is busy exactly while one unfinished job holds it, and no two      *)
(* unfinished jobs share a slot: the release calls of pump, cancel and the    *)
(* expiry loop never free a slot somebody else has acquired.                 *)
SlotOwnership ==
  /\ \A s \in Slots : busy[s] <=> \E j \in LiveJobs : jobs[j].slot = s
  /\ \A j, k \in LiveJobs : jobs[j].slot = jobs[k].slot => j = k

(* A running job's slot holds that job's live generation, in step with it:   *)
(* next_token is never refused ("no live generate") and never hands out the   *)
(* token -1 of an exhausted budget.                                          *)
InStep(job, sl) == sl.live /\ sl.emitted = Len(job.toks) /\ sl.max = job.max
RunningIsLive == \A j \in JobsIn("Running") : InStep(jobs[j], fam[jobs[j].slot])

(* The next token of a running job is sampled from a cache built from exactly *)
(* its prompt and the tokens it was given: rows kept from an earlier request, *)
(* whatever prefix_reuse the client passed, are the right ones.              *)
ContextIsTranscript ==
  \A j \in JobsIn("Running") :
    LET sl == fam[jobs[j].slot]
    IN sl.history = Transcript(jobs[j]) /\ sl.rows = sl.history /\ sl.absorbed = sl.rows

(* No generation is live in a slot whose job has ended: cancel, expiry, error *)
(* and completion all reach end_generate.                                    *)
NoOrphanGeneration ==
  \A s \in Slots : fam[s].live =>
    \E j \in JobsIn("Running") \cup JobsIn("Stopped") : jobs[j].slot = s

(* What the invariants above rest on: ids are handed out in order, a job that *)
(* waits has produced nothing, and only an ended job has an error status.     *)
IdsInOrder == \A j \in Jobs : jobs[j].state = "None" <=> j >= nextId
WaitingIsUntouched == \A j \in JobsIn("Queued") : jobs[j].toks = <<>>
UnjudgedWhileLive == \A j \in LiveJobs : jobs[j].outcome = "Ok"

(* The inductive invariant of the scheduler. *)
SchedulerInv == /\ TypeOK
                /\ IdsInOrder
                /\ WaitingIsUntouched
                /\ UnjudgedWhileLive
                /\ SlotOwnership
                /\ RunningIsLive
                /\ NoOrphanGeneration

(* max_queue bounds the unfinished jobs, waiting and running ones together.   *)
QueueBound == Cardinality(LiveJobs) <= MaxQueue

(* The counters of /health and /metrics add up: every submitted job is live or *)
(* counted once, except the jobs a forward step or prompt error has ended,    *)
(* which no counter records.                                                 *)
EndedWith(outcome) == {j \in JobsIn("Done") : jobs[j].outcome = outcome}
Accounting ==
  /\ count.completed = Cardinality(EndedWith("Ok"))
  /\ count.timedOut = Cardinality(EndedWith("Timeout"))
  /\ count.cancelled = Cardinality(JobsIn("Cancelled"))
  /\ nextId - 1 = Cardinality(LiveJobs) + count.completed + count.timedOut
                    + count.cancelled + Cardinality(EndedWith("Error"))
  /\ count.admitted <= nextId - 1
  /\ Cardinality(JobsIn("Running") \cup EndedWith("Error")) <= count.admitted

(* A slot's history changes only when the job that holds the slot completes,  *)
(* and then becomes that job's transcript; cancel, expiry and errors keep it  *)
(* (scheduler.hpp: "CANCELLED, keep history").                               *)
HistoryByCompletion ==
  [][\A s \in Slots : hist'[s] # hist[s] =>
       \E j \in LiveJobs : /\ jobs[j].slot = s
                            /\ jobs'[j].state = "Done" /\ jobs'[j].outcome = "Ok"
                            /\ hist'[s] = Transcript(jobs'[j])]_vars

(* A finished job is never touched again: no second completion, no token     *)
(* after the end, no cancel of something done.                               *)
TerminalIsFinal ==
  [][\A j \in Jobs : Terminal(jobs[j]) => jobs'[j] = jobs[j]]_vars

(* A stopped job is "finished through DONE" (scheduler.hpp): it ends Ok with  *)
(* the tokens it had, unless it is cancelled first; it never fails, expires   *)
(* or decodes again.                                                         *)
StoppedEndsDone ==
  [][\A j \in JobsIn("Stopped") :
       /\ jobs'[j].toks = jobs[j].toks /\ jobs'[j].outcome = "Ok"
       /\ jobs'[j].state \in {"Stopped", "Done", "Cancelled"}]_vars

(* Admission is first come first served: a job never starts while an older   *)
(* one goes on waiting.                                                      *)
FifoAdmission ==
  [][\A j, k \in JobsIn("Queued") :
       j < k /\ jobs'[k].state = "Running" => jobs'[j].state # "Queued"]_vars

(* Every submitted job comes to an end as long as somebody pumps.            *)
EveryJobEnds == \A j \in Jobs : Live(jobs[j]) ~> Terminal(jobs[j])
-----------------------------------------------------------------------------
(* The scheduler implements ConversationSlots: what it keeps of a request is  *)
(* its phase, its hold on a slot and the slot's history.                     *)
PhaseOf(job) == CASE job.state = "None" -> "Unborn"
                  [] job.state = "Queued" -> "Waiting"
                  [] job.state = "Running" -> "Active"
                  [] job.state = "Stopped" -> "Stopping"
                  [] job.state = "Done" /\ job.outcome = "Ok" -> "Answered"
                  [] OTHER -> "Dropped"

Promised == INSTANCE ConversationSlots
              WITH Requests <- Jobs, said <- hist,
                   phase <- [j \in Jobs |-> PhaseOf(jobs[j])],
                   holders <- [s \in Slots |-> {j \in LiveJobs : jobs[j].slot = s}]

(* Every behaviour of the scheduler is one its clients were promised: no slot *)
(* is shared, requests start in order of acceptance, a slot's conversation    *)
(* changes only as its request is answered.                                  *)
KeepsPromise == Promised!AbstractSpec
=============================================================================
