----------------------------- MODULE HttpServing -----------------------------
(***************************************************************************)
(* The HTTP server (src/serve/http_server.cpp, anthropic.cpp): a thread    *)
(* per connection, engine_mu_ around the engine, and one BatchScheduler    *)
(* that every handler with a job of its own pumps for all.  A pump calls   *)
(* on_token of each job: those closures write to the socket of the job's   *)
(* handler, on whose stack they live.                                      *)
(*                                                                         *)
(* A step of a handler is one critical section of engine_mu_, or what lies *)
(* between two of them.  A generation under the lock, and one of the       *)
(* Anthropic handler, which does not take it, last for several steps.      *)
(* Which frames a socket gets matters, not what they say.                  *)
(***************************************************************************)
EXTENDS PumpedSlots

CONSTANTS Handlers,   \* connections, each with the thread that handles it
          NoRequest, Nobody

ASSUME HttpAssumption == NoRequest \notin Requests /\ Nobody \notin Handlers

VARIABLES conn,       \* of a handler: its request and where it is
          gone,       \* handlers whose client has hung up
          engineMu,   \* the handler that keeps engine_mu_ over several steps
          listening, returned,  \* serve_forever accepts; has returned
          sent        \* by handler: what its socket got in the last step

httpVars == <<conn, gone, engineMu, listening, returned, sent>>
vars == <<pumpVars, httpVars>>

Kinds == {"Openai", "Video", "Anthropic"}
Places == {"Free", "Asked", "Opening", "Check", "Turn", "Finished", "HungUp",
           "Locking", "Generating", "Closed"}
Conn == [kind : Kinds, stream : BOOLEAN, pc : Places, job : Requests \cup {NoRequest}]

Frames == {"Reply", "Head", "Chunk", "End", "Failed"}

TypeOK == /\ PumpTypeOK
          /\ conn \in [Handlers -> Conn]
          /\ gone \subseteq Handlers
          /\ engineMu \in Handlers \cup {Nobody}
          /\ {listening, returned} \subseteq BOOLEAN
          /\ sent \in [Handlers -> Seq(Frames)]

Silence == [h \in Handlers |-> <<>>]
Fresh == [kind |-> "Openai", stream |-> FALSE, pc |-> "Free", job |-> NoRequest]

Init == /\ PumpInit
        /\ conn = [h \in Handlers |-> Fresh]
        /\ gone = {} /\ engineMu = Nobody
        /\ listening = TRUE /\ returned = FALSE
        /\ sent = Silence

At(h, place) == conn[h].pc = place
GoTo(h, place) == conn' = [conn EXCEPT ![h].pc = place]
Put(h, frames) == sent' = [Silence EXCEPT ![h] = frames]
Job(h) == conn[h].job
Over(r) == r \notin Accepted
Unlocked == engineMu = Nobody
(* inflight_: the threads serve_forever waits for. *)
Inflight == {h \in Handlers : conn[h].pc \notin {"Free", "Closed"}}

UnchangedServer == UNCHANGED <<gone, listening, returned>>
-----------------------------------------------------------------------------
(* Operators named with an underscore and a word are faulty variants of the   *)
(* operation that follows them: PROJECT.json names the property each breaks.  *)

Connect(h, kind, stream) ==
  /\ listening /\ At(h, "Free")
  /\ kind = "Video" => ~stream
  /\ conn' = [conn EXCEPT ![h] = [Fresh EXCEPT !.kind = kind, !.stream = stream,
                                               !.pc = "Asked"]]
  /\ sent' = Silence
  /\ UnchangedServer /\ UNCHANGED <<pumpVars, engineMu>>

(* Everything that is answered without the engine's state: a bad request, a   *)
(* refusal, a page, a getter.                                                *)
AnswerAtOnce(h) ==
  /\ At(h, "Asked")
  /\ GoTo(h, "Closed") /\ Put(h, <<"Reply">>)
  /\ UnchangedServer /\ UNCHANGED <<pumpVars, engineMu>>

ClientGoes(h) ==
  /\ h \in Inflight \ gone
  /\ gone' = gone \cup {h} /\ sent' = Silence
  /\ UNCHANGED <<pumpVars, conn, engineMu, listening, returned>>
-----------------------------------------------------------------------------
(* A completion with several slots: submit, then pump until it is over. *)
Scheduled(h) == useSched /\ conn[h].kind = "Openai"

Submit(h, s, r) ==
  /\ At(h, "Asked") /\ Scheduled(h) /\ Unlocked
  /\ ~QueueFull
  /\ Accept(r, s)
  /\ conn' = [conn EXCEPT ![h].pc = "Opening", ![h].job = r]
  /\ sent' = Silence
  /\ UnchangedServer /\ UNCHANGED <<runtime, todo, engineMu>>

(* 429 *)
SubmitRefused(h, s) ==
  /\ At(h, "Asked") /\ Scheduled(h) /\ Unlocked
  /\ QueueFull \/ holders[s] # {}
  /\ GoTo(h, "Closed") /\ Put(h, <<"Reply">>)
  /\ UnchangedServer /\ UNCHANGED <<pumpVars, engineMu>>

(* open_sse: outside the lock submit was called under. *)
Open(h) ==
  /\ At(h, "Opening")
  /\ GoTo(h, "Check")
  /\ IF conn[h].stream THEN Put(h, <<"Head">>) ELSE sent' = Silence
  /\ UnchangedServer /\ UNCHANGED <<pumpVars, engineMu>>

Check(h) ==
  /\ At(h, "Check") /\ Unlocked
  /\ GoTo(h, IF Over(Job(h)) THEN "Finished" ELSE "Turn")
  /\ sent' = Silence
  /\ UnchangedServer /\ UNCHANGED <<pumpVars, engineMu>>

HangUp_JobGoesOn(h) ==
  /\ At(h, "Turn") /\ h \in gone /\ Unlocked
  /\ GoTo(h, "HungUp") /\ sent' = Silence
  /\ UnchangedServer /\ UNCHANGED <<pumpVars, engineMu>>

(* client_hungup: the job may have ended since the check; cancel leaves it.   *)
HangUp(h) ==
  /\ At(h, "Turn") /\ h \in gone /\ Unlocked
  /\ CancelJob(Job(h))
  /\ GoTo(h, "HungUp") /\ sent' = Silence
  /\ UnchangedServer /\ UNCHANGED engineMu

(* The handler whose on_token a request's tokens go to. *)
Caller(r) == {h \in Handlers : Job(h) = r}
Streamed(tokens) == [h \in Handlers |->
  IF Job(h) \in Requests /\ conn[h].stream THEN [i \in 1..tokens[Job(h)] |-> "Chunk"]
  ELSE <<>>]

Pump(h) ==
  /\ At(h, "Turn") /\ h \notin gone /\ Unlocked
  /\ \E o \in PumpOutcomes : Pumped(o) /\ sent' = Streamed(o.tokens)
  /\ GoTo(h, "Check")
  /\ UnchangedServer /\ UNCHANGED engineMu

(* The client of a stream that has been cancelled still gets a last event.    *)
CloseHungUp(h) ==
  /\ At(h, "HungUp") /\ Unlocked
  /\ GoTo(h, "Closed")
  /\ Put(h, IF conn[h].stream THEN <<"End">> ELSE <<>>)
  /\ UnchangedServer /\ UNCHANGED <<pumpVars, engineMu>>

Answer(h, ok) ==
  IF conn[h].stream THEN Put(h, <<IF ok THEN "End" ELSE "Failed">>) ELSE Put(h, <<"Reply">>)

(* The job is copied under the lock; the keep-alive thread has been joined.   *)
Finish(h) ==
  /\ At(h, "Finished") /\ Unlocked
  /\ GoTo(h, "Closed")
  /\ Answer(h, phase[Job(h)] = "Answered")
  /\ UnchangedServer /\ UNCHANGED <<pumpVars, engineMu>>
-----------------------------------------------------------------------------
(* A generation in the handler's own thread: a completion with one slot and   *)
(* a video under engine_mu_, a message of the Anthropic API without it.       *)
Direct(h) == conn[h].kind # "Openai" \/ ~useSched
Locks(h) == conn[h].kind # "Anthropic"

GoDirect(h) ==
  /\ At(h, "Asked") /\ Direct(h)
  /\ GoTo(h, "Locking")
  /\ IF conn[h].stream THEN Put(h, <<"Head">>) ELSE sent' = Silence
  /\ UnchangedServer /\ UNCHANGED <<pumpVars, engineMu>>

GenerateBegins(h) ==
  /\ At(h, "Locking")
  /\ Locks(h) => Unlocked
  /\ engineMu' = IF Locks(h) THEN h ELSE engineMu
  /\ GoTo(h, "Generating") /\ sent' = Silence
  /\ UnchangedServer /\ UNCHANGED pumpVars

(* on_token; the Anthropic handler has none, and streams what it was told at  *)
(* the end.                                                                  *)
GenerateToken(h) ==
  /\ At(h, "Generating") /\ Locks(h) /\ conn[h].stream
  /\ Put(h, <<"Chunk">>)
  /\ UnchangedServer /\ UNCHANGED <<pumpVars, conn, engineMu>>

GenerateEnds_KeepsLock(h) ==
  /\ At(h, "Generating")
  /\ GoTo(h, "Closed")
  /\ \E ok \in BOOLEAN : Answer(h, ok)
  /\ engineMu' = IF conn[h].stream /\ Locks(h) THEN Nobody ELSE engineMu
  /\ UnchangedServer /\ UNCHANGED pumpVars

GenerateEnds(h) ==
  /\ At(h, "Generating")
  /\ GoTo(h, "Closed")
  /\ \E ok \in BOOLEAN : Answer(h, ok)
  /\ engineMu' = IF Locks(h) THEN Nobody ELSE engineMu
  /\ UnchangedServer /\ UNCHANGED pumpVars
-----------------------------------------------------------------------------
KeepAlive_NotJoined(h) ==
  /\ conn[h].stream
  /\ conn[h].pc \in {"Check", "Turn", "Finished", "HungUp", "Locking", "Generating", "Closed"}
  /\ Put(h, <<"Chunk">>)
  /\ UnchangedServer /\ UNCHANGED <<pumpVars, conn, engineMu>>

(* The thread of start_ka, which is joined before the last event is sent. *)
KeepAlive(h) ==
  /\ conn[h].stream
  /\ conn[h].pc \in {"Check", "Turn", "Finished", "HungUp", "Locking", "Generating"}
  /\ Put(h, <<"Chunk">>)
  /\ UnchangedServer /\ UNCHANGED <<pumpVars, conn, engineMu>>

(* An error of accept or poll that serve_forever does not retry. *)
ListenerFails ==
  /\ listening
  /\ listening' = FALSE /\ sent' = Silence
  /\ UNCHANGED <<pumpVars, conn, gone, engineMu, returned>>

(* serve_forever returns, and the engine may be destroyed. *)
Return ==
  /\ ~listening /\ ~returned /\ Inflight = {}
  /\ returned' = TRUE /\ sent' = Silence
  /\ UNCHANGED <<pumpVars, conn, gone, engineMu, listening>>
-----------------------------------------------------------------------------
ByClient(h) ==
  \/ ClientGoes(h)
  \/ \E kind \in Kinds, stream \in BOOLEAN : Connect(h, kind, stream)

ByHandler(h) ==
  \/ AnswerAtOnce(h)
  \/ \E s \in Slots : SubmitRefused(h, s) \/ \E r \in Requests : Submit(h, s, r)
  \/ Open(h) \/ Check(h) \/ HangUp(h) \/ Pump(h) \/ CloseHungUp(h) \/ Finish(h)
  \/ GoDirect(h) \/ GenerateBegins(h) \/ GenerateEnds(h)

Next == \/ \E h \in Handlers : ByClient(h) \/ ByHandler(h) \/ GenerateToken(h) \/ KeepAlive(h)
        \/ ListenerFails \/ Return

Spec == Init /\ [][Next]_vars
(* Every thread runs, a generation comes to its end, and nobody waits for     *)
(* ever for the mutex, as each handler takes it a bounded number of times.    *)
FairSpec == Spec /\ WF_vars(Return) /\ \A h \in Handlers : WF_vars(ByHandler(h))
-----------------------------------------------------------------------------
(* A closure of on_token is called only while the handler it lives on is in   *)
(* its loop: every unfinished job belongs to exactly one such handler, and    *)
(* none is left when serve_forever has returned.                             *)
JobsHaveHandlers ==
  /\ \A r \in Accepted : \E h \in Handlers :
       Caller(r) = {h} /\ conn[h].pc \in {"Opening", "Check", "Turn"}
  /\ returned => Accepted = {} /\ Unlocked /\ Inflight = {}

(* Each client gets what it is owed, whoever pumps its job, and nothing after *)
(* the end of its reply.                                                     *)
Stage == [h \in Handlers |->
  IF conn[h].pc \in {"Free", "Closed"} THEN conn[h].pc
  ELSE IF conn[h].stream /\ conn[h].pc # "Asked" THEN "Streaming" ELSE "Open"]
Owing == INSTANCE HttpExchange WITH Conns <- Handlers, at <- Stage
KeepsExchange == Owing!ExchangeSpec

(* Every request is answered or dropped and its connection closed, whether    *)
(* its client stays or goes and whether the server still listens.             *)
HandlersEnd == \A h \in Handlers : At(h, "Asked") ~> At(h, "Closed")

(* "Prefill is serial" (scheduler.hpp:46): at most one thread is in a family  *)
(* engine's generate at a time.                                              *)
PrefillIsSerial == Cardinality({h \in Handlers : At(h, "Generating")}) <= 1

(* "HTTP success sends x-colibri-queue-wait-ms" and "Streaming SSE adds       *)
(* X-Accel-Buffering: no" (ARCHITECTURE.md:458, 536): the headers of a stream *)
(* are the first thing on its socket.                                        *)
HeadersFirst ==
  [][\A h \in Handlers : At(h, "Opening") /\ At(h, "Opening")' => sent'[h] = <<>>]_vars
=============================================================================
