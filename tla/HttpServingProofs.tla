-------------------------- MODULE HttpServingProofs --------------------------
(***************************************************************************)
(* Theorems about HttpServing for every set of connections, requests and   *)
(* slots: no closure of a job outlives the handler it lives on, whoever    *)
(* pumps, and every client gets what HttpExchange says it is owed.         *)
(***************************************************************************)
EXTENDS HttpServing, PumpedSlotsProofs

InLoop == {"Opening", "Check", "Turn"}

(* Of one handler: a job exactly while it has submitted one and is not        *)
(* through with it, which is unfinished only while the handler is in its      *)
(* loop; the lock while it generates under it; gone at the end.               *)
HandlerOK(h) ==
  /\ conn[h].pc \in {"Free", "Asked", "Locking", "Generating"} => Job(h) = NoRequest
  /\ conn[h].pc \in InLoop \cup {"Finished", "HungUp"} => Job(h) \in Requests
  /\ Job(h) \in Requests => phase[Job(h)] # "Unborn"
  /\ Job(h) \in Accepted => conn[h].pc \in InLoop
  /\ conn[h].pc = "HungUp" => h \in gone
  /\ engineMu = h <=> conn[h].pc = "Generating" /\ Locks(h)
  /\ returned => conn[h].pc \in {"Free", "Closed"}

OneJobEach ==
  /\ \A r \in Accepted : \E h \in Handlers : Job(h) = r
  /\ \A g, h \in Handlers : Job(g) = Job(h) /\ Job(h) \in Requests => g = h

(* The inductive invariant. *)
IInv == /\ TypeOK /\ BudgetsLast
        /\ \A h \in Handlers : HandlerOK(h)
        /\ OneJobEach
        /\ returned => ~listening

LEMMA IInvParts ==
  ASSUME IInv
  PROVE  /\ PumpInv /\ conn \in [Handlers -> Conn] /\ gone \subseteq Handlers
         /\ engineMu \in Handlers \cup {Nobody} /\ {listening, returned} \subseteq BOOLEAN
         /\ sent \in [Handlers -> Seq(Frames)]
BY DEF IInv, TypeOK, PumpInv

LEMMA InitInv == Init => IInv
<1> SUFFICES ASSUME Init PROVE IInv
  OBVIOUS
<1> USE HttpAssumption
<1>1. PumpInv
  BY PumpInitInv DEF Init
<1>2. /\ conn = [h \in Handlers |-> Fresh] /\ gone = {} /\ engineMu = Nobody
      /\ listening = TRUE /\ returned = FALSE /\ sent = [h \in Handlers |-> <<>>]
  BY DEF Init, Silence
<1>3. Fresh \in Conn /\ Fresh.pc = "Free" /\ Fresh.job = NoRequest
  BY DEF Fresh, Conn, Kinds, Places
<1>4. TypeOK
  <2>1. conn \in [Handlers -> Conn] /\ sent \in [Handlers -> Seq(Frames)]
    BY <1>2, <1>3
  <2>2. QED
    BY <1>1, <1>2, <2>1 DEF TypeOK, PumpInv
<1>5. Accepted = {}
  BY DEF Init, PumpInit, AbstractInit, Accepted
<1>6. \A h \in Handlers : HandlerOK(h)
  BY <1>2, <1>3, <1>5 DEF HandlerOK, Job, InLoop
<1>7. QED
  BY <1>1, <1>2, <1>3, <1>4, <1>5, <1>6 DEF IInv, PumpInv, OneJobEach, Job

LEMMA IInvHasHandlers == ASSUME IInv PROVE JobsHaveHandlers
<1>1. ASSUME NEW r \in Accepted
      PROVE  \E h \in Handlers : Caller(r) = {h} /\ conn[h].pc \in {"Opening", "Check", "Turn"}
  <2>1. PICK h \in Handlers : Job(h) = r
    BY DEF IInv, OneJobEach
  <2>2. r \in Requests
    BY DEF Accepted
  <2>3. Caller(r) = {h}
    BY <2>1, <2>2 DEF IInv, OneJobEach, Caller
  <2>4. HandlerOK(h)
    BY DEF IInv
  <2>5. QED
    BY <2>1, <2>3, <2>4 DEF HandlerOK, InLoop
<1>2. ASSUME returned PROVE Accepted = {} /\ Unlocked /\ Inflight = {}
  <2>1. \A h \in Handlers : HandlerOK(h) /\ conn[h].pc \in {"Free", "Closed"}
    BY <1>2 DEF IInv, HandlerOK
  <2>2. Inflight = {}
    BY <2>1 DEF Inflight
  <2>3. Accepted = {}
    BY <1>1, <2>1
  <2>4. Unlocked
    BY <2>1, IInvParts DEF HandlerOK, Unlocked
  <2>5. QED
    BY <2>2, <2>3, <2>4
<1>3. QED
  BY <1>1, <1>2 DEF JobsHaveHandlers
-----------------------------------------------------------------------------
LEMMA PutType ==
  ASSUME NEW h \in Handlers, NEW frames \in Seq(Frames), Put(h, frames)
  PROVE  /\ sent' \in [Handlers -> Seq(Frames)]
         /\ sent'[h] = frames /\ \A g \in Handlers \ {h} : sent'[g] = <<>>
<1>1. sent' = [[g \in Handlers |-> <<>>] EXCEPT ![h] = frames]
  BY DEF Put, Silence
<1>2. sent' = [g \in Handlers |-> IF g = h THEN frames ELSE <<>>]
  BY <1>1
<1>3. \A g \in Handlers : (IF g = h THEN frames ELSE <<>>) \in Seq(Frames)
  OBVIOUS
<1>4. QED
  BY <1>2, <1>3

LEMMA SilenceType ==
  /\ Silence \in [Handlers -> Seq(Frames)]
  /\ \A h \in Handlers : Silence[h] = <<>>
BY DEF Silence

LEMMA FrameSeqs == /\ <<>> \in Seq(Frames) /\ <<"Reply">> \in Seq(Frames)
                   /\ <<"Head">> \in Seq(Frames) /\ <<"Chunk">> \in Seq(Frames)
                   /\ <<"End">> \in Seq(Frames) /\ <<"Failed">> \in Seq(Frames)
BY DEF Frames

(* The socket of the handler whose step it is, and no other, gets frames.     *)
LEMMA AnswerType ==
  ASSUME NEW h \in Handlers, NEW ok \in BOOLEAN, Answer(h, ok)
  PROVE  \E frames \in {<<"Reply">>, <<"End">>, <<"Failed">>} :
           /\ Put(h, frames)
           /\ frames = <<"Reply">> <=> ~conn[h].stream
<1>1. <<"Reply">> # <<"End">> /\ <<"Reply">> # <<"Failed">>
  OBVIOUS
<1>2. QED
  BY <1>1 DEF Answer

(* A handler moves on, and the scheduler may have ended some jobs.            *)
LEMMA Moves ==
  ASSUME IInv, NEW h \in Handlers, NEW place \in Places, GoTo(h, place),
         conn[h].pc \notin {"Free", "Closed"},
         PumpInv', Accepted' \subseteq Accepted, UNCHANGED runtime,
         \A r \in Requests : phase[r] # "Unborn" => phase'[r] # "Unborn",
         UNCHANGED <<gone, listening, returned>>, sent' \in [Handlers -> Seq(Frames)],
         place \in {"Free", "Asked", "Locking", "Generating"} => Job(h) = NoRequest,
         place \in InLoop \cup {"Finished", "HungUp"} => Job(h) \in Requests,
         Job(h) \in Accepted' => place \in InLoop,
         place = "HungUp" => h \in gone,
         engineMu' \in Handlers \cup {Nobody},
         engineMu' = h <=> place = "Generating" /\ Locks(h),
         \A g \in Handlers \ {h} : engineMu' = g <=> engineMu = g
  PROVE  IInv'
<1> USE IInvParts
<1>1. conn' = [conn EXCEPT ![h].pc = place]
  BY DEF GoTo
<1>2. /\ conn' \in [Handlers -> Conn] /\ conn'[h].pc = place
      /\ \A g \in Handlers : /\ conn'[g].kind = conn[g].kind /\ conn'[g].stream = conn[g].stream
                             /\ conn'[g].job = conn[g].job
                             /\ g # h => conn'[g].pc = conn[g].pc
  BY <1>1 DEF Conn
<1>3. TypeOK'
  BY <1>2 DEF TypeOK, PumpInv
<1>4. \A g \in Handlers : Job(g)' = Job(g) /\ Locks(g)' = Locks(g)
  BY <1>2 DEF Job, Locks
<1>5. ~returned
  BY DEF IInv, HandlerOK
<1>6. ASSUME NEW g \in Handlers PROVE HandlerOK(g)'
  <2>1. HandlerOK(g)
    BY DEF IInv
  <2>2. CASE g = h
    BY <2>1, <2>2, <1>2, <1>4, <1>5 DEF HandlerOK
  <2>3. CASE g # h
    BY <2>1, <2>3, <1>2, <1>4, <1>5 DEF HandlerOK
  <2>4. QED
    BY <2>2, <2>3
<1>7. OneJobEach'
  BY <1>4 DEF IInv, OneJobEach
<1>8. QED
  BY <1>3, <1>5, <1>6, <1>7 DEF IInv, PumpInv

(* The handlers stay where they are. *)
LEMMA Stays ==
  ASSUME IInv, UNCHANGED <<pumpVars, conn, engineMu>>, gone \subseteq gone',
         gone' \subseteq Handlers, sent' \in [Handlers -> Seq(Frames)],
         listening' \in BOOLEAN, returned' \in BOOLEAN, listening' => listening,
         returned' => returned \/ (Inflight = {} /\ ~listening)
  PROVE  IInv'
<1> USE IInvParts
<1>1. PumpInv' /\ Accepted' = Accepted /\ UNCHANGED <<holders, runtime>>
  BY PumpIdle
<1>2. UNCHANGED phase
  BY DEF pumpVars, abstractVars
<1>3. TypeOK'
  BY <1>1 DEF TypeOK, PumpInv
<1>4. ASSUME NEW h \in Handlers PROVE HandlerOK(h)'
  <2>1. HandlerOK(h)
    BY DEF IInv
  <2>2. returned' => conn[h].pc \in {"Free", "Closed"}
    BY <2>1 DEF HandlerOK, Inflight
  <2>3. QED
    BY <1>1, <1>2, <2>1, <2>2 DEF HandlerOK, Job, Locks
<1>5. OneJobEach'
  BY <1>1 DEF IInv, OneJobEach, Job
<1>6. QED
  BY <1>1, <1>3, <1>4, <1>5 DEF IInv, PumpInv
-----------------------------------------------------------------------------
(* Which steps of a handler neither take nor give up the lock.                *)
LEMMA LockAlone ==
  ASSUME IInv, NEW h \in Handlers, UNCHANGED engineMu, conn[h].pc # "Generating"
  PROVE  /\ engineMu' \in Handlers \cup {Nobody}
         /\ engineMu' # h /\ \A g \in Handlers \ {h} : engineMu' = g <=> engineMu = g
BY IInvParts DEF IInv, HandlerOK

(* Requests that were born stay so. *)
LEMMA IdleKeepsBirths ==
  ASSUME UNCHANGED pumpVars
  PROVE  \A r \in Requests : phase[r] # "Unborn" => phase'[r] # "Unborn"
BY DEF pumpVars, abstractVars

LEMMA ServeKeepsBirths ==
  ASSUME PumpTypeOK, NEW answered, NEW dropped, NEW started, Serve(answered, dropped, started)
  PROVE  \A r \in Requests : phase[r] # "Unborn" => phase'[r] # "Unborn"
BY ServeEnds

LEMMA Arrives ==
  ASSUME IInv, NEW h \in Handlers, NEW kind \in Kinds, NEW stream \in BOOLEAN,
         Connect(h, kind, stream)
  PROVE  IInv'
<1> USE IInvParts, HttpAssumption
<1> DEFINE new == [Fresh EXCEPT !.kind = kind, !.stream = stream, !.pc = "Asked"]
<1>1. /\ listening /\ At(h, "Free") /\ conn' = [conn EXCEPT ![h] = new]
      /\ sent' = Silence /\ UNCHANGED <<pumpVars, engineMu, gone, listening, returned>>
  BY DEF Connect, UnchangedServer
<1>2. new \in Conn /\ new.pc = "Asked" /\ new.job = NoRequest
  BY DEF Fresh, Conn, Places, Kinds
<1> HIDE DEF new
<1>3. /\ conn' \in [Handlers -> Conn] /\ conn'[h] = new
      /\ \A g \in Handlers \ {h} : conn'[g] = conn[g]
  BY <1>1, <1>2
<1>4. PumpInv' /\ Accepted' = Accepted /\ UNCHANGED <<holders, runtime>>
  BY <1>1, PumpIdle
<1>5. UNCHANGED phase
  BY <1>1 DEF pumpVars, abstractVars
<1>6. TypeOK'
  BY <1>1, <1>3, <1>4, SilenceType DEF TypeOK, PumpInv
<1>7. ~returned
  BY <1>1 DEF IInv
<1>8. HandlerOK(h) /\ Job(h) = NoRequest /\ engineMu # h
  BY <1>1 DEF IInv, HandlerOK, At
<1>9. Accepted \subseteq Requests
  BY DEF Accepted
<1>10. ASSUME NEW g \in Handlers PROVE HandlerOK(g)'
  <2>1. CASE g = h
    BY <2>1, <1>1, <1>2, <1>3, <1>4, <1>7, <1>8, <1>9 DEF HandlerOK, Job, InLoop
  <2>2. CASE g # h
    <3>1. HandlerOK(g) /\ conn'[g] = conn[g]
      BY <2>2, <1>3 DEF IInv
    <3>2. QED
      BY <3>1, <1>1, <1>4, <1>5 DEF HandlerOK, Job, Locks
  <2>3. QED
    BY <2>1, <2>2
<1>11. \A g \in Handlers : Job(g)' = Job(g)
  BY <1>2, <1>3, <1>8 DEF Job
<1>12. OneJobEach'
  BY <1>4, <1>11 DEF IInv, OneJobEach
<1>13. QED
  BY <1>4, <1>6, <1>7, <1>10, <1>12, <1>1 DEF IInv, PumpInv

LEMMA Submits ==
  ASSUME IInv, NEW h \in Handlers, NEW s \in Slots, NEW r \in Requests, Submit(h, s, r)
  PROVE  IInv'
<1> USE IInvParts, HttpAssumption
<1>1. /\ At(h, "Asked") /\ Accept(r, s)
      /\ conn' = [conn EXCEPT ![h].pc = "Opening", ![h].job = r]
      /\ sent' = Silence /\ UNCHANGED <<runtime, todo, engineMu, gone, listening, returned>>
  BY DEF Submit, UnchangedServer
<1>2. PumpInv' /\ r \notin Accepted /\ Accepted' = Accepted \cup {r}
  BY <1>1, AcceptKeeps
<1>3. /\ phase[r] = "Unborn" /\ phase' = [phase EXCEPT ![r] = "Waiting"]
  BY <1>1 DEF Accept
<1>4. /\ phase'[r] = "Waiting" /\ \A q \in Requests \ {r} : phase'[q] = phase[q]
  BY <1>3 DEF PumpInv, PumpTypeOK
<1>5. /\ conn' \in [Handlers -> Conn] /\ conn'[h].pc = "Opening" /\ conn'[h].job = r
      /\ \A g \in Handlers : conn'[g].kind = conn[g].kind
      /\ \A g \in Handlers \ {h} : conn'[g] = conn[g]
  BY <1>1 DEF Conn, Places
<1>6. TypeOK'
  BY <1>1, <1>2, <1>5, SilenceType DEF TypeOK, PumpInv
<1>7. ~returned /\ HandlerOK(h) /\ engineMu # h
  BY <1>1 DEF IInv, HandlerOK, At
<1>8. ASSUME NEW g \in Handlers, g # h
      PROVE  HandlerOK(g)' /\ Job(g)' = Job(g) /\ Job(g) # r
  <2>1. HandlerOK(g) /\ conn'[g] = conn[g]
    BY <1>5, <1>8 DEF IInv
  <2>2. Job(g) # r /\ Job(g)' = Job(g) /\ Locks(g)' = Locks(g)
    BY <2>1, <1>3 DEF HandlerOK, Job, Locks
  <2>3. (Job(g) \in Accepted') <=> (Job(g) \in Accepted)
    BY <1>2, <2>2
  <2>4. Job(g) \in Requests => phase'[Job(g)] = phase[Job(g)]
    BY <1>4, <2>2
  <2>5. QED
    BY <1>1, <2>1, <2>2, <2>3, <2>4 DEF HandlerOK
<1>9. HandlerOK(h)'
  BY <1>1, <1>4, <1>5, <1>7 DEF HandlerOK, Job, InLoop
<1>10. OneJobEach'
  <2>1. Job(h)' = r /\ Job(h) = NoRequest
    BY <1>1, <1>5, <1>7 DEF Job, HandlerOK, At
  <2>2. Accepted \subseteq Requests
    BY DEF Accepted
  <2>3. \A q \in Accepted : \E g \in Handlers \ {h} : Job(g)' = q
    BY <1>8, <2>1, <2>2 DEF IInv, OneJobEach
  <2>4. \A g, k \in Handlers : Job(g)' = Job(k)' /\ Job(k)' \in Requests => g = k
    BY <1>8, <2>1 DEF IInv, OneJobEach
  <2>5. QED
    BY <1>2, <2>1, <2>3, <2>4 DEF OneJobEach
<1>11. QED
  BY <1>1, <1>2, <1>6, <1>7, <1>8, <1>9, <1>10 DEF IInv, PumpInv

(* The steps of a handler that leave the scheduler alone. *)
LEMMA HandlerIdles ==
  ASSUME IInv, NEW h \in Handlers,
         \/ AnswerAtOnce(h) \/ Open(h) \/ Check(h) \/ CloseHungUp(h) \/ Finish(h)
         \/ GoDirect(h) \/ GenerateBegins(h) \/ GenerateEnds(h)
         \/ \E s \in Slots : SubmitRefused(h, s)
  PROVE  IInv'
<1> USE IInvParts, HttpAssumption
<1>0. HandlerOK(h)
  BY DEF IInv
<1>1. PICK place \in {"Check", "Turn", "Finished", "Locking", "Generating", "Closed"} :
        /\ GoTo(h, place)
        /\ place \in {"Locking", "Generating"} => conn[h].pc \in {"Asked", "Locking"}
        /\ place = "Generating" => conn[h].pc = "Locking"
        /\ place = "Check" => conn[h].pc = "Opening"
        /\ place \in {"Turn", "Finished"} => conn[h].pc = "Check"
        /\ place = "Turn" <=> conn[h].pc = "Check" /\ ~Over(Job(h))
        /\ place = "Closed" => conn[h].pc \in {"Asked", "HungUp", "Finished", "Generating"}
  BY DEF AnswerAtOnce, Open, Check, CloseHungUp, Finish, GoDirect, GenerateBegins,
         GenerateEnds, SubmitRefused, At
<1>2. /\ UNCHANGED <<pumpVars, gone, listening, returned>>
      /\ conn[h].pc \in {"Asked", "Opening", "Check", "HungUp", "Finished", "Locking", "Generating"}
  BY DEF AnswerAtOnce, Open, Check, CloseHungUp, Finish, GoDirect, GenerateBegins,
         GenerateEnds, SubmitRefused, UnchangedServer, At
<1>3. sent' \in [Handlers -> Seq(Frames)]
  <2>1. sent' = Silence \/ \E frames \in {<<>>, <<"Reply">>, <<"Head">>, <<"End">>, <<"Failed">>} :
                             Put(h, frames)
    BY AnswerType
    DEF AnswerAtOnce, Open, Check, CloseHungUp, Finish, GoDirect, GenerateBegins,
        GenerateEnds, SubmitRefused
  <2>2. QED
    BY <2>1, PutType, SilenceType, FrameSeqs
<1>4. PumpInv' /\ Accepted' = Accepted /\ UNCHANGED <<holders, runtime>>
  BY <1>2, PumpIdle
<1>5. /\ engineMu' \in Handlers \cup {Nobody}
      /\ engineMu' = h <=> place = "Generating" /\ Locks(h)
      /\ \A g \in Handlers \ {h} : engineMu' = g <=> engineMu = g
  <2>1. CASE GenerateBegins(h)
    <3>1. /\ Locks(h) => engineMu = Nobody
          /\ engineMu' = IF Locks(h) THEN h ELSE engineMu
          /\ conn[h].pc = "Locking" /\ GoTo(h, "Generating")
      BY <2>1 DEF GenerateBegins, At, Unlocked
    <3>2. place = "Generating"
      BY <1>1, <3>1 DEF GoTo, Conn
    <3>3. engineMu # h
      BY <1>0, <3>1 DEF HandlerOK
    <3>4. QED
      BY <3>1, <3>2, <3>3
  <2>2. CASE GenerateEnds(h)
    <3>1. /\ engineMu' = IF Locks(h) THEN Nobody ELSE engineMu
          /\ conn[h].pc = "Generating"
      BY <2>2 DEF GenerateEnds, At
    <3>2. place = "Closed" /\ (engineMu = h <=> Locks(h))
      BY <1>0, <1>1, <3>1 DEF HandlerOK
    <3>3. QED
      BY <3>1, <3>2
  <2>3. CASE ~GenerateBegins(h) /\ ~GenerateEnds(h)
    <3>1. UNCHANGED engineMu /\ place # "Generating"
      <4>1. \/ AnswerAtOnce(h) \/ Open(h) \/ Check(h) \/ CloseHungUp(h) \/ Finish(h)
            \/ GoDirect(h) \/ \E s \in Slots : SubmitRefused(h, s)
        BY <2>3
      <4>2. UNCHANGED engineMu /\ conn[h].pc # "Locking"
        BY <4>1 DEF AnswerAtOnce, Open, Check, CloseHungUp, Finish, GoDirect, SubmitRefused, At
      <4>3. QED
        BY <4>2, <1>1
    <3>2. conn[h].pc # "Generating"
      BY <2>3 DEF AnswerAtOnce, Open, Check, CloseHungUp, Finish, GoDirect, SubmitRefused, At
    <3>3. QED
      BY <3>1, <3>2, LockAlone
  <2>4. QED
    BY <2>1, <2>2, <2>3
<1>6. \A r \in Requests : phase[r] # "Unborn" => phase'[r] # "Unborn"
  BY <1>2, IdleKeepsBirths
<1>7. /\ place \in {"Free", "Asked", "Locking", "Generating"} => Job(h) = NoRequest
      /\ place \in InLoop \cup {"Finished", "HungUp"} => Job(h) \in Requests
      /\ Job(h) \in Accepted' => place \in InLoop
  <2>1. place \in {"Free", "Asked", "Locking", "Generating"} => Job(h) = NoRequest
    BY <1>0, <1>1 DEF HandlerOK
  <2>2. place \in InLoop \cup {"Finished", "HungUp"} => Job(h) \in Requests
    BY <1>0, <1>1 DEF HandlerOK, InLoop
  <2>3. Job(h) \in Accepted => place \in InLoop
    BY <1>0, <1>1 DEF HandlerOK, InLoop, Over
  <2>4. QED
    BY <2>1, <2>2, <2>3, <1>4
<1>8. place \in Places /\ place # "HungUp" /\ conn[h].pc \notin {"Free", "Closed"}
  BY <1>2 DEF Places
<1>9. QED
  BY <1>1, <1>2, <1>3, <1>4, <1>5, <1>6, <1>7, <1>8, Moves

(* A client's going cancels its job, if it is unfinished. *)
LEMMA HangsUp ==
  ASSUME IInv, NEW h \in Handlers, HangUp(h)
  PROVE  IInv'
<1> USE IInvParts
<1>1. /\ conn[h].pc = "Turn" /\ h \in gone /\ CancelJob(Job(h)) /\ GoTo(h, "HungUp")
      /\ sent' = Silence /\ UNCHANGED <<gone, listening, returned, engineMu>>
  BY DEF HangUp, At, UnchangedServer
<1>2. HandlerOK(h) /\ Job(h) \in Requests
  BY <1>1 DEF IInv, HandlerOK, InLoop
<1>3. PumpInv' /\ Accepted' = Accepted \ {Job(h)} /\ UNCHANGED runtime
  BY <1>1, <1>2, CancelKeeps
<1>4. \A r \in Requests : phase[r] # "Unborn" => phase'[r] # "Unborn"
  BY <1>1, ServeKeepsBirths DEF CancelJob, PumpInv
<1>5. /\ engineMu' \in Handlers \cup {Nobody}
      /\ engineMu' # h /\ \A g \in Handlers \ {h} : engineMu' = g <=> engineMu = g
  BY <1>1, LockAlone
<1>6. sent' \in [Handlers -> Seq(Frames)] /\ "HungUp" \in Places
  BY <1>1, SilenceType DEF Places
<1>7. Job(h) \notin Accepted' /\ Accepted' \subseteq Accepted
  BY <1>3
<1>8. conn[h].pc \notin {"Free", "Closed"} /\ UNCHANGED <<gone, listening, returned>>
  BY <1>1
<1>9. QED
  BY <1>1, <1>2, <1>3, <1>4, <1>5, <1>6, <1>7, <1>8, Moves

(* What a pump sends: to each handler the tokens of its job.                  *)
LEMMA Streams ==
  ASSUME IInv, NEW o, o.tokens \in [Requests -> Nat], sent' = Streamed(o.tokens),
         NEW h \in Handlers
  PROVE  /\ sent'[h] \in Seq({"Chunk"})
         /\ sent'[h] # <<>> => /\ conn[h].stream /\ Job(h) \in Requests
                              /\ o.tokens[Job(h)] > 0
         /\ DOMAIN sent' = Handlers /\ sent' = [g \in Handlers |-> sent'[g]]
<1>1. sent'[h] = IF Job(h) \in Requests /\ conn[h].stream
                 THEN [i \in 1..o.tokens[Job(h)] |-> "Chunk"] ELSE <<>>
  BY DEF Streamed
<1>2. DOMAIN sent' = Handlers /\ sent' = [g \in Handlers |-> sent'[g]]
  BY DEF Streamed
<1>3. CASE Job(h) \in Requests /\ conn[h].stream
  <2>1. o.tokens[Job(h)] \in Nat
    BY <1>3
  <2>2. PICK n \in Nat : n = o.tokens[Job(h)]
    BY <2>1
  <2>3. sent'[h] = [i \in 1..n |-> "Chunk"]
    BY <1>1, <1>3, <2>2
  <2>4. [i \in 1..n |-> "Chunk"] \in Seq({"Chunk"}) /\ Len([i \in 1..n |-> "Chunk"]) = n
    OBVIOUS
  <2>5. sent'[h] # <<>> => n # 0
    BY <2>3, <2>4
  <2>6. QED
    BY <1>2, <1>3, <2>2, <2>3, <2>4, <2>5
<1>4. CASE ~(Job(h) \in Requests /\ conn[h].stream)
  BY <1>1, <1>2, <1>4
<1>5. QED
  BY <1>3, <1>4

LEMMA Pumps ==
  ASSUME IInv, NEW h \in Handlers, Pump(h)
  PROVE  IInv'
<1> USE IInvParts
<1>1. PICK o \in PumpOutcomes : Pumped(o) /\ sent' = Streamed(o.tokens)
  BY DEF Pump
<1>2. /\ conn[h].pc = "Turn" /\ GoTo(h, "Check") /\ UNCHANGED <<gone, listening, returned, engineMu>>
  BY DEF Pump, At, UnchangedServer
<1>3. PumpInv' /\ OutcomeOK(o) /\ Accepted' = Accepted \ (o.answered \cup o.dropped)
  BY <1>1, PumpedKeeps
<1>4. sent' \in [Handlers -> Seq(Frames)]
  <2>1. o.tokens \in [Requests -> Nat]
    BY <1>3 DEF OutcomeOK
  <2>2. \A g \in Handlers : sent'[g] \in Seq({"Chunk"})
    BY <1>1, <2>1, Streams
  <2>3. \A g \in Handlers : sent'[g] \in Seq(Frames)
    BY <2>2 DEF Frames
  <2>4. sent' = [g \in Handlers |-> sent'[g]]
    BY <1>1, <2>1, Streams
  <2>5. QED
    BY <2>3, <2>4
<1>5. \A r \in Requests : phase[r] # "Unborn" => phase'[r] # "Unborn"
  BY <1>1, ServeKeepsBirths DEF Pumped, PumpInv
<1>6. UNCHANGED runtime /\ Accepted' \subseteq Accepted
  BY <1>1, <1>3 DEF Pumped
<1>7. /\ engineMu' \in Handlers \cup {Nobody}
      /\ engineMu' # h /\ \A g \in Handlers \ {h} : engineMu' = g <=> engineMu = g
  BY <1>2, LockAlone
<1>8. Job(h) \in Requests
  BY <1>2 DEF IInv, HandlerOK, InLoop
<1>9. "Check" \in Places /\ "Check" \in InLoop /\ conn[h].pc \notin {"Free", "Closed"}
      /\ UNCHANGED <<gone, listening, returned>>
  BY <1>2 DEF Places, InLoop
<1>10. QED
  BY <1>2, <1>3, <1>4, <1>5, <1>6, <1>7, <1>8, <1>9, Moves

LEMMA Others ==
  ASSUME IInv, \/ \E h \in Handlers : ClientGoes(h) \/ GenerateToken(h) \/ KeepAlive(h)
               \/ ListenerFails \/ Return \/ UNCHANGED vars
  PROVE  IInv'
<1> USE IInvParts
<1>1. CASE UNCHANGED vars
  BY <1>1, Stays DEF vars, httpVars
<1>2. CASE ListenerFails \/ Return
  <2>1. /\ UNCHANGED <<pumpVars, conn, engineMu, gone>> /\ sent' = Silence
        /\ listening' \in BOOLEAN /\ (listening' => listening)
        /\ returned' \in BOOLEAN /\ (returned' => returned \/ (Inflight = {} /\ ~listening))
    <3>1. CASE ListenerFails
      BY <3>1 DEF ListenerFails
    <3>2. CASE Return
      BY <3>2 DEF Return
    <3>3. QED
      BY <1>2, <3>1, <3>2
  <2>2. sent' \in [Handlers -> Seq(Frames)] /\ gone \subseteq gone' /\ gone' \subseteq Handlers
    BY <2>1, SilenceType
  <2>3. QED
    BY <2>1, <2>2, Stays
<1>3. ASSUME NEW h \in Handlers, ClientGoes(h) \/ GenerateToken(h) \/ KeepAlive(h)
      PROVE  IInv'
  <2>1. /\ UNCHANGED <<pumpVars, conn, engineMu, listening, returned>>
        /\ gone \subseteq gone' /\ gone' \subseteq Handlers
        /\ sent' = Silence \/ Put(h, <<"Chunk">>)
    BY <1>3 DEF ClientGoes, GenerateToken, KeepAlive, UnchangedServer
  <2>2. sent' \in [Handlers -> Seq(Frames)]
    BY <2>1, PutType, SilenceType, FrameSeqs
  <2>3. QED
    BY <2>1, <2>2, Stays
<1>4. QED
  BY <1>1, <1>2, <1>3

LEMMA NextInv == IInv /\ [Next]_vars => IInv'
<1> SUFFICES ASSUME IInv, [Next]_vars PROVE IInv'
  OBVIOUS
<1>1. ASSUME NEW h \in Handlers, ByClient(h) PROVE IInv'
  <2>1. CASE ClientGoes(h)
    BY <2>1, Others
  <2>2. CASE \E kind \in Kinds, stream \in BOOLEAN : Connect(h, kind, stream)
    BY <2>2, Arrives
  <2>3. QED
    BY <1>1, <2>1, <2>2 DEF ByClient
<1>2. ASSUME NEW h \in Handlers, ByHandler(h) PROVE IInv'
  <2>1. CASE \E s \in Slots, r \in Requests : Submit(h, s, r)
    BY <2>1, Submits
  <2>2. CASE HangUp(h)
    BY <2>2, HangsUp
  <2>3. CASE Pump(h)
    BY <2>3, Pumps
  <2>4. CASE \/ AnswerAtOnce(h) \/ Open(h) \/ Check(h) \/ CloseHungUp(h) \/ Finish(h)
             \/ GoDirect(h) \/ GenerateBegins(h) \/ GenerateEnds(h)
             \/ \E s \in Slots : SubmitRefused(h, s)
    BY <2>4, HandlerIdles
  <2>5. QED
    BY <1>2, <2>1, <2>2, <2>3, <2>4 DEF ByHandler
<1>3. QED
  BY <1>1, <1>2, Others DEF Next

(* The inductive invariant holds in every reachable state. *)
THEOREM Invariant == Spec => []IInv
<1>1. QED
  BY InitInv, NextInv, PTL DEF Spec

(* Every variable of the server keeps its type. *)
THEOREM TypeCorrect == Spec => []TypeOK
<1>1. IInv => TypeOK
  BY DEF IInv
<1>2. QED
  BY <1>1, Invariant, PTL

(* The closure a pump calls for a job lives: the job's handler is in its loop *)
(* until the job is over, and all are over when serve_forever returns.        *)
THEOREM JobsOfHandlers == Spec => []JobsHaveHandlers
<1>1. IInv => JobsHaveHandlers
  BY IInvHasHandlers
<1>2. QED
  BY <1>1, Invariant, PTL
-----------------------------------------------------------------------------
(* Where HttpExchange sees a connection, from where its handler is.           *)
LEMMA StageIs ==
  ASSUME NEW h \in Handlers
  PROVE  /\ conn[h].pc \in {"Free", "Closed"} => Stage[h] = conn[h].pc
         /\ conn[h].pc \notin {"Free", "Closed"} =>
              Stage[h] = IF conn[h].stream /\ conn[h].pc # "Asked" THEN "Streaming" ELSE "Open"
BY DEF Stage

LEMMA StageIsNext ==
  ASSUME NEW h \in Handlers
  PROVE  /\ conn'[h].pc \in {"Free", "Closed"} => Stage'[h] = conn'[h].pc
         /\ conn'[h].pc \notin {"Free", "Closed"} =>
              Stage'[h] = IF conn'[h].stream /\ conn'[h].pc # "Asked" THEN "Streaming" ELSE "Open"
BY DEF Stage

(* Nothing is owed to a connection that stays where it is.                    *)
LEMMA OwesNothing ==
  ASSUME NEW h \in Handlers, Stage[h] \in {"Free", "Open", "Streaming", "Closed"}
  PROVE  Owing!Owed(Stage[h], Stage[h], <<>>, h \in gone)
BY DEF Owing!Owed, Owing!Only

LEMMA StaysPut ==
  ASSUME NEW h \in Handlers, conn'[h] = conn[h], sent'[h] = <<>>
  PROVE  Owing!Owed(Stage[h], Stage'[h], sent'[h], h \in gone)
<1>1. Stage'[h] = Stage[h] /\ Stage[h] \in {"Free", "Open", "Streaming", "Closed"}
  BY StageIs, StageIsNext
<1>2. Owing!Owed(Stage[h], Stage[h], <<>>, h \in gone)
  BY <1>1, OwesNothing
<1>3. QED
  BY <1>1, <1>2

(* One frame: of a stream, its last, or a whole reply.                        *)
LEMMA OneFrame ==
  /\ \A frame \in {"Head", "Chunk"} : Owing!Only(Owing!Events, <<frame>>)
  /\ \A frame \in {"End", "Failed"} :
       /\ Owing!EndsWith(Owing!Lasts, <<frame>>)
       /\ Owing!Only(Owing!Events, SubSeq(<<frame>>, 1, Len(<<frame>>) - 1))
<1>1. ASSUME NEW frame \in {"Head", "Chunk"} PROVE Owing!Only(Owing!Events, <<frame>>)
  <2>1. DOMAIN <<frame>> = {1} /\ <<frame>>[1] = frame
    OBVIOUS
  <2>2. QED
    BY <2>1 DEF Owing!Only, Owing!Events
<1>2. ASSUME NEW frame \in {"End", "Failed"}
      PROVE  /\ Owing!EndsWith(Owing!Lasts, <<frame>>)
             /\ Owing!Only(Owing!Events, SubSeq(<<frame>>, 1, Len(<<frame>>) - 1))
  <2>1. /\ <<frame>> # <<>> /\ Len(<<frame>>) = 1 /\ <<frame>>[1] = frame
        /\ SubSeq(<<frame>>, 1, Len(<<frame>>) - 1) = <<>>
    OBVIOUS
  <2>2. QED
    BY <2>1 DEF Owing!EndsWith, Owing!Only, Owing!Lasts
<1>3. QED
  BY <1>1, <1>2

LEMMA NoFrame == Owing!Only(Owing!Events, <<>>)
BY DEF Owing!Only

(* A step of one handler that keeps to its exchange.                          *)
LEMMA OneHandler ==
  ASSUME NEW h \in Handlers, \A g \in Handlers \ {h} : conn'[g] = conn[g] /\ sent'[g] = <<>>,
         gone \subseteq gone', Owing!Owed(Stage[h], Stage'[h], sent'[h], h \in gone)
  PROVE  Owing!ExchangeNext
BY StaysPut DEF Owing!ExchangeNext

LEMMA NoHandler ==
  ASSUME UNCHANGED conn, sent' = Silence, gone \subseteq gone'
  PROVE  Owing!ExchangeNext
BY StaysPut, SilenceType DEF Owing!ExchangeNext

(* A handler goes on, with its client owed what it is sent.                   *)
LEMMA GoesOn ==
  ASSUME IInv, NEW h \in Handlers, NEW place \in Places, GoTo(h, place), gone \subseteq gone',
         conn[h].pc \notin {"Free", "Closed"}, place \notin {"Free", "Asked"},
         NEW frames, sent'[h] = frames, \A g \in Handlers \ {h} : sent'[g] = <<>>,
         IF place = "Closed"
         THEN IF conn[h].pc = "Asked" THEN frames = <<"Reply">>
              ELSE IF conn[h].stream THEN frames \in {<<"End">>, <<"Failed">>}
              ELSE frames = <<"Reply">> \/ (h \in gone /\ frames = <<>>)
         ELSE frames = <<>> \/ (conn[h].stream /\ frames = <<"Head">>)
  PROVE  Owing!ExchangeNext
<1>1. conn \in [Handlers -> Conn] /\ conn' = [conn EXCEPT ![h].pc = place]
  BY IInvParts DEF GoTo
<1>2. /\ conn'[h].pc = place /\ conn'[h].stream = conn[h].stream /\ conn[h].stream \in BOOLEAN
      /\ \A g \in Handlers \ {h} : conn'[g] = conn[g]
  BY <1>1 DEF Conn
<1>3. Stage[h] = IF conn[h].stream /\ conn[h].pc # "Asked" THEN "Streaming" ELSE "Open"
  BY StageIs
<1>4. Stage'[h] = IF place = "Closed" THEN "Closed"
                  ELSE IF conn[h].stream THEN "Streaming" ELSE "Open"
  BY <1>2, StageIsNext
<1>5. CASE place = "Closed" /\ Stage[h] = "Open"
  <2>1. Stage'[h] = "Closed" /\ (frames = <<"Reply">> \/ (h \in gone /\ frames = <<>>))
    BY <1>3, <1>4, <1>5
  <2>2. Owing!Owed(Stage[h], Stage'[h], sent'[h], h \in gone)
    BY <1>5, <2>1 DEF Owing!Owed
  <2>3. QED
    BY <1>2, <2>2, OneHandler
<1>6. CASE place = "Closed" /\ Stage[h] = "Streaming"
  <2>1. Stage'[h] = "Closed" /\ frames \in {<<"End">>, <<"Failed">>}
    BY <1>3, <1>4, <1>6
  <2>2. /\ Owing!EndsWith(Owing!Lasts, frames)
        /\ Owing!Only(Owing!Events, SubSeq(frames, 1, Len(frames) - 1))
    BY <2>1, OneFrame
  <2>3. Owing!Owed(Stage[h], Stage'[h], sent'[h], h \in gone)
    BY <1>6, <2>1, <2>2 DEF Owing!Owed
  <2>4. QED
    BY <1>2, <2>3, OneHandler
<1>7. CASE place # "Closed"
  <2>1. frames = <<>> \/ (conn[h].stream /\ frames = <<"Head">>)
    BY <1>7
  <2>2. Owing!Only(Owing!Events, frames)
    BY <2>1, OneFrame, NoFrame
  <2>3. Owing!Owed(Stage[h], Stage'[h], sent'[h], h \in gone)
    BY <1>2, <1>3, <1>4, <1>7, <2>1, <2>2 DEF Owing!Owed
  <2>4. QED
    BY <1>2, <2>3, OneHandler
<1>8. QED
  BY <1>3, <1>5, <1>6, <1>7

LEMMA HandlerOwes ==
  ASSUME IInv, NEW h \in Handlers,
         \/ AnswerAtOnce(h) \/ Open(h) \/ Check(h) \/ HangUp(h) \/ CloseHungUp(h) \/ Finish(h)
         \/ GoDirect(h) \/ GenerateBegins(h) \/ GenerateEnds(h)
         \/ \E s \in Slots : SubmitRefused(h, s)
  PROVE  Owing!ExchangeNext
<1> USE IInvParts
<1>0. HandlerOK(h)
  BY DEF IInv
<1>1. CASE AnswerAtOnce(h) \/ \E s \in Slots : SubmitRefused(h, s)
  <2>1. conn[h].pc = "Asked" /\ GoTo(h, "Closed") /\ Put(h, <<"Reply">>) /\ gone' = gone
    BY <1>1 DEF AnswerAtOnce, SubmitRefused, At, UnchangedServer
  <2>2. sent'[h] = <<"Reply">> /\ \A g \in Handlers \ {h} : sent'[g] = <<>>
    BY <2>1, PutType, FrameSeqs
  <2>3. "Closed" \in Places
    BY DEF Places
  <2>4. QED
    BY <2>1, <2>2, <2>3, GoesOn
<1>2. CASE Open(h) \/ Check(h) \/ HangUp(h) \/ GoDirect(h) \/ GenerateBegins(h)
  <2>1. PICK place \in Places \ {"Free", "Asked", "Closed"} : GoTo(h, place)
    BY <1>2 DEF Open, Check, HangUp, GoDirect, GenerateBegins, Places
  <2>2. gone' = gone /\ conn[h].pc \notin {"Free", "Closed"}
    BY <1>2 DEF Open, Check, HangUp, GoDirect, GenerateBegins, At, UnchangedServer
  <2>3. sent' = Silence \/ (conn[h].stream /\ Put(h, <<"Head">>))
    BY <1>2 DEF Open, Check, HangUp, GoDirect, GenerateBegins
  <2>4. PICK frames : /\ sent'[h] = frames /\ \A g \in Handlers \ {h} : sent'[g] = <<>>
                      /\ frames = <<>> \/ (conn[h].stream /\ frames = <<"Head">>)
    BY <2>3, PutType, SilenceType, FrameSeqs
  <2>5. QED
    BY <2>1, <2>2, <2>4, GoesOn
<1>3. CASE CloseHungUp(h) \/ Finish(h) \/ GenerateEnds(h)
  <2>1. GoTo(h, "Closed") /\ gone' = gone /\ conn[h].pc \notin {"Free", "Asked", "Closed"}
        /\ "Closed" \in Places /\ conn[h].stream \in BOOLEAN
    BY <1>3 DEF CloseHungUp, Finish, GenerateEnds, At, UnchangedServer, Places, Conn
  <2>2. PICK frames \in {<<>>, <<"Reply">>, <<"End">>, <<"Failed">>} :
          /\ Put(h, frames)
          /\ IF conn[h].stream THEN frames \in {<<"End">>, <<"Failed">>}
             ELSE frames = <<"Reply">> \/ (h \in gone /\ frames = <<>>)
    <3>1. CASE CloseHungUp(h)
      BY <1>0, <3>1 DEF CloseHungUp, HandlerOK, At
    <3>2. CASE Finish(h) \/ GenerateEnds(h)
      <4>1. PICK ok \in BOOLEAN : Answer(h, ok)
        BY <3>2 DEF Finish, GenerateEnds
      <4>2. QED
        BY <4>1 DEF Answer
    <3>3. QED
      BY <1>3, <3>1, <3>2
  <2>3. frames \in Seq(Frames)
    BY FrameSeqs
  <2>4. sent'[h] = frames /\ \A g \in Handlers \ {h} : sent'[g] = <<>>
    BY <2>2, <2>3, PutType
  <2>5. QED
    BY <2>1, <2>2, <2>4, GoesOn
<1>4. QED
  BY <1>1, <1>2, <1>3

(* A pump sends tokens to streams that are open, whoever pumps.               *)
LEMMA PumpOwes == ASSUME IInv, NEW h \in Handlers, Pump(h) PROVE Owing!ExchangeNext
<1> USE IInvParts
<1>1. PICK o \in PumpOutcomes : Pumped(o) /\ sent' = Streamed(o.tokens)
  BY DEF Pump
<1>2. OutcomeOK(o)
  BY <1>1, PumpedKeeps
<1>3. /\ conn[h].pc = "Turn" /\ conn' = [conn EXCEPT ![h].pc = "Check"] /\ gone' = gone
  BY DEF Pump, At, GoTo, UnchangedServer
<1>4. ASSUME NEW g \in Handlers
      PROVE  Owing!Owed(Stage[g], Stage'[g], sent'[g], g \in gone)
  <2>1. Stage'[g] = Stage[g] /\ Stage[g] \in {"Free", "Open", "Streaming", "Closed"}
    <3>1. /\ conn'[g].stream = conn[g].stream
          /\ g # h => conn'[g].pc = conn[g].pc
          /\ g = h => conn'[g].pc = "Check" /\ conn[g].pc = "Turn"
      BY <1>3 DEF Conn
    <3>2. QED
      BY <3>1, StageIs, StageIsNext
  <2>2. o.tokens \in [Requests -> Nat]
    BY <1>2 DEF OutcomeOK
  <2>3. /\ sent'[g] \in Seq({"Chunk"})
        /\ sent'[g] # <<>> => /\ conn[g].stream /\ Job(g) \in Requests
                             /\ o.tokens[Job(g)] > 0
    BY <1>1, <2>2, Streams
  <2>4. CASE sent'[g] = <<>>
    <3>1. Owing!Owed(Stage[g], Stage[g], <<>>, g \in gone)
      BY <2>1, OwesNothing
    <3>2. QED
      BY <2>1, <2>4, <3>1
  <2>5. CASE sent'[g] # <<>>
    <3>1. phase[Job(g)] \in {"Waiting", "Active"} /\ Job(g) \in Accepted
      BY <1>2, <2>3, <2>5 DEF OutcomeOK, Accepted
    <3>2. conn[g].pc \in InLoop
      BY <3>1 DEF IInv, HandlerOK
    <3>3. Stage[g] = "Streaming"
      BY <2>3, <2>5, <3>2, StageIs DEF InLoop
    <3>4. Owing!Only(Owing!Events, sent'[g])
      BY <2>3 DEF Owing!Only, Owing!Events
    <3>5. QED
      BY <2>1, <3>3, <3>4 DEF Owing!Owed
  <2>6. QED
    BY <2>4, <2>5
<1>5. QED
  BY <1>3, <1>4 DEF Owing!ExchangeNext

LEMMA StepOwes == ASSUME IInv, Next PROVE Owing!ExchangeNext
<1> USE IInvParts
<1>1. CASE ListenerFails \/ Return
  BY <1>1, NoHandler DEF ListenerFails, Return
<1>2. ASSUME NEW h \in Handlers, ClientGoes(h) PROVE Owing!ExchangeNext
  BY <1>2, NoHandler DEF ClientGoes
<1>3. ASSUME NEW h \in Handlers, GenerateToken(h) \/ KeepAlive(h) PROVE Owing!ExchangeNext
  <2>1. /\ UNCHANGED conn /\ gone' = gone /\ Put(h, <<"Chunk">>)
        /\ conn[h].stream /\ conn[h].pc \notin {"Free", "Asked", "Closed"}
    BY <1>3 DEF GenerateToken, KeepAlive, UnchangedServer, At
  <2>2. sent'[h] = <<"Chunk">> /\ \A g \in Handlers \ {h} : sent'[g] = <<>>
    BY <2>1, PutType, FrameSeqs
  <2>3. Stage[h] = "Streaming" /\ Stage'[h] = "Streaming"
    BY <2>1, StageIs, StageIsNext
  <2>4. Owing!Owed(Stage[h], Stage'[h], sent'[h], h \in gone)
    BY <2>2, <2>3, OneFrame DEF Owing!Owed
  <2>5. QED
    BY <2>1, <2>2, <2>4, OneHandler
<1>4. ASSUME NEW h \in Handlers, NEW kind \in Kinds, NEW stream \in BOOLEAN,
             Connect(h, kind, stream)
      PROVE  Owing!ExchangeNext
  <2>1. /\ conn[h].pc = "Free" /\ sent' = Silence /\ gone' = gone
        /\ conn' = [conn EXCEPT ![h] = [Fresh EXCEPT !.kind = kind, !.stream = stream,
                                                    !.pc = "Asked"]]
    BY <1>4 DEF Connect, At, UnchangedServer
  <2>2. conn'[h].pc = "Asked" /\ \A g \in Handlers \ {h} : conn'[g] = conn[g]
    BY <2>1 DEF Fresh
  <2>3. Stage[h] = "Free" /\ Stage'[h] = "Open"
    BY <2>1, <2>2, StageIs, StageIsNext
  <2>4. \A g \in Handlers : sent'[g] = <<>>
    BY <2>1, SilenceType
  <2>5. Owing!Owed(Stage[h], Stage'[h], sent'[h], h \in gone)
    BY <2>3, <2>4 DEF Owing!Owed
  <2>6. QED
    BY <2>1, <2>2, <2>4, <2>5, OneHandler
<1>5. ASSUME NEW h \in Handlers, NEW s \in Slots, NEW r \in Requests, Submit(h, s, r)
      PROVE  Owing!ExchangeNext
  <2>1. /\ conn[h].pc = "Asked" /\ sent' = Silence /\ gone' = gone
        /\ conn' = [conn EXCEPT ![h].pc = "Opening", ![h].job = r]
    BY <1>5 DEF Submit, At, UnchangedServer
  <2>2. conn'[h].pc = "Opening" /\ \A g \in Handlers \ {h} : conn'[g] = conn[g]
    BY <2>1 DEF Conn
  <2>3. Stage[h] = "Open" /\ Stage'[h] \in {"Open", "Streaming"}
    BY <2>1, <2>2, StageIs, StageIsNext
  <2>4. \A g \in Handlers : sent'[g] = <<>>
    BY <2>1, SilenceType
  <2>5. Owing!Owed(Stage[h], Stage'[h], sent'[h], h \in gone)
    BY <2>3, <2>4, NoFrame DEF Owing!Owed
  <2>6. QED
    BY <2>1, <2>2, <2>4, <2>5, OneHandler
<1>6. ASSUME NEW h \in Handlers, ByHandler(h) PROVE Owing!ExchangeNext
  <2>1. CASE \E s \in Slots, r \in Requests : Submit(h, s, r)
    BY <1>5, <2>1
  <2>2. CASE Pump(h)
    BY <2>2, PumpOwes
  <2>3. CASE \/ AnswerAtOnce(h) \/ Open(h) \/ Check(h) \/ HangUp(h) \/ CloseHungUp(h)
             \/ Finish(h) \/ GoDirect(h) \/ GenerateBegins(h) \/ GenerateEnds(h)
             \/ \E s \in Slots : SubmitRefused(h, s)
    BY <2>3, HandlerOwes
  <2>4. QED
    BY <1>6, <2>1, <2>2, <2>3 DEF ByHandler
<1>7. QED
  BY <1>1, <1>2, <1>3, <1>4, <1>6 DEF Next, ByClient

(* Every connection gets what HttpExchange says it is owed: the server        *)
(* implements it, each handler at the stage of its exchange.                  *)
THEOREM Exchange == Spec => KeepsExchange
<1>1. Init => Owing!ExchangeInit
  <2> SUFFICES ASSUME Init PROVE Owing!ExchangeInit
    OBVIOUS
  <2>1. conn = [h \in Handlers |-> Fresh] /\ gone = {} /\ sent = [h \in Handlers |-> <<>>]
    BY DEF Init, Silence
  <2>2. \A h \in Handlers : conn[h].pc = "Free"
    BY <2>1 DEF Fresh
  <2>3. Stage = [h \in Handlers |-> "Free"]
    BY <2>2 DEF Stage
  <2>4. QED
    BY <2>1, <2>3 DEF Owing!ExchangeInit
<1>2. IInv /\ [Next]_vars => [Owing!ExchangeNext]_Owing!exchange
  <2> SUFFICES ASSUME IInv, [Next]_vars PROVE [Owing!ExchangeNext]_Owing!exchange
    OBVIOUS
  <2>1. CASE Next
    BY <2>1, StepOwes
  <2>2. CASE UNCHANGED vars
    BY <2>2 DEF vars, httpVars, Owing!exchange, Stage
  <2>3. QED
    BY <2>1, <2>2
<1>3. QED
  BY <1>1, <1>2, Invariant, PTL DEF Spec, KeepsExchange, Owing!ExchangeSpec
=============================================================================
