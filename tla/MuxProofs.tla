------------------------------ MODULE MuxProofs ------------------------------
(***************************************************************************)
(* Theorems about Mux for every set of ids, requests and slots: flights    *)
(* and jobs go together, what a job points into outlives it, a cancelled   *)
(* generation falls silent, and what is sent keeps to MuxProtocol.         *)
(***************************************************************************)
EXTENDS Mux, PumpedSlotsProofs

(* Of the flights: only that of the direct generation can be one that was     *)
(* cancelled and is not answered yet, none is left when the mux has returned, *)
(* and the scheduled ones are the scheduler's unfinished jobs, one to one.    *)
CancelledAreDirect == \A id \in Ids : flights[id].cancelled => id \in InFlight \ Scheduled
Quiescent == ended => InFlight = {} /\ ~direct.on
OneToOne ==
  /\ \A r \in Accepted : \E id \in Scheduled : flights[id].sched = r
  /\ \A id \in Scheduled : flights[id].sched \in Accepted
  /\ \A id, jd \in Scheduled : flights[id].sched = flights[jd].sched => id = jd

(* The inductive invariant. *)
IInv == /\ TypeOK /\ BudgetsLast
        /\ OneToOne /\ ImageOutlivesJob
        /\ SlotsGivenBack /\ DirectHasFlight
        /\ CancelledAreDirect /\ Quiescent

LEMMA IInvHasFlights == ASSUME IInv PROVE JobsHaveFlights
<1>1. OneToOne /\ Quiescent
  BY DEF IInv
<1>2. ASSUME NEW r \in Accepted PROVE \E id \in Ids : Client(r) = {id}
  <2>1. PICK id \in Scheduled : flights[id].sched = r
    BY <1>1 DEF OneToOne
  <2>2. Client(r) = {id}
    BY <1>1, <2>1 DEF OneToOne, Client
  <2>3. QED
    BY <2>1, <2>2 DEF Scheduled, InFlight
<1>3. ended => Accepted = {}
  BY <1>1 DEF OneToOne, Quiescent, Scheduled
<1>4. QED
  BY <1>1, <1>2, <1>3 DEF JobsHaveFlights, OneToOne

LEMMA NoFlightType == NoFlight \in Flight /\ ~NoFlight.live /\ ~NoFlight.cancelled
                      /\ ~NoFlight.image
BY DEF NoFlight, Flight

(* A flight is in one of the two sets of flights by its own fields alone.     *)
LEMMA FlightSets ==
  \A id \in Ids : /\ id \in InFlight <=> flights[id].live
                  /\ id \in Scheduled <=> flights[id].live /\ flights[id].sched # NoRequest
BY DEF InFlight, Scheduled

LEMMA InitInv == Init => IInv
<1> SUFFICES ASSUME Init PROVE IInv
  OBVIOUS
<1> USE MuxAssumption, PumpAssumption
<1>1. PumpInv
  BY PumpInitInv DEF Init
<1>2. flights = [id \in Ids |-> NoFlight] /\ direct = NoDirect /\ ended = FALSE
      /\ pending = {} /\ jobImage = {} /\ taken = {} /\ turn = "Command" /\ eof = FALSE
      /\ sent = [id \in Ids |-> <<>>]
  BY DEF Init, Silence
<1>3. InFlight = {} /\ Scheduled = {}
  BY <1>2, NoFlightType DEF InFlight, Scheduled
<1>4. Accepted = {}
  BY DEF Init, PumpInit, AbstractInit, Accepted
<1>5. /\ (CHOOSE id \in Ids : TRUE) \in Ids /\ (CHOOSE s \in Slots : TRUE) \in Slots
      /\ NoDirect.on = FALSE
  BY DEF NoDirect
<1>6. TypeOK
  <2>1. direct \in [on : BOOLEAN, id : Ids, slot : Slots, left : 0..Budget, polling : BOOLEAN]
    BY <1>2, <1>5 DEF NoDirect
  <2>2. flights \in [Ids -> Flight]
    BY <1>2, NoFlightType
  <2>3. sent \in [Ids -> Seq(FrameKinds)]
    BY <1>2
  <2>4. QED
    BY <1>1, <1>2, <2>1, <2>2, <2>3 DEF TypeOK, PumpInv
<1>7. QED
  BY <1>1, <1>2, <1>3, <1>4, <1>5, <1>6, NoFlightType
  DEF IInv, PumpInv, OneToOne, ImageOutlivesJob, SlotsGivenBack, DirectHasFlight,
      CancelledAreDirect, Quiescent
-----------------------------------------------------------------------------
(* What a step says is a sequence of frames for each id.                      *)
LEMMA SayType ==
  ASSUME NEW id, NEW frame \in FrameKinds, Say(id, frame)
  PROVE  sent' \in [Ids -> Seq(FrameKinds)]
<1>1. <<frame>> \in Seq(FrameKinds)
  OBVIOUS
<1>2. sent' = [[i \in Ids |-> <<>>] EXCEPT ![id] = <<frame>>]
  BY DEF Say, Silence
<1>3. sent' = [i \in Ids |-> IF i = id THEN <<frame>> ELSE <<>>]
  BY <1>2
<1>4. ASSUME NEW i \in Ids PROVE (IF i = id THEN <<frame>> ELSE <<>>) \in Seq(FrameKinds)
  BY <1>1
<1>5. QED
  BY <1>3, <1>4

LEMMA SilenceType == Silence \in [Ids -> Seq(FrameKinds)]
BY DEF Silence

(* A step that leaves the flights, and what the scheduler holds, alone.       *)
LEMMA FlightsAlone ==
  ASSUME IInv, TypeOK', PumpInv', Accepted' = Accepted, UNCHANGED holders,
         UNCHANGED <<flights, jobImage, taken>>,
         direct'.on = direct.on, direct'.id = direct.id, direct'.slot = direct.slot,
         ended' = ended \/ (InFlight = {} /\ ~direct.on)
  PROVE  IInv'
<1>1. InFlight' = InFlight /\ Scheduled' = Scheduled
  BY DEF InFlight, Scheduled
<1>2. OneToOne'
  BY <1>1 DEF IInv, OneToOne
<1>3. ImageOutlivesJob'
  BY <1>1 DEF IInv, ImageOutlivesJob, Client
<1>4. SlotsGivenBack' /\ DirectHasFlight'
  BY <1>1 DEF IInv, SlotsGivenBack, DirectHasFlight
<1>5. CancelledAreDirect' /\ Quiescent'
  BY <1>1 DEF IInv, CancelledAreDirect, Quiescent
<1>6. QED
  BY <1>2, <1>3, <1>4, <1>5 DEF IInv, PumpInv

LEMMA IInvParts ==
  ASSUME IInv
  PROVE  /\ PumpInv /\ flights \in [Ids -> Flight] /\ pending \subseteq Ids /\ jobImage \subseteq Requests
         /\ direct \in [on : BOOLEAN, id : Ids, slot : Slots, left : 0..Budget, polling : BOOLEAN]
         /\ taken \subseteq Slots /\ turn \in {"Command", "Pump"} /\ {eof, ended} \subseteq BOOLEAN
         /\ sent \in [Ids -> Seq(FrameKinds)]
BY DEF IInv, TypeOK, PumpInv

(* Commands that open or close no flight, and a token of the direct           *)
(* generation.                                                               *)
LEMMA CommandsAlone ==
  ASSUME IInv, NEW id \in Ids,
         \/ Refuse(id) \/ Image(id) \/ EndOfInput(id) \/ DirectToken \/ Exit
         \/ \E s \in Slots : SubmitQueueFull(id, s)
  PROVE  IInv'
<1> USE IInvParts, PumpAssumption
<1>1. /\ UNCHANGED <<pumpVars, flights, jobImage, taken>>
      /\ pending' \subseteq Ids
      /\ turn' \in {"Command", "Pump"} /\ {eof', ended'} \subseteq BOOLEAN
      /\ ended' = ended \/ (InFlight = {} /\ eof /\ ended')
  BY DEF Refuse, Image, EndOfInput, DirectToken, Exit, SubmitQueueFull, AfterCommand
<1>2. /\ direct' \in [on : BOOLEAN, id : Ids, slot : Slots, left : 0..Budget, polling : BOOLEAN]
      /\ direct'.on = direct.on /\ direct'.id = direct.id /\ direct'.slot = direct.slot
  <2>1. CASE DirectToken
    <3>1. direct.left \in Nat /\ direct.left > 0 /\ direct.left <= Budget /\ Budget \in Nat
      BY <2>1 DEF DirectToken
    <3>2. direct.left - 1 \in 0..Budget
      BY <3>1
    <3>3. flights[direct.id].cancelled \in BOOLEAN
      BY DEF Flight
    <3>4. direct' = [direct EXCEPT !.left = direct.left - 1, !.polling = ~flights[direct.id].cancelled]
      BY <2>1 DEF DirectToken
    <3>5. QED
      BY <3>2, <3>3, <3>4
  <2>2. CASE ~DirectToken
    BY <2>2 DEF Refuse, Image, EndOfInput, Exit, SubmitQueueFull
  <2>3. QED
    BY <2>1, <2>2
<1>3. sent' \in [Ids -> Seq(FrameKinds)]
  <2>1. \/ sent' = Silence \/ \E frame \in {"Refused", "Data"}, i \in Ids : Say(i, frame)
    BY DEF Refuse, Image, EndOfInput, DirectToken, Exit, SubmitQueueFull
  <2>2. QED
    BY <2>1, SayType, SilenceType DEF FrameKinds
<1>4. PumpInv' /\ Accepted' = Accepted /\ UNCHANGED holders
  BY <1>1, PumpIdle
<1>5. TypeOK'
  BY <1>1, <1>2, <1>3, <1>4 DEF TypeOK, PumpInv
<1>6. InFlight = {} => ~direct.on
  BY DEF IInv, DirectHasFlight
<1>7. QED
  BY <1>1, <1>2, <1>4, <1>5, <1>6, FlightsAlone

LEMMA StopAlone ==
  ASSUME IInv, NEW id \in Ids, Stop(id)
  PROVE  IInv'
<1> USE IInvParts
<1>1. /\ UNCHANGED <<runtime, todo, flights, pending, jobImage, direct, taken, eof, ended>>
      /\ turn' \in {"Command", "Pump"} /\ sent' = Silence
  BY DEF Stop, AfterCommand
<1>2. PumpInv' /\ Accepted' = Accepted /\ UNCHANGED holders
  <2> DEFINE r == flights[id].sched
  <2>1. CASE id \in Scheduled /\ phase[r] \in {"Waiting", "Active"}
    <3>1. AskToStop(r)
      BY <2>1 DEF Stop
    <3>2. r \in Requests
      BY <2>1, FlightSets DEF Flight
    <3>3. QED
      BY <3>1, <3>2, <1>1, StopKeeps
  <2>2. CASE ~(id \in Scheduled /\ phase[r] \in {"Waiting", "Active"})
    <3>1. UNCHANGED abstractVars
      BY <2>2 DEF Stop
    <3>2. UNCHANGED pumpVars
      BY <3>1, <1>1 DEF pumpVars
    <3>3. QED
      BY <3>2, PumpIdle
  <2>3. QED
    BY <2>1, <2>2
<1>3. TypeOK'
  BY <1>1, <1>2, SilenceType DEF TypeOK, PumpInv
<1>4. QED
  BY <1>1, <1>2, <1>3, FlightsAlone

(* A flight is opened for a job, or for a direct generation.                  *)
LEMMA OpensScheduled ==
  ASSUME IInv, NEW id \in Ids, NEW s \in Slots, NEW r \in Requests, SubmitScheduled(id, s, r)
  PROVE  IInv'
<1> USE IInvParts, MuxAssumption
<1> DEFINE new == [sched |-> r, live |-> TRUE, cancelled |-> FALSE, image |-> id \in pending]
<1>1. /\ AtRun /\ id \notin InFlight /\ ~Busy(s) /\ Accept(r, s)
      /\ flights' = [flights EXCEPT ![id] = new]
      /\ jobImage' = IF id \in pending THEN jobImage \cup {r} ELSE jobImage
      /\ pending' = pending \ {id} /\ Say(id, "Accept") /\ turn' = "Pump"
      /\ UNCHANGED <<runtime, todo, direct, taken, eof, ended>>
  BY DEF SubmitScheduled
<1>2. /\ PumpInv' /\ r \notin Accepted /\ Accepted' = Accepted \cup {r}
      /\ \A t \in Slots \ {s} : holders'[t] = holders[t]
  BY <1>1, AcceptKeeps
<1>3. new \in Flight /\ new.live /\ ~new.cancelled /\ new.sched = r /\ r # NoRequest
      /\ new.image = (id \in pending)
  BY DEF Flight
<1> HIDE DEF new
<1>4. flights' \in [Ids -> Flight] /\ flights'[id] = new
      /\ \A i \in Ids \ {id} : flights'[i] = flights[i]
  BY <1>1, <1>3
<1>5. InFlight' = InFlight \cup {id} /\ Scheduled' = Scheduled \cup {id}
  BY <1>3, <1>4 DEF InFlight, Scheduled
<1>6. TypeOK'
  BY <1>1, <1>2, <1>4, SayType DEF TypeOK, PumpInv, FrameKinds
<1>7. OneToOne'
  <2>1. id \notin Scheduled /\ \A i \in Scheduled : i \in Ids \ {id}
    BY <1>1 DEF Scheduled, InFlight
  <2>2. \A i \in Scheduled : flights'[i].sched = flights[i].sched /\ flights[i].sched # r
    BY <2>1, <1>2, <1>4 DEF IInv, OneToOne
  <2>3. flights'[id].sched = r
    BY <1>3, <1>4
  <2>4. \A q \in Accepted : \E i \in Scheduled : flights'[i].sched = q
    BY <2>2 DEF IInv, OneToOne
  <2>5. \A i \in Scheduled : flights'[i].sched \in Accepted
    BY <2>2 DEF IInv, OneToOne
  <2>6. \A i, j \in Scheduled : flights'[i].sched = flights'[j].sched => i = j
    BY <2>2 DEF IInv, OneToOne
  <2>7. QED
    BY <1>2, <1>5, <2>2, <2>3, <2>4, <2>5, <2>6 DEF OneToOne
<1>8. ImageOutlivesJob'
  <2>1. ASSUME NEW q \in jobImage
        PROVE  \E i \in Client(q)' : flights'[i].image
    <3>1. PICK i \in Client(q) : flights[i].image
      BY DEF IInv, ImageOutlivesJob
    <3>2. i \in Scheduled /\ flights[i].sched = q /\ i \in Ids \ {id}
      BY <3>1, <1>1 DEF Client, Scheduled, InFlight
    <3>3. QED
      BY <3>1, <3>2, <1>4, <1>5 DEF Client
  <2>2. id \in pending => id \in Client(r)' /\ flights'[id].image
    BY <1>3, <1>4, <1>5 DEF Client
  <2>3. QED
    BY <2>1, <2>2, <1>1 DEF ImageOutlivesJob
<1>9. SlotsGivenBack'
  <2>1. s \notin taken
    BY <1>1 DEF Busy
  <2>2. QED
    BY <2>1, <1>1, <1>2 DEF IInv, SlotsGivenBack
<1>10. DirectHasFlight' /\ CancelledAreDirect' /\ Quiescent'
  BY <1>1, <1>3, <1>4, <1>5 DEF IInv, DirectHasFlight, CancelledAreDirect, Quiescent, AtRun
<1>11. QED
  BY <1>2, <1>6, <1>7, <1>8, <1>9, <1>10 DEF IInv, PumpInv

LEMMA OpensDirect ==
  ASSUME IInv, NEW id \in Ids, NEW s \in Slots, SubmitDirect(id, s)
  PROVE  IInv'
<1> USE IInvParts, MuxAssumption, PumpAssumption
<1> DEFINE new == [sched |-> NoRequest, live |-> TRUE, cancelled |-> FALSE,
                   image |-> id \in pending]
<1>1. /\ AtRun /\ id \notin InFlight /\ ~Busy(s)
      /\ taken' = taken \cup {s}
      /\ flights' = [flights EXCEPT ![id] = new]
      /\ pending' = pending \ {id} /\ Say(id, "Accept")
      /\ direct' = [on |-> TRUE, id |-> id, slot |-> s, left |-> Budget, polling |-> FALSE]
      /\ UNCHANGED <<pumpVars, jobImage, turn, eof, ended>>
  BY DEF SubmitDirect
<1>2. PumpInv' /\ Accepted' = Accepted /\ UNCHANGED holders
  BY <1>1, PumpIdle
<1>3. new \in Flight /\ new.live /\ ~new.cancelled /\ new.sched = NoRequest
  BY DEF Flight
<1> HIDE DEF new
<1>4. flights' \in [Ids -> Flight] /\ flights'[id] = new
      /\ \A i \in Ids \ {id} : flights'[i] = flights[i]
  BY <1>1, <1>3
<1>5. InFlight' = InFlight \cup {id} /\ Scheduled' = Scheduled
      /\ id \notin Scheduled /\ \A i \in Scheduled : i \in Ids \ {id}
  BY <1>1, <1>3, <1>4 DEF InFlight, Scheduled
<1>6. direct' \in [on : BOOLEAN, id : Ids, slot : Slots, left : 0..Budget, polling : BOOLEAN]
  BY <1>1
<1>7. TypeOK'
  BY <1>1, <1>2, <1>4, <1>6, SayType DEF TypeOK, PumpInv, FrameKinds
<1>8. OneToOne' /\ ImageOutlivesJob'
  BY <1>1, <1>2, <1>4, <1>5 DEF IInv, OneToOne, ImageOutlivesJob, Client
<1>9. SlotsGivenBack'
  <2>1. taken = {} /\ holders[s] = {}
    BY <1>1 DEF IInv, SlotsGivenBack, AtRun, Busy
  <2>2. QED
    BY <2>1, <1>1, <1>2 DEF SlotsGivenBack
<1>10. DirectHasFlight' /\ CancelledAreDirect' /\ Quiescent'
  BY <1>1, <1>3, <1>4, <1>5 DEF IInv, DirectHasFlight, CancelledAreDirect, Quiescent, AtRun
<1>11. QED
  BY <1>2, <1>7, <1>8, <1>9, <1>10 DEF IInv, PumpInv
-----------------------------------------------------------------------------
(* Flights are closed: those of over, and with them the jobs ended of the     *)
(* scheduler, and no others.                                                 *)
LEMMA Closes ==
  ASSUME IInv, TypeOK', PumpInv', NEW over \in SUBSET Ids,
         \A id \in over : flights'[id] = NoFlight,
         \A id \in Ids \ over : flights'[id] = flights[id],
         NEW ended_, Accepted' = Accepted \ ended_, jobImage' = jobImage \ ended_,
         \A id \in Scheduled : id \in over <=> flights[id].sched \in ended_,
         direct' = IF direct.on /\ direct.id \in over THEN NoDirect ELSE direct,
         taken' = IF direct.on /\ direct.id \in over THEN taken \ {direct.slot} ELSE taken,
         \A s \in Slots : holders'[s] \subseteq holders[s], UNCHANGED ended
  PROVE  IInv'
<1> USE IInvParts
<1>1. InFlight' = InFlight \ over /\ Scheduled' = Scheduled \ over
  BY NoFlightType DEF InFlight, Scheduled
<1>2. \A id \in Scheduled : id \in Ids
  BY DEF Scheduled, InFlight
<1>3. OneToOne'
  <2>1. ASSUME NEW r \in Accepted' PROVE \E id \in Scheduled' : flights'[id].sched = r
    <3>1. PICK id \in Scheduled : flights[id].sched = r
      BY DEF IInv, OneToOne
    <3>2. id \notin over
      BY <3>1
    <3>3. QED
      BY <3>1, <3>2, <1>1, <1>2
  <2>2. \A id \in Scheduled' : id \in Scheduled /\ flights'[id] = flights[id]
                               /\ flights[id].sched \notin ended_
    BY <1>1, <1>2
  <2>3. QED
    BY <2>1, <2>2 DEF IInv, OneToOne
<1>4. ImageOutlivesJob'
  <2>1. ASSUME NEW r \in jobImage' PROVE \E id \in Client(r)' : flights'[id].image
    <3>1. PICK id \in Client(r) : flights[id].image
      BY DEF IInv, ImageOutlivesJob
    <3>2. id \in Scheduled /\ flights[id].sched = r /\ id \notin over
      BY <3>1 DEF Client
    <3>3. QED
      BY <3>1, <3>2, <1>1, <1>2 DEF Client
  <2>2. QED
    BY <2>1 DEF ImageOutlivesJob
<1>5. SlotsGivenBack' /\ DirectHasFlight'
  <2>1. ~NoDirect.on
    BY DEF NoDirect
  <2>2. SlotsGivenBack'
    BY <2>1 DEF IInv, SlotsGivenBack
  <2>3. ASSUME NEW id \in Ids
        PROVE  id \in InFlight' \ Scheduled' <=> direct'.on /\ id = direct'.id
    BY <2>1, <1>1 DEF IInv, DirectHasFlight
  <2>4. QED
    BY <2>2, <2>3 DEF DirectHasFlight
<1>6. CancelledAreDirect' /\ Quiescent'
  BY <1>1, NoFlightType DEF IInv, CancelledAreDirect, Quiescent
<1>7. QED
  BY <1>3, <1>4, <1>5, <1>6 DEF IInv, PumpInv

LEMMA CancelCloses ==
  ASSUME IInv, NEW id \in Ids, Cancel(id)
  PROVE  IInv'
<1> USE IInvParts, MuxAssumption
<1> DEFINE r == flights[id].sched
<1>1. /\ Reading /\ id \in InFlight /\ UNCHANGED <<pending, direct, taken, eof, ended>>
  BY DEF Cancel
<1>2. CASE id \in Scheduled
  <2>1. /\ CancelJob(r) /\ flights' = [flights EXCEPT ![id] = NoFlight]
        /\ jobImage' = jobImage \ {r} /\ Say(id, "Cancelled")
        /\ turn' \in {"Command", "Pump"}
    BY <1>2 DEF Cancel, AfterCommand
  <2>2. r \in Requests
    BY <1>2, FlightSets DEF Flight
  <2>3. /\ PumpInv' /\ Accepted' = Accepted \ {r}
        /\ \A s \in Slots : holders'[s] \subseteq holders[s]
    BY <2>1, <2>2, CancelKeeps
  <2>4. flights' \in [Ids -> Flight] /\ flights'[id] = NoFlight
        /\ \A i \in Ids \ {id} : flights'[i] = flights[i]
    BY <2>1, NoFlightType
  <2>5. TypeOK'
    BY <1>1, <2>1, <2>3, <2>4, SayType DEF TypeOK, PumpInv, FrameKinds
  <2>6. \A i \in Scheduled : i \in {id} <=> flights[i].sched \in {r}
    BY <1>2 DEF IInv, OneToOne
  <2>7. ~(direct.on /\ direct.id \in {id})
    BY <1>2 DEF IInv, DirectHasFlight
  <2>8. /\ direct' = IF direct.on /\ direct.id \in {id} THEN NoDirect ELSE direct
        /\ taken' = IF direct.on /\ direct.id \in {id} THEN taken \ {direct.slot} ELSE taken
        /\ UNCHANGED ended
    BY <1>1, <2>7
  <2>9. /\ \A i \in {id} : flights'[i] = NoFlight
        /\ \A i \in Ids \ {id} : flights'[i] = flights[i]
        /\ {id} \in SUBSET Ids
    BY <2>4
  <2> HIDE DEF r
  <2>10. QED
    BY <2>1, <2>3, <2>5, <2>6, <2>8, <2>9, Closes
<1>3. CASE id \notin Scheduled
  <2>1. /\ flights' = [flights EXCEPT ![id].cancelled = TRUE]
        /\ sent' = Silence /\ UNCHANGED <<pumpVars, jobImage, turn>>
    BY <1>3 DEF Cancel
  <2>2. PumpInv' /\ Accepted' = Accepted /\ UNCHANGED holders
    BY <2>1, PumpIdle
  <2>3. /\ flights' \in [Ids -> Flight] /\ flights'[id] = [flights[id] EXCEPT !.cancelled = TRUE]
        /\ \A i \in Ids \ {id} : flights'[i] = flights[i]
    BY <2>1 DEF Flight
  <2>4. \A i \in Ids : /\ flights'[i].live = flights[i].live /\ flights'[i].sched = flights[i].sched
                       /\ flights'[i].image = flights[i].image
                       /\ flights'[i].cancelled => flights[i].cancelled \/ i = id
    BY <2>3 DEF Flight
  <2>5. InFlight' = InFlight /\ Scheduled' = Scheduled
    BY <2>4 DEF InFlight, Scheduled
  <2>6. TypeOK'
    BY <1>1, <2>1, <2>2, <2>3, SilenceType DEF TypeOK, PumpInv
  <2>7. OneToOne' /\ ImageOutlivesJob'
    BY <2>1, <2>2, <2>4, <2>5 DEF IInv, OneToOne, ImageOutlivesJob, Client, Scheduled, InFlight
  <2>8. SlotsGivenBack' /\ DirectHasFlight' /\ Quiescent'
    BY <1>1, <2>2, <2>5 DEF IInv, SlotsGivenBack, DirectHasFlight, Quiescent
  <2>9. CancelledAreDirect'
    BY <1>1, <1>3, <2>4, <2>5 DEF IInv, CancelledAreDirect
  <2>10. QED
    BY <2>2, <2>6, <2>7, <2>8, <2>9 DEF IInv, PumpInv
<1>4. QED
  BY <1>2, <1>3

LEMMA DirectCloses ==
  ASSUME IInv, DirectEnds
  PROVE  IInv'
<1> USE IInvParts, MuxAssumption, PumpAssumption
<1>0. PICK id \in Ids : id = direct.id
  OBVIOUS
<1>1. /\ direct.on /\ taken' = taken \ {direct.slot} /\ direct' = NoDirect
      /\ flights' = [flights EXCEPT ![id] = NoFlight]
      /\ turn' \in {"Command", "Pump"}
      /\ \E frame \in {"Cancelled", "Done", "Failed"} : Say(id, frame)
      /\ UNCHANGED <<pumpVars, pending, jobImage, eof, ended>>
  BY <1>0 DEF DirectEnds
<1>2. PumpInv' /\ Accepted' = Accepted /\ UNCHANGED holders
  BY <1>1, PumpIdle
<1>3. id \in Ids /\ flights' \in [Ids -> Flight] /\ flights'[id] = NoFlight
      /\ \A i \in Ids \ {id} : flights'[i] = flights[i]
  BY <1>1, NoFlightType
<1>4. NoDirect \in [on : BOOLEAN, id : Ids, slot : Slots, left : 0..Budget, polling : BOOLEAN]
  <2>1. (CHOOSE i \in Ids : TRUE) \in Ids /\ (CHOOSE s \in Slots : TRUE) \in Slots
    OBVIOUS
  <2>2. QED
    BY <2>1 DEF NoDirect
<1>5. sent' \in [Ids -> Seq(FrameKinds)]
  BY <1>1, SayType DEF FrameKinds
<1>6. TypeOK'
  BY <1>1, <1>2, <1>3, <1>4, <1>5 DEF TypeOK, PumpInv
<1>7. \A i \in Scheduled : i # id
  BY <1>0, <1>1 DEF IInv, DirectHasFlight
<1>8. InFlight' = InFlight \ {id} /\ Scheduled' = Scheduled
  BY <1>3, <1>7, NoFlightType DEF InFlight, Scheduled
<1>9. \A i \in Scheduled : i \in Ids /\ flights'[i] = flights[i]
  BY <1>3, <1>7 DEF Scheduled, InFlight
<1>10. OneToOne'
  <2>1. \A r \in Accepted : \E i \in Scheduled : flights'[i].sched = r
    BY <1>9 DEF IInv, OneToOne
  <2>2. \A i \in Scheduled : flights'[i].sched \in Accepted
    BY <1>9 DEF IInv, OneToOne
  <2>3. \A i, j \in Scheduled : flights'[i].sched = flights'[j].sched => i = j
    BY <1>9 DEF IInv, OneToOne
  <2>4. QED
    BY <1>2, <1>8, <2>1, <2>2, <2>3 DEF OneToOne
<1>11. ImageOutlivesJob'
  <2>1. ASSUME NEW r \in jobImage PROVE \E i \in Scheduled : flights'[i].sched = r /\ flights'[i].image
    <3>1. PICK i \in Client(r) : flights[i].image
      BY DEF IInv, ImageOutlivesJob
    <3>2. i \in Scheduled /\ flights[i].sched = r
      BY DEF Client
    <3>3. QED
      BY <1>9, <3>1, <3>2
  <2>2. jobImage' = jobImage
    BY <1>1
  <2>3. QED
    BY <1>8, <2>1, <2>2 DEF ImageOutlivesJob, Client
<1>12. ~NoDirect.on
  BY DEF NoDirect
<1>13. SlotsGivenBack' /\ DirectHasFlight'
  <2>1. taken' = {} /\ ~direct'.on
    BY <1>1, <1>12 DEF IInv, SlotsGivenBack
  <2>2. InFlight' \ Scheduled' = {}
    BY <1>0, <1>1, <1>8 DEF IInv, DirectHasFlight, InFlight
  <2>3. QED
    BY <2>1, <2>2 DEF SlotsGivenBack, DirectHasFlight
<1>14. CancelledAreDirect' /\ Quiescent'
  BY <1>1, <1>3, <1>8, <1>12, NoFlightType DEF IInv, CancelledAreDirect, Quiescent
<1>15. QED
  BY <1>2, <1>6, <1>10, <1>11, <1>13, <1>14 DEF IInv, PumpInv

(* Every id gets the tokens of its job, and its last frame if the job ended.  *)
LEMMA HarvestSays ==
  ASSUME NEW o, o.tokens \in [Requests -> Nat],
         Harvest(o.tokens, o.answered, o.dropped), flights \in [Ids -> Flight], NEW id \in Ids
  PROVE  \/ id \notin Scheduled /\ sent'[id] = <<>>
         \/ /\ id \in Scheduled /\ flights[id].sched \in Requests
            /\ \E n \in Nat, last \in {<<>>, <<"Done">>, <<"Failed">>} :
                 /\ sent'[id] = Repeat("Data", n) \o last
                 /\ last = <<>> <=> flights[id].sched \notin o.answered \cup o.dropped
<1> DEFINE r == flights[id].sched
<1>1. sent'[id] = IF id \notin Scheduled THEN <<>>
                  ELSE Repeat("Data", o.tokens[r]) \o
                       (IF r \in o.answered THEN <<"Done">>
                        ELSE IF r \in o.dropped THEN <<"Failed">> ELSE <<>>)
  BY DEF Harvest
<1>2. id \in Scheduled => r \in Requests
  BY FlightSets DEF Flight
<1>3. <<"Done">> # <<>> /\ <<"Failed">> # <<>>
  OBVIOUS
<1> HIDE DEF r
<1>4. CASE id \in Scheduled
  <2>1. o.tokens[r] \in Nat /\ r \in Requests
    BY <1>2, <1>4
  <2>2. PICK last \in {<<>>, <<"Done">>, <<"Failed">>} :
          /\ sent'[id] = Repeat("Data", o.tokens[r]) \o last
          /\ last = <<>> <=> r \notin o.answered \cup o.dropped
    BY <1>1, <1>3, <1>4
  <2>3. QED
    BY <2>1, <2>2, <1>4 DEF r
<1>5. QED
  BY <1>1, <1>4

LEMMA RepeatType ==
  ASSUME NEW n \in Nat
  PROVE  /\ Repeat("Data", n) \in Seq({"Data"}) /\ Len(Repeat("Data", n)) = n
         /\ \A i \in 1..n : Repeat("Data", n)[i] = "Data"
BY DEF Repeat

LEMMA PumpCloses ==
  ASSUME IInv, Pump
  PROVE  IInv'
<1> USE IInvParts, MuxAssumption
<1>1. PICK o \in PumpOutcomes : Pumped(o) /\ Harvest(o.tokens, o.answered, o.dropped)
  BY DEF Pump
<1>2. /\ Polling /\ turn' = "Command" /\ UNCHANGED <<pending, direct, taken, eof, ended>>
  BY DEF Pump
<1>3. /\ PumpInv' /\ OutcomeOK(o) /\ Accepted' = Accepted \ (o.answered \cup o.dropped)
      /\ \A s \in Slots : holders'[s] \subseteq holders[s]
  BY <1>1, PumpedKeeps
<1> DEFINE ended_ == o.answered \cup o.dropped
           over == {id \in Scheduled : flights[id].sched \in ended_}
<1>4. over \subseteq Ids /\ Scheduled \subseteq Ids
  BY DEF Scheduled, InFlight
<1>5. flights' = [id \in Ids |-> IF id \in over THEN NoFlight ELSE flights[id]]
      /\ jobImage' = jobImage \ ended_
  BY <1>1 DEF Harvest
<1>6. /\ flights' \in [Ids -> Flight]
      /\ \A id \in over : flights'[id] = NoFlight
      /\ \A id \in Ids \ over : flights'[id] = flights[id]
  BY <1>4, <1>5, NoFlightType
<1>7. sent' \in [Ids -> Seq(FrameKinds)]
  <2>1. ASSUME NEW id \in Ids PROVE sent'[id] \in Seq(FrameKinds)
    <3>1. CASE id \notin Scheduled
      BY <3>1, <1>1 DEF Harvest
    <3>2. CASE id \in Scheduled
      <4>1. o.tokens \in [Requests -> Nat]
        BY <1>3 DEF OutcomeOK
      <4>a. /\ Harvest(o.tokens, o.answered, o.dropped)
            /\ flights \in [Ids -> Flight]
        BY <1>1
      <4>c. \/ id \notin Scheduled /\ sent'[id] = <<>>
            \/ /\ id \in Scheduled /\ flights[id].sched \in Requests
               /\ \E n \in Nat, last \in {<<>>, <<"Done">>, <<"Failed">>} :
                    /\ sent'[id] = Repeat("Data", n) \o last
                    /\ last = <<>> <=> flights[id].sched \notin o.answered \cup o.dropped
        BY <4>1, <4>a, HarvestSays
      <4>2. PICK n \in Nat, last \in {<<>>, <<"Done">>, <<"Failed">>} :
              sent'[id] = Repeat("Data", n) \o last
        BY <3>2, <4>c
      <4>3. Repeat("Data", n) \in Seq(FrameKinds)
        BY RepeatType DEF FrameKinds
      <4>b. <<"Done">> \in Seq(FrameKinds) /\ <<"Failed">> \in Seq(FrameKinds)
        BY DEF FrameKinds
      <4>4. last \in Seq(FrameKinds)
        <5>1. <<>> \in Seq(FrameKinds)
          OBVIOUS
        <5>2. QED
          BY <4>b, <5>1, Zenon
      <4>5. QED
        BY <4>2, <4>3, <4>4
    <3>3. QED
      BY <3>1, <3>2
  <2>2. DOMAIN sent' = Ids /\ sent' = [id \in Ids |-> sent'[id]]
    BY <1>1 DEF Harvest
  <2>3. QED
    BY <2>1, <2>2
<1>8. TypeOK'
  BY <1>2, <1>3, <1>5, <1>6, <1>7 DEF TypeOK, PumpInv
<1>9. \A id \in Scheduled : id \in over <=> flights[id].sched \in ended_
  OBVIOUS
<1>10. ~direct.on /\ direct' = direct /\ taken' = taken /\ UNCHANGED ended
  BY <1>2 DEF Polling
<1> HIDE DEF over, ended_
<1>11. Accepted' = Accepted \ ended_
  BY <1>3 DEF ended_
<1>12. QED
  BY <1>3, <1>4, <1>5, <1>6, <1>8, <1>9, <1>10, <1>11, Closes
-----------------------------------------------------------------------------
LEMMA NextInv == IInv /\ [Next]_vars => IInv'
<1> SUFFICES ASSUME IInv, [Next]_vars PROVE IInv'
  OBVIOUS
<1>1. ASSUME NEW id \in Ids,
             Refuse(id) \/ Image(id) \/ EndOfInput(id) \/ \E s \in Slots : SubmitQueueFull(id, s)
      PROVE  IInv'
  BY <1>1, CommandsAlone
<1>2. ASSUME DirectToken \/ Exit PROVE IInv'
  <2>1. PICK id \in Ids : TRUE
    BY MuxAssumption
  <2>2. QED
    BY <1>2, <2>1, CommandsAlone
<1>3. ASSUME NEW id \in Ids, Stop(id) PROVE IInv'
  BY <1>3, StopAlone
<1>4. ASSUME NEW id \in Ids, Cancel(id) PROVE IInv'
  BY <1>4, CancelCloses
<1>5. ASSUME NEW id \in Ids, NEW s \in Slots, SubmitDirect(id, s) PROVE IInv'
  BY <1>5, OpensDirect
<1>6. ASSUME NEW id \in Ids, NEW s \in Slots, NEW r \in Requests, SubmitScheduled(id, s, r)
      PROVE  IInv'
  BY <1>6, OpensScheduled
<1>7. ASSUME DirectEnds PROVE IInv'
  BY <1>7, DirectCloses
<1>8. ASSUME Pump PROVE IInv'
  BY <1>8, PumpCloses
<1>9. ASSUME UNCHANGED vars PROVE IInv'
  <2>1. UNCHANGED <<pumpVars, muxVars>>
    BY <1>9 DEF vars
  <2>2. PumpInv' /\ Accepted' = Accepted /\ UNCHANGED holders
    BY <2>1, IInvParts, PumpIdle
  <2>3. TypeOK'
    BY <2>1, <2>2, IInvParts DEF muxVars, TypeOK, PumpInv
  <2>4. QED
    BY <2>1, <2>2, <2>3, FlightsAlone DEF muxVars
<1>10. QED
  BY <1>1, <1>2, <1>3, <1>4, <1>5, <1>6, <1>7, <1>8, <1>9 DEF Next, Command, Work

(* The inductive invariant holds in every reachable state. *)
THEOREM Invariant == Spec => []IInv
<1>1. QED
  BY InitInv, NextInv, PTL DEF Spec

(* Every variable of the mux keeps its type. *)
THEOREM TypeCorrect == Spec => []TypeOK
<1>1. IInv => TypeOK
  BY DEF IInv
<1>2. QED
  BY <1>1, Invariant, PTL

(* Every unfinished job of the scheduler has exactly one flight, every        *)
(* scheduled flight an unfinished job, and none is left when run() returns.   *)
THEOREM JobsAndFlights == Spec => []JobsHaveFlights
<1>1. IInv => JobsHaveFlights
  BY IInvHasFlights
<1>2. QED
  BY <1>1, Invariant, PTL

(* A job whose GenParams point into a flight's image is over before the       *)
(* flight is forgotten.                                                      *)
THEOREM ImagesOutliveJobs == Spec => []ImageOutlivesJob
<1>1. IInv => ImageOutlivesJob
  BY DEF IInv
<1>2. QED
  BY <1>1, Invariant, PTL

(* The conversation slot of a direct generation is given back however it      *)
(* ends, and never shared with a scheduled job.                              *)
THEOREM DirectSlotsAreGivenBack == Spec => []SlotsGivenBack
<1>1. IInv => SlotsGivenBack
  BY DEF IInv
<1>2. QED
  BY <1>1, Invariant, PTL
-----------------------------------------------------------------------------
(* What one step sends.  One frame, about one id, and nothing about others.   *)
LEMMA SaidOnly ==
  ASSUME NEW id \in Ids, NEW frame \in FrameKinds, Say(id, frame)
  PROVE  /\ sent'[id] = <<frame>>
         /\ \A i \in Ids \ {id} : sent'[i] = <<>>
BY DEF Say, Silence

LEMMA SilentStep == ASSUME sent' = Silence PROVE \A i \in Ids : sent'[i] = <<>>
BY DEF Silence

(* A frame that changes no flight, or the one that opens or closes one.       *)
LEMMA LegalFrame ==
  ASSUME NEW id \in Ids, NEW frame \in FrameKinds, Say(id, frame),
         \A i \in Ids \ {id} : i \in InFlight' <=> i \in InFlight,
         \/ frame = "Refused" /\ (id \in InFlight' <=> id \in InFlight)
         \/ frame = "Data" /\ id \in InFlight /\ id \in InFlight'
         \/ frame = "Accept" /\ id \notin InFlight /\ id \in InFlight'
         \/ frame \in {"Done", "Cancelled", "Failed"} /\ id \in InFlight /\ id \notin InFlight'
  PROVE  Promised!WireNext
<1> SUFFICES ASSUME NEW i \in Ids
             PROVE  Promised!Legal(i \in InFlight, sent'[i], i \in InFlight')
  BY DEF Promised!WireNext
<1>1. CASE i = id
  <2>1. sent'[i] = <<frame>>
    BY <1>1, SaidOnly
  <2>2. /\ DOMAIN sent'[i] = {1} /\ Len(sent'[i]) = 1 /\ sent'[i][1] = frame
        /\ sent'[i] # <<>> /\ 1..Len(sent'[i]) - 1 = {}
    BY <2>1
  <2>3. CASE frame = "Refused"
    BY <1>1, <2>2, <2>3 DEF Promised!Legal, Promised!Quiet, Promised!Streams
  <2>4. CASE frame = "Data"
    BY <1>1, <2>2, <2>4 DEF Promised!Legal, Promised!Streams
  <2>5. CASE frame = "Accept"
    BY <1>1, <2>1, <2>5 DEF Promised!Legal
  <2>6. CASE frame \in {"Done", "Cancelled", "Failed"}
    <3>1. Promised!EndsIn(sent'[i])
      BY <2>2, <2>6 DEF Promised!EndsIn, Promised!Ends
    <3>2. i \in InFlight /\ i \notin InFlight'
      BY <1>1, <2>6
    <3>3. QED
      BY <3>1, <3>2 DEF Promised!Legal
  <2>7. QED
    BY <2>3, <2>4, <2>5, <2>6
<1>2. CASE i # id
  <2>1. sent'[i] = <<>> /\ (i \in InFlight' <=> i \in InFlight)
    BY <1>2, SaidOnly
  <2>2. QED
    BY <2>1 DEF Promised!Legal, Promised!Quiet, Promised!Streams
<1>3. QED
  BY <1>1, <1>2

LEMMA LegalSilence ==
  ASSUME sent' = Silence, InFlight' = InFlight
  PROVE  Promised!WireNext
BY SilentStep DEF Promised!WireNext, Promised!Legal, Promised!Quiet, Promised!Streams

(* The frames of a pump for one id.                                           *)
LEMMA LegalTokens ==
  ASSUME NEW n \in Nat, NEW last \in {<<>>, <<"Done">>, <<"Failed">>}
  PROVE  /\ last = <<>> => Promised!Streams(Repeat("Data", n) \o last)
         /\ last # <<>> => Promised!EndsIn(Repeat("Data", n) \o last)
<1> DEFINE rep == Repeat("Data", n)
<1>1. rep \in Seq({"Data"}) /\ Len(rep) = n /\ \A i \in 1..n : rep[i] = "Data"
  BY RepeatType
<1> HIDE DEF rep
<1>2. ASSUME last = <<>> PROVE Promised!Streams(rep \o last)
  <2>1. rep \o last = rep
    BY <1>1, <1>2
  <2>2. QED
    BY <1>1, <1>2, <2>1 DEF Promised!Streams
<1>3. ASSUME NEW frame \in {"Done", "Failed"}, last = <<frame>>
      PROVE  Promised!EndsIn(rep \o last) /\ last # <<>>
  <2>1. /\ Len(rep \o last) = n + 1 /\ (rep \o last)[n + 1] = frame
        /\ \A i \in 1..n : (rep \o last)[i] = "Data"
    BY <1>1, <1>3
  <2>2. rep \o last # <<>>
    BY <2>1
  <2>3. QED
    BY <1>3, <2>1, <2>2 DEF Promised!EndsIn, Promised!Ends
<1>4. last # <<>> => \E frame \in {"Done", "Failed"} : last = <<frame>>
  OBVIOUS
<1>5. last # <<>> => Promised!EndsIn(rep \o last)
  BY <1>3, <1>4
<1>6. QED
  BY <1>2, <1>5 DEF rep

LEMMA PumpIsLegal == ASSUME IInv, Pump PROVE Promised!WireNext
<1> USE IInvParts
<1>1. PICK o \in PumpOutcomes : Pumped(o) /\ Harvest(o.tokens, o.answered, o.dropped)
  BY DEF Pump
<1>2. o.tokens \in [Requests -> Nat]
  BY <1>1, PumpedKeeps DEF OutcomeOK
<1> SUFFICES ASSUME NEW id \in Ids
             PROVE  Promised!Legal(id \in InFlight, sent'[id], id \in InFlight')
  BY DEF Promised!WireNext
<1>3. flights'[id] = IF id \in Scheduled /\ flights[id].sched \in o.answered \cup o.dropped
                     THEN NoFlight ELSE flights[id]
  BY <1>1 DEF Harvest
<1>4. /\ Harvest(o.tokens, o.answered, o.dropped)
      /\ flights \in [Ids -> Flight]
  BY <1>1
<1>5. \/ id \notin Scheduled /\ sent'[id] = <<>>
      \/ /\ id \in Scheduled /\ flights[id].sched \in Requests
         /\ \E n \in Nat, last \in {<<>>, <<"Done">>, <<"Failed">>} :
              /\ sent'[id] = Repeat("Data", n) \o last
              /\ last = <<>> <=> flights[id].sched \notin o.answered \cup o.dropped
  BY <1>2, <1>4, HarvestSays
<1>6. CASE id \notin Scheduled
  <2>1. sent'[id] = <<>> /\ (id \in InFlight' <=> id \in InFlight)
    BY <1>3, <1>5, <1>6 DEF InFlight
  <2>2. QED
    BY <2>1 DEF Promised!Legal, Promised!Quiet, Promised!Streams
<1>7. CASE id \in Scheduled
  <2>1. PICK n \in Nat, last \in {<<>>, <<"Done">>, <<"Failed">>} :
          /\ sent'[id] = Repeat("Data", n) \o last
          /\ last = <<>> <=> flights[id].sched \notin o.answered \cup o.dropped
    BY <1>5, <1>7
  <2>2. id \in InFlight /\ (id \in InFlight' <=> last = <<>>)
    BY <1>3, <1>7, <2>1, NoFlightType DEF Scheduled, InFlight
  <2>3. /\ last = <<>> => Promised!Streams(sent'[id])
        /\ last # <<>> => Promised!EndsIn(sent'[id])
    BY <2>1, LegalTokens
  <2>4. QED
    BY <2>2, <2>3 DEF Promised!Legal
<1>8. QED
  BY <1>6, <1>7

LEMMA StepIsLegal == ASSUME IInv, Next PROVE Promised!WireNext
<1> USE IInvParts
<1>1. ASSUME NEW id \in Ids,
             \/ Refuse(id) \/ Image(id) \/ EndOfInput(id) \/ Stop(id) \/ Exit
             \/ \E s \in Slots : SubmitQueueFull(id, s)
      PROVE  Promised!WireNext
  <2>1. UNCHANGED flights
    BY <1>1 DEF Refuse, Image, EndOfInput, Stop, Exit, SubmitQueueFull
  <2>2. InFlight' = InFlight
    BY <2>1 DEF InFlight
  <2>3. sent' = Silence \/ Say(id, "Refused")
    BY <1>1 DEF Refuse, Image, EndOfInput, Stop, Exit, SubmitQueueFull
  <2>4. QED
    BY <2>2, <2>3, LegalSilence, LegalFrame DEF FrameKinds
<1>2. ASSUME DirectToken PROVE Promised!WireNext
  <2>1. UNCHANGED flights /\ direct.on /\ direct.id \in Ids
        /\ (sent' = Silence \/ Say(direct.id, "Data"))
    BY <1>2 DEF DirectToken
  <2>2. InFlight' = InFlight
    BY <2>1 DEF InFlight
  <2>3. PICK id \in Ids : id = direct.id
    BY <2>1
  <2>4. id \in InFlight
    BY <2>1, <2>3 DEF IInv, DirectHasFlight
  <2>5. sent' = Silence \/ Say(id, "Data")
    BY <2>1, <2>3
  <2>6. QED
    BY <2>2, <2>4, <2>5, LegalSilence, LegalFrame DEF FrameKinds
<1>3. ASSUME NEW id \in Ids, NEW new \in Flight, new.live, id \notin InFlight,
             flights' = [flights EXCEPT ![id] = new], Say(id, "Accept")
      PROVE  Promised!WireNext
  <2>1. InFlight' = InFlight \cup {id}
    BY <1>3 DEF InFlight
  <2>2. QED
    BY <1>3, <2>1, LegalFrame DEF FrameKinds
<1>4. ASSUME NEW id \in Ids, NEW s \in Slots, NEW r \in Requests, SubmitScheduled(id, s, r)
      PROVE  Promised!WireNext
  <2> DEFINE new == [sched |-> r, live |-> TRUE, cancelled |-> FALSE, image |-> id \in pending]
  <2>1. new \in Flight /\ new.live
    BY DEF Flight
  <2>2. id \notin InFlight /\ flights' = [flights EXCEPT ![id] = new] /\ Say(id, "Accept")
    BY <1>4 DEF SubmitScheduled
  <2> HIDE DEF new
  <2>3. QED
    BY <1>3, <2>1, <2>2
<1>5. ASSUME NEW id \in Ids, NEW s \in Slots, SubmitDirect(id, s)
      PROVE  Promised!WireNext
  <2> DEFINE new == [sched |-> NoRequest, live |-> TRUE, cancelled |-> FALSE,
                     image |-> id \in pending]
  <2>1. new \in Flight /\ new.live
    BY DEF Flight
  <2>2. id \notin InFlight /\ flights' = [flights EXCEPT ![id] = new] /\ Say(id, "Accept")
    BY <1>5 DEF SubmitDirect
  <2> HIDE DEF new
  <2>3. QED
    BY <1>3, <2>1, <2>2
<1>6. ASSUME NEW id \in Ids, NEW frame \in {"Done", "Cancelled", "Failed"}, id \in InFlight,
             flights' = [flights EXCEPT ![id] = NoFlight], Say(id, frame)
      PROVE  Promised!WireNext
  <2>1. InFlight' = InFlight \ {id}
    BY <1>6, NoFlightType DEF InFlight
  <2>2. frame \in FrameKinds
    BY DEF FrameKinds
  <2>3. QED
    BY <1>6, <2>1, <2>2, LegalFrame
<1>7. ASSUME NEW id \in Ids, Cancel(id) PROVE Promised!WireNext
  <2>1. CASE id \in Scheduled
    BY <1>6, <1>7, <2>1 DEF Cancel
  <2>2. CASE id \notin Scheduled
    <3>1. flights' = [flights EXCEPT ![id].cancelled = TRUE] /\ sent' = Silence
      BY <1>7, <2>2 DEF Cancel
    <3>2. \A i \in Ids : flights'[i].live = flights[i].live
      BY <3>1 DEF Flight
    <3>3. InFlight' = InFlight
      BY <3>2 DEF InFlight
    <3>4. QED
      BY <3>1, <3>3, LegalSilence
  <2>3. QED
    BY <2>1, <2>2
<1>8. ASSUME DirectEnds PROVE Promised!WireNext
  <2>1. PICK id \in Ids : id = direct.id
    OBVIOUS
  <2>2. id \in InFlight
    BY <1>8, <2>1 DEF IInv, DirectHasFlight, DirectEnds
  <2>3. flights' = [flights EXCEPT ![id] = NoFlight]
        /\ \E frame \in {"Done", "Cancelled", "Failed"} : Say(id, frame)
    BY <1>8, <2>1 DEF DirectEnds
  <2>4. QED
    BY <1>6, <2>2, <2>3
<1>9. ASSUME Exit PROVE Promised!WireNext
  <2>1. PICK id \in Ids : TRUE
    BY MuxAssumption
  <2>2. QED
    BY <1>1, <1>9, <2>1
<1>10. QED
  BY <1>1, <1>2, <1>4, <1>5, <1>7, <1>8, <1>9, PumpIsLegal DEF Next, Command, Work

(* What the mux sends is what MuxProtocol promises: it implements it, with    *)
(* the flights as the open requests.                                         *)
THEOREM Protocol == Spec => KeepsProtocol
<1>1. Init => Promised!WireInit
  <2> SUFFICES ASSUME Init PROVE Promised!WireInit
    OBVIOUS
  <2>1. InFlight = {}
    BY NoFlightType DEF Init, InFlight
  <2>2. QED
    BY <2>1 DEF Init, Silence, Promised!WireInit
<1>2. IInv /\ [Next]_vars => [Promised!WireNext]_Promised!wire
  <2> SUFFICES ASSUME IInv, [Next]_vars PROVE [Promised!WireNext]_Promised!wire
    OBVIOUS
  <2>1. CASE Next
    BY <2>1, StepIsLegal
  <2>2. CASE UNCHANGED vars
    BY <2>2 DEF vars, muxVars, Promised!wire, InFlight
  <2>3. QED
    BY <2>1, <2>2
<1>3. QED
  BY <1>1, <1>2, Invariant, PTL DEF Spec, KeepsProtocol, Promised!WireSpec

(* After the CANCEL of a generation no token of it is sent, whatever is       *)
(* handled between its tokens.                                               *)
THEOREM NoDataAfterCancel == Spec => CancelledIsSilent
<1> DEFINE Silent == \A id \in Ids : flights[id].cancelled =>
                       \A i \in DOMAIN sent'[id] : sent'[id][i] # "Data"
<1>1. IInv /\ Next => Silent
  <2> SUFFICES ASSUME IInv, Next, NEW id \in Ids, flights[id].cancelled
               PROVE  \A i \in DOMAIN sent'[id] : sent'[id][i] # "Data"
    OBVIOUS
  <2> USE IInvParts
  <2>1. id \notin Scheduled /\ direct.on /\ direct.id = id
    BY DEF IInv, CancelledAreDirect, DirectHasFlight
  <2>2. CASE Pump
    <3>1. sent'[id] = <<>>
      BY <2>1, <2>2 DEF Pump, Harvest
    <3>2. QED
      BY <3>1
  <2>3. CASE ~Pump
    <3>1. \/ sent' = Silence
          \/ \E i \in Ids, frame \in FrameKinds \ {"Data"} : Say(i, frame)
      <4>1. CASE Command
        BY <4>1 DEF Command, Refuse, Image, Stop, Cancel, EndOfInput, SubmitDirect,
                    SubmitQueueFull, SubmitScheduled, FrameKinds
      <4>2. CASE DirectToken
        BY <2>1, <4>2 DEF DirectToken
      <4>3. CASE DirectEnds \/ Exit
        BY <4>3 DEF DirectEnds, Exit, FrameKinds
      <4>4. QED
        BY <2>3, <4>1, <4>2, <4>3 DEF Next, Work
    <3>2. sent'[id] = <<>> \/ \E frame \in FrameKinds \ {"Data"} : sent'[id] = <<frame>>
      BY <3>1, SilentStep, SaidOnly
    <3>3. QED
      BY <3>2
  <2>4. QED
    BY <2>2, <2>3
<1>2. IInv /\ [Next]_vars => [Silent]_vars
  BY <1>1
<1>3. QED
  BY <1>2, Invariant, PTL DEF Spec, CancelledIsSilent

(* A stashed image stays until a SUBMIT of its id is accepted, and goes into  *)
(* that flight.                                                              *)
THEOREM StashIsKept == Spec => StashKept
<1> DEFINE Kept == \A id \in pending : \/ id \in pending'
                                       \/ /\ id \notin InFlight /\ id \in InFlight'
                                          /\ flights'[id].image
<1>1. IInv /\ Next => Kept
  <2> SUFFICES ASSUME IInv, Next PROVE Kept
    OBVIOUS
  <2> USE IInvParts
  <2>1. ASSUME NEW i \in Ids, NEW new \in Flight, new.live, new.image = (i \in pending),
               i \notin InFlight, flights' = [flights EXCEPT ![i] = new],
               pending' = pending \ {i}
        PROVE  Kept
    BY <2>1 DEF InFlight
  <2>2. ASSUME NEW i \in Ids, NEW s \in Slots, NEW r \in Requests, SubmitScheduled(i, s, r)
        PROVE  Kept
    <3> DEFINE new == [sched |-> r, live |-> TRUE, cancelled |-> FALSE, image |-> i \in pending]
    <3>1. new \in Flight /\ new.live /\ new.image = (i \in pending)
      BY DEF Flight
    <3>2. i \notin InFlight /\ flights' = [flights EXCEPT ![i] = new] /\ pending' = pending \ {i}
      BY <2>2 DEF SubmitScheduled
    <3> HIDE DEF new, Kept
    <3>3. QED
      BY <2>1, <3>1, <3>2
  <2>3. ASSUME NEW i \in Ids, NEW s \in Slots, SubmitDirect(i, s)
        PROVE  Kept
    <3> DEFINE new == [sched |-> NoRequest, live |-> TRUE, cancelled |-> FALSE,
                       image |-> i \in pending]
    <3>1. new \in Flight /\ new.live /\ new.image = (i \in pending)
      BY DEF Flight
    <3>2. i \notin InFlight /\ flights' = [flights EXCEPT ![i] = new] /\ pending' = pending \ {i}
      BY <2>3 DEF SubmitDirect
    <3> HIDE DEF new, Kept
    <3>3. QED
      BY <2>1, <3>1, <3>2
  <2>4. ASSUME pending \subseteq pending' PROVE Kept
    BY <2>4
  <2>5. QED
    BY <2>2, <2>3, <2>4
    DEF Next, Command, Work, Refuse, Image, Stop, Cancel, EndOfInput, SubmitQueueFull,
        DirectToken, DirectEnds, Pump, Exit
<1>2. IInv /\ [Next]_vars => [Kept]_vars
  BY <1>1
<1>3. QED
  BY <1>2, Invariant, PTL DEF Spec, StashKept
=============================================================================
