--------------------------------- MODULE Mux ---------------------------------
(***************************************************************************)
(* The mux (src/serve/mux_stdio.cpp): commands framed on stdin, answers on *)
(* stdout, one process and one thread.  With several conversation slots a  *)
(* SUBMIT goes to the batch scheduler and run() alternates between one     *)
(* command and one pump; a K3CHAT1 prompt, or any prompt when there is one *)
(* slot, is generated directly, inside the handling of its SUBMIT, and     *)
(* reads further commands between tokens, from its on_token callback.      *)
(*                                                                         *)
(* The scheduler is that of PumpedSlots.  Commands arrive whole: the mux   *)
(* blocks inside a command that has only begun to arrive.                  *)
(***************************************************************************)
EXTENDS PumpedSlots

CONSTANTS Ids,       \* ids the client uses
          NoRequest

ASSUME MuxAssumption == NoRequest \notin Requests /\ Ids # {} /\ Slots # {}

VARIABLES flights,     \* Flight of an id, or NoFlight; an image is told by its id
          pending,     \* pending_images: ids with a stashed image
          jobImage,    \* requests whose GenParams point into a flight's image
          direct,      \* generating: the id, or none; tokens left; inside on_token
          taken,       \* conversation slots acquired by direct generations
          turn,        \* of run(): "Command" or "Pump"
          eof, ended,
          sent         \* frames of the last step, by id

muxVars == <<flights, pending, jobImage, direct, taken, turn, eof, ended, sent>>
vars == <<pumpVars, muxVars>>

NoFlight == [sched |-> NoRequest, live |-> FALSE, cancelled |-> FALSE, image |-> FALSE]
Flight == [sched : Requests \cup {NoRequest}, live : BOOLEAN, cancelled : BOOLEAN,
           image : BOOLEAN]
NoDirect == [on |-> FALSE, id |-> CHOOSE id \in Ids : TRUE, slot |-> CHOOSE s \in Slots : TRUE,
             left |-> 0, polling |-> FALSE]
FrameKinds == {"Accept", "Data", "Refused", "Done", "Cancelled", "Failed"}

TypeOK == /\ PumpTypeOK
          /\ flights \in [Ids -> Flight]
          /\ pending \subseteq Ids /\ jobImage \subseteq Requests
          /\ direct \in [on : BOOLEAN, id : Ids, slot : Slots, left : 0..Budget,
                         polling : BOOLEAN]
          /\ taken \subseteq Slots
          /\ turn \in {"Command", "Pump"}
          /\ {eof, ended} \subseteq BOOLEAN
          /\ sent \in [Ids -> Seq(FrameKinds)]

Silence == [id \in Ids |-> <<>>]

Init == /\ PumpInit
        /\ flights = [id \in Ids |-> NoFlight]
        /\ pending = {} /\ jobImage = {} /\ taken = {}
        /\ direct = NoDirect
        /\ turn = "Command" /\ eof = FALSE /\ ended = FALSE
        /\ sent = Silence

InFlight == {id \in Ids : flights[id].live}
Scheduled == {id \in InFlight : flights[id].sched # NoRequest}
Say(id, frame) == sent' = [Silence EXCEPT ![id] = <<frame>>]
Busy(s) == holders[s] # {} \/ s \in taken

(* Commands are read by run(), or by poll_controls from inside on_token. *)
AtRun == ~ended /\ ~eof /\ turn = "Command" /\ ~direct.on
InCallback == direct.on /\ direct.polling /\ ~eof
Reading == AtRun \/ InCallback
(* run() pumps after each command, if there is anything to pump. *)
AfterCommand(left) == turn' = IF ~direct.on /\ useSched /\ left # {} THEN "Pump" ELSE turn
-----------------------------------------------------------------------------
(* Operators named with an underscore and a word are faulty variants of the   *)
(* operation that follows them: PROJECT.json names the property each breaks.  *)

(* A malformed command, a STOP or CANCEL of an unknown id, or a SUBMIT that   *)
(* on_submit turns down before it touches anything.                          *)
Refuse(id) ==
  /\ Reading
  /\ Say(id, "Refused")
  /\ AfterCommand(InFlight)
  /\ UNCHANGED <<pumpVars, flights, pending, jobImage, direct, taken,
                 eof, ended>>

(* on_image: stashed for the next SUBMIT with that id; its ACCEPT opens no    *)
(* request.                                                                  *)
Image(id) ==
  /\ Reading /\ id \notin InFlight
  /\ pending' = pending \cup {id}
  /\ sent' = Silence
  /\ AfterCommand(InFlight)
  /\ UNCHANGED <<pumpVars, flights, jobImage, direct, taken, eof, ended>>

(* on_submit, for the scheduler. *)
SubmitScheduled(id, s, r) ==
  /\ AtRun /\ useSched /\ id \notin InFlight /\ ~Busy(s)
  /\ ~QueueFull
  /\ Accept(r, s)
  /\ flights' = [flights EXCEPT ![id] = [sched |-> r, live |-> TRUE, cancelled |-> FALSE,
                                         image |-> id \in pending]]
  /\ jobImage' = IF id \in pending THEN jobImage \cup {r} ELSE jobImage
  /\ pending' = pending \ {id}
  /\ Say(id, "Accept")
  /\ turn' = "Pump"
  /\ UNCHANGED <<runtime, todo, direct, taken, eof, ended>>

SubmitQueueFull_DropsImage(id, s) ==
  /\ AtRun /\ useSched /\ id \notin InFlight /\ ~Busy(s)
  /\ QueueFull
  /\ pending' = pending \ {id}
  /\ Say(id, "Refused")
  /\ AfterCommand(InFlight)
  /\ UNCHANGED <<pumpVars, flights, jobImage, direct, taken, eof, ended>>

(* "queue full": the image it had taken is stashed again. *)
SubmitQueueFull(id, s) ==
  /\ AtRun /\ useSched /\ id \notin InFlight /\ ~Busy(s)
  /\ QueueFull
  /\ Say(id, "Refused")
  /\ AfterCommand(InFlight)
  /\ UNCHANGED <<pumpVars, flights, pending, jobImage, direct, taken,
                 eof, ended>>

(* on_submit, direct: from here to DirectEnds the command is being handled. *)
SubmitDirect(id, s) ==
  /\ AtRun /\ id \notin InFlight /\ ~Busy(s)
  /\ taken' = taken \cup {s}
  /\ flights' = [flights EXCEPT ![id] = [sched |-> NoRequest, live |-> TRUE,
                                         cancelled |-> FALSE, image |-> id \in pending]]
  /\ pending' = pending \ {id}
  /\ direct' = [on |-> TRUE, id |-> id, slot |-> s, left |-> Budget, polling |-> FALSE]
  /\ Say(id, "Accept")
  /\ UNCHANGED <<pumpVars, jobImage, turn, eof, ended>>

(* on_stop; a direct generation cannot be stopped. *)
Stop(id) ==
  /\ Reading /\ id \in InFlight
  /\ LET r == flights[id].sched
     IN IF id \in Scheduled /\ phase[r] \in {"Waiting", "Active"} THEN AskToStop(r)
        ELSE UNCHANGED abstractVars
  /\ sent' = Silence
  /\ AfterCommand(InFlight)
  /\ UNCHANGED <<runtime, todo, flights, pending, jobImage, direct, taken, eof, ended>>

Cancel_AnswersAtOnce(id) ==
  /\ Reading /\ id \in InFlight
  /\ IF id \in Scheduled THEN CancelJob(flights[id].sched) ELSE UNCHANGED pumpVars
  /\ flights' = [flights EXCEPT ![id] = NoFlight]
  /\ jobImage' = jobImage \ {flights[id].sched}
  /\ Say(id, "Cancelled")
  /\ AfterCommand(InFlight \ {id})
  /\ UNCHANGED <<pending, direct, taken, eof, ended>>

Cancel_ForgetsOnly(id) ==
  /\ Reading /\ id \in InFlight
  /\ UNCHANGED <<pumpVars, jobImage>>
  /\ IF id \in Scheduled
     THEN /\ flights' = [flights EXCEPT ![id] = NoFlight]
          /\ Say(id, "Cancelled") /\ AfterCommand(InFlight \ {id})
     ELSE /\ flights' = [flights EXCEPT ![id].cancelled = TRUE]
          /\ sent' = Silence /\ UNCHANGED turn
  /\ UNCHANGED <<pending, direct, taken, eof, ended>>

(* on_cancel: the scheduler drops the job at once; the answer to a direct     *)
(* generation waits until it has returned.                                   *)
Cancel(id) ==
  /\ Reading /\ id \in InFlight
  /\ IF id \in Scheduled
     THEN /\ CancelJob(flights[id].sched)
          /\ flights' = [flights EXCEPT ![id] = NoFlight]
          /\ jobImage' = jobImage \ {flights[id].sched}
          /\ Say(id, "Cancelled") /\ AfterCommand(InFlight \ {id})
     ELSE /\ flights' = [flights EXCEPT ![id].cancelled = TRUE]
          /\ sent' = Silence /\ UNCHANGED <<pumpVars, jobImage, turn>>
  /\ UNCHANGED <<pending, direct, taken, eof, ended>>

(* End of input, between commands or inside one: nothing more is read. *)
EndOfInput(id) ==
  /\ Reading
  /\ eof' = TRUE
  /\ Say(id, "Refused") \/ sent' = Silence
  /\ AfterCommand(InFlight)
  /\ UNCHANGED <<pumpVars, flights, pending, jobImage, direct, taken, ended>>
-----------------------------------------------------------------------------
(* The direct generation. *)

DirectToken_EvenIfCancelled ==
  /\ direct.on /\ direct.left > 0
  /\ direct' = [direct EXCEPT !.left = @ - 1, !.polling = TRUE]
  /\ Say(direct.id, "Data")
  /\ UNCHANGED <<pumpVars, flights, pending, jobImage, taken, turn, eof,
                 ended>>

(* on_token: it says nothing, and reads nothing, once the flight is cancelled. *)
DirectToken ==
  LET mute == flights[direct.id].cancelled
  IN /\ direct.on /\ direct.left > 0
     /\ direct' = [direct EXCEPT !.left = @ - 1, !.polling = ~mute]
     /\ IF mute THEN sent' = Silence ELSE Say(direct.id, "Data")
     /\ UNCHANGED <<pumpVars, flights, pending, jobImage, taken, turn, eof,
                    ended>>

(* generate returns, early or with its budget used up. *)
DirectEnds ==
  LET id == direct.id
  IN /\ direct.on
     /\ taken' = taken \ {direct.slot}
     /\ direct' = NoDirect
     /\ flights' = [flights EXCEPT ![id] = NoFlight]
     /\ IF flights[id].cancelled THEN Say(id, "Cancelled")
        ELSE Say(id, "Done") \/ Say(id, "Failed")
     /\ turn' = IF useSched /\ InFlight # {id} THEN "Pump" ELSE "Command"
     /\ UNCHANGED <<pumpVars, pending, jobImage, eof, ended>>
-----------------------------------------------------------------------------
(* pump and harvest: every flight whose job is over gets its last frame. *)

Repeat(frame, n) == [i \in 1..n |-> frame]

(* What is sent when the requests of tokens get that many of them, those of   *)
(* answered are done and those of dropped have failed.                       *)
Harvest_OnlyAnswered(tokens, answered, dropped) ==
  /\ sent' = [id \in Ids |->
       IF id \notin Scheduled THEN <<>>
       ELSE LET r == flights[id].sched
            IN Repeat("Data", tokens[r]) \o
               (IF r \in answered THEN <<"Done">> ELSE <<>>)]
  /\ flights' = [id \in Ids |-> IF id \in Scheduled /\ flights[id].sched \in answered
                                THEN NoFlight ELSE flights[id]]
  /\ jobImage' = jobImage \ (answered \cup dropped)

Harvest(tokens, answered, dropped) ==
  /\ sent' = [id \in Ids |->
       IF id \notin Scheduled THEN <<>>
       ELSE LET r == flights[id].sched
            IN Repeat("Data", tokens[r]) \o
               (IF r \in answered THEN <<"Done">>
                ELSE IF r \in dropped THEN <<"Failed">> ELSE <<>>)]
  /\ flights' = [id \in Ids |-> IF id \in Scheduled
                                   /\ flights[id].sched \in answered \cup dropped
                                THEN NoFlight ELSE flights[id]]
  /\ jobImage' = jobImage \ (answered \cup dropped)

Polling == useSched /\ InFlight # {} /\ ~direct.on

(* A turn of run() in which stdin has nothing to read has a pump only. *)
Pump ==
  /\ Polling /\ ~ended
  /\ \E o \in PumpOutcomes : Pumped(o) /\ Harvest(o.tokens, o.answered, o.dropped)
  /\ turn' = "Command"
  /\ UNCHANGED <<pending, direct, taken, eof, ended>>

(* run() returns. *)
Exit == /\ eof /\ InFlight = {} /\ ~ended
        /\ ended' = TRUE /\ sent' = Silence
        /\ UNCHANGED <<pumpVars, flights, pending, jobImage, direct,
                       taken, turn, eof>>
-----------------------------------------------------------------------------
Command == \E id \in Ids :
             \/ Refuse(id) \/ Image(id) \/ Stop(id) \/ Cancel(id) \/ EndOfInput(id)
             \/ \E s \in Slots : \/ SubmitDirect(id, s)
                                 \/ SubmitQueueFull(id, s)
                                 \/ \E r \in Requests : SubmitScheduled(id, s, r)
Work == DirectToken \/ DirectEnds \/ Pump \/ Exit

Next == Command \/ Work
Spec == Init /\ [][Next]_vars
(* The mux goes on with its work, and the client leaves it the time to: it    *)
(* does not send commands without end from inside a callback.                *)
FairSpec == Spec /\ WF_vars(Work)
-----------------------------------------------------------------------------
(* Every unfinished job of the scheduler has its flight and every flight its  *)
(* job: tokens are never sent under an id that was forgotten or given to      *)
(* another request, and when the last flight is gone no job is left behind.   *)
Client(r) == {id \in Scheduled : flights[id].sched = r}
JobsHaveFlights ==
  /\ \A r \in Accepted : \E id \in Ids : Client(r) = {id}
  /\ \A id \in Scheduled : flights[id].sched \in Accepted
  /\ ended => Accepted = {}

(* GenParams.image_rgb points into the flight: no unfinished job outlives the *)
(* flight it was submitted with.                                             *)
ImageOutlivesJob ==
  \A r \in jobImage : \E id \in Client(r) : flights[id].image

(* A conversation slot taken by a direct generation is given back however it  *)
(* ends, and is never held by a scheduled request at the same time.           *)
SlotsGivenBack == /\ taken = IF direct.on THEN {direct.slot} ELSE {}
                  /\ \A s \in taken : holders[s] = {}

(* A direct generation's flight is the one flight that is not scheduled.      *)
DirectHasFlight ==
  \A id \in Ids : id \in InFlight \ Scheduled <=> direct.on /\ id = direct.id

(* A stashed image is used by the one SUBMIT of its id that is accepted, and  *)
(* survives every SUBMIT that is refused.                                    *)
StashKept == [][\A id \in pending : \/ id \in pending'
                                    \/ /\ id \notin InFlight /\ id \in InFlight'
                                       /\ flights'[id].image]_vars

(* After a CANCEL the client gets no more data for that id. *)
CancelledIsSilent ==
  [][\A id \in Ids : flights[id].cancelled => \A i \in DOMAIN sent'[id] : sent'[id][i] # "Data"]_vars

(* At the end of input the mux answers its flights and returns. *)
DrainsAtEof == eof ~> ended

(* What a client sees is what the protocol promises. *)
Promised == INSTANCE MuxProtocol WITH open <- InFlight
KeepsProtocol == Promised!WireSpec
=============================================================================
