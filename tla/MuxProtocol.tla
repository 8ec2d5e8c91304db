----------------------------- MODULE MuxProtocol -----------------------------
(***************************************************************************)
(* What a client of the mux sees on its stdout, and nothing of how: an id  *)
(* is opened by ACCEPT, may get DATA while it is open, and is closed by    *)
(* exactly one DONE or ERROR; an error that refuses a command says nothing *)
(* about the id it names.  Frames of different ids are not ordered.        *)
(***************************************************************************)
EXTENDS Naturals, Sequences

CONSTANT Ids

VARIABLES open,   \* the ids whose request is going on
          sent    \* the frames that name each id, in order, of the last step

wire == <<open, sent>>

Ends == {"Done", "Cancelled", "Failed"}
Frames == {"Accept", "Data", "Refused"} \cup Ends

(* What the frames sent for one id, in order, may be, and how they leave it.  *)
Quiet(frames) == \A i \in DOMAIN frames : frames[i] = "Refused"
Streams(frames) == \A i \in DOMAIN frames : frames[i] \in {"Data", "Refused"}
EndsIn(frames) == /\ frames # <<>> /\ frames[Len(frames)] \in Ends
                  /\ \A i \in 1..Len(frames) - 1 : frames[i] \in {"Data", "Refused"}
Legal(wasOpen, frames, isOpen) ==
  CASE wasOpen /\ isOpen  -> Streams(frames)
    [] wasOpen /\ ~isOpen -> EndsIn(frames)
    [] ~wasOpen /\ isOpen -> frames = <<"Accept">>
    [] OTHER              -> Quiet(frames)

WireInit == open = {} /\ sent = [id \in Ids |-> <<>>]
WireNext == \A id \in Ids : Legal(id \in open, sent'[id], id \in open')
WireSpec == WireInit /\ [][WireNext]_wire
=============================================================================
