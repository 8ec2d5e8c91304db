-------------------------- MODULE ConversationSlots --------------------------
(***************************************************************************)
(* What the clients of the batch scheduler are promised, and nothing of    *)
(* how: a conversation slot is held by one request from the moment it is   *)
(* accepted until it is over, requests are started one at a time in the    *)
(* order of acceptance, and what a slot remembers of its conversation      *)
(* changes only when the request that holds it is over.                    *)
(***************************************************************************)
EXTENDS Naturals, Sequences

CONSTANTS Requests,  \* requests, numbered in the order of acceptance
          Slots,
          Tokens

VARIABLES phase,     \* of a request
          holders,   \* of a slot: the requests that hold it
          said       \* of a slot: the remembered conversation

abstractVars == <<phase, holders, said>>

Waiting == {r \in Requests : phase[r] = "Waiting"}
Accepted == {r \in Requests : phase[r] \in {"Waiting", "Active", "Stopping"}}

AbstractInit == /\ phase = [r \in Requests |-> "Unborn"]
                /\ holders = [s \in Slots |-> {}]
                /\ said = [s \in Slots |-> <<>>]

(* A request is accepted for a slot nobody holds. *)
Accept(r, s) ==
  /\ phase[r] = "Unborn"
  /\ \A q \in Requests : q < r => phase[q] # "Unborn"
  /\ holders[s] = {}
  /\ phase' = [phase EXCEPT ![r] = "Waiting"]
  /\ holders' = [holders EXCEPT ![s] = {r}]
  /\ UNCHANGED said

(* A client asks for an early end. *)
AskToStop(r) ==
  /\ phase[r] \in {"Waiting", "Active"}
  /\ phase' = [phase EXCEPT ![r] = "Stopping"]
  /\ UNCHANGED <<holders, said>>

(* A round of service: some requests are answered and some dropped; of those *)
(* that go on waiting the oldest may start; those asked to stop never start.  *)
(* Only an answered request changes what its slot remembers.                 *)
Serve(answered, dropped, started) ==
  LET over == answered \cup dropped
  IN /\ over \subseteq Accepted
     /\ started \subseteq {r \in Waiting \ over : \A q \in Waiting \ over : r <= q}
     /\ phase' = [r \in Requests |-> IF r \in answered THEN "Answered"
                                     ELSE IF r \in dropped THEN "Dropped"
                                     ELSE IF r \in started THEN "Active" ELSE phase[r]]
     /\ holders' = [s \in Slots |-> holders[s] \ over]
     /\ said' \in [Slots -> Seq(Tokens)]
     /\ \A s \in Slots : said'[s] # said[s] => holders[s] \cap answered # {}

AbstractNext ==
  \/ \E r \in Requests, s \in Slots : Accept(r, s)
  \/ \E r \in Requests : AskToStop(r)
  \/ \E answered, dropped, started \in SUBSET Requests : Serve(answered, dropped, started)

AbstractSpec == AbstractInit /\ [][AbstractNext]_abstractVars
=============================================================================
