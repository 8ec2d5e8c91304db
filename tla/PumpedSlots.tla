------------------------------ MODULE PumpedSlots ------------------------------
(***************************************************************************)
(* The batch scheduler as the mux and the HTTP handlers call it: what      *)
(* ConversationSlots promises, which BatchScheduler is shown to keep, with *)
(* max_queue, a token budget per request, so that requests end, and the    *)
(* calls of on_token in a pump.  What a slot remembers plays no part here. *)
(* With one conversation slot (kv_slots) nobody submits.                   *)
(***************************************************************************)
EXTENDS ConversationSlots, FiniteSets

CONSTANTS Budget,    \* max_tokens
          MaxQueue   \* bound of max_queue

ASSUME PumpAssumption == /\ Requests \subseteq Nat
                         /\ Budget \in Nat \ {0} /\ MaxQueue \in Nat \ {0}

VARIABLES runtime,   \* RuntimeConfig: several slots or one, max_queue
          todo       \* tokens a request may still get

pumpVars == <<abstractVars, runtime, todo>>

Phases == {"Unborn", "Waiting", "Active", "Stopping", "Answered", "Dropped"}
PumpTypeOK == /\ phase \in [Requests -> Phases]
              /\ holders \in [Slots -> SUBSET Requests]
              /\ runtime \in [useSched : BOOLEAN, maxQueue : 1..MaxQueue]
              /\ todo \in [Requests -> 0..Budget]

PumpInit == /\ AbstractInit
            /\ runtime \in [useSched : BOOLEAN, maxQueue : 1..MaxQueue]
            /\ todo = [r \in Requests |-> Budget]

useSched == runtime.useSched

Active == {r \in Requests : phase[r] = "Active"}
Stopping == {r \in Requests : phase[r] = "Stopping"}
QueueFull == Cardinality(Accepted) >= runtime.maxQueue

(* cancel: the job is over at once, unless it was over already. *)
CancelJob(r) == UNCHANGED <<said, runtime, todo>> /\ Serve({}, {r} \cap Accepted, {})

(* The requests whose wait in the queue may have timed out. *)
Expiries == {{r \in Waiting : r < k} : k \in Requests} \cup {{}, Waiting}

NoTokens == [r \in Requests |-> 0]
Oldest(R) == CHOOSE r \in R : \A q \in R : r <= q
Outcome(tokens, answered, dropped, started) ==
  [tokens |-> tokens, answered |-> answered, dropped |-> dropped, started |-> started]

(* The oldest waiting request is started, or cannot be, or is generated whole. *)
Admitting(expired) ==
  LET q == Oldest(Waiting \ expired)
  IN IF Waiting \subseteq expired THEN {}
     ELSE {Outcome(NoTokens, Stopping, expired, {q}),
           Outcome(NoTokens, Stopping, expired \cup {q}, {})}
          \cup {Outcome([NoTokens EXCEPT ![q] = n], Stopping \cup {q}, expired, {}) :
                  n \in 0..todo[q]}

(* Every active request gets a token, or ends without one, or all of them     *)
(* fail.                                                                     *)
Decoding(expired) ==
  LET spent == {r \in Active : todo[r] = 1}
      lasts == {last \in SUBSET Active : spent \subseteq last}
      step(silent) == [r \in Requests |-> IF r \in Active \ silent THEN 1 ELSE 0]
  IN IF ~(Waiting \subseteq expired) THEN {}
     ELSE {Outcome(NoTokens, Stopping, expired \cup Active, {})}
          \cup UNION {{Outcome(step(silent), Stopping \cup last, expired, {}) :
                         silent \in SUBSET last} : last \in lasts}

PumpOutcomes == UNION {Admitting(expired) \cup Decoding(expired) : expired \in Expiries}

(* pump, with an outcome o of it. *)
Pumped(o) ==
  /\ UNCHANGED <<said, runtime>>
  /\ Serve(o.answered, o.dropped, o.started)
  /\ todo' = [r \in Requests |-> todo[r] - o.tokens[r]]
=============================================================================
