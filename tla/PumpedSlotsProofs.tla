-------------------------- MODULE PumpedSlotsProofs --------------------------
(***************************************************************************)
(* Lemmas about PumpedSlots for every set of slots, every set of requests  *)
(* and every budget: what a submit, a cancel, a stop and a pump do to the  *)
(* requests.  MuxProofs and HttpServingProofs rest on them.                *)
(***************************************************************************)
EXTENDS PumpedSlots, WellFoundedInduction, TLAPS

(* Nothing is generated for a request before it is started, and an active     *)
(* request still has a token to come.                                        *)
BudgetsLast == \A r \in Requests :
                 /\ phase[r] \in {"Unborn", "Waiting"} => todo[r] = Budget
                 /\ phase[r] = "Active" => todo[r] >= 1

PumpInv == PumpTypeOK /\ BudgetsLast

(* What an outcome of pump is: some requests end, some of those not over get  *)
(* tokens they have left, and the oldest waiting one may start.               *)
OutcomeOK(o) ==
  /\ o.answered \subseteq Accepted /\ o.dropped \subseteq Accepted
  /\ o.tokens \in [Requests -> Nat]
  /\ \A r \in Requests : /\ o.tokens[r] <= todo[r]
                         /\ o.tokens[r] > 0 => phase[r] \in {"Waiting", "Active"}
                         /\ phase[r] = "Waiting" /\ r \notin o.answered => o.tokens[r] = 0
                         /\ phase[r] = "Active" /\ todo[r] = o.tokens[r] =>
                              r \in o.answered \cup o.dropped
  /\ o.started \subseteq Waiting

LEMMA OldestIsThere ==
  ASSUME NEW R \in SUBSET Requests, R # {}
  PROVE  Oldest(R) \in R
<1>1. R \subseteq Nat
  BY PumpAssumption
<1>2. PICK r \in R : \A q \in R : <<q, r>> \notin OpToRel(<, Nat)
  BY <1>1, WFMin, NatLessThanWellFounded
<1>3. ASSUME NEW q \in R PROVE r <= q
  <2>1. q \in Nat /\ r \in Nat
    BY <1>1
  <2>2. ~(q < r)
    BY <1>2, <2>1 DEF OpToRel
  <2>3. QED
    BY <2>1, <2>2
<1>4. QED
  BY <1>3 DEF Oldest

LEMMA PumpInitInv == ASSUME PumpInit PROVE PumpInv
BY PumpAssumption DEF PumpInit, AbstractInit, PumpInv, PumpTypeOK, BudgetsLast, Phases

(* Whatever pump does is such an outcome. *)
LEMMA OutcomesAreOK ==
  ASSUME PumpInv, NEW o \in PumpOutcomes
  PROVE  OutcomeOK(o)
<1> USE PumpAssumption DEF PumpInv
<1>0. /\ phase \in [Requests -> Phases] /\ todo \in [Requests -> 0..Budget]
      /\ NoTokens \in [Requests -> Nat] /\ \A r \in Requests : NoTokens[r] = 0
  BY DEF PumpTypeOK, NoTokens
<1>a. ASSUME NEW r \in Requests PROVE todo[r] \in Nat /\ 0 <= todo[r]
  <2>1. todo[r] \in 0..Budget /\ Budget \in Nat
    BY <1>0
  <2>2. QED
    BY <2>1
<1>b. \A r \in Requests : phase[r] = "Active" => todo[r] # 0
  BY <1>a DEF BudgetsLast
<1>1. PICK expired \in Expiries : o \in Admitting(expired) \cup Decoding(expired)
  BY DEF PumpOutcomes
<1>2. expired \subseteq Waiting
  BY <1>1 DEF Expiries
<1>3. Waiting \subseteq Accepted /\ Stopping \subseteq Accepted /\ Active \subseteq Accepted
  BY DEF Waiting, Stopping, Active, Accepted
<1>4. CASE o \in Admitting(expired)
  <2> DEFINE q == Oldest(Waiting \ expired)
  <2>1. ~(Waiting \subseteq expired)
    BY <1>4 DEF Admitting
  <2>2. q \in Waiting \ expired
    BY <2>1, OldestIsThere DEF Waiting
  <2>3. phase[q] = "Waiting" /\ q \in Requests /\ todo[q] \in 0..Budget
    BY <2>2, <1>0 DEF Waiting
  <2> HIDE DEF q
  <2>4. \/ o = Outcome(NoTokens, Stopping, expired, {q})
        \/ o = Outcome(NoTokens, Stopping, expired \cup {q}, {})
        \/ \E n \in 0..todo[q] : o = Outcome([NoTokens EXCEPT ![q] = n], Stopping \cup {q}, expired, {})
    BY <1>4, <2>1 DEF Admitting, q
  <2>6. CASE \/ o = Outcome(NoTokens, Stopping, expired, {q})
             \/ o = Outcome(NoTokens, Stopping, expired \cup {q}, {})
    <3>1. o.tokens = NoTokens /\ o.answered = Stopping /\ o.dropped \subseteq expired \cup {q}
          /\ o.started \subseteq {q}
      BY <2>6 DEF Outcome
    <3>2. \A r \in Requests : o.tokens[r] = 0 /\ 0 <= todo[r]
      BY <3>1, <1>0, <1>a
    <3>3. o.answered \subseteq Accepted /\ o.dropped \subseteq Accepted /\ o.started \subseteq Waiting
      BY <3>1, <2>2, <1>2, <1>3
    <3>4. o.tokens \in [Requests -> Nat]
      BY <3>1, <1>0
    <3>5. QED
      BY <3>2, <3>3, <3>4, <1>b DEF OutcomeOK
  <2>7. CASE \E n \in 0..todo[q] :
               o = Outcome([NoTokens EXCEPT ![q] = n], Stopping \cup {q}, expired, {})
    <3>1. PICK n \in 0..todo[q] :
            o = Outcome([NoTokens EXCEPT ![q] = n], Stopping \cup {q}, expired, {})
      BY <2>7
    <3>2. /\ o.tokens = [NoTokens EXCEPT ![q] = n] /\ o.answered = Stopping \cup {q}
          /\ o.dropped = expired /\ o.started = {}
      BY <3>1 DEF Outcome
    <3>3. \A r \in Requests : o.tokens[r] = IF r = q THEN n ELSE 0
      BY <3>2, <1>0
    <3>4. n \in Nat /\ n <= todo[q]
      BY <2>3
    <3>5. o.tokens \in [Requests -> Nat]
      BY <3>2, <3>4, <1>0
    <3>6. ASSUME NEW r \in Requests
          PROVE  /\ o.tokens[r] <= todo[r]
                 /\ o.tokens[r] > 0 => phase[r] \in {"Waiting", "Active"}
                 /\ phase[r] = "Waiting" /\ r \notin o.answered => o.tokens[r] = 0
                 /\ phase[r] = "Active" /\ todo[r] = o.tokens[r] =>
                      r \in o.answered \cup o.dropped
      <4>1. CASE r = q
        <5>1. o.tokens[r] = n /\ phase[r] = "Waiting" /\ r \in o.answered
          BY <4>1, <3>2, <3>3, <2>3
        <5>2. QED
          BY <4>1, <5>1, <3>4
      <4>2. CASE r # q
        <5>1. o.tokens[r] = 0 /\ todo[r] \in Nat
          BY <4>2, <3>3, <1>a
        <5>2. phase[r] = "Active" => todo[r] # 0
          BY <1>b
        <5>3. QED
          BY <5>1, <5>2
      <4>3. QED
        BY <4>1, <4>2
    <3>7. o.answered \subseteq Accepted /\ o.dropped \subseteq Accepted /\ o.started \subseteq Waiting
      BY <3>2, <2>2, <1>2, <1>3
    <3>8. QED
      BY <3>5, <3>6, <3>7 DEF OutcomeOK
  <2>8. QED
    BY <2>4, <2>6, <2>7
<1>5. CASE o \in Decoding(expired)
  <2> DEFINE spent == {r \in Active : todo[r] = 1}
             step(silent) == [r \in Requests |-> IF r \in Active \ silent THEN 1 ELSE 0]
  <2>1. Waiting \subseteq expired
    BY <1>5 DEF Decoding
  <2>2. \/ o = Outcome(NoTokens, Stopping, expired \cup Active, {})
        \/ \E last, silent \in SUBSET Active :
             spent \subseteq last /\ o = Outcome(step(silent), Stopping \cup last, expired, {})
    <3>1. \/ o \in UNION {{Outcome(step(silent), Stopping \cup last, expired, {}) :
                              silent \in SUBSET last} :
                            last \in {J \in SUBSET Active : spent \subseteq J}}
          \/ o = Outcome(NoTokens, Stopping, expired \cup Active, {})
      BY <1>5, <2>1 DEF Decoding
    <3>2. ASSUME NEW last \in {J \in SUBSET Active : spent \subseteq J},
                 o \in {Outcome(step(silent), Stopping \cup last, expired, {}) :
                          silent \in SUBSET last}
          PROVE  \E silent \in SUBSET Active :
                   spent \subseteq last /\ o = Outcome(step(silent), Stopping \cup last, expired, {})
      <4>1. PICK silent \in SUBSET last : o = Outcome(step(silent), Stopping \cup last, expired, {})
        BY <3>2
      <4>2. QED
        BY <4>1
    <3>3. CASE o \in UNION {{Outcome(step(silent), Stopping \cup last, expired, {}) :
                              silent \in SUBSET last} :
                            last \in {J \in SUBSET Active : spent \subseteq J}}
      <4>1. PICK last \in {J \in SUBSET Active : spent \subseteq J} :
              o \in {Outcome(step(silent), Stopping \cup last, expired, {}) :
                       silent \in SUBSET last}
        BY <3>3
      <4>2. QED
        BY <4>1, <3>2
    <3>4. QED
      BY <3>1, <3>3
  <2>3. \A r \in Requests : phase[r] = "Active" <=> r \in Active
    BY DEF Active
  <2>4. \A r \in Active : todo[r] \in Nat /\ todo[r] >= 1
    BY <1>a DEF BudgetsLast, Active
  <2> HIDE DEF spent, step
  <2>5. CASE o = Outcome(NoTokens, Stopping, expired \cup Active, {})
    <3>1. /\ o.tokens = NoTokens /\ o.answered = Stopping
          /\ o.dropped = expired \cup Active /\ o.started = {}
      BY <2>5 DEF Outcome
    <3>2. \A r \in Requests : o.tokens[r] = 0 /\ 0 <= todo[r]
      BY <3>1, <1>0, <1>a
    <3>3. QED
      BY <3>1, <3>2, <2>3, <1>0, <1>a, <1>b, <1>2, <1>3 DEF OutcomeOK
  <2>6. CASE \E last, silent \in SUBSET Active :
               spent \subseteq last /\ o = Outcome(step(silent), Stopping \cup last, expired, {})
    <3>1. PICK last \in SUBSET Active, silent \in SUBSET Active :
            spent \subseteq last /\ o = Outcome(step(silent), Stopping \cup last, expired, {})
      BY <2>6
    <3>2. /\ o.tokens = step(silent) /\ o.answered = Stopping \cup last
          /\ o.dropped = expired /\ o.started = {}
      BY <3>1 DEF Outcome
    <3>3. \A r \in Requests : o.tokens[r] = IF r \in Active \ silent THEN 1 ELSE 0
      BY <3>2 DEF step
    <3>4. o.tokens \in [Requests -> Nat]
      BY <3>2 DEF step
    <3>5. ASSUME NEW r \in Requests
          PROVE  /\ o.tokens[r] <= todo[r]
                 /\ o.tokens[r] > 0 => phase[r] = "Active"
                 /\ phase[r] = "Active" /\ todo[r] = o.tokens[r] => r \in last
      <4>1. o.tokens[r] > 0 <=> r \in Active \ silent
        BY <3>3
      <4>2. CASE r \in Active
        <5>1. todo[r] \in Nat /\ todo[r] >= 1 /\ o.tokens[r] \in {0, 1}
          BY <4>2, <2>4, <3>3
        <5>2. todo[r] = 1 => r \in last
          BY <4>2, <3>1 DEF spent
        <5>3. phase[r] = "Active" /\ o.tokens[r] <= todo[r]
          BY <4>2, <5>1, <2>3
        <5>4. todo[r] = o.tokens[r] => todo[r] = 1
          BY <5>1
        <5>5. QED
          BY <5>2, <5>3, <5>4
      <4>3. CASE r \notin Active
        <5>1. o.tokens[r] = 0 /\ phase[r] # "Active" /\ todo[r] \in Nat
          BY <4>3, <3>3, <2>3, <1>a
        <5>2. QED
          BY <5>1
      <4>4. QED
        BY <4>2, <4>3
    <3>6. ASSUME NEW r \in Requests, phase[r] = "Waiting" PROVE o.tokens[r] = 0
      BY <3>3, <3>6, <2>3
    <3>7. QED
      BY <3>1, <3>2, <3>4, <3>5, <3>6, <1>2, <1>3 DEF OutcomeOK
  <2>7. QED
    BY <2>2, <2>5, <2>6
<1>6. QED
  BY <1>1, <1>4, <1>5

(* A pump takes the answered and dropped requests out of those not over and   *)
(* changes nothing else about which are.                                     *)
LEMMA ServeEnds ==
  ASSUME PumpTypeOK, NEW answered, NEW dropped, NEW started, Serve(answered, dropped, started)
  PROVE  /\ phase' \in [Requests -> Phases]
         /\ holders' \in [Slots -> SUBSET Requests]
         /\ Accepted' = Accepted \ (answered \cup dropped)
         /\ \A r \in Requests : \/ phase'[r] = phase[r]
                                \/ phase'[r] \in {"Answered", "Dropped"}
                                \/ r \in started \ (answered \cup dropped) /\ phase[r] = "Waiting"
                                   /\ phase'[r] = "Active"
         /\ \A r \in answered \cup dropped : phase'[r] \in {"Answered", "Dropped"}
         /\ \A s \in Slots : holders'[s] \subseteq holders[s]
<1>1. answered \cup dropped \subseteq Accepted /\ Accepted \subseteq Requests
      /\ started \subseteq Waiting \ (answered \cup dropped)
  BY DEF Serve, Accepted
<1>2. \A r \in Requests : phase'[r] = IF r \in answered THEN "Answered"
                                      ELSE IF r \in dropped THEN "Dropped"
                                      ELSE IF r \in started THEN "Active" ELSE phase[r]
  BY DEF Serve
<1>3. \A r \in started : r \in Requests /\ phase[r] = "Waiting"
  BY <1>1 DEF Waiting
<1>4. phase' \in [Requests -> Phases]
  BY <1>1 DEF Serve, PumpTypeOK, Phases
<1>5. holders' \in [Slots -> SUBSET Requests] /\ \A s \in Slots : holders'[s] \subseteq holders[s]
  BY DEF Serve, PumpTypeOK
<1>6. Accepted' = Accepted \ (answered \cup dropped)
  BY <1>1, <1>2, <1>3 DEF Accepted
<1>7. QED
  BY <1>1, <1>2, <1>3, <1>4, <1>5, <1>6

LEMMA PumpedKeeps ==
  ASSUME PumpInv, NEW o \in PumpOutcomes, Pumped(o)
  PROVE  PumpInv' /\ OutcomeOK(o) /\ Accepted' = Accepted \ (o.answered \cup o.dropped)
         /\ \A s \in Slots : holders'[s] \subseteq holders[s]
<1> USE PumpAssumption
<1>1. OutcomeOK(o)
  BY OutcomesAreOK
<1>2. Serve(o.answered, o.dropped, o.started) /\ PumpTypeOK /\ UNCHANGED runtime
      /\ todo' = [r \in Requests |-> todo[r] - o.tokens[r]]
  BY DEF Pumped, PumpInv
<1>3. /\ phase' \in [Requests -> Phases] /\ holders' \in [Slots -> SUBSET Requests]
      /\ Accepted' = Accepted \ (o.answered \cup o.dropped)
      /\ \A r \in Requests : \/ phase'[r] = phase[r]
                             \/ phase'[r] \in {"Answered", "Dropped"}
                             \/ r \in o.started \ (o.answered \cup o.dropped)
                                /\ phase[r] = "Waiting" /\ phase'[r] = "Active"
      /\ \A r \in o.answered \cup o.dropped : phase'[r] \in {"Answered", "Dropped"}
      /\ \A s \in Slots : holders'[s] \subseteq holders[s]
  BY <1>2, ServeEnds
<1>4. ASSUME NEW r \in Requests
      PROVE  /\ todo'[r] = todo[r] - o.tokens[r] /\ todo'[r] \in 0..Budget
             /\ todo[r] \in Nat /\ o.tokens[r] \in Nat /\ o.tokens[r] <= todo[r]
  <2>1. todo[r] \in 0..Budget /\ o.tokens[r] \in Nat /\ o.tokens[r] <= todo[r]
    BY <1>1, <1>2 DEF OutcomeOK, PumpTypeOK
  <2>2. todo'[r] = todo[r] - o.tokens[r]
    BY <1>2
  <2>3. QED
    BY <2>1, <2>2
<1>5. todo' \in [Requests -> 0..Budget]
  BY <1>2, <1>4
<1>6. PumpTypeOK'
  BY <1>2, <1>3, <1>5 DEF PumpTypeOK
<1>7. ASSUME NEW r \in Requests
      PROVE  /\ phase'[r] \in {"Unborn", "Waiting"} => todo'[r] = Budget
             /\ phase'[r] = "Active" => todo'[r] >= 1
  <2>1. CASE phase'[r] = phase[r] /\ r \notin o.answered \cup o.dropped
    <3>0. /\ o.tokens[r] > 0 => phase[r] \in {"Waiting", "Active"}
          /\ phase[r] = "Waiting" => o.tokens[r] = 0
      BY <1>1, <2>1 DEF OutcomeOK
    <3>1. phase[r] \in {"Unborn", "Waiting"} => o.tokens[r] = 0 /\ todo[r] = Budget
      <4>1. o.tokens[r] \in Nat
        BY <1>4
      <4>2. phase[r] \in {"Unborn", "Waiting"} => todo[r] = Budget
        BY DEF PumpInv, BudgetsLast
      <4>3. phase[r] = "Unborn" => ~(o.tokens[r] > 0)
        BY <3>0
      <4>4. QED
        BY <4>1, <4>2, <4>3, <3>0
    <3>2. phase[r] = "Active" => todo[r] # o.tokens[r]
      BY <1>1, <2>1 DEF OutcomeOK
    <3>3. QED
      BY <3>1, <3>2, <2>1, <1>4
  <2>2. CASE phase'[r] \in {"Answered", "Dropped"}
    BY <2>2
  <2>3. CASE r \notin o.answered \cup o.dropped /\ phase[r] = "Waiting" /\ phase'[r] = "Active"
    <3>1. o.tokens[r] = 0 /\ todo[r] = Budget
      BY <1>1, <2>3 DEF OutcomeOK, PumpInv, BudgetsLast
    <3>2. QED
      BY <3>1, <2>3, <1>4
  <2>4. QED
    BY <2>1, <2>2, <2>3, <1>3
<1>8. BudgetsLast'
  BY <1>7 DEF BudgetsLast
<1>9. QED
  BY <1>1, <1>3, <1>6, <1>8 DEF PumpInv

LEMMA CancelKeeps ==
  ASSUME PumpInv, NEW r \in Requests, CancelJob(r)
  PROVE  PumpInv' /\ Accepted' = Accepted \ {r} /\ UNCHANGED runtime
         /\ \A s \in Slots : holders'[s] \subseteq holders[s]
<1>1. Serve({}, {r} \cap Accepted, {}) /\ UNCHANGED <<runtime, todo>> /\ PumpTypeOK
  BY DEF CancelJob, PumpInv
<1>2. /\ phase' \in [Requests -> Phases] /\ holders' \in [Slots -> SUBSET Requests]
      /\ Accepted' = Accepted \ ({r} \cap Accepted)
      /\ \A q \in Requests : phase'[q] = phase[q] \/ phase'[q] \in {"Answered", "Dropped"}
      /\ \A s \in Slots : holders'[s] \subseteq holders[s]
  BY <1>1, ServeEnds
<1>3. QED
  BY <1>1, <1>2 DEF PumpInv, PumpTypeOK, BudgetsLast

LEMMA AcceptKeeps ==
  ASSUME PumpInv, NEW r \in Requests, NEW s \in Slots, Accept(r, s), UNCHANGED <<runtime, todo>>
  PROVE  PumpInv' /\ r \notin Accepted /\ Accepted' = Accepted \cup {r}
         /\ \A t \in Slots \ {s} : holders'[t] = holders[t]
<1>1. /\ phase[r] = "Unborn" /\ phase' = [phase EXCEPT ![r] = "Waiting"]
      /\ holders' = [holders EXCEPT ![s] = {r}] /\ PumpTypeOK
  BY DEF Accept, PumpInv
<1>2. PumpTypeOK'
  BY <1>1 DEF PumpTypeOK, Phases
<1>3. BudgetsLast'
  BY <1>1 DEF PumpInv, PumpTypeOK, BudgetsLast
<1>4. r \notin Accepted /\ Accepted' = Accepted \cup {r}
  BY <1>1 DEF Accepted, PumpTypeOK
<1>5. QED
  BY <1>1, <1>2, <1>3, <1>4 DEF PumpInv, PumpTypeOK

LEMMA StopKeeps ==
  ASSUME PumpInv, NEW r \in Requests, AskToStop(r), UNCHANGED <<runtime, todo>>
  PROVE  PumpInv' /\ Accepted' = Accepted /\ UNCHANGED holders
<1>1. /\ phase[r] \in {"Waiting", "Active"} /\ phase' = [phase EXCEPT ![r] = "Stopping"]
      /\ UNCHANGED holders /\ PumpTypeOK
  BY DEF AskToStop, PumpInv
<1>2. PumpTypeOK'
  BY <1>1 DEF PumpTypeOK, Phases
<1>3. BudgetsLast' /\ Accepted' = Accepted
  BY <1>1 DEF PumpInv, PumpTypeOK, BudgetsLast, Accepted
<1>4. QED
  BY <1>1, <1>2, <1>3 DEF PumpInv

(* A step that leaves the scheduler alone. *)
LEMMA PumpIdle ==
  ASSUME PumpInv, UNCHANGED pumpVars
  PROVE  PumpInv' /\ Accepted' = Accepted /\ UNCHANGED <<holders, runtime>>
BY DEF PumpInv, PumpTypeOK, BudgetsLast, Accepted, pumpVars, abstractVars, Phases
=============================================================================
