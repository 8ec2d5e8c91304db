------------------------ MODULE BatchSchedulerProofs ------------------------
(***************************************************************************)
(* Theorems about BatchScheduler for every set of slots, every prompt and  *)
(* every queue length: the inductive invariants SchedulerInv, ContextInv   *)
(* and CountInv, the safety invariants that follow from them, the action   *)
(* properties, and that the scheduler implements ConversationSlots.  The   *)
(* first part is about the operators of KvPrefix and FamilySlot: what they *)
(* return for every set T of tokens and every record of the right type.    *)
(***************************************************************************)
EXTENDS BatchScheduler, SequenceTheorems, FiniteSetTheorems, WellFoundedInduction, TLAPS

(* A part of a sequence of tokens is a sequence of tokens, whatever the ends. *)
LEMMA PartOfSeq ==
  ASSUME NEW T, NEW s \in Seq(T), NEW m \in Nat, NEW n \in Nat, m >= 1, n <= Len(s)
  PROVE  SubSeq(s, m, n) \in Seq(T)
<1>1. \A i \in m..n : s[i] \in T
  OBVIOUS
<1>2. QED
  BY <1>1, SubSeqProperties

(* KvPrefix::record yields a record again. *)
LEMMA RecordType ==
  ASSUME NEW T, NEW p \in Prefixes(T), NEW ids \in Seq(T)
  PROVE  PrefixRecord(p, ids) \in Prefixes(T)
<1> DEFINE tail == SubSeq(p.fed, Len(ids) + 1, Len(p.fed))
<1>1. p.cap \in Nat /\ p.fed \in Seq(T) /\ p = [cap |-> p.cap, fed |-> p.fed]
  BY DEF Prefixes
<1>2. tail \in Seq(T)
  BY <1>1, PartOfSeq
<1>3. ids \o tail \in Seq(T)
  BY <1>2
<1>4. /\ [p EXCEPT !.fed = <<>>] \in Prefixes(T)
      /\ [p EXCEPT !.fed = ids \o tail] \in Prefixes(T)
  BY <1>1, <1>3, EmptySeq DEF Prefixes
<1>5. QED
  BY <1>4 DEF PrefixRecord

(* Engine::prefix_match yields a record and a length. *)
LEMMA ArmType ==
  ASSUME NEW T, NEW p \in Prefixes(T), NEW past \in Seq(T), NEW ids \in Seq(T), NEW room \in Nat
  PROVE  /\ PrefixArm(p, past, ids, room) \in Prefixes(T)
         /\ PrefixReuse(p, ids) \in Nat
<1>1. PrefixAlloc(Greatest(MinCap, Len(ids) + room + MaxSeq)) \in Prefixes(T)
  BY PrefixAssumption DEF PrefixAlloc, Greatest, Prefixes
<1>2. PrefixArm(p, past, ids, room) \in Prefixes(T)
  BY <1>1, RecordType DEF PrefixArm
<1>3. PrefixReuse(p, ids) \in Nat
  BY DEF PrefixReuse, Prefixes
<1>4. QED
  BY <1>2, <1>3

(* Engine::prefix_commit yields a record. *)
LEMMA CommitType ==
  ASSUME NEW T, NEW p \in Prefixes(T), NEW past \in Seq(T)
  PROVE  PrefixCommit(p, past) \in Prefixes(T)
<1>1. PrefixAlloc(Len(past) + Slack) \in Prefixes(T)
  BY PrefixAssumption DEF PrefixAlloc, Prefixes
<1>2. QED
  BY <1>1, RecordType DEF PrefixCommit
-----------------------------------------------------------------------------
(* begin_generate keeps all of a slot's rows or none of them. *)
LEMMA ReuseIsAllOrNothing ==
  ASSUME NEW T, NEW sl \in SlotRecords(T), NEW ids \in Seq(T), NEW reuse \in Nat
  PROVE  /\ AppliedReuse(sl, ids, reuse) \in {0, Len(sl.rows)}
         /\ AppliedReuse(sl, ids, reuse) \in 0..Len(ids)
         /\ SlotForPrompt(sl, ids, reuse) \in SlotRecords(T)
<1>1. EmptySlot \in SlotRecords(T)
  BY DEF EmptySlot, SlotRecords
<1>2. Len(sl.rows) \in Nat /\ Len(ids) \in Nat
  BY DEF SlotRecords
<1>3. /\ AppliedReuse(sl, ids, reuse) \in {0, Len(sl.rows)}
      /\ AppliedReuse(sl, ids, reuse) \in 0..Len(ids)
  BY <1>2 DEF AppliedReuse
<1>4. QED
  BY <1>1, <1>3 DEF SlotForPrompt

(* begin_generate yields a live slot with nothing emitted. *)
LEMMA BegunType ==
  ASSUME NEW T, NEW sl \in SlotRecords(T), NEW ids \in Seq(T), NEW max \in Nat,
         NEW reuse \in Nat
  PROVE  /\ BegunSlot(sl, ids, max, reuse) \in SlotRecords(T)
         /\ BegunSlot(sl, ids, max, reuse).live
         /\ BegunSlot(sl, ids, max, reuse).emitted = 0
         /\ BegunSlot(sl, ids, max, reuse).max = max
<1> DEFINE a    == AppliedReuse(sl, ids, reuse)
           base == SlotForPrompt(sl, ids, reuse)
           rest == SubSeq(ids, a + 1, Len(ids))
<1>1. a \in 0..Len(ids) /\ base \in SlotRecords(T)
  BY ReuseIsAllOrNothing
<1>2. rest \in Seq(T)
  BY <1>1, PartOfSeq
<1>3. base.rows \o rest \in Seq(T) /\ base.absorbed \o rest \in Seq(T)
  BY <1>1, <1>2 DEF SlotRecords
<1>4. BegunSlot(sl, ids, max, reuse) =
        [have |-> TRUE, live |-> TRUE, history |-> ids, rows |-> base.rows \o rest,
         absorbed |-> base.absorbed \o rest, emitted |-> 0, max |-> max]
  BY DEF BegunSlot
<1>5. QED
  BY <1>3, <1>4 DEF SlotRecords

(* A prefill that fails after c whole chunks leaves a slot that is live only *)
(* if it was.                                                                *)
LEMMA BeginFailedType ==
  ASSUME NEW T, NEW sl \in SlotRecords(T), NEW ids \in Seq(T), NEW reuse \in Nat,
         NEW c \in ChunksBeforeFailure(sl, ids, reuse)
  PROVE  /\ BeginFailedSlot(sl, ids, reuse, c) \in SlotRecords(T)
         /\ BeginFailedSlot(sl, ids, reuse, c).live => sl.live
<1> DEFINE a    == AppliedReuse(sl, ids, reuse)
           pos  == a + Chunk * c
           base == SlotForPrompt(sl, ids, reuse)
           end  == Least(pos + Chunk, Len(ids))
<1>1. a \in 0..Len(ids) /\ base \in SlotRecords(T)
  BY ReuseIsAllOrNothing
<1>2. c \in Nat /\ Chunk * c \in Nat /\ Chunk \in Nat
  BY ChunkAssumption DEF ChunksBeforeFailure
<1>3. pos \in Nat /\ pos <= Len(ids)
  BY <1>1, <1>2 DEF ChunksBeforeFailure
<1>4. end \in Nat /\ end <= Len(ids)
  <2>1. pos + Chunk \in Nat /\ Len(ids) \in Nat
    BY <1>2, <1>3
  <2>2. QED
    BY <2>1 DEF Least
<1>5. SubSeq(ids, a + 1, pos) \in Seq(T) /\ SubSeq(ids, a + 1, end) \in Seq(T)
  BY <1>1, <1>3, <1>4, PartOfSeq
<1>6. BeginFailedSlot(sl, ids, reuse, c) =
        [base EXCEPT !.rows = @ \o SubSeq(ids, a + 1, pos),
                     !.absorbed = @ \o SubSeq(ids, a + 1, end)]
  BY DEF BeginFailedSlot
<1>7. base.live => sl.live
  BY DEF SlotForPrompt, EmptySlot
<1> HIDE DEF base, a, pos, end
<1>8. /\ base.rows \o SubSeq(ids, a + 1, pos) \in Seq(T)
      /\ base.absorbed \o SubSeq(ids, a + 1, end) \in Seq(T)
  <2>1. base.rows \in Seq(T) /\ base.absorbed \in Seq(T)
    BY <1>1 DEF SlotRecords
  <2>2. \A r, t \in Seq(T) : r \o t \in Seq(T)
    BY ConcatProperties
  <2>3. QED
    BY <1>5, <2>1, <2>2
<1>9. BeginFailedSlot(sl, ids, reuse, c) \in SlotRecords(T)
  <2> DEFINE R == base.rows \o SubSeq(ids, a + 1, pos)
             A == base.absorbed \o SubSeq(ids, a + 1, end)
  <2>1. BeginFailedSlot(sl, ids, reuse, c) = [base EXCEPT !.rows = R, !.absorbed = A]
    BY <1>6
  <2>2. R \in Seq(T) /\ A \in Seq(T)
    BY <1>8
  <2> HIDE DEF R, A
  <2>3. QED
    BY <1>1, <2>1, <2>2 DEF SlotRecords
<1>10. BeginFailedSlot(sl, ids, reuse, c).live = base.live
  BY <1>1, <1>6 DEF SlotRecords
<1>11. QED
  BY <1>7, <1>9, <1>10

(* One decode step: the slot stays live and has emitted one token more. *)
LEMMA SteppedType ==
  ASSUME NEW T, NEW sl \in SlotRecords(T), NEW t \in T, NEW stop \in BOOLEAN
  PROVE  /\ SteppedSlot(sl, t, stop) \in SlotRecords(T)
         /\ SteppedSlot(sl, t, stop).live = sl.live
         /\ SteppedSlot(sl, t, stop).emitted = sl.emitted + 1
         /\ SteppedSlot(sl, t, stop).max = sl.max
         /\ StepFailedSlot(sl, t, stop) \in SlotRecords(T)
         /\ StepFailedSlot(sl, t, stop).live = sl.live
<1> DEFINE sampled == [sl EXCEPT !.history = Append(@, t), !.emitted = @ + 1]
           stepped == [sampled EXCEPT !.rows = Append(@, t), !.absorbed = Append(@, t)]
           failed  == [sampled EXCEPT !.absorbed = Append(@, t)]
<1>1. /\ Append(sl.history, t) \in Seq(T) /\ Append(sl.rows, t) \in Seq(T)
      /\ Append(sl.absorbed, t) \in Seq(T) /\ sl.emitted + 1 \in Nat
  BY DEF SlotRecords
<1>2. /\ sampled \in SlotRecords(T) /\ sampled.live = sl.live /\ sampled.max = sl.max
      /\ sampled.emitted = sl.emitted + 1
      /\ sampled.rows = sl.rows /\ sampled.absorbed = sl.absorbed
  BY <1>1 DEF SlotRecords
<1>3. /\ stepped \in SlotRecords(T) /\ stepped.live = sl.live /\ stepped.max = sl.max
      /\ stepped.emitted = sl.emitted + 1
      /\ failed \in SlotRecords(T) /\ failed.live = sl.live
  <2> HIDE DEF sampled
  <2>1. Append(sampled.rows, t) \in Seq(T) /\ Append(sampled.absorbed, t) \in Seq(T)
    BY <1>1, <1>2
  <2>2. QED
    BY <2>1, <1>2 DEF SlotRecords
<1>4. /\ SteppedSlot(sl, t, stop) = IF LastToken(sl, stop) THEN sampled ELSE stepped
      /\ StepFailedSlot(sl, t, stop) = IF LastToken(sl, stop) THEN sampled ELSE failed
  BY DEF SteppedSlot, StepFailedSlot
<1>5. QED
  <2> HIDE DEF sampled, stepped, failed
  <2>1. QED
    BY <1>2, <1>3, <1>4

(* end_generate. *)
LEMMA EndedType ==
  ASSUME NEW T, NEW sl \in SlotRecords(T)
  PROVE  EndedSlot(sl) \in SlotRecords(T) /\ ~EndedSlot(sl).live
BY DEF EndedSlot, SlotRecords
-----------------------------------------------------------------------------
(* Two sequences are the same when they have the same length and entries. *)
LEMMA SameSeq ==
  ASSUME NEW T, NEW a \in Seq(T), NEW b \in Seq(T), Len(a) = Len(b),
         \A i \in 1..Len(a) : a[i] = b[i]
  PROVE  a = b
OBVIOUS

(* A sequence is what it begins with and the rest. *)
LEMMA SplitSeq ==
  ASSUME NEW T, NEW s \in Seq(T), NEW k \in 0..Len(s)
  PROVE  SubSeq(s, 1, k) \o SubSeq(s, k + 1, Len(s)) = s
<1> DEFINE a == SubSeq(s, 1, k)
           b == SubSeq(s, k + 1, Len(s))
<1>1. a \in Seq(T) /\ Len(a) = k /\ \A i \in 1..k : a[i] = s[i]
  BY PartOfSeq
<1>2. b \in Seq(T) /\ Len(b) = Len(s) - k /\ \A i \in 1..(Len(s) - k) : b[i] = s[k + i]
  BY PartOfSeq
<1> HIDE DEF a, b
<1>3. a \o b \in Seq(T) /\ Len(a \o b) = Len(s)
  BY <1>1, <1>2
<1>4. ASSUME NEW i \in 1..Len(s) PROVE (a \o b)[i] = s[i]
  <2>1. CASE i <= k
    BY <1>1, <1>2, <2>1
  <2>2. CASE i > k
    <3>1. i - k \in 1..(Len(s) - k) /\ k + (i - k) = i
      BY <2>2
    <3>2. b[i - k] = s[i]
      BY <1>2, <3>1
    <3>3. (a \o b)[i] = b[i - k]
      <4>1. i \in 1..Len(a) + Len(b) /\ i > Len(a)
        BY <1>1, <1>2, <2>2
      <4>2. (a \o b)[i] = b[i - Len(a)]
        BY <1>1, <1>2, <4>1, ConcatProperties
      <4>3. QED
        BY <1>1, <4>2
    <3>4. QED
      BY <3>2, <3>3
  <2>3. i <= k \/ i > k
    OBVIOUS
  <2>4. QED
    BY <2>1, <2>2, <2>3, Zenon
<1>5. a \o b = s
  BY <1>3, <1>4, SameSeq
<1>6. QED
  BY <1>5 DEF a, b

(* kv_common_prefix: what it counts is shared. *)
LEMMA CommonPrefixIsShared ==
  ASSUME NEW T, NEW a \in Seq(T), NEW b \in Seq(T)
  PROVE  /\ CommonPrefix(a, b) \in 0..Least(Len(a), Len(b))
         /\ \A i \in 1..CommonPrefix(a, b) : a[i] = b[i]
<1> DEFINE top == Least(Len(a), Len(b))
           Ends == {n \in Nat : n = top \/ (n < top /\ a[n + 1] # b[n + 1])}
<1>1. top \in Nat /\ top <= Len(a) /\ top <= Len(b)
  BY DEF Least
<1>2. Ends # {} /\ Ends \subseteq Nat
  BY <1>1
<1>3. PICK n \in Ends : \A m \in Ends : ~(<<m, n>> \in OpToRel(<, Nat))
  BY <1>2, NatLessThanWellFounded, WFMin
<1> HIDE DEF top
<1>4. n \in 0..top /\ \A m \in Ends : n <= m
  <2>1. \A m, k \in Nat : m < k => <<m, k>> \in OpToRel(<, Nat)
    BY DEF OpToRel
  <2>2. \A m \in Ends : ~(m < n)
    BY <1>2, <1>3, <2>1
  <2>3. QED
    BY <1>1, <2>2
<1>5. \A i \in 1..n : a[i] = b[i]
  <2>1. SUFFICES ASSUME NEW i \in 1..n, a[i] # b[i] PROVE FALSE
    OBVIOUS
  <2>2. i - 1 \in Nat /\ i - 1 < top /\ (i - 1) + 1 = i
    BY <1>1, <1>4
  <2>3. i - 1 \in Ends
    BY <2>1, <2>2
  <2>4. n \in Nat /\ i \in Nat /\ i <= n
    BY <1>1, <1>4
  <2>5. QED
    BY <1>4, <2>3, <2>4
<1>6. \E m \in 0..top : /\ \A i \in 1..m : a[i] = b[i]
                        /\ m < top => a[m + 1] # b[m + 1]
  BY <1>1, <1>4, <1>5
<1>7. CommonPrefix(a, b) = CHOOSE m \in 0..top : /\ \A i \in 1..m : a[i] = b[i]
                                                 /\ m < top => a[m + 1] # b[m + 1]
  BY DEF CommonPrefix, top
<1>8. QED
  BY <1>6, <1>7 DEF top

(* No layer has run ahead of the others, and the rows of a slot are those of  *)
(* the beginning of its history: so it is as long as no forward step fails.   *)
RowsFollow(sl) == sl.absorbed = sl.rows /\ IsInitialOf(sl.rows, sl.history)

(* A prompt put behind the rows begin_generate keeps is the prompt itself.    *)
LEMMA KeptRowsFit ==
  ASSUME NEW T, NEW sl \in SlotRecords(T), NEW ids \in Seq(T), NEW reuse \in Nat, RowsFollow(sl)
  PROVE  LET kept == AppliedReuse(sl, ids, reuse)
         IN  /\ SlotForPrompt(sl, ids, reuse).rows = SubSeq(ids, 1, kept)
             /\ SlotForPrompt(sl, ids, reuse).absorbed = SubSeq(ids, 1, kept)
<1> DEFINE kept == AppliedReuse(sl, ids, reuse)
<1>1. sl.rows \in Seq(T) /\ sl.history \in Seq(T)
  BY DEF SlotRecords
<1>2. CASE kept = 0
  <2>1. SlotForPrompt(sl, ids, reuse) = EmptySlot /\ SubSeq(ids, 1, 0) = <<>>
    BY <1>2 DEF SlotForPrompt
  <2>2. QED
    BY <1>2, <2>1 DEF EmptySlot
<1>3. CASE kept # 0
  <2> DEFINE match == CommonPrefix(sl.history, ids)
  <2>1. match \in 0..Least(Len(sl.history), Len(ids)) /\ \A i \in 1..match : sl.history[i] = ids[i]
    BY <1>1, CommonPrefixIsShared
  <2>2. kept = Len(sl.rows) /\ Len(sl.rows) <= Least(reuse, match) /\ sl.have
    <3> HIDE DEF match
    <3>1. kept = IF sl.have /\ Len(sl.rows) > 0 /\ Len(sl.rows) <= Least(reuse, IF sl.have THEN match ELSE 0)
                    /\ Len(sl.rows) <= Len(ids)
                 THEN Len(sl.rows) ELSE 0
      BY DEF AppliedReuse, match
    <3>2. QED
      BY <1>3, <3>1
  <2> HIDE DEF match, kept
  <2>3. kept \in Nat /\ kept <= match /\ kept <= Len(ids) /\ kept <= Len(sl.history)
    BY <1>1, <2>1, <2>2 DEF Least
  <2>4. \A i \in 1..kept : sl.rows[i] = ids[i]
    BY <1>1, <2>1, <2>2, <2>3 DEF RowsFollow, IsInitialOf
  <2>5. /\ SubSeq(ids, 1, kept) \in Seq(T) /\ Len(SubSeq(ids, 1, kept)) = kept
        /\ \A i \in 1..kept : SubSeq(ids, 1, kept)[i] = ids[i]
    BY <2>3
  <2>6. sl.rows = SubSeq(ids, 1, kept)
    BY <1>1, <2>2, <2>4, <2>5, SameSeq
  <2>7. SlotForPrompt(sl, ids, reuse) = sl
    BY <1>3, <2>2, <2>3 DEF SlotForPrompt, kept
  <2>8. QED
    BY <2>6, <2>7 DEF RowsFollow, kept
<1>4. QED
  BY <1>2, <1>3

(* begin_generate leaves exactly the prompt in the cache, whatever reuse the  *)
(* client asked for.                                                         *)
LEMMA BegunContext ==
  ASSUME NEW T, NEW sl \in SlotRecords(T), NEW ids \in Seq(T), NEW max \in Nat,
         NEW reuse \in Nat, RowsFollow(sl)
  PROVE  LET new == BegunSlot(sl, ids, max, reuse)
         IN  new.history = ids /\ new.rows = ids /\ new.absorbed = ids
<1> DEFINE kept == AppliedReuse(sl, ids, reuse)
           base == SlotForPrompt(sl, ids, reuse)
           rest == SubSeq(ids, kept + 1, Len(ids))
<1>1. kept \in 0..Len(ids)
  BY ReuseIsAllOrNothing
<1>2. base.rows = SubSeq(ids, 1, kept) /\ base.absorbed = SubSeq(ids, 1, kept)
  BY KeptRowsFit
<1>3. SubSeq(ids, 1, kept) \o rest = ids
  <2> HIDE DEF kept
  <2>1. QED
    BY <1>1, SplitSeq
<1>4. BegunSlot(sl, ids, max, reuse) =
        [have |-> TRUE, live |-> TRUE, history |-> ids, rows |-> base.rows \o rest,
         absorbed |-> base.absorbed \o rest, emitted |-> 0, max |-> max]
  BY DEF BegunSlot
<1> HIDE DEF base, rest, kept
<1> DEFINE new == BegunSlot(sl, ids, max, reuse)
<1>5. new.history = ids /\ new.rows = base.rows \o rest /\ new.absorbed = base.absorbed \o rest
  BY <1>4
<1> HIDE DEF new
<1>6. QED
  BY <1>2, <1>3, <1>5 DEF new

(* A decode step puts the sampled token behind the history, and behind the    *)
(* rows too unless it was the last one.                                      *)
LEMMA SteppedContext ==
  ASSUME NEW T, NEW sl \in SlotRecords(T), NEW t \in T, NEW stop \in BOOLEAN,
         sl.rows = sl.history, sl.absorbed = sl.rows
  PROVE  LET new == SteppedSlot(sl, t, stop)
         IN  /\ RowsFollow(new)
             /\ ~LastToken(sl, stop) => /\ new.history = Append(sl.history, t)
                                        /\ new.rows = new.history /\ new.absorbed = new.rows
<1> DEFINE sampled == [sl EXCEPT !.history = Append(@, t), !.emitted = @ + 1]
           stepped == [sampled EXCEPT !.rows = Append(@, t), !.absorbed = Append(@, t)]
<1>1. sl.history \in Seq(T) /\ Append(sl.history, t) \in Seq(T)
  BY DEF SlotRecords
<1>2. /\ IsInitialOf(sl.history, Append(sl.history, t))
      /\ IsInitialOf(Append(sl.history, t), Append(sl.history, t))
  BY <1>1 DEF IsInitialOf
<1>3. sampled.history = Append(sl.history, t) /\ sampled.rows = sl.rows /\ sampled.absorbed = sl.absorbed
  BY DEF SlotRecords
<1>4. /\ stepped.history = Append(sl.history, t) /\ stepped.rows = Append(sl.rows, t)
      /\ stepped.absorbed = Append(sl.absorbed, t)
  BY <1>3 DEF SlotRecords
<1>5. SteppedSlot(sl, t, stop) = IF LastToken(sl, stop) THEN sampled ELSE stepped
  BY DEF SteppedSlot
<1> HIDE DEF sampled, stepped
<1>6. QED
  BY <1>2, <1>3, <1>4, <1>5 DEF RowsFollow
-----------------------------------------------------------------------------
(* Every set of jobs is finite, and so are the counts of them. *)
LEMMA JobsAreFinite ==
  ASSUME NEW J \in SUBSET Jobs
  PROVE  IsFiniteSet(J) /\ Cardinality(J) \in Nat
<1>1. IsFiniteSet(Jobs)
  BY FS_Interval, SchedulerAssumption DEF Jobs
<1>2. QED
  BY <1>1, FS_Subset, FS_CardinalityType

(* One more job makes a set of jobs larger by at most one. *)
LEMMA OneMoreJob ==
  ASSUME NEW S, IsFiniteSet(S), NEW x
  PROVE  /\ IsFiniteSet(S \cup {x})
         /\ Cardinality(S \cup {x}) \in Nat
         /\ Cardinality(S \cup {x}) <= Cardinality(S) + 1
<1>1. IsFiniteSet(S \cup {x}) /\ Cardinality(S) \in Nat
  BY FS_AddElement, FS_CardinalityType
<1>2. Cardinality(S \cup {x}) = Cardinality(S) \/ Cardinality(S \cup {x}) = Cardinality(S) + 1
  BY FS_AddElement
<1>3. QED
  BY <1>1, <1>2

(* What pump adds to the counters are numbers. *)
LEMMA TallyType ==
  ASSUME count \in Counters, NEW admitted \in Nat, NEW D \in SUBSET Jobs, NEW E \in SUBSET Jobs,
         Tally(admitted, D, E)
  PROVE  count' \in Counters
<1>1. Cardinality(D) \in Nat /\ Cardinality(E) \in Nat
  BY JobsAreFinite
<1>2. /\ count.admitted + admitted \in Nat
      /\ count.completed + Cardinality(D) \in Nat
      /\ count.timedOut + Cardinality(E) \in Nat
  BY <1>1 DEF Counters
<1>3. QED
  BY <1>2 DEF Tally, Counters

(* Live jobs are jobs, and the job a set picks for a slot is in the set. *)
LEMMA EnderIsThere ==
  ASSUME NEW js, NEW s, NEW J, EndedOn(s, js, J)
  PROVE  EnderOn(s, js, J) \in J /\ js[EnderOn(s, js, J)].slot = s
BY DEF EndedOn, EnderOn
-----------------------------------------------------------------------------
(* A token appended to the end of a text is appended to the whole text. *)
LEMMA AppendConcat ==
  ASSUME NEW T, NEW a \in Seq(T), NEW b \in Seq(T), NEW t \in T
  PROVE  a \o Append(b, t) = Append(a \o b, t)
<1> DEFINE u == a \o Append(b, t)
           v == Append(a \o b, t)
<1>1. u \in Seq(T) /\ v \in Seq(T) /\ Len(u) = Len(v)
  OBVIOUS
<1>2. \A i \in 1..Len(u) : u[i] = v[i]
  OBVIOUS
<1> HIDE DEF u, v
<1>3. u = v
  BY <1>1, <1>2, SameSeq
<1>4. QED
  BY <1>3 DEF u, v

(* What a pump may do to jobs (js) and slots (sl) before it settles the jobs  *)
(* of over: only queued and running jobs change and only a queued one starts; *)
(* a job that goes on running is in step with its slot, one that goes on      *)
(* waiting is untouched, and a slot is live only for the job that runs in it.  *)
Sound(js, sl, over) ==
  /\ js \in [Jobs -> Job]
  /\ sl \in [Slots -> SlotRecords(Tokens)]
  /\ over \subseteq LiveJobs
  /\ \A j \in Jobs : js[j].slot = jobs[j].slot /\ js[j].outcome = jobs[j].outcome
  /\ \A j \in Jobs : \/ js[j].state = jobs[j].state
                     \/ jobs[j].state = "Queued" /\ js[j].state = "Running"
  /\ \A j \in Jobs : jobs[j].state \notin {"Queued", "Running"} => js[j] = jobs[j]
  /\ \A j \in Jobs \ over : js[j].state = "Running" => InStep(js[j], sl[js[j].slot])
  /\ \A j \in Jobs \ over : js[j].state = "Queued" => js[j].toks = <<>>
  /\ \A s \in Slots : sl[s].live =>
       fam[s].live \/ \E j \in Jobs : js[j].state = "Running" /\ js[j].slot = s

(* What settling does to each job and slot. *)
LEMMA SettleEffect ==
  ASSUME SchedulerInv, NEW js, NEW sl, NEW D, NEW F, NEW E, Sound(js, sl, D \cup F \cup E),
         Settle(js, sl, D, F, E)
  PROVE  /\ jobs' \in [Jobs -> Job]
         /\ \A j \in Jobs : jobs'[j].slot = jobs[j].slot /\ jobs'[j].toks = js[j].toks
         /\ \A j \in D \cup F \cup E : jobs'[j].state = "Done"
         /\ \A j \in Jobs \ (D \cup F \cup E) : jobs'[j] = js[j]
         /\ \A s \in Slots : (\E j \in D \cup F \cup E : jobs[j].slot = s) =>
              fam'[s] = EndedSlot(sl[s]) /\ ~busy'[s]
         /\ \A s \in Slots : ~(\E j \in D \cup F \cup E : jobs[j].slot = s) =>
              fam'[s] = sl[s] /\ (busy'[s] <=> busy[s])
<1>1. \A job \in Job : /\ [job EXCEPT !.state = "Done"] \in Job
                       /\ [job EXCEPT !.state = "Done", !.outcome = "Error"] \in Job
                       /\ [job EXCEPT !.state = "Done", !.outcome = "Timeout"] \in Job
  BY DEF Job, JobStates, Outcomes
<1>2. js \in [Jobs -> Job] /\ D \cup F \cup E \subseteq Jobs
  BY DEF Sound, LiveJobs
<1>3. jobs' \in [Jobs -> Job]
  BY <1>1, <1>2 DEF Settle
<1>4. \A j \in Jobs : jobs'[j].slot = js[j].slot /\ jobs'[j].toks = js[j].toks
  BY <1>2 DEF Settle, Job
<1>5. \A j \in Jobs : jobs'[j].slot = jobs[j].slot /\ jobs'[j].toks = js[j].toks
  BY <1>4 DEF Sound
<1>6. \A j \in D \cup F \cup E : jobs'[j].state = "Done"
  BY <1>2 DEF Settle, Job
<1>7. \A j \in Jobs \ (D \cup F \cup E) : jobs'[j] = js[j]
  BY DEF Settle
<1>8. \A s \in Slots : EndedOn(s, js, D \cup F \cup E) <=>
                       \E j \in D \cup F \cup E : jobs[j].slot = s
  BY <1>2 DEF EndedOn, Sound
<1>9. busy \in [Slots -> BOOLEAN]
  BY DEF SchedulerInv, TypeOK
<1>10. \A s \in Slots :
         /\ fam'[s] = IF EndedOn(s, js, D \cup F \cup E) THEN EndedSlot(sl[s]) ELSE sl[s]
         /\ busy'[s] <=> (busy[s] /\ ~EndedOn(s, js, D \cup F \cup E))
  BY DEF Settle
<1>11. QED
  BY <1>3, <1>5, <1>6, <1>7, <1>8, <1>9, <1>10

(* Settling keeps the types. *)
LEMMA SettleTypes ==
  ASSUME SchedulerInv, NEW js, NEW sl, NEW D, NEW F, NEW E, Sound(js, sl, D \cup F \cup E),
         Settle(js, sl, D, F, E), count' \in Counters
  PROVE  TypeOK'
<1>1. jobs' \in [Jobs -> Job] /\ nextId' \in 1..MaxJobs + 1
  <2>1. jobs' \in [Jobs -> Job]
    BY SettleEffect
  <2>2. QED
    BY <2>1 DEF Settle, SchedulerInv, TypeOK
<1>2. busy' \in [Slots -> BOOLEAN]
  BY DEF Settle, SchedulerInv, TypeOK
<1>3. fam' \in [Slots -> SlotRecords(Tokens)]
  <2>1. \A s \in Slots : sl[s] \in SlotRecords(Tokens) /\ EndedSlot(sl[s]) \in SlotRecords(Tokens)
    BY EndedType DEF Sound
  <2>2. QED
    BY <2>1 DEF Settle
<1>4. \A s \in Slots : EndedOn(s, js, D) =>
        Transcript(js[EnderOn(s, js, D)]) \in Transcripts
  <2>1. SUFFICES ASSUME NEW s \in Slots, EndedOn(s, js, D)
                 PROVE  Transcript(js[EnderOn(s, js, D)]) \in Transcripts
    OBVIOUS
  <2>2. js[EnderOn(s, js, D)] \in Job
    BY <2>1, EnderIsThere DEF Sound, LiveJobs
  <2>3. QED
    BY <2>2, ConcatProperties DEF Transcript, Transcripts, Job
<1>5. hist' \in [Slots -> Transcripts]
  BY <1>4 DEF Settle, SchedulerInv, TypeOK
<1>6. prefix' \in [Slots -> Prefixes(Tokens)]
  <2>1. \A s \in Slots : EndedOn(s, js, D) =>
          PrefixCommit(prefix[s], Transcript(js[EnderOn(s, js, D)])) \in Prefixes(Tokens)
    BY <1>4, CommitType DEF SchedulerInv, TypeOK, Transcripts
  <2>2. QED
    BY <2>1 DEF Settle, SchedulerInv, TypeOK
<1>7. QED
  BY <1>1, <1>2, <1>3, <1>5, <1>6 DEF TypeOK

(* What the context of the next token rests on between requests: the rows     *)
(* left in a slot are those of the beginning of its history.                 *)
ContextInv == ContextIsTranscript /\ \A s \in Slots : RowsFollow(fam[s])

(* Where no forward step can fail, what a pump computes before it settles     *)
(* keeps the rows of every slot with its history, and with the transcript of  *)
(* the job that goes on running in it.                                       *)
InContext(job, sl) ==
  sl.history = Transcript(job) /\ sl.rows = sl.history /\ sl.absorbed = sl.rows
KeepsContext(js, sl, over) ==
  ContextInv /\ ~StepMayFail =>
    /\ \A s \in Slots : RowsFollow(sl[s])
    /\ \A j \in Jobs \ over : js[j].state = "Running" => InContext(js[j], sl[js[j].slot])

(* A pump counts the jobs it completes and those it lets expire, and as       *)
(* admitted the one job that it takes out of the queue otherwise; only that   *)
(* job, or one that was admitted before, can fail.                           *)
Counted(D, F, E, started) ==
  /\ D \cap (F \cup E) = {} /\ F \cap E = {}
  /\ \/ /\ Tally(0, D, E)
        /\ started = {} /\ F \subseteq JobsIn("Running")
     \/ /\ Tally(1, D, E)
        /\ \E q \in JobsIn("Queued") \ E : q \in D \cup F \cup started /\ F \cup started \subseteq {q}

(* A pump that starts the jobs of started, ends others soundly and settles;   *)
(* a stopped job does not fail.                                              *)
Pumped(E, started) ==
  \E js, sl, D, F :
    /\ Sound(js, sl, D \cup F \cup E)
    /\ KeepsContext(js, sl, D \cup F \cup E)
    /\ Counted(D, F, E, started)
    /\ Settle(js, sl, D, F, E)
    /\ count' \in Counters
    /\ F \cap JobsIn("Stopped") = {}
    /\ started \cap (D \cup F \cup E) = {}
    /\ \A j \in Jobs : js[j].state = IF j \in started THEN "Running" ELSE jobs[j].state

(* A pump that does nothing unsound before it settles keeps the invariant. *)
LEMMA SettleKeepsInv ==
  ASSUME SchedulerInv, NEW js, NEW sl, NEW D, NEW F, NEW E, Sound(js, sl, D \cup F \cup E),
         Settle(js, sl, D, F, E), count' \in Counters
  PROVE  SchedulerInv'
<1> DEFINE over == D \cup F \cup E
<1>1. TypeOK'
  BY SettleTypes
<1>2. over \subseteq LiveJobs /\ LiveJobs \subseteq Jobs
  BY DEF Sound, LiveJobs
<1>3. /\ \A j \in Jobs : jobs'[j].slot = jobs[j].slot /\ jobs[j].slot \in Slots
      /\ \A j \in Jobs : jobs'[j].toks = js[j].toks /\ js[j].slot = jobs[j].slot
      /\ \A j \in over : jobs'[j].state = "Done"
      /\ \A j \in Jobs \ over : jobs'[j] = js[j]
  <2>1. \A j \in Jobs : jobs[j].slot \in Slots
    BY DEF SchedulerInv, TypeOK, Job
  <2>2. \A j \in Jobs : js[j].slot = jobs[j].slot
    BY DEF Sound
  <2>3. QED
    BY <2>1, <2>2, SettleEffect
<1>4. \A s \in Slots : (\E j \in over : jobs[j].slot = s) =>
        fam'[s] = EndedSlot(sl[s]) /\ ~busy'[s]
  BY SettleEffect
<1>5. \A s \in Slots : ~(\E j \in over : jobs[j].slot = s) =>
        fam'[s] = sl[s] /\ (busy'[s] <=> busy[s])
  BY SettleEffect
<1>6. \A j \in Jobs : \/ js[j].state = jobs[j].state
                      \/ jobs[j].state = "Queued" /\ js[j].state = "Running"
  BY DEF Sound
<1> HIDE DEF over
<1>7. LiveJobs' = LiveJobs \ over
  BY <1>2, <1>3, <1>6 DEF LiveJobs, Live
<1>8. IdsInOrder'
  <2>1. \A j \in Jobs : jobs'[j].state = "None" <=> jobs[j].state = "None"
    BY <1>2, <1>3, <1>6 DEF LiveJobs, Live
  <2>2. nextId' = nextId
    BY DEF Settle
  <2>3. QED
    BY <2>1, <2>2 DEF IdsInOrder, SchedulerInv
<1>9. WaitingIsUntouched'
  BY <1>3 DEF WaitingIsUntouched, JobsIn, Sound, over
<1>10. SlotOwnership'
  <2>1. \A j, k \in LiveJobs' : jobs'[j].slot = jobs'[k].slot => j = k
    BY <1>2, <1>3, <1>7 DEF SlotOwnership, SchedulerInv
  <2>2. \A s \in Slots : busy'[s] <=> \E j \in LiveJobs' : jobs'[j].slot = s
    <3>1. SUFFICES ASSUME NEW s \in Slots
                   PROVE  busy'[s] <=> \E j \in LiveJobs' : jobs'[j].slot = s
      OBVIOUS
    <3>2. CASE \E j \in over : jobs[j].slot = s
      <4>1. \A k \in LiveJobs : jobs[k].slot = s => k \in over
        BY <1>2, <3>2 DEF SlotOwnership, SchedulerInv
      <4>2. ~\E k \in LiveJobs' : jobs'[k].slot = s
        BY <1>2, <1>3, <1>7, <4>1
      <4>3. QED
        BY <1>4, <3>2, <4>2
    <3>3. CASE ~\E j \in over : jobs[j].slot = s
      <4>1. busy'[s] <=> busy[s]
        BY <1>5, <3>3
      <4>2. busy[s] <=> \E k \in LiveJobs : jobs[k].slot = s
        BY DEF SlotOwnership, SchedulerInv
      <4>3. QED
        BY <1>2, <1>3, <1>7, <3>3, <4>1, <4>2
    <3>4. QED
      BY <3>2, <3>3
  <2>3. QED
    BY <2>1, <2>2 DEF SlotOwnership
<1>11. RunningIsLive'
  <2>1. SUFFICES ASSUME NEW j \in Jobs, jobs'[j].state = "Running"
                 PROVE  InStep(jobs'[j], fam'[jobs'[j].slot])
    BY DEF RunningIsLive, JobsIn
  <2>2. j \in Jobs \ over /\ jobs'[j] = js[j] /\ j \in LiveJobs
    BY <1>3, <1>6, <2>1 DEF LiveJobs, Live
  <2>3. ~\E k \in over : jobs[k].slot = jobs[j].slot
    BY <1>2, <2>2 DEF SlotOwnership, SchedulerInv
  <2>4. fam'[jobs[j].slot] = sl[jobs[j].slot]
    BY <1>3, <1>5, <2>3
  <2>5. InStep(js[j], sl[js[j].slot])
    BY <2>1, <2>2 DEF Sound, over
  <2>6. QED
    BY <1>3, <2>2, <2>4, <2>5
<1>12. NoOrphanGeneration'
  <2>1. SUFFICES ASSUME NEW s \in Slots, fam'[s].live
                 PROVE  \E j \in Jobs : /\ jobs'[j].state \in {"Running", "Stopped"}
                                        /\ jobs'[j].slot = s
    BY DEF NoOrphanGeneration, JobsIn
  <2>2. ~\E j \in over : jobs[j].slot = s
    BY <1>4, <2>1, EndedType DEF Sound
  <2>3. sl[s].live
    BY <1>5, <2>1, <2>2
  <2>4. CASE fam[s].live
    <3>1. PICK j \in Jobs : jobs[j].state \in {"Running", "Stopped"} /\ jobs[j].slot = s
      BY <2>4 DEF NoOrphanGeneration, SchedulerInv, JobsIn
    <3>2. QED
      BY <1>3, <1>6, <2>2, <3>1
  <2>5. CASE \E j \in Jobs : js[j].state = "Running" /\ js[j].slot = s
    BY <1>3, <2>2, <2>5
  <2>6. QED
    BY <2>3, <2>4, <2>5 DEF Sound
<1>13. UnjudgedWhileLive'
  BY <1>2, <1>3, <1>7 DEF UnjudgedWhileLive, SchedulerInv, Sound
<1>14. QED
  BY <1>1, <1>8, <1>9, <1>10, <1>11, <1>12, <1>13 DEF SchedulerInv
-----------------------------------------------------------------------------
(* The oldest job of a nonempty set exists. *)
LEMMA FirstIsOldest ==
  ASSUME NEW Q \in SUBSET Jobs, Q # {}
  PROVE  FirstOf(Q) \in Q /\ \A k \in Q : FirstOf(Q) <= k
<1>1. Q \subseteq Nat
  BY DEF Jobs
<1>2. \E x \in Q : \A y \in Q : ~(<<y, x>> \in OpToRel(<, Nat))
  BY <1>1, WFMin, NatLessThanWellFounded
<1>3. \A x, y \in Nat : y < x => <<y, x>> \in OpToRel(<, Nat)
  BY DEF OpToRel
<1>4. \E x \in Q : \A y \in Q : ~(y < x)
  BY <1>1, <1>2, <1>3
<1>5. \E x \in Q : \A y \in Q : x <= y
  BY <1>1, <1>4
<1>6. QED
  BY <1>5 DEF FirstOf

(* Only queued jobs expire. *)
LEMMA ExpiredAreQueued ==
  ASSUME NEW E \in ExpirySets
  PROVE  E \subseteq JobsIn("Queued")
BY DEF ExpirySets, JobsIn

(* The scheduler starts with no job and no live slot. *)
LEMMA InitInv == Init => SchedulerInv
<1> SUFFICES ASSUME Init PROVE SchedulerInv
  OBVIOUS
<1>1. TypeOK
  <2>1. NoPrefix \in Prefixes(Tokens)
    BY EmptySeq DEF NoPrefix, Prefixes
  <2>2. EmptySlot \in SlotRecords(Tokens)
    BY EmptySeq DEF EmptySlot, SlotRecords
  <2>3. (CHOOSE s \in Slots : TRUE) \in Slots
    BY SchedulerAssumption
  <2>4. <<>> \in Transcripts
    BY EmptySeq DEF Transcripts
  <2>5. jobs \in [Jobs -> Job]
    BY <2>3, <2>4 DEF Init, Job, JobStates, Outcomes
  <2>6. nextId \in 1..MaxJobs + 1 /\ count \in Counters
    BY SchedulerAssumption DEF Init, Counters
  <2>7. QED
    BY <2>1, <2>2, <2>4, <2>5, <2>6 DEF Init, TypeOK
<1>2. \A j \in Jobs : jobs[j].state = "None" /\ j >= nextId
  BY DEF Init, Jobs
<1>3. /\ LiveJobs = {} /\ JobsIn("Running") = {} /\ JobsIn("Queued") = {}
  BY <1>2 DEF LiveJobs, Live, JobsIn
<1>4. IdsInOrder /\ WaitingIsUntouched /\ UnjudgedWhileLive /\ SlotOwnership /\ RunningIsLive
  BY <1>2, <1>3 DEF IdsInOrder, WaitingIsUntouched, UnjudgedWhileLive, SlotOwnership, RunningIsLive, Init
<1>5. NoOrphanGeneration
  BY DEF NoOrphanGeneration, Init, EmptySlot
<1>6. QED
  BY <1>1, <1>4, <1>5 DEF SchedulerInv

(* submit. *)
LEMMA SubmitInv ==
  ASSUME SchedulerInv, NEW s \in Slots, NEW ids \in Prompts, NEW max \in Budgets,
         NEW reuse \in Reuses, Submit(s, ids, max, reuse)
  PROVE  SchedulerInv'
<1> DEFINE armed    == PrefixArm(prefix[s], hist[s], ids, 0)
           official == PrefixReuse(armed, ids)
           given    == IF official > 0 THEN official ELSE reuse
           new      == [state |-> "Queued", slot |-> s, ids |-> ids, toks |-> <<>>, max |-> max,
                        reuse |-> given, outcome |-> "Ok"]
<1>1. /\ nextId <= MaxJobs /\ ~busy[s]
      /\ busy' = [busy EXCEPT ![s] = TRUE]
      /\ prefix' = [prefix EXCEPT ![s] = armed]
      /\ jobs' = [jobs EXCEPT ![nextId] = new]
      /\ nextId' = nextId + 1
      /\ UNCHANGED <<hist, fam, count>>
  BY DEF Submit
<1>2. nextId \in Jobs /\ ids \in Seq(Tokens) /\ max \in Nat /\ reuse \in Nat
  BY <1>1, SchedulerAssumption DEF SchedulerInv, TypeOK, Jobs
<1>3. armed \in Prefixes(Tokens)
  BY <1>2, ArmType DEF SchedulerInv, TypeOK, Transcripts
<1>4. given \in Nat
  <2>1. official \in Nat
    BY <1>2, <1>3, ArmType DEF SchedulerInv, TypeOK, Transcripts
  <2>2. QED
    BY <1>2, <2>1
<1> HIDE DEF armed, official, given
<1>5. new \in Job
  BY <1>2, <1>4, EmptySeq DEF Job, JobStates, Outcomes, Transcripts
<1>6. jobs[nextId].state = "None"
  <2>1. nextId \in Int
    BY <1>2 DEF Jobs
  <2>2. nextId >= nextId
    BY <2>1
  <2>3. IdsInOrder /\ nextId \in Jobs
    BY <1>2 DEF SchedulerInv
  <2>4. QED
    BY <2>2, <2>3 DEF IdsInOrder
<1>7. TypeOK'
  <2> HIDE DEF new
  <2>1. jobs' \in [Jobs -> Job] /\ busy' \in [Slots -> BOOLEAN]
    BY <1>1, <1>5 DEF SchedulerInv, TypeOK
  <2>2. prefix' \in [Slots -> Prefixes(Tokens)]
    BY <1>1, <1>3 DEF SchedulerInv, TypeOK
  <2>3. nextId' \in 1..MaxJobs + 1
    BY <1>1, SchedulerAssumption DEF SchedulerInv, TypeOK
  <2>4. QED
    BY <1>1, <2>1, <2>2, <2>3 DEF SchedulerInv, TypeOK
<1>8. /\ jobs'[nextId] = new /\ \A j \in Jobs : j # nextId => jobs'[j] = jobs[j]
  BY <1>1, <1>2 DEF SchedulerInv, TypeOK
<1>9. /\ new.state = "Queued" /\ new.slot = s /\ new.toks = <<>> /\ new.outcome = "Ok"
  OBVIOUS
<1> HIDE DEF new
<1>10. LiveJobs' = LiveJobs \cup {nextId} /\ nextId \notin LiveJobs
  BY <1>2, <1>6, <1>8, <1>9 DEF LiveJobs, Live
<1>11. IdsInOrder'
  <2>1. \A j \in Jobs : j \in Int /\ nextId \in Int
    BY DEF Jobs, SchedulerInv, TypeOK
  <2>2. QED
    BY <1>1, <1>2, <1>8, <1>9, <2>1 DEF IdsInOrder, SchedulerInv
<1>12. WaitingIsUntouched'
  BY <1>8, <1>9 DEF WaitingIsUntouched, SchedulerInv, JobsIn
<1>13. SlotOwnership'
  <2>1. \A k \in LiveJobs : jobs[k].slot # s
    BY <1>1 DEF SchedulerInv, SlotOwnership
  <2>2. \A t \in Slots : t # s => (busy'[t] <=> busy[t])
    BY <1>1 DEF SchedulerInv, TypeOK
  <2>3. busy'[s]
    BY <1>1 DEF SchedulerInv, TypeOK
  <2>4. \A k \in LiveJobs : k \in Jobs /\ k # nextId
    BY <1>10 DEF LiveJobs
  <2>5. QED
    BY <1>8, <1>9, <1>10, <2>1, <2>2, <2>3, <2>4 DEF SlotOwnership, SchedulerInv
<1>14. RunningIsLive'
  BY <1>1, <1>8, <1>9 DEF RunningIsLive, SchedulerInv, JobsIn
<1>15. NoOrphanGeneration'
  BY <1>1, <1>6, <1>8 DEF NoOrphanGeneration, SchedulerInv, JobsIn
<1>16. UnjudgedWhileLive'
  BY <1>8, <1>9, <1>10 DEF UnjudgedWhileLive, SchedulerInv, LiveJobs
<1>17. QED
  BY <1>7, <1>11, <1>12, <1>13, <1>14, <1>15, <1>16 DEF SchedulerInv

(* stop. *)
LEMMA StopInv ==
  ASSUME SchedulerInv, NEW i \in Jobs, Stop(i)
  PROVE  SchedulerInv'
<1>1. /\ jobs[i].state \in {"Queued", "Running"}
      /\ jobs' = [jobs EXCEPT ![i].state = "Stopped"]
      /\ UNCHANGED <<nextId, busy, hist, prefix, fam, count>>
  BY DEF Stop
<1>2. TypeOK'
  BY <1>1 DEF SchedulerInv, TypeOK, Job, JobStates
<1>3. /\ \A j \in Jobs : /\ jobs'[j].slot = jobs[j].slot /\ jobs'[j].toks = jobs[j].toks
                          /\ jobs'[j].outcome = jobs[j].outcome
      /\ jobs'[i].state = "Stopped"
      /\ \A j \in Jobs : j # i => jobs'[j] = jobs[j]
  BY <1>1 DEF SchedulerInv, TypeOK, Job
<1>4. LiveJobs' = LiveJobs
  BY <1>1, <1>3 DEF LiveJobs, Live
<1>5. LiveJobs \subseteq Jobs
  BY DEF LiveJobs
<1>6. IdsInOrder' /\ WaitingIsUntouched'
  BY <1>1, <1>3 DEF IdsInOrder, WaitingIsUntouched, SchedulerInv, JobsIn
<1>7. SlotOwnership'
  BY <1>1, <1>3, <1>4, <1>5 DEF SlotOwnership, SchedulerInv
<1>8. RunningIsLive' /\ NoOrphanGeneration'
  BY <1>1, <1>3 DEF RunningIsLive, NoOrphanGeneration, SchedulerInv, JobsIn
<1>9. UnjudgedWhileLive'
  BY <1>3, <1>4, <1>5 DEF UnjudgedWhileLive, SchedulerInv
<1>10. QED
  BY <1>2, <1>6, <1>7, <1>8, <1>9 DEF SchedulerInv

(* cancel: the slot it frees is the cancelled job's and nobody else's. *)
LEMMA CancelInv ==
  ASSUME SchedulerInv, NEW i \in Jobs, Cancel(i)
  PROVE  SchedulerInv'
<1> DEFINE s == jobs[i].slot
<1>1. /\ Live(jobs[i])
      /\ fam' = [fam EXCEPT ![s] = EndedSlot(@)]
      /\ busy' = [busy EXCEPT ![s] = FALSE]
      /\ jobs' = [jobs EXCEPT ![i].state = "Cancelled"]
      /\ count' = [count EXCEPT !.cancelled = @ + 1]
      /\ UNCHANGED <<nextId, hist, prefix>>
  BY DEF Cancel
<1>2. s \in Slots /\ i \in LiveJobs /\ LiveJobs \subseteq Jobs
  BY <1>1 DEF SchedulerInv, TypeOK, Job, LiveJobs
<1>3. EndedSlot(fam[s]) \in SlotRecords(Tokens) /\ ~EndedSlot(fam[s]).live
  BY <1>2, EndedType DEF SchedulerInv, TypeOK
<1>4. TypeOK'
  <2>1. jobs' \in [Jobs -> Job] /\ fam' \in [Slots -> SlotRecords(Tokens)]
    BY <1>1, <1>2, <1>3 DEF SchedulerInv, TypeOK, Job, JobStates
  <2>2. count' \in Counters
    BY <1>1 DEF SchedulerInv, TypeOK, Counters
  <2>3. QED
    BY <1>1, <2>1, <2>2 DEF SchedulerInv, TypeOK
<1>5. /\ \A j \in Jobs : jobs'[j].slot = jobs[j].slot /\ jobs'[j].toks = jobs[j].toks
      /\ jobs'[i].state = "Cancelled"
      /\ \A j \in Jobs : j # i => jobs'[j] = jobs[j]
  BY <1>1 DEF SchedulerInv, TypeOK, Job
<1>6. LiveJobs' = LiveJobs \ {i}
  BY <1>5 DEF LiveJobs, Live
<1>7. \A j \in LiveJobs : jobs[j].slot = s => j = i
  BY <1>2 DEF SlotOwnership, SchedulerInv
<1>8. IdsInOrder' /\ WaitingIsUntouched'
  BY <1>1, <1>5 DEF IdsInOrder, WaitingIsUntouched, SchedulerInv, JobsIn, Live
<1>9. /\ ~busy'[s] /\ \A t \in Slots : t # s => (busy'[t] <=> busy[t])
      /\ ~fam'[s].live /\ \A t \in Slots : t # s => fam'[t] = fam[t]
  BY <1>1, <1>2, <1>3 DEF SchedulerInv, TypeOK
<1> HIDE DEF s
<1>10. SlotOwnership'
  <2>1. \A j, k \in LiveJobs' : jobs'[j].slot = jobs'[k].slot => j = k
    BY <1>2, <1>5, <1>6 DEF SlotOwnership, SchedulerInv
  <2>2. ~\E j \in LiveJobs' : jobs'[j].slot = s
    BY <1>2, <1>5, <1>6, <1>7
  <2>3. ASSUME NEW t \in Slots, t # s
        PROVE  busy'[t] <=> \E j \in LiveJobs' : jobs'[j].slot = t
    <3>1. busy[t] <=> \E j \in LiveJobs : jobs[j].slot = t
      BY DEF SlotOwnership, SchedulerInv
    <3>2. jobs[i].slot # t
      BY <2>3 DEF s
    <3>3. QED
      BY <1>2, <1>5, <1>6, <1>9, <2>3, <3>1, <3>2
  <2>4. QED
    BY <1>9, <2>1, <2>2, <2>3 DEF SlotOwnership
<1>11. RunningIsLive'
  <2>1. SUFFICES ASSUME NEW j \in Jobs, jobs'[j].state = "Running"
                 PROVE  InStep(jobs'[j], fam'[jobs'[j].slot])
    BY DEF RunningIsLive, JobsIn
  <2>2. jobs'[j] = jobs[j] /\ j # i /\ j \in LiveJobs
    BY <1>5, <2>1 DEF LiveJobs, Live
  <2>3. jobs[j].slot # s /\ jobs[j].slot \in Slots
    BY <1>7, <2>2 DEF SchedulerInv, TypeOK, Job
  <2>4. QED
    BY <1>9, <2>1, <2>2, <2>3 DEF RunningIsLive, SchedulerInv, JobsIn
<1>12. NoOrphanGeneration'
  <2>1. SUFFICES ASSUME NEW t \in Slots, fam'[t].live
                 PROVE  \E j \in Jobs : /\ jobs'[j].state \in {"Running", "Stopped"}
                                        /\ jobs'[j].slot = t
    BY DEF NoOrphanGeneration, JobsIn
  <2>2. t # s /\ fam[t].live
    BY <1>9, <2>1
  <2>3. PICK j \in Jobs : jobs[j].state \in {"Running", "Stopped"} /\ jobs[j].slot = t
    BY <2>2 DEF NoOrphanGeneration, SchedulerInv, JobsIn
  <2>4. QED
    BY <1>5, <2>2, <2>3 DEF s
<1>13. UnjudgedWhileLive'
  BY <1>2, <1>5, <1>6 DEF UnjudgedWhileLive, SchedulerInv
<1>14. QED
  BY <1>4, <1>8, <1>10, <1>11, <1>12, <1>13 DEF SchedulerInv
-----------------------------------------------------------------------------
(* pump's admission: begin_generate succeeded for the queued job q. *)
LEMMA AdmitOkPumps ==
  ASSUME SchedulerInv, NEW E \in ExpirySets, NEW q \in JobsIn("Queued") \ E, AdmitOk(q, E)
  PROVE  Pumped(E, {q})
<1> DEFINE s    == jobs[q].slot
           kept == AppliedReuse(fam[s], jobs[q].ids, jobs[q].reuse)
           new  == BegunSlot(fam[s], jobs[q].ids, jobs[q].max, jobs[q].reuse)
           js   == [jobs EXCEPT ![q].state = "Running", ![q].reuse = kept]
           sl   == [fam EXCEPT ![s] = new]
           over == JobsIn("Stopped") \cup {} \cup E
<1>1. q \in Jobs /\ jobs[q] \in Job /\ jobs[q].state = "Queued" /\ q \notin E
  BY DEF SchedulerInv, TypeOK, JobsIn
<1>2. s \in Slots /\ fam[s] \in SlotRecords(Tokens) /\ jobs[q].toks = <<>>
  BY <1>1 DEF SchedulerInv, TypeOK, Job, WaitingIsUntouched, JobsIn
<1>3. kept \in Nat
  <2>1. jobs[q].ids \in Seq(Tokens) /\ jobs[q].reuse \in Nat
    BY <1>1 DEF Job, Transcripts
  <2>2. kept \in 0..Len(jobs[q].ids)
    BY <1>2, <2>1, ReuseIsAllOrNothing
  <2>3. QED
    BY <2>1, <2>2
<1>4. new \in SlotRecords(Tokens) /\ new.live /\ new.emitted = 0 /\ new.max = jobs[q].max
  <2>1. jobs[q].ids \in Seq(Tokens) /\ jobs[q].reuse \in Nat /\ jobs[q].max \in Nat
    BY <1>1 DEF Job, Transcripts
  <2>2. fam[s] \in SlotRecords(Tokens)
    BY <1>2
  <2> HIDE DEF s
  <2>3. new \in SlotRecords(Tokens)
    BY <2>1, <2>2, BegunType
  <2>4. new.live /\ new.emitted = 0 /\ new.max = jobs[q].max
    BY DEF BegunSlot
  <2>5. QED
    BY <2>3, <2>4
<1>5. Settle(js, sl, JobsIn("Stopped"), {}, E) /\ Tally(1, JobsIn("Stopped"), E)
  BY DEF AdmitOk
<1> HIDE DEF kept, new
<1>6. /\ js \in [Jobs -> Job]
      /\ js[q].state = "Running" /\ js[q].max = jobs[q].max
      /\ \A j \in Jobs : js[j].slot = jobs[j].slot /\ js[j].toks = jobs[j].toks
      /\ \A j \in Jobs : js[j].outcome = jobs[j].outcome
      /\ \A j \in Jobs : j # q => js[j] = jobs[j]
  BY <1>1, <1>3 DEF SchedulerInv, TypeOK, Job, JobStates
<1>7. /\ sl \in [Slots -> SlotRecords(Tokens)] /\ sl[s] = new
      /\ \A t \in Slots : t # s => sl[t] = fam[t]
  BY <1>2, <1>4 DEF SchedulerInv, TypeOK
<1> HIDE DEF js, sl
<1>8. over \subseteq LiveJobs /\ E \subseteq Jobs /\ JobsIn("Stopped") \subseteq Jobs
  BY ExpiredAreQueued DEF JobsIn, LiveJobs, Live
<1>9. ASSUME NEW j \in Jobs, js[j].state = "Running"
      PROVE  InStep(js[j], sl[js[j].slot])
  <2>1. CASE j = q
    <3>1. js[q].toks = <<>> /\ Len(js[q].toks) = 0 /\ js[q].slot = s
      BY <1>1, <1>2, <1>6, EmptySeq
    <3>2. QED
      BY <2>1, <3>1, <1>4, <1>6, <1>7 DEF InStep
  <2>2. CASE j # q
    <3>1. js[j] = jobs[j] /\ jobs[j].state = "Running"
      BY <1>6, <1>9, <2>2
    <3>2. jobs[j].slot # s
      BY <1>1, <2>2, <3>1 DEF SlotOwnership, SchedulerInv, LiveJobs, Live
    <3>3. jobs[j].slot \in Slots
      BY DEF SchedulerInv, TypeOK, Job
    <3>4. sl[jobs[j].slot] = fam[jobs[j].slot]
      BY <1>7, <3>2, <3>3
    <3>5. QED
      BY <3>1, <3>4 DEF RunningIsLive, SchedulerInv, JobsIn
  <2>3. QED
    BY <2>1, <2>2
<1>10. \A j \in Jobs : js[j].state = "Queued" => js[j].toks = <<>>
  BY <1>6 DEF WaitingIsUntouched, SchedulerInv, JobsIn
<1>11. \A j \in Jobs : \/ js[j].state = jobs[j].state
                       \/ jobs[j].state = "Queued" /\ js[j].state = "Running"
  BY <1>1, <1>6
<1>12. \A t \in Slots : sl[t].live =>
         fam[t].live \/ \E j \in Jobs : js[j].state = "Running" /\ js[j].slot = t
  BY <1>1, <1>6, <1>7
<1>13. Sound(js, sl, over)
  BY <1>1, <1>6, <1>7, <1>8, <1>9, <1>10, <1>11, <1>12 DEF Sound
<1>14. count' \in Counters
  BY <1>5, <1>8, TallyType DEF SchedulerInv, TypeOK
<1>15. q \notin JobsIn("Stopped") \cup {} \cup E
  BY <1>1 DEF JobsIn
<1>16. \A j \in Jobs : js[j].state = IF j \in {q} THEN "Running" ELSE jobs[j].state
  BY <1>6
<1>17. KeepsContext(js, sl, over)
  <2>1. SUFFICES ASSUME ContextInv
                 PROVE  /\ \A t \in Slots : RowsFollow(sl[t])
                        /\ \A j \in Jobs : js[j].state = "Running" => InContext(js[j], sl[js[j].slot])
    BY DEF KeepsContext
  <2>2. new.history = jobs[q].ids /\ new.rows = jobs[q].ids /\ new.absorbed = jobs[q].ids
    BY <1>1, <1>2, <2>1, BegunContext DEF new, ContextInv, Job, Transcripts
  <2>3. RowsFollow(new)
    BY <1>1, <2>2 DEF RowsFollow, IsInitialOf, Job, Transcripts
  <2>4. Transcript(js[q]) = jobs[q].ids /\ js[q].slot = s
    <3>1. js[q].ids = jobs[q].ids /\ js[q].toks = <<>> /\ jobs[q].ids \in Seq(Tokens)
      BY <1>1, <1>2, <1>6 DEF js, Job, Transcripts
    <3>2. QED
      BY <1>1, <1>6, <3>1 DEF Transcript
  <2>5. ASSUME NEW j \in Jobs, js[j].state = "Running", j # q
        PROVE  InContext(js[j], sl[js[j].slot])
    <3>1. js[j] = jobs[j] /\ jobs[j].state = "Running" /\ jobs[j].slot \in Slots
      BY <1>6, <2>5 DEF SchedulerInv, TypeOK, Job
    <3>2. jobs[j].slot # s
      BY <1>1, <2>5, <3>1 DEF SlotOwnership, SchedulerInv, LiveJobs, Live
    <3>3. sl[jobs[j].slot] = fam[jobs[j].slot]
      BY <1>7, <3>1, <3>2
    <3>4. QED
      BY <2>1, <3>1, <3>3 DEF InContext, ContextInv, ContextIsTranscript, JobsIn
  <2>6. QED
    BY <1>2, <1>7, <2>1, <2>2, <2>3, <2>4, <2>5 DEF InContext, ContextInv
<1>18. Counted(JobsIn("Stopped"), {}, E, {q})
  <2>1. JobsIn("Stopped") \cap E = {}
    BY ExpiredAreQueued DEF JobsIn
  <2>2. QED
    BY <1>5, <2>1 DEF Counted
<1>19. QED
  BY <1>5, <1>13, <1>14, <1>15, <1>16, <1>17, <1>18 DEF Pumped

(* A pump whose forward step changed no job and lit no slot is sound when it  *)
(* ends every running job whose slot it touched.                             *)
LEMMA QuietIsSound ==
  ASSUME SchedulerInv, NEW sl \in [Slots -> SlotRecords(Tokens)], NEW over \in SUBSET LiveJobs,
         \A s \in Slots : sl[s].live => fam[s].live,
         \A j \in JobsIn("Running") \ over : sl[jobs[j].slot] = fam[jobs[j].slot]
  PROVE  Sound(jobs, sl, over)
<1>1. jobs \in [Jobs -> Job]
  BY DEF SchedulerInv, TypeOK
<1>2. \A j \in Jobs \ over : jobs[j].state = "Running" => InStep(jobs[j], sl[jobs[j].slot])
  BY DEF RunningIsLive, SchedulerInv, JobsIn
<1>3. \A j \in Jobs \ over : jobs[j].state = "Queued" => jobs[j].toks = <<>>
  BY DEF WaitingIsUntouched, SchedulerInv, JobsIn
<1>4. QED
  BY <1>1, <1>2, <1>3 DEF Sound

(* Jobs and slots that a pump has not touched are in context. *)
LEMMA QuietKeepsContext ==
  ASSUME SchedulerInv, NEW js, NEW over,
         \A j \in Jobs \ over : js[j].state = "Running" => js[j] = jobs[j]
  PROVE  KeepsContext(js, fam, over)
BY DEF KeepsContext, InContext, ContextInv, ContextIsTranscript, JobsIn

(* pump's admission: the prompt is refused or its prefill fails. *)
LEMMA AdmitErrorPumps ==
  ASSUME SchedulerInv, NEW E \in ExpirySets, NEW q \in JobsIn("Queued") \ E, AdmitError(q, E)
  PROVE  Pumped(E, {})
<1> DEFINE s == jobs[q].slot
           over == JobsIn("Stopped") \cup {q} \cup E
<1>1. q \in Jobs /\ jobs[q] \in Job /\ jobs[q].state = "Queued" /\ q \in LiveJobs
  BY DEF SchedulerInv, TypeOK, JobsIn, LiveJobs, Live
<1>2. s \in Slots /\ fam[s] \in SlotRecords(Tokens)
  BY <1>1 DEF SchedulerInv, TypeOK, Job
<1>3. over \in SUBSET LiveJobs /\ E \subseteq Jobs /\ JobsIn("Stopped") \subseteq Jobs
  BY <1>1, ExpiredAreQueued DEF JobsIn, LiveJobs, Live
<1>4. count' \in Counters
  BY <1>3, TallyType DEF AdmitError, SchedulerInv, TypeOK
<1>8. Counted(JobsIn("Stopped"), {q}, E, {})
  <2>1. JobsIn("Stopped") \cap ({q} \cup E) = {} /\ {q} \cap E = {}
    BY <1>1, ExpiredAreQueued DEF JobsIn
  <2>2. QED
    BY <2>1 DEF Counted, AdmitError
<1>5. CASE Settle(jobs, fam, JobsIn("Stopped"), {q}, E)
  <2>1. Sound(jobs, fam, over)
    BY <1>3, QuietIsSound DEF SchedulerInv, TypeOK
  <2>2. {q} \cap JobsIn("Stopped") = {}
    BY <1>1 DEF JobsIn
  <2>3. KeepsContext(jobs, fam, over)
    BY QuietKeepsContext
  <2>4. QED
    BY <1>4, <1>5, <1>8, <2>1, <2>2, <2>3 DEF Pumped
<1>6. ASSUME StepMayFail,
             NEW c \in ChunksBeforeFailure(fam[s], jobs[q].ids, jobs[q].reuse),
             Settle(jobs, [fam EXCEPT ![s] = BeginFailedSlot(@, jobs[q].ids, jobs[q].reuse, c)],
                    JobsIn("Stopped"), {q}, E)
      PROVE  Pumped(E, {})
  <2> DEFINE new == BeginFailedSlot(fam[s], jobs[q].ids, jobs[q].reuse, c)
             sl  == [fam EXCEPT ![s] = new]
  <2>1. new \in SlotRecords(Tokens) /\ (new.live => fam[s].live)
    BY <1>1, <1>2, <1>6, BeginFailedType DEF Job, Transcripts
  <2>2. Settle(jobs, sl, JobsIn("Stopped"), {q}, E)
    BY <1>6
  <2> HIDE DEF new
  <2>3. /\ sl \in [Slots -> SlotRecords(Tokens)] /\ sl[s] = new
        /\ \A t \in Slots : t # s => sl[t] = fam[t]
    BY <1>2, <2>1 DEF SchedulerInv, TypeOK
  <2> HIDE DEF sl
  <2>4. \A t \in Slots : sl[t].live => fam[t].live
    BY <2>1, <2>3
  <2>5. \A j \in JobsIn("Running") \ over : sl[jobs[j].slot] = fam[jobs[j].slot]
    <3>1. SUFFICES ASSUME NEW j \in Jobs, jobs[j].state = "Running"
                   PROVE  sl[jobs[j].slot] = fam[jobs[j].slot]
      BY DEF JobsIn
    <3>2. j # q /\ j \in LiveJobs
      BY <1>1, <3>1 DEF LiveJobs, Live
    <3>3. jobs[j].slot # s /\ jobs[j].slot \in Slots
      BY <1>1, <3>2 DEF SlotOwnership, SchedulerInv, TypeOK, Job
    <3>4. QED
      BY <2>3, <3>3
  <2>6. Sound(jobs, sl, over)
    BY <1>3, <2>3, <2>4, <2>5, QuietIsSound
  <2>7. {q} \cap JobsIn("Stopped") = {}
    BY <1>1 DEF JobsIn
  <2>8. KeepsContext(jobs, sl, over)
    BY <1>6 DEF KeepsContext
  <2>9. QED
    BY <1>4, <1>8, <2>2, <2>6, <2>7, <2>8 DEF Pumped
<1>7. QED
  BY <1>5, <1>6 DEF AdmitError

(* pump's admission: a whole generation, which ends the job. *)
LEMMA AdmitWholePumps ==
  ASSUME SchedulerInv, NEW E \in ExpirySets, NEW q \in JobsIn("Queued") \ E, AdmitWhole(q, E)
  PROVE  Pumped(E, {})
<1>1. q \in Jobs /\ jobs[q] \in Job /\ jobs[q].state = "Queued" /\ q \in LiveJobs
  BY DEF SchedulerInv, TypeOK, JobsIn, LiveJobs, Live
<1>2. E \subseteq LiveJobs /\ JobsIn("Stopped") \subseteq LiveJobs /\ LiveJobs \subseteq Jobs
  BY ExpiredAreQueued DEF JobsIn, LiveJobs, Live
<1>3. ASSUME NEW js \in [Jobs -> Job], NEW over \in SUBSET LiveJobs, q \in over,
             \A j \in Jobs : js[j].slot = jobs[j].slot /\ js[j].state = jobs[j].state,
             \A j \in Jobs : js[j].outcome = jobs[j].outcome,
             \A j \in Jobs : j # q => js[j] = jobs[j]
      PROVE  Sound(js, fam, over)
  <2>1. \A j \in Jobs \ over : js[j] = jobs[j]
    BY <1>3
  <2>2. \A j \in Jobs \ over : js[j].state = "Running" => InStep(js[j], fam[js[j].slot])
    BY <2>1 DEF RunningIsLive, SchedulerInv, JobsIn
  <2>3. \A j \in Jobs \ over : js[j].state = "Queued" => js[j].toks = <<>>
    BY <2>1 DEF WaitingIsUntouched, SchedulerInv, JobsIn
  <2>4. fam \in [Slots -> SlotRecords(Tokens)]
    BY DEF SchedulerInv, TypeOK
  <2>5. \A j \in Jobs : jobs[j].state \notin {"Queued", "Running"} => js[j] = jobs[j]
    BY <1>1, <1>3
  <2>6. QED
    BY <1>3, <2>2, <2>3, <2>4, <2>5 DEF Sound
<1>4. ASSUME NEW toks \in UNION {[1..n -> Tokens] : n \in 0..jobs[q].max},
             Settle([jobs EXCEPT ![q].toks = toks, ![q].reuse = 0], fam,
                    JobsIn("Stopped") \cup {q}, {}, E),
             Tally(1, JobsIn("Stopped") \cup {q}, E)
      PROVE  Pumped(E, {})
  <2> DEFINE js == [jobs EXCEPT ![q].toks = toks, ![q].reuse = 0]
             D  == JobsIn("Stopped") \cup {q}
  <2>1. toks \in Transcripts
    <3>1. PICK n \in 0..jobs[q].max : toks \in [1..n -> Tokens]
      BY <1>4
    <3>2. n \in Nat
      BY <1>1 DEF Job
    <3>3. QED
      BY <3>1, <3>2, SeqDef DEF Transcripts
  <2>2. /\ js \in [Jobs -> Job]
        /\ \A j \in Jobs : js[j].slot = jobs[j].slot /\ js[j].state = jobs[j].state
        /\ \A j \in Jobs : js[j].outcome = jobs[j].outcome
        /\ \A j \in Jobs : j # q => js[j] = jobs[j]
    BY <1>1, <2>1 DEF SchedulerInv, TypeOK, Job
  <2>3. Settle(js, fam, D, {}, E) /\ Tally(1, D, E)
    BY <1>4
  <2> HIDE DEF js
  <2>4. Sound(js, fam, D \cup {} \cup E)
    BY <1>1, <1>2, <1>3, <2>2
  <2>5. count' \in Counters
    BY <1>1, <1>2, <2>3, TallyType DEF SchedulerInv, TypeOK
  <2>6. {} \cap JobsIn("Stopped") = {}
    OBVIOUS
  <2>7. Counted(D, {}, E, {})
    <3>1. q \in D /\ D \cap E = {}
      BY <1>1, ExpiredAreQueued DEF JobsIn
    <3> HIDE DEF D
    <3>2. QED
      BY <2>3, <3>1 DEF Counted
  <2> HIDE DEF D
  <2>8. KeepsContext(js, fam, D \cup {} \cup E)
    <3>1. \A j \in Jobs : js[j].state = "Running" => js[j] = jobs[j]
      BY <1>1, <2>2
    <3>2. QED
      BY <3>1, QuietKeepsContext
  <2>9. QED
    BY <2>2, <2>3, <2>4, <2>5, <2>6, <2>7, <2>8 DEF Pumped
<1>5. ASSUME Settle([jobs EXCEPT ![q].reuse = 0], fam, JobsIn("Stopped"), {q}, E),
             Tally(1, JobsIn("Stopped"), E)
      PROVE  Pumped(E, {})
  <2> DEFINE js == [jobs EXCEPT ![q].reuse = 0]
  <2>1. /\ js \in [Jobs -> Job]
        /\ \A j \in Jobs : js[j].slot = jobs[j].slot /\ js[j].state = jobs[j].state
        /\ \A j \in Jobs : js[j].outcome = jobs[j].outcome
        /\ \A j \in Jobs : j # q => js[j] = jobs[j]
    BY <1>1 DEF SchedulerInv, TypeOK, Job
  <2>2. Settle(js, fam, JobsIn("Stopped"), {q}, E)
    BY <1>5
  <2> HIDE DEF js
  <2>3. Sound(js, fam, JobsIn("Stopped") \cup {q} \cup E)
    BY <1>1, <1>2, <1>3, <2>1
  <2>4. count' \in Counters
    BY <1>2, <1>5, TallyType DEF SchedulerInv, TypeOK
  <2>5. {q} \cap JobsIn("Stopped") = {}
    BY <1>1 DEF JobsIn
  <2>6. Counted(JobsIn("Stopped"), {q}, E, {})
    <3>1. JobsIn("Stopped") \cap ({q} \cup E) = {} /\ {q} \cap E = {}
      BY <1>1, ExpiredAreQueued DEF JobsIn
    <3>2. QED
      BY <1>5, <3>1 DEF Counted
  <2>7. KeepsContext(js, fam, JobsIn("Stopped") \cup {q} \cup E)
    <3>1. \A j \in Jobs : js[j].state = "Running" => js[j] = jobs[j]
      BY <1>1, <2>1
    <3>2. QED
      BY <3>1, QuietKeepsContext
  <2>8. QED
    BY <2>1, <2>2, <2>3, <2>4, <2>5, <2>6, <2>7 DEF Pumped
<1>6. QED
  BY <1>4, <1>5 DEF AdmitWhole
-----------------------------------------------------------------------------
(* A job that decodes has the slot to itself, and the slot has a budget left. *)
LEMMA DecodingOwnsSlot ==
  ASSUME SchedulerInv, NEW j \in Decoding
  PROVE  /\ j \in Jobs /\ jobs[j] \in Job /\ jobs[j].state = "Running"
         /\ fam[jobs[j].slot] \in SlotRecords(Tokens)
         /\ fam[jobs[j].slot].live /\ HasBudget(fam[jobs[j].slot])
         /\ fam[jobs[j].slot].emitted = Len(jobs[j].toks)
         /\ fam[jobs[j].slot].max = jobs[j].max
         /\ DecodingOn(jobs[j].slot) = {j}
<1>1. j \in Jobs /\ jobs[j] \in Job /\ jobs[j].state = "Running" /\ ~Spent(jobs[j])
  BY DEF Decoding, JobsIn, SchedulerInv, TypeOK
<1>2. fam[jobs[j].slot] \in SlotRecords(Tokens)
  BY <1>1 DEF SchedulerInv, TypeOK, Job
<1>3. InStep(jobs[j], fam[jobs[j].slot])
  BY <1>1 DEF SchedulerInv, RunningIsLive, JobsIn
<1>4. HasBudget(fam[jobs[j].slot])
  <2>1. Len(jobs[j].toks) \in Nat /\ jobs[j].max \in Nat
    BY <1>1 DEF Job, Transcripts
  <2>2. QED
    BY <1>1, <1>3, <2>1 DEF InStep, Spent, HasBudget
<1>5. DecodingOn(jobs[j].slot) = {j}
  <2>1. Decoding \subseteq LiveJobs
    BY DEF Decoding, JobsIn, LiveJobs, Live
  <2>2. QED
    BY <2>1 DEF DecodingOn, SlotOwnership, SchedulerInv
<1>6. QED
  BY <1>1, <1>2, <1>3, <1>4, <1>5 DEF InStep

(* pump's decode round: every running job gets its next token. *)
LEMMA DecodeOkPumps ==
  ASSUME SchedulerInv, NEW E \in ExpirySets, NEW tok \in [Decoding -> Tokens],
         NEW stop \in SUBSET Decoding, DecodeOk(E, tok, stop)
  PROVE  Pumped(E, {})
<1> DEFINE js == [j \in Jobs |->
                    IF j \in Decoding
                    THEN [jobs[j] EXCEPT !.toks =
                            Append(@, IF HasBudget(fam[jobs[j].slot]) THEN tok[j] ELSE NoToken)]
                    ELSE jobs[j]]
           sl == [s \in Slots |->
                    IF DecodingOn(s) # {} /\ HasBudget(fam[s])
                    THEN LET j == CHOOSE j \in DecodingOn(s) : TRUE
                         IN SteppedSlot(fam[s], tok[j], j \in stop)
                    ELSE fam[s]]
           last == {j \in Decoding : \/ ~HasBudget(fam[jobs[j].slot])
                                     \/ LastToken(fam[jobs[j].slot], j \in stop)
                                     \/ Spent(js[j])}
           D == JobsIn("Stopped") \cup (JobsIn("Running") \ Decoding) \cup last
           over == D \cup {} \cup E
<1>1. Settle(js, sl, D, {}, E) /\ Tally(0, D, E)
  BY DEF DecodeOk
<1>2. /\ Decoding \subseteq JobsIn("Running")
      /\ over \subseteq LiveJobs /\ D \subseteq Jobs /\ E \subseteq Jobs
  BY ExpiredAreQueued DEF Decoding, JobsIn, LiveJobs, Live
<1>3. \A j \in Jobs : jobs[j] \in Job
  BY DEF SchedulerInv, TypeOK
<1>4. ASSUME NEW j \in Decoding
      PROVE  /\ js[j] \in Job /\ js[j].state = "Running" /\ js[j].slot = jobs[j].slot
             /\ js[j].outcome = jobs[j].outcome
             /\ js[j].max = jobs[j].max /\ Len(js[j].toks) = Len(jobs[j].toks) + 1
  <2>1. j \in Jobs /\ jobs[j] \in Job /\ jobs[j].state = "Running" /\ tok[j] \in Tokens
    BY DecodingOwnsSlot
  <2>2. js[j] = [jobs[j] EXCEPT !.toks = Append(@, tok[j])]
    BY <2>1, DecodingOwnsSlot
  <2>3. /\ Append(jobs[j].toks, tok[j]) \in Transcripts
        /\ Len(Append(jobs[j].toks, tok[j])) = Len(jobs[j].toks) + 1
    BY <2>1, AppendProperties DEF Job, Transcripts
  <2> HIDE DEF js
  <2>4. QED
    BY <2>1, <2>2, <2>3 DEF Job
<1>5. \A j \in Jobs \ Decoding : js[j] = jobs[j]
  OBVIOUS
<1>6. /\ js \in [Jobs -> Job]
      /\ \A j \in Jobs : js[j].slot = jobs[j].slot /\ js[j].state = jobs[j].state
      /\ \A j \in Jobs : js[j].outcome = jobs[j].outcome
  <2>1. \A j \in Jobs : /\ js[j] \in Job /\ js[j].slot = jobs[j].slot
                        /\ js[j].state = jobs[j].state /\ js[j].outcome = jobs[j].outcome
    <3> HIDE DEF js
    <3>1. QED
      BY <1>2, <1>3, <1>4, <1>5 DEF JobsIn
  <2>2. QED
    BY <2>1
<1>7. ASSUME NEW s \in Slots
      PROVE  /\ sl[s] \in SlotRecords(Tokens) /\ sl[s].live = fam[s].live
             /\ \A j \in DecodingOn(s) :
                  /\ sl[s].emitted = fam[s].emitted + 1 /\ sl[s].max = fam[s].max
  <2>1. fam[s] \in SlotRecords(Tokens)
    BY DEF SchedulerInv, TypeOK
  <2>2. CASE DecodingOn(s) = {}
    BY <2>1, <2>2
  <2>3. ASSUME NEW j \in DecodingOn(s)
        PROVE  /\ sl[s] \in SlotRecords(Tokens) /\ sl[s].live = fam[s].live
               /\ sl[s].emitted = fam[s].emitted + 1 /\ sl[s].max = fam[s].max
    <3>1. j \in Decoding /\ jobs[j].slot = s /\ tok[j] \in Tokens
      BY DEF DecodingOn
    <3>2. DecodingOn(s) = {j} /\ HasBudget(fam[s])
      BY <3>1, DecodingOwnsSlot
    <3>3. (CHOOSE k \in DecodingOn(s) : TRUE) = j
      BY <3>2
    <3> DEFINE b == j \in stop
    <3>4. sl[s] = SteppedSlot(fam[s], tok[j], b) /\ b \in BOOLEAN
      BY <3>2, <3>3
    <3> HIDE DEF sl, b
    <3>5. QED
      BY <2>1, <3>1, <3>4, SteppedType
  <2>4. QED
    BY <2>2, <2>3
<1>8. sl \in [Slots -> SlotRecords(Tokens)]
  <2>1. \A s \in Slots : sl[s] \in SlotRecords(Tokens)
    BY <1>7
  <2>2. QED
    BY <2>1
<1>16. \A s \in Slots : DecodingOn(s) = {} => sl[s] = fam[s]
  OBVIOUS
<1>17. ASSUME ContextInv, NEW j \in Decoding
       PROVE  LET new == sl[jobs[j].slot]
              IN  /\ RowsFollow(new)
                  /\ ~LastToken(fam[jobs[j].slot], j \in stop) =>
                       /\ new.history = Transcript(js[j])
                       /\ new.rows = new.history /\ new.absorbed = new.rows
  <2> DEFINE s == jobs[j].slot
             b == j \in stop
  <2>1. /\ j \in Jobs /\ jobs[j] \in Job /\ jobs[j].state = "Running" /\ tok[j] \in Tokens
        /\ s \in Slots /\ fam[s] \in SlotRecords(Tokens) /\ HasBudget(fam[s])
        /\ DecodingOn(s) = {j}
    BY DecodingOwnsSlot DEF Job
  <2>2. sl[s] = SteppedSlot(fam[s], tok[j], b) /\ b \in BOOLEAN
    <3>1. (CHOOSE k \in DecodingOn(s) : TRUE) = j
      BY <2>1
    <3>2. QED
      BY <2>1, <3>1
  <2>3. fam[s].history = Transcript(jobs[j]) /\ fam[s].rows = fam[s].history
        /\ fam[s].absorbed = fam[s].rows
    BY <1>17, <2>1 DEF ContextInv, ContextIsTranscript, JobsIn
  <2>4. Transcript(js[j]) = Append(fam[s].history, tok[j])
    <3>1. js[j].ids = jobs[j].ids /\ js[j].toks = Append(jobs[j].toks, tok[j])
      BY <2>1 DEF Job
    <3>2. jobs[j].ids \in Seq(Tokens) /\ jobs[j].toks \in Seq(Tokens)
      BY <2>1 DEF Job, Transcripts
    <3>3. jobs[j].ids \o Append(jobs[j].toks, tok[j]) = Append(jobs[j].ids \o jobs[j].toks, tok[j])
      <4> HIDE DEF js, sl, over, D, last
      <4>1. \A u, v \in Seq(Tokens), t \in Tokens : u \o Append(v, t) = Append(u \o v, t)
        BY AppendConcat
      <4>2. QED
        BY <2>1, <3>2, <4>1
    <3>4. QED
      BY <2>3, <3>1, <3>3 DEF Transcript
  <2> HIDE DEF sl, js, b, s
  <2>5. /\ RowsFollow(sl[s])
        /\ ~LastToken(fam[s], b) => /\ sl[s].history = Append(fam[s].history, tok[j])
                                    /\ sl[s].rows = sl[s].history /\ sl[s].absorbed = sl[s].rows
    BY <2>1, <2>2, <2>3, SteppedContext
  <2>6. QED
    BY <2>4, <2>5 DEF s, b
<1> HIDE DEF js, sl
<1>9. ASSUME NEW j \in Jobs \ over, js[j].state = "Running"
      PROVE  InStep(js[j], sl[js[j].slot])
  <2>1. j \in Decoding
    BY <1>6, <1>9 DEF JobsIn
  <2>2. j \in DecodingOn(jobs[j].slot) /\ jobs[j].slot \in Slots
    BY <1>3, <2>1 DEF DecodingOn, Job
  <2>3. /\ fam[jobs[j].slot].live
        /\ fam[jobs[j].slot].emitted = Len(jobs[j].toks)
        /\ fam[jobs[j].slot].max = jobs[j].max
    BY <2>1, DecodingOwnsSlot
  <2>4. QED
    BY <1>4, <1>7, <2>1, <2>2, <2>3 DEF InStep
<1>10. \A j \in Jobs : js[j].state = "Queued" => js[j].toks = <<>>
  BY <1>2, <1>5, <1>6 DEF WaitingIsUntouched, SchedulerInv, JobsIn
<1>11. \A s \in Slots : sl[s].live => fam[s].live
  BY <1>7
<1>12. Sound(js, sl, over)
  <2>1. \A j \in Jobs : jobs[j].state \notin {"Queued", "Running"} => js[j] = jobs[j]
    BY <1>2, <1>5 DEF JobsIn
  <2>2. QED
    BY <1>2, <1>6, <1>8, <1>9, <1>10, <1>11, <2>1 DEF Sound
<1>13. count' \in Counters
  <2>1. D \in SUBSET Jobs /\ E \in SUBSET Jobs
    BY <1>2
  <2> HIDE DEF D
  <2>2. QED
    BY <1>1, <2>1, TallyType DEF SchedulerInv, TypeOK
<1>14. Counted(D, {}, E, {})
  <2>1. D \cap E = {}
    BY <1>2, ExpiredAreQueued DEF JobsIn
  <2> HIDE DEF D
  <2>2. QED
    BY <1>1, <2>1 DEF Counted
<1>15. ASSUME ContextInv, NEW s \in Slots
       PROVE  RowsFollow(sl[s])
  <2>1. CASE DecodingOn(s) = {}
    BY <1>15, <1>16, <2>1 DEF ContextInv
  <2>2. CASE DecodingOn(s) # {}
    <3>1. PICK j \in Decoding : jobs[j].slot = s /\ tok[j] \in Tokens
      BY <2>2 DEF DecodingOn
    <3>2. QED
      BY <1>15, <1>17, <3>1
  <2>3. QED
    BY <2>1, <2>2
<1>18. ASSUME ContextInv, NEW j \in Jobs \ over, js[j].state = "Running"
       PROVE  InContext(js[j], sl[js[j].slot])
  <2>1. j \in Decoding /\ j \notin last
    BY <1>6, <1>18 DEF JobsIn
  <2>2. ~LastToken(fam[jobs[j].slot], j \in stop)
    BY <2>1
  <2>3. js[j].slot = jobs[j].slot
    BY <1>6
  <2>4. QED
    BY <1>17, <1>18, <2>1, <2>2, <2>3 DEF InContext
<1>19. KeepsContext(js, sl, over)
  BY <1>15, <1>18 DEF KeepsContext
<1>20. QED
  <2> HIDE DEF D
  <2>1. QED
    BY <1>1, <1>6, <1>12, <1>13, <1>14, <1>19 DEF Pumped

(* pump's decode round: the forward step fails and every running job ends. *)
LEMMA DecodeErrorPumps ==
  ASSUME SchedulerInv, NEW E \in ExpirySets, NEW tok \in [Decoding -> Tokens],
         NEW stop \in SUBSET Decoding, DecodeError(E, tok, stop)
  PROVE  Pumped(E, {})
<1> DEFINE stale == \E j \in Decoding : ~fam[jobs[j].slot].live
           sl == [s \in Slots |->
                    IF ~stale /\ DecodingOn(s) # {} /\ HasBudget(fam[s])
                    THEN LET j == CHOOSE j \in DecodingOn(s) : TRUE
                         IN StepFailedSlot(fam[s], tok[j], j \in stop)
                    ELSE fam[s]]
           D == JobsIn("Stopped") \cup (JobsIn("Running") \ Decoding)
           over == D \cup Decoding \cup E
<1>1. Settle(jobs, sl, D, Decoding, E) /\ Tally(0, D, E)
  BY DEF DecodeError
<1>2. /\ over \in SUBSET LiveJobs /\ D \in SUBSET Jobs /\ E \in SUBSET Jobs
      /\ JobsIn("Running") \subseteq over
  BY ExpiredAreQueued DEF Decoding, JobsIn, LiveJobs, Live
<1>3. ASSUME NEW s \in Slots
      PROVE  sl[s] \in SlotRecords(Tokens) /\ sl[s].live = fam[s].live
  <2>1. fam[s] \in SlotRecords(Tokens)
    BY DEF SchedulerInv, TypeOK
  <2>2. CASE DecodingOn(s) = {}
    BY <2>1, <2>2
  <2>3. ASSUME NEW j \in DecodingOn(s)
        PROVE  sl[s] \in SlotRecords(Tokens) /\ sl[s].live = fam[s].live
    <3>1. j \in Decoding /\ jobs[j].slot = s /\ tok[j] \in Tokens
      BY DEF DecodingOn
    <3>2. (CHOOSE k \in DecodingOn(s) : TRUE) = j
      BY <3>1, DecodingOwnsSlot
    <3> DEFINE b == j \in stop
    <3>3. (sl[s] = fam[s] \/ sl[s] = StepFailedSlot(fam[s], tok[j], b)) /\ b \in BOOLEAN
      <4>1. b \in BOOLEAN
        OBVIOUS
      <4>2. sl[s] = fam[s] \/ sl[s] = StepFailedSlot(fam[s], tok[j], b)
        <5> HIDE DEF stale
        <5>1. QED
          BY <3>2
      <4>3. QED
        BY <4>1, <4>2
    <3> HIDE DEF sl, b
    <3>4. QED
      BY <2>1, <3>1, <3>3, SteppedType
  <2>4. QED
    BY <2>2, <2>3
<1>4. sl \in [Slots -> SlotRecords(Tokens)]
  <2>1. \A s \in Slots : sl[s] \in SlotRecords(Tokens)
    BY <1>3
  <2>2. QED
    BY <2>1
<1>10. fam \in [Slots -> SlotRecords(Tokens)] /\ (~StepMayFail => stale)
  BY DEF SchedulerInv, TypeOK, DecodeError
<1>11. KeepsContext(jobs, sl, over)
  <2>1. CASE stale
    <3>1. sl = fam
      <4> HIDE DEF stale
      <4>1. QED
        BY <1>10, <2>1
    <3>2. QED
      BY <3>1, QuietKeepsContext
  <2>2. CASE StepMayFail
    BY <2>2 DEF KeepsContext
  <2>3. QED
    BY <1>10, <2>1, <2>2
<1> HIDE DEF sl
<1>5. Sound(jobs, sl, over)
  <2>1. \A s \in Slots : sl[s].live => fam[s].live
    BY <1>3
  <2>2. JobsIn("Running") \ over = {}
    BY <1>2
  <2>3. QED
    BY <1>2, <1>4, <2>1, <2>2, QuietIsSound
<1> HIDE DEF D
<1>6. count' \in Counters
  BY <1>1, <1>2, TallyType DEF SchedulerInv, TypeOK
<1>7. Decoding \cap JobsIn("Stopped") = {}
  BY DEF Decoding, JobsIn
<1>8. Counted(D, Decoding, E, {})
  <2>1. D \cap (Decoding \cup E) = {} /\ Decoding \cap E = {} /\ Decoding \subseteq JobsIn("Running")
    BY ExpiredAreQueued DEF D, Decoding, JobsIn
  <2>2. QED
    BY <1>1, <2>1 DEF Counted
<1>9. QED
  BY <1>1, <1>5, <1>6, <1>7, <1>8, <1>11 DEF Pumped
-----------------------------------------------------------------------------
(* A pump expires waiting jobs, ends others soundly, and starts at most the   *)
(* oldest of those that go on waiting.                                       *)
LEMMA PumpSteps ==
  ASSUME SchedulerInv, Pump
  PROVE  \E E \in SUBSET JobsIn("Queued"), started \in SUBSET Jobs :
           /\ Pumped(E, started)
           /\ \A r \in started : r \in JobsIn("Queued") \ E
           /\ \A r \in started : \A q \in JobsIn("Queued") \ E : r <= q
<1>1. ASSUME NEW E \in ExpirySets, PumpAdmit(E)
      PROVE  \E started \in SUBSET Jobs :
               /\ Pumped(E, started)
               /\ \A r \in started : r \in JobsIn("Queued") \ E
               /\ \A r \in started : \A q \in JobsIn("Queued") \ E : r <= q
  <2> DEFINE first == FirstOf(JobsIn("Queued") \ E)
  <2>1. /\ JobsIn("Queued") \ E # {}
        /\ AdmitOk(first, E) \/ AdmitError(first, E) \/ AdmitWhole(first, E)
    BY <1>1 DEF PumpAdmit
  <2>2. JobsIn("Queued") \ E \in SUBSET Jobs
    BY DEF JobsIn
  <2>3. first \in JobsIn("Queued") \ E /\ \A q \in JobsIn("Queued") \ E : first <= q
    BY <2>1, <2>2, FirstIsOldest
  <2> HIDE DEF first
  <2>4. CASE AdmitOk(first, E)
    <3>1. Pumped(E, {first})
      BY <2>3, <2>4, AdmitOkPumps
    <3>2. QED
      BY <2>2, <2>3, <3>1
  <2>5. CASE AdmitError(first, E)
    <3>1. Pumped(E, {})
      BY <2>3, <2>5, AdmitErrorPumps
    <3>2. QED
      BY <3>1
  <2>6. CASE AdmitWhole(first, E)
    <3>1. Pumped(E, {})
      BY <2>3, <2>6, AdmitWholePumps
    <3>2. QED
      BY <3>1
  <2>7. QED
    BY <2>1, <2>4, <2>5, <2>6
<1>2. ASSUME NEW E \in ExpirySets, PumpDecode(E)
      PROVE  Pumped(E, {})
  BY <1>2, DecodeOkPumps, DecodeErrorPumps DEF PumpDecode
<1>3. PICK E \in ExpirySets : PumpAdmit(E) \/ PumpDecode(E)
  BY DEF Pump
<1>4. E \in SUBSET JobsIn("Queued")
  BY ExpiredAreQueued
<1>5. CASE PumpAdmit(E)
  BY <1>1, <1>4, <1>5
<1>6. CASE PumpDecode(E)
  <2>1. Pumped(E, {}) /\ {} \in SUBSET Jobs
    BY <1>2, <1>6
  <2>2. QED
    BY <1>4, <2>1
<1>7. QED
  BY <1>3, <1>5, <1>6

(* Every step of the scheduler keeps the invariant. *)
LEMMA StepInv == SchedulerInv /\ [Next]_vars => SchedulerInv'
<1> SUFFICES ASSUME SchedulerInv, [Next]_vars PROVE SchedulerInv'
  OBVIOUS
<1>1. ASSUME NEW s \in Slots, NEW ids \in Prompts, NEW max \in Budgets, NEW reuse \in Reuses,
             Submit(s, ids, max, reuse)
      PROVE  SchedulerInv'
  BY <1>1, SubmitInv
<1>2. CASE RejectFull
  <2>1. /\ UNCHANGED <<jobs, nextId, busy, hist, prefix, fam>>
        /\ count' = [count EXCEPT !.rejected = @ + 1]
    BY <1>2 DEF RejectFull
  <2>2. count' \in Counters
    BY <2>1 DEF SchedulerInv, TypeOK, Counters
  <2>3. QED
    BY <2>1, <2>2 DEF SchedulerInv, TypeOK, IdsInOrder, WaitingIsUntouched, UnjudgedWhileLive,
                      SlotOwnership, RunningIsLive, NoOrphanGeneration, JobsIn, LiveJobs
<1>3. ASSUME NEW j \in Jobs, Stop(j) \/ Cancel(j)
      PROVE  SchedulerInv'
  BY <1>3, StopInv, CancelInv
<1>4. CASE Pump
  <2>1. PICK E, started : Pumped(E, started)
    BY <1>4, PumpSteps
  <2>2. QED
    BY <2>1, SettleKeepsInv DEF Pumped
<1>5. CASE UNCHANGED vars
  BY <1>5 DEF vars, SchedulerInv, TypeOK, IdsInOrder, WaitingIsUntouched, UnjudgedWhileLive,
              SlotOwnership, RunningIsLive, NoOrphanGeneration, JobsIn, LiveJobs
<1>6. QED
  BY <1>1, <1>2, <1>3, <1>4, <1>5 DEF Next

(* In every reachable state the scheduler's invariant holds. *)
THEOREM Invariant == Spec => []SchedulerInv
<1>1. QED
  BY InitInv, StepInv, PTL DEF Spec

(* The scheduler's state is always of its type: no -1 token ever enters a    *)
(* transcript, no counter goes below zero.                                   *)
THEOREM TypeCorrect == Spec => []TypeOK
<1>1. SchedulerInv => TypeOK
  BY DEF SchedulerInv
<1>2. QED
  BY Invariant, <1>1, PTL

(* No slot is ever shared, leaked or freed under its holder. *)
THEOREM SlotsAreOwned == Spec => []SlotOwnership
<1>1. SchedulerInv => SlotOwnership
  BY DEF SchedulerInv
<1>2. QED
  BY Invariant, <1>1, PTL

(* next_token is never called on a slot without a live generation in step    *)
(* with its job.                                                             *)
THEOREM RunningJobsAreLive == Spec => []RunningIsLive
<1>1. SchedulerInv => RunningIsLive
  BY DEF SchedulerInv
<1>2. QED
  BY Invariant, <1>1, PTL

(* No generation outlives its job. *)
THEOREM GenerationsAreOwned == Spec => []NoOrphanGeneration
<1>1. SchedulerInv => NoOrphanGeneration
  BY DEF SchedulerInv
<1>2. QED
  BY Invariant, <1>1, PTL
-----------------------------------------------------------------------------
(* What submit, stop and cancel leave alone of running jobs and of slots. *)
LEMMA ClientsKeepSlots ==
  ASSUME SchedulerInv,
         \/ \E s \in Slots, ids \in Prompts, max \in Budgets, reuse \in Reuses :
              Submit(s, ids, max, reuse)
         \/ RejectFull
         \/ \E i \in Jobs : Stop(i) \/ Cancel(i)
         \/ UNCHANGED vars
  PROVE  /\ \A s \in Slots : fam'[s] \in {fam[s], EndedSlot(fam[s])}
         /\ \A j \in Jobs : jobs'[j].state = "Running" =>
              jobs'[j] = jobs[j] /\ fam'[jobs[j].slot] = fam[jobs[j].slot]
<1>1. jobs \in [Jobs -> Job] /\ fam \in [Slots -> SlotRecords(Tokens)]
  BY DEF SchedulerInv, TypeOK
<1>2. ASSUME NEW s \in Slots, NEW ids \in Prompts, NEW max \in Budgets, NEW reuse \in Reuses,
             Submit(s, ids, max, reuse)
      PROVE  /\ fam' = fam
             /\ \A j \in Jobs : jobs'[j].state = "Running" => jobs'[j] = jobs[j]
  <2>1. fam' = fam /\ \A j \in Jobs : j # nextId => jobs'[j] = jobs[j]
    BY <1>1, <1>2 DEF Submit
  <2>2. nextId \in Jobs => jobs'[nextId].state = "Queued"
    BY <1>1, <1>2 DEF Submit
  <2>3. QED
    BY <2>1, <2>2
<1>3. CASE RejectFull \/ UNCHANGED vars
  BY <1>3 DEF RejectFull, vars
<1>4. ASSUME NEW i \in Jobs, Stop(i)
      PROVE  /\ fam' = fam
             /\ \A j \in Jobs : jobs'[j].state = "Running" => jobs'[j] = jobs[j]
  BY <1>1, <1>4 DEF Stop, Job
<1>5. ASSUME NEW i \in Jobs, Cancel(i)
      PROVE  /\ \A s \in Slots : fam'[s] \in {fam[s], EndedSlot(fam[s])}
             /\ \A j \in Jobs : jobs'[j].state = "Running" =>
                  jobs'[j] = jobs[j] /\ fam'[jobs[j].slot] = fam[jobs[j].slot]
  <2>1. /\ Live(jobs[i]) /\ i \in LiveJobs /\ jobs[i].slot \in Slots
        /\ jobs'[i].state = "Cancelled" /\ \A j \in Jobs : j # i => jobs'[j] = jobs[j]
        /\ fam' = [fam EXCEPT ![jobs[i].slot] = EndedSlot(@)]
    BY <1>1, <1>5 DEF Cancel, Job, LiveJobs
  <2>2. \A j \in Jobs : jobs'[j].state = "Running" => j # i /\ jobs'[j] = jobs[j] /\ j \in LiveJobs
    BY <2>1 DEF LiveJobs, Live
  <2>3. \A j \in LiveJobs : j # i => jobs[j].slot # jobs[i].slot /\ jobs[j].slot \in Slots
    BY <1>1, <2>1 DEF SlotOwnership, SchedulerInv, LiveJobs, Job
  <2>4. QED
    BY <1>1, <2>1, <2>2, <2>3
<1>6. QED
  BY <1>2, <1>3, <1>4, <1>5

(* As long as no forward step fails, every step keeps the context right. *)
LEMMA ContextStep ==
  ASSUME SchedulerInv, ContextInv, ~StepMayFail, [Next]_vars
  PROVE  ContextInv'
<1>1. jobs \in [Jobs -> Job] /\ fam \in [Slots -> SlotRecords(Tokens)]
  BY DEF SchedulerInv, TypeOK
<1>2. \A sl \in SlotRecords(Tokens) : RowsFollow(sl) => RowsFollow(EndedSlot(sl))
  BY DEF RowsFollow, EndedSlot, SlotRecords
<1>3. CASE ~Pump
  <2>1. /\ \A s \in Slots : fam'[s] \in {fam[s], EndedSlot(fam[s])}
        /\ \A j \in Jobs : jobs'[j].state = "Running" =>
             jobs'[j] = jobs[j] /\ fam'[jobs[j].slot] = fam[jobs[j].slot]
    BY <1>3, ClientsKeepSlots DEF Next
  <2>2. \A s \in Slots : RowsFollow(fam'[s])
    BY <1>1, <1>2, <2>1 DEF ContextInv
  <2>3. ContextIsTranscript'
    BY <2>1 DEF ContextInv, ContextIsTranscript, JobsIn
  <2>4. QED
    BY <2>2, <2>3 DEF ContextInv
<1>4. CASE Pump
  <2>1. PICK E, started : Pumped(E, started)
    BY <1>4, PumpSteps
  <2>2. PICK js, sl, D, F : /\ Sound(js, sl, D \cup F \cup E)
                            /\ KeepsContext(js, sl, D \cup F \cup E)
                            /\ Settle(js, sl, D, F, E)
    BY <2>1 DEF Pumped
  <2> DEFINE over == D \cup F \cup E
  <2>3. /\ \A s \in Slots : RowsFollow(sl[s])
        /\ \A j \in Jobs \ over : js[j].state = "Running" => InContext(js[j], sl[js[j].slot])
    BY <2>2 DEF KeepsContext
  <2>4. /\ sl \in [Slots -> SlotRecords(Tokens)] /\ over \subseteq LiveJobs
        /\ \A j \in Jobs : js[j].slot = jobs[j].slot
        /\ \A j \in Jobs : js[j].state = "Running" => jobs[j].state \in {"Queued", "Running"}
    BY <2>2 DEF Sound
  <2>5. /\ \A j \in over : jobs'[j].state = "Done"
        /\ \A j \in Jobs \ over : jobs'[j] = js[j]
        /\ \A s \in Slots : (\E j \in over : jobs[j].slot = s) => fam'[s] = EndedSlot(sl[s])
        /\ \A s \in Slots : ~(\E j \in over : jobs[j].slot = s) => fam'[s] = sl[s]
    BY <2>2, SettleEffect
  <2> HIDE DEF over
  <2>6. \A s \in Slots : RowsFollow(fam'[s])
    BY <1>2, <2>3, <2>4, <2>5
  <2>7. ASSUME NEW j \in Jobs, jobs'[j].state = "Running"
        PROVE  InContext(jobs'[j], fam'[jobs'[j].slot])
    <3>1. j \in Jobs \ over /\ jobs'[j] = js[j] /\ js[j].slot = jobs[j].slot
      BY <2>4, <2>5, <2>7
    <3>2. j \in LiveJobs /\ jobs[j].slot \in Slots
      BY <1>1, <2>4, <2>7, <3>1 DEF LiveJobs, Live, Job
    <3>3. ~\E k \in over : jobs[k].slot = jobs[j].slot
      BY <2>4, <3>1, <3>2 DEF SlotOwnership, SchedulerInv
    <3>4. QED
      BY <2>3, <2>5, <2>7, <3>1, <3>2, <3>3
  <2>8. ContextIsTranscript'
    BY <2>7 DEF InContext, ContextIsTranscript, JobsIn
  <2>9. QED
    BY <2>6, <2>8 DEF ContextInv
<1>5. QED
  BY <1>3, <1>4

(* Unless a forward step fails half way, every token is sampled from a cache  *)
(* of exactly its job's transcript, whatever was left in the slot and whatever *)
(* prefix_reuse the client passed.  MCSchedTaintDoc shows that the hypothesis *)
(* is needed.                                                                *)
THEOREM ContextIsRight == ASSUME ~StepMayFail PROVE Spec => []ContextIsTranscript
<1>1. Init => ContextInv
  BY DEF Init, ContextInv, ContextIsTranscript, JobsIn, RowsFollow, IsInitialOf, EmptySlot
<1>2. SchedulerInv /\ ContextInv /\ [Next]_vars => ContextInv'
  BY ContextStep
<1>3. ContextInv => ContextIsTranscript
  BY DEF ContextInv
<1>4. QED
  BY Invariant, <1>1, <1>2, <1>3, PTL DEF Spec
-----------------------------------------------------------------------------
(* What the counters count.  Every admission has left the queue, and whoever  *)
(* runs or has failed was admitted.                                          *)
CountInv ==
  /\ count.completed = Cardinality(EndedWith("Ok"))
  /\ count.timedOut = Cardinality(EndedWith("Timeout"))
  /\ count.cancelled = Cardinality(JobsIn("Cancelled"))
  /\ Cardinality(JobsIn("Running") \cup EndedWith("Error")) <= count.admitted
  /\ count.admitted + Cardinality(JobsIn("Queued")) <= nextId - 1

(* Sets of jobs: a part is not larger, and disjoint sets add up. *)
LEMMA CountOfPart ==
  ASSUME NEW S \in SUBSET Jobs, NEW R \in SUBSET S
  PROVE  Cardinality(R) <= Cardinality(S)
BY JobsAreFinite, FS_Subset

LEMMA CountOfUnion ==
  ASSUME NEW S \in SUBSET Jobs, NEW R \in SUBSET Jobs, S \cap R = {}
  PROVE  Cardinality(S \cup R) = Cardinality(S) + Cardinality(R)
<1>1. Cardinality(S \cup R) = Cardinality(S) + Cardinality(R) - Cardinality(S \cap R)
  BY JobsAreFinite, FS_Union
<1>2. Cardinality(S \cap R) = 0 /\ Cardinality(S) \in Nat /\ Cardinality(R) \in Nat
  BY JobsAreFinite, FS_EmptySet
<1>3. QED
  BY <1>1, <1>2

LEMMA CountOfOne ==
  ASSUME NEW S \in SUBSET Jobs, NEW q \in Jobs \ S
  PROVE  Cardinality(S \cup {q}) = Cardinality(S) + 1
BY JobsAreFinite, FS_AddElement

(* The counters add up when they count what CountInv says. *)
LEMMA CountsAddUp == SchedulerInv /\ CountInv => Accounting
<1> SUFFICES ASSUME SchedulerInv, CountInv PROVE Accounting
  OBVIOUS
<1> DEFINE Ok == EndedWith("Ok")
           Late == EndedWith("Timeout")
           Bad == EndedWith("Error")
           Gone == JobsIn("Cancelled")
<1>1. nextId \in 1..MaxJobs + 1 /\ MaxJobs \in Nat /\ \A j \in Jobs : jobs[j] \in Job
  BY SchedulerAssumption DEF SchedulerInv, TypeOK
<1>2. 1..nextId - 1 = (((LiveJobs \cup Ok) \cup Late) \cup Gone) \cup Bad
  <2>1. \A j \in Jobs : j < nextId <=> jobs[j].state # "None"
    BY <1>1 DEF SchedulerInv, IdsInOrder, Jobs
  <2>2. \A j \in Jobs : jobs[j].state # "None" <=>
                          \/ j \in LiveJobs \/ j \in Ok \/ j \in Late \/ j \in Gone \/ j \in Bad
    BY <1>1 DEF Job, JobStates, Outcomes, LiveJobs, Live, EndedWith, JobsIn
  <2>3. LiveJobs \cup Ok \cup Late \cup Gone \cup Bad \subseteq Jobs
    BY DEF LiveJobs, EndedWith, JobsIn
  <2>4. \A j : j \in 1..nextId - 1 <=> j \in Jobs /\ j < nextId
    BY <1>1 DEF Jobs
  <2> HIDE DEF Ok, Late, Bad, Gone
  <2>5. QED
    BY <2>1, <2>2, <2>3, <2>4
<1>3. /\ LiveJobs \in SUBSET Jobs /\ Ok \in SUBSET Jobs /\ Late \in SUBSET Jobs
      /\ Gone \in SUBSET Jobs /\ Bad \in SUBSET Jobs
  BY DEF LiveJobs, EndedWith, JobsIn
<1>4. /\ LiveJobs \cap Ok = {} /\ (LiveJobs \cup Ok) \cap Late = {}
      /\ (LiveJobs \cup Ok \cup Late) \cap Gone = {}
      /\ (LiveJobs \cup Ok \cup Late \cup Gone) \cap Bad = {}
  BY DEF LiveJobs, Live, EndedWith, JobsIn
<1>5. Cardinality(1..nextId - 1) = nextId - 1
  <2>1. 1 \in Int /\ nextId - 1 \in Int /\ nextId - 1 >= 0
    BY <1>1
  <2>2. Cardinality(1..nextId - 1) = IF 1 > nextId - 1 THEN 0 ELSE nextId - 1 - 1 + 1
    BY <2>1, FS_Interval
  <2>3. QED
    BY <2>1, <2>2
<1>6. /\ count.completed = Cardinality(Ok) /\ count.timedOut = Cardinality(Late)
      /\ count.cancelled = Cardinality(Gone)
  BY DEF CountInv
<1>7. nextId - 1 = Cardinality(LiveJobs) + count.completed + count.timedOut + count.cancelled
                     + Cardinality(Bad)
  <2> HIDE DEF Ok, Late, Bad, Gone
  <2>1. Cardinality(LiveJobs \cup Ok) = Cardinality(LiveJobs) + Cardinality(Ok)
    BY <1>3, <1>4, CountOfUnion
  <2>2. Cardinality((LiveJobs \cup Ok) \cup Late) = Cardinality(LiveJobs \cup Ok) + Cardinality(Late)
    BY <1>3, <1>4, CountOfUnion
  <2>3. Cardinality(((LiveJobs \cup Ok) \cup Late) \cup Gone) =
          Cardinality((LiveJobs \cup Ok) \cup Late) + Cardinality(Gone)
    BY <1>3, <1>4, CountOfUnion
  <2>4. Cardinality((((LiveJobs \cup Ok) \cup Late) \cup Gone) \cup Bad) =
          Cardinality(((LiveJobs \cup Ok) \cup Late) \cup Gone) + Cardinality(Bad)
    BY <1>3, <1>4, CountOfUnion
  <2>5. QED
    BY <1>2, <1>5, <1>6, <2>1, <2>2, <2>3, <2>4
<1>8. count.admitted <= nextId - 1
  <2>1. Cardinality(JobsIn("Queued")) \in Nat
    BY JobsAreFinite DEF JobsIn
  <2>2. count.admitted \in Nat
    BY DEF SchedulerInv, TypeOK, Counters
  <2>3. QED
    BY <1>1, <2>1, <2>2 DEF CountInv
<1>9. QED
  BY <1>7, <1>8 DEF CountInv, Accounting

(* submit, stop, cancel and a refusal count right. *)
LEMMA ClientsCount ==
  ASSUME SchedulerInv, CountInv,
         \/ \E s \in Slots, ids \in Prompts, max \in Budgets, reuse \in Reuses :
              Submit(s, ids, max, reuse)
         \/ RejectFull
         \/ \E i \in Jobs : Stop(i) \/ Cancel(i)
         \/ UNCHANGED vars
  PROVE  CountInv'
<1>1. jobs \in [Jobs -> Job] /\ count \in Counters /\ nextId \in Nat
  BY SchedulerAssumption DEF SchedulerInv, TypeOK
<1>2. \A st, o : /\ JobsIn(st) \in SUBSET Jobs /\ EndedWith(o) \in SUBSET Jobs
                 /\ JobsIn(st)' \in SUBSET Jobs /\ EndedWith(o)' \in SUBSET Jobs
  BY DEF JobsIn, EndedWith
<1>3. ASSUME NEW s \in Slots, NEW ids \in Prompts, NEW max \in Budgets, NEW reuse \in Reuses,
             Submit(s, ids, max, reuse)
      PROVE  CountInv'
  <2>1. /\ nextId \in Jobs /\ jobs'[nextId].state = "Queued" /\ nextId' = nextId + 1
        /\ count' = count /\ \A j \in Jobs : j # nextId => jobs'[j] = jobs[j]
    BY <1>1, <1>3, SchedulerAssumption DEF Submit, SchedulerInv, TypeOK, Jobs
  <2>2. jobs[nextId].state = "None"
    BY <2>1, <1>1 DEF SchedulerInv, IdsInOrder, Jobs
  <2>3. /\ JobsIn("Queued")' = JobsIn("Queued") \cup {nextId} /\ nextId \notin JobsIn("Queued")
        /\ EndedWith("Ok")' = EndedWith("Ok") /\ EndedWith("Timeout")' = EndedWith("Timeout")
        /\ JobsIn("Cancelled")' = JobsIn("Cancelled")
        /\ (JobsIn("Running") \cup EndedWith("Error"))' = JobsIn("Running") \cup EndedWith("Error")
    BY <2>1, <2>2 DEF JobsIn, EndedWith
  <2>4. Cardinality(JobsIn("Queued")') = Cardinality(JobsIn("Queued")) + 1
    BY <1>2, <2>1, <2>3, CountOfOne
  <2>5. Cardinality(JobsIn("Queued")) \in Nat /\ count.admitted \in Nat
    BY <1>1, <1>2, JobsAreFinite DEF Counters
  <2>6. count'.admitted + Cardinality(JobsIn("Queued")') <= nextId' - 1
    BY <1>1, <2>1, <2>4, <2>5 DEF CountInv
  <2>7. QED
    BY <2>1, <2>3, <2>6 DEF CountInv
<1>4. CASE RejectFull \/ UNCHANGED vars
  <2>1. /\ jobs' = jobs /\ nextId' = nextId
        /\ count'.completed = count.completed /\ count'.timedOut = count.timedOut
        /\ count'.cancelled = count.cancelled /\ count'.admitted = count.admitted
    BY <1>1, <1>4 DEF RejectFull, vars, Counters
  <2>2. /\ EndedWith("Ok")' = EndedWith("Ok") /\ EndedWith("Timeout")' = EndedWith("Timeout")
        /\ JobsIn("Cancelled")' = JobsIn("Cancelled") /\ JobsIn("Queued")' = JobsIn("Queued")
        /\ (JobsIn("Running") \cup EndedWith("Error"))' = JobsIn("Running") \cup EndedWith("Error")
    BY <2>1 DEF JobsIn, EndedWith
  <2>3. QED
    BY <2>1, <2>2 DEF CountInv
<1>5. ASSUME NEW i \in Jobs, Stop(i) \/ Cancel(i)
      PROVE  CountInv'
  <2>1. /\ Live(jobs[i]) /\ nextId' = nextId /\ \A j \in Jobs : j # i => jobs'[j] = jobs[j]
        /\ \/ jobs'[i].state = "Stopped" /\ count' = count
           \/ jobs'[i].state = "Cancelled" /\ count' = [count EXCEPT !.cancelled = @ + 1]
    BY <1>1, <1>5 DEF Stop, Cancel, Live, Job
  <2>2. /\ JobsIn("Queued")' \in SUBSET JobsIn("Queued")
        /\ EndedWith("Ok")' = EndedWith("Ok") /\ EndedWith("Timeout")' = EndedWith("Timeout")
        /\ JobsIn("Running")' \subseteq JobsIn("Running") /\ EndedWith("Error")' = EndedWith("Error")
    BY <2>1 DEF JobsIn, EndedWith, Live
  <2>3. /\ Cardinality(JobsIn("Queued")') <= Cardinality(JobsIn("Queued"))
        /\ Cardinality((JobsIn("Running") \cup EndedWith("Error"))') <=
             Cardinality(JobsIn("Running") \cup EndedWith("Error"))
    BY <1>2, <2>2, CountOfPart
  <2>4. /\ Cardinality(JobsIn("Queued")') \in Nat /\ Cardinality(JobsIn("Queued")) \in Nat
        /\ Cardinality((JobsIn("Running") \cup EndedWith("Error"))') \in Nat
        /\ Cardinality(JobsIn("Running") \cup EndedWith("Error")) \in Nat
        /\ Cardinality(JobsIn("Cancelled")) \in Nat
    BY <1>2, JobsAreFinite
  <2>5. /\ count'.completed = count.completed /\ count'.timedOut = count.timedOut
        /\ count'.admitted = count.admitted /\ count.admitted \in Nat
    BY <1>1, <2>1 DEF Counters
  <2>6. count'.cancelled = Cardinality(JobsIn("Cancelled")')
    <3>1. CASE jobs'[i].state = "Stopped" /\ count' = count
      <4>1. JobsIn("Cancelled")' = JobsIn("Cancelled")
        BY <2>1, <3>1 DEF JobsIn, Live
      <4>2. QED
        BY <3>1, <4>1 DEF CountInv
    <3>2. CASE jobs'[i].state = "Cancelled" /\ count' = [count EXCEPT !.cancelled = @ + 1]
      <4>1. JobsIn("Cancelled")' = JobsIn("Cancelled") \cup {i} /\ i \notin JobsIn("Cancelled")
        BY <2>1, <3>2 DEF JobsIn, Live
      <4>2. Cardinality(JobsIn("Cancelled")') = Cardinality(JobsIn("Cancelled")) + 1
        BY <1>2, <4>1, CountOfOne
      <4>3. QED
        BY <1>1, <3>2, <4>2 DEF CountInv, Counters
    <3>3. QED
      BY <2>1, <3>1, <3>2
  <2>7. QED
    BY <1>1, <2>1, <2>2, <2>3, <2>4, <2>5, <2>6 DEF CountInv
<1>6. QED
  BY <1>3, <1>4, <1>5

(* A pump counts right: what it ends, what it starts, and no one twice. *)
LEMMA PumpCounts ==
  ASSUME SchedulerInv, CountInv, NEW E \in SUBSET JobsIn("Queued"), NEW started,
         Pumped(E, started)
  PROVE  CountInv'
<1>1. PICK js, sl, D, F :
        /\ Sound(js, sl, D \cup F \cup E)
        /\ Counted(D, F, E, started)
        /\ Settle(js, sl, D, F, E)
        /\ started \cap (D \cup F \cup E) = {}
        /\ \A j \in Jobs : js[j].state = IF j \in started THEN "Running" ELSE jobs[j].state
  BY DEF Pumped
<1>2. /\ D \cup F \cup E \subseteq LiveJobs /\ LiveJobs \subseteq Jobs /\ nextId' = nextId
      /\ \A j \in Jobs : js[j] \in Job /\ js[j].outcome = jobs[j].outcome
  BY <1>1 DEF Sound, LiveJobs, Settle
<1>3. D \cap F = {} /\ D \cap E = {} /\ F \cap E = {}
  BY <1>1 DEF Counted
<1>4. \A j \in Jobs :
        /\ j \in D => jobs'[j].state = "Done" /\ jobs'[j].outcome = "Ok"
        /\ j \in F => jobs'[j].state = "Done" /\ jobs'[j].outcome = "Error"
        /\ j \in E => jobs'[j].state = "Done" /\ jobs'[j].outcome = "Timeout"
        /\ j \notin D \cup F \cup E => jobs'[j] = js[j]
  <2>1. \A j \in D : jobs[j].outcome = "Ok"
    BY <1>2 DEF SchedulerInv, UnjudgedWhileLive
  <2>2. QED
    BY <1>1, <1>2, <1>3, <2>1 DEF Settle, Job
<1>5. /\ EndedWith("Ok")' = EndedWith("Ok") \cup D /\ EndedWith("Ok") \cap D = {}
      /\ EndedWith("Timeout")' = EndedWith("Timeout") \cup E /\ EndedWith("Timeout") \cap E = {}
      /\ EndedWith("Error")' = EndedWith("Error") \cup F
      /\ JobsIn("Cancelled")' = JobsIn("Cancelled")
  <2>1. \A j \in D \cup F \cup E : j \in Jobs /\ Live(jobs[j])
    BY <1>2 DEF LiveJobs
  <2>2. \A j \in started : j \in Jobs => js[j].state = "Running"
    BY <1>1
  <2>3. \A j \in Jobs : jobs[j].state \notin {"Queued", "Running"} => js[j] = jobs[j]
    BY <1>1 DEF Sound
  <2>4. \A j \in Jobs : js[j].state \in {"Done", "Cancelled"} <=> jobs[j].state \in {"Done", "Cancelled"}
    BY <1>1, <2>3 DEF Sound
  <2>5. QED
    BY <1>2, <1>3, <1>4, <2>1, <2>3, <2>4 DEF EndedWith, JobsIn, Live
<1>6. /\ JobsIn("Queued")' \subseteq JobsIn("Queued") \ (D \cup F \cup E \cup started)
      /\ JobsIn("Running")' \subseteq JobsIn("Running") \cup started
  BY <1>1, <1>2, <1>4 DEF JobsIn
<1>7. \A st, o : /\ JobsIn(st) \in SUBSET Jobs /\ EndedWith(o) \in SUBSET Jobs
                 /\ JobsIn(st)' \in SUBSET Jobs /\ EndedWith(o)' \in SUBSET Jobs
  BY DEF JobsIn, EndedWith
<1>8. /\ Cardinality(EndedWith("Ok")') = Cardinality(EndedWith("Ok")) + Cardinality(D)
      /\ Cardinality(EndedWith("Timeout")') = Cardinality(EndedWith("Timeout")) + Cardinality(E)
  <2>1. D \in SUBSET Jobs /\ E \in SUBSET Jobs
    BY <1>2
  <2>2. QED
    BY <1>5, <1>7, <2>1, CountOfUnion
<1>9. count \in Counters /\ nextId \in Nat
  BY SchedulerAssumption DEF SchedulerInv, TypeOK
<1>10. \A n \in Nat : Tally(n, D, E) =>
         /\ count'.completed = count.completed + Cardinality(D)
         /\ count'.timedOut = count.timedOut + Cardinality(E)
         /\ count'.cancelled = count.cancelled /\ count'.admitted = count.admitted + n
  BY <1>9 DEF Tally, Counters
<1> DEFINE bad == JobsIn("Running") \cup EndedWith("Error")
<1>11. /\ bad \in SUBSET Jobs /\ bad' \in SUBSET Jobs
       /\ Cardinality(bad) \in Nat /\ Cardinality(bad') \in Nat
       /\ Cardinality(JobsIn("Queued")) \in Nat /\ Cardinality(JobsIn("Queued")') \in Nat
       /\ count.admitted \in Nat
  <2>1. bad \in SUBSET Jobs /\ bad' \in SUBSET Jobs
    BY <1>7
  <2>2. QED
    BY <1>7, <1>9, <2>1, JobsAreFinite DEF Counters
<1>12. CASE Tally(0, D, E) /\ started = {} /\ F \subseteq JobsIn("Running")
  <2>1. bad' \in SUBSET bad /\ JobsIn("Queued")' \in SUBSET JobsIn("Queued")
    BY <1>5, <1>6, <1>12
  <2> HIDE DEF bad
  <2>2. /\ Cardinality(bad') <= Cardinality(bad)
        /\ Cardinality(JobsIn("Queued")') <= Cardinality(JobsIn("Queued"))
    BY <1>7, <1>11, <2>1, CountOfPart
  <2>3. QED
    BY <1>2, <1>5, <1>8, <1>9, <1>10, <1>11, <1>12, <2>2 DEF CountInv, bad
<1>13. ASSUME Tally(1, D, E), NEW q \in JobsIn("Queued") \ E,
              q \in D \cup F \cup started, F \cup started \subseteq {q}
       PROVE  CountInv'
  <2>1. q \in Jobs /\ q \notin bad
    BY DEF bad, JobsIn, EndedWith
  <2>2. bad' \in SUBSET (bad \cup {q})
    BY <1>5, <1>6, <1>13
  <2>3. JobsIn("Queued")' \in SUBSET (JobsIn("Queued") \ {q})
    BY <1>6, <1>13
  <2> HIDE DEF bad
  <2>4. Cardinality(bad') <= Cardinality(bad) + 1
    <3>1. Cardinality(bad \cup {q}) = Cardinality(bad) + 1
      BY <1>11, <2>1, CountOfOne
    <3>2. Cardinality(bad') <= Cardinality(bad \cup {q})
      BY <1>11, <2>1, <2>2, CountOfPart
    <3>3. QED
      BY <3>1, <3>2
  <2>5. Cardinality(JobsIn("Queued")') + 1 <= Cardinality(JobsIn("Queued"))
    <3> DEFINE rest == JobsIn("Queued") \ {q}
    <3>1. rest \in SUBSET Jobs /\ JobsIn("Queued") = rest \cup {q} /\ q \notin rest
      BY <1>7, <1>13
    <3> HIDE DEF rest
    <3>2. Cardinality(JobsIn("Queued")) = Cardinality(rest) + 1
      BY <2>1, <3>1, CountOfOne
    <3>3. Cardinality(JobsIn("Queued")') <= Cardinality(rest) /\ Cardinality(rest) \in Nat
      BY <2>3, <3>1, CountOfPart, JobsAreFinite DEF rest
    <3>4. QED
      BY <1>11, <3>2, <3>3
  <2>6. QED
    BY <1>2, <1>5, <1>8, <1>9, <1>10, <1>11, <1>13, <2>4, <2>5 DEF CountInv, bad
<1>14. QED
  BY <1>1, <1>12, <1>13 DEF Counted

(* Every submitted job is live or counted once, except the failed ones. *)
THEOREM CountersAddUp == Spec => []Accounting
<1>1. Init => CountInv
  <2> SUFFICES ASSUME Init PROVE CountInv
    OBVIOUS
  <2>1. \A j \in Jobs : jobs[j].state = "None"
    BY DEF Init
  <2>2. /\ EndedWith("Ok") = {} /\ EndedWith("Timeout") = {} /\ JobsIn("Cancelled") = {}
        /\ JobsIn("Running") \cup EndedWith("Error") = {} /\ JobsIn("Queued") = {}
    BY <2>1 DEF EndedWith, JobsIn
  <2>3. Cardinality({}) = 0
    BY FS_EmptySet
  <2>4. /\ count.completed = 0 /\ count.timedOut = 0 /\ count.cancelled = 0
        /\ count.admitted = 0 /\ nextId = 1
    BY DEF Init
  <2>5. /\ Cardinality(EndedWith("Ok")) = 0 /\ Cardinality(EndedWith("Timeout")) = 0
        /\ Cardinality(JobsIn("Cancelled")) = 0 /\ Cardinality(JobsIn("Queued")) = 0
        /\ Cardinality(JobsIn("Running") \cup EndedWith("Error")) = 0
    BY <2>2, <2>3
  <2>6. QED
    BY <2>4, <2>5 DEF CountInv
<1>2. SchedulerInv /\ CountInv /\ [Next]_vars => CountInv'
  BY ClientsCount, PumpSteps, PumpCounts DEF Next
<1>3. QED
  BY Invariant, <1>1, <1>2, CountsAddUp, PTL DEF Spec
-----------------------------------------------------------------------------
(* submit and stop leave every other job alone, and the job they touch is not *)
(* an ended one; cancel ends an unfinished one without an outcome.            *)
LEMMA ClientSteps ==
  ASSUME SchedulerInv,
         \/ \E s \in Slots, ids \in Prompts, max \in Budgets, reuse \in Reuses :
              Submit(s, ids, max, reuse)
         \/ RejectFull
         \/ \E i \in Jobs : Stop(i) \/ Cancel(i)
         \/ UNCHANGED vars
  PROVE  /\ hist' = hist
         /\ \A j \in Jobs : Terminal(jobs[j]) => jobs'[j] = jobs[j]
         /\ \A j \in JobsIn("Stopped") : jobs'[j] = jobs[j] \/ jobs'[j] = [jobs[j] EXCEPT !.state = "Cancelled"]
         /\ \A j \in Jobs : jobs[j].state = "Queued" => jobs'[j].state # "Running"
<1>1. jobs \in [Jobs -> Job]
  BY DEF SchedulerInv, TypeOK
<1>2. ASSUME NEW s \in Slots, NEW ids \in Prompts, NEW max \in Budgets, NEW reuse \in Reuses,
             Submit(s, ids, max, reuse)
      PROVE  /\ hist' = hist
             /\ \A j \in Jobs : jobs[j].state # "None" => jobs'[j] = jobs[j]
  <2>1. /\ hist' = hist /\ \A j \in Jobs : j # nextId => jobs'[j] = jobs[j]
        /\ nextId <= MaxJobs
    BY <1>1, <1>2 DEF Submit
  <2>2. nextId \in Jobs /\ jobs[nextId].state = "None"
    BY <2>1, SchedulerAssumption DEF SchedulerInv, TypeOK, Jobs, IdsInOrder
  <2>3. QED
    BY <2>1, <2>2
<1>3. CASE RejectFull \/ UNCHANGED vars
  BY <1>3 DEF RejectFull, vars, JobsIn
<1>4. ASSUME NEW i \in Jobs, Stop(i)
      PROVE  /\ hist' = hist /\ jobs[i].state \in {"Queued", "Running"}
             /\ jobs'[i].state = "Stopped" /\ \A j \in Jobs : j # i => jobs'[j] = jobs[j]
  BY <1>1, <1>4 DEF Stop, Job
<1>5. ASSUME NEW i \in Jobs, Cancel(i)
      PROVE  /\ hist' = hist /\ Live(jobs[i])
             /\ jobs'[i] = [jobs[i] EXCEPT !.state = "Cancelled"] /\ jobs'[i].state = "Cancelled"
             /\ \A j \in Jobs : j # i => jobs'[j] = jobs[j]
  BY <1>1, <1>5 DEF Cancel, Job
<1>6. QED
  BY <1>2, <1>3, <1>4, <1>5 DEF JobsIn, Terminal, Live

(* What a pump does to histories and to jobs that are over or stopped. *)
LEMMA PumpEffects ==
  ASSUME SchedulerInv, NEW E \in SUBSET JobsIn("Queued"), NEW started, Pumped(E, started)
  PROVE  /\ \A j \in Jobs : Terminal(jobs[j]) => jobs'[j] = jobs[j]
         /\ \A j \in JobsIn("Stopped") :
              /\ jobs'[j].toks = jobs[j].toks /\ jobs'[j].outcome = "Ok"
              /\ jobs'[j].state \in {"Stopped", "Done"}
         /\ \A j \in E : jobs'[j].state = "Done"
         /\ \A j \in Jobs : jobs[j].state = "Queued" /\ jobs'[j].state = "Running" => j \in started
         /\ \A s \in Slots : hist'[s] # hist[s] =>
              \E j \in LiveJobs : /\ jobs[j].slot = s
                                  /\ jobs'[j].state = "Done" /\ jobs'[j].outcome = "Ok"
                                  /\ hist'[s] = Transcript(jobs'[j])
<1>1. PICK js, sl, D, F :
        /\ Sound(js, sl, D \cup F \cup E)
        /\ Settle(js, sl, D, F, E)
        /\ F \cap JobsIn("Stopped") = {}
        /\ \A j \in Jobs : js[j].state = IF j \in started THEN "Running" ELSE jobs[j].state
  BY DEF Pumped
<1>2. D \cup F \cup E \subseteq LiveJobs /\ LiveJobs \subseteq Jobs
  BY <1>1 DEF Sound, LiveJobs
<1>3. /\ \A j \in Jobs : js[j] \in Job /\ js[j].slot = jobs[j].slot
      /\ \A j \in Jobs : js[j].outcome = jobs[j].outcome
      /\ \A j \in Jobs : jobs[j].state \notin {"Queued", "Running"} => js[j] = jobs[j]
  BY <1>1 DEF Sound
<1>4. /\ \A j \in D \cup F \cup E : jobs'[j].state = "Done"
      /\ \A j \in Jobs \ (D \cup F \cup E) : jobs'[j] = js[j]
      /\ \A j \in Jobs : jobs'[j].toks = js[j].toks
  BY <1>1, SettleEffect
<1>5. \A j \in D : /\ jobs'[j].state = "Done" /\ jobs'[j].outcome = "Ok"
                   /\ jobs'[j].ids = js[j].ids /\ jobs'[j].toks = js[j].toks
  <2>1. SUFFICES ASSUME NEW j \in D
                 PROVE  /\ jobs'[j].state = "Done" /\ jobs'[j].outcome = "Ok"
                        /\ jobs'[j].ids = js[j].ids /\ jobs'[j].toks = js[j].toks
    OBVIOUS
  <2>2. jobs[j].outcome = "Ok" /\ j \in Jobs
    BY <1>2 DEF SchedulerInv, UnjudgedWhileLive
  <2>3. jobs'[j] = [js[j] EXCEPT !.state = "Done"]
    BY <1>1, <2>2 DEF Settle
  <2>4. QED
    BY <1>3, <2>2, <2>3 DEF Job
<1>6. \A j \in Jobs : Terminal(jobs[j]) => jobs'[j] = jobs[j]
  BY <1>2, <1>3, <1>4 DEF Terminal, LiveJobs, Live
<1>7. ASSUME NEW j \in JobsIn("Stopped")
      PROVE  /\ jobs'[j].toks = jobs[j].toks /\ jobs'[j].outcome = "Ok"
             /\ jobs'[j].state \in {"Stopped", "Done"}
  <2>1. j \in Jobs /\ jobs[j].state = "Stopped" /\ js[j] = jobs[j] /\ j \notin F \cup E
    BY <1>1, <1>3 DEF JobsIn
  <2>2. CASE j \in D
    BY <1>5, <2>1, <2>2
  <2>3. CASE j \notin D
    <3>1. jobs'[j] = jobs[j]
      BY <1>4, <2>1, <2>3
    <3>2. jobs[j].outcome = "Ok"
      BY <2>1 DEF SchedulerInv, UnjudgedWhileLive, LiveJobs, Live
    <3>3. QED
      BY <2>1, <3>1, <3>2
  <2>4. QED
    BY <2>2, <2>3
<1>8. \A j \in Jobs : jobs[j].state = "Queued" /\ jobs'[j].state = "Running" => j \in started
  BY <1>1, <1>4
<1>9. ASSUME NEW s \in Slots, hist'[s] # hist[s]
      PROVE  \E j \in LiveJobs : /\ jobs[j].slot = s
                                 /\ jobs'[j].state = "Done" /\ jobs'[j].outcome = "Ok"
                                 /\ hist'[s] = Transcript(jobs'[j])
  <2>1. EndedOn(s, js, D) /\ hist'[s] = Transcript(js[EnderOn(s, js, D)])
    BY <1>1, <1>9 DEF Settle
  <2>2. EnderOn(s, js, D) \in D /\ js[EnderOn(s, js, D)].slot = s
    BY <2>1, EnderIsThere
  <2>3. QED
    BY <1>2, <1>3, <1>5, <2>1, <2>2 DEF Transcript
<1>10. QED
  BY <1>4, <1>6, <1>7, <1>8, <1>9

(* A finished job is never touched again. *)
THEOREM EndedJobsAreFinal == Spec => TerminalIsFinal
<1>1. SchedulerInv /\ [Next]_vars =>
        [\A j \in Jobs : Terminal(jobs[j]) => jobs'[j] = jobs[j]]_vars
  BY ClientSteps, PumpSteps, PumpEffects DEF Next
<1>2. QED
  BY Invariant, <1>1, PTL DEF Spec, TerminalIsFinal

(* A job stopped by its client ends Ok with the tokens it had. *)
THEOREM StoppedJobsEndDone == Spec => StoppedEndsDone
<1>1. SchedulerInv /\ [Next]_vars =>
        [\A j \in JobsIn("Stopped") :
           /\ jobs'[j].toks = jobs[j].toks /\ jobs'[j].outcome = "Ok"
           /\ jobs'[j].state \in {"Stopped", "Done", "Cancelled"}]_vars
  <2>1. SUFFICES ASSUME SchedulerInv, [Next]_vars, NEW j \in JobsIn("Stopped")
                 PROVE  /\ jobs'[j].toks = jobs[j].toks /\ jobs'[j].outcome = "Ok"
                        /\ jobs'[j].state \in {"Stopped", "Done", "Cancelled"}
    OBVIOUS
  <2>2. jobs[j] \in Job /\ jobs[j].state = "Stopped" /\ jobs[j].outcome = "Ok"
    BY <2>1 DEF SchedulerInv, TypeOK, UnjudgedWhileLive, JobsIn, LiveJobs, Live
  <2>3. CASE Pump
    BY <2>1, <2>3, PumpSteps, PumpEffects
  <2>4. CASE ~Pump
    <3>1. jobs'[j] = jobs[j] \/ jobs'[j] = [jobs[j] EXCEPT !.state = "Cancelled"]
      BY <2>1, <2>4, ClientSteps DEF Next
    <3>2. QED
      BY <2>2, <3>1 DEF Job
  <2>5. QED
    BY <2>3, <2>4
<1>2. QED
  BY Invariant, <1>1, PTL DEF Spec, StoppedEndsDone

(* A slot's history changes only by the completion of the job that holds it. *)
THEOREM HistoriesAreTranscripts == Spec => HistoryByCompletion
<1>1. SchedulerInv /\ [Next]_vars =>
        [\A s \in Slots : hist'[s] # hist[s] =>
           \E j \in LiveJobs : /\ jobs[j].slot = s
                                /\ jobs'[j].state = "Done" /\ jobs'[j].outcome = "Ok"
                                /\ hist'[s] = Transcript(jobs'[j])]_vars
  <2>1. SUFFICES ASSUME SchedulerInv, [Next]_vars, NEW s \in Slots, hist'[s] # hist[s]
                 PROVE  \E j \in LiveJobs : /\ jobs[j].slot = s
                                            /\ jobs'[j].state = "Done" /\ jobs'[j].outcome = "Ok"
                                            /\ hist'[s] = Transcript(jobs'[j])
    OBVIOUS
  <2>2. Pump
    BY <2>1, ClientSteps DEF Next
  <2>3. QED
    BY <2>1, <2>2, PumpSteps, PumpEffects
<1>2. QED
  BY Invariant, <1>1, PTL DEF Spec, HistoryByCompletion

(* Jobs start in the order of their ids. *)
THEOREM AdmissionIsFifo == Spec => FifoAdmission
<1>1. SchedulerInv /\ [Next]_vars =>
        [\A j, k \in JobsIn("Queued") :
           j < k /\ jobs'[k].state = "Running" => jobs'[j].state # "Queued"]_vars
  <2>1. SUFFICES ASSUME SchedulerInv, [Next]_vars, NEW j \in JobsIn("Queued"),
                        NEW k \in JobsIn("Queued"), j < k, jobs'[k].state = "Running"
                 PROVE  jobs'[j].state # "Queued"
    OBVIOUS
  <2>2. /\ j \in Jobs /\ k \in Jobs /\ j \in Int /\ k \in Int
        /\ jobs[j].state = "Queued" /\ jobs[k].state = "Queued"
    BY DEF JobsIn, Jobs
  <2>3. Pump
    BY <2>1, <2>2, ClientSteps DEF Next
  <2>4. PICK E \in SUBSET JobsIn("Queued"), started \in SUBSET Jobs :
          /\ Pumped(E, started)
          /\ \A r \in started : \A q \in JobsIn("Queued") \ E : r <= q
    BY <2>1, <2>3, PumpSteps
  <2>5. k \in started /\ \A i \in E : jobs'[i].state = "Done"
    BY <2>1, <2>2, <2>4, PumpEffects
  <2>6. j \in E
    BY <2>1, <2>2, <2>4, <2>5
  <2>7. QED
    BY <2>5, <2>6
<1>2. QED
  BY Invariant, <1>1, PTL DEF Spec, FifoAdmission
-----------------------------------------------------------------------------
(* After a pump the live jobs are those that were, less the ones it ended.   *)
LEMMA LiveAfterPump ==
  ASSUME SchedulerInv, NEW js, NEW sl, NEW D, NEW F, NEW E, Sound(js, sl, D \cup F \cup E),
         Settle(js, sl, D, F, E)
  PROVE  LiveJobs' = LiveJobs \ (D \cup F \cup E)
<1>1. D \cup F \cup E \subseteq LiveJobs /\ LiveJobs \subseteq Jobs
  BY DEF Sound, LiveJobs
<1>2. /\ \A j \in D \cup F \cup E : jobs'[j].state = "Done"
      /\ \A j \in Jobs \ (D \cup F \cup E) : jobs'[j] = js[j]
  BY SettleEffect
<1>3. \A j \in Jobs : \/ js[j].state = jobs[j].state
                      \/ jobs[j].state = "Queued" /\ js[j].state = "Running"
  BY DEF Sound
<1>4. QED
  BY <1>1, <1>2, <1>3 DEF LiveJobs, Live

(* What a pump does to the phases of the requests. *)
LEMMA PhasesAfterPump ==
  ASSUME SchedulerInv, NEW js, NEW sl, NEW D, NEW F, NEW E, NEW started,
         Sound(js, sl, D \cup F \cup E), Settle(js, sl, D, F, E),
         started \cap (D \cup F \cup E) = {},
         \A j \in Jobs : js[j].state = IF j \in started THEN "Running" ELSE jobs[j].state
  PROVE  \A j \in Jobs : PhaseOf(jobs'[j]) = IF j \in D THEN "Answered"
                                             ELSE IF j \in F \cup E THEN "Dropped"
                                             ELSE IF j \in started THEN "Active"
                                             ELSE PhaseOf(jobs[j])
<1> SUFFICES ASSUME NEW j \in Jobs
             PROVE  PhaseOf(jobs'[j]) = IF j \in D THEN "Answered"
                                        ELSE IF j \in F \cup E THEN "Dropped"
                                        ELSE IF j \in started THEN "Active"
                                        ELSE PhaseOf(jobs[j])
  OBVIOUS
<1>1. js[j] \in Job /\ js[j].outcome = jobs[j].outcome
  BY DEF Sound
<1>2. CASE j \in D
  <2>1. jobs[j].outcome = "Ok"
    BY <1>2 DEF Sound, UnjudgedWhileLive, SchedulerInv
  <2>2. jobs'[j].state = "Done" /\ jobs'[j].outcome = "Ok"
    BY <1>1, <1>2, <2>1 DEF Settle, Job
  <2>3. QED
    BY <1>2, <2>2 DEF PhaseOf
<1>3. CASE j \notin D /\ j \in F \cup E
  <2>1. jobs'[j].state = "Done" /\ jobs'[j].outcome \in {"Error", "Timeout"}
    BY <1>1, <1>3 DEF Settle, Job
  <2>2. QED
    BY <1>3, <2>1 DEF PhaseOf
<1>4. CASE j \notin D \cup F \cup E
  <2>1. jobs'[j] = js[j]
    BY <1>4, SettleEffect
  <2>2. QED
    BY <1>1, <1>4, <2>1 DEF PhaseOf
<1>5. QED
  BY <1>2, <1>3, <1>4

(* A pump is a round of service. *)
LEMMA PumpServes ==
  ASSUME SchedulerInv, NEW E \in SUBSET JobsIn("Queued"), NEW started \in SUBSET Jobs,
         Pumped(E, started), \A r \in started : r \in JobsIn("Queued") \ E,
         \A r \in started : \A q \in JobsIn("Queued") \ E : r <= q
  PROVE  \E answered, dropped \in SUBSET Jobs : Promised!Serve(answered, dropped, started)
<1>1. PICK js, sl, D, F :
        /\ Sound(js, sl, D \cup F \cup E)
        /\ Settle(js, sl, D, F, E)
        /\ count' \in Counters
        /\ started \cap (D \cup F \cup E) = {}
        /\ \A j \in Jobs : js[j].state = IF j \in started THEN "Running" ELSE jobs[j].state
  BY DEF Pumped
<1> DEFINE over == D \cup (F \cup E)
<1>2. over = D \cup F \cup E
  OBVIOUS
<1>3. over \subseteq LiveJobs /\ LiveJobs \subseteq Jobs
  BY <1>1 DEF Sound, LiveJobs
<1>4. over \subseteq Promised!Accepted
  BY <1>3 DEF Promised!Accepted, LiveJobs, Live, PhaseOf
<1>5. Promised!Waiting \ over \subseteq JobsIn("Queued") \ E /\ Promised!Waiting = JobsIn("Queued")
  BY DEF Promised!Waiting, JobsIn, PhaseOf
<1>6. started \subseteq {r \in Promised!Waiting \ over : \A q \in Promised!Waiting \ over : r <= q}
  BY <1>1, <1>5
<1>7. [j \in Jobs |-> PhaseOf(jobs[j])]' =
        [r \in Jobs |-> IF r \in D THEN "Answered"
                       ELSE IF r \in F \cup E THEN "Dropped"
                       ELSE IF r \in started THEN "Active"
                       ELSE [j \in Jobs |-> PhaseOf(jobs[j])][r]]
  BY <1>1, PhasesAfterPump
<1>8. [s \in Slots |-> {j \in LiveJobs : jobs[j].slot = s}]' =
        [s \in Slots |-> [t \in Slots |-> {j \in LiveJobs : jobs[j].slot = t}][s] \ over]
  <2>1. LiveJobs' = LiveJobs \ over
    BY <1>1, <1>2, LiveAfterPump
  <2>2. \A j \in Jobs : jobs'[j].slot = jobs[j].slot
    BY <1>1, SettleEffect
  <2> HIDE DEF over
  <2>3. \A s \in Slots : {j \in LiveJobs' : jobs'[j].slot = s} =
                         {j \in LiveJobs : jobs[j].slot = s} \ over
    BY <1>3, <2>1, <2>2
  <2>4. QED
    BY <2>3
<1>9. hist' \in [Slots -> Seq(Tokens)]
  BY <1>1, SettleTypes DEF TypeOK, Transcripts
<1>10. \A s \in Slots : hist'[s] # hist[s] =>
         [t \in Slots |-> {j \in LiveJobs : jobs[j].slot = t}][s] \cap D # {}
  <2>1. SUFFICES ASSUME NEW s \in Slots, hist'[s] # hist[s]
                 PROVE  \E j \in LiveJobs : jobs[j].slot = s /\ j \in D
    OBVIOUS
  <2>2. EndedOn(s, js, D)
    BY <1>1, <2>1 DEF Settle
  <2>3. QED
    BY <1>1, <1>3, <2>2 DEF EndedOn, Sound
<1>11. Promised!Serve(D, F \cup E, started)
  <2> HIDE DEF over
  <2>1. QED
    BY <1>4, <1>6, <1>7, <1>8, <1>9, <1>10 DEF Promised!Serve, over
<1>12. QED
  BY <1>3, <1>11

(* submit accepts the request of the next id. *)
LEMMA SubmitAccepts ==
  ASSUME SchedulerInv, NEW s \in Slots, NEW ids \in Prompts, NEW max \in Budgets,
         NEW reuse \in Reuses, Submit(s, ids, max, reuse)
  PROVE  \E r \in Jobs : Promised!Accept(r, s)
<1> DEFINE official == PrefixReuse(PrefixArm(prefix[s], hist[s], ids, 0), ids)
           new      == [state |-> "Queued", slot |-> s, ids |-> ids, toks |-> <<>>, max |-> max,
                        reuse |-> IF official > 0 THEN official ELSE reuse, outcome |-> "Ok"]
<1>1. /\ new.state = "Queued" /\ new.slot = s /\ new.outcome = "Ok"
      /\ jobs' = [jobs EXCEPT ![nextId] = new]
      /\ nextId <= MaxJobs /\ ~busy[s] /\ hist' = hist
  BY DEF Submit
<1> HIDE DEF official, new
<1>2. nextId \in Jobs /\ jobs \in [Jobs -> Job] /\ jobs[nextId].state = "None"
  BY <1>1, SchedulerAssumption DEF SchedulerInv, TypeOK, Jobs, IdsInOrder
<1>3. \A j \in Jobs : j < nextId => jobs[j].state # "None"
  BY <1>2 DEF SchedulerInv, IdsInOrder, Jobs
<1>4. \A j \in Jobs : jobs[j].state # "None" => PhaseOf(jobs[j]) # "Unborn"
  BY DEF PhaseOf
<1>5. PhaseOf(jobs[nextId]) = "Unborn" /\ PhaseOf(new) = "Waiting"
  BY <1>1, <1>2 DEF PhaseOf
<1>6. {j \in LiveJobs : jobs[j].slot = s} = {}
  BY <1>1 DEF SchedulerInv, SlotOwnership
<1>7. LiveJobs' = LiveJobs \cup {nextId} /\ nextId \notin LiveJobs
  BY <1>1, <1>2 DEF LiveJobs, Live
<1>8. [j \in Jobs |-> PhaseOf(jobs[j])]' =
        [[j \in Jobs |-> PhaseOf(jobs[j])] EXCEPT ![nextId] = "Waiting"]
  BY <1>1, <1>2, <1>5
<1>9. [t \in Slots |-> {j \in LiveJobs : jobs[j].slot = t}]' =
        [[t \in Slots |-> {j \in LiveJobs : jobs[j].slot = t}] EXCEPT ![s] = {nextId}]
  <2>1. \A j \in LiveJobs : jobs'[j] = jobs[j] /\ j \in Jobs
    BY <1>1, <1>2, <1>7 DEF LiveJobs
  <2>2. jobs'[nextId].slot = s
    BY <1>1, <1>2
  <2>3. \A t \in Slots : {j \in LiveJobs' : jobs'[j].slot = t} =
          IF t = s THEN {nextId} ELSE {j \in LiveJobs : jobs[j].slot = t}
    BY <1>6, <1>7, <2>1, <2>2
  <2>4. QED
    BY <2>3
<1>10. QED
  <2>1. \A q \in Jobs : q < nextId => PhaseOf(jobs[q]) # "Unborn"
    BY <1>3, <1>4
  <2>2. UNCHANGED hist
    BY <1>1
  <2>3. QED
    BY <1>2, <1>5, <1>6, <1>8, <1>9, <2>1, <2>2 DEF Promised!Accept

(* stop only asks. *)
LEMMA StopAsks ==
  ASSUME SchedulerInv, NEW j \in Jobs, Stop(j)
  PROVE  Promised!AskToStop(j)
<1>1. /\ jobs \in [Jobs -> Job] /\ jobs[j].state \in {"Queued", "Running"}
      /\ jobs' = [jobs EXCEPT ![j].state = "Stopped"] /\ hist' = hist
  BY DEF Stop, SchedulerInv, TypeOK
<1>2. /\ jobs'[j].state = "Stopped" /\ jobs'[j].slot = jobs[j].slot
      /\ \A k \in Jobs : k # j => jobs'[k] = jobs[k]
      /\ \A k \in Jobs : jobs'[k].slot = jobs[k].slot
  BY <1>1 DEF Job
<1>3. PhaseOf(jobs[j]) \in {"Waiting", "Active"} /\ PhaseOf(jobs'[j]) = "Stopping"
  BY <1>1, <1>2 DEF PhaseOf
<1>4. LiveJobs' = LiveJobs /\ LiveJobs \subseteq Jobs
  BY <1>1, <1>2 DEF LiveJobs, Live
<1>5. [k \in Jobs |-> PhaseOf(jobs[k])]' =
        [[k \in Jobs |-> PhaseOf(jobs[k])] EXCEPT ![j] = "Stopping"]
  BY <1>2, <1>3
<1>6. [t \in Slots |-> {k \in LiveJobs : jobs[k].slot = t}]' =
        [t \in Slots |-> {k \in LiveJobs : jobs[k].slot = t}]
  BY <1>2, <1>4
<1>7. QED
  BY <1>1, <1>3, <1>5, <1>6 DEF Promised!AskToStop

(* cancel is a round of service that drops one request. *)
LEMMA CancelDrops ==
  ASSUME SchedulerInv, NEW j \in Jobs, Cancel(j)
  PROVE  Promised!Serve({}, {j}, {})
<1>1. /\ jobs \in [Jobs -> Job] /\ Live(jobs[j])
      /\ jobs' = [jobs EXCEPT ![j].state = "Cancelled"] /\ hist' = hist
      /\ hist \in [Slots -> Seq(Tokens)]
  BY DEF Cancel, SchedulerInv, TypeOK, Transcripts
<1>2. /\ jobs'[j].state = "Cancelled"
      /\ \A k \in Jobs : k # j => jobs'[k] = jobs[k]
      /\ \A k \in Jobs : jobs'[k].slot = jobs[k].slot
  BY <1>1 DEF Job
<1>3. PhaseOf(jobs'[j]) = "Dropped" /\ j \in Promised!Accepted
  BY <1>1, <1>2 DEF PhaseOf, Promised!Accepted, Live
<1>4. LiveJobs' = LiveJobs \ {j} /\ LiveJobs \subseteq Jobs
  BY <1>1, <1>2 DEF LiveJobs, Live
<1>5. [k \in Jobs |-> PhaseOf(jobs[k])]' =
        [k \in Jobs |-> IF k \in {} THEN "Answered" ELSE IF k \in {j} THEN "Dropped"
                       ELSE IF k \in {} THEN "Active" ELSE [i \in Jobs |-> PhaseOf(jobs[i])][k]]
  BY <1>2, <1>3
<1>6. [t \in Slots |-> {k \in LiveJobs : jobs[k].slot = t}]' =
        [s \in Slots |-> [t \in Slots |-> {k \in LiveJobs : jobs[k].slot = t}][s] \ ({} \cup {j})]
  <2>1. \A t \in Slots : {k \in LiveJobs' : jobs'[k].slot = t} =
                         {k \in LiveJobs : jobs[k].slot = t} \ ({} \cup {j})
    BY <1>2, <1>4
  <2>2. QED
    BY <2>1
<1>7. QED
  BY <1>1, <1>3, <1>5, <1>6 DEF Promised!Serve

(* The scheduler implements what its clients are promised. *)
THEOREM Refinement == Spec => KeepsPromise
<1>1. Init => Promised!AbstractInit
  <2>1. SUFFICES ASSUME Init PROVE Promised!AbstractInit
    OBVIOUS
  <2>2. \A j \in Jobs : jobs[j].state = "None"
    BY <2>1 DEF Init
  <2>3. \A j \in Jobs : PhaseOf(jobs[j]) = "Unborn"
    BY <2>2 DEF PhaseOf
  <2>4. LiveJobs = {}
    BY <2>2 DEF LiveJobs, Live
  <2>5. QED
    BY <2>1, <2>3, <2>4 DEF Promised!AbstractInit, Init
<1>2. SchedulerInv /\ [Next]_vars => [Promised!AbstractNext]_Promised!abstractVars
  <2>1. SUFFICES ASSUME SchedulerInv, [Next]_vars
                 PROVE  [Promised!AbstractNext]_Promised!abstractVars
    OBVIOUS
  <2>2. ASSUME NEW s \in Slots, NEW ids \in Prompts, NEW max \in Budgets,
               NEW reuse \in Reuses, Submit(s, ids, max, reuse)
        PROVE  Promised!AbstractNext
    <3>1. \E r \in Jobs : Promised!Accept(r, s)
      BY <2>1, <2>2, SubmitAccepts
    <3>2. QED
      BY <3>1 DEF Promised!AbstractNext
  <2>3. ASSUME NEW j \in Jobs, Stop(j)
        PROVE  Promised!AbstractNext
    BY <2>1, <2>3, StopAsks DEF Promised!AbstractNext
  <2>4. ASSUME NEW j \in Jobs, Cancel(j)
        PROVE  Promised!AbstractNext
    <3>1. Promised!Serve({}, {j}, {})
      BY <2>1, <2>4, CancelDrops
    <3>2. {} \in SUBSET Jobs /\ {j} \in SUBSET Jobs
      OBVIOUS
    <3>3. QED
      BY <3>1, <3>2 DEF Promised!AbstractNext
  <2>5. CASE Pump
    <3>1. PICK started, answered, dropped \in SUBSET Jobs :
            Promised!Serve(answered, dropped, started)
      BY <2>1, <2>5, PumpSteps, PumpServes
    <3>2. QED
      BY <3>1 DEF Promised!AbstractNext
  <2>6. CASE RejectFull \/ UNCHANGED vars
    <3>1. jobs' = jobs /\ hist' = hist
      BY <2>6 DEF RejectFull, vars
    <3>2. UNCHANGED Promised!abstractVars
      BY <3>1 DEF Promised!abstractVars, LiveJobs
    <3>3. QED
      BY <3>2
  <2>7. QED
    BY <2>1, <2>2, <2>3, <2>4, <2>5, <2>6 DEF Next
<1>3. QED
  BY <1>1, <1>2, Invariant, PTL DEF Spec, KeepsPromise, Promised!AbstractSpec
-----------------------------------------------------------------------------
(* max_queue bounds the unfinished jobs. *)
THEOREM QueueIsBounded == Spec => []QueueBound
<1>1. Init => QueueBound
  <2>1. SUFFICES ASSUME Init PROVE QueueBound
    OBVIOUS
  <2>2. LiveJobs = {}
    BY <2>1 DEF Init, LiveJobs, Live
  <2>3. QED
    BY <2>2, FS_EmptySet, SchedulerAssumption DEF QueueBound
<1>2. SchedulerInv /\ QueueBound /\ [Next]_vars => QueueBound'
  <2>1. SUFFICES ASSUME SchedulerInv, QueueBound, [Next]_vars PROVE QueueBound'
    OBVIOUS
  <2>2. IsFiniteSet(LiveJobs) /\ Cardinality(LiveJobs) \in Nat /\ LiveJobs \subseteq Jobs
    BY JobsAreFinite DEF LiveJobs
  <2>3. ASSUME NEW s \in Slots, NEW ids \in Prompts, NEW max \in Budgets,
               NEW reuse \in Reuses, Submit(s, ids, max, reuse)
        PROVE  QueueBound'
    <3>1. Cardinality(LiveJobs) < MaxQueue /\ \A j \in Jobs : j # nextId => jobs'[j] = jobs[j]
      BY <2>1, <2>3 DEF Submit, SchedulerInv, TypeOK
    <3>2. LiveJobs' \subseteq LiveJobs \cup {nextId}
      BY <3>1 DEF LiveJobs
    <3>3. /\ IsFiniteSet(LiveJobs \cup {nextId})
          /\ Cardinality(LiveJobs \cup {nextId}) <= Cardinality(LiveJobs) + 1
          /\ Cardinality(LiveJobs \cup {nextId}) \in Nat
      BY <2>2, OneMoreJob
    <3>4. Cardinality(LiveJobs') <= Cardinality(LiveJobs \cup {nextId})
          /\ Cardinality(LiveJobs') \in Nat
      BY <3>2, <3>3, FS_Subset, FS_CardinalityType
    <3>5. QED
      BY <2>2, <3>1, <3>3, <3>4, SchedulerAssumption DEF QueueBound
  <2>4. ASSUME LiveJobs' \subseteq LiveJobs
        PROVE  QueueBound'
    <3>1. Cardinality(LiveJobs') <= Cardinality(LiveJobs) /\ Cardinality(LiveJobs') \in Nat
      BY <2>2, <2>4, FS_Subset, FS_CardinalityType
    <3>2. QED
      BY <2>1, <2>2, <3>1, SchedulerAssumption DEF QueueBound
  <2>5. ASSUME NEW j \in Jobs, Stop(j) \/ Cancel(j)
        PROVE  LiveJobs' \subseteq LiveJobs
    <3>1. /\ Live(jobs[j]) /\ \A k \in Jobs : k # j => jobs'[k] = jobs[k]
      BY <2>1, <2>5 DEF Stop, Cancel, Live, SchedulerInv, TypeOK
    <3>2. QED
      BY <3>1 DEF LiveJobs
  <2>6. CASE Pump
    <3>1. PICK E, started : Pumped(E, started)
      BY <2>1, <2>6, PumpSteps
    <3>2. LiveJobs' \subseteq LiveJobs
      BY <2>1, <3>1, LiveAfterPump DEF Pumped
    <3>3. QED
      BY <2>4, <3>2
  <2>7. CASE RejectFull \/ UNCHANGED vars
    <3>1. jobs' = jobs
      BY <2>7 DEF RejectFull, vars
    <3>2. LiveJobs' = LiveJobs
      BY <3>1 DEF LiveJobs
    <3>3. QED
      BY <2>4, <3>2
  <2>8. QED
    BY <2>1, <2>3, <2>4, <2>5, <2>6, <2>7 DEF Next
<1>3. QED
  BY Invariant, <1>1, <1>2, PTL DEF Spec
=============================================================================
