-------------------------- MODULE EnginePersistProofs --------------------------
(***************************************************************************)
(* Theorems about EnginePersist, for every number of slots, every length   *)
(* of a transcript and any number of failed appends: the file is a prefix  *)
(* of what the engine remembers and of what the client was told, its rows  *)
(* belong to its tokens, and a wrong row in a slot is the file's doing.    *)
(* All but type correctness is about OneConversation: none of it is true   *)
(* of clients who contradict a conversation or take turns in the file's    *)
(* slot, as those of MCPersistHistDoc do.                                  *)
(***************************************************************************)
EXTENDS EnginePersist, SequenceTheorems, WellFoundedInduction, TLAPS

(* A part of a sequence of tokens is a sequence of tokens, whatever the ends. *)
LEMMA PartOfSeq ==
  ASSUME NEW T, NEW s \in Seq(T), NEW m \in Nat, NEW n \in Nat, m >= 1, n <= Len(s)
  PROVE  SubSeq(s, m, n) \in Seq(T)
<1>1. \A i \in m..n : s[i] \in T
  OBVIOUS
<1>2. QED
  BY <1>1, SubSeqProperties

(* KvPrefix::record yields a record again. *)
LEMMA RecordType ==
  ASSUME NEW T, NEW p \in Prefixes(T), NEW ids \in Seq(T)
  PROVE  PrefixRecord(p, ids) \in Prefixes(T)
<1> DEFINE tail == SubSeq(p.fed, Len(ids) + 1, Len(p.fed))
<1>1. p.cap \in Nat /\ p.fed \in Seq(T) /\ p = [cap |-> p.cap, fed |-> p.fed]
  BY DEF Prefixes
<1>2. tail \in Seq(T)
  BY <1>1, PartOfSeq
<1>3. ids \o tail \in Seq(T)
  BY <1>2
<1>4. /\ [p EXCEPT !.fed = <<>>] \in Prefixes(T)
      /\ [p EXCEPT !.fed = ids \o tail] \in Prefixes(T)
  BY <1>1, <1>3, EmptySeq DEF Prefixes
<1>5. QED
  BY <1>4 DEF PrefixRecord

(* Engine::prefix_match yields a record and a length. *)
LEMMA ArmType ==
  ASSUME NEW T, NEW p \in Prefixes(T), NEW hist \in Seq(T), NEW ids \in Seq(T), NEW room \in Nat
  PROVE  /\ PrefixArm(p, hist, ids, room) \in Prefixes(T)
         /\ PrefixReuse(p, ids) \in Nat
<1>1. PrefixAlloc(Greatest(MinCap, Len(ids) + room + MaxSeq)) \in Prefixes(T)
  BY PrefixAssumption DEF PrefixAlloc, Greatest, Prefixes
<1>2. PrefixArm(p, hist, ids, room) \in Prefixes(T)
  BY <1>1, RecordType DEF PrefixArm
<1>3. PrefixReuse(p, ids) \in Nat
  BY DEF PrefixReuse, Prefixes
<1>4. QED
  BY <1>2, <1>3

(* Engine::prefix_commit yields a record. *)
LEMMA CommitType ==
  ASSUME NEW T, NEW p \in Prefixes(T), NEW hist \in Seq(T)
  PROVE  PrefixCommit(p, hist) \in Prefixes(T)
<1>1. PrefixAlloc(Len(hist) + Slack) \in Prefixes(T)
  BY PrefixAssumption DEF PrefixAlloc, Prefixes
<1>2. QED
  BY <1>1, RecordType DEF PrefixCommit
-----------------------------------------------------------------------------
(* Two sequences are the same when they have the same length and entries. *)
LEMMA SameSeq ==
  ASSUME NEW T, NEW a \in Seq(T), NEW b \in Seq(T), Len(a) = Len(b),
         \A i \in 1..Len(a) : a[i] = b[i]
  PROVE  a = b
OBVIOUS

(* kv_common_prefix: what it counts is shared. *)
LEMMA CommonPrefixIsShared ==
  ASSUME NEW T, NEW a \in Seq(T), NEW b \in Seq(T)
  PROVE  /\ CommonPrefix(a, b) \in 0..Least(Len(a), Len(b))
         /\ \A i \in 1..CommonPrefix(a, b) : a[i] = b[i]
<1> DEFINE top == Least(Len(a), Len(b))
           Ends == {n \in Nat : n = top \/ (n < top /\ a[n + 1] # b[n + 1])}
<1>1. top \in Nat /\ top <= Len(a) /\ top <= Len(b)
  BY DEF Least
<1>2. Ends # {} /\ Ends \subseteq Nat
  BY <1>1
<1>3. PICK n \in Ends : \A m \in Ends : ~(<<m, n>> \in OpToRel(<, Nat))
  BY <1>2, NatLessThanWellFounded, WFMin
<1> HIDE DEF top
<1>4. n \in 0..top /\ \A m \in Ends : n <= m
  <2>1. \A m, k \in Nat : m < k => <<m, k>> \in OpToRel(<, Nat)
    BY DEF OpToRel
  <2>2. \A m \in Ends : ~(m < n)
    BY <1>2, <1>3, <2>1
  <2>3. QED
    BY <1>1, <2>2
<1>5. \A i \in 1..n : a[i] = b[i]
  <2>1. SUFFICES ASSUME NEW i \in 1..n, a[i] # b[i] PROVE FALSE
    OBVIOUS
  <2>2. i - 1 \in Nat /\ i - 1 < top /\ (i - 1) + 1 = i
    BY <1>1, <1>4
  <2>3. i - 1 \in Ends
    BY <2>1, <2>2
  <2>4. n \in Nat /\ i \in Nat /\ i <= n
    BY <1>1, <1>4
  <2>5. QED
    BY <1>4, <2>3, <2>4
<1>6. \E m \in 0..top : /\ \A i \in 1..m : a[i] = b[i]
                        /\ m < top => a[m + 1] # b[m + 1]
  BY <1>1, <1>4, <1>5
<1>7. CommonPrefix(a, b) = CHOOSE m \in 0..top : /\ \A i \in 1..m : a[i] = b[i]
                                                 /\ m < top => a[m + 1] # b[m + 1]
  BY DEF CommonPrefix, top
<1>8. QED
  BY <1>6, <1>7 DEF top
-----------------------------------------------------------------------------
(* A text is a sequence of tokens that is short enough. *)
LEMMA TextsAreSeqs == \A t : t \in Texts <=> t \in Seq(Tokens) /\ Len(t) <= MaxLen
<1>1. ASSUME NEW t \in Texts PROVE t \in Seq(Tokens) /\ Len(t) <= MaxLen
  <2>1. PICK n \in 0..MaxLen : t \in [1..n -> Tokens]
    BY DEF Texts
  <2>2. n \in Nat /\ n <= MaxLen
    BY <2>1, EngineAssumption
  <2>3. t \in Seq(Tokens)
    BY <2>1, <2>2, SeqDef
  <2>4. DOMAIN t = 1..n /\ DOMAIN t = 1..Len(t) /\ Len(t) \in Nat
    BY <2>1, <2>3, LenProperties
  <2>5. Len(t) = n
    BY <2>2, <2>4
  <2>6. QED
    BY <2>2, <2>3, <2>5
<1>2. ASSUME NEW t \in Seq(Tokens), Len(t) <= MaxLen PROVE t \in Texts
  <2>1. Len(t) \in 0..MaxLen /\ t \in [1..Len(t) -> Tokens]
    BY <1>2, LenProperties, EngineAssumption
  <2>2. QED
    BY <2>1 DEF Texts
<1>3. QED
  BY <1>1, <1>2

(* Texts that begin in the same way. *)
LEMMA SameBeginning ==
  ASSUME NEW T, NEW a \in Seq(T), NEW b \in Seq(T), NEW p \in Nat, p <= Len(a), p <= Len(b),
         \A i \in 1..p : a[i] = b[i]
  PROVE  SubSeq(a, 1, p) = SubSeq(b, 1, p)
<1> DEFINE x == SubSeq(a, 1, p)
           y == SubSeq(b, 1, p)
<1>1. x \in Seq(T) /\ Len(x) = p /\ \A i \in 1..p : x[i] = a[i]
  BY PartOfSeq
<1>2. y \in Seq(T) /\ Len(y) = p /\ \A i \in 1..p : y[i] = b[i]
  BY PartOfSeq
<1> HIDE DEF x, y
<1>3. x = y
  BY <1>1, <1>2, SameSeq
<1>4. QED
  BY <1>3 DEF x, y

(* What begins the beginning of a text begins the text, and of two beginnings *)
(* of a text one begins the other.                                           *)
Comparable(a, b) == IsInitialOf(a, b) \/ IsInitialOf(b, a)

LEMMA InitialOfInitial ==
  ASSUME NEW T, NEW a \in Seq(T), NEW b \in Seq(T), NEW c \in Seq(T),
         IsInitialOf(a, b), IsInitialOf(b, c)
  PROVE  IsInitialOf(a, c)
BY DEF IsInitialOf

LEMMA InitialsCompare ==
  ASSUME NEW T, NEW a \in Seq(T), NEW b \in Seq(T), NEW c \in Seq(T),
         IsInitialOf(a, c), IsInitialOf(b, c)
  PROVE  /\ Comparable(a, b)
         /\ Len(a) <= Len(b) => IsInitialOf(a, b)
BY DEF IsInitialOf, Comparable
-----------------------------------------------------------------------------
(* The tokens of a log, and what of them answers for a wrong row at position *)
(* p of a slot with this history: a record without its row, at or before p.   *)
TokensOf(lg) == [p \in DOMAIN lg |-> lg[p].token]
Blamed(lg, p, history) ==
  \E q \in 1..Len(lg) : /\ q <= p /\ lg[q].row = <<>>
                        /\ q <= Len(history) /\ \A i \in 1..q : lg[i].token = history[i]

(* Rows that are those of the history, or missing, or the log's doing. *)
Follows(lg, rows, history) ==
  /\ Len(rows) <= Len(history)
  /\ \A p \in 1..Len(rows) :
       /\ rows[p] \in {<<>>, SubSeq(history, 1, p)}
       /\ rows[p] = SubSeq(history, 1, p) \/ Blamed(lg, p, history)

LEMMA TokensType ==
  ASSUME NEW lg \in Seq(Records)
  PROVE  /\ TokensOf(lg) \in Seq(Tokens) /\ Len(TokensOf(lg)) = Len(lg)
         /\ \A p \in 1..Len(lg) : TokensOf(lg)[p] = lg[p].token
<1>1. DOMAIN lg = 1..Len(lg) /\ Len(lg) \in Nat /\ \A p \in 1..Len(lg) : lg[p] \in Records
  OBVIOUS
<1>2. TokensOf(lg) \in [1..Len(lg) -> Tokens]
  BY <1>1 DEF TokensOf, Records
<1>3. TokensOf(lg) \in Seq(Tokens)
  BY <1>1, <1>2, SeqDef
<1>4. DOMAIN TokensOf(lg) = 1..Len(TokensOf(lg)) /\ Len(TokensOf(lg)) \in Nat
  BY <1>3, LenProperties
<1>5. Len(TokensOf(lg)) = Len(lg)
  BY <1>1, <1>2, <1>4
<1>6. QED
  BY <1>1, <1>3, <1>5 DEF TokensOf

(* The invariant's words for it. *)
LEMMA BlameMeans ==
  ASSUME NEW lg \in Seq(Records), NEW h \in Seq(Tokens), NEW p \in Nat
  PROVE  Blamed(lg, p, h) <=> \E q \in DOMAIN lg : /\ q <= p /\ lg[q].row = <<>>
                                                   /\ IsInitialOf(SubSeq(TokensOf(lg), 1, q), h)
<1>1. DOMAIN lg = 1..Len(lg) /\ Len(lg) \in Nat
  OBVIOUS
<1>2. ASSUME NEW q \in 1..Len(lg)
      PROVE  IsInitialOf(SubSeq(TokensOf(lg), 1, q), h) <=>
               q <= Len(h) /\ \A i \in 1..q : lg[i].token = h[i]
  <2> DEFINE x == SubSeq(TokensOf(lg), 1, q)
  <2>1. /\ TokensOf(lg) \in Seq(Tokens) /\ Len(TokensOf(lg)) = Len(lg)
        /\ \A i \in 1..Len(lg) : TokensOf(lg)[i] = lg[i].token
    BY TokensType
  <2>2. Len(x) = q /\ \A i \in 1..q : x[i] = TokensOf(lg)[i]
    BY <1>1, <2>1
  <2> HIDE DEF x
  <2>3. \A i \in 1..q : i \in 1..Len(lg) /\ x[i] = lg[i].token
    BY <1>1, <2>1, <2>2
  <2>4. IsInitialOf(x, h) <=> q <= Len(h) /\ \A i \in 1..q : lg[i].token = h[i]
    BY <2>2, <2>3 DEF IsInitialOf
  <2>5. QED
    BY <2>4 DEF x
<1>3. QED
  BY <1>1, <1>2 DEF Blamed

(* A log that grows answers for what it answered for. *)
LEMMA FollowsLongerLog ==
  ASSUME NEW lg \in Seq(Records), NEW longer \in Seq(Records), Len(lg) <= Len(longer),
         \A p \in 1..Len(lg) : longer[p] = lg[p],
         NEW rows, NEW history, Follows(lg, rows, history)
  PROVE  Follows(longer, rows, history)
<1>1. ASSUME NEW p, Blamed(lg, p, history) PROVE Blamed(longer, p, history)
  <2>1. PICK q \in 1..Len(lg) : /\ q <= p /\ lg[q].row = <<>>
                                /\ q <= Len(history) /\ \A i \in 1..q : lg[i].token = history[i]
    BY <1>1 DEF Blamed
  <2>2. q \in 1..Len(longer) /\ \A i \in 1..q : i \in 1..Len(lg)
    BY <2>1
  <2>3. QED
    BY <2>1, <2>2 DEF Blamed
<1>2. QED
  BY <1>1 DEF Follows

(* begin_generate keeps rows only of what the old history and the new prompt  *)
(* share.                                                                    *)
LEMMA KeptAreShared ==
  ASSUME NEW sl \in FamSlots, NEW ids \in Seq(Tokens), NEW want \in Nat
  PROVE  LET kept == AppliedReuse(sl, ids, want)
         IN  /\ kept \in Nat /\ kept <= Len(sl.rows) /\ kept <= Len(ids) /\ kept <= Len(sl.history)
             /\ \A i \in 1..kept : sl.history[i] = ids[i]
<1> DEFINE match == CommonPrefix(sl.history, ids)
           kept  == AppliedReuse(sl, ids, want)
<1>1. sl.history \in Seq(Tokens) /\ Len(sl.rows) \in Nat /\ Len(ids) \in Nat
  BY DEF FamSlots
<1>2. /\ match \in 0..Least(Len(sl.history), Len(ids))
      /\ \A i \in 1..match : sl.history[i] = ids[i]
  BY <1>1, CommonPrefixIsShared
<1> HIDE DEF match
<1>3. match \in Nat /\ match <= Len(sl.history) /\ match <= Len(ids)
  BY <1>1, <1>2 DEF Least
<1>4. kept = IF sl.have /\ Len(sl.rows) > 0
                /\ Len(sl.rows) <= Least(want, IF sl.have THEN match ELSE 0)
                /\ Len(sl.rows) <= Len(ids)
             THEN Len(sl.rows) ELSE 0
  BY DEF AppliedReuse, match
<1> HIDE DEF kept
<1>5. kept \in Nat /\ kept <= match /\ kept <= Len(sl.rows)
  BY <1>1, <1>3, <1>4 DEF Least
<1>6. /\ kept <= Len(ids) /\ kept <= Len(sl.history)
      /\ \A i \in 1..kept : i \in 1..match
  BY <1>1, <1>3, <1>5
<1>7. QED
  BY <1>2, <1>5, <1>6 DEF kept

(* The rows a generation leaves: those it keeps belong to the new text, and   *)
(* those it computes are right, unless a kept one is wrong.                   *)
LEMMA FilledFollows ==
  ASSUME NEW lg \in Seq(Records), NEW sl \in FamSlots, NEW ids \in Seq(Tokens), NEW text \in Texts,
         IsInitialOf(ids, text), NEW want \in Nat, NEW n \in Nat, n <= Len(text)
  PROVE  LET rows == Filled(SubSeq(sl.rows, 1, AppliedReuse(sl, ids, want)), text, n)
         IN  /\ rows \in Seq(Texts)
             /\ Follows(lg, sl.rows, sl.history) => Follows(lg, rows, text)
<1> DEFINE a    == AppliedReuse(sl, ids, want)
           kept == SubSeq(sl.rows, 1, a)
           sound == \A p \in DOMAIN kept : kept[p] = SubSeq(text, 1, p)
           rows == Filled(kept, text, n)
<1>1. /\ sl.rows \in Seq(Texts) /\ sl.history \in Seq(Tokens)
      /\ text \in Seq(Tokens) /\ Len(text) <= MaxLen /\ MaxLen \in Nat
  BY TextsAreSeqs, EngineAssumption DEF FamSlots
<1>2. /\ a \in Nat /\ a <= Len(sl.rows) /\ a <= Len(ids) /\ a <= Len(sl.history)
      /\ \A i \in 1..a : sl.history[i] = ids[i]
  BY KeptAreShared
<1>3. a <= Len(text) /\ \A i \in 1..a : sl.history[i] = text[i]
  BY <1>1, <1>2 DEF IsInitialOf
<1> HIDE DEF a
<1>4. kept \in Seq(Texts) /\ Len(kept) = a /\ \A p \in 1..a : kept[p] = sl.rows[p]
  BY <1>1, <1>2, PartOfSeq
<1>5. DOMAIN kept = 1..a
  BY <1>4
<1> HIDE DEF kept
<1>6. rows = [p \in 1..n |-> IF p <= a THEN kept[p]
                             ELSE IF sound THEN SubSeq(text, 1, p) ELSE <<>>]
  BY <1>4 DEF Filled
<1> HIDE DEF rows
<1>7. \A p \in 1..n : SubSeq(text, 1, p) \in Texts /\ <<>> \in Texts
  <2>1. SUFFICES ASSUME NEW p \in 1..n PROVE SubSeq(text, 1, p) \in Texts /\ <<>> \in Texts
    OBVIOUS
  <2>2. p \in Nat /\ 1 \in Nat /\ p <= Len(text) /\ 1 <= 1
    BY <1>1
  <2>3. SubSeq(text, 1, p) \in Seq(Tokens)
    BY <1>1, <2>2, PartOfSeq
  <2>4. Len(SubSeq(text, 1, p)) <= MaxLen
    BY <1>1, <2>2
  <2>5. <<>> \in Seq(Tokens) /\ Len(<<>>) <= MaxLen
    BY <1>1
  <2>6. QED
    BY <2>3, <2>4, <2>5, TextsAreSeqs
<1>8. \A p \in 1..n : p <= a => p \in 1..a
  BY <1>2
<1>9. rows \in [1..n -> Texts]
  <2>1. \A p \in 1..a : kept[p] \in Texts
    BY <1>4, <1>5
  <2> HIDE DEF sound
  <2>2. QED
    BY <1>6, <1>7, <1>8, <2>1
<1>10. rows \in Seq(Texts) /\ Len(rows) = n
  <2>1. rows \in Seq(Texts)
    BY <1>9, SeqDef
  <2>2. DOMAIN rows = 1..Len(rows) /\ Len(rows) \in Nat
    BY <2>1, LenProperties
  <2>3. QED
    BY <1>9, <2>1, <2>2
<1>11. ASSUME Follows(lg, sl.rows, sl.history)
       PROVE  Follows(lg, rows, text)
  <2>1. ASSUME NEW p \in 1..a
        PROVE  /\ SubSeq(sl.history, 1, p) = SubSeq(text, 1, p)
               /\ Blamed(lg, p, sl.history) => Blamed(lg, p, text)
    <3>1. p \in Nat /\ p <= Len(sl.history) /\ p <= Len(text) /\ \A i \in 1..p : sl.history[i] = text[i]
      BY <1>1, <1>2, <1>3
    <3>2. SubSeq(sl.history, 1, p) = SubSeq(text, 1, p)
      BY <1>1, <3>1, SameBeginning
    <3>3. ASSUME Blamed(lg, p, sl.history) PROVE Blamed(lg, p, text)
      <4>1. PICK q \in 1..Len(lg) :
              /\ q <= p /\ lg[q].row = <<>>
              /\ q <= Len(sl.history) /\ \A i \in 1..q : lg[i].token = sl.history[i]
        BY <3>3 DEF Blamed
      <4>2. q <= Len(text) /\ \A i \in 1..q : i \in 1..p
        BY <1>1, <3>1, <4>1
      <4>3. QED
        BY <3>1, <4>1, <4>2 DEF Blamed
    <3>4. QED
      BY <3>2, <3>3
  <2>2. \A p \in 1..a : /\ kept[p] \in {<<>>, SubSeq(text, 1, p)}
                        /\ kept[p] = SubSeq(text, 1, p) \/ Blamed(lg, p, text)
    <3>1. \A p \in 1..a : p \in 1..Len(sl.rows)
      BY <1>1, <1>2
    <3>2. QED
      BY <1>4, <1>11, <2>1, <3>1 DEF Follows
  <2>3. ASSUME NEW p \in 1..n, p > a, ~sound
        PROVE  Blamed(lg, p, text)
    <3>1. PICK r \in 1..a : kept[r] # SubSeq(text, 1, r)
      BY <1>5, <2>3
    <3>2. Blamed(lg, r, text) /\ r <= p
      BY <1>2, <2>2, <2>3, <3>1
    <3>3. PICK q \in 1..Len(lg) :
            /\ q <= r /\ lg[q].row = <<>>
            /\ q <= Len(text) /\ \A i \in 1..q : lg[i].token = text[i]
      BY <3>2 DEF Blamed
    <3>4. q <= p
      BY <1>2, <3>2, <3>3
    <3>5. QED
      BY <3>3, <3>4 DEF Blamed
  <2> HIDE DEF sound
  <2>4. ASSUME NEW p \in 1..n
        PROVE  /\ rows[p] \in {<<>>, SubSeq(text, 1, p)}
               /\ rows[p] = SubSeq(text, 1, p) \/ Blamed(lg, p, text)
    <3>1. CASE p <= a
      <4>1. rows[p] = kept[p] /\ p \in 1..a
        BY <1>6, <1>8, <3>1
      <4>2. QED
        BY <2>2, <4>1
    <3>2. CASE p > a /\ sound
      BY <1>2, <1>6, <3>2
    <3>3. CASE p > a /\ ~sound
      <4>1. rows[p] = <<>>
        BY <1>2, <1>6, <3>3
      <4>2. QED
        BY <2>3, <3>3, <4>1
    <3>4. QED
      BY <1>2, <3>1, <3>2, <3>3
  <2>5. QED
    BY <1>10, <2>4 DEF Follows
<1>12. QED
  BY <1>10, <1>11 DEF rows, kept, a
-----------------------------------------------------------------------------
(* One sequence laid over the beginning of another. *)
LEMMA Overlaid ==
  ASSUME NEW T, NEW a \in Seq(T), NEW b \in Seq(T), NEW n, n = Len(a),
         NEW c, c = a \o SubSeq(b, n + 1, Len(b))
  PROVE  /\ c \in Seq(T) /\ Len(c) = IF Len(b) > n THEN Len(b) ELSE n
         /\ \A i \in 1..n : c[i] = a[i]
         /\ \A i \in 1..Len(c) : i > n => c[i] = b[i]
<1> DEFINE rest == SubSeq(b, n + 1, Len(b))
<1>1. n \in Nat /\ Len(b) \in Nat
  OBVIOUS
<1>2. rest \in Seq(T)
  BY <1>1, PartOfSeq
<1>3. /\ Len(rest) = IF Len(b) > n THEN Len(b) - n ELSE 0
      /\ \A i \in 1..Len(rest) : rest[i] = b[n + i]
  BY <1>1
<1>4. c = a \o rest
  OBVIOUS
<1> HIDE DEF rest
<1>5. /\ c \in Seq(T) /\ Len(c) = n + Len(rest)
      /\ \A i \in 1..n : c[i] = a[i]
      /\ \A i \in 1..n + Len(rest) : i > n => c[i] = rest[i - n]
  <2> DEFINE d == a \o rest
  <2>1. /\ d \in Seq(T) /\ Len(d) = n + Len(rest)
        /\ \A i \in 1..n : d[i] = a[i]
        /\ \A i \in 1..n + Len(rest) : i > n => d[i] = rest[i - n]
    BY <1>1, <1>2, ConcatProperties
  <2>2. c = d
    BY <1>4
  <2> HIDE DEF d
  <2>3. QED
    BY <2>1, <2>2
<1>6. ASSUME NEW i \in 1..Len(c), i > n PROVE c[i] = b[i]
  <2>1. i - n \in 1..Len(rest) /\ n + (i - n) = i
    BY <1>1, <1>2, <1>5, <1>6
  <2>2. QED
    BY <1>3, <1>5, <1>6, <2>1
<1>7. Len(c) = IF Len(b) > n THEN Len(b) ELSE n
  BY <1>1, <1>3, <1>5
<1>8. QED
  BY <1>5, <1>6, <1>7 DEF rest

(* Every row of a log belongs to its token, or is missing. *)
Belong(lg) == \A p \in 1..Len(lg) : lg[p].row \in {<<>>, SubSeq(TokensOf(lg), 1, p)}

(* import_kv_rows yields a slot again ... *)
LEMMA ImportedType ==
  ASSUME log \in Seq(Records), NEW sl \in FamSlots
  PROVE  LET new == Imported(sl)
             n   == Len(log)
         IN  /\ new \in FamSlots
             /\ Len(new.history) = IF Len(sl.history) > n THEN Len(sl.history) ELSE n
             /\ \A i \in 1..n : new.history[i] = log[i].token
             /\ \A i \in 1..Len(new.history) : i > n => new.history[i] = sl.history[i]
             /\ Len(new.rows) = IF Len(sl.rows) > n THEN Len(sl.rows) ELSE n
             /\ \A i \in 1..n : new.rows[i] = log[i].row
             /\ \A i \in 1..Len(new.rows) : i > n => new.rows[i] = sl.rows[i]
<1> DEFINE n == Len(log)
           loaded == [p \in 1..n |-> log[p].row]
           new == Imported(sl)
<1>1. sl.history \in Seq(Tokens) /\ sl.rows \in Seq(Texts) /\ n \in Nat
  BY DEF FamSlots
<1>2. /\ TokensOf(log) \in Seq(Tokens) /\ Len(TokensOf(log)) = n
      /\ \A p \in 1..n : TokensOf(log)[p] = log[p].token
  BY TokensType
<1>3. loaded \in Seq(Texts) /\ Len(loaded) = n /\ \A p \in 1..n : loaded[p] = log[p].row
  <2>1. \A p \in 1..n : log[p] \in Records
    OBVIOUS
  <2>2. loaded \in [1..n -> Texts]
    BY <2>1 DEF Records
  <2>3. loaded \in Seq(Texts)
    BY <1>1, <2>2, SeqDef
  <2>4. DOMAIN loaded = 1..Len(loaded) /\ Len(loaded) \in Nat
    BY <2>3, LenProperties
  <2>5. QED
    BY <1>1, <2>2, <2>3, <2>4
<1> DEFINE hist == TokensOf(log) \o SubSeq(sl.history, n + 1, Len(sl.history))
           rows == loaded \o SubSeq(sl.rows, n + 1, Len(sl.rows))
<1>4. new = [have |-> TRUE, history |-> hist, rows |-> rows]
  BY DEF Imported, LoggedTokens, TokensOf
<1> HIDE DEF loaded, n
<1>5. hist = TokensOf(log) \o SubSeq(sl.history, n + 1, Len(sl.history))
  OBVIOUS
<1>6. rows = loaded \o SubSeq(sl.rows, n + 1, Len(sl.rows))
  OBVIOUS
<1> HIDE DEF hist, rows
<1>7. /\ hist \in Seq(Tokens) /\ Len(hist) = IF Len(sl.history) > n THEN Len(sl.history) ELSE n
      /\ \A i \in 1..n : hist[i] = TokensOf(log)[i]
      /\ \A i \in 1..Len(hist) : i > n => hist[i] = sl.history[i]
  <2>1. TokensOf(log) \in Seq(Tokens) /\ sl.history \in Seq(Tokens) /\ n = Len(TokensOf(log))
    BY <1>1, <1>2
  <2> DEFINE a == TokensOf(log)
             b == sl.history
  <2>2. a \in Seq(Tokens) /\ b \in Seq(Tokens) /\ n = Len(a) /\ hist = a \o SubSeq(b, n + 1, Len(b))
    BY <1>5, <2>1
  <2> HIDE DEF a, b
  <2>3. /\ hist \in Seq(Tokens) /\ Len(hist) = IF Len(b) > n THEN Len(b) ELSE n
        /\ \A i \in 1..n : hist[i] = a[i]
        /\ \A i \in 1..Len(hist) : i > n => hist[i] = b[i]
    BY ONLY <2>2, Overlaid
  <2>4. QED
    BY <2>3 DEF a, b
<1>8. /\ rows \in Seq(Texts) /\ Len(rows) = IF Len(sl.rows) > n THEN Len(sl.rows) ELSE n
      /\ \A i \in 1..n : rows[i] = loaded[i]
      /\ \A i \in 1..Len(rows) : i > n => rows[i] = sl.rows[i]
  <2> DEFINE b == sl.rows
  <2>1. loaded \in Seq(Texts) /\ b \in Seq(Texts) /\ n = Len(loaded) /\ rows = loaded \o SubSeq(b, n + 1, Len(b))
    BY <1>1, <1>3, <1>6
  <2> HIDE DEF b
  <2>2. /\ rows \in Seq(Texts) /\ Len(rows) = IF Len(b) > n THEN Len(b) ELSE n
        /\ \A i \in 1..n : rows[i] = loaded[i]
        /\ \A i \in 1..Len(rows) : i > n => rows[i] = b[i]
    BY ONLY <2>1, Overlaid
  <2>3. QED
    BY <2>2 DEF b
<1> HIDE DEF hist, rows, new
<1>9. new \in FamSlots /\ new.history = hist /\ new.rows = rows
  BY <1>4, <1>7, <1>8 DEF FamSlots
<1>10. QED
  BY <1>2, <1>3, <1>7, <1>8, <1>9 DEF n, new

(* ... and, when the slot's history and the file are of one conversation, one *)
(* whose rows are right but for the records without a row.                    *)
LEMMA ImportedFollows ==
  ASSUME log \in Seq(Records), NEW sl \in FamSlots, NEW t \in Seq(Tokens), Belong(log),
         IsInitialOf(TokensOf(log), t), Comparable(t, sl.history),
         Follows(log, sl.rows, sl.history)
  PROVE  /\ Comparable(t, Imported(sl).history)
         /\ Follows(log, Imported(sl).rows, Imported(sl).history)
<1> DEFINE n == Len(log)
           new == Imported(sl)
           logged == TokensOf(log)
<1>1. /\ new \in FamSlots
      /\ Len(new.history) = IF Len(sl.history) > n THEN Len(sl.history) ELSE n
      /\ \A i \in 1..n : new.history[i] = log[i].token
      /\ \A i \in 1..Len(new.history) : i > n => new.history[i] = sl.history[i]
      /\ Len(new.rows) = IF Len(sl.rows) > n THEN Len(sl.rows) ELSE n
      /\ \A i \in 1..n : new.rows[i] = log[i].row
      /\ \A i \in 1..Len(new.rows) : i > n => new.rows[i] = sl.rows[i]
  BY ImportedType
<1>2. /\ n \in Nat /\ new.history \in Seq(Tokens) /\ new.rows \in Seq(Texts)
      /\ sl.history \in Seq(Tokens) /\ sl.rows \in Seq(Texts)
  BY <1>1 DEF FamSlots
<1>3. logged \in Seq(Tokens) /\ Len(logged) = n /\ \A p \in 1..n : logged[p] = log[p].token
  BY TokensType
<1> HIDE DEF new, logged, n
<1>4. IsInitialOf(logged, new.history)
  <2>1. Len(new.history) >= n /\ Len(sl.history) \in Nat
    BY <1>1, <1>2
  <2>2. \A i \in 1..n : logged[i] = new.history[i]
    BY <1>1, <1>3
  <2>3. QED
    BY <1>2, <1>3, <2>1, <2>2 DEF IsInitialOf
<1>5. ASSUME Comparable(t, new.history), Len(new.rows) <= Len(new.history),
             \A p \in 1..Len(new.rows) : p > n =>
               /\ new.rows[p] \in {<<>>, SubSeq(new.history, 1, p)}
               /\ new.rows[p] = SubSeq(new.history, 1, p) \/ Blamed(log, p, new.history)
      PROVE  Comparable(t, new.history) /\ Follows(log, new.rows, new.history)
  <2>1. ASSUME NEW p \in 1..n
        PROVE  /\ new.rows[p] \in {<<>>, SubSeq(new.history, 1, p)}
               /\ new.rows[p] = SubSeq(new.history, 1, p) \/ Blamed(log, p, new.history)
    <3>1. p \in Nat /\ p <= Len(logged) /\ p <= Len(new.history) /\ \A i \in 1..p : logged[i] = new.history[i]
      BY <1>2, <1>3, <1>4 DEF IsInitialOf
    <3>2. SubSeq(logged, 1, p) = SubSeq(new.history, 1, p)
      BY <1>2, <1>3, <3>1, SameBeginning
    <3>3. new.rows[p] = log[p].row /\ log[p].row \in {<<>>, SubSeq(logged, 1, p)}
      BY <1>1 DEF Belong, logged, n
    <3>4. ASSUME log[p].row = <<>> PROVE Blamed(log, p, new.history)
      <4>1. \A i \in 1..p : log[i].token = new.history[i]
        BY <1>2, <1>3, <3>1
      <4>2. p \in 1..Len(log) /\ p <= p
        BY <3>1 DEF n
      <4>3. QED
        BY <3>1, <3>4, <4>1, <4>2 DEF Blamed
    <3>5. QED
      BY <3>2, <3>3, <3>4
  <2>2. \A p \in 1..Len(new.rows) : p > n \/ p \in 1..n
    BY <1>2
  <2>3. QED
    BY <1>5, <2>1, <2>2 DEF Follows
<1>6. CASE Len(sl.history) > n
  <2>1. IsInitialOf(logged, sl.history)
    <3>1. CASE IsInitialOf(t, sl.history)
      BY <1>2, <1>3, <3>1, InitialOfInitial DEF logged
    <3>2. CASE IsInitialOf(sl.history, t)
      BY <1>2, <1>3, <1>6, <3>2, InitialsCompare DEF logged
    <3>3. QED
      BY <3>1, <3>2 DEF Comparable
  <2>2. \A i \in 1..Len(sl.history) : new.history[i] = sl.history[i]
    <3>1. SUFFICES ASSUME NEW i \in 1..Len(sl.history) PROVE new.history[i] = sl.history[i]
      OBVIOUS
    <3>2. CASE i <= n
      <4>1. i \in 1..n
        BY <1>2, <3>2
      <4>2. QED
        BY <1>1, <1>3, <2>1, <4>1 DEF IsInitialOf
    <3>3. CASE i > n
      BY <1>1, <1>6, <3>3
    <3>4. QED
      BY <1>2, <3>2, <3>3
  <2>3. new.history = sl.history
    BY <1>1, <1>2, <1>6, <2>2, SameSeq
  <2>4. Comparable(t, new.history)
    BY <2>3
  <2>5. Len(new.rows) <= Len(new.history)
    BY <1>1, <1>2, <1>6, <2>3 DEF Follows
  <2>6. ASSUME NEW p \in 1..Len(new.rows), p > n
        PROVE  /\ new.rows[p] \in {<<>>, SubSeq(new.history, 1, p)}
               /\ new.rows[p] = SubSeq(new.history, 1, p) \/ Blamed(log, p, new.history)
    <3>1. new.rows[p] = sl.rows[p] /\ p \in 1..Len(sl.rows)
      BY <1>1, <1>2, <2>6
    <3>2. QED
      BY <2>3, <3>1 DEF Follows
  <2>7. QED
    BY <1>5, <2>4, <2>5, <2>6 DEF new
<1>7. CASE ~(Len(sl.history) > n)
  <2>1. Len(new.history) = Len(logged) /\ \A i \in 1..Len(new.history) : new.history[i] = logged[i]
    BY <1>1, <1>2, <1>3, <1>7
  <2>2. new.history = logged
    BY <1>2, <1>3, <2>1, SameSeq
  <2>3. Comparable(t, new.history)
    BY <2>2 DEF Comparable, logged
  <2>4. Len(sl.rows) <= n
    BY <1>2, <1>7 DEF Follows
  <2>5. Len(new.rows) = n /\ Len(new.history) = n
    BY <1>1, <1>2, <1>7, <2>4
  <2>6. \A p \in 1..Len(new.rows) : ~(p > n)
    BY <1>2, <2>5
  <2>7. QED
    BY <1>2, <1>5, <2>3, <2>5, <2>6 DEF new
<1>8. QED
  BY <1>6, <1>7
-----------------------------------------------------------------------------
(* The file after an append holds the text of the turn, and its new rows are  *)
(* those the slot had or missing.                                            *)
LEMMA GrownFile ==
  ASSUME log \in Seq(Records), NEW text \in Texts, NEW rows \in Seq(Texts),
         Len(text) > Len(log), NEW new, new = log \o TailRecs(text, rows)
  PROVE  /\ new \in Seq(Records) /\ Len(new) = Len(text)
         /\ \A p \in 1..Len(log) : new[p] = log[p]
         /\ IsInitialOf(TokensOf(log), text) =>
              /\ TokensOf(new) = text
              /\ Belong(log) /\ Follows(log, rows, text) => Belong(new)
<1> DEFINE n == Len(log)
           k == Len(text) - n
           tail == TailRecs(text, rows)
           Rec(p) == [token |-> text[p], row |-> IF p <= Len(rows) THEN rows[p] ELSE <<>>]
<1>1. /\ text \in Seq(Tokens) /\ Len(text) <= MaxLen /\ n \in Nat /\ k \in Nat
      /\ <<>> \in Texts
  <2>1. text \in Seq(Tokens) /\ Len(text) <= MaxLen /\ n \in Nat /\ k \in Nat
    BY TextsAreSeqs
  <2>2. <<>> \in Seq(Tokens) /\ Len(<<>>) <= MaxLen
    BY EngineAssumption
  <2>3. QED
    BY <2>1, <2>2, TextsAreSeqs
<1>2. \A p \in 1..Len(text) : Rec(p) \in Records
  <2>1. SUFFICES ASSUME NEW p \in 1..Len(text) PROVE Rec(p) \in Records
    OBVIOUS
  <2>2. text[p] \in Tokens
    BY <1>1
  <2>3. p <= Len(rows) => p \in 1..Len(rows)
    BY <1>1
  <2>4. (IF p <= Len(rows) THEN rows[p] ELSE <<>>) \in Texts
    BY <1>1, <2>3
  <2>5. QED
    BY <2>2, <2>4 DEF Records
<1>3. tail = [i \in 1..k |-> Rec(n + i)]
  BY DEF TailRecs
<1> HIDE DEF Rec, tail
<1>4. \A i \in 1..k : n + i \in 1..Len(text)
  BY <1>1
<1>5. tail \in Seq(Records) /\ Len(tail) = k /\ \A i \in 1..k : tail[i] = Rec(n + i)
  <2>1. tail \in [1..k -> Records]
    BY <1>2, <1>3, <1>4
  <2>2. tail \in Seq(Records)
    BY <1>1, <2>1, SeqDef
  <2>3. DOMAIN tail = 1..Len(tail) /\ Len(tail) \in Nat
    BY <2>2, LenProperties
  <2>4. QED
    BY <1>1, <1>3, <2>1, <2>2, <2>3
<1>6. /\ new \in Seq(Records) /\ Len(new) = Len(text)
      /\ \A p \in 1..n : new[p] = log[p]
      /\ \A p \in 1..Len(text) : p > n => new[p] = Rec(p)
  <2> DEFINE c == log \o tail
  <2>1. /\ c \in Seq(Records) /\ Len(c) = n + k
        /\ \A p \in 1..n : c[p] = log[p]
        /\ \A p \in 1..n + k : p > n => c[p] = tail[p - n]
    BY <1>1, <1>5, ConcatProperties
  <2>2. new = c
    BY DEF tail
  <2>3. \A p \in 1..n + k : p > n => p - n \in 1..k /\ n + (p - n) = p
    BY <1>1
  <2>4. n + k = Len(text)
    BY <1>1
  <2> HIDE DEF c, k, n
  <2>5. \A p \in 1..n + k : p > n => c[p] = Rec(p)
    BY <1>5, <2>1, <2>3
  <2>6. QED
    BY <2>1, <2>2, <2>4, <2>5
<1>7. ASSUME IsInitialOf(TokensOf(log), text)
      PROVE  /\ TokensOf(new) = text
             /\ Belong(log) /\ Follows(log, rows, text) => Belong(new)
  <2>1. /\ TokensOf(log) \in Seq(Tokens) /\ Len(TokensOf(log)) = n
        /\ \A p \in 1..n : TokensOf(log)[p] = log[p].token
    BY TokensType
  <2>2. /\ TokensOf(new) \in Seq(Tokens) /\ Len(TokensOf(new)) = Len(text)
        /\ \A p \in 1..Len(text) : TokensOf(new)[p] = new[p].token
    BY <1>6, TokensType
  <2>3. \A p \in 1..n : p \in 1..Len(text) /\ TokensOf(log)[p] = text[p]
    BY <1>1, <1>7, <2>1 DEF IsInitialOf
  <2>4. ASSUME NEW p \in 1..Len(text) PROVE TokensOf(new)[p] = text[p]
    <3>1. CASE p > n
      <4>1. new[p] = Rec(p)
        BY <1>6, <3>1
      <4>2. new[p].token = text[p]
        BY <4>1 DEF Rec
      <4>3. QED
        BY <2>2, <4>2
    <3>2. CASE ~(p > n)
      <4>1. p \in 1..n
        BY <1>1, <3>2
      <4>2. new[p] = log[p]
        BY <1>6, <4>1
      <4>3. QED
        BY <2>1, <2>2, <2>3, <4>1, <4>2
    <3>3. QED
      BY <3>1, <3>2
  <2>5. TokensOf(new) = text
    BY <1>1, <2>2, <2>4, SameSeq
  <2>6. ASSUME Belong(log), Follows(log, rows, text), NEW p \in 1..Len(text)
        PROVE  new[p].row \in {<<>>, SubSeq(text, 1, p)}
    <3>1. CASE p > n
      <4>1. new[p] = Rec(p)
        BY <1>6, <3>1
      <4>2. new[p].row = IF p <= Len(rows) THEN rows[p] ELSE <<>>
        BY <4>1 DEF Rec
      <4>3. p <= Len(rows) => p \in 1..Len(rows)
        BY <1>1
      <4>4. QED
        BY <2>6, <4>2, <4>3 DEF Follows
    <3>2. CASE ~(p > n)
      <4>1. p \in 1..n
        BY <1>1, <3>2
      <4>2. \A i \in 1..p : i \in 1..n
        BY <1>1, <4>1
      <4>3. p \in Nat /\ p <= n /\ p <= Len(text)
        BY <1>1, <4>1
      <4>4. SubSeq(TokensOf(log), 1, p) = SubSeq(text, 1, p)
        BY <1>1, <2>1, <2>3, <4>2, <4>3, SameBeginning
      <4>5. new[p] = log[p] /\ log[p].row \in {<<>>, SubSeq(TokensOf(log), 1, p)}
        BY <1>6, <2>6, <4>1 DEF Belong
      <4>6. QED
        BY <4>4, <4>5
    <3>3. QED
      BY <3>1, <3>2
  <2>7. QED
    BY <1>6, <2>5, <2>6 DEF Belong
<1>8. QED
  BY <1>6, <1>7
-----------------------------------------------------------------------------
(* Two texts that are short enough together make a text. *)
LEMMA TextOfTurn ==
  ASSUME NEW ids \in Texts, NEW toks \in Texts, Len(ids) + Len(toks) <= MaxLen
  PROVE  /\ ids \in Seq(Tokens) /\ toks \in Seq(Tokens)
         /\ ids \o toks \in Texts /\ ids \o toks \in Seq(Tokens)
         /\ Len(ids \o toks) = Len(ids) + Len(toks)
         /\ IsInitialOf(ids, ids \o toks)
<1>1. ids \in Seq(Tokens) /\ toks \in Seq(Tokens)
  BY TextsAreSeqs
<1>2. /\ ids \o toks \in Seq(Tokens) /\ Len(ids \o toks) = Len(ids) + Len(toks)
      /\ \A i \in 1..Len(ids) : (ids \o toks)[i] = ids[i]
  BY <1>1, ConcatProperties
<1>3. ids \o toks \in Texts
  BY <1>2, TextsAreSeqs
<1>4. IsInitialOf(ids, ids \o toks)
  BY <1>1, <1>2 DEF IsInitialOf
<1>5. QED
  BY <1>1, <1>2, <1>3, <1>4

(* The slot after a generation: the text, and rows of it that are wrong only  *)
(* where the file is to blame.                                               *)
LEMMA GeneratedFollows ==
  ASSUME TypeOK, NEW s \in Slots, NEW ids \in Texts, NEW toks \in Texts,
         Len(ids) + Len(toks) <= MaxLen, ids # <<>>, NEW way \in Ways, NEW reuse \in Nat,
         NEW left, left = Generated(s, ids, toks, way, reuse)
  PROVE  /\ left \in FamSlots /\ left.have /\ left.history = ids \o toks
         /\ left.rows \in Seq(Texts)
         /\ Follows(log, fam[s].rows, fam[s].history) => Follows(log, left.rows, ids \o toks)
<1> DEFINE text     == ids \o toks
           armed    == PrefixArm(prefix[s], sess[s], ids, Room(way, toks))
           official == PrefixReuse(armed, ids)
           want     == IF official > 0 THEN official ELSE reuse
           pos      == IF toks = <<>> \/ way = "full" THEN Len(text) ELSE Len(text) - 1
           rows     == Filled(SubSeq(fam[s].rows, 1, AppliedReuse(fam[s], ids, want)), text, pos)
<1>1. left = [have |-> TRUE, history |-> text, rows |-> rows]
  BY DEF Generated
<1>2. /\ log \in Seq(Records) /\ fam[s] \in FamSlots
      /\ prefix[s] \in Prefixes(Tokens) /\ sess[s] \in Seq(Tokens)
  BY TextsAreSeqs DEF TypeOK
<1>3. /\ ids \in Seq(Tokens) /\ toks \in Seq(Tokens) /\ text \in Texts /\ text \in Seq(Tokens)
      /\ Len(text) = Len(ids) + Len(toks) /\ IsInitialOf(ids, text)
  BY TextOfTurn
<1>4. Room(way, toks) \in Nat
  BY <1>3 DEF Room
<1>5. official \in Nat
  BY <1>2, <1>3, <1>4, ArmType
<1> HIDE DEF official
<1>6. want \in Nat
  BY <1>5
<1>7. pos \in Nat /\ pos <= Len(text)
  <2>1. Len(ids) >= 1
    BY <1>3
  <2>2. QED
    BY <1>3, <2>1
<1> HIDE DEF text, want, pos
<1>8. /\ rows \in Seq(Texts)
      /\ Follows(log, fam[s].rows, fam[s].history) => Follows(log, rows, text)
  BY <1>2, <1>3, <1>6, <1>7, FilledFollows
<1> HIDE DEF rows
<1>9. QED
  BY <1>1, <1>3, <1>8 DEF FamSlots, text
-----------------------------------------------------------------------------
(* persist_commit: the engine's idea of the file moves on, and the file is as *)
(* it was or holds the text.                                                 *)
LEMMA CommitStep ==
  ASSUME TypeOK, NEW text \in Texts, NEW rows, PersistCommit(text, rows)
  PROVE  /\ persist' \in [open : BOOLEAN, hist : Texts]
         /\ persist'.open => persist'.hist = text
         /\ faults' \in 0..MaxFaults
         /\ log' = log \/ (Len(text) > Len(log) /\ log' = log \o TailRecs(text, rows))
<1>1. persist \in [open : BOOLEAN, hist : Texts] /\ faults \in 0..MaxFaults
  BY DEF TypeOK
<1>2. CASE ~persist.open
  BY <1>1, <1>2 DEF PersistCommit
<1>3. CASE persist.open
  <2>1. persist' = [persist EXCEPT !.hist = text]
    BY <1>3 DEF PersistCommit
  <2>2. \/ UNCHANGED <<log, faults>>
        \/ Len(text) > Len(log) /\ log' = log \o TailRecs(text, rows) /\ UNCHANGED faults
        \/ faults < MaxFaults /\ faults' = faults + 1 /\ UNCHANGED log
    BY <1>3 DEF PersistCommit
  <2>3. faults' \in 0..MaxFaults
    BY <1>1, <2>2, EngineAssumption
  <2>4. QED
    BY <1>1, <2>1, <2>2, <2>3
<1>4. QED
  BY <1>2, <1>3

(* The same with the types, when the rows are those of the turn's slot. *)
LEMMA GrownType ==
  ASSUME TypeOK, NEW text \in Texts, NEW rows \in Seq(Texts), PersistCommit(text, rows)
  PROVE  log' \in Seq(Records) /\ Len(log') <= MaxLen
<1>1. CASE log' = log
  BY <1>1 DEF TypeOK
<1>2. CASE Len(text) > Len(log) /\ log' = log \o TailRecs(text, rows)
  <2>1. log \in Seq(Records)
    BY DEF TypeOK
  <2>2. log' \in Seq(Records) /\ Len(log') = Len(text)
    BY <1>2, <2>1, GrownFile
  <2>3. QED
    BY <2>2, TextsAreSeqs
<1>3. QED
  BY <1>1, <1>2, CommitStep

(* What is in the file is a text. *)
LEMMA LoggedType ==
  ASSUME TypeOK
  PROVE  LoggedTokens \in Texts /\ LoggedTokens = TokensOf(log)
<1>1. LoggedTokens = TokensOf(log)
  BY DEF LoggedTokens, TokensOf
<1>2. log \in Seq(Records) /\ Len(log) <= MaxLen
  BY DEF TypeOK
<1>3. TokensOf(log) \in Seq(Tokens) /\ Len(TokensOf(log)) <= MaxLen
  BY <1>2, TokensType
<1>4. QED
  BY <1>1, <1>3, TextsAreSeqs

LEMMA FreshType == FreshSlot \in FamSlots /\ <<>> \in Texts
<1>1. <<>> \in Seq(Tokens) /\ <<>> \in Seq(Texts) /\ Len(<<>>) <= MaxLen
  BY EngineAssumption
<1>2. QED
  BY <1>1, TextsAreSeqs DEF FreshSlot, FamSlots

LEMMA InitType == Init => TypeOK
<1>1. NoPrefix \in Prefixes(Tokens)
  BY DEF NoPrefix, Prefixes
<1>2. NotOpen \in [open : BOOLEAN, hist : Texts]
  BY FreshType DEF NotOpen
<1>3. 0 \in 0..MaxFaults /\ <<>> \in Seq(Records) /\ Len(<<>>) <= MaxLen
  BY EngineAssumption
<1>4. QED
  BY <1>1, <1>2, <1>3, FreshType DEF Init, TypeOK

(* A job that was cancelled: the rows of one that ran on, its own history. *)
Abandoned(s, ids, toks, reuse) ==
  [Generated(s, ids, toks, "job", reuse) EXCEPT !.rows = Generated(s, ids, toks, "full", reuse).rows]

LEMMA AbandonedFollows ==
  ASSUME TypeOK, NEW s \in Slots, NEW ids \in Texts, NEW toks \in Texts,
         Len(ids) + Len(toks) <= MaxLen, ids # <<>>, NEW reuse \in Nat,
         NEW left, left = Abandoned(s, ids, toks, reuse)
  PROVE  /\ left \in FamSlots /\ left.history = ids \o toks
         /\ Follows(log, fam[s].rows, fam[s].history) => Follows(log, left.rows, ids \o toks)
<1> DEFINE job  == Generated(s, ids, toks, "job", reuse)
           full == Generated(s, ids, toks, "full", reuse)
<1>1. "job" \in Ways /\ "full" \in Ways
  BY DEF Ways
<1>2. job \in FamSlots /\ job.history = ids \o toks
  BY <1>1, GeneratedFollows
<1>3. /\ full.rows \in Seq(Texts)
      /\ Follows(log, fam[s].rows, fam[s].history) => Follows(log, full.rows, ids \o toks)
  BY <1>1, GeneratedFollows
<1> HIDE DEF job, full
<1>4. left = [job EXCEPT !.rows = full.rows]
  BY DEF Abandoned, job, full
<1>5. left \in FamSlots /\ left.history = job.history /\ left.rows = full.rows
  BY <1>2, <1>3, <1>4 DEF FamSlots
<1>6. QED
  BY <1>2, <1>3, <1>5

LEMMA TypeStep == TypeOK /\ [Next]_vars => TypeOK'
<1> SUFFICES ASSUME TypeOK, [Next]_vars PROVE TypeOK'
  OBVIOUS
<1>1. /\ fam \in [Slots -> FamSlots] /\ prefix \in [Slots -> Prefixes(Tokens)]
      /\ sess \in [Slots -> Texts] /\ log \in Seq(Records) /\ Len(log) <= MaxLen
      /\ persist \in [open : BOOLEAN, hist : Texts] /\ told \in Texts /\ faults \in 0..MaxFaults
  BY DEF TypeOK
<1>2. ASSUME NEW s \in Slots, NEW ids \in Texts, NEW toks \in Texts, NEW reuse \in Reuses,
             Len(ids) + Len(toks) <= MaxLen, NEW way \in Ways, Turn(s, ids, toks, way, reuse)
      PROVE  TypeOK'
  <2> DEFINE left  == Generated(s, ids, toks, way, reuse)
             text  == ids \o toks
             armed == PrefixArm(prefix[s], sess[s], ids, Room(way, toks))
  <2>1. reuse \in Nat /\ ids # <<>>
    BY <1>2, EngineAssumption DEF Turn
  <2>2. text \in Texts /\ text \in Seq(Tokens) /\ ids \in Seq(Tokens) /\ toks \in Seq(Tokens)
    BY <1>2, TextOfTurn
  <2>3. left \in FamSlots /\ left.rows \in Seq(Texts)
    BY <1>2, <2>1, GeneratedFollows
  <2>4. PrefixCommit(armed, text) \in Prefixes(Tokens)
    <3>1. Room(way, toks) \in Nat /\ prefix[s] \in Prefixes(Tokens) /\ sess[s] \in Seq(Tokens)
      BY <1>1, <2>2, TextsAreSeqs DEF Room
    <3>2. armed \in Prefixes(Tokens)
      BY <2>2, <3>1, ArmType
    <3> HIDE DEF armed, text
    <3>3. QED
      BY <2>2, <3>2, CommitType
  <2>5. /\ fam' = [fam EXCEPT ![s] = left] /\ sess' = [sess EXCEPT ![s] = text]
        /\ prefix' = [prefix EXCEPT ![s] = PrefixCommit(armed, text)]
        /\ PersistCommit(text, left.rows)
        /\ told' = IF OneConversation THEN text ELSE told
    BY <1>2 DEF Turn
  <2> HIDE DEF left, text, armed
  <2>6. /\ persist' \in [open : BOOLEAN, hist : Texts] /\ faults' \in 0..MaxFaults
        /\ log' \in Seq(Records) /\ Len(log') <= MaxLen
    BY <2>2, <2>3, <2>5, CommitStep, GrownType
  <2>7. fam' \in [Slots -> FamSlots] /\ sess' \in [Slots -> Texts]
    BY <1>1, <2>2, <2>3, <2>5
  <2>8. prefix' \in [Slots -> Prefixes(Tokens)] /\ told' \in Texts
    BY <1>1, <2>2, <2>4, <2>5
  <2>9. QED
    BY <2>6, <2>7, <2>8 DEF TypeOK
<1>3. ASSUME NEW s \in Slots, NEW ids \in Texts, NEW toks \in Texts, NEW reuse \in Reuses,
             Len(ids) + Len(toks) <= MaxLen, Abandon(s, ids, toks, reuse)
      PROVE  TypeOK'
  <2> DEFINE left == Abandoned(s, ids, toks, reuse)
             armed == PrefixArm(prefix[s], sess[s], ids, 0)
  <2>1. reuse \in Nat /\ ids # <<>>
    BY <1>3, EngineAssumption DEF Abandon
  <2>2. left \in FamSlots
    BY <1>3, <2>1, AbandonedFollows
  <2>3. armed \in Prefixes(Tokens)
    <3>1. ids \in Seq(Tokens) /\ prefix[s] \in Prefixes(Tokens) /\ sess[s] \in Seq(Tokens) /\ 0 \in Nat
      BY <1>1, TextsAreSeqs
    <3>2. QED
      BY <3>1, ArmType
  <2>4. /\ fam' = [fam EXCEPT ![s] = left] /\ prefix' = [prefix EXCEPT ![s] = armed]
        /\ UNCHANGED <<sess, log, persist, told, faults>>
    BY <1>3 DEF Abandon, Abandoned
  <2> HIDE DEF left, armed
  <2>5. fam' \in [Slots -> FamSlots] /\ prefix' \in [Slots -> Prefixes(Tokens)]
    BY <1>1, <2>2, <2>3, <2>4
  <2>6. QED
    BY <1>1, <2>4, <2>5 DEF TypeOK
<1>4. ASSUME NEW s \in Slots, PersistOpen(s)
      PROVE  TypeOK'
  <2>1. LoggedTokens \in Texts /\ LoggedTokens \in Seq(Tokens)
    BY LoggedType, TextsAreSeqs
  <2>2. persist' \in [open : BOOLEAN, hist : Texts]
    BY <1>4, <2>1 DEF PersistOpen
  <2>3. UNCHANGED <<log, told, faults>>
    BY <1>4 DEF PersistOpen
  <2>4. CASE log = <<>>
    BY <1>1, <1>4, <2>2, <2>3, <2>4 DEF PersistOpen, TypeOK
  <2>5. CASE log # <<>>
    <3> DEFINE new == Imported(fam[s])
               record == PrefixRecord(PrefixAlloc(Len(log) + MaxSeq), LoggedTokens)
    <3>1. fam[s] \in FamSlots
      BY <1>1
    <3>2. new \in FamSlots
      BY <1>1, <3>1, ImportedType
    <3>3. record \in Prefixes(Tokens)
      <4>1. PrefixAlloc(Len(log) + MaxSeq) \in Prefixes(Tokens)
        BY <1>1, PrefixAssumption DEF PrefixAlloc, Prefixes
      <4>2. QED
        BY <2>1, <4>1, RecordType
    <3>4. /\ fam' = [fam EXCEPT ![s] = new] /\ prefix' = [prefix EXCEPT ![s] = record]
          /\ sess' = [sess EXCEPT ![s] = LoggedTokens]
      BY <1>4, <2>5 DEF PersistOpen
    <3> HIDE DEF new, record
    <3>5. /\ fam' \in [Slots -> FamSlots] /\ prefix' \in [Slots -> Prefixes(Tokens)]
          /\ sess' \in [Slots -> Texts]
      BY <1>1, <2>1, <3>2, <3>3, <3>4
    <3>6. QED
      BY <1>1, <2>2, <2>3, <3>5 DEF TypeOK
  <2>6. QED
    BY <2>4, <2>5
<1>5. ASSUME PersistOpenFails PROVE TypeOK'
  <2>1. NotOpen \in [open : BOOLEAN, hist : Texts]
    BY FreshType DEF NotOpen
  <2>2. faults' \in 0..MaxFaults
    BY <1>1, <1>5, EngineAssumption DEF PersistOpenFails
  <2>3. QED
    BY <1>1, <1>5, <2>1, <2>2 DEF PersistOpenFails, TypeOK
<1>6. ASSUME Restart PROVE TypeOK'
  <2>1. NotOpen \in [open : BOOLEAN, hist : Texts]
    BY FreshType DEF NotOpen
  <2>2. NoPrefix \in Prefixes(Tokens)
    BY DEF NoPrefix, Prefixes
  <2>3. QED
    BY <1>1, <1>6, <2>1, <2>2, FreshType DEF Restart, TypeOK
<1>7. ASSUME UNCHANGED vars PROVE TypeOK'
  BY <1>1, <1>7 DEF vars, TypeOK
<1>8. QED
  BY <1>2, <1>3, <1>4, <1>5, <1>6, <1>7 DEF Next

(* Every value the model keeps has its type, with any clients. *)
THEOREM TypeCorrect == Spec => []TypeOK
BY InitType, TypeStep, PTL DEF Spec
-----------------------------------------------------------------------------
(* What holds between turns when one client talks to the engine, in Home, and *)
(* only adds to what was said: the file begins what the client was told; the  *)
(* slot's history and what was told are of one conversation (the history of   *)
(* an abandoned job runs ahead of it, that of a reopened file may lag); and   *)
(* rows are wrong only where a record of the file lacks its own.              *)
OthersFresh == \A s \in Slots : s # Home => fam[s] = FreshSlot
FileWasTold == IsInitialOf(TokensOf(log), told)
HomeFollowsTold == Comparable(told, fam[Home].history)
RowsFollow == \A s \in Slots : Follows(log, fam[s].rows, fam[s].history)

EngineInv == TypeOK /\ OthersFresh /\ FileWasTold /\ HomeFollowsTold /\ RowsFollow
             /\ FileIsTranscript /\ Belong(log)

(* The slot of another than Home, and a slot after a restart. *)
LEMMA FreshFollows ==
  ASSUME NEW lg \in Seq(Records)
  PROVE  Follows(lg, FreshSlot.rows, FreshSlot.history)
BY DEF Follows, FreshSlot

LEMMA InitEngine == Init => EngineInv
<1> SUFFICES ASSUME Init PROVE EngineInv
  OBVIOUS
<1>1. TypeOK
  BY InitType
<1>2. /\ log = <<>> /\ told = <<>> /\ ~persist.open
      /\ \A s \in Slots : fam[s] = FreshSlot
  BY DEF Init, NotOpen
<1>3. log \in Seq(Records) /\ Len(log) = 0
  BY <1>1, <1>2 DEF TypeOK
<1>4. OthersFresh /\ RowsFollow
  BY <1>2, <1>3, FreshFollows DEF OthersFresh, RowsFollow
<1>5. TokensOf(log) \in Seq(Tokens) /\ Len(TokensOf(log)) = 0
  BY <1>3, TokensType
<1>6. FileWasTold
  BY <1>2, <1>5 DEF FileWasTold, IsInitialOf
<1>7. fam[Home] = FreshSlot
  BY <1>2, EngineAssumption
<1>8. HomeFollowsTold
  BY <1>2, <1>7 DEF HomeFollowsTold, Comparable, FreshSlot, IsInitialOf
<1>9. FileIsTranscript /\ Belong(log)
  BY <1>2, <1>3 DEF FileIsTranscript, Belong
<1>10. QED
  BY <1>1, <1>4, <1>6, <1>8, <1>9 DEF EngineInv

(* The rows of the slots after a step that changes one of them, or none. *)
LEMMA RowsOfSlots ==
  ASSUME TypeOK, RowsFollow, NEW s \in Slots, NEW left, fam' = [fam EXCEPT ![s] = left],
         log' \in Seq(Records), Len(log) <= Len(log'), \A p \in 1..Len(log) : log'[p] = log[p],
         Follows(log, left.rows, left.history)
  PROVE  RowsFollow'
<1>1. log \in Seq(Records) /\ fam \in [Slots -> FamSlots]
  BY DEF TypeOK
<1>2. SUFFICES ASSUME NEW q \in Slots PROVE Follows(log', fam'[q].rows, fam'[q].history)
  BY DEF RowsFollow
<1>3. Follows(log, fam'[q].rows, fam'[q].history)
  BY <1>1 DEF RowsFollow
<1>4. QED
  BY <1>1, <1>3, FollowsLongerLog

LEMMA TurnStep ==
  ASSUME EngineInv, OneConversation, TypeOK', NEW s \in Slots, NEW ids \in Texts, NEW toks \in Texts,
         NEW reuse \in Reuses, Len(ids) + Len(toks) <= MaxLen, NEW way \in Ways,
         Turn(s, ids, toks, way, reuse)
  PROVE  EngineInv'
<1> DEFINE left == Generated(s, ids, toks, way, reuse)
           text == ids \o toks
<1>1. TypeOK /\ log \in Seq(Records) /\ fam \in [Slots -> FamSlots]
  BY DEF EngineInv, TypeOK
<1>2. reuse \in Nat /\ ids # <<>> /\ s = Home /\ IsInitialOf(told, ids)
  BY EngineAssumption DEF Turn, Asks
<1>3. /\ text \in Texts /\ text \in Seq(Tokens) /\ ids \in Seq(Tokens) /\ told \in Seq(Tokens)
      /\ IsInitialOf(ids, text)
  BY <1>1, TextOfTurn, TextsAreSeqs DEF TypeOK
<1>4. IsInitialOf(TokensOf(log), text)
  <2>1. TokensOf(log) \in Seq(Tokens) /\ IsInitialOf(TokensOf(log), told)
    BY <1>1, TokensType DEF EngineInv, FileWasTold
  <2>2. IsInitialOf(told, text)
    BY <1>2, <1>3, InitialOfInitial
  <2>3. QED
    BY <1>3, <2>1, <2>2, InitialOfInitial
<1>5. /\ left \in FamSlots /\ left.history = text /\ left.rows \in Seq(Texts)
      /\ Follows(log, left.rows, text)
  BY <1>1, <1>2, GeneratedFollows DEF EngineInv, RowsFollow
<1>6. fam' = [fam EXCEPT ![s] = left] /\ told' = text /\ PersistCommit(text, left.rows)
  BY DEF Turn
<1> HIDE DEF left, text
<1>7. /\ persist'.open => persist'.hist = text
      /\ log' = log \/ (Len(text) > Len(log) /\ log' = log \o TailRecs(text, left.rows))
  BY <1>1, <1>3, <1>6, CommitStep
<1>8. /\ log' \in Seq(Records) /\ Len(log) <= Len(log') /\ \A p \in 1..Len(log) : log'[p] = log[p]
      /\ IsInitialOf(TokensOf(log'), text) /\ Belong(log')
  <2>1. CASE log' = log
    BY <1>1, <1>4, <2>1 DEF EngineInv
  <2>2. CASE Len(text) > Len(log) /\ log' = log \o TailRecs(text, left.rows)
    <3>1. /\ log' \in Seq(Records) /\ Len(log') = Len(text)
          /\ \A p \in 1..Len(log) : log'[p] = log[p]
          /\ TokensOf(log') = text /\ Belong(log')
      BY <1>1, <1>3, <1>4, <1>5, <2>2, GrownFile DEF EngineInv
    <3>2. IsInitialOf(text, text)
      BY <1>3 DEF IsInitialOf
    <3>3. Len(log) <= Len(log')
      BY <1>1, <1>3, <2>2, <3>1
    <3>4. QED
      BY <3>1, <3>2, <3>3
  <2>3. QED
    BY <1>7, <2>1, <2>2
<1>9. RowsFollow'
  BY <1>1, <1>5, <1>6, <1>8, RowsOfSlots DEF EngineInv
<1>10. OthersFresh' /\ HomeFollowsTold'
  <2>1. fam'[Home] = left /\ \A q \in Slots : q # Home => fam'[q] = fam[q]
    BY <1>1, <1>2, <1>6
  <2>2. IsInitialOf(text, text)
    BY <1>3 DEF IsInitialOf
  <2>3. QED
    BY <1>5, <1>6, <2>1, <2>2 DEF EngineInv, OthersFresh, HomeFollowsTold, Comparable
<1>11. FileWasTold'
  BY <1>6, <1>8 DEF FileWasTold, TokensOf
<1>12. FileIsTranscript'
  BY <1>7, <1>8 DEF FileIsTranscript, LoggedTokens, TokensOf
<1>13. Belong(log)'
  BY <1>8 DEF Belong, TokensOf
<1>14. QED
  BY <1>9, <1>10, <1>11, <1>12, <1>13 DEF EngineInv

LEMMA AbandonStep ==
  ASSUME EngineInv, OneConversation, TypeOK', NEW s \in Slots, NEW ids \in Texts, NEW toks \in Texts,
         NEW reuse \in Reuses, Len(ids) + Len(toks) <= MaxLen, Abandon(s, ids, toks, reuse)
  PROVE  EngineInv'
<1> DEFINE left == Abandoned(s, ids, toks, reuse)
           text == ids \o toks
<1>1. TypeOK /\ log \in Seq(Records) /\ fam \in [Slots -> FamSlots]
  BY DEF EngineInv, TypeOK
<1>2. reuse \in Nat /\ ids # <<>> /\ s = Home /\ IsInitialOf(told, ids)
  BY EngineAssumption DEF Abandon, Asks
<1>3. /\ text \in Seq(Tokens) /\ ids \in Seq(Tokens) /\ told \in Seq(Tokens)
      /\ IsInitialOf(ids, text)
  BY <1>1, TextOfTurn, TextsAreSeqs DEF TypeOK
<1>4. IsInitialOf(told, text)
  BY <1>2, <1>3, InitialOfInitial
<1>5. /\ left \in FamSlots /\ left.history = text
      /\ Follows(log, left.rows, text)
  <2>1. Follows(log, fam[s].rows, fam[s].history)
    BY DEF EngineInv, RowsFollow
  <2>2. QED
    BY <1>1, <1>2, <2>1, AbandonedFollows
<1>6. fam' = [fam EXCEPT ![s] = left] /\ UNCHANGED <<log, persist, told>>
  BY DEF Abandon, Abandoned
<1> HIDE DEF left, text
<1>7. log' \in Seq(Records) /\ Len(log) <= Len(log') /\ \A p \in 1..Len(log) : log'[p] = log[p]
  BY <1>1, <1>6
<1>8. RowsFollow'
  BY <1>1, <1>5, <1>6, <1>7, RowsOfSlots DEF EngineInv
<1>9. OthersFresh' /\ HomeFollowsTold'
  <2>1. fam'[Home] = left /\ \A q \in Slots : q # Home => fam'[q] = fam[q]
    BY <1>1, <1>2, <1>6
  <2>2. QED
    BY <1>4, <1>5, <1>6, <2>1 DEF EngineInv, OthersFresh, HomeFollowsTold, Comparable
<1>10. FileWasTold' /\ FileIsTranscript' /\ Belong(log)'
  BY <1>6 DEF EngineInv, FileWasTold, FileIsTranscript, LoggedTokens, TokensOf, Belong
<1>11. QED
  BY <1>8, <1>9, <1>10 DEF EngineInv

LEMMA OpenStep ==
  ASSUME EngineInv, OneConversation, TypeOK', NEW s \in Slots, PersistOpen(s)
  PROVE  EngineInv'
<1>1. /\ TypeOK /\ log \in Seq(Records) /\ fam \in [Slots -> FamSlots] /\ s = Home
      /\ told \in Seq(Tokens)
  BY TextsAreSeqs DEF EngineInv, TypeOK, PersistOpen
<1>2. /\ UNCHANGED <<log, told, faults>> /\ persist'.hist = LoggedTokens
      /\ log = <<>> => UNCHANGED fam
      /\ log # <<>> => fam' = [fam EXCEPT ![s] = Imported(fam[s])]
  BY DEF PersistOpen
<1>3. FileWasTold' /\ Belong(log)'
  BY <1>2 DEF EngineInv, FileWasTold, TokensOf, Belong
<1>4. FileIsTranscript'
  <2>1. LoggedTokens' = LoggedTokens
    BY <1>2 DEF LoggedTokens
  <2>2. IsInitialOf(LoggedTokens, LoggedTokens)
    BY <1>1, LoggedType, TextsAreSeqs DEF IsInitialOf
  <2>3. QED
    BY <1>2, <2>1, <2>2 DEF FileIsTranscript
<1>5. CASE log = <<>>
  <2>1. OthersFresh' /\ HomeFollowsTold' /\ RowsFollow'
    BY <1>2, <1>5 DEF EngineInv, OthersFresh, HomeFollowsTold, RowsFollow
  <2>2. QED
    BY <1>3, <1>4, <2>1 DEF EngineInv
<1>6. CASE log # <<>>
  <2> DEFINE new == Imported(fam[s])
  <2>1. /\ Comparable(told, new.history) /\ Follows(log, new.rows, new.history)
    BY <1>1, ImportedFollows DEF EngineInv, FileWasTold, HomeFollowsTold, RowsFollow
  <2>2. fam' = [fam EXCEPT ![s] = new]
    BY <1>2, <1>6
  <2> HIDE DEF new
  <2>3. log' \in Seq(Records) /\ Len(log) <= Len(log') /\ \A p \in 1..Len(log) : log'[p] = log[p]
    BY <1>1, <1>2
  <2>4. RowsFollow'
    BY <1>1, <2>1, <2>2, <2>3, RowsOfSlots DEF EngineInv
  <2>5. fam'[Home] = new /\ \A q \in Slots : q # Home => fam'[q] = fam[q]
    BY <1>1, <2>2
  <2>6. OthersFresh' /\ HomeFollowsTold'
    BY <1>2, <2>1, <2>5 DEF EngineInv, OthersFresh, HomeFollowsTold
  <2>7. QED
    BY <1>3, <1>4, <2>4, <2>6 DEF EngineInv
<1>7. QED
  BY <1>5, <1>6

LEMMA EngineStep == EngineInv /\ [Next]_vars /\ OneConversation => EngineInv'
<1> SUFFICES ASSUME EngineInv, [Next]_vars, OneConversation PROVE EngineInv'
  OBVIOUS
<1>1. TypeOK /\ TypeOK' /\ log \in Seq(Records) /\ told \in Seq(Tokens)
  BY TypeStep, TextsAreSeqs DEF EngineInv, TypeOK
<1>2. ASSUME NEW s \in Slots, NEW ids \in Texts, NEW toks \in Texts, NEW reuse \in Reuses,
             Len(ids) + Len(toks) <= MaxLen, NEW way \in Ways, Turn(s, ids, toks, way, reuse)
      PROVE  EngineInv'
  BY <1>1, <1>2, TurnStep
<1>3. ASSUME NEW s \in Slots, NEW ids \in Texts, NEW toks \in Texts, NEW reuse \in Reuses,
             Len(ids) + Len(toks) <= MaxLen, Abandon(s, ids, toks, reuse)
      PROVE  EngineInv'
  BY <1>1, <1>3, AbandonStep
<1>4. ASSUME NEW s \in Slots, PersistOpen(s)
      PROVE  EngineInv'
  BY <1>1, <1>4, OpenStep
<1>5. ASSUME PersistOpenFails PROVE EngineInv'
  <2>1. UNCHANGED <<fam, log, told>> /\ ~persist'.open
    BY <1>5 DEF PersistOpenFails, NotOpen
  <2>2. OthersFresh' /\ HomeFollowsTold' /\ RowsFollow'
    BY <2>1 DEF EngineInv, OthersFresh, HomeFollowsTold, RowsFollow
  <2>3. FileWasTold' /\ Belong(log)' /\ FileIsTranscript'
    BY <2>1 DEF EngineInv, FileWasTold, TokensOf, Belong, FileIsTranscript
  <2>4. QED
    BY <1>1, <2>2, <2>3 DEF EngineInv
<1>6. ASSUME Restart PROVE EngineInv'
  <2>1. UNCHANGED <<log, told>> /\ ~persist'.open /\ \A s \in Slots : fam'[s] = FreshSlot
    BY <1>6 DEF Restart, NotOpen
  <2>2. OthersFresh' /\ RowsFollow'
    BY <1>1, <2>1, FreshFollows DEF OthersFresh, RowsFollow
  <2>3. fam'[Home] = FreshSlot
    BY <2>1, EngineAssumption
  <2>4. HomeFollowsTold'
    <3>1. fam'[Home].history = <<>>
      BY <2>3 DEF FreshSlot
    <3>2. IsInitialOf(<<>>, told)
      BY <1>1 DEF IsInitialOf
    <3>3. QED
      BY <2>1, <3>1, <3>2 DEF HomeFollowsTold, Comparable
  <2>5. FileWasTold' /\ Belong(log)' /\ FileIsTranscript'
    BY <2>1 DEF EngineInv, FileWasTold, TokensOf, Belong, FileIsTranscript
  <2>6. QED
    BY <1>1, <2>2, <2>4, <2>5 DEF EngineInv
<1>7. ASSUME UNCHANGED vars PROVE EngineInv'
  BY <1>1, <1>7 DEF vars, EngineInv, OthersFresh, HomeFollowsTold, RowsFollow, FileWasTold,
                    TokensOf, Belong, FileIsTranscript, LoggedTokens
<1>8. QED
  BY <1>2, <1>3, <1>4, <1>5, <1>6, <1>7 DEF Next

(* The invariant, with a single client. *)
THEOREM Invariant ==
  ASSUME OneConversation
  PROVE  Spec => []EngineInv
BY InitEngine, EngineStep, PTL DEF Spec
-----------------------------------------------------------------------------
(* The file begins the conversation the engine holds, also after appends that *)
(* failed, an abandoned job, a restart and a reopening: with one client.      *)
THEOREM FileKeepsUp ==
  ASSUME OneConversation
  PROVE  Spec => []FileIsTranscript
<1>1. EngineInv => FileIsTranscript
  BY DEF EngineInv
<1>2. QED
  BY <1>1, Invariant, PTL

(* A row stored in the file is the row of its token in its transcript, or is  *)
(* recorded as missing.                                                      *)
THEOREM RowsBelong ==
  ASSUME OneConversation
  PROVE  Spec => []StoredRowsBelong
<1>1. EngineInv => StoredRowsBelong
  <2> SUFFICES ASSUME EngineInv PROVE StoredRowsBelong
    OBVIOUS
  <2>1. LoggedTokens = TokensOf(log) /\ DOMAIN log = 1..Len(log)
    BY LoggedType DEF EngineInv, TypeOK
  <2>2. QED
    BY <2>1 DEF EngineInv, StoredRowsBelong, Belong
<1>2. QED
  BY <1>1, Invariant, PTL

(* A wrong row in a slot goes back to a record of the same conversation that  *)
(* the file keeps without its row.                                           *)
THEOREM FileAloneMisleads ==
  ASSUME OneConversation
  PROVE  Spec => []OnlyTheFileMisleads
<1>1. EngineInv => OnlyTheFileMisleads
  <2> SUFFICES ASSUME EngineInv PROVE OnlyTheFileMisleads
    OBVIOUS
  <2>1. LoggedTokens = TokensOf(log) /\ log \in Seq(Records) /\ fam \in [Slots -> FamSlots]
    BY LoggedType DEF EngineInv, TypeOK
  <2>2. ASSUME NEW s \in Slots, NEW p \in DOMAIN fam[s].rows
        PROVE  \/ fam[s].rows[p] = SubSeq(fam[s].history, 1, p)
               \/ \E q \in DOMAIN log : /\ q <= p /\ log[q].row = <<>>
                                        /\ IsInitialOf(SubSeq(LoggedTokens, 1, q), fam[s].history)
    <3>1. /\ fam[s].history \in Seq(Tokens) /\ fam[s].rows \in Seq(Texts)
      BY <2>1 DEF FamSlots
    <3>2. p \in 1..Len(fam[s].rows) /\ p \in Nat
      BY <3>1
    <3>3. fam[s].rows[p] = SubSeq(fam[s].history, 1, p) \/ Blamed(log, p, fam[s].history)
      BY <3>2 DEF EngineInv, RowsFollow, Follows
    <3>4. QED
      BY <2>1, <3>1, <3>2, <3>3, BlameMeans
  <2>3. QED
    BY <2>2 DEF OnlyTheFileMisleads
<1>2. QED
  BY <1>1, Invariant, PTL
=============================================================================
