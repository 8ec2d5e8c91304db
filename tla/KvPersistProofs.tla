--------------------------- MODULE KvPersistProofs ---------------------------
(***************************************************************************)
(* Theorems about KvPersist for every bound on records and faults: as long *)
(* as no write of nrec was left half done, no append overwrites what a     *)
(* header counts, nrec is what an open would find, and the file is the log *)
(* that CrashSafeLog promises, whenever the power goes.                    *)
(***************************************************************************)
EXTENDS KvPersist, SequenceTheorems, TLAPS

(* Of the handle: which call can be at which step, and that it writes within  *)
(* the file.                                                                  *)
CallShape ==
  /\ handle.pc \in Idle <=> handle.op = "None"
  /\ handle.pc \in {"Writing", "Written"} => handle.op = "Append"
  /\ handle.pc \in {"Header", "HeaderWritten"} => handle.op \in {"Append", "Truncate"}
  /\ handle.op = "Append" => handle.target = handle.nrec + Len(handle.todo)
  /\ handle.op = "Truncate" => handle.target <= handle.nrec
  /\ handle.pc \notin Idle => handle.result = "None"
  /\ handle.pc = "Closed" => handle.result = "None"
NewFile == handle.stale \/ handle.pc \in {"Creating", "Created"}
Fits ==
  /\ handle.stale => handle.pc \in {"Ready", "Creating", "Created"}
  /\ handle.pc \in {"Creating", "Created"} /\ handle.op # "Open" => handle.stale
  /\ NewFile => handle.nrec = 0
  /\ handle.pc # "Closed" => handle.nrec <= Len(file.recs)
  /\ handle.op = "Append" /\ handle.pc \in {"Written", "Header", "HeaderWritten"} =>
       handle.target <= Len(file.recs)
  /\ handle.pc = "Created" \/ (handle.pc \notin {"Closed", "Creating"} /\ ~handle.stale) =>
       file.kind = "Ours"
  /\ \A f \in {file, disk} : f.kind # "Ours" => f.nrec = 0 /\ f.recs = <<>>
Shape == TypeOK /\ CallShape /\ Fits

(* The first n records of two files are whole and the same.                   *)
Common(f, g, n) == /\ n <= Len(f.recs) /\ n <= Len(g.recs)
                   /\ \A p \in 1..n : f.recs[p] = g.recs[p] /\ f.recs[p] \in Records
(* They are on the disk as the kernel shows them.                             *)
Agree(n) == Common(file, disk, n)

(* What makes a power loss harmless: whatever either header counts, or a      *)
(* header about to be written will count, agrees; and only while a truncation *)
(* settles does the disk count more than the kernel.                          *)
Settled ==
  /\ Agree(file.nrec) /\ Agree(disk.nrec)
  /\ disk.nrec <= file.nrec \/ (handle.pc = "HeaderWritten" /\ handle.op = "Truncate")
  /\ NewFile => file.nrec = 0
  /\ ~NewFile /\ handle.pc \in {"Ready", "Writing", "Written", "Header"} => handle.nrec = file.nrec
  /\ handle.op = "Append" /\ handle.pc \in {"Written", "Header", "HeaderWritten"} =>
       \A i \in 1..Len(handle.todo) : file.recs[handle.nrec + i] = handle.todo[i]
  /\ handle.op = "Append" /\ handle.pc = "Header" => Agree(handle.target)
  /\ handle.pc = "HeaderWritten" => file.nrec = handle.target

(* The inductive invariant. *)
IInv == Shape /\ (sound => Settled)
-----------------------------------------------------------------------------
(* Lemmas about the operators. *)

LEMMA SeqsUpToIs ==
  ASSUME NEW S, NEW n \in Nat
  PROVE  \A s : s \in SeqsUpTo(S, n) <=> s \in Seq(S) /\ Len(s) <= n
<1>1. ASSUME NEW s, s \in SeqsUpTo(S, n) PROVE s \in Seq(S) /\ Len(s) <= n
  <2>1. PICK k \in 0..n : s \in [1..k -> S]
    BY <1>1 DEF SeqsUpTo
  <2>2. k \in Nat /\ k <= n
    OBVIOUS
  <2>3. QED
    BY <2>1, <2>2
<1>2. ASSUME NEW s, s \in Seq(S), Len(s) <= n PROVE s \in SeqsUpTo(S, n)
  <2>1. Len(s) \in 0..n /\ s \in [1..Len(s) -> S]
    BY <1>2, LenProperties
  <2>2. QED
    BY <2>1 DEF SeqsUpTo
<1>3. QED
  BY <1>1, <1>2

(* s after w is written behind its first n. *)
Patch(s, n, w) == SubSeq(s, 1, n) \o w \o SubSeq(s, n + Len(w) + 1, Len(s))

LEMMA Patched ==
  ASSUME NEW S, NEW s \in Seq(S), NEW w \in Seq(S), NEW n \in 0..Len(s)
  PROVE  /\ Patch(s, n, w) \in Seq(S)
         /\ Len(s) <= Len(Patch(s, n, w)) /\ n + Len(w) <= Len(Patch(s, n, w))
         /\ Len(Patch(s, n, w)) = Len(s) \/ Len(Patch(s, n, w)) = n + Len(w)
         /\ \A p \in 1..n : Patch(s, n, w)[p] = s[p]
         /\ \A i \in 1..Len(w) : Patch(s, n, w)[n + i] = w[i]
<1> DEFINE a == SubSeq(s, 1, n)
           b == SubSeq(s, n + Len(w) + 1, Len(s))
<1>1. /\ Len(s) \in Nat /\ Len(w) \in Nat /\ n \in Nat /\ n <= Len(s)
      /\ \A i \in 1..Len(s) : s[i] \in S
  BY LenProperties, ElementOfSeq
<1>2. a \in Seq(S) /\ Len(a) = n /\ \A p \in 1..n : a[p] = s[p]
  <2>1. \A i \in 1..n : s[i] \in S
    BY <1>1
  <2>2. /\ a \in Seq(S) /\ Len(a) = (IF 1 <= n THEN n - 1 + 1 ELSE 0)
        /\ \A i \in 1..n - 1 + 1 : a[i] = s[1 + i - 1]
    BY <1>1, <2>1, SubSeqProperties
  <2>3. QED
    BY <1>1, <2>2
<1>3. b \in Seq(S) /\ Len(b) = IF n + Len(w) < Len(s) THEN Len(s) - n - Len(w) ELSE 0
  <2>1. \A i \in n + Len(w) + 1..Len(s) : s[i] \in S
    BY <1>1
  <2>2. /\ b \in Seq(S)
        /\ Len(b) = IF n + Len(w) + 1 <= Len(s) THEN Len(s) - (n + Len(w) + 1) + 1 ELSE 0
    BY <1>1, <2>1, SubSeqProperties
  <2>3. QED
    BY <1>1, <2>2
<1> HIDE DEF a, b
<1>4. /\ a \o w \in Seq(S) /\ Len(a \o w) = n + Len(w)
      /\ \A i \in 1..n + Len(w) : (a \o w)[i] = IF i <= n THEN a[i] ELSE w[i - n]
  BY <1>2, ConcatProperties
<1>5. /\ (a \o w) \o b \in Seq(S) /\ Len((a \o w) \o b) = n + Len(w) + Len(b)
      /\ \A i \in 1..n + Len(w) : ((a \o w) \o b)[i] = (a \o w)[i]
  <2>1. /\ (a \o w) \o b \in Seq(S) /\ Len((a \o w) \o b) = Len(a \o w) + Len(b)
        /\ \A i \in 1..Len(a \o w) + Len(b) : ((a \o w) \o b)[i] =
              IF i <= Len(a \o w) THEN (a \o w)[i] ELSE b[i - Len(a \o w)]
    BY <1>3, <1>4, ConcatProperties
  <2>2. Len(a \o w) = n + Len(w) /\ Len(b) \in Nat /\ n + Len(w) \in Nat
    BY <1>1, <1>3, <1>4
  <2>3. ASSUME NEW i \in 1..n + Len(w)
        PROVE  i \in 1..Len(a \o w) + Len(b) /\ i <= Len(a \o w)
    BY <2>2
  <2>4. QED
    BY <2>1, <2>2, <2>3
<1>6. \A p \in 1..n : p \in 1..n + Len(w) /\ p <= n
  BY <1>1
<1>7. \A i \in 1..Len(w) : n + i \in 1..n + Len(w) /\ ~(n + i <= n) /\ (n + i) - n = i
  BY <1>1
<1>8. ASSUME NEW r, r = (a \o w) \o b
      PROVE  /\ r \in Seq(S) /\ Len(s) <= Len(r) /\ n + Len(w) <= Len(r)
             /\ Len(r) = Len(s) \/ Len(r) = n + Len(w)
             /\ \A p \in 1..n : r[p] = s[p]
             /\ \A i \in 1..Len(w) : r[n + i] = w[i]
  <2>1. r \in Seq(S) /\ Len(r) = n + Len(w) + Len(b)
    BY <1>5, <1>8
  <2>2. \A p \in 1..n : r[p] = s[p]
    BY <1>2, <1>4, <1>5, <1>6, <1>8
  <2>3. \A i \in 1..Len(w) : r[n + i] = w[i]
    BY <1>4, <1>5, <1>7, <1>8
  <2>4. n + Len(w) + Len(b) = IF n + Len(w) < Len(s) THEN Len(s) ELSE n + Len(w)
    <3>1. CASE n + Len(w) < Len(s)
      <4>1. Len(b) = Len(s) - n - Len(w)
        BY <1>3, <3>1
      <4>2. QED
        BY <1>1, <3>1, <4>1
    <3>2. CASE ~(n + Len(w) < Len(s))
      <4>1. Len(b) = 0
        BY <1>3, <3>2
      <4>2. QED
        BY <1>1, <3>2, <4>1
    <3>3. QED
      BY <3>1, <3>2
  <2>5. Len(s) <= Len(r) /\ n + Len(w) <= Len(r) /\ (Len(r) = Len(s) \/ Len(r) = n + Len(w))
    BY <1>1, <2>1, <2>4
  <2>6. QED
    BY <2>1, <2>2, <2>3, <2>5
<1>9. Patch(s, n, w) = (a \o w) \o b
  BY DEF Patch, a, b
<1>10. QED
  BY <1>8, <1>9

(* The first n of a sequence. *)
LEMMA FirstOf ==
  ASSUME NEW S, NEW s, NEW n \in Nat, \A i \in 1..n : s[i] \in S
  PROVE  /\ SubSeq(s, 1, n) \in Seq(S) /\ Len(SubSeq(s, 1, n)) = n
         /\ \A p \in 1..n : SubSeq(s, 1, n)[p] = s[p]
<1>1. /\ SubSeq(s, 1, n) \in Seq(S) /\ Len(SubSeq(s, 1, n)) = (IF 1 <= n THEN n - 1 + 1 ELSE 0)
      /\ \A i \in 1..n - 1 + 1 : SubSeq(s, 1, n)[i] = s[1 + i - 1]
  BY SubSeqProperties
<1>2. QED
  BY <1>1

(* Two sequences with the same first n. *)
LEMMA SameFirst ==
  ASSUME NEW s, NEW t, NEW n \in Nat, \A i \in 1..n : s[i] = t[i]
  PROVE  SubSeq(s, 1, n) = SubSeq(t, 1, n)
<1> DEFINE S == {t[i] : i \in 1..n}
<1>1. \A i \in 1..n : s[i] \in S /\ t[i] \in S
  OBVIOUS
<1> HIDE DEF S
<1>2. /\ SubSeq(s, 1, n) \in Seq(S) /\ Len(SubSeq(s, 1, n)) = n
      /\ \A p \in 1..n : SubSeq(s, 1, n)[p] = s[p]
  BY <1>1, FirstOf
<1>3. /\ SubSeq(t, 1, n) \in Seq(S) /\ Len(SubSeq(t, 1, n)) = n
      /\ \A p \in 1..n : SubSeq(t, 1, n)[p] = t[p]
  BY <1>1, FirstOf
<1>4. \A i \in 1..Len(SubSeq(s, 1, n)) : SubSeq(s, 1, n)[i] = SubSeq(t, 1, n)[i]
  BY <1>2, <1>3
<1>5. QED
  BY <1>2, <1>3, <1>4, SeqEqual

LEMMA Numbers == /\ MaxRecs \in Nat /\ MaxFaults \in Nat /\ Torn \notin Records
                 /\ 0 \in 0..MaxRecs
BY PersistAssumption

LEMMA FileIs ==
  ASSUME NEW f \in File
  PROVE  /\ f.kind \in {"Missing", "Foreign", "Ours"} /\ f.nrec \in Nat /\ f.nrec <= MaxRecs
         /\ f.recs \in Seq(Bytes) /\ Len(f.recs) \in Nat /\ Len(f.recs) <= MaxRecs
         /\ \A p \in 1..Len(f.recs) : f.recs[p] \in Bytes
<1>1. f.kind \in {"Missing", "Foreign", "Ours"} /\ f.nrec \in 0..MaxRecs
      /\ f.recs \in SeqsUpTo(Bytes, MaxRecs)
  BY DEF File
<1>2. f.recs \in Seq(Bytes) /\ Len(f.recs) <= MaxRecs
  BY <1>1, Numbers, SeqsUpToIs
<1>3. QED
  BY <1>1, <1>2, Numbers, LenProperties, ElementOfSeq

LEMMA RecsPut ==
  ASSUME NEW f \in File, NEW r \in Seq(Bytes), Len(r) <= MaxRecs
  PROVE  \A g : g = [f EXCEPT !.recs = r] =>
           g \in File /\ g.kind = f.kind /\ g.nrec = f.nrec /\ g.recs = r
<1>1. r \in SeqsUpTo(Bytes, MaxRecs)
  BY Numbers, SeqsUpToIs
<1>2. QED
  BY <1>1 DEF File

LEMMA NrecPut ==
  ASSUME NEW f \in File, NEW n \in 0..MaxRecs
  PROVE  \A g : g = [f EXCEPT !.nrec = n] =>
           g \in File /\ g.kind = f.kind /\ g.nrec = n /\ g.recs = f.recs
BY DEF File

LEMMA NoRecsIs ==
  ASSUME NEW kind \in {"Missing", "Foreign", "Ours"}
  PROVE  \A g : g = NoRecs(kind) =>
           g \in File /\ g.kind = kind /\ g.nrec = 0 /\ g.recs = <<>> /\ Len(g.recs) = 0
<1>1. <<>> \in SeqsUpTo(Bytes, MaxRecs)
  <2>1. <<>> \in Seq(Bytes) /\ Len(<<>>) = 0 /\ 0 <= MaxRecs /\ MaxRecs \in Nat
    BY Numbers
  <2>2. QED
    BY <2>1, SeqsUpToIs
<1>2. QED
  BY <1>1, Numbers DEF NoRecs, File

(* physical_nrec finds no more than there is, and all that nrec counts if     *)
(* the records are there.                                                     *)
LEMMA FoundLen ==
  ASSUME NEW f \in File
  PROVE  /\ Len(Found(f)) \in Nat /\ Len(Found(f)) <= Len(f.recs) /\ Len(Found(f)) <= MaxRecs
<1>1. PICK n \in Nat : n = Least(f.nrec, Len(f.recs))
  BY FileIs DEF Least
<1>2. n <= Len(f.recs) /\ Len(f.recs) \in Nat /\ Len(f.recs) <= MaxRecs
  BY <1>1, FileIs DEF Least
<1>3. Len(SubSeq(f.recs, 1, n)) = n
  <2>1. \A i \in 1..n : f.recs[i] \in Bytes
    BY <1>2, FileIs
  <2>2. QED
    BY <2>1, FirstOf
<1>4. Found(f) = IF f.kind = "Ours" THEN SubSeq(f.recs, 1, n) ELSE <<>>
  BY <1>1 DEF Found
<1>5. QED
  BY <1>2, <1>3, <1>4, Numbers

LEMMA FoundIs ==
  ASSUME NEW f \in File, f.nrec <= Len(f.recs), f.kind # "Ours" => f.nrec = 0
  PROVE  Found(f) = SubSeq(f.recs, 1, f.nrec) /\ Len(Found(f)) = f.nrec
<1>1. Least(f.nrec, Len(f.recs)) = f.nrec
  BY FileIs DEF Least
<1>2. \A i \in 1..f.nrec : f.recs[i] \in Bytes
  BY FileIs
<1>3. Len(SubSeq(f.recs, 1, f.nrec)) = f.nrec
  BY <1>2, FileIs, FirstOf
<1>4. CASE f.kind = "Ours"
  BY <1>1, <1>3, <1>4 DEF Found
<1>5. CASE f.kind # "Ours"
  <2>1. SubSeq(f.recs, 1, 0) = <<>>
    BY SubSeqEmpty
  <2>2. QED
    BY <1>3, <1>5, <2>1 DEF Found
<1>6. QED
  BY <1>4, <1>5

(* Records w written into a file at n. *)
WrittenTo(f, n, w) == [f EXCEPT !.recs = Patch(f.recs, n, w)]

LEMMA WrittenAt ==
  ASSUME NEW f \in File, NEW n \in 0..Len(f.recs), NEW w \in Seq(Bytes), n + Len(w) <= MaxRecs
  PROVE  /\ WrittenTo(f, n, w) \in File /\ WrittenTo(f, n, w).kind = f.kind
         /\ WrittenTo(f, n, w).nrec = f.nrec
         /\ Len(f.recs) <= Len(WrittenTo(f, n, w).recs)
         /\ n + Len(w) <= Len(WrittenTo(f, n, w).recs)
         /\ \A p \in 1..n : WrittenTo(f, n, w).recs[p] = f.recs[p]
         /\ \A i \in 1..Len(w) : WrittenTo(f, n, w).recs[n + i] = w[i]
<1>0. f.recs \in Seq(Bytes) /\ Len(f.recs) <= MaxRecs
  BY FileIs
<1>1. PICK r : r = Patch(f.recs, n, w)
  OBVIOUS
<1>2. /\ r \in Seq(Bytes)
      /\ Len(f.recs) <= Len(r) /\ n + Len(w) <= Len(r)
      /\ Len(r) = Len(f.recs) \/ Len(r) = n + Len(w)
      /\ \A p \in 1..n : r[p] = f.recs[p]
      /\ \A i \in 1..Len(w) : r[n + i] = w[i]
  BY <1>0, <1>1, Patched
<1>3. Len(r) <= MaxRecs
  BY <1>0, <1>2
<1>4. PICK g : g = WrittenTo(f, n, w)
  OBVIOUS
<1>5. g \in File /\ g.kind = f.kind /\ g.nrec = f.nrec /\ g.recs = r
  <2>1. g = [f EXCEPT !.recs = r]
    BY <1>1, <1>4 DEF WrittenTo
  <2>2. QED
    BY <1>2, <1>3, <2>1, RecsPut
<1>6. /\ Len(f.recs) <= Len(g.recs) /\ n + Len(w) <= Len(g.recs)
      /\ \A p \in 1..n : g.recs[p] = f.recs[p]
      /\ \A i \in 1..Len(w) : g.recs[n + i] = w[i]
  BY <1>2, <1>5
<1>7. QED
  BY <1>4, <1>5, <1>6

-----------------------------------------------------------------------------
(* What Shape says of the state. *)

LEMMA Typed ==
  ASSUME Shape
  PROVE  /\ file \in File /\ disk \in File /\ faults \in 0..MaxFaults /\ sound \in BOOLEAN
         /\ handle \in Handle /\ handle.pc \in Steps
         /\ handle.nrec \in 0..MaxRecs /\ handle.target \in 0..MaxRecs
         /\ handle.todo \in Seq(Records) /\ handle.todo \in Seq(Bytes)
         /\ Len(handle.todo) \in Nat /\ Len(handle.todo) <= MaxRecs
         /\ \A i \in 1..Len(handle.todo) : handle.todo[i] \in Records
<1>1. TypeOK
  BY DEF Shape
<1>2. handle.todo \in SeqsUpTo(Records, MaxRecs)
  BY <1>1 DEF TypeOK, Handle
<1>3. handle.todo \in Seq(Records) /\ Len(handle.todo) <= MaxRecs
  BY <1>2, Numbers, SeqsUpToIs
<1>4. handle.todo \in Seq(Bytes)
  BY <1>3 DEF Bytes
<1>5. Len(handle.todo) \in Nat /\ \A i \in 1..Len(handle.todo) : handle.todo[i] \in Records
  BY <1>3, LenProperties, ElementOfSeq
<1>6. QED
  BY <1>1, <1>3, <1>4, <1>5 DEF TypeOK, Handle

LEMMA ToWrite ==
  ASSUME Shape, handle.pc = "Writing"
  PROVE  /\ handle.nrec \in 0..Len(file.recs) /\ file.kind = "Ours"
         /\ handle.nrec + Len(handle.todo) <= MaxRecs
         /\ handle.target = handle.nrec + Len(handle.todo)
<1>1. handle.op = "Append" /\ handle.nrec \in Nat /\ handle.target <= MaxRecs
  BY Typed, Numbers DEF Shape, CallShape
<1>2. ~handle.stale /\ handle.nrec <= Len(file.recs)
  BY DEF Shape, Fits
<1>3. Len(file.recs) \in Nat
  BY Typed, FileIs
<1>4. QED
  BY <1>1, <1>2, <1>3 DEF Shape, CallShape, Fits

LEMMA OverwrittenIs ==
  ASSUME Shape, handle.pc = "Writing", NEW k \in 0..Len(handle.todo)
  PROVE  \A g : g = Overwritten(k) =>
           /\ g \in File /\ g.kind = file.kind /\ g.nrec = file.nrec
           /\ Len(file.recs) <= Len(g.recs) /\ handle.nrec + k <= Len(g.recs)
           /\ \A p \in 1..handle.nrec : g.recs[p] = file.recs[p]
           /\ \A i \in 1..k : g.recs[handle.nrec + i] = handle.todo[i]
<1>0. /\ file \in File /\ handle.nrec \in 0..Len(file.recs)
      /\ handle.nrec + k <= MaxRecs /\ handle.nrec \in Nat /\ k \in Nat
  BY Typed, ToWrite, Numbers
<1>1. PICK w : w = SubSeq(handle.todo, 1, k)
  OBVIOUS
<1>2. w \in Seq(Bytes) /\ Len(w) = k /\ \A i \in 1..k : w[i] = handle.todo[i]
  <2>1. \A i \in 1..k : handle.todo[i] \in Bytes
    BY Typed DEF Bytes
  <2>2. QED
    BY <1>0, <1>1, <2>1, FirstOf
<1>3. Overwritten(k) = WrittenTo(file, handle.nrec, w)
  BY <1>1, <1>2 DEF Overwritten, Patch, WrittenTo
<1>4. PICK f \in File, n \in Nat : f = file /\ n = handle.nrec /\ n \in 0..Len(f.recs)
  BY <1>0
<1>5. PICK g : g = WrittenTo(f, n, w)
  OBVIOUS
<1>6. /\ g \in File /\ g.kind = f.kind /\ g.nrec = f.nrec
      /\ Len(f.recs) <= Len(g.recs) /\ n + Len(w) <= Len(g.recs)
      /\ \A p \in 1..n : g.recs[p] = f.recs[p]
      /\ \A i \in 1..Len(w) : g.recs[n + i] = w[i]
  <2>1. n + Len(w) <= MaxRecs
    BY <1>0, <1>2, <1>4
  <2>2. QED
    BY <1>2, <1>4, <1>5, <2>1, WrittenAt
<1>7. g = Overwritten(k)
  BY <1>3, <1>4, <1>5
<1>8. /\ g.kind = file.kind /\ g.nrec = file.nrec
      /\ Len(file.recs) <= Len(g.recs) /\ handle.nrec + k <= Len(g.recs)
      /\ \A p \in 1..handle.nrec : g.recs[p] = file.recs[p]
      /\ \A i \in 1..k : g.recs[handle.nrec + i] = handle.todo[i]
  BY <1>2, <1>4, <1>6
<1>9. QED
  BY <1>6, <1>7, <1>8

LEMMA HalfWrittenIs ==
  ASSUME Shape, handle.pc = "Writing", NEW k \in 0..Len(handle.todo) - 1
  PROVE  \A g : g = HalfWritten(k) =>
           /\ g \in File /\ g.kind = file.kind /\ g.nrec = file.nrec
           /\ Len(file.recs) <= Len(g.recs)
           /\ \A p \in 1..handle.nrec : g.recs[p] = file.recs[p]
<1>0. handle.nrec \in Nat /\ k \in Nat /\ k \in 0..Len(handle.todo) /\ handle.nrec + k + 1 <= MaxRecs
  BY Typed, ToWrite, Numbers
<1>1. PICK f \in File : f = Overwritten(k)
  BY <1>0, OverwrittenIs
<1>2. /\ f.kind = file.kind /\ f.nrec = file.nrec
      /\ Len(file.recs) <= Len(f.recs) /\ handle.nrec + k <= Len(f.recs)
      /\ \A p \in 1..handle.nrec : f.recs[p] = file.recs[p]
  BY <1>0, <1>1, OverwrittenIs
<1>3. PICK n \in 0..Len(f.recs) : n = handle.nrec + k
  BY <1>0, <1>2, FileIs
<1>4. PICK w \in Seq(Bytes) : w = <<Torn>> /\ Len(w) = 1
  <2>1. <<Torn>> \in Seq(Bytes) /\ Len(<<Torn>>) = 1
    BY DEF Bytes
  <2>2. QED
    BY <2>1
<1>5. (handle.nrec + k + 1) - 1 = n /\ (handle.nrec + k + 1) + 1 = n + Len(w) + 1
  BY <1>0, <1>3, <1>4
<1>6. HalfWritten(k) = WrittenTo(f, n, w)
  BY <1>1, <1>4, <1>5 DEF HalfWritten, Patch, WrittenTo
<1>7. n + Len(w) <= MaxRecs
  BY <1>0, <1>3, <1>4
<1>8. PICK g : g = WrittenTo(f, n, w)
  OBVIOUS
<1>9. /\ g \in File /\ g.kind = f.kind /\ g.nrec = f.nrec
      /\ Len(f.recs) <= Len(g.recs)
      /\ \A p \in 1..n : g.recs[p] = f.recs[p]
  <2>1. f \in File /\ n \in 0..Len(f.recs) /\ w \in Seq(Bytes)
    BY <1>1, <1>3, <1>4
  <2>2. QED
    BY <1>7, <1>8, <2>1, WrittenAt
<1>10. \A p \in 1..handle.nrec : p \in 1..n
  BY <1>0, <1>3
<1>11. Len(file.recs) \in Nat /\ Len(f.recs) \in Nat /\ Len(g.recs) \in Nat
  BY <1>9, Typed, FileIs
<1>12. Len(file.recs) <= Len(g.recs)
  BY <1>2, <1>9, <1>11
<1>13. \A p \in 1..handle.nrec : g.recs[p] = file.recs[p]
  BY <1>2, <1>9, <1>10
<1>14. g = HalfWritten(k)
  BY <1>6, <1>8
<1>15. QED
  BY <1>2, <1>9, <1>12, <1>13, <1>14

(* What a step that is cut off can leave. *)
LEMMA CutOffCases ==
  ASSUME NEW f \in CutOff
  PROVE  \/ f = file
         \/ handle.pc = "Creating" /\ f = NoRecs("Foreign")
         \/ handle.pc = "Writing" /\ \E k \in 0..Len(handle.todo) : f = Overwritten(k)
         \/ handle.pc = "Writing" /\ \E k \in 0..Len(handle.todo) - 1 : f = HalfWritten(k)
         \/ handle.pc = "Header" /\ f = [file EXCEPT !.nrec = handle.target]
<1>1. CASE handle.pc = "Creating"
  BY <1>1 DEF CutOff
<1>2. CASE handle.pc = "Writing"
  BY <1>2 DEF CutOff
<1>3. CASE handle.pc = "Header"
  BY <1>3 DEF CutOff
<1>4. CASE handle.pc \notin {"Creating", "Writing", "Header"}
  BY <1>4 DEF CutOff
<1>5. QED
  BY <1>1, <1>2, <1>3, <1>4

LEMMA CutOffIs ==
  ASSUME Shape, NEW f \in CutOff
  PROVE  /\ f \in File /\ (f.kind # "Ours" => f.nrec = 0 /\ f.recs = <<>>)
         /\ handle.pc # "Creating" => f.kind = file.kind /\ Len(file.recs) <= Len(f.recs)
         /\ handle.pc # "Writing" => f.recs = file.recs \/ (handle.pc = "Creating" /\ f = NoRecs("Foreign"))
         /\ handle.pc = "Writing" => \A p \in 1..handle.nrec : f.recs[p] = file.recs[p]
         /\ \/ f.nrec = file.nrec
            \/ handle.pc = "Header" /\ f.nrec = handle.target
            \/ handle.pc = "Creating" /\ f.nrec = 0
<1>0. /\ file \in File /\ (file.kind # "Ours" => file.nrec = 0 /\ file.recs = <<>>)
      /\ Len(file.recs) \in Nat
  BY Typed, FileIs DEF Shape, Fits
<1>1. CASE f = file
  BY <1>0, <1>1
<1>2. CASE handle.pc = "Creating" /\ f = NoRecs("Foreign")
  BY <1>2, NoRecsIs
<1>3. CASE handle.pc = "Writing" /\ \E k \in 0..Len(handle.todo) : f = Overwritten(k)
  <2>1. PICK k \in 0..Len(handle.todo) : f = Overwritten(k)
    BY <1>3
  <2>2. /\ f \in File /\ f.kind = file.kind /\ f.nrec = file.nrec
        /\ Len(file.recs) <= Len(f.recs)
        /\ \A p \in 1..handle.nrec : f.recs[p] = file.recs[p]
    BY <1>3, <2>1, OverwrittenIs
  <2>3. QED
    BY <1>3, <2>2, ToWrite
<1>4. CASE handle.pc = "Writing" /\ \E k \in 0..Len(handle.todo) - 1 : f = HalfWritten(k)
  <2>1. PICK k \in 0..Len(handle.todo) - 1 : f = HalfWritten(k)
    BY <1>4
  <2>2. /\ f \in File /\ f.kind = file.kind /\ f.nrec = file.nrec
        /\ Len(file.recs) <= Len(f.recs)
        /\ \A p \in 1..handle.nrec : f.recs[p] = file.recs[p]
    BY <1>4, <2>1, HalfWrittenIs
  <2>3. QED
    BY <1>4, <2>2, ToWrite
<1>5. CASE handle.pc = "Header" /\ f = [file EXCEPT !.nrec = handle.target]
  <2>1. f \in File /\ f.kind = file.kind /\ f.nrec = handle.target /\ f.recs = file.recs
    BY <1>0, <1>5, Typed, NrecPut
  <2>2. file.kind = "Ours"
    BY <1>5 DEF Shape, Fits
  <2>3. QED
    BY <1>0, <1>5, <2>1, <2>2
<1>6. QED
  BY <1>1, <1>2, <1>3, <1>4, <1>5, CutOffCases

-----------------------------------------------------------------------------
(* The shape of handle and file. *)

LEMMA NoTodo == <<>> \in SeqsUpTo(Records, MaxRecs)
<1>1. <<>> \in Seq(Records) /\ Len(<<>>) = 0 /\ 0 <= MaxRecs /\ MaxRecs \in Nat
  BY Numbers
<1>2. QED
  BY <1>1, SeqsUpToIs

(* A handle between two calls, or closed. *)
LEMMA ClosedIs == Closed \in Handle /\ Closed.pc = "Closed" /\ Closed.op = "None"
                  /\ ~Closed.stale /\ Closed.nrec = 0 /\ Closed.result = "None"
BY Numbers, NoTodo DEF Closed, Handle, Steps, Idle

LEMMA OpenedStale ==
  ASSUME handle' = Opened(TRUE, 0)
  PROVE  /\ handle' \in Handle /\ handle'.pc = "Ready" /\ handle'.op = "None"
         /\ handle'.stale /\ handle'.nrec = 0 /\ handle'.result = "None"
BY Numbers, NoTodo DEF Opened, Closed, Handle, Steps, Idle

LEMMA OpenedFresh ==
  ASSUME NEW n \in 0..MaxRecs, handle' = Opened(FALSE, n)
  PROVE  /\ handle' \in Handle /\ handle'.pc = "Ready" /\ handle'.op = "None"
         /\ ~handle'.stale /\ handle'.nrec = n /\ handle'.result = "None"
BY Numbers, NoTodo DEF Opened, Closed, Handle, Steps, Idle

LEMMA ReturnedIs ==
  ASSUME Shape, NEW result \in {"Ok", "Error"}
  PROVE  \A h : h = Returned(result) =>
           /\ h \in Handle /\ h.pc = "Ready" /\ h.op = "None" /\ (h.stale <=> handle.stale)
           /\ h.nrec = handle.nrec /\ h.result = result
BY Numbers, NoTodo, Typed DEF Returned, Handle, Steps, Idle

(* A handle that enters a call. *)
LEMMA AppendBegunIs ==
  ASSUME Shape, NEW pc \in Steps, NEW todo \in SeqsUpTo(Records, MaxRecs), NEW n \in 0..MaxRecs,
         handle' = [handle EXCEPT !.pc = pc, !.op = "Append", !.todo = todo,
                                  !.target = n, !.result = "None"]
  PROVE  /\ handle' \in Handle /\ handle'.pc = pc /\ handle'.op = "Append" /\ handle'.todo = todo
         /\ handle'.target = n /\ handle'.result = "None" /\ handle'.nrec = handle.nrec
         /\ handle'.stale <=> handle.stale
<1>1. handle' \in Handle
  BY Typed DEF Handle
<1>2. /\ handle'.pc = pc /\ handle'.op = "Append" /\ handle'.todo = todo
      /\ handle'.target = n /\ handle'.result = "None" /\ handle'.nrec = handle.nrec
  BY Typed DEF Handle
<1>3. handle'.stale => handle.stale
  BY Typed DEF Handle
<1>4. handle.stale => handle'.stale
  BY Typed DEF Handle
<1>5. QED
  BY <1>1, <1>2, <1>3, <1>4

LEMMA TruncateBegunIs ==
  ASSUME Shape, NEW pc \in Steps, NEW n \in 0..MaxRecs,
         handle' = [handle EXCEPT !.pc = pc, !.op = "Truncate", !.target = n, !.result = "None"]
  PROVE  /\ handle' \in Handle /\ handle'.pc = pc /\ handle'.op = "Truncate"
         /\ handle'.target = n /\ handle'.result = "None" /\ handle'.nrec = handle.nrec
         /\ handle'.stale <=> handle.stale
<1>1. handle' \in Handle
  BY Typed DEF Handle
<1>2. /\ handle'.pc = pc /\ handle'.op = "Truncate"
      /\ handle'.target = n /\ handle'.result = "None" /\ handle'.nrec = handle.nrec
  BY Typed DEF Handle
<1>3. handle'.stale => handle.stale
  BY Typed DEF Handle
<1>4. handle.stale => handle'.stale
  BY Typed DEF Handle
<1>5. QED
  BY <1>1, <1>2, <1>3, <1>4

(* A handle in no call has the shape; all else is about the files. *)
LEMMA ShapeAtRest ==
  ASSUME NEW h \in Handle, NEW f \in File,
         \/ h = Closed
         \/ /\ h.pc = "Ready" /\ h.op = "None" /\ h.nrec <= Len(f.recs)
            /\ h.stale => h.nrec = 0
            /\ ~h.stale => f.kind = "Ours",
         handle' = h, file' = f,
         disk' \in File, faults' \in 0..MaxFaults, sound' \in BOOLEAN,
         \A g \in {file', disk'} : g.kind # "Ours" => g.nrec = 0 /\ g.recs = <<>>
  PROVE  Shape'
<1>1. TypeOK'
  BY DEF TypeOK
<1>2. CallShape'
  BY ClosedIs DEF CallShape, Idle
<1>3. Fits'
  BY ClosedIs DEF Fits, NewFile
<1>4. QED
  BY <1>1, <1>2, <1>3 DEF Shape

LEMMA ShapeInit == Init => Shape
<1> SUFFICES ASSUME Init PROVE Shape
  OBVIOUS
<1>1. /\ file \in File /\ disk \in File /\ handle = Closed
      /\ \A f \in {file, disk} : f.kind # "Ours" => f.nrec = 0 /\ f.recs = <<>>
  BY NoRecsIs DEF Init
<1>2. TypeOK
  BY <1>1, ClosedIs, Numbers DEF Init, TypeOK
<1>3. CallShape /\ Fits
  BY <1>1, ClosedIs DEF CallShape, Fits, NewFile, Idle
<1>4. QED
  BY <1>2, <1>3 DEF Shape

LEMMA ShapeOfFiles ==
  ASSUME Shape
  PROVE  /\ \A g \in {file, disk} : g.kind # "Ours" => g.nrec = 0 /\ g.recs = <<>>
         /\ Len(file.recs) \in Nat
         /\ handle.pc # "Closed" => handle.nrec <= Len(file.recs)
BY Typed, FileIs DEF Shape, Fits

LEMMA ShapeOpens ==
  ASSUME Shape, Open
  PROVE  Shape'
<1> USE Typed, ShapeOfFiles, Numbers
<1>1. UNCHANGED <<file, disk, faults, sound>> /\ file.kind \in {"Missing", "Foreign", "Ours"}
  BY FileIs DEF Open
<1>2. CASE file.kind = "Missing"
  <2>1. handle' = [Closed EXCEPT !.pc = "Creating", !.op = "Open"]
    BY <1>2 DEF Open
  <2>2. /\ handle' \in Handle /\ handle'.pc = "Creating" /\ handle'.op = "Open" /\ handle'.nrec = 0
        /\ ~handle'.stale /\ handle'.result = "None"
    BY <2>1, ClosedIs DEF Handle, Steps, Idle
  <2>3. TypeOK' /\ CallShape' /\ Fits'
    BY <1>1, <2>2 DEF TypeOK, CallShape, Fits, NewFile, Idle
  <2>4. QED
    BY <2>3 DEF Shape
<1>3. CASE file.kind = "Foreign"
  <2>1. handle' = Opened(TRUE, 0)
    BY <1>3 DEF Open
  <2>2. /\ handle' \in Handle /\ handle'.pc = "Ready" /\ handle'.op = "None"
        /\ handle'.stale /\ handle'.nrec = 0
    BY <2>1, OpenedStale
  <2>3. QED
    BY <1>1, <2>2, ShapeAtRest
<1>4. CASE file.kind = "Ours"
  <2>1. PICK n \in 0..MaxRecs : n = Len(Found(file)) /\ n <= Len(file.recs)
    BY FoundLen
  <2>2. handle' = Opened(FALSE, n)
    BY <1>4, <2>1 DEF Open
  <2>3. /\ handle' \in Handle /\ handle'.pc = "Ready" /\ handle'.op = "None"
        /\ ~handle'.stale /\ handle'.nrec = n
    BY <2>1, <2>2, OpenedFresh
  <2>4. QED
    BY <1>1, <1>4, <2>1, <2>3, ShapeAtRest
<1>5. QED
  BY <1>1, <1>2, <1>3, <1>4

LEMMA Loaded ==
  ASSUME Shape, NEW n \in 0..MaxRecs
  PROVE  \A h : h = [handle EXCEPT !.nrec = n] =>
           /\ h \in Handle /\ h.pc = handle.pc /\ h.op = handle.op /\ (h.stale <=> handle.stale)
           /\ h.nrec = n /\ h.todo = handle.todo /\ h.target = handle.target
           /\ h.result = handle.result
BY Typed DEF Handle

LEMMA ShapeLoads ==
  ASSUME Shape, Load \/ LoadCutShort
  PROVE  Shape'
<1>1. handle.pc = "Ready" /\ ~handle.stale /\ file' = file /\ disk' = disk
  BY DEF Load, LoadCutShort
<1>2. faults' \in 0..MaxFaults /\ sound' \in BOOLEAN
  <2>1. faults \in 0..MaxFaults /\ sound \in BOOLEAN /\ MaxFaults \in Nat
    BY Typed, Numbers
  <2>2. \/ faults' = faults /\ (sound' <=> sound)
        \/ faults < MaxFaults /\ faults' = faults + 1 /\ ~sound'
    BY DEF Load, LoadCutShort
  <2>3. faults' \in 0..MaxFaults
    BY <2>1, <2>2
  <2>4. sound' \in BOOLEAN
    BY <2>1 DEF Load, LoadCutShort
  <2>5. QED
    BY <2>3, <2>4
<1>3. PICK m \in 0..MaxRecs : m = Len(Found(file)) /\ m <= Len(file.recs)
  BY Typed, FoundLen, Numbers
<1>4. \E n \in 0..m : handle' = [handle EXCEPT !.nrec = n]
  <2>1. m \in 0..m
    BY <1>3, Numbers
  <2>2. QED
    BY <1>3, <2>1 DEF Load, LoadCutShort
<1>5. PICK n \in 0..m : handle' = [handle EXCEPT !.nrec = n]
  BY <1>4
<1>6. n \in 0..MaxRecs /\ n <= Len(file.recs)
  BY <1>3, <1>5, Numbers, ShapeOfFiles
<1>7. handle' \in Handle /\ handle'.pc = "Ready" /\ handle'.op = handle.op
      /\ ~handle'.stale /\ handle'.nrec = n
  BY <1>1, <1>5, <1>6, Loaded
<1>8. handle.op = "None" /\ file.kind = "Ours"
  BY <1>1 DEF Shape, CallShape, Fits, Idle
<1>9. QED
  BY <1>1, <1>2, <1>6, <1>7, <1>8, Typed, ShapeOfFiles, ShapeAtRest

(* What the two calls make of the handle. *)
LEMMA AppendDoes ==
  ASSUME Shape, NEW hist \in SeqsUpTo(Records, MaxRecs), AppendTail(hist)
  PROVE  /\ handle.pc = "Ready" /\ file' = file /\ disk' = disk
         /\ faults' = faults /\ sound' = sound
         /\ hist \in Seq(Records) /\ Len(hist) \in 0..MaxRecs /\ handle.nrec < Len(hist)
         /\ handle'.todo = SubSeq(hist, handle.nrec + 1, Len(hist))
         /\ Len(handle'.todo) = Len(hist) - handle.nrec
         /\ handle' \in Handle /\ handle'.pc = (IF handle.stale THEN "Creating" ELSE "Writing")
         /\ handle'.op = "Append" /\ handle'.target = Len(hist)
         /\ handle'.result = "None" /\ handle'.nrec = handle.nrec
         /\ handle'.stale <=> handle.stale
<1>1. hist \in Seq(Records) /\ Len(hist) \in Nat /\ Len(hist) <= MaxRecs
      /\ \A i \in 1..Len(hist) : hist[i] \in Records
  BY Numbers, SeqsUpToIs, LenProperties, ElementOfSeq
<1>2. handle.nrec < Len(hist) /\ handle.nrec \in Nat
  <2>1. Len(hist) > handle.nrec
    BY DEF AppendTail
  <2>2. QED
    BY <1>1, <2>1, Typed, Numbers
<1>3. PICK tail : tail = TailOf(hist)
  OBVIOUS
<1>4. tail \in Seq(Records) /\ Len(tail) = Len(hist) - handle.nrec
  <2>1. /\ SubSeq(hist, handle.nrec + 1, Len(hist)) \in Seq(Records)
        /\ Len(SubSeq(hist, handle.nrec + 1, Len(hist))) =
             IF handle.nrec + 1 <= Len(hist) THEN Len(hist) - (handle.nrec + 1) + 1 ELSE 0
    <3>1. \A i \in handle.nrec + 1..Len(hist) : hist[i] \in Records
      BY <1>1, <1>2
    <3>2. handle.nrec + 1 \in Int /\ Len(hist) \in Int
      BY <1>1, <1>2
    <3>3. QED
      BY <3>1, <3>2, SubSeqProperties
  <2>2. QED
    BY <1>1, <1>2, <1>3, <2>1 DEF TailOf
<1>5. tail \in SeqsUpTo(Records, MaxRecs)
  BY <1>1, <1>2, <1>4, Numbers, SeqsUpToIs
<1>6. handle' = [handle EXCEPT !.pc = IF handle.stale THEN "Creating" ELSE "Writing",
                              !.op = "Append", !.todo = tail,
                              !.target = Len(hist), !.result = "None"]
  BY <1>3 DEF AppendTail
<1>7. handle.pc = "Ready" /\ file' = file /\ disk' = disk /\ faults' = faults /\ sound' = sound
  BY DEF AppendTail
<1>8. /\ handle' \in Handle /\ handle'.pc = (IF handle.stale THEN "Creating" ELSE "Writing")
      /\ handle'.op = "Append" /\ handle'.todo = tail /\ handle'.target = Len(hist)
      /\ handle'.result = "None" /\ handle'.nrec = handle.nrec
      /\ (handle'.stale <=> handle.stale)
  <2>1. PICK pc \in Steps : pc = IF handle.stale THEN "Creating" ELSE "Writing"
    BY DEF Steps
  <2>2. PICK n \in 0..MaxRecs : n = Len(hist)
    BY <1>1, Numbers
  <2>3. handle' = [handle EXCEPT !.pc = pc, !.op = "Append", !.todo = tail,
                                 !.target = n, !.result = "None"]
    BY <1>6, <2>1, <2>2
  <2>4. /\ handle' \in Handle /\ handle'.pc = pc /\ handle'.op = "Append" /\ handle'.todo = tail
        /\ handle'.target = n /\ handle'.result = "None" /\ handle'.nrec = handle.nrec
        /\ handle'.stale <=> handle.stale
    BY <1>5, <2>1, <2>2, <2>3, AppendBegunIs, ZenonT(60)
  <2>5. QED
    BY <2>1, <2>2, <2>4, Zenon
<1>9. tail = SubSeq(hist, handle.nrec + 1, Len(hist))
  BY <1>3 DEF TailOf
<1>10. Len(hist) \in 0..MaxRecs
  BY <1>1, Numbers
<1>11. QED
  BY <1>1, <1>2, <1>4, <1>7, <1>8, <1>9, <1>10, Zenon

LEMMA TruncateDoes ==
  ASSUME Shape, NEW n \in 0..MaxRecs, Truncate(n)
  PROVE  /\ handle.pc = "Ready" /\ file' = file /\ disk' = disk
         /\ faults' = faults /\ sound' = sound /\ n <= handle.nrec
         /\ handle' \in Handle /\ handle'.pc = (IF handle.stale THEN "Creating" ELSE "Header")
         /\ handle'.op = "Truncate" /\ handle'.target = n
         /\ handle'.result = "None" /\ handle'.nrec = handle.nrec
         /\ handle'.stale <=> handle.stale
<1>1. handle' = [handle EXCEPT !.pc = IF handle.stale THEN "Creating" ELSE "Header",
                              !.op = "Truncate", !.target = n, !.result = "None"]
  BY DEF Truncate
<1>2. /\ handle.pc = "Ready" /\ file' = file /\ disk' = disk
      /\ faults' = faults /\ sound' = sound /\ n <= handle.nrec
  BY DEF Truncate
<1>3. PICK pc \in Steps : pc = IF handle.stale THEN "Creating" ELSE "Header"
  BY DEF Steps
<1>4. handle' = [handle EXCEPT !.pc = pc, !.op = "Truncate", !.target = n, !.result = "None"]
  BY <1>1, <1>3
<1>5. /\ handle' \in Handle /\ handle'.pc = pc /\ handle'.op = "Truncate"
      /\ handle'.target = n /\ handle'.result = "None" /\ handle'.nrec = handle.nrec
      /\ handle'.stale <=> handle.stale
  BY <1>3, <1>4, TruncateBegunIs, Zenon
<1>6. QED
  BY <1>2, <1>3, <1>5, Zenon

LEMMA ShapeCalls ==
  ASSUME Shape, (\E hist \in SeqsUpTo(Records, MaxRecs) : AppendTail(hist))
                \/ \E n \in 0..MaxRecs : Truncate(n)
  PROVE  Shape'
<1>1. handle.stale => handle.nrec = 0
  BY DEF Shape, Fits, NewFile
<1>2. handle.pc = "Ready" /\ ~handle.stale => file.kind = "Ours"
  BY DEF Shape, Fits
<1>3. CASE \E hist \in SeqsUpTo(Records, MaxRecs) : AppendTail(hist)
  <2>1. PICK hist \in SeqsUpTo(Records, MaxRecs) : AppendTail(hist)
    BY <1>3
  <2>2. /\ handle.pc = "Ready" /\ file' = file /\ disk' = disk
        /\ faults' = faults /\ sound' = sound
        /\ Len(hist) \in 0..MaxRecs /\ handle.nrec < Len(hist)
        /\ Len(handle'.todo) = Len(hist) - handle.nrec
    BY <2>1, AppendDoes
  <2>3. /\ handle' \in Handle /\ handle'.pc = (IF handle.stale THEN "Creating" ELSE "Writing")
        /\ handle'.op = "Append" /\ handle'.target = Len(hist)
        /\ handle'.result = "None" /\ handle'.nrec = handle.nrec
    BY <2>1, AppendDoes
  <2>4. (handle'.stale => handle.stale) /\ (handle.stale => handle'.stale)
    BY <2>1, AppendDoes
  <2>5. handle'.target = handle'.nrec + Len(handle'.todo)
    BY <2>2, <2>3, Typed, Numbers
  <2>6. TypeOK'
    BY <2>2, <2>3, Typed DEF TypeOK
  <2>7. CallShape'
    BY <2>3, <2>5 DEF CallShape, Idle
  <2>8. Fits'
    BY <1>1, <1>2, <2>2, <2>3, <2>4, ShapeOfFiles DEF Fits, NewFile
  <2>9. QED
    BY <2>6, <2>7, <2>8 DEF Shape
<1>4. CASE \E n \in 0..MaxRecs : Truncate(n)
  <2>1. PICK n \in 0..MaxRecs : Truncate(n)
    BY <1>4
  <2>2. /\ handle.pc = "Ready" /\ file' = file /\ disk' = disk
        /\ faults' = faults /\ sound' = sound /\ n <= handle.nrec
    BY <2>1, TruncateDoes
  <2>3. /\ handle' \in Handle /\ handle'.pc = (IF handle.stale THEN "Creating" ELSE "Header")
        /\ handle'.op = "Truncate" /\ handle'.target = n
        /\ handle'.result = "None" /\ handle'.nrec = handle.nrec
    BY <2>1, TruncateDoes
  <2>4. (handle'.stale => handle.stale) /\ (handle.stale => handle'.stale)
    BY <2>1, TruncateDoes
  <2>5. TypeOK'
    BY <2>2, <2>3, Typed DEF TypeOK
  <2>6. CallShape'
    BY <2>2, <2>3 DEF CallShape, Idle
  <2>7. Fits'
    BY <1>1, <1>2, <2>2, <2>3, <2>4, ShapeOfFiles DEF Fits, NewFile
  <2>8. QED
    BY <2>5, <2>6, <2>7 DEF Shape
<1>5. QED
  BY <1>3, <1>4

(* The handle one step on in its call. *)
LEMMA MovedIs ==
  ASSUME Shape, NEW pc \in Steps, handle' = [handle EXCEPT !.pc = pc]
  PROVE  /\ handle' \in Handle /\ handle'.pc = pc /\ handle'.op = handle.op
         /\ handle'.todo = handle.todo /\ handle'.target = handle.target
         /\ handle'.result = handle.result /\ handle'.nrec = handle.nrec
         /\ handle'.stale <=> handle.stale
<1>1. handle' \in Handle
  BY Typed DEF Handle
<1>2. /\ handle'.pc = pc /\ handle'.op = handle.op
      /\ handle'.todo = handle.todo /\ handle'.target = handle.target
      /\ handle'.result = handle.result /\ handle'.nrec = handle.nrec
  BY Typed DEF Handle
<1>3. handle'.stale => handle.stale
  BY Typed DEF Handle
<1>4. handle.stale => handle'.stale
  BY Typed DEF Handle
<1>5. QED
  BY <1>1, <1>2, <1>3, <1>4

LEMMA NowWritingIs ==
  ASSUME Shape, handle' = [handle EXCEPT !.pc = "Writing", !.stale = FALSE]
  PROVE  /\ handle' \in Handle /\ handle'.pc = "Writing" /\ handle'.op = handle.op
         /\ handle'.todo = handle.todo /\ handle'.target = handle.target
         /\ handle'.result = handle.result /\ handle'.nrec = handle.nrec
         /\ ~handle'.stale
BY Typed DEF Handle, Steps

LEMMA ReadyFresh ==
  ASSUME Shape, handle' = [Returned("Ok") EXCEPT !.stale = FALSE]
  PROVE  /\ handle' \in Handle /\ handle'.pc = "Ready" /\ handle'.op = "None" /\ ~handle'.stale
         /\ handle'.nrec = handle.nrec /\ handle'.result = "Ok"
BY Numbers, NoTodo, Typed DEF Returned, Handle, Steps, Idle

LEMMA ReadyAt ==
  ASSUME Shape, handle' = [Returned("Ok") EXCEPT !.nrec = handle.target]
  PROVE  /\ handle' \in Handle /\ handle'.pc = "Ready" /\ handle'.op = "None"
         /\ handle'.nrec = handle.target /\ handle'.result = "Ok"
         /\ handle'.stale => handle.stale
<1>1. /\ handle' \in Handle /\ handle'.pc = "Ready" /\ handle'.op = "None"
      /\ handle'.nrec = handle.target /\ handle'.result = "Ok"
  BY Numbers, NoTodo, Typed DEF Returned, Handle, Steps, Idle
<1>2. handle'.stale => handle.stale
  BY Numbers, NoTodo, Typed DEF Returned, Handle, Steps, Idle
<1>3. QED
  BY <1>1, <1>2

LEMMA ShapeCloses ==
  ASSUME Shape, Close
  PROVE  Shape'
BY Typed, ShapeOfFiles, ClosedIs, ShapeAtRest DEF Close

(* The shape of a handle in the middle of a call. *)
LEMMA ShapeInCall ==
  ASSUME Shape, NEW f \in File, NEW pc \in Steps \ {"Ready", "Closed", "Creating"},
         handle.pc \notin Idle,
         handle' \in Handle, handle'.pc = pc, handle'.op = handle.op,
         handle'.todo = handle.todo, handle'.target = handle.target,
         handle'.result = handle.result, handle'.nrec = handle.nrec,
         handle'.stale => handle.stale,
         pc = "Created" => (handle.stale => handle'.stale) /\ handle.pc = "Creating",
         pc # "Created" => handle.op \in {"Append", "Truncate"} /\ ~handle'.stale,
         pc \in {"Writing", "Written"} => handle.op = "Append",
         file' = f, f.kind = "Ours", handle.nrec <= Len(f.recs),
         handle.op = "Append" /\ pc \in {"Written", "Header", "HeaderWritten"} =>
           handle.target <= Len(f.recs),
         disk' \in File, faults' = faults, sound' = sound,
         \A g \in {file', disk'} : g.kind # "Ours" => g.nrec = 0 /\ g.recs = <<>>
  PROVE  Shape'
<1>1. TypeOK'
  BY Typed DEF TypeOK
<1>2. pc \notin Idle
  BY DEF Idle, Steps
<1>3. CallShape'
  BY <1>2 DEF Shape, CallShape, Idle
<1>4. Fits'
  <2>1. pc = "Created" => handle.nrec = 0
    BY DEF Shape, Fits, NewFile
  <2>2. pc = "Created" /\ handle.op # "Open" => handle.stale
    BY DEF Shape, Fits
  <2>3. QED
    BY <2>1, <2>2 DEF Fits, NewFile
<1>5. QED
  BY <1>1, <1>3, <1>4 DEF Shape

LEMMA ShapeCreates ==
  ASSUME Shape, Create
  PROVE  Shape'
<1>1. /\ handle.pc = "Creating" /\ handle' = [handle EXCEPT !.pc = "Created"]
      /\ disk' = disk /\ faults' = faults /\ sound' = sound /\ file' = NoRecs("Ours")
  BY DEF Create
<1>2. PICK f \in File : f = NoRecs("Ours") /\ f.kind = "Ours" /\ Len(f.recs) = 0
  BY NoRecsIs
<1>3. handle.nrec = 0
  BY <1>1 DEF Shape, Fits, NewFile
<1>4. "Created" \in Steps
  BY DEF Steps
<1>5. /\ handle' \in Handle /\ handle'.pc = "Created" /\ handle'.op = handle.op
      /\ handle'.todo = handle.todo /\ handle'.target = handle.target
      /\ handle'.result = handle.result /\ handle'.nrec = handle.nrec
      /\ handle'.stale <=> handle.stale
  BY <1>1, <1>4, MovedIs, Zenon
<1>6. "Created" \in Steps \ {"Ready", "Closed", "Creating"} /\ handle.pc \notin Idle
  BY <1>1 DEF Steps, Idle
<1>7. QED
  BY <1>1, <1>2, <1>3, <1>5, <1>6, Typed, ShapeOfFiles, ShapeInCall

LEMMA ShapeSyncsCreated ==
  ASSUME Shape, SyncCreated
  PROVE  Shape'
<1>1. /\ handle.pc = "Created" /\ file' = file /\ disk' = file
      /\ faults' = faults /\ sound' = sound
  BY DEF SyncCreated
<1>2. file.kind = "Ours" /\ handle.nrec = 0 /\ handle.op \in {"Open", "Append", "Truncate"}
  BY <1>1, Typed DEF Shape, CallShape, Fits, NewFile, Idle, Handle
<1>3. CASE handle.op = "Open"
  <2>1. handle' = Opened(FALSE, 0)
    BY <1>3 DEF SyncCreated
  <2>2. /\ handle' \in Handle /\ handle'.pc = "Ready" /\ handle'.op = "None"
        /\ ~handle'.stale /\ handle'.nrec = 0
    BY <2>1, Numbers, OpenedFresh
  <2>3. QED
    BY <1>1, <1>2, <2>2, Typed, ShapeOfFiles, ShapeAtRest
<1>4. CASE handle.op = "Append"
  <2>1. handle' = [handle EXCEPT !.pc = "Writing", !.stale = FALSE]
    BY <1>4 DEF SyncCreated
  <2>2. /\ handle' \in Handle /\ handle'.pc = "Writing" /\ handle'.op = handle.op
        /\ handle'.todo = handle.todo /\ handle'.target = handle.target
        /\ handle'.result = handle.result /\ handle'.nrec = handle.nrec
        /\ ~handle'.stale
    BY <2>1, NowWritingIs
  <2>3. "Writing" \in Steps \ {"Ready", "Closed", "Creating"} /\ handle.pc \notin Idle
    BY <1>1 DEF Steps, Idle
  <2>4. QED
    BY <1>1, <1>2, <1>4, <2>2, <2>3, Typed, ShapeOfFiles, ShapeInCall
<1>5. CASE handle.op = "Truncate"
  <2>1. handle' = [Returned("Ok") EXCEPT !.stale = FALSE]
    BY <1>5 DEF SyncCreated
  <2>2. /\ handle' \in Handle /\ handle'.pc = "Ready" /\ handle'.op = "None"
        /\ ~handle'.stale /\ handle'.nrec = 0
    BY <1>2, <2>1, ReadyFresh
  <2>3. QED
    BY <1>1, <1>2, <2>2, Typed, ShapeOfFiles, ShapeAtRest
<1>6. QED
  BY <1>2, <1>3, <1>4, <1>5

LEMMA ShapeWritesRecs ==
  ASSUME Shape, WriteRecs
  PROVE  Shape'
<1>1. /\ handle.pc = "Writing" /\ handle' = [handle EXCEPT !.pc = "Written"]
      /\ disk' = disk /\ faults' = faults /\ sound' = sound
      /\ file' = Overwritten(Len(handle.todo))
  BY DEF WriteRecs
<1>2. PICK k \in 0..Len(handle.todo) : k = Len(handle.todo)
  BY Typed
<1>3. PICK f : f = Overwritten(k)
  OBVIOUS
<1>4. /\ f \in File /\ f.kind = file.kind
      /\ Len(file.recs) <= Len(f.recs) /\ handle.nrec + k <= Len(f.recs)
  BY <1>1, <1>2, <1>3, OverwrittenIs
<1>5. /\ handle.nrec \in 0..Len(file.recs) /\ file.kind = "Ours"
      /\ handle.target = handle.nrec + Len(handle.todo)
  BY <1>1, ToWrite
<1>6. handle.nrec <= Len(f.recs) /\ handle.target <= Len(f.recs)
  BY <1>2, <1>4, <1>5, FileIs
<1>7. handle.op = "Append" /\ ~handle.stale
  BY <1>1 DEF Shape, CallShape, Fits
<1>8. "Written" \in Steps \ {"Ready", "Closed", "Creating"} /\ handle.pc \notin Idle
  BY <1>1 DEF Steps, Idle
<1>9. /\ handle' \in Handle /\ handle'.pc = "Written" /\ handle'.op = handle.op
      /\ handle'.todo = handle.todo /\ handle'.target = handle.target
      /\ handle'.result = handle.result /\ handle'.nrec = handle.nrec
      /\ handle'.stale <=> handle.stale
  BY <1>1, <1>8, MovedIs
<1>10. file' = f
  BY <1>1, <1>2, <1>3
<1>11. QED
  BY <1>1, <1>4, <1>5, <1>6, <1>7, <1>8, <1>9, <1>10, Typed, ShapeOfFiles, ShapeInCall

LEMMA ShapeSyncsRecs ==
  ASSUME Shape, SyncRecs
  PROVE  Shape'
<1>1. /\ handle.pc = "Written" /\ handle' = [handle EXCEPT !.pc = "Header"]
      /\ disk' = file /\ faults' = faults /\ sound' = sound /\ file' = file
  BY DEF SyncRecs
<1>2. /\ handle.op = "Append" /\ ~handle.stale /\ file.kind = "Ours"
      /\ handle.target <= Len(file.recs)
  BY <1>1 DEF Shape, CallShape, Fits
<1>3. "Header" \in Steps \ {"Ready", "Closed", "Creating"} /\ handle.pc \notin Idle
  BY <1>1 DEF Steps, Idle
<1>4. /\ handle' \in Handle /\ handle'.pc = "Header" /\ handle'.op = handle.op
      /\ handle'.todo = handle.todo /\ handle'.target = handle.target
      /\ handle'.result = handle.result /\ handle'.nrec = handle.nrec
      /\ handle'.stale <=> handle.stale
  BY <1>1, <1>3, MovedIs
<1>5. QED
  BY <1>1, <1>2, <1>3, <1>4, Typed, ShapeOfFiles, ShapeInCall

LEMMA ShapeWritesNrec ==
  ASSUME Shape, WriteNrec
  PROVE  Shape'
<1>1. /\ handle.pc = "Header" /\ handle' = [handle EXCEPT !.pc = "HeaderWritten"]
      /\ disk' = disk /\ faults' = faults /\ sound' = sound
      /\ file' = [file EXCEPT !.nrec = handle.target]
  BY DEF WriteNrec
<1>2. /\ handle.op \in {"Append", "Truncate"} /\ ~handle.stale /\ file.kind = "Ours"
      /\ handle.op = "Append" => handle.target <= Len(file.recs)
  BY <1>1 DEF Shape, CallShape, Fits
<1>3. PICK f : f = [file EXCEPT !.nrec = handle.target]
  OBVIOUS
<1>4. f \in File /\ f.kind = "Ours" /\ f.recs = file.recs
  BY <1>2, <1>3, Typed, NrecPut
<1>5. "HeaderWritten" \in Steps \ {"Ready", "Closed", "Creating"} /\ handle.pc \notin Idle
  BY <1>1 DEF Steps, Idle
<1>6. /\ handle' \in Handle /\ handle'.pc = "HeaderWritten" /\ handle'.op = handle.op
      /\ handle'.todo = handle.todo /\ handle'.target = handle.target
      /\ handle'.result = handle.result /\ handle'.nrec = handle.nrec
      /\ handle'.stale <=> handle.stale
  BY <1>1, <1>5, MovedIs
<1>7. QED
  BY <1>1, <1>2, <1>3, <1>4, <1>5, <1>6, Typed, ShapeOfFiles, ShapeInCall

LEMMA ShapeSyncsNrec ==
  ASSUME Shape, SyncNrec
  PROVE  Shape'
<1>1. /\ handle.pc = "HeaderWritten" /\ file' = file /\ disk' = file
      /\ faults' = faults /\ sound' = sound
      /\ handle' = [Returned("Ok") EXCEPT !.nrec = handle.target]
  BY DEF SyncNrec
<1>2. PICK n \in 0..MaxRecs : n = handle.target
  BY Typed
<1>3. /\ handle' \in Handle /\ handle'.pc = "Ready" /\ handle'.op = "None"
      /\ handle'.nrec = n
  BY <1>1, <1>2, ReadyAt
<1>4. handle'.stale => handle.stale
  BY <1>1, ReadyAt
<1>5. ~handle.stale /\ file.kind = "Ours"
  BY <1>1 DEF Shape, Fits
<1>6. n <= Len(file.recs)
  <2>1. CASE handle.op = "Append"
    BY <1>1, <1>2, <2>1 DEF Shape, Fits
  <2>2. CASE handle.op = "Truncate"
    <3>1. handle.target <= handle.nrec /\ handle.nrec <= Len(file.recs) /\ handle.nrec \in Nat
      BY <1>1, <2>2, Typed, Numbers, ShapeOfFiles DEF Shape, CallShape
    <3>2. QED
      BY <1>2, <3>1, ShapeOfFiles
  <2>3. QED
    BY <1>1, <2>1, <2>2 DEF Shape, CallShape
<1>7. QED
  BY <1>1, <1>3, <1>4, <1>5, <1>6, Typed, ShapeOfFiles, ShapeAtRest

(* Whatever the power leaves of two files, their headers and the records they *)
(* agree on survive.                                                          *)
LEMMA RecsLeftIs ==
  ASSUME NEW old \in Seq(Bytes), NEW new \in Seq(Bytes), NEW m \in Nat,
         Len(old) <= MaxRecs, Len(new) <= MaxRecs, m <= Len(old), m <= Len(new),
         \A p \in 1..m : old[p] = new[p]
  PROVE  \A r \in RecsLeft(old, new) : /\ r \in Seq(Bytes) /\ Len(r) <= MaxRecs /\ m <= Len(r)
                                       /\ \A p \in 1..m : r[p] = new[p]
<1>1. Len(old) \in Nat /\ Len(new) \in Nat /\ MaxRecs \in Nat
  BY LenProperties, Numbers
<1>2. SUFFICES ASSUME NEW r \in RecsLeft(old, new)
               PROVE  /\ r \in Seq(Bytes) /\ Len(r) <= MaxRecs /\ m <= Len(r)
                      /\ \A p \in 1..m : r[p] = new[p]
  OBVIOUS
<1>3. PICK n \in Least(Len(old), Len(new))..Most(Len(old), Len(new)) :
             r \in [1..n -> Bytes] /\ \A p \in 1..n : r[p] \in RecordLeft(old, new, p)
  BY DEF RecsLeft
<1>4. n \in Nat /\ m <= n /\ n <= MaxRecs
  BY <1>1, <1>3 DEF Least, Most
<1>5. r \in Seq(Bytes) /\ Len(r) = n
  BY <1>3, <1>4
<1>6. ASSUME NEW p \in 1..m
      PROVE  r[p] = new[p]
  <2>1. p \in 1..n /\ p <= Len(old) /\ p <= Len(new) /\ old[p] = new[p]
    BY <1>1, <1>4
  <2>2. r[p] \in RecordLeft(old, new, p)
    BY <1>3, <2>1
  <2>3. RecordLeft(old, new, p) = {new[p]}
    BY <2>1 DEF RecordLeft
  <2>4. QED
    BY <2>2, <2>3
<1>7. QED
  BY <1>4, <1>5, <1>6

LEMMA LeftIs ==
  ASSUME NEW old \in File, NEW new \in File, NEW g \in Left(old, new), NEW m \in Nat,
         m <= Len(old.recs), m <= Len(new.recs),
         \A p \in 1..m : old.recs[p] = new.recs[p]
  PROVE  /\ g \in File
         /\ g.kind # "Ours" => g.recs = <<>>
         /\ \E h \in {old, new} : g.kind = h.kind /\ g.nrec = h.nrec
         /\ g.kind = "Ours" => m <= Len(g.recs) /\ \A p \in 1..m : g.recs[p] = new.recs[p]
<1>1. /\ old.recs \in Seq(Bytes) /\ new.recs \in Seq(Bytes)
      /\ Len(old.recs) <= MaxRecs /\ Len(new.recs) <= MaxRecs
  BY FileIs
<1>2. PICK h \in {old, new}, recs \in RecsLeft(old.recs, new.recs) :
             g = [h EXCEPT !.recs = IF h.kind = "Ours" THEN recs ELSE <<>>]
  BY DEF Left
<1>3. /\ recs \in Seq(Bytes) /\ Len(recs) <= MaxRecs /\ m <= Len(recs)
      /\ \A p \in 1..m : recs[p] = new.recs[p]
  BY <1>1, <1>2, RecsLeftIs
<1>4. PICK r : r = IF h.kind = "Ours" THEN recs ELSE <<>>
  OBVIOUS
<1>5. r \in Seq(Bytes) /\ Len(r) <= MaxRecs
  <2>1. <<>> \in Seq(Bytes) /\ Len(<<>>) = 0 /\ 0 <= MaxRecs
    BY Numbers
  <2>2. QED
    BY <1>3, <1>4, <2>1
<1>6. h \in File /\ g = [h EXCEPT !.recs = r]
  BY <1>2, <1>4
<1>7. g \in File /\ g.kind = h.kind /\ g.nrec = h.nrec /\ g.recs = r
  BY <1>5, <1>6, RecsPut
<1>8. QED
  BY <1>2, <1>3, <1>4, <1>7

LEMMA ShapeFails ==
  ASSUME Shape, Fail
  PROVE  Shape'
<1>1. PICK f \in CutOff : file' = f
  BY DEF Fail
<1>2. /\ f \in File /\ (f.kind # "Ours" => f.nrec = 0 /\ f.recs = <<>>)
      /\ handle.pc # "Creating" => f.kind = file.kind /\ Len(file.recs) <= Len(f.recs)
  BY <1>1, CutOffIs
<1>3. disk' = disk /\ faults' = faults + 1 /\ faults < MaxFaults /\ handle.pc \notin Idle
  BY DEF Fail
<1>4. sound' \in BOOLEAN
  BY Typed DEF Fail
<1>5. /\ faults' \in 0..MaxFaults /\ disk' \in File /\ file' \in File
      /\ \A g \in {file', disk'} : g.kind # "Ours" => g.nrec = 0 /\ g.recs = <<>>
  BY <1>1, <1>2, <1>3, Typed, Numbers, ShapeOfFiles
<1>6. CASE handle.op = "Open"
  <2>1. handle' = Closed
    BY <1>6 DEF Fail
  <2>2. QED
    BY <1>1, <1>2, <1>4, <1>5, <2>1, ClosedIs, ShapeAtRest
<1>7. CASE handle.op # "Open"
  <2>1. handle' = Returned("Error")
    BY <1>7 DEF Fail
  <2>2. /\ handle' \in Handle /\ handle'.pc = "Ready" /\ handle'.op = "None"
        /\ handle'.nrec = handle.nrec /\ handle'.result = "Error"
    BY <2>1, ReturnedIs
  <2>3. handle'.stale => handle.stale
    BY <2>1, ReturnedIs
  <2>4. handle.stale => handle'.stale
    BY <2>1, ReturnedIs
  <2>5. handle.nrec <= Len(f.recs)
    <3>1. CASE handle.pc = "Creating"
      <4>1. handle.nrec = 0
        BY <3>1 DEF Shape, Fits, NewFile
      <4>2. QED
        BY <1>2, <4>1, FileIs
    <3>2. CASE handle.pc # "Creating"
      <4>1. handle.nrec <= Len(file.recs) /\ Len(file.recs) \in Nat /\ handle.nrec \in Nat
        BY <1>3, Typed, Numbers, ShapeOfFiles DEF Idle
      <4>2. QED
        BY <1>2, <3>2, <4>1, FileIs
    <3>3. QED
      BY <3>1, <3>2
  <2>6. handle.stale => handle.nrec = 0
    BY DEF Shape, Fits, NewFile
  <2>7. ~handle.stale => f.kind = "Ours"
    <3>1. handle.pc = "Creating" => handle.stale
      BY <1>7 DEF Shape, Fits
    <3>2. ~handle.stale => file.kind = "Ours"
      BY <1>3, <3>1 DEF Shape, Fits, Idle
    <3>3. QED
      BY <1>2, <3>1, <3>2
  <2>8. QED
    BY <1>1, <1>2, <1>4, <1>5, <2>2, <2>3, <2>4, <2>5, <2>6, <2>7, ShapeAtRest
<1>8. QED
  BY <1>6, <1>7

LEMMA ShapeKilled ==
  ASSUME Shape, Kill
  PROVE  Shape'
<1>1. PICK f \in CutOff : file' = f
  BY DEF Kill
<1>2. f \in File /\ (f.kind # "Ours" => f.nrec = 0 /\ f.recs = <<>>)
  BY <1>1, CutOffIs
<1>3. disk' = disk /\ faults' = faults /\ handle' = Closed
  BY DEF Kill
<1>4. sound' \in BOOLEAN
  BY Typed DEF Kill
<1>5. QED
  BY <1>1, <1>2, <1>3, <1>4, Typed, ShapeOfFiles, ClosedIs, ShapeAtRest

LEMMA ShapeLosesPower ==
  ASSUME Shape, PowerLoss
  PROVE  Shape'
<1>1. PICK f \in CutOff : file' \in Left(disk, f)
  BY DEF PowerLoss
<1>2. PICK g : g = file' /\ g \in Left(disk, f)
  BY <1>1
<1>3. PICK d \in File : d = disk /\ (d.kind # "Ours" => d.nrec = 0)
  BY Typed, ShapeOfFiles
<1>4. f \in File /\ (f.kind # "Ours" => f.nrec = 0)
  BY <1>1, CutOffIs
<1>5. 0 <= Len(d.recs) /\ 0 <= Len(f.recs) /\ \A p \in 1..0 : d.recs[p] = f.recs[p]
  BY <1>3, <1>4, FileIs
<1>6. /\ g \in File /\ (g.kind # "Ours" => g.recs = <<>>)
      /\ \E h \in {d, f} : g.kind = h.kind /\ g.nrec = h.nrec
  <2>1. g \in Left(d, f) /\ 0 \in Nat
    BY <1>2, <1>3
  <2>2. QED
    BY <1>3, <1>4, <1>5, <2>1, LeftIs
<1>7. g.kind # "Ours" => g.nrec = 0 /\ g.recs = <<>>
  BY <1>3, <1>4, <1>6
<1>8. disk' = g /\ file' = g /\ faults' = faults /\ sound' = sound /\ handle' = Closed
  BY <1>2 DEF PowerLoss
<1>9. QED
  BY <1>6, <1>7, <1>8, Typed, ClosedIs, ShapeAtRest

LEMMA ShapeStutters ==
  ASSUME Shape, UNCHANGED vars
  PROVE  Shape'
BY DEF vars, Shape, TypeOK, CallShape, Fits, NewFile

LEMMA ShapeStep ==
  ASSUME Shape, [Next]_vars
  PROVE  Shape'
<1>1. CASE Next
  BY <1>1, ShapeOpens, ShapeLoads, ShapeCloses, ShapeCalls, ShapeCreates, ShapeSyncsCreated,
     ShapeWritesRecs, ShapeSyncsRecs, ShapeWritesNrec, ShapeSyncsNrec, ShapeFails, ShapeKilled,
     ShapeLosesPower DEF Next
<1>2. QED
  BY <1>1, ShapeStutters

-----------------------------------------------------------------------------
(* Settled. *)

LEMMA CommonLess ==
  ASSUME NEW f \in File, NEW g \in File, NEW n \in Nat, NEW m \in Nat, m <= n, Common(f, g, n)
  PROVE  Common(f, g, m)
<1>1. Len(f.recs) \in Nat /\ Len(g.recs) \in Nat
  BY FileIs
<1>2. \A p \in 1..m : p \in 1..n
  OBVIOUS
<1>3. QED
  BY <1>1, <1>2 DEF Common

LEMMA CommonZero ==
  ASSUME NEW f \in File, NEW g \in File
  PROVE  Common(f, g, 0)
BY FileIs DEF Common

LEMMA CommonSelf ==
  ASSUME NEW f \in File, NEW g \in File, NEW n \in Nat, Common(f, g, n)
  PROVE  Common(f, f, n)
BY FileIs DEF Common

(* f changed where n does not count. *)
LEMMA CommonKept ==
  ASSUME NEW f \in File, NEW g \in File, NEW h \in File, NEW n \in Nat, Common(f, g, n),
         n <= Len(h.recs), \A p \in 1..n : h.recs[p] = f.recs[p]
  PROVE  Common(h, g, n)
BY FileIs DEF Common

(* What the two headers are to each other. *)
LEMMA Headers ==
  ASSUME Shape, Settled
  PROVE  /\ file.nrec \in Nat /\ disk.nrec \in Nat /\ file.nrec <= MaxRecs
         /\ Common(file, disk, file.nrec) /\ Common(file, disk, disk.nrec)
         /\ file.nrec <= Len(file.recs) /\ disk.nrec <= Len(disk.recs)
         /\ NewFile => file.nrec = 0 /\ disk.nrec = 0 /\ handle.nrec = 0
         /\ handle.pc # "HeaderWritten" => disk.nrec <= file.nrec
         /\ ~NewFile /\ handle.pc \in {"Ready", "Writing", "Written", "Header"} =>
              handle.nrec = file.nrec
<1>1. /\ file.nrec \in Nat /\ disk.nrec \in Nat /\ file.nrec <= MaxRecs
  BY Typed, FileIs
<1>2. Common(file, disk, file.nrec) /\ Common(file, disk, disk.nrec)
  BY DEF Settled, Agree
<1>3. file.nrec <= Len(file.recs) /\ disk.nrec <= Len(disk.recs)
  BY <1>2 DEF Common
<1>4. handle.pc # "HeaderWritten" => disk.nrec <= file.nrec
  BY DEF Settled
<1>5. NewFile => file.nrec = 0 /\ handle.nrec = 0 /\ handle.pc # "HeaderWritten"
  BY DEF Settled, Shape, Fits, NewFile
<1>6. NewFile => disk.nrec = 0
  BY <1>1, <1>4, <1>5
<1>7. ~NewFile /\ handle.pc \in {"Ready", "Writing", "Written", "Header"} =>
              handle.nrec = file.nrec
  BY DEF Settled
<1>8. QED
  BY <1>1, <1>2, <1>3, <1>4, <1>5, <1>6, <1>7

LEMMA FoundHere ==
  ASSUME Shape, Settled
  PROVE  /\ Found(file) = SubSeq(file.recs, 1, file.nrec) /\ Len(Found(file)) = file.nrec
         /\ Found(disk) = SubSeq(disk.recs, 1, disk.nrec) /\ Len(Found(disk)) = disk.nrec
<1>1. PICK f \in File : f = file
  BY Typed
<1>2. PICK d \in File : d = disk
  BY Typed
<1>3. /\ f.nrec <= Len(f.recs) /\ (f.kind # "Ours" => f.nrec = 0)
      /\ d.nrec <= Len(d.recs) /\ (d.kind # "Ours" => d.nrec = 0)
  BY <1>1, <1>2, Headers, ShapeOfFiles
<1>4. /\ Found(f) = SubSeq(f.recs, 1, f.nrec) /\ Len(Found(f)) = f.nrec
      /\ Found(d) = SubSeq(d.recs, 1, d.nrec) /\ Len(Found(d)) = d.nrec
  BY <1>1, <1>2, <1>3, FoundIs
<1>5. QED
  BY <1>1, <1>2, <1>4

(* A handle in no call. *)
LEMMA SettledAtRest ==
  ASSUME NEW f \in File, NEW d \in File, file' = f, disk' = d,
         Common(f, d, f.nrec), Common(f, d, d.nrec), d.nrec <= f.nrec,
         handle'.pc \in Idle, handle'.op = "None", handle'.stale => f.nrec = 0,
         handle'.pc = "Ready" => handle'.nrec = f.nrec
  PROVE  Settled'
BY DEF Settled, Agree, NewFile, Idle

LEMMA SettledAsItWas ==
  ASSUME Shape, Settled, file' = file, disk' = disk, handle.pc # "HeaderWritten",
         handle'.pc \in Idle, handle'.op = "None", handle'.stale => file.nrec = 0,
         handle'.pc = "Ready" => handle'.nrec = file.nrec
  PROVE  Settled'
<1>1. PICK f \in File : f = file
  BY Typed
<1>2. PICK d \in File : d = disk
  BY Typed
<1>3. QED
  BY <1>1, <1>2, Headers, SettledAtRest

LEMMA SettledOpens ==
  ASSUME Shape, Settled, Open
  PROVE  Settled'
<1>1. file' = file /\ disk' = disk /\ handle.pc = "Closed"
  BY DEF Open
<1>2. /\ file.kind \in {"Missing", "Foreign", "Ours"}
      /\ file.kind # "Ours" => file.nrec = 0
  BY Typed, FileIs, ShapeOfFiles
<1>3. CASE file.kind = "Missing"
  <2>1. handle' = [Closed EXCEPT !.pc = "Creating", !.op = "Open"]
    BY <1>3 DEF Open
  <2>2. handle'.pc = "Creating" /\ handle'.op = "Open"
    BY <2>1, ClosedIs DEF Handle
  <2>3. file.nrec = 0 /\ disk.nrec <= file.nrec /\ Agree(file.nrec) /\ Agree(disk.nrec)
    BY <1>1, <1>2, <1>3, Headers DEF Agree
  <2>4. QED
    BY <1>1, <2>2, <2>3 DEF Settled, Agree, NewFile
<1>4. CASE file.kind = "Foreign"
  <2>1. handle' = Opened(TRUE, 0)
    BY <1>4 DEF Open
  <2>2. handle'.pc = "Ready" /\ handle'.op = "None" /\ handle'.nrec = 0
    BY <2>1, OpenedStale
  <2>3. QED
    BY <1>1, <1>2, <1>4, <2>2, SettledAsItWas DEF Idle
<1>5. CASE file.kind = "Ours"
  <2>1. PICK n \in 0..MaxRecs : n = Len(Found(file)) /\ n = file.nrec
    BY FoundHere, Headers, Numbers
  <2>2. handle' = Opened(FALSE, n)
    BY <1>5, <2>1 DEF Open
  <2>3. handle'.pc = "Ready" /\ handle'.op = "None" /\ handle'.nrec = n
    BY <2>1, <2>2, OpenedFresh
  <2>4. ~handle'.stale
    BY <2>1, <2>2, OpenedFresh
  <2>5. QED
    BY <1>1, <2>1, <2>3, <2>4, SettledAsItWas DEF Idle
<1>6. QED
  BY <1>2, <1>3, <1>4, <1>5

LEMMA SettledLoads ==
  ASSUME Shape, Settled, Load
  PROVE  Settled'
<1>1. file' = file /\ disk' = disk /\ handle.pc = "Ready" /\ ~handle.stale
  BY DEF Load
<1>2. PICK n \in 0..MaxRecs : n = Len(Found(file)) /\ n = file.nrec
  BY FoundHere, Headers, Numbers
<1>3. handle' = [handle EXCEPT !.nrec = n]
  BY <1>2 DEF Load
<1>4. handle'.pc = "Ready" /\ handle'.op = handle.op /\ ~handle'.stale /\ handle'.nrec = n
  BY <1>1, <1>2, <1>3, Loaded
<1>5. handle.op = "None"
  BY <1>1 DEF Shape, CallShape, Idle
<1>6. QED
  BY <1>1, <1>2, <1>4, <1>5, SettledAsItWas DEF Idle

LEMMA SettledCloses ==
  ASSUME Shape, Settled, Close
  PROVE  Settled'
BY ClosedIs, SettledAsItWas DEF Close, Idle

LEMMA SettledCalls ==
  ASSUME Shape, Settled, (\E hist \in SeqsUpTo(Records, MaxRecs) : AppendTail(hist))
                         \/ \E n \in 0..MaxRecs : Truncate(n)
  PROVE  Settled'
<1>1. /\ handle.pc = "Ready" /\ file' = file /\ disk' = disk
      /\ handle'.nrec = handle.nrec /\ (handle'.stale => handle.stale)
      /\ \/ handle.stale /\ handle'.pc = "Creating"
         \/ ~handle.stale /\ handle'.pc = "Writing" /\ handle'.op = "Append"
         \/ ~handle.stale /\ handle'.pc = "Header" /\ handle'.op = "Truncate"
  <2>1. CASE \E hist \in SeqsUpTo(Records, MaxRecs) : AppendTail(hist)
    <3>1. PICK hist \in SeqsUpTo(Records, MaxRecs) : AppendTail(hist)
      BY <2>1
    <3>2. /\ handle.pc = "Ready" /\ file' = file /\ disk' = disk
          /\ handle'.pc = (IF handle.stale THEN "Creating" ELSE "Writing")
          /\ handle'.op = "Append" /\ handle'.nrec = handle.nrec
      BY <3>1, AppendDoes
    <3>3. handle'.stale => handle.stale
      BY <3>1, AppendDoes
    <3>4. QED
      BY <3>2, <3>3
  <2>2. CASE \E n \in 0..MaxRecs : Truncate(n)
    <3>1. PICK n \in 0..MaxRecs : Truncate(n)
      BY <2>2
    <3>2. /\ handle.pc = "Ready" /\ file' = file /\ disk' = disk
          /\ handle'.pc = (IF handle.stale THEN "Creating" ELSE "Header")
          /\ handle'.op = "Truncate" /\ handle'.nrec = handle.nrec
      BY <3>1, TruncateDoes
    <3>3. handle'.stale => handle.stale
      BY <3>1, TruncateDoes
    <3>4. QED
      BY <3>2, <3>3
  <2>3. QED
    BY <2>1, <2>2
<1>2. /\ Common(file, disk, file.nrec) /\ Common(file, disk, disk.nrec)
      /\ disk.nrec <= file.nrec /\ (handle.stale => file.nrec = 0)
      /\ ~handle.stale => handle.nrec = file.nrec
  BY <1>1, Headers DEF NewFile
<1>3. QED
  BY <1>1, <1>2 DEF Settled, Agree, NewFile

LEMMA SettledCreates ==
  ASSUME Shape, Settled, Create
  PROVE  Settled'
<1>1. /\ handle.pc = "Creating" /\ handle' = [handle EXCEPT !.pc = "Created"]
      /\ disk' = disk /\ file' = NoRecs("Ours")
  BY DEF Create
<1>2. PICK f \in File : f = NoRecs("Ours") /\ f.nrec = 0
  BY NoRecsIs
<1>3. PICK d \in File : d = disk
  BY Typed
<1>4. d.nrec = 0
  BY <1>1, <1>3, Headers DEF NewFile
<1>5. Common(f, d, 0)
  BY CommonZero
<1>6. handle'.pc = "Created"
  <2>1. "Created" \in Steps
    BY DEF Steps
  <2>2. QED
    BY <1>1, <2>1, MovedIs
<1>7. QED
  BY <1>1, <1>2, <1>3, <1>4, <1>5, <1>6 DEF Settled, Agree, NewFile

LEMMA SettledSyncsCreated ==
  ASSUME Shape, Settled, SyncCreated
  PROVE  Settled'
<1>1. handle.pc = "Created" /\ file' = file /\ disk' = file
  BY DEF SyncCreated
<1>2. PICK f \in File : f = file /\ f.nrec = 0
  BY <1>1, Typed, Headers DEF NewFile
<1>3. Common(f, f, f.nrec)
  BY <1>2, CommonZero
<1>4. handle.nrec = 0 /\ handle.op \in {"Open", "Append", "Truncate"}
  BY <1>1, Typed DEF Shape, CallShape, Fits, NewFile, Idle, Handle
<1>5. CASE handle.op = "Open"
  <2>1. handle' = Opened(FALSE, 0)
    BY <1>5 DEF SyncCreated
  <2>2. handle'.pc = "Ready" /\ handle'.op = "None" /\ ~handle'.stale /\ handle'.nrec = 0
    BY <2>1, Numbers, OpenedFresh
  <2>3. QED
    BY <1>1, <1>2, <1>3, <2>2, SettledAtRest DEF Idle
<1>6. CASE handle.op = "Append"
  <2>1. handle' = [handle EXCEPT !.pc = "Writing", !.stale = FALSE]
    BY <1>6 DEF SyncCreated
  <2>2. handle'.pc = "Writing" /\ ~handle'.stale /\ handle'.nrec = handle.nrec
    BY <2>1, NowWritingIs
  <2>3. QED
    BY <1>1, <1>2, <1>3, <1>4, <2>2 DEF Settled, Agree, NewFile
<1>7. CASE handle.op = "Truncate"
  <2>1. handle' = [Returned("Ok") EXCEPT !.stale = FALSE]
    BY <1>7 DEF SyncCreated
  <2>2. handle'.pc = "Ready" /\ handle'.op = "None" /\ ~handle'.stale /\ handle'.nrec = 0
    BY <1>4, <2>1, ReadyFresh
  <2>3. QED
    BY <1>1, <1>2, <1>3, <2>2, SettledAtRest DEF Idle
<1>8. QED
  BY <1>4, <1>5, <1>6, <1>7

LEMMA SettledWritesRecs ==
  ASSUME Shape, Settled, WriteRecs
  PROVE  Settled'
<1>1. /\ handle.pc = "Writing" /\ handle' = [handle EXCEPT !.pc = "Written"]
      /\ disk' = disk /\ file' = Overwritten(Len(handle.todo))
  BY DEF WriteRecs
<1>2. PICK k \in 0..Len(handle.todo) : k = Len(handle.todo)
  BY Typed
<1>3. PICK g : g = Overwritten(k)
  OBVIOUS
<1>4. PICK f \in File, d \in File : f = file /\ d = disk
  BY Typed
<1>5. /\ g \in File /\ g.nrec = f.nrec /\ Len(f.recs) <= Len(g.recs)
      /\ \A p \in 1..handle.nrec : g.recs[p] = f.recs[p]
      /\ \A i \in 1..k : g.recs[handle.nrec + i] = handle.todo[i]
  BY <1>1, <1>2, <1>3, <1>4, OverwrittenIs
<1>6. ~NewFile
  BY <1>1 DEF Shape, Fits, NewFile
<1>7. /\ handle.nrec = f.nrec /\ f.nrec \in Nat /\ d.nrec \in Nat /\ d.nrec <= f.nrec
      /\ Common(f, d, f.nrec) /\ Common(f, d, d.nrec)
  BY <1>1, <1>4, <1>6, Headers
<1>8. Common(g, d, f.nrec) /\ Common(g, d, d.nrec)
  <2>1. f.nrec <= Len(g.recs) /\ d.nrec <= Len(g.recs)
    BY <1>5, <1>7, FileIs DEF Common
  <2>2. \A p \in 1..f.nrec : g.recs[p] = f.recs[p]
    BY <1>5, <1>7
  <2>3. \A p \in 1..d.nrec : p \in 1..f.nrec
    BY <1>7
  <2>4. QED
    BY <1>5, <1>7, <2>1, <2>2, <2>3, CommonKept
<1>9. /\ handle'.pc = "Written" /\ handle'.op = handle.op /\ handle'.nrec = handle.nrec
      /\ handle'.todo = handle.todo
  <2>1. "Written" \in Steps
    BY DEF Steps
  <2>2. QED
    BY <1>1, <2>1, MovedIs
<1>10. ~handle'.stale
  <2>1. "Written" \in Steps /\ ~handle.stale
    BY <1>6 DEF Steps, NewFile
  <2>2. QED
    BY <1>1, <2>1, MovedIs
<1>11. file' = g /\ disk' = d
  BY <1>1, <1>2, <1>3, <1>4
<1>12. QED
  BY <1>2, <1>5, <1>7, <1>8, <1>9, <1>10, <1>11 DEF Settled, Agree, NewFile

LEMMA SettledSyncsRecs ==
  ASSUME Shape, Settled, SyncRecs
  PROVE  Settled'
<1>1. /\ handle.pc = "Written" /\ handle' = [handle EXCEPT !.pc = "Header"]
      /\ disk' = file /\ file' = file
  BY DEF SyncRecs
<1>2. PICK f \in File, d \in File : f = file /\ d = disk
  BY Typed
<1>3. ~NewFile /\ handle.op = "Append" /\ ~handle.stale
  BY <1>1 DEF Shape, CallShape, Fits, NewFile
<1>4. /\ handle.nrec = f.nrec /\ f.nrec \in Nat /\ Common(f, d, f.nrec)
  BY <1>1, <1>2, <1>3, Headers
<1>5. Common(f, f, f.nrec)
  BY <1>4, CommonSelf
<1>6. PICK n \in Nat, len \in Nat : n = handle.nrec /\ len = Len(handle.todo)
  BY Typed, Numbers
<1>7. handle.target = n + len /\ n + len <= Len(f.recs)
  BY <1>1, <1>2, <1>3, <1>6 DEF Shape, CallShape, Fits
<1>8. \A i \in 1..len : f.recs[n + i] = handle.todo[i] /\ handle.todo[i] \in Records
  BY <1>1, <1>2, <1>3, <1>6, Typed DEF Settled
<1>9. ASSUME NEW p \in 1..n + len
      PROVE  f.recs[p] \in Records
  <2>1. CASE p <= n
    BY <1>4, <1>6, <2>1 DEF Common
  <2>2. CASE p > n
    <3>1. p - n \in 1..len /\ n + (p - n) = p
      BY <2>2
    <3>2. QED
      BY <1>8, <3>1
  <2>3. QED
    BY <2>1, <2>2
<1>10. Common(f, f, n + len)
  BY <1>7, <1>9 DEF Common
<1>11. /\ handle'.pc = "Header" /\ handle'.op = handle.op /\ handle'.nrec = handle.nrec
       /\ handle'.todo = handle.todo /\ handle'.target = handle.target
  <2>1. "Header" \in Steps
    BY DEF Steps
  <2>2. QED
    BY <1>1, <2>1, MovedIs
<1>12. ~handle'.stale
  <2>1. "Header" \in Steps
    BY DEF Steps
  <2>2. QED
    BY <1>1, <1>3, <2>1, MovedIs
<1>13. file' = f /\ disk' = f
  BY <1>1, <1>2
<1>14. QED
  BY <1>4, <1>5, <1>6, <1>7, <1>8, <1>10, <1>11, <1>12, <1>13 DEF Settled, Agree, NewFile

(* The header about to be written counts whole records that are on the disk.  *)
LEMMA TargetAgrees ==
  ASSUME Shape, Settled, handle.pc = "Header"
  PROVE  /\ Common(file, disk, handle.target) /\ handle.target \in Nat
         /\ handle.op # "Truncate" => disk.nrec <= handle.target
         /\ handle.op \in {"Append", "Truncate"}
<1>1. handle.op \in {"Append", "Truncate"} /\ ~NewFile
  BY DEF Shape, CallShape, Fits, NewFile
<1>2. PICK f \in File, d \in File, n \in Nat, t \in Nat :
             f = file /\ d = disk /\ n = handle.nrec /\ t = handle.target
  BY Typed, Numbers
<1>3. n = f.nrec /\ d.nrec \in Nat /\ d.nrec <= f.nrec /\ Common(f, d, f.nrec)
  BY <1>1, <1>2, Headers
<1>4. CASE handle.op = "Append"
  <2>1. Common(f, d, t)
    BY <1>2, <1>4 DEF Settled, Agree
  <2>2. n <= t
    <3>1. t = n + Len(handle.todo)
      BY <1>2, <1>4 DEF Shape, CallShape
    <3>2. QED
      BY <3>1, Typed
  <2>3. QED
    BY <1>1, <1>2, <1>3, <2>1, <2>2
<1>5. CASE handle.op = "Truncate"
  <2>1. t <= n
    BY <1>2, <1>5 DEF Shape, CallShape
  <2>2. Common(f, d, t)
    BY <1>3, <2>1, CommonLess
  <2>3. QED
    BY <1>2, <1>5, <2>2
<1>6. QED
  BY <1>1, <1>4, <1>5

LEMMA SettledWritesNrec ==
  ASSUME Shape, Settled, WriteNrec
  PROVE  Settled'
<1>1. /\ handle.pc = "Header" /\ handle' = [handle EXCEPT !.pc = "HeaderWritten"]
      /\ disk' = disk /\ file' = [file EXCEPT !.nrec = handle.target]
  BY DEF WriteNrec
<1>2. PICK f \in File, d \in File, t \in 0..MaxRecs : f = file /\ d = disk /\ t = handle.target
  BY Typed
<1>3. PICK g : g = [f EXCEPT !.nrec = t]
  OBVIOUS
<1>4. g \in File /\ g.nrec = t /\ g.recs = f.recs
  BY <1>3, NrecPut
<1>5. /\ Common(f, d, t) /\ (handle.op # "Truncate" => d.nrec <= t)
      /\ Common(f, d, d.nrec) /\ ~handle.stale
  BY <1>1, <1>2, TargetAgrees, Headers DEF Shape, Fits
<1>6. Common(g, d, t) /\ Common(g, d, d.nrec)
  BY <1>4, <1>5 DEF Common
<1>7. /\ handle'.pc = "HeaderWritten" /\ handle'.op = handle.op /\ handle'.nrec = handle.nrec
      /\ handle'.todo = handle.todo /\ handle'.target = handle.target
  <2>1. "HeaderWritten" \in Steps
    BY DEF Steps
  <2>2. QED
    BY <1>1, <2>1, MovedIs
<1>8. ~handle'.stale
  <2>1. "HeaderWritten" \in Steps
    BY DEF Steps
  <2>2. QED
    BY <1>1, <1>5, <2>1, MovedIs
<1>9. file' = g /\ disk' = d
  BY <1>1, <1>2, <1>3
<1>10. handle.op = "Append" => \A i \in 1..Len(handle.todo) : g.recs[handle.nrec + i] = handle.todo[i]
  BY <1>1, <1>2, <1>4 DEF Settled
<1>11. QED
  BY <1>2, <1>4, <1>5, <1>6, <1>7, <1>8, <1>9, <1>10 DEF Settled, Agree, NewFile

LEMMA SettledSyncsNrec ==
  ASSUME Shape, Settled, SyncNrec
  PROVE  Settled'
<1>1. /\ handle.pc = "HeaderWritten" /\ file' = file /\ disk' = file
      /\ handle' = [Returned("Ok") EXCEPT !.nrec = handle.target]
  BY DEF SyncNrec
<1>2. PICK f \in File, d \in File : f = file /\ d = disk
  BY Typed
<1>3. f.nrec \in Nat /\ Common(f, d, f.nrec) /\ f.nrec = handle.target /\ ~handle.stale
  BY <1>1, <1>2, Headers DEF Settled, Shape, Fits
<1>4. Common(f, f, f.nrec)
  BY <1>3, CommonSelf
<1>5. handle'.pc = "Ready" /\ handle'.op = "None" /\ handle'.nrec = handle.target
  BY <1>1, ReadyAt
<1>6. ~handle'.stale
  BY <1>1, <1>3, ReadyAt
<1>7. QED
  BY <1>1, <1>2, <1>3, <1>4, <1>5, <1>6, SettledAtRest DEF Idle

(* A step that is cut off leaves headers that count whole records that are on *)
(* the disk.                                                                  *)
LEMMA CutOffSettles ==
  ASSUME Shape, Settled, NEW f \in CutOff
  PROVE  /\ Common(f, disk, f.nrec) /\ Common(f, disk, disk.nrec)
         /\ ~(handle.op = "Truncate" /\ AtHeader) => disk.nrec <= f.nrec
         /\ ~AtHeader => f.nrec = file.nrec
<1>1. PICK c \in File, d \in File : c = file /\ d = disk
  BY Typed
<1>2. /\ c.nrec \in Nat /\ d.nrec \in Nat /\ Common(c, d, c.nrec) /\ Common(c, d, d.nrec)
      /\ handle.pc # "HeaderWritten" => d.nrec <= c.nrec
  BY <1>1, Headers
<1>3. f \in File
  BY CutOffIs
<1>4. CASE handle.pc = "Creating"
  <2>1. f.nrec = 0 /\ c.nrec = 0 /\ d.nrec = 0
    BY <1>1, <1>4, Headers, CutOffIs DEF NewFile
  <2>2. QED
    BY <1>1, <1>3, <2>1, CommonZero
<1>5. CASE handle.pc = "Writing"
  <2>1. ~NewFile
    BY <1>5 DEF Shape, Fits, NewFile
  <2>2. /\ f.nrec = c.nrec /\ Len(c.recs) <= Len(f.recs)
        /\ \A p \in 1..handle.nrec : f.recs[p] = c.recs[p]
        /\ handle.nrec = c.nrec
    BY <1>1, <1>5, <2>1, CutOffIs, Headers
  <2>3. c.nrec <= Len(f.recs) /\ d.nrec <= c.nrec
    BY <1>2, <1>3, <1>5, <2>2, FileIs DEF Common
  <2>4. Common(f, d, c.nrec)
    BY <1>2, <1>3, <2>2, <2>3, CommonKept
  <2>5. Common(f, d, d.nrec)
    BY <1>2, <1>3, <2>3, <2>4, CommonLess
  <2>6. QED
    BY <1>1, <2>2, <2>3, <2>4, <2>5
<1>6. CASE handle.pc = "Header"
  <2>1. f.recs = c.recs /\ (f.nrec = c.nrec \/ f.nrec = handle.target)
    BY <1>1, <1>6, CutOffIs
  <2>2. Common(c, d, f.nrec)
    BY <1>1, <1>2, <1>6, <2>1, TargetAgrees
  <2>3. Common(f, d, f.nrec) /\ Common(f, d, d.nrec)
    BY <1>2, <2>1, <2>2 DEF Common
  <2>4. handle.op # "Truncate" => d.nrec <= f.nrec
    BY <1>1, <1>2, <1>6, <2>1, TargetAgrees
  <2>5. AtHeader
    BY <1>6 DEF AtHeader
  <2>6. QED
    BY <1>1, <2>3, <2>4, <2>5
<1>7. CASE handle.pc \notin {"Creating", "Writing", "Header"}
  <2>1. f = c
    BY <1>1, <1>7, CutOffCases
  <2>2. ~(handle.op = "Truncate" /\ AtHeader) => d.nrec <= c.nrec
    <3>1. CASE handle.pc = "HeaderWritten"
      BY <1>1, <3>1 DEF AtHeader, Settled
    <3>2. CASE handle.pc # "HeaderWritten"
      BY <1>2, <3>2
    <3>3. QED
      BY <3>1, <3>2
  <2>3. QED
    BY <1>1, <1>2, <2>1, <2>2
<1>8. QED
  BY <1>4, <1>5, <1>6, <1>7

LEMMA SettledFails ==
  ASSUME Shape, Settled, Fail, sound'
  PROVE  Settled'
<1>1. PICK f \in CutOff : file' = f
  BY DEF Fail
<1>2. PICK d \in File : d = disk /\ disk' = d
  BY Typed DEF Fail
<1>3. ~AtHeader /\ handle.pc \notin Idle
  BY DEF Fail
<1>4. /\ f \in File /\ Common(f, d, f.nrec) /\ Common(f, d, d.nrec)
      /\ d.nrec <= f.nrec /\ f.nrec = file.nrec
  BY <1>1, <1>2, <1>3, CutOffIs, CutOffSettles
<1>5. CASE handle.op = "Open"
  <2>1. handle' = Closed
    BY <1>5 DEF Fail
  <2>2. QED
    BY <1>1, <1>2, <1>4, <2>1, ClosedIs, SettledAtRest DEF Idle
<1>6. CASE handle.op # "Open"
  <2>1. handle' = Returned("Error")
    BY <1>6 DEF Fail
  <2>2. handle'.pc = "Ready" /\ handle'.op = "None" /\ handle'.nrec = handle.nrec
    BY <2>1, ReturnedIs
  <2>3. handle'.stale => handle.stale
    BY <2>1, ReturnedIs
  <2>4. handle.nrec = file.nrec /\ (handle.stale => file.nrec = 0)
    <3>1. handle.pc \in {"Creating", "Created", "Writing", "Written"}
      BY <1>3, Typed DEF AtHeader, Idle, Steps
    <3>2. QED
      BY <3>1, Headers DEF NewFile
  <2>5. QED
    BY <1>1, <1>2, <1>4, <2>2, <2>3, <2>4, SettledAtRest DEF Idle
<1>7. QED
  BY <1>5, <1>6

LEMMA SettledKilled ==
  ASSUME Shape, Settled, Kill, sound'
  PROVE  Settled'
<1>1. PICK f \in CutOff : file' = f
  BY DEF Kill
<1>2. PICK d \in File : d = disk /\ disk' = d
  BY Typed DEF Kill
<1>3. ~(handle.op = "Truncate" /\ AtHeader) /\ handle' = Closed
  BY DEF Kill
<1>4. /\ f \in File /\ Common(f, d, f.nrec) /\ Common(f, d, d.nrec) /\ d.nrec <= f.nrec
  BY <1>1, <1>2, <1>3, CutOffIs, CutOffSettles
<1>5. QED
  BY <1>1, <1>2, <1>3, <1>4, ClosedIs, SettledAtRest DEF Idle

(* What a power loss leaves is found whole: it is what one of the two files   *)
(* counted.                                                                   *)
LEMMA LeftSettles ==
  ASSUME NEW d \in File, NEW f \in File, NEW g \in Left(d, f),
         Common(f, d, f.nrec), Common(f, d, d.nrec),
         f.kind # "Ours" => f.nrec = 0, d.kind # "Ours" => d.nrec = 0
  PROVE  /\ g \in File /\ Common(g, g, g.nrec)
         /\ \E h \in {d, f} : g.kind = h.kind /\ g.nrec = h.nrec
         /\ g.kind # "Ours" => g.nrec = 0
         /\ \A p \in 1..g.nrec : g.recs[p] = f.recs[p]
<1>1. d.nrec \in Nat /\ f.nrec \in Nat
  BY FileIs
<1>2. PICK h \in {d, f} : g.kind = h.kind /\ g.nrec = h.nrec
  <2>1. PICK h \in {d, f}, recs \in RecsLeft(d.recs, f.recs) :
               g = [h EXCEPT !.recs = IF h.kind = "Ours" THEN recs ELSE <<>>]
    BY DEF Left
  <2>2. h \in File
    BY <2>1
  <2>3. g.kind = h.kind /\ g.nrec = h.nrec
    BY <2>1, <2>2 DEF File
  <2>4. QED
    BY <2>1, <2>3
<1>3. PICK m \in Nat : m = h.nrec /\ Common(f, d, m)
  BY <1>1, <1>2
<1>4. m <= Len(d.recs) /\ m <= Len(f.recs) /\ \A p \in 1..m : d.recs[p] = f.recs[p]
  BY <1>3 DEF Common
<1>5. /\ g \in File
      /\ g.kind = "Ours" => m <= Len(g.recs) /\ \A p \in 1..m : g.recs[p] = f.recs[p]
  BY <1>4, LeftIs
<1>6. \E k \in {d, f} : g.kind = k.kind /\ g.nrec = k.nrec
  BY <1>2
<1>7. g.kind # "Ours" => g.nrec = 0
  BY <1>2
<1>8. CASE g.kind = "Ours"
  <2>1. g.nrec = m /\ m <= Len(g.recs) /\ \A p \in 1..m : g.recs[p] = f.recs[p]
    BY <1>2, <1>3, <1>5, <1>8
  <2>2. \A p \in 1..m : f.recs[p] \in Records
    BY <1>3 DEF Common
  <2>3. Common(g, g, m)
    BY <2>1, <2>2 DEF Common
  <2>4. QED
    BY <1>5, <1>6, <1>7, <2>1, <2>3
<1>9. CASE g.kind # "Ours"
  <2>1. g.nrec = 0 /\ Common(g, g, 0)
    BY <1>5, <1>7, <1>9, CommonZero
  <2>2. \A p \in 1..g.nrec : g.recs[p] = f.recs[p]
    BY <2>1
  <2>3. Common(g, g, g.nrec)
    BY <2>1
  <2>4. QED
    BY <1>5, <1>6, <1>7, <2>2, <2>3, Zenon
<1>10. QED
  BY <1>8, <1>9

LEMMA SettledLosesPower ==
  ASSUME Shape, Settled, PowerLoss
  PROVE  Settled'
<1>1. PICK f \in CutOff : file' \in Left(disk, f)
  BY DEF PowerLoss
<1>2. PICK d \in File : d = disk /\ (d.kind # "Ours" => d.nrec = 0)
  BY Typed, ShapeOfFiles
<1>3. PICK g \in Left(d, f) : g = file'
  BY <1>1, <1>2
<1>4. /\ f \in File /\ (f.kind # "Ours" => f.nrec = 0)
      /\ Common(f, d, f.nrec) /\ Common(f, d, d.nrec)
  BY <1>1, <1>2, CutOffIs, CutOffSettles
<1>5. g \in File /\ Common(g, g, g.nrec)
  BY <1>2, <1>3, <1>4, LeftSettles
<1>6. g.nrec \in Nat
  BY <1>5, FileIs
<1>7. file' = g /\ disk' = g /\ handle' = Closed
  BY <1>3 DEF PowerLoss
<1>8. QED
  BY <1>5, <1>6, <1>7, ClosedIs, SettledAtRest DEF Idle

LEMMA SettledStep ==
  ASSUME Shape, sound => Settled, [Next]_vars
  PROVE  sound' => Settled'
<1> SUFFICES ASSUME sound' PROVE Settled'
  OBVIOUS
<1>1. CASE LoadCutShort
  BY <1>1 DEF LoadCutShort
<1>2. CASE UNCHANGED vars
  BY <1>2 DEF vars, Settled, Agree, NewFile
<1>3. ASSUME ~LoadCutShort, Next
      PROVE  Settled'
  <2>1. sound
    BY <1>3 DEF Next, Open, Load, Close, AppendTail, Truncate, Create, SyncCreated, WriteRecs,
       SyncRecs, WriteNrec, SyncNrec, Fail, PowerLoss, Kill
  <2>2. Settled
    BY <2>1
  <2>3. QED
    BY <1>3, <2>2, SettledOpens, SettledLoads, SettledCloses, SettledCalls, SettledCreates,
       SettledSyncsCreated, SettledWritesRecs, SettledSyncsRecs, SettledWritesNrec,
       SettledSyncsNrec, SettledFails, SettledKilled, SettledLosesPower DEF Next
<1>4. QED
  BY <1>1, <1>2, <1>3
-----------------------------------------------------------------------------
LEMMA SettledInit == Init => Settled
<1> SUFFICES ASSUME Init PROVE Settled
  OBVIOUS
<1>1. PICK f \in File : f = file /\ f.nrec = 0 /\ disk = f
  BY NoRecsIs DEF Init
<1>2. Common(f, f, 0) /\ handle = Closed
  BY <1>1, CommonZero DEF Init
<1>3. QED
  BY <1>1, <1>2, ClosedIs DEF Settled, Agree, NewFile

(* The handle's call fits the file it writes, and while no header was left    *)
(* half written all that a header counts is on the disk.                      *)
THEOREM Invariant == Spec => []IInv
<1>1. Init => IInv
  BY ShapeInit, SettledInit DEF IInv
<1>2. IInv /\ [Next]_vars => IInv'
  BY ShapeStep, SettledStep DEF IInv
<1>3. QED
  BY <1>1, <1>2, PTL DEF Spec

(* File, disk and handle keep their types. *)
THEOREM TypeCorrect == Spec => []TypeOK
<1>1. IInv => TypeOK
  BY DEF IInv, Shape
<1>2. QED
  BY <1>1, Invariant, PTL

(* append overwrites nothing that a header counts: the bytes a power loss     *)
(* could bring back are never under the write.                                *)
THEOREM AppendsAreSafe == Spec => []AppendsPastHeader
<1>1. IInv => AppendsPastHeader
  <2> SUFFICES ASSUME Shape, Settled, handle.pc \in {"Writing", "Written"}, NEW f \in {file, disk}
               PROVE  Len(Found(f)) <= handle.nrec
    BY DEF IInv, AppendsPastHeader
  <2>1. ~NewFile
    BY DEF Shape, Fits, NewFile
  <2>2. handle.nrec = file.nrec /\ disk.nrec <= file.nrec /\ file.nrec \in Nat
    BY <2>1, Headers
  <2>3. Len(Found(file)) = file.nrec /\ Len(Found(disk)) = disk.nrec
    BY FoundHere
  <2>4. QED
    BY <2>2, <2>3
<1>2. QED
  BY <1>1, Invariant, PTL

(* Between two calls disk_nrec_ is what an open would find, so the tail that  *)
(* append works out from it is the records that are missing.                  *)
THEOREM NrecFresh == Spec => []NrecIsFresh
<1>1. IInv => NrecIsFresh
  <2> SUFFICES ASSUME Shape, Settled, handle.pc = "Ready"
               PROVE  handle.nrec = IF handle.stale THEN 0 ELSE Len(Found(file))
    BY DEF IInv, NrecIsFresh
  <2>1. CASE handle.stale
    BY <2>1, Headers DEF NewFile
  <2>2. CASE ~handle.stale
    BY <2>2, Headers, FoundHere DEF NewFile
  <2>3. QED
    BY <2>1, <2>2
<1>2. QED
  BY <1>1, Invariant, PTL
-----------------------------------------------------------------------------
(* The file is the log CrashSafeLog promises.  First, sequences.              *)

LEMMA FirstOfFirst ==
  ASSUME NEW S, NEW s, NEW n \in Nat, NEW m \in Nat, m <= n, \A i \in 1..n : s[i] \in S
  PROVE  SubSeq(SubSeq(s, 1, n), 1, m) = SubSeq(s, 1, m)
<1>1. \A p \in 1..n : SubSeq(s, 1, n)[p] = s[p]
  BY FirstOf
<1>2. PICK t : t = SubSeq(s, 1, n)
  OBVIOUS
<1>3. \A p \in 1..m : t[p] = s[p]
  BY <1>1, <1>2
<1>4. SubSeq(t, 1, m) = SubSeq(s, 1, m)
  BY <1>3, SameFirst
<1>5. QED
  BY <1>2, <1>4

LEMMA Joined ==
  ASSUME NEW S, NEW s, NEW n \in Nat, NEW w \in Seq(S),
         \A i \in 1..n : s[i] \in S, \A i \in 1..Len(w) : s[n + i] = w[i]
  PROVE  SubSeq(s, 1, n) \o w = SubSeq(s, 1, n + Len(w))
<1>1. PICK a : a = SubSeq(s, 1, n)
  OBVIOUS
<1>2. a \in Seq(S) /\ Len(a) = n /\ \A p \in 1..n : a[p] = s[p]
  BY <1>1, FirstOf
<1>3. /\ a \o w \in Seq(S) /\ Len(a \o w) = n + Len(w)
      /\ \A i \in 1..n + Len(w) : (a \o w)[i] = IF i <= n THEN a[i] ELSE w[i - n]
  BY <1>2, ConcatProperties
<1>4. Len(w) \in Nat /\ \A i \in 1..Len(w) : w[i] \in S
  BY LenProperties, ElementOfSeq
<1>5. ASSUME NEW i \in 1..n + Len(w)
      PROVE  s[i] \in S /\ (a \o w)[i] = s[i]
  <2>1. CASE i <= n
    BY <1>2, <1>3, <2>1
  <2>2. CASE ~(i <= n)
    <3>1. PICK k \in 1..Len(w) : k = i - n /\ n + k = i
      BY <1>4, <2>2
    <3>2. s[i] = w[k] /\ w[k] \in S
      BY <1>4, <3>1
    <3>3. (a \o w)[i] = w[k]
      BY <1>3, <2>2, <3>1
    <3>4. QED
      BY <3>2, <3>3
  <2>3. QED
    BY <2>1, <2>2
<1>6. PICK b : b = SubSeq(s, 1, n + Len(w))
  OBVIOUS
<1>7. b \in Seq(S) /\ Len(b) = n + Len(w) /\ \A p \in 1..n + Len(w) : b[p] = s[p]
  <2>1. n + Len(w) \in Nat
    BY <1>4
  <2>2. QED
    BY <1>5, <1>6, <2>1, FirstOf
<1>8. PICK c : c = a \o w
  OBVIOUS
<1>9. c = b
  <2>1. c \in Seq(S) /\ Len(c) = Len(b) /\ \A i \in 1..Len(c) : c[i] = b[i]
    BY <1>3, <1>5, <1>7, <1>8
  <2>2. QED
    BY <1>7, <2>1, SeqEqual
<1>10. QED
  BY <1>1, <1>6, <1>8, <1>9

(* What the two headers find, in the records of the kernel's file.            *)
LEMMA Logs ==
  ASSUME Shape, Settled
  PROVE  /\ Found(file) = SubSeq(file.recs, 1, file.nrec) /\ Len(Found(file)) = file.nrec
         /\ Found(disk) = SubSeq(file.recs, 1, disk.nrec)
         /\ Found(file) \in Seq(Records)
         /\ \A i \in 1..file.nrec : file.recs[i] \in Records
<1>1. PICK f \in File, d \in File : f = file /\ d = disk
  BY Typed
<1>2. f.nrec \in Nat /\ d.nrec \in Nat /\ Common(f, d, f.nrec) /\ Common(f, d, d.nrec)
  BY <1>1, Headers
<1>3. \A i \in 1..f.nrec : f.recs[i] \in Records
  BY <1>2 DEF Common
<1>4. SubSeq(f.recs, 1, f.nrec) \in Seq(Records)
  BY <1>2, <1>3, FirstOf
<1>5. SubSeq(d.recs, 1, d.nrec) = SubSeq(f.recs, 1, d.nrec)
  <2>1. \A i \in 1..d.nrec : d.recs[i] = f.recs[i]
    BY <1>2 DEF Common
  <2>2. QED
    BY <1>2, <2>1, SameFirst
<1>6. QED
  BY <1>1, <1>3, <1>4, <1>5, FoundHere

LEMMA WantedOf ==
  /\ handle.op = "Append" => Wanted = SubSeq(Found(file), 1, handle.nrec) \o handle.todo
  /\ handle.op = "Truncate" => Wanted = SubSeq(Found(file), 1, handle.target)
  /\ handle.op \notin {"Append", "Truncate"} => Wanted = Found(file)
BY DEF Wanted

(* A header that counts the target finds what the call wants.                 *)
LEMMA TargetIsWanted ==
  ASSUME Shape, Settled, AtHeader
  PROVE  Wanted = SubSeq(file.recs, 1, handle.target)
<1>1. PICK n \in Nat, t \in Nat, m \in Nat, recs \in {file.recs} :
             n = handle.nrec /\ t = handle.target /\ m = file.nrec /\ recs = file.recs
  BY Typed, Numbers, Headers
<1>2. /\ ~NewFile /\ handle.op \in {"Append", "Truncate"}
      /\ handle.op = "Append" => t = n + Len(handle.todo)
      /\ handle.op = "Truncate" => t <= n
  BY <1>1 DEF AtHeader, Shape, CallShape, Fits, NewFile
<1>3. (handle.pc = "Header" /\ m = n) \/ m = t
  BY <1>1, <1>2, Headers DEF AtHeader, Settled
<1>4. Found(file) = SubSeq(recs, 1, m) /\ \A i \in 1..m : recs[i] \in Records
  BY <1>1, Logs
<1>5. CASE handle.op = "Append"
  <2>1. PICK todo \in Seq(Records) : todo = handle.todo
    BY Typed
  <2>2. t = n + Len(todo) /\ Len(todo) \in Nat
    BY <1>2, <1>5, <2>1, Typed
  <2>3. n <= m
    BY <1>3, <2>2
  <2>4. SubSeq(Found(file), 1, n) = SubSeq(recs, 1, n)
    BY <1>4, <2>3, FirstOfFirst
  <2>5. \A i \in 1..Len(todo) : recs[n + i] = todo[i]
    BY <1>1, <1>5, <2>1 DEF AtHeader, Settled
  <2>6. \A i \in 1..n : recs[i] \in Records
    BY <1>4, <2>3
  <2>7. SubSeq(recs, 1, n) \o todo = SubSeq(recs, 1, n + Len(todo))
    BY <2>5, <2>6, Joined
  <2>8. QED
    BY <1>1, <1>5, <2>1, <2>2, <2>4, <2>7, WantedOf
<1>6. CASE handle.op = "Truncate"
  <2>1. t <= m
    BY <1>2, <1>3, <1>6
  <2>2. SubSeq(Found(file), 1, t) = SubSeq(recs, 1, t)
    BY <1>4, <2>1, FirstOfFirst
  <2>3. QED
    BY <1>1, <1>6, <2>2, WantedOf
<1>7. QED
  BY <1>2, <1>5, <1>6

(* A step that is cut off leaves the log as it was or as it was wanted.       *)
LEMMA CutOffFound ==
  ASSUME Shape, Settled, NEW f \in CutOff
  PROVE  /\ Found(f) = SubSeq(f.recs, 1, f.nrec) /\ Found(f) \in {Found(file), Wanted}
         /\ ~AtHeader => Found(f) = Found(file)
<1>1. PICK c \in File, d \in File : c = file /\ d = disk
  BY Typed
<1>2. /\ f \in File /\ (f.kind # "Ours" => f.nrec = 0) /\ f.nrec <= Len(f.recs)
      /\ f.nrec \in Nat
  BY <1>1, CutOffIs, CutOffSettles, FileIs DEF Common
<1>3. Found(f) = SubSeq(f.recs, 1, f.nrec)
  BY <1>2, FoundIs
<1>4. Found(file) = SubSeq(c.recs, 1, c.nrec) /\ c.nrec \in Nat
  BY <1>1, Logs, Headers
<1>5. CASE handle.pc = "Creating"
  <2>1. f.nrec = 0 /\ c.nrec = 0
    BY <1>1, <1>5, Headers, CutOffIs DEF NewFile
  <2>2. SubSeq(f.recs, 1, 0) = <<>> /\ SubSeq(c.recs, 1, 0) = <<>>
    BY SubSeqEmpty
  <2>3. QED
    BY <1>3, <1>4, <2>1, <2>2
<1>6. CASE handle.pc = "Writing"
  <2>1. ~NewFile
    BY <1>6 DEF Shape, Fits, NewFile
  <2>2. f.nrec = c.nrec /\ \A p \in 1..c.nrec : f.recs[p] = c.recs[p]
    BY <1>1, <1>6, <2>1, CutOffIs, Headers
  <2>3. SubSeq(f.recs, 1, c.nrec) = SubSeq(c.recs, 1, c.nrec)
    BY <1>4, <2>2, SameFirst
  <2>4. QED
    BY <1>3, <1>4, <2>2, <2>3
<1>7. CASE handle.pc = "Header"
  <2>1. f.recs = c.recs /\ (f.nrec = c.nrec \/ f.nrec = handle.target) /\ AtHeader
    BY <1>1, <1>7, CutOffIs DEF AtHeader
  <2>2. Wanted = SubSeq(c.recs, 1, handle.target)
    BY <1>1, <2>1, TargetIsWanted
  <2>3. QED
    BY <1>3, <1>4, <2>1, <2>2
<1>8. CASE handle.pc \notin {"Creating", "Writing", "Header"}
  <2>1. f = c
    BY <1>1, <1>8, CutOffCases
  <2>2. QED
    BY <1>1, <1>3, <2>1
<1>9. QED
  BY <1>5, <1>6, <1>7, <1>8

(* The same of the next state. *)
LEMMA WantedNext ==
  /\ handle'.op = "Append" => Wanted' = SubSeq(Found(file'), 1, handle'.nrec) \o handle'.todo
  /\ handle'.op = "Truncate" => Wanted' = SubSeq(Found(file'), 1, handle'.target)
  /\ handle'.op \notin {"Append", "Truncate"} => Wanted' = Found(file')
BY DEF Wanted

(* The answer that the caller has. *)
Reply == IF handle.op \in {"Append", "Truncate"} THEN "Pending" ELSE handle.result
LogStep == [Promised!LogNext]_(Promised!logVars)

LEMMA Stutters ==
  ASSUME Found(file') = Found(file), Found(disk') = Found(disk), Wanted' = Wanted,
         Reply' = Reply, sound' = sound
  PROVE  LogStep
BY DEF LogStep, Promised!logVars, Reply

LEMMA Calls ==
  ASSUME sound, sound' = sound, Found(file') = Found(file), Found(disk') = Found(disk),
         Reply # "Pending", Reply' = "Pending", Wanted' \in Seq(Records),
         NEW kept \in Nat, Len(Found(file)) \in Nat, Len(Wanted') \in Nat,
         kept = Len(Found(file)) \/ kept = Len(Wanted'),
         kept <= Len(Found(file)), kept <= Len(Wanted'),
         SubSeq(Wanted', 1, kept) = SubSeq(Found(file), 1, kept)
  PROVE  LogStep
<1>1. Promised!Least(Len(Found(file)), Len(Wanted')) = kept
  BY DEF Promised!Least
<1>2. Promised!Call
  BY <1>1 DEF Promised!Call, Reply
<1>3. QED
  BY <1>2 DEF LogStep, Promised!LogNext

LEMMA Answers ==
  ASSUME sound, sound' = sound, Found(file') = Found(file),
         NEW what \in {"Ok", "Error", "None"}, Reply' = what,
         what = "Ok" => Found(file) = Wanted /\ Found(disk') = Found(file),
         Found(disk') \in {Found(file), Found(disk)}, Wanted' = Found(file)
  PROVE  LogStep
<1>1. Promised!Answer(what)
  BY DEF Promised!Answer, Reply
<1>2. QED
  BY <1>1 DEF LogStep, Promised!LogNext

LEMMA Dies ==
  ASSUME sound, sound' = sound, Reply' = "None", Wanted' = Found(file'),
         \/ Found(file') \in {Found(file), Wanted} /\ Found(disk') = Found(disk)
         \/ Found(file') \in {Found(file), Found(disk), Wanted} /\ Found(disk') = Found(file')
  PROVE  LogStep
<1>1. Promised!Die
  BY DEF Promised!Die, Promised!Killed, Promised!PowerLost, Reply
<1>2. QED
  BY <1>1 DEF LogStep, Promised!LogNext

LEMMA LogOpens ==
  ASSUME Shape, Settled, sound, Open \/ Load
  PROVE  LogStep
<1>1. /\ file' = file /\ disk' = disk /\ sound' = sound
      /\ handle.pc \in {"Closed", "Ready"} /\ handle.op = "None"
  BY DEF Open, Load, Shape, CallShape, Idle
<1>2. handle'.op \in {"None", "Open"} /\ handle'.result = handle.result
  <2>1. CASE Open
    <3>1. handle.result = "None" /\ file.kind \in {"Missing", "Foreign", "Ours"}
      BY <2>1, Typed, FileIs DEF Open, Shape, CallShape
    <3>2. CASE file.kind = "Missing"
      <4>1. handle' = [Closed EXCEPT !.pc = "Creating", !.op = "Open"]
        BY <2>1, <3>2 DEF Open
      <4>2. handle'.op = "Open" /\ handle'.result = "None"
        BY <4>1, ClosedIs DEF Handle
      <4>3. QED
        BY <3>1, <4>2
    <3>3. CASE file.kind = "Foreign"
      <4>1. handle' = Opened(TRUE, 0)
        BY <2>1, <3>3 DEF Open
      <4>2. QED
        BY <3>1, <4>1, OpenedStale
    <3>4. CASE file.kind = "Ours"
      <4>1. PICK n \in 0..MaxRecs : n = Len(Found(file))
        BY FoundHere, Headers, Numbers
      <4>2. handle' = Opened(FALSE, n)
        BY <2>1, <3>4, <4>1 DEF Open
      <4>3. QED
        BY <3>1, <4>1, <4>2, OpenedFresh
    <3>5. QED
      BY <3>1, <3>2, <3>3, <3>4
  <2>2. CASE Load
    <3>1. PICK n \in 0..MaxRecs : n = Len(Found(file))
      BY FoundHere, Headers, Numbers
    <3>2. handle' = [handle EXCEPT !.nrec = n]
      BY <2>2, <3>1 DEF Load
    <3>3. handle'.op = handle.op /\ handle'.result = handle.result
      BY <3>1, <3>2, Loaded
    <3>4. QED
      BY <1>1, <3>3
  <2>3. QED
    BY <2>1, <2>2
<1>3. Wanted = Found(file) /\ Wanted' = Found(file')
  BY <1>1, <1>2, WantedOf, WantedNext
<1>4. Reply' = Reply
  BY <1>1, <1>2 DEF Reply
<1>5. QED
  BY <1>1, <1>3, <1>4, Stutters

LEMMA LogCloses ==
  ASSUME Shape, Settled, sound, Close
  PROVE  LogStep
<1>1. /\ file' = file /\ disk' = disk /\ sound' = sound
      /\ handle' = Closed
  BY DEF Close
<1>2. handle'.op = "None" /\ handle'.result = "None"
  BY <1>1, ClosedIs
<1>3. Wanted' = Found(file') /\ Reply' = "None"
  BY <1>2, WantedNext DEF Reply
<1>4. QED
  BY <1>1, <1>3, Answers

LEMMA LogCalls ==
  ASSUME Shape, Settled, sound, (\E hist \in SeqsUpTo(Records, MaxRecs) : AppendTail(hist))
                                \/ \E n \in 0..MaxRecs : Truncate(n)
  PROVE  LogStep
<1>1. PICK log \in Seq(Records) : log = Found(file) /\ Len(log) = file.nrec
  BY Logs
<1>2. Len(log) \in Nat
  BY <1>1, Headers
<1>3. handle.pc = "Ready" => handle.nrec = Len(log) /\ Reply # "Pending"
  <2>1. handle.pc = "Ready" => handle.nrec = Len(log)
    BY <1>1, Headers DEF NewFile
  <2>2. handle.pc = "Ready" => handle.op = "None"
    BY DEF Shape, CallShape, Idle
  <2>3. handle.result \in {"None", "Ok", "Error"}
    BY Typed DEF Handle
  <2>4. QED
    BY <2>1, <2>2, <2>3 DEF Reply
<1>4. SubSeq(log, 1, Len(log)) = log /\ \A i \in 1..Len(log) : log[i] \in Records
  BY SubSeqFull, ElementOfSeq
<1>5. CASE \E hist \in SeqsUpTo(Records, MaxRecs) : AppendTail(hist)
  <2>1. PICK hist \in SeqsUpTo(Records, MaxRecs) : AppendTail(hist)
    BY <1>5
  <2>2. /\ handle.pc = "Ready" /\ file' = file /\ disk' = disk /\ sound' = sound
        /\ handle'.op = "Append" /\ handle'.nrec = handle.nrec /\ handle' \in Handle
    BY <2>1, AppendDoes
  <2>3. PICK todo \in Seq(Records) : todo = handle'.todo
    <3>1. handle'.todo \in SeqsUpTo(Records, MaxRecs)
      BY <2>2 DEF Handle
    <3>2. QED
      BY <3>1, Numbers, SeqsUpToIs
  <2>4. PICK w : w = log \o todo
    OBVIOUS
  <2>5. Wanted' = w
    BY <1>1, <1>3, <1>4, <2>2, <2>3, <2>4, WantedNext
  <2>6. /\ w \in Seq(Records) /\ Len(w) = Len(log) + Len(todo) /\ Len(todo) \in Nat
        /\ \A i \in 1..Len(log) : w[i] = log[i]
    <3>1. /\ w \in Seq(Records) /\ Len(w) = Len(log) + Len(todo)
          /\ \A i \in 1..Len(log) + Len(todo) : w[i] = IF i <= Len(log) THEN log[i] ELSE todo[i - Len(log)]
      BY <2>4, ConcatProperties
    <3>2. Len(todo) \in Nat
      BY LenProperties
    <3>3. \A i \in 1..Len(log) : i \in 1..Len(log) + Len(todo) /\ i <= Len(log)
      BY <1>2, <3>2
    <3>4. QED
      BY <3>1, <3>2, <3>3
  <2>7. SubSeq(w, 1, Len(log)) = SubSeq(log, 1, Len(log))
    BY <1>2, <2>6, SameFirst
  <2>8. Len(w) \in Nat /\ Len(log) <= Len(w)
    BY <1>2, <2>6
  <2>9. Reply' = "Pending"
    BY <2>2 DEF Reply
  <2>10. QED
    BY <1>1, <1>2, <1>3, <2>2, <2>5, <2>6, <2>7, <2>8, <2>9, Calls
<1>6. CASE \E n \in 0..MaxRecs : Truncate(n)
  <2>1. PICK n \in 0..MaxRecs : Truncate(n)
    BY <1>6
  <2>2. /\ handle.pc = "Ready" /\ file' = file /\ disk' = disk /\ sound' = sound
        /\ handle'.op = "Truncate" /\ handle'.target = n /\ n <= handle.nrec
    BY <2>1, TruncateDoes
  <2>3. n \in Nat /\ n <= Len(log)
    BY <1>3, <2>2, Numbers
  <2>4. PICK w : w = SubSeq(log, 1, n)
    OBVIOUS
  <2>5. Wanted' = w
    BY <1>1, <2>2, <2>4, WantedNext
  <2>6. w \in Seq(Records) /\ Len(w) = n
    <3>1. \A i \in 1..n : log[i] \in Records
      BY <1>2, <1>4, <2>3
    <3>2. QED
      BY <2>3, <2>4, <3>1, FirstOf
  <2>7. SubSeq(w, 1, n) = SubSeq(log, 1, n)
    BY <2>4, <2>6, SubSeqFull
  <2>8. Reply' = "Pending"
    BY <2>2 DEF Reply
  <2>9. QED
    BY <1>1, <1>2, <1>3, <2>2, <2>3, <2>5, <2>6, <2>7, <2>8, Calls
<1>7. QED
  BY <1>5, <1>6

(* A file that counts nothing. *)
LEMMA NothingFound ==
  ASSUME Shape, Settled, NewFile
  PROVE  Found(file) = <<>> /\ Found(disk) = <<>>
<1>1. file.nrec = 0 /\ disk.nrec = 0
  BY Headers
<1>2. SubSeq(file.recs, 1, 0) = <<>>
  BY SubSeqEmpty
<1>3. QED
  BY <1>1, <1>2, Logs

LEMMA LogCreates ==
  ASSUME Shape, Settled, sound, Create
  PROVE  LogStep
<1>1. /\ handle.pc = "Creating" /\ handle' = [handle EXCEPT !.pc = "Created"]
      /\ disk' = disk /\ file' = NoRecs("Ours") /\ sound' = sound
  BY DEF Create
<1>2. Found(file) = <<>>
  BY <1>1, NothingFound DEF NewFile
<1>3. PICK f \in File : f = file' /\ f.kind = "Ours" /\ f.nrec = 0 /\ Len(f.recs) = 0
  BY <1>1, NoRecsIs
<1>4. Found(f) = <<>>
  <2>1. Found(f) = SubSeq(f.recs, 1, 0)
    BY <1>3, FoundIs
  <2>2. QED
    BY <2>1, SubSeqEmpty
<1>5. /\ handle'.op = handle.op /\ handle'.todo = handle.todo /\ handle'.nrec = handle.nrec
      /\ handle'.target = handle.target /\ handle'.result = handle.result
  <2>1. "Created" \in Steps
    BY DEF Steps
  <2>2. QED
    BY <1>1, <2>1, MovedIs
<1>6. Found(file') = Found(file)
  BY <1>2, <1>3, <1>4
<1>7. Wanted' = Wanted
  BY <1>5, <1>6, WantedOf, WantedNext
<1>8. Reply' = Reply
  BY <1>5 DEF Reply
<1>9. QED
  BY <1>1, <1>6, <1>7, <1>8, Stutters

LEMMA LogSyncsCreated ==
  ASSUME Shape, Settled, sound, SyncCreated
  PROVE  LogStep
<1>1. handle.pc = "Created" /\ file' = file /\ disk' = file /\ sound' = sound
  BY DEF SyncCreated
<1>2. Found(file) = <<>> /\ Found(disk) = <<>>
  BY <1>1, NothingFound DEF NewFile
<1>3. handle.nrec = 0 /\ handle.op \in {"Open", "Append", "Truncate"} /\ handle.result = "None"
  BY <1>1, Typed DEF Shape, CallShape, Fits, NewFile, Idle, Handle
<1>4. CASE handle.op = "Open"
  <2>1. handle' = Opened(FALSE, 0)
    BY <1>4 DEF SyncCreated
  <2>2. handle'.op = "None" /\ handle'.result = "None"
    BY <2>1, Numbers, OpenedFresh
  <2>3. Wanted = Found(file) /\ Wanted' = Found(file') /\ Reply' = Reply
    BY <1>3, <1>4, <2>2, WantedOf, WantedNext DEF Reply
  <2>4. QED
    BY <1>1, <1>2, <2>3, Stutters
<1>5. CASE handle.op = "Append"
  <2>1. handle' = [handle EXCEPT !.pc = "Writing", !.stale = FALSE]
    BY <1>5 DEF SyncCreated
  <2>2. handle'.op = handle.op /\ handle'.nrec = handle.nrec /\ handle'.todo = handle.todo
    BY <2>1, NowWritingIs
  <2>3. Wanted' = Wanted /\ Reply' = Reply
    BY <1>1, <1>5, <2>2, WantedOf, WantedNext DEF Reply
  <2>4. QED
    BY <1>1, <1>2, <2>3, Stutters
<1>6. CASE handle.op = "Truncate"
  <2>1. handle' = [Returned("Ok") EXCEPT !.stale = FALSE]
    BY <1>6 DEF SyncCreated
  <2>2. handle'.op = "None" /\ handle'.result = "Ok"
    BY <2>1, ReadyFresh
  <2>3. Wanted' = Found(file') /\ Reply' = "Ok"
    BY <2>2, WantedNext DEF Reply
  <2>4. handle.target = 0
    BY <1>3, <1>6, Typed, Numbers DEF Shape, CallShape
  <2>5. Wanted = <<>>
    <3>1. Wanted = SubSeq(Found(file), 1, 0)
      BY <1>6, <2>4, WantedOf
    <3>2. QED
      BY <3>1, SubSeqEmpty
  <2>6. QED
    BY <1>1, <1>2, <2>3, <2>5, Answers
<1>7. QED
  BY <1>3, <1>4, <1>5, <1>6

LEMMA LogWritesRecs ==
  ASSUME Shape, Settled, sound, WriteRecs
  PROVE  LogStep
<1>1. /\ handle.pc = "Writing" /\ handle' = [handle EXCEPT !.pc = "Written"]
      /\ disk' = disk /\ file' = Overwritten(Len(handle.todo)) /\ sound' = sound
  BY DEF WriteRecs
<1>2. PICK f \in CutOff : f = file'
  <2>1. Len(handle.todo) \in 0..Len(handle.todo)
    BY Typed
  <2>2. QED
    BY <1>1, <2>1 DEF CutOff
<1>3. Found(file') = Found(file)
  BY <1>1, <1>2, CutOffFound DEF AtHeader
<1>4. /\ handle'.op = handle.op /\ handle'.todo = handle.todo /\ handle'.nrec = handle.nrec
      /\ handle'.target = handle.target /\ handle'.result = handle.result
  <2>1. "Written" \in Steps
    BY DEF Steps
  <2>2. QED
    BY <1>1, <2>1, MovedIs
<1>5. Wanted' = Wanted
  BY <1>3, <1>4, WantedOf, WantedNext
<1>6. Reply' = Reply
  BY <1>4 DEF Reply
<1>7. QED
  BY <1>1, <1>3, <1>5, <1>6, Stutters

LEMMA LogSyncsRecs ==
  ASSUME Shape, Settled, sound, SyncRecs
  PROVE  LogStep
<1>1. /\ handle.pc = "Written" /\ handle' = [handle EXCEPT !.pc = "Header"]
      /\ disk' = file /\ file' = file /\ sound' = sound
  BY DEF SyncRecs
<1>2. /\ handle'.op = handle.op /\ handle'.todo = handle.todo /\ handle'.nrec = handle.nrec
      /\ handle'.target = handle.target /\ handle'.result = handle.result
  <2>1. "Header" \in Steps
    BY DEF Steps
  <2>2. QED
    BY <1>1, <2>1, MovedIs
<1>3. Wanted' = Wanted /\ Reply' = Reply
  BY <1>1, <1>2, WantedOf, WantedNext DEF Reply
<1>4. Promised!Settle
  BY <1>1, <1>3 DEF Promised!Settle, Reply
<1>5. QED
  BY <1>4 DEF LogStep, Promised!LogNext

LEMMA LogWritesNrec ==
  ASSUME Shape, Settled, sound, WriteNrec
  PROVE  LogStep
<1>1. /\ handle.pc = "Header" /\ handle' = [handle EXCEPT !.pc = "HeaderWritten"]
      /\ disk' = disk /\ file' = [file EXCEPT !.nrec = handle.target] /\ sound' = sound
  BY DEF WriteNrec
<1>3. PICK f \in File, n \in 0..MaxRecs : f = file /\ n = handle.target
  BY Typed
<1>4. PICK g : g = [f EXCEPT !.nrec = n]
  OBVIOUS
<1>5. g \in File /\ g.kind = f.kind /\ g.nrec = n /\ g.recs = f.recs
  BY <1>4, NrecPut
<1>6. file' = g
  BY <1>1, <1>3, <1>4
<1>7. n \in Nat /\ n <= Len(g.recs) /\ \A i \in 1..n : f.recs[i] \in Records
  BY <1>1, <1>3, <1>5, TargetAgrees DEF Common
<1>8. f.kind = "Ours"
  BY <1>1, <1>3 DEF Shape, Fits
<1>9. Found(g) = SubSeq(f.recs, 1, n)
  BY <1>5, <1>7, <1>8, FoundIs
<1>10. Wanted = SubSeq(f.recs, 1, n)
  BY <1>1, <1>3, TargetIsWanted DEF AtHeader
<1>11. /\ handle'.op = handle.op /\ handle'.todo = handle.todo /\ handle'.nrec = handle.nrec
       /\ handle'.target = handle.target /\ handle'.result = handle.result
  <2>1. "HeaderWritten" \in Steps
    BY DEF Steps
  <2>2. QED
    BY <1>1, <2>1, MovedIs
<1>12. handle.op \in {"Append", "Truncate"}
  BY <1>1, TargetAgrees
<1>13. Wanted' = Wanted
  <2>1. CASE handle.op = "Append"
    <3>1. PICK k \in Nat, m \in Nat : k = handle.nrec /\ m = file.nrec
      BY Typed, Numbers, Headers
    <3>2. k = m /\ k <= n
      <4>1. ~NewFile
        BY <1>1 DEF Shape, Fits, NewFile
      <4>2. n = k + Len(handle.todo)
        BY <1>3, <2>1, <3>1 DEF Shape, CallShape
      <4>3. QED
        BY <1>1, <3>1, <4>1, <4>2, Headers, Typed
    <3>3. SubSeq(SubSeq(f.recs, 1, n), 1, k) = SubSeq(f.recs, 1, k)
      BY <1>7, <3>2, FirstOfFirst
    <3>4. SubSeq(Found(file), 1, k) = SubSeq(f.recs, 1, k)
      <4>1. Found(file) = SubSeq(f.recs, 1, m) /\ \A i \in 1..m : f.recs[i] \in Records
        BY <1>3, <3>1, Logs
      <4>2. QED
        BY <3>2, <4>1, FirstOfFirst
    <3>5. QED
      BY <1>6, <1>9, <1>11, <2>1, <3>1, <3>3, <3>4, WantedOf, WantedNext
  <2>2. CASE handle.op = "Truncate"
    <3>1. SubSeq(SubSeq(f.recs, 1, n), 1, n) = SubSeq(f.recs, 1, n)
      BY <1>7, FirstOfFirst
    <3>2. QED
      BY <1>3, <1>6, <1>9, <1>10, <1>11, <2>2, <3>1, WantedNext
  <2>3. QED
    BY <1>12, <2>1, <2>2
<1>14. Reply' = Reply
  BY <1>11 DEF Reply
<1>15. Promised!Change
  BY <1>1, <1>6, <1>9, <1>10, <1>13, <1>14 DEF Promised!Change, Reply
<1>16. QED
  BY <1>15 DEF LogStep, Promised!LogNext

LEMMA LogSyncsNrec ==
  ASSUME Shape, Settled, sound, SyncNrec
  PROVE  LogStep
<1>1. /\ handle.pc = "HeaderWritten" /\ file' = file /\ disk' = file /\ sound' = sound
      /\ handle' = [Returned("Ok") EXCEPT !.nrec = handle.target]
  BY DEF SyncNrec
<1>2. handle'.op = "None" /\ handle'.result = "Ok"
  BY <1>1, ReadyAt
<1>3. Wanted' = Found(file') /\ Reply' = "Ok"
  BY <1>2, WantedNext DEF Reply
<1>4. Wanted = Found(file)
  BY <1>1, TargetIsWanted, Logs DEF AtHeader, Settled
<1>5. QED
  BY <1>1, <1>3, <1>4, Answers

LEMMA LogFails ==
  ASSUME Shape, Settled, sound, Fail, sound'
  PROVE  LogStep
<1>1. PICK f \in CutOff : file' = f
  BY DEF Fail
<1>2. disk' = disk /\ ~AtHeader /\ sound' = sound
  BY DEF Fail
<1>3. Found(file') = Found(file)
  BY <1>1, <1>2, CutOffFound
<1>4. handle.pc \notin Idle /\ handle.op # "None"
  BY DEF Fail, Shape, CallShape
<1>5. CASE handle.op = "Open"
  <2>1. handle' = Closed /\ handle.result = "None"
    BY <1>4, <1>5 DEF Fail, Shape, CallShape
  <2>2. Wanted' = Found(file') /\ Wanted = Found(file) /\ Reply' = Reply
    BY <1>5, <2>1, ClosedIs, WantedOf, WantedNext DEF Reply
  <2>3. QED
    BY <1>2, <1>3, <2>2, Stutters
<1>6. CASE handle.op # "Open"
  <2>1. handle' = Returned("Error")
    BY <1>6 DEF Fail
  <2>2. handle'.op = "None" /\ handle'.result = "Error"
    BY <2>1, ReturnedIs
  <2>3. Wanted' = Found(file') /\ Reply' = "Error"
    BY <2>2, WantedNext DEF Reply
  <2>4. QED
    BY <1>2, <1>3, <2>3, Answers
<1>7. QED
  BY <1>5, <1>6

LEMMA LogKilled ==
  ASSUME Shape, Settled, sound, Kill, sound'
  PROVE  LogStep
<1>1. PICK f \in CutOff : file' = f
  BY DEF Kill
<1>2. disk' = disk /\ handle' = Closed /\ sound' = sound
  BY DEF Kill
<1>3. Found(file') \in {Found(file), Wanted}
  BY <1>1, CutOffFound
<1>4. Wanted' = Found(file') /\ Reply' = "None"
  BY <1>2, ClosedIs, WantedNext DEF Reply
<1>5. QED
  BY <1>2, <1>3, <1>4, Dies

LEMMA LogLosesPower ==
  ASSUME Shape, Settled, sound, PowerLoss
  PROVE  LogStep
<1>1. PICK f \in CutOff : file' \in Left(disk, f)
  BY DEF PowerLoss
<1>2. PICK d \in File : d = disk /\ (d.kind # "Ours" => d.nrec = 0)
  BY Typed, ShapeOfFiles
<1>3. PICK g \in Left(d, f) : g = file'
  BY <1>1, <1>2
<1>4. /\ f \in File /\ (f.kind # "Ours" => f.nrec = 0)
      /\ Common(f, d, f.nrec) /\ Common(f, d, d.nrec)
  BY <1>1, <1>2, CutOffIs, CutOffSettles
<1>5. /\ g \in File /\ Common(g, g, g.nrec)
      /\ \E h \in {d, f} : g.kind = h.kind /\ g.nrec = h.nrec
      /\ g.kind # "Ours" => g.nrec = 0
  BY <1>2, <1>3, <1>4, LeftSettles
<1>6. \A p \in 1..g.nrec : g.recs[p] = f.recs[p]
  BY <1>2, <1>3, <1>4, LeftSettles
<1>7. PICK n \in Nat : n = g.nrec /\ n <= Len(g.recs)
  BY <1>5, FileIs DEF Common
<1>8. Found(g) = SubSeq(f.recs, 1, n)
  <2>1. Found(g) = SubSeq(g.recs, 1, n)
    BY <1>5, <1>7, FoundIs
  <2>2. SubSeq(g.recs, 1, n) = SubSeq(f.recs, 1, n)
    BY <1>6, <1>7, SameFirst
  <2>3. QED
    BY <2>1, <2>2
<1>9. Found(f) = SubSeq(f.recs, 1, f.nrec) /\ Found(f) \in {Found(file), Wanted}
  BY <1>1, CutOffFound
<1>10. Found(disk) = SubSeq(f.recs, 1, d.nrec)
  <2>1. d.nrec \in Nat /\ \A p \in 1..d.nrec : d.recs[p] = f.recs[p]
    BY <1>4, FileIs DEF Common
  <2>2. SubSeq(d.recs, 1, d.nrec) = SubSeq(f.recs, 1, d.nrec)
    BY <2>1, SameFirst
  <2>3. QED
    BY <1>2, <2>2, FoundHere
<1>11. Found(g) \in {Found(file), Found(disk), Wanted}
  <2>1. n = d.nrec \/ n = f.nrec
    BY <1>5, <1>7
  <2>2. QED
    BY <1>8, <1>9, <1>10, <2>1
<1>12. file' = g /\ disk' = g /\ handle' = Closed /\ sound' = sound
  BY <1>3 DEF PowerLoss
<1>13. Wanted' = Found(file') /\ Reply' = "None"
  BY <1>12, ClosedIs, WantedNext DEF Reply
<1>14. QED
  BY <1>11, <1>12, <1>13, Dies

LEMMA LogSteps ==
  ASSUME IInv, [Next]_vars
  PROVE  LogStep
<1>1. CASE ~sound'
  BY <1>1, Typed, ShapeStep DEF IInv, LogStep, Promised!LogNext
<1>2. CASE UNCHANGED vars
  BY <1>2 DEF vars, LogStep, Promised!logVars, Wanted
<1>3. ASSUME sound', Next
      PROVE  LogStep
  <2>1. Shape /\ sound /\ ~LoadCutShort
    BY <1>3 DEF IInv, Next, Open, Load, LoadCutShort, Close, AppendTail, Truncate, Create,
       SyncCreated, WriteRecs, SyncRecs, WriteNrec, SyncNrec, Fail, PowerLoss, Kill
  <2>2. Settled
    BY <2>1 DEF IInv
  <2>3. QED
    BY <1>3, <2>1, <2>2, LogOpens, LogCloses, LogCalls, LogCreates, LogSyncsCreated,
       LogWritesRecs, LogSyncsRecs, LogWritesNrec, LogSyncsNrec, LogFails, LogKilled,
       LogLosesPower DEF Next
<1>4. QED
  BY <1>1, <1>2, <1>3

LEMMA LogInits == Init => Promised!LogInit
<1> SUFFICES ASSUME Init PROVE Promised!LogInit
  OBVIOUS
<1>1. file.kind # "Ours" /\ disk = file /\ handle = Closed /\ sound
  BY NoRecsIs DEF Init
<1>2. Found(file) = <<>> /\ <<>> \in Seq(Records)
  BY <1>1 DEF Found
<1>3. Wanted = Found(file) /\ Reply = "None"
  BY <1>1, ClosedIs, WantedOf DEF Reply
<1>4. sound = TRUE
  BY DEF Init
<1>5. QED
  BY <1>1, <1>2, <1>3, <1>4 DEF Promised!LogInit, Reply

(* Whatever crashes, a conversation's file is the log that was asked for, up  *)
(* to the call in progress, and an Ok means that it is on the disk; until a   *)
(* header was left half written or a load forgot records.                     *)
THEOREM Refinement == Spec => KeepsLog
<1>1. IInv /\ [Next]_vars => [Promised!LogNext]_(Promised!logVars)
  BY LogSteps DEF LogStep
<1>2. QED
  BY <1>1, LogInits, Invariant, PTL DEF Spec, KeepsLog, Promised!LogSpec
=============================================================================
