------------------------------ MODULE KvPersist ------------------------------
(***************************************************************************)
(* KvPersist (src/store/kv_persist.cpp): the COLIKV1 file of one           *)
(* conversation, its header with nrec, and the handle of the process that  *)
(* writes it, with every point at which a write or an fsync can fail, the  *)
(* process can be killed, or the machine can lose power.                   *)
(*                                                                         *)
(* The file is in two states: as the kernel shows it, and as it is on the  *)
(* disk.  A write changes the first, fsync copies it to the second, and a  *)
(* power loss leaves any mixture, record by record.  The header is 40      *)
(* bytes in the file's first sector, which is written whole.               *)
(*                                                                         *)
(* A record (a token with its KV rows) is a value.  "Foreign" is a file    *)
(* whose magic or geometry is not this model's, the empty file included.   *)
(***************************************************************************)
EXTENDS Naturals, Sequences

CONSTANTS Records,
          Torn,       \* what is left of a record that was half written
          MaxRecs,    \* bound: records in the file
          MaxFaults   \* bound: reads, writes and fsyncs that fail

ASSUME PersistAssumption == /\ Torn \notin Records
                            /\ MaxRecs \in Nat \ {0} /\ MaxFaults \in Nat

VARIABLES file,    \* as the kernel shows it
          disk,    \* as it is on the disk
          handle,  \* the KvPersist object and the call it is in
          faults,
          sound    \* no header was left half written, no record forgotten

vars == <<file, disk, handle, faults, sound>>

Bytes == Records \cup {Torn}
SeqsUpTo(S, n) == UNION {[1..k -> S] : k \in 0..n}
File == [kind : {"Missing", "Foreign", "Ours"}, nrec : 0..MaxRecs, recs : SeqsUpTo(Bytes, MaxRecs)]
Idle == {"Closed", "Ready"}
Steps == Idle \cup {"Creating", "Created", "Writing", "Written", "Header", "HeaderWritten"}
Handle == [pc : Steps, op : {"None", "Open", "Append", "Truncate"}, stale : BOOLEAN,
           nrec : 0..MaxRecs,                 \* disk_nrec_
           todo : SeqsUpTo(Records, MaxRecs), \* the records of an append
           target : 0..MaxRecs,               \* the nrec to write
           result : {"None", "Ok", "Error"}]  \* of the last call that wrote

TypeOK == /\ file \in File /\ disk \in File /\ handle \in Handle
          /\ faults \in 0..MaxFaults /\ sound \in BOOLEAN

Least(a, b) == IF a < b THEN a ELSE b
Most(a, b) == IF a < b THEN b ELSE a

NoRecs(kind) == [kind |-> kind, nrec |-> 0, recs |-> <<>>]
Closed == [pc |-> "Closed", op |-> "None", stale |-> FALSE, nrec |-> 0, todo |-> <<>>,
           target |-> 0, result |-> "None"]

(* physical_nrec clamps the nrec of the header to the records there are.      *)
Found(f) == IF f.kind = "Ours" THEN SubSeq(f.recs, 1, Least(f.nrec, Len(f.recs))) ELSE <<>>

Init == /\ file \in {NoRecs("Missing"), NoRecs("Foreign")}
        /\ disk = file /\ handle = Closed /\ faults = 0 /\ sound = TRUE
-----------------------------------------------------------------------------
(* Operators named with an underscore and a word are faulty variants of the   *)
(* operation that follows them: PROJECT.json names the property each breaks.  *)

Opened(stale, nrec) == [Closed EXCEPT !.pc = "Ready", !.stale = stale, !.nrec = nrec]
Returned(result) == [handle EXCEPT !.pc = "Ready", !.op = "None", !.todo = <<>>,
                                   !.target = 0, !.result = result]

Open == /\ handle.pc = "Closed"
        /\ handle' = CASE file.kind = "Missing" -> [Closed EXCEPT !.pc = "Creating", !.op = "Open"]
                       [] file.kind = "Foreign" -> Opened(TRUE, 0)
                       [] file.kind = "Ours" -> Opened(FALSE, Len(Found(file)))
        /\ UNCHANGED <<file, disk, faults, sound>>

Load == /\ handle.pc = "Ready" /\ ~handle.stale
        /\ handle' = [handle EXCEPT !.nrec = Len(Found(file))]
        /\ UNCHANGED <<file, disk, faults, sound>>

(* A read fails: load keeps the records before it, and forgets the others.    *)
LoadCutShort == /\ handle.pc = "Ready" /\ ~handle.stale
                /\ faults < MaxFaults /\ faults' = faults + 1
                /\ \E n \in 0..(Len(Found(file)) - 1) : handle' = [handle EXCEPT !.nrec = n]
                /\ sound' = FALSE
                /\ UNCHANGED <<file, disk>>

Close == /\ handle.pc = "Ready" /\ handle' = Closed
         /\ UNCHANGED <<file, disk, faults, sound>>

(* The records that the file does not hold yet. *)
TailOf(hist) == SubSeq(hist, handle.nrec + 1, Len(hist))

(* append; a history no longer than the file's is already there. *)
AppendTail(hist) ==
  /\ handle.pc = "Ready" /\ Len(hist) > handle.nrec
  /\ handle' = [handle EXCEPT !.pc = IF handle.stale THEN "Creating" ELSE "Writing",
                              !.op = "Append", !.todo = TailOf(hist),
                              !.target = Len(hist), !.result = "None"]
  /\ UNCHANGED <<file, disk, faults, sound>>

(* truncate; reset is truncate(0). *)
Truncate(n) ==
  /\ handle.pc = "Ready" /\ n <= handle.nrec
  /\ handle.stale \/ n < handle.nrec
  /\ handle' = [handle EXCEPT !.pc = IF handle.stale THEN "Creating" ELSE "Header",
                              !.op = "Truncate", !.target = n, !.result = "None"]
  /\ UNCHANGED <<file, disk, faults, sound>>
-----------------------------------------------------------------------------
(* The steps of a call. *)

(* create_empty: fopen "wb", header, fflush. *)
Create == /\ handle.pc = "Creating"
          /\ file' = NoRecs("Ours")
          /\ handle' = [handle EXCEPT !.pc = "Created"]
          /\ UNCHANGED <<disk, faults, sound>>

(* fsync, and back to the caller. *)
SyncCreated ==
  /\ handle.pc = "Created"
  /\ disk' = file
  /\ handle' = CASE handle.op = "Open" -> Opened(FALSE, 0)
                 [] handle.op = "Append" -> [handle EXCEPT !.pc = "Writing", !.stale = FALSE]
                 [] handle.op = "Truncate" -> [Returned("Ok") EXCEPT !.stale = FALSE]
  /\ UNCHANGED <<file, faults, sound>>

(* The file after the first k records of the append are written at nrec.      *)
Overwritten(k) ==
  LET written == SubSeq(handle.todo, 1, k)
      end == handle.nrec + k
  IN [file EXCEPT !.recs = SubSeq(@, 1, handle.nrec) \o written
                           \o SubSeq(@, end + 1, Len(@))]
(* The same with the next one half written. *)
HalfWritten(k) ==
  LET end == handle.nrec + k + 1
      f == Overwritten(k)
  IN [f EXCEPT !.recs = SubSeq(@, 1, end - 1) \o <<Torn>> \o SubSeq(@, end + 1, Len(@))]

WriteRecs == /\ handle.pc = "Writing"
             /\ file' = Overwritten(Len(handle.todo))
             /\ handle' = [handle EXCEPT !.pc = "Written"]
             /\ UNCHANGED <<disk, faults, sound>>

SyncRecs_Skipped == /\ handle.pc = "Written"
                    /\ handle' = [handle EXCEPT !.pc = "Header"]
                    /\ UNCHANGED <<file, disk, faults, sound>>

SyncRecs == /\ handle.pc = "Written"
            /\ disk' = file
            /\ handle' = [handle EXCEPT !.pc = "Header"]
            /\ UNCHANGED <<file, faults, sound>>

(* write_nrec *)
WriteNrec == /\ handle.pc = "Header"
             /\ file' = [file EXCEPT !.nrec = handle.target]
             /\ handle' = [handle EXCEPT !.pc = "HeaderWritten"]
             /\ UNCHANGED <<disk, faults, sound>>

SyncNrec_Forgets == /\ handle.pc = "HeaderWritten"
                    /\ disk' = file
                    /\ handle' = Returned("Ok")
                    /\ UNCHANGED <<file, faults, sound>>

SyncNrec_Skipped == /\ handle.pc = "HeaderWritten"
                    /\ handle' = [Returned("Ok") EXCEPT !.nrec = handle.target]
                    /\ UNCHANGED <<file, disk, faults, sound>>

SyncNrec == /\ handle.pc = "HeaderWritten"
            /\ disk' = file
            /\ handle' = [Returned("Ok") EXCEPT !.nrec = handle.target]
            /\ UNCHANGED <<file, faults, sound>>
-----------------------------------------------------------------------------
(* What the kernel shows when the step that comes next fails or is cut off.   *)
CutOff ==
  CASE handle.pc = "Creating" -> {file, NoRecs("Foreign")}
    [] handle.pc = "Writing" -> {file}
         \cup {Overwritten(k) : k \in 0..Len(handle.todo)}
         \cup {HalfWritten(k) : k \in 0..(Len(handle.todo) - 1)}
    [] handle.pc = "Header" -> {file, [file EXCEPT !.nrec = handle.target]}
    [] OTHER -> {file}

AtHeader == handle.pc \in {"Header", "HeaderWritten"}

(* A write or an fsync fails: the call returns the error.  A failing open     *)
(* closes the handle, everything else leaves nrec and stale as they were.     *)
Fail == /\ handle.pc \notin Idle
        /\ faults < MaxFaults /\ faults' = faults + 1
        /\ file' \in CutOff
        /\ handle' = IF handle.op = "Open" THEN Closed ELSE Returned("Error")
        /\ sound' = (sound /\ ~AtHeader)
        /\ UNCHANGED disk

(* What a power loss can leave of a record. *)
RecordLeft(old, new, p) ==
  IF p <= Len(old) /\ p <= Len(new) /\ old[p] = new[p] THEN {new[p]}
  ELSE {Torn} \cup {r[p] : r \in {s \in {old, new} : p <= Len(s)}}
RecsLeft(old, new) ==
  UNION {{recs \in [1..n -> Bytes] : \A p \in 1..n : recs[p] \in RecordLeft(old, new, p)} :
           n \in Least(Len(old), Len(new))..Most(Len(old), Len(new))}
Left(old, new) ==
  {[h EXCEPT !.recs = IF h.kind = "Ours" THEN recs ELSE <<>>] :
     h \in {old, new}, recs \in RecsLeft(old.recs, new.recs)}

PowerLoss == /\ \E f \in CutOff : file' \in Left(disk, f)
             /\ disk' = file'
             /\ handle' = Closed
             /\ UNCHANGED <<faults, sound>>

(* The process dies; the kernel still has what it wrote. *)
Kill == /\ handle.pc # "Closed"
        /\ file' \in CutOff
        /\ handle' = Closed
        /\ sound' = (sound /\ ~(AtHeader /\ handle.op = "Truncate"))
        /\ UNCHANGED <<disk, faults>>
-----------------------------------------------------------------------------
Next == \/ Open \/ Load \/ LoadCutShort \/ Close
        \/ \E hist \in SeqsUpTo(Records, MaxRecs) : AppendTail(hist)
        \/ \E n \in 0..MaxRecs : Truncate(n)
        \/ Create \/ SyncCreated \/ WriteRecs \/ SyncRecs \/ WriteNrec \/ SyncNrec
        \/ Fail \/ PowerLoss \/ Kill

Spec == Init /\ [][Next]_vars
-----------------------------------------------------------------------------
(* append overwrites nothing that a header counts, neither the one the kernel *)
(* shows nor the one on the disk.                                             *)
AppendsPastHeader ==
  sound /\ handle.pc \in {"Writing", "Written"} =>
    \A f \in {file, disk} : Len(Found(f)) <= handle.nrec

(* disk_nrec_, from which callers work out the tail they append, is the nrec  *)
(* that an open would find.                                                   *)
NrecIsFresh ==
  sound /\ handle.pc = "Ready" => handle.nrec = IF handle.stale THEN 0 ELSE Len(Found(file))

(* ARCHITECTURE.md calls the file crash-safe: it never holds half a record.   *)
WholeRecords == \A f \in {file, disk} : \A p \in DOMAIN Found(f) : Found(f)[p] # Torn

(* The file is the log CrashSafeLog promises, until a write of nrec is left   *)
(* half done or a load forgets records.                                       *)
Wanted == CASE handle.op = "Append" -> SubSeq(Found(file), 1, handle.nrec) \o handle.todo
            [] handle.op = "Truncate" -> SubSeq(Found(file), 1, handle.target)
            [] OTHER -> Found(file)
Promised == INSTANCE CrashSafeLog WITH
  log <- Found(file),
  settled <- Found(disk),
  wanted <- Wanted,
  answer <- IF handle.op \in {"Append", "Truncate"} THEN "Pending" ELSE handle.result
KeepsLog == Promised!LogSpec
=============================================================================
