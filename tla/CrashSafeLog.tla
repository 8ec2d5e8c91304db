---------------------------- MODULE CrashSafeLog ----------------------------
(***************************************************************************)
(* What a caller of KvPersist may count on: a log of records that a crash  *)
(* leaves either as it was or as the call in progress wanted it, with      *)
(* nothing in between, and that has settled on the disk when a call that   *)
(* changed it answers Ok.  Once a change was left half done all bets are   *)
(* off: sound is then FALSE.                                               *)
(***************************************************************************)
EXTENDS Naturals, Sequences

CONSTANTS Records

VARIABLES log,      \* what opening the file finds
          settled,  \* what opening it finds after a power loss
          wanted,   \* what the call in progress makes of it
          answer,   \* to the last call, "Pending" during a call
          sound

logVars == <<log, settled, wanted, answer, sound>>

Least(a, b) == IF a < b THEN a ELSE b

LogInit == /\ log \in Seq(Records) /\ settled = log /\ wanted = log
           /\ answer = "None" /\ sound = TRUE

(* The caller asks for records to be added, or dropped, at the end.           *)
Call == /\ answer # "Pending" /\ answer' = "Pending"
        /\ wanted' \in Seq(Records)
        /\ LET kept == Least(Len(log), Len(wanted'))
           IN SubSeq(wanted', 1, kept) = SubSeq(log, 1, kept)
        /\ UNCHANGED <<log, settled, sound>>

Change == log' = wanted /\ UNCHANGED <<settled, wanted, answer, sound>>
Settle == settled' = log /\ UNCHANGED <<log, wanted, answer, sound>>

Answer(what) == /\ answer' = what
                /\ what = "Ok" => log = wanted /\ settled' = log
                /\ settled' \in {log, settled}
                /\ wanted' = log
                /\ UNCHANGED <<log, sound>>

(* A process that is killed leaves what it wrote, a power loss what settled.  *)
Killed == log' \in {log, wanted} /\ UNCHANGED settled
PowerLost == log' \in {log, settled, wanted} /\ settled' = log'
Die == /\ Killed \/ PowerLost
       /\ answer' = "None" /\ wanted' = log' /\ UNCHANGED sound

LogNext == \/ sound /\ (Call \/ Change \/ Settle \/ Die)
           \/ sound /\ \E what \in {"Ok", "Error", "None"} : Answer(what)
           \/ sound' = FALSE

LogSpec == LogInit /\ [][LogNext]_logVars
=============================================================================
