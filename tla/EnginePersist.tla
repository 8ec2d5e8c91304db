---------------------------- MODULE EnginePersist ----------------------------
(***************************************************************************)
(* Engine with a persist file open (src/engine.cpp): what a turn commits   *)
(* to it, and what the engine makes of it when it opens it again.  A turn  *)
(* is generate_ids, or a job of the scheduler from begin_generate to       *)
(* finish_done; engine_mu_ lets only one run in a slot at a time.          *)
(*                                                                         *)
(* A KV row is the context it was computed in: the tokens up to its own.   *)
(* <<>> is the row of a token that was never computed, or that was         *)
(* computed over a row that is wrong.  The file is CrashSafeLog's log,     *)
(* which KvPersist implements: an append happens or fails as a whole.      *)
(***************************************************************************)
EXTENDS FamilySlot

CONSTANTS Slots, Tokens,
          Home,             \* slot of the conversation the file is kept for
          OneConversation,  \* clients: one, in Home, that only adds to what was said
          Reuses,           \* gp.prefix_reuse clients pass
          MaxLen,           \* bound: tokens of a transcript
          MaxFaults         \* bound: appends that fail

ASSUME EngineAssumption ==
  /\ Home \in Slots /\ OneConversation \in BOOLEAN
  /\ Reuses \subseteq Nat /\ MaxLen \in Nat /\ MaxFaults \in Nat

VARIABLES fam,      \* the family engine's slots_: have, history, rows
          prefix,   \* prefixes_
          sess,     \* sessions_: the histories
          log,      \* the records of the file: token and row
          persist,  \* persist_open_, persist_hist_
          told,     \* what the one client has been answered
          faults

vars == <<fam, prefix, sess, log, persist, told, faults>>

Texts == UNION {[1..n -> Tokens] : n \in 0..MaxLen}
FamSlots == [have : BOOLEAN, history : Seq(Tokens), rows : Seq(Texts)]
FreshSlot == [have |-> FALSE, history |-> <<>>, rows |-> <<>>]
Records == [token : Tokens, row : Texts]

TypeOK == /\ fam \in [Slots -> FamSlots]
          /\ prefix \in [Slots -> Prefixes(Tokens)]
          /\ sess \in [Slots -> Texts]
          /\ log \in Seq(Records) /\ Len(log) <= MaxLen
          /\ persist \in [open : BOOLEAN, hist : Texts]
          /\ told \in Texts
          /\ faults \in 0..MaxFaults

NotOpen == [open |-> FALSE, hist |-> <<>>]

Init == /\ fam = [s \in Slots |-> FreshSlot]
        /\ prefix = [s \in Slots |-> NoPrefix]
        /\ sess = [s \in Slots |-> <<>>]
        /\ log = <<>> /\ persist = NotOpen
        /\ told = <<>> /\ faults = 0

LoggedTokens == [p \in DOMAIN log |-> log[p].token]
-----------------------------------------------------------------------------
(* Operators named with an underscore and a word are faulty variants of the   *)
(* operation that follows them: PROJECT.json names the property each breaks.  *)

(* The rows [0, n) of a text of which the first ones are kept in the slot.    *)
Filled(kept, text, n) ==
  LET sound == \A p \in DOMAIN kept : kept[p] = SubSeq(text, 1, p)
  IN [p \in 1..n |-> IF p <= Len(kept) THEN kept[p]
                     ELSE IF sound THEN SubSeq(text, 1, p) ELSE <<>>]

(* How a turn is run and how it ends: by the scheduler (next_token, which     *)
(* never steps the last token), or by generate_ids, which has stepped the     *)
(* last token if it went on to max_new_tokens.                                *)
Ways == {"job", "stopped", "full"}
Room(way, toks) == IF way = "job" THEN 0 ELSE Len(toks)

(* What a generation leaves in its slot. *)
Generated(s, ids, toks, way, reuse) ==
  LET armed    == PrefixArm(prefix[s], sess[s], ids, Room(way, toks))
      official == PrefixReuse(armed, ids)
      want     == IF official > 0 THEN official ELSE reuse
      kept     == SubSeq(fam[s].rows, 1, AppliedReuse(fam[s], ids, want))
      text     == ids \o toks
      pos      == IF toks = <<>> \/ way = "full" THEN Len(text) ELSE Len(text) - 1
  IN [have |-> TRUE, history |-> text, rows |-> Filled(kept, text, pos)]

(* persist_append_tail: the rows come from the slot of the turn, zero from    *)
(* pos on.                                                                    *)
TailRecs_RowsFromStart(text, rows) ==
  [i \in 1..(Len(text) - Len(log)) |->
     [token |-> text[Len(log) + i], row |-> IF i <= Len(rows) THEN rows[i] ELSE <<>>]]
TailRecs_OneTooFar(text, rows) ==
  [i \in 1..(Len(text) - Len(log) - 1) |->
     LET p == Len(log) + i + 1
     IN [token |-> text[p], row |-> IF p <= Len(rows) THEN rows[p] ELSE <<>>]]
TailRecs(text, rows) ==
  [i \in 1..(Len(text) - Len(log)) |->
     LET p == Len(log) + i
     IN [token |-> text[p], row |-> IF p <= Len(rows) THEN rows[p] ELSE <<>>]]

(* persist_commit: an error of the append is dropped, persist_hist_ moves on. *)
PersistCommit(text, rows) ==
  IF ~persist.open THEN UNCHANGED <<log, persist, faults>>
  ELSE /\ persist' = [persist EXCEPT !.hist = text]
       /\ \/ Len(text) <= Len(log) /\ UNCHANGED <<log, faults>>
          \/ Len(text) > Len(log) /\ log' = log \o TailRecs(text, rows) /\ UNCHANGED faults
          \/ Len(text) > Len(log) /\ faults < MaxFaults /\ faults' = faults + 1 /\ UNCHANGED log

Asks(s, ids) == OneConversation => s = Home /\ IsInitialOf(told, ids) /\ told # ids

(* A turn that is answered. *)
Turn(s, ids, toks, way, reuse) ==
  LET left  == Generated(s, ids, toks, way, reuse)
      armed == PrefixArm(prefix[s], sess[s], ids, Room(way, toks))
  IN /\ ids # <<>> /\ Asks(s, ids)
     /\ fam' = [fam EXCEPT ![s] = left]
     /\ sess' = [sess EXCEPT ![s] = ids \o toks]
     /\ prefix' = [prefix EXCEPT ![s] = PrefixCommit(armed, ids \o toks)]
     /\ PersistCommit(ids \o toks, left.rows)
     /\ told' = IF OneConversation THEN ids \o toks ELSE told

(* A job that is cancelled half way: every token it sampled was stepped. *)
Abandon(s, ids, toks, reuse) ==
  /\ ids # <<>> /\ Asks(s, ids)
  /\ fam' = [fam EXCEPT ![s] = [Generated(s, ids, toks, "job", reuse) EXCEPT
                                  !.rows = Generated(s, ids, toks, "full", reuse).rows]]
  /\ prefix' = [prefix EXCEPT ![s] = PrefixArm(@, sess[s], ids, 0)]
  /\ UNCHANGED <<sess, log, persist, told, faults>>

(* import_kv_rows(slot, 0, n): rows and history beyond the file's stay.       *)
Imported(sl) ==
  LET n == Len(log)
  IN [have |-> TRUE,
      history |-> LoggedTokens \o SubSeq(sl.history, n + 1, Len(sl.history)),
      rows |-> [p \in 1..n |-> log[p].row] \o SubSeq(sl.rows, n + 1, Len(sl.rows))]

(* persist_open: at load, or for a request that names the file. *)
PersistOpen(s) ==
  /\ OneConversation => s = Home
  /\ persist' = [open |-> TRUE, hist |-> LoggedTokens]
  /\ IF log = <<>> THEN UNCHANGED <<fam, prefix, sess>>
     ELSE /\ prefix' = [prefix EXCEPT ![s] =
                          PrefixRecord(PrefixAlloc(Len(log) + MaxSeq), LoggedTokens)]
          /\ sess' = [sess EXCEPT ![s] = LoggedTokens]
          /\ fam' = [fam EXCEPT ![s] = Imported(@)]
  /\ UNCHANGED <<log, told, faults>>

(* The file cannot be opened: the one that was open is closed all the same. *)
PersistOpenFails ==
  /\ faults < MaxFaults /\ faults' = faults + 1
  /\ persist' = NotOpen
  /\ UNCHANGED <<fam, prefix, sess, log, told>>

(* The server is started again. *)
Restart == /\ fam' = [s \in Slots |-> FreshSlot]
           /\ prefix' = [s \in Slots |-> NoPrefix]
           /\ sess' = [s \in Slots |-> <<>>]
           /\ persist' = NotOpen
           /\ UNCHANGED <<log, told, faults>>

Next == \/ \E s \in Slots, ids \in Texts, toks \in Texts, reuse \in Reuses :
             /\ Len(ids) + Len(toks) <= MaxLen
             /\ \/ \E way \in Ways : Turn(s, ids, toks, way, reuse)
                \/ Abandon(s, ids, toks, reuse)
        \/ \E s \in Slots : PersistOpen(s)
        \/ PersistOpenFails
        \/ Restart

Spec == Init /\ [][Next]_vars
-----------------------------------------------------------------------------
(* The file holds the conversation the engine believes it holds, up to turns  *)
(* whose append failed and that a later one makes up for.                     *)
FileIsTranscript == persist.open => IsInitialOf(LoggedTokens, persist.hist)

(* Every row in the file belongs to its token, or is known to be missing.     *)
StoredRowsBelong ==
  \A p \in DOMAIN log : log[p].row \in {<<>>, SubSeq(LoggedTokens, 1, p)}

RightRows(text, rows) == \A p \in DOMAIN rows : rows[p] = SubSeq(text, 1, p)

(* A wrong row in a slot goes back to a row the file does not have, of the    *)
(* same conversation, at or before it: neither an abandoned turn nor the      *)
(* prefix_reuse of a client, nor rows left over from before an import, ever   *)
(* make the engine keep rows of another text.                                 *)
OnlyTheFileMisleads ==
  \A s \in Slots : \A p \in DOMAIN fam[s].rows :
    \/ fam[s].rows[p] = SubSeq(fam[s].history, 1, p)
    \/ \E q \in DOMAIN log : /\ q <= p /\ log[q].row = <<>>
                             /\ IsInitialOf(SubSeq(LoggedTokens, 1, q), fam[s].history)

(* tests/test_host.cpp closes the file, opens it and finds persist_hist()     *)
(* equal to what it was.                                                      *)
ReopenFindsHist == persist.open => LoggedTokens = persist.hist

(* ARCHITECTURE.md: "import_kv_rows restores those rows on persist_open(slot) *)
(* so a reopen warms that slot".                                              *)
ReopenRestoresRows == \A s \in Slots : RightRows(fam[s].history, fam[s].rows)
=============================================================================
