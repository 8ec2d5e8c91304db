------------------------------ MODULE KvPrefix ------------------------------
(***************************************************************************)
(* Pure operators of the two prefix caches a KV slot is described by:      *)
(*                                                                         *)
(*  - KvPrefix (src/store/kv_prefix.cpp), the engine's record of the token *)
(*    ids it believes the slot's KV state was built from;                  *)
(*  - kv_common_prefix (src/serve/session.cpp), the longest common prefix  *)
(*    the family engines and SessionStore::match compare histories with.   *)
(*                                                                         *)
(* A KvPrefix is [cap, fed]: fed is the first len_ entries of fed_, so     *)
(* len_ = Len(fed); cap = 0 is an object that was never alloc'ed.          *)
(* taint() has no caller in src/, so tainted_ is always false.             *)
(***************************************************************************)
EXTENDS Integers, Sequences

CONSTANTS MinCap,   \* smallest capacity the engine allocates (8 in the code)
          MaxSeq,   \* RuntimeConfig::max_seq
          Slack     \* what grow() adds beyond the history (64 in the code)

ASSUME PrefixAssumption == MinCap \in Nat /\ MaxSeq \in Nat /\ Slack \in Nat

Least(a, b) == IF a <= b THEN a ELSE b
Greatest(a, b) == IF a >= b THEN a ELSE b

(* s is an initial segment of t. *)
IsInitialOf(s, t) == /\ Len(s) <= Len(t)
                     /\ \A i \in 1..Len(s) : s[i] = t[i]

(* kv_common_prefix: the number of leading tokens a and b share. *)
CommonPrefix(a, b) ==
  CHOOSE n \in 0..Least(Len(a), Len(b)) :
    /\ \A i \in 1..n : a[i] = b[i]
    /\ n < Least(Len(a), Len(b)) => a[n + 1] # b[n + 1]

Prefixes(T) == [cap : Nat, fed : Seq(T)]

NoPrefix == [cap |-> 0, fed |-> <<>>]

(* alloc(cap): restart with an empty record. *)
PrefixAlloc(cap) == [cap |-> cap, fed |-> <<>>]

(* record(ids, 0, n): the ids overwrite the first n entries; len_ never     *)
(* shrinks, so a shorter history keeps the tail of the longer one before it.*)
PrefixRecord(p, ids) ==
  IF p.cap = 0 \/ ids = <<>> THEN p
  ELSE IF Len(ids) > p.cap THEN [p EXCEPT !.fed = <<>>]
  ELSE [p EXCEPT !.fed = ids \o SubSeq(p.fed, Len(ids) + 1, Len(p.fed))]

(* reuse(ids, n): all or nothing, and only for a strict extension. *)
PrefixReuse(p, ids) ==
  IF p.fed # <<>> /\ Len(p.fed) < Len(ids) /\ IsInitialOf(p.fed, ids)
  THEN Len(p.fed) ELSE 0

(* Engine::prefix_match and the same lines of generate_ids (room is         *)
(* max_new_tokens there, 0 here): a record that was never allocated is      *)
(* allocated and seeded from the session history.                           *)
PrefixArm(p, hist, ids, room) ==
  IF p.cap > 0 THEN p
  ELSE PrefixRecord(PrefixAlloc(Greatest(MinCap, Len(ids) + room + MaxSeq)), hist)

(* Engine::prefix_commit: grow(n + 64, 0) forgets the old ids. *)
PrefixCommit(p, hist) ==
  PrefixRecord(IF p.cap < Len(hist) THEN PrefixAlloc(Len(hist) + Slack) ELSE p, hist)
=============================================================================
