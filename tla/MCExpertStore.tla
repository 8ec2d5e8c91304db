---------------------------- MODULE MCExpertStore ----------------------------
(* Small instances of ExpertStore: experts are their numbers. *)
EXTENDS ExpertStore

CONSTANTS NExperts, MaxRound

MCExperts == 1..NExperts
(* The last expert has no file. *)
MCPacked == 1..NExperts - 1
(* moe_union_ids sorts the ids. *)
MCRounds == {keys \in UNION {[1..n -> MCExperts] : n \in 1..MaxRound} :
               \A i, j \in DOMAIN keys : i < j => keys[i] < keys[j]}
=============================================================================
