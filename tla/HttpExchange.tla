----------------------------- MODULE HttpExchange -----------------------------
(***************************************************************************)
(* What the client of one connection is owed, and nothing of how: after    *)
(* its request either one reply, or a stream that ends with exactly one    *)
(* last event, or, if it has gone away, nothing; and nothing once the      *)
(* connection is closed.                                                   *)
(***************************************************************************)
EXTENDS Naturals, Sequences

CONSTANT Conns

VARIABLES at,      \* of a connection: "Free", "Open", "Streaming" or "Closed"
          gone,    \* the connections whose client has hung up
          sent     \* what each was sent in the last step, in order

exchange == <<at, gone, sent>>

Events == {"Head", "Chunk"}
Lasts == {"End", "Failed"}

Only(kinds, out) == \A i \in DOMAIN out : out[i] \in kinds
EndsWith(kinds, out) == out # <<>> /\ out[Len(out)] \in kinds

Owed(from, to, out, left) ==
  CASE from = "Free"                              -> to \in {"Free", "Open"} /\ out = <<>>
    [] from = "Open" /\ to = "Open"               -> out = <<>>
    [] from = "Open" /\ to = "Streaming"          -> Only(Events, out)
    [] from = "Open" /\ to = "Closed"             -> out = <<"Reply">> \/ (left /\ out = <<>>)
    [] from = "Streaming" /\ to = "Streaming"     -> Only(Events, out)
    [] from = "Streaming" /\ to = "Closed"        ->
         EndsWith(Lasts, out) /\ Only(Events, SubSeq(out, 1, Len(out) - 1))
    [] OTHER                                      -> to = from /\ out = <<>>

ExchangeInit == /\ at = [c \in Conns |-> "Free"]
                /\ gone = {} /\ sent = [c \in Conns |-> <<>>]
ExchangeNext == /\ gone \subseteq gone'
                /\ \A c \in Conns : Owed(at[c], at'[c], sent'[c], c \in gone)
ExchangeSpec == ExchangeInit /\ [][ExchangeNext]_exchange
=============================================================================
