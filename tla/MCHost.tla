------------------------------- MODULE MCHost -------------------------------
(* A small instance of Host for TLC. *)
EXTENDS Host, TLC

CONSTANTS q1, q2, r1, x1

(* Two queries, a response and a datagram that Serv drops. *)
MCKindOf == (q1 :> "query") @@ (q2 :> "query") @@ (r1 :> "response") @@ (x1 :> "dropped")
==============================================================================
