----------------------- MODULE MCTransactionDispatcher -----------------------
(* Small instances of TransactionDispatcher for TLC. *)
EXTENDS TransactionDispatcher, TLC

CONSTANTS i1, i2, b1, b2, b3

(* b1 and b2 compete for the id i1, b3 has i2 to itself. *)
MCIdOf == (b1 :> i1) @@ (b2 :> i1) @@ (b3 :> i2)

(* Two boxes under one id. *)
MCIdOfPair == (b1 :> i1) @@ (b2 :> i1)
==============================================================================
