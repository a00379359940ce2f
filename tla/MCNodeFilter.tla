---------------------------- MODULE MCNodeFilter ----------------------------
(* A small instance of NodeFilter for TLC. *)
EXTENDS NodeFilter, TLC

CONSTANTS x1, x2, b1, b2, b3, k1, k2

(* Two bits share a word, so that writers of the word race, and the keys   *)
(* share neither bit: k1 has a bit in each word, k2 one in the first.      *)
MCWordOf == (b1 :> x1) @@ (b2 :> x1) @@ (b3 :> x2)
MCBitsOf == (k1 :> {b1, b3}) @@ (k2 :> {b2})

Symmetry == Permutations(Callers)
==============================================================================
