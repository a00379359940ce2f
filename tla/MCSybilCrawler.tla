--------------------------- MODULE MCSybilCrawler ----------------------------
(* A small instance of SybilCrawler for TLC. *)
EXTENDS SybilCrawler, TLC

CONSTANTS n1, an, re, ft

(* An announce_peer, a response with nodes, both from one node of which    *)
(* the response tells, too: neighbours know each other, and a ping from an *)
(* id that is too short.                                                   *)
MCTypeOf == (an :> "announce") @@ (re :> "ours") @@ (ft :> "fatal")

TypeOfPackets == [p \in Packets |-> MCTypeOf[p]]
SourceOfPackets == [p \in Packets |-> n1]
NodesOfPackets == [p \in Packets |-> IF p = re THEN {n1} ELSE {}]
Symmetry == Permutations(Workers)
==============================================================================
