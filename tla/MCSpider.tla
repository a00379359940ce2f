--------------------------- MODULE MCSpider ---------------------------
(* A small instance of Spider for TLC. *)
EXTENDS Spider, TLC

CONSTANTS n1, an, a2, fa

(* Two announce_peer queries, and a third from an id that is too short. *)
MCTypeOf == (an :> "announce") @@ (a2 :> "announce") @@ (fa :> "fatalannounce")

TypeOfPackets == [p \in Packets |-> MCTypeOf[p]]
SourceOfPackets == [p \in Packets |-> n1]
NodesOfPackets == [p \in Packets |-> {}]
==============================================================================
