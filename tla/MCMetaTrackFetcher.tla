------------------------- MODULE MCMetaTrackFetcher -------------------------
(* A small instance of MetaTrackFetcher for TLC. *)
EXTENDS MetaTrackFetcher, TLC

CONSTANTS t1, t2

MCTrueMeta == <<1, 2, 3>>
MCTrackerLists == {<<>>, <<t1>>, <<t2>>}

HandshakeOf(m, size, tr) == [type |-> "handshake", m |-> m, size |-> size, tr |-> tr]
Ext(id, body) == [type |-> "ext", id |-> id, body |-> body]

(* Handshakes with each set of extensions, with an id that is 0 as a byte  *)
(* and one that is negative, with and without trackers, with a size that   *)
(* is missing, right or past what can be allocated; bodies of both         *)
(* extensions under the id of either; the other messages.                  *)
MCMessages ==
  { HandshakeOf(m, size, tr) :
      m \in {Meta :> 3, Tex :> 1, (Meta :> 3) @@ (Tex :> 1), (Meta :> 256) @@ (Tex :> 1), Tex :> -1, <<>>},
      size \in {Nil, 3, 5}, tr \in {"some", "empty"} }
  \cup { Ext(id, [kind |-> "data", piece |-> no, bytes |-> bytes]) :
           id \in 1..2, no \in 0..1, bytes \in {<<1, 2>>, <<3>>} }
  \cup { Ext(id, [kind |-> "added", added |-> list]) : id \in 1..2, list \in MCTrackerLists }
  \cup { Ext(3, [kind |-> "reject"]), [type |-> "empty"], [type |-> "garbage"] }
==============================================================================
