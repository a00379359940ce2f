-------------------------- MODULE MCFetchMetadata --------------------------
(* A small instance of FetchMetadata for TLC. *)
EXTENDS FetchMetadata, TLC

(* Five bytes in pieces of two, so that the last piece is not full. *)
MCTrueMeta == <<1, 2, 3, 4, 5>>

HandshakeOf(m, size) == [type |-> "handshake", m |-> m, size |-> size, tr |-> "absent"]
Data(id, no, bytes) ==
  [type |-> "ext", id |-> id, body |-> [kind |-> "data", piece |-> no, bytes |-> bytes]]
Ext(id, kind) == [type |-> "ext", id |-> id, body |-> [kind |-> kind]]

(* Handshakes with and without our extension, with an id that is 0 as a    *)
(* byte or negative and with sizes that are missing, zero, right, too      *)
(* small, too large and past what can be allocated; data that are right,   *)
(* wrong, empty and out of range; the other messages.                      *)
MCMessages ==
  { HandshakeOf(m, size) : m \in {Meta :> 3, Meta :> 256, Meta :> -1, Tex :> 1, <<>>},
                           size \in {Nil, 0, 5, 2, 8, 9} }
  \cup { Data(1, no, bytes) : no \in 0..3, bytes \in {<<1, 2>>, <<3, 4>>, <<5>>, MCTrueMeta, <<>>} }
  \cup { Data(2, 0, <<1, 2>>) }
  \cup { Ext(1, "reject"), Ext(1, "other"), Ext(1, "garbage") }
  \cup { [type |-> "empty"], [type |-> "garbage"] }
==============================================================================
