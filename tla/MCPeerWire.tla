----------------------------- MODULE MCPeerWire -----------------------------
(* A small instance of PeerWire for TLC: binary bytes, lengths of two. *)
EXTENDS PeerWire

MCOutgoing ==
  { [ext |-> e, id |-> 0, content |-> c] : e \in BOOLEAN, c \in {<<>>, <<1>>} }
==============================================================================
