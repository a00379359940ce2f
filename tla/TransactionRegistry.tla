------------------------- MODULE TransactionRegistry -------------------------
(***************************************************************************)
(* What dht.TransactionDispatcher promises its users, without goroutines   *)
(* or channels: a transaction id is owned by at most one transaction at a  *)
(* time, a transaction gives up its own registration and nobody else's,    *)
(* and only then finishes.                                                 *)
(***************************************************************************)
CONSTANTS
  Ids,    \* transaction ids
  Boxes,  \* registrations (one per successful Add)
  NoBox,  \* "no entry under this id"
  IdOf    \* the id a registration asks for

VARIABLES
  owner,  \* owner[i]: the registration that holds id i, or NoBox
  phase   \* phase[b]: where registration b is in its life

vars == <<owner, phase>>

TypeOK ==
  /\ owner \in [Ids -> Boxes \cup {NoBox}]
  /\ phase \in [Boxes -> {"new", "registered", "removed", "finished"}]

Init ==
  /\ owner = [i \in Ids |-> NoBox]
  /\ phase = [b \in Boxes |-> "new"]

(* A free id is taken. *)
Register(b) ==
  /\ phase[b] = "new"
  /\ owner[IdOf[b]] = NoBox
  /\ owner' = [owner EXCEPT ![IdOf[b]] = b]
  /\ phase' = [phase EXCEPT ![b] = "registered"]

(* The transaction gives up its own entry, whatever id that is under, and  *)
(* leaves every entry that is not its own alone.                           *)
Unregister(b) ==
  /\ phase[b] = "registered"
  /\ owner' = [i \in Ids |-> IF owner[i] = b THEN NoBox ELSE owner[i]]
  /\ phase' = [phase EXCEPT ![b] = "removed"]

Finish(b) ==
  /\ phase[b] = "removed"
  /\ phase' = [phase EXCEPT ![b] = "finished"]
  /\ UNCHANGED owner

(* A finished registration is forgotten; its name can stand for a new one. *)
Forget(b) ==
  /\ phase[b] = "finished"
  /\ phase' = [phase EXCEPT ![b] = "new"]
  /\ UNCHANGED owner

Next == \E b \in Boxes : Register(b) \/ Unregister(b) \/ Finish(b) \/ Forget(b)

Spec == Init /\ [][Next]_vars

(* A transaction that gave up its id does finish. *)
FairSpec == Spec /\ \A b \in Boxes : WF_vars(Finish(b))
==============================================================================
