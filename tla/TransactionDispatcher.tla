------------------------ MODULE TransactionDispatcher ------------------------
(***************************************************************************)
(* dht/krpc.go: the TransactionDispatcher and the goroutine that serves    *)
(* each transaction (transactionBox.loop).                                 *)
(*                                                                         *)
(* Callers are the goroutines that use the dispatcher: the DHT workers,    *)
(* which call DisposeResponse and DisposeError, and the goroutines that    *)
(* Add and Remove transactions.  The loop of a box and its callers meet on *)
(* two unbuffered channels: alive, where the send gives up at once when    *)
(* the loop is not waiting, and end, where the send blocks.                *)
(***************************************************************************)
CONSTANTS
  Ids,              \* transaction ids
  Boxes,            \* transactionBoxes, one per Add that succeeds
  NoBox,            \* nil
  IdOf,             \* the ID() of the transaction in a box
  Callers,          \* goroutines that call the dispatcher
  ResponseVerdicts, \* what OnResponse and OnError of the transactions may return
  TimeoutVerdicts   \* what OnTimeout of the transactions may return

ASSUME DispatcherAssumption ==
  /\ NoBox \notin Boxes
  /\ IdOf \in [Boxes -> Ids]
  /\ ResponseVerdicts \subseteq BOOLEAN
  /\ TimeoutVerdicts \subseteq BOOLEAN

VARIABLES
  transactions, \* the sync.Map: id -> box
  loop,         \* loop[b]: where the goroutine of box b is
  pc,           \* pc[c]: where caller c is inside the dispatcher
  held,         \* held[c]: the box that c loaded from the map (or made)
  call          \* call[c]: the method c is in

vars == <<transactions, loop, pc, held, call>>

(* "unborn": no such box yet.  "stored": in the map, goroutine not started. *)
LoopStates == {"unborn", "stored", "launch", "arm", "select", "timeout",
               "rmself", "finish", "done"}
CallerStates == {"idle", "spawn", "alive", "handle", "end"}
Disposals == {"DisposeResponse", "DisposeError"}
Methods == {"none", "Add", "Remove"} \cup Disposals

(* The box is between LoadOrStore and the deletion of its entry. *)
Registered(b) == loop[b] \in {"stored", "launch", "arm", "select", "timeout", "rmself"}

TypeOK ==
  /\ transactions \in [Ids -> Boxes \cup {NoBox}]
  /\ loop \in [Boxes -> LoopStates]
  /\ pc \in [Callers -> CallerStates]
  /\ held \in [Callers -> Boxes \cup {NoBox}]
  /\ call \in [Callers -> Methods]

Init ==
  /\ transactions = [i \in Ids |-> NoBox]
  /\ loop = [b \in Boxes |-> "unborn"]
  /\ pc = [c \in Callers |-> "idle"]
  /\ held = [c \in Callers |-> NoBox]
  /\ call = [c \in Callers |-> "none"]

------------------------------------------------------------------------------
(* A caller enters method m with box b, or returns to its own code. *)
Enter(c, m, b, s) ==
  /\ pc[c] = "idle"
  /\ pc' = [pc EXCEPT ![c] = s]
  /\ held' = [held EXCEPT ![c] = b]
  /\ call' = [call EXCEPT ![c] = m]

Return(c) ==
  /\ pc' = [pc EXCEPT ![c] = "idle"]
  /\ held' = [held EXCEPT ![c] = NoBox]
  /\ call' = [call EXCEPT ![c] = "none"]

Advance(c, from, to) ==
  /\ pc[c] = from
  /\ pc' = [pc EXCEPT ![c] = to]
  /\ UNCHANGED <<held, call>>

LoopStep(b, from, to) ==
  /\ loop[b] = from
  /\ loop' = [loop EXCEPT ![b] = to]

------------------------------------------------------------------------------
(* Mutant: the map is written without looking (Store for LoadOrStore). *)
AddStoreUnchecked(c, b) ==
  /\ Enter(c, "Add", b, "spawn")
  /\ LoopStep(b, "unborn", "stored")
  /\ transactions' = [transactions EXCEPT ![IdOf[b]] = b]

(* Add, up to LoadOrStore.  When the id is taken Add only returns an error *)
(* and the new box is garbage: no state changes.                           *)
AddStore(c, b) ==
  /\ transactions[IdOf[b]] = NoBox
  /\ Enter(c, "Add", b, "spawn")
  /\ LoopStep(b, "unborn", "stored")
  /\ transactions' = [transactions EXCEPT ![IdOf[b]] = b]

(* Add: go box.loop(...), return nil. *)
AddSpawn(c) ==
  /\ pc[c] = "spawn"
  /\ LoopStep(held[c], "stored", "launch")
  /\ Return(c)
  /\ UNCHANGED transactions

(* Remove and the two Disposes first Load the box; an id that is not in    *)
(* the map is a call without effect.                                       *)
RemoveLoad(c, i) ==
  /\ transactions[i] # NoBox
  /\ Enter(c, "Remove", transactions[i], "end")
  /\ UNCHANGED <<transactions, loop>>

DisposeLoad(c, i, m) ==
  /\ transactions[i] # NoBox
  /\ Enter(c, m, transactions[i], "alive")
  /\ UNCHANGED <<transactions, loop>>

(* Mutant: a plain send on alive, without the default case. *)
KeepAliveBlocking(c) ==
  /\ Advance(c, "alive", "handle")
  /\ LoopStep(held[c], "select", "arm")
  /\ UNCHANGED transactions

(* box.keepAlive(): the loop takes the send if it waits in its select, and *)
(* goes round to arm a new timer; otherwise the default case drops it.     *)
KeepAlive(c) ==
  /\ Advance(c, "alive", "handle")
  /\ loop' = [loop EXCEPT ![held[c]] = IF @ = "select" THEN "arm" ELSE @]
  /\ UNCHANGED transactions

(* OnResponse or OnError runs and returns verdict; FALSE asks for the end. *)
Handle(c, verdict) ==
  /\ pc[c] = "handle"
  /\ IF verdict THEN Return(c) ELSE Advance(c, "handle", "end")
  /\ UNCHANGED <<transactions, loop>>

(* Mutant: done() offers the end signal like keepAlive does. *)
EndDropped(c) ==
  /\ pc[c] = "end"
  /\ loop' = [loop EXCEPT ![held[c]] = IF @ = "select" THEN "rmself" ELSE @]
  /\ Return(c)
  /\ UNCHANGED transactions

(* box.done(): the send on end, which waits for the loop's select. *)
End(c) ==
  /\ pc[c] = "end"
  /\ LoopStep(held[c], "select", "rmself")
  /\ Return(c)
  /\ UNCHANGED transactions

------------------------------------------------------------------------------
(* transactionBox.loop *)
OnLaunch(b) ==
  /\ LoopStep(b, "launch", "arm")
  /\ UNCHANGED <<transactions, pc, held, call>>

(* timeout := time.NewTimer(ShelfLife()), then the goroutine parks in select. *)
Arm(b) ==
  /\ LoopStep(b, "arm", "select")
  /\ UNCHANGED <<transactions, pc, held, call>>

(* The timer fires while the loop waits. *)
Expire(b) ==
  /\ LoopStep(b, "select", "timeout")
  /\ UNCHANGED <<transactions, pc, held, call>>

OnTimeout(b, verdict) ==
  /\ LoopStep(b, "timeout", IF verdict THEN "arm" ELSE "rmself")
  /\ UNCHANGED <<transactions, pc, held, call>>

(* Mutant: the loop is left without rmself(). *)
RmSelfForgotten(b) ==
  /\ LoopStep(b, "rmself", "finish")
  /\ UNCHANGED <<transactions, pc, held, call>>

(* rmself() deletes the entry by id, whoever is registered under it. *)
RmSelf(b) ==
  /\ LoopStep(b, "rmself", "finish")
  /\ transactions' = [transactions EXCEPT ![IdOf[b]] = NoBox]
  /\ UNCHANGED <<pc, held, call>>

OnFinish(b) ==
  /\ LoopStep(b, "finish", "done")
  /\ UNCHANGED <<transactions, pc, held, call>>

(* A box that nothing references any more is garbage; its name is free for *)
(* the box of a later Add.                                                 *)
Collect(b) ==
  /\ \A c \in Callers : held[c] # b
  /\ LoopStep(b, "done", "unborn")
  /\ UNCHANGED <<transactions, pc, held, call>>

------------------------------------------------------------------------------
CallerNext(c) ==
  \/ \E b \in Boxes : AddStore(c, b)
  \/ AddSpawn(c)
  \/ \E i \in Ids : RemoveLoad(c, i)
  \/ \E i \in Ids, m \in Disposals : DisposeLoad(c, i, m)
  \/ KeepAlive(c)
  \/ \E v \in ResponseVerdicts : Handle(c, v)
  \/ End(c)

LoopNext(b) ==
  \/ OnLaunch(b)
  \/ Arm(b)
  \/ Expire(b)
  \/ \E v \in TimeoutVerdicts : OnTimeout(b, v)
  \/ RmSelf(b)
  \/ OnFinish(b)
  \/ Collect(b)

Next == (\E c \in Callers : CallerNext(c)) \/ (\E b \in Boxes : LoopNext(b))

Spec == Init /\ [][Next]_vars

(* Goroutines that can run do run: the loop through its own code, a caller *)
(* through the method it is in (nobody is obliged to call).  End is        *)
(* strongly fair: select picks among its ready cases at random, so a       *)
(* blocked sender is not passed over for ever by alive and the timer.      *)
LoopFairness(b) ==
  /\ WF_vars(OnLaunch(b))
  /\ WF_vars(Arm(b))
  /\ WF_vars(\E v \in TimeoutVerdicts : OnTimeout(b, v))
  /\ WF_vars(RmSelf(b))
  /\ WF_vars(OnFinish(b))
  /\ WF_vars(Collect(b))

CallerFairness(c) ==
  /\ WF_vars(AddSpawn(c))
  /\ WF_vars(KeepAlive(c))
  /\ WF_vars(\E v \in ResponseVerdicts : Handle(c, v))
  /\ SF_vars(End(c))

Fairness ==
  /\ \A b \in Boxes : LoopFairness(b)
  /\ \A c \in Callers : CallerFairness(c)

FairSpec == Spec /\ Fairness

------------------------------------------------------------------------------
(* Every entry of the map has a goroutine that still serves it, under its  *)
(* own id.  krpc.go Load()s boxes without a lock: what it finds must not   *)
(* be the leftover of a transaction whose loop has gone.                   *)
EntriesAreServed ==
  \A i \in Ids : transactions[i] # NoBox =>
    /\ IdOf[transactions[i]] = i
    /\ Registered(transactions[i])

(* A box between LoadOrStore and rmself owns the entry of its id.  rmself  *)
(* deletes by id, so this is what keeps one transaction from deleting      *)
(* another that was added under the same id; it also says that two live    *)
(* transactions never share an id.                                         *)
OwnEntry == \A b \in Boxes : Registered(b) => transactions[IdOf[b]] = b

(* The inductive invariant. *)
IInv == TypeOK /\ EntriesAreServed /\ OwnEntry

(* An entry leaves the map only by its own loop, which goes on to          *)
(* OnFinish, and never straight to another transaction: neither Add,       *)
(* Remove, a Dispose call nor the loop of another box takes it away.       *)
OnlyOwnerRemoves ==
  [][\A i \in Ids : transactions[i] # NoBox /\ transactions'[i] # transactions[i] =>
       /\ transactions'[i] = NoBox
       /\ loop[transactions[i]] = "rmself"
       /\ loop'[transactions[i]] = "finish"]_vars

(* The dispatcher implements the registry: an id is owned while its box is *)
(* registered, and a box that gave up its id finishes.                     *)
Phase(b) ==
  IF Registered(b) THEN "registered"
  ELSE IF loop[b] = "unborn" THEN "new"
  ELSE IF loop[b] = "finish" THEN "removed" ELSE "finished"

Registry == INSTANCE TransactionRegistry
  WITH owner <- transactions, phase <- [b \in Boxes |-> Phase(b)]

ImplementsRegistry == Registry!FairSpec

(* keepAlive never holds a worker up: a Dispose call gets past it and past *)
(* the handler even when the loop of its box is busy or has ended.         *)
DisposeGetsThrough ==
  \A c \in Callers : pc[c] = "alive" ~> pc[c] \in {"idle", "end"}

(* Once a caller asks for the end of a transaction, the transaction        *)
(* finishes: keep-alives, timeouts and other callers do not lose the       *)
(* request, although the loop listens for it only while in select.         *)
EndIsServed ==
  \A b \in Boxes :
    (\E c \in Callers : pc[c] = "end" /\ held[c] = b) ~> loop[b] = "done"

(* krpc.go:106 "Remove the transaction from the dispatcher.": a Remove     *)
(* that found the transaction comes back once it has removed it.           *)
RemoveReturns == \A c \in Callers : call[c] = "Remove" ~> call[c] # "Remove"
==============================================================================
