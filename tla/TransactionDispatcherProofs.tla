--------------------- MODULE TransactionDispatcherProofs ---------------------
(***************************************************************************)
(* Proofs about TransactionDispatcher, for any sets of ids, boxes and      *)
(* callers and any handler verdicts.  Of the fourteen actions only         *)
(* AddStore and RmSelf touch the map or change which boxes are registered  *)
(* (QuietSteps); the arguments below are about those two.                  *)
(***************************************************************************)
EXTENDS TransactionDispatcher, TLAPS

(* The state spaces are preserved by every step. *)
LEMMA TypeStep == TypeOK /\ [Next]_vars => TypeOK'
<1> SUFFICES ASSUME TypeOK, [Next]_vars PROVE TypeOK'
  OBVIOUS
<1> USE DispatcherAssumption DEF TypeOK, LoopStates, CallerStates, Methods, Disposals
<1>1. ASSUME NEW c \in Callers, NEW b \in Boxes, AddStore(c, b) PROVE TypeOK'
  BY <1>1 DEF AddStore, Enter, LoopStep
<1>2. ASSUME NEW c \in Callers, AddSpawn(c) PROVE TypeOK'
  BY <1>2 DEF AddSpawn, Return, LoopStep
<1>3. ASSUME NEW c \in Callers, NEW i \in Ids, RemoveLoad(c, i) PROVE TypeOK'
  BY <1>3 DEF RemoveLoad, Enter
<1>4. ASSUME NEW c \in Callers, NEW i \in Ids, NEW m \in Disposals, DisposeLoad(c, i, m)
      PROVE TypeOK'
  BY <1>4 DEF DisposeLoad, Enter
<1>5. ASSUME NEW c \in Callers, KeepAlive(c) PROVE TypeOK'
  BY <1>5 DEF KeepAlive, Advance
<1>6. ASSUME NEW c \in Callers, NEW v \in ResponseVerdicts, Handle(c, v) PROVE TypeOK'
  <2>1. CASE v
    BY <1>6, <2>1 DEF Handle, Return
  <2>2. CASE ~v
    BY <1>6, <2>2 DEF Handle, Advance
  <2> QED BY <2>1, <2>2
<1>7. ASSUME NEW c \in Callers, End(c) PROVE TypeOK'
  BY <1>7 DEF End, Return, LoopStep
<1>8. ASSUME NEW b \in Boxes, LoopNext(b) PROVE TypeOK'
  BY <1>8 DEF LoopNext, OnLaunch, Arm, Expire, OnTimeout, RmSelf, OnFinish,
              Collect, LoopStep
<1>9. CASE UNCHANGED vars
  BY <1>9 DEF vars
<1> QED
  BY <1>1, <1>2, <1>3, <1>4, <1>5, <1>6, <1>7, <1>8, <1>9 DEF Next, CallerNext

(* A box's goroutine moving from one place to another leaves the set of    *)
(* registered boxes alone when both places are on the same side.           *)
LEMMA SameSide ==
  ASSUME TypeOK, NEW x, NEW from, NEW to, LoopStep(x, from, to),
         from \in {"stored", "launch", "arm", "select", "timeout", "rmself"}
           <=> to \in {"stored", "launch", "arm", "select", "timeout", "rmself"}
  PROVE  \A b \in Boxes : Registered(b)' <=> Registered(b)
BY DEF TypeOK, LoopStep, Registered

(* What every step but AddStore and RmSelf leaves alone. *)
Quiet ==
  /\ UNCHANGED transactions
  /\ \A b \in Boxes : Registered(b)' <=> Registered(b)

(* All other steps leave the map and the registered boxes alone. *)
LEMMA QuietSteps ==
  ASSUME TypeOK, [Next]_vars
  PROVE  \/ \E c \in Callers, b \in Boxes : AddStore(c, b)
         \/ \E b \in Boxes : RmSelf(b)
         \/ Quiet
<1>1. ASSUME NEW c \in Callers, AddSpawn(c) PROVE Quiet
  BY <1>1, SameSide DEF AddSpawn, Quiet
<1>2. ASSUME NEW c \in Callers, NEW i \in Ids, RemoveLoad(c, i) PROVE Quiet
  BY <1>2 DEF RemoveLoad, Quiet, Registered
<1>3. ASSUME NEW c \in Callers, NEW i \in Ids, NEW m \in Disposals, DisposeLoad(c, i, m)
      PROVE Quiet
  BY <1>3 DEF DisposeLoad, Quiet, Registered
<1>4. ASSUME NEW c \in Callers, KeepAlive(c) PROVE Quiet
  BY <1>4 DEF KeepAlive, Quiet, Registered, TypeOK
<1>5. ASSUME NEW c \in Callers, NEW v \in ResponseVerdicts, Handle(c, v) PROVE Quiet
  BY <1>5 DEF Handle, Quiet, Registered
<1>6. ASSUME NEW c \in Callers, End(c) PROVE Quiet
  BY <1>6, SameSide DEF End, Quiet
<1>7. ASSUME NEW b \in Boxes, OnLaunch(b) \/ Arm(b) \/ Expire(b) PROVE Quiet
  BY <1>7, SameSide DEF OnLaunch, Arm, Expire, Quiet
<1>8. ASSUME NEW b \in Boxes, NEW v \in TimeoutVerdicts, OnTimeout(b, v) PROVE Quiet
  BY <1>8, SameSide DEF OnTimeout, Quiet
<1>9. ASSUME NEW b \in Boxes, OnFinish(b) \/ Collect(b) PROVE Quiet
  BY <1>9, SameSide DEF OnFinish, Collect, Quiet
<1>10. CASE UNCHANGED vars
  BY <1>10 DEF vars, Quiet, Registered
<1> QED
  BY <1>1, <1>2, <1>3, <1>4, <1>5, <1>6, <1>7, <1>8, <1>9, <1>10
  DEF Next, CallerNext, LoopNext

(* Every step keeps the invariant. *)
LEMMA InvariantStep == IInv /\ [Next]_vars => IInv'
<1> SUFFICES ASSUME IInv, [Next]_vars PROVE IInv'
  OBVIOUS
<1> USE DispatcherAssumption DEF IInv
<1>1. TypeOK'
  BY TypeStep
<1>2. ASSUME NEW c \in Callers, NEW a \in Boxes, AddStore(c, a)
      PROVE  EntriesAreServed' /\ OwnEntry'
  <2>1. transactions' = [transactions EXCEPT ![IdOf[a]] = a]
    BY <1>2 DEF AddStore
  <2>2. \A b \in Boxes : Registered(b)' <=> b = a \/ Registered(b)
    BY <1>2 DEF AddStore, LoopStep, Registered, TypeOK
  <2>3. EntriesAreServed'
    BY <2>1, <2>2 DEF EntriesAreServed, TypeOK
  <2>4. OwnEntry'
    <3> SUFFICES ASSUME NEW b \in Boxes, Registered(b)'
                 PROVE  transactions'[IdOf[b]] = b
      BY DEF OwnEntry
    <3>1. CASE b = a
      BY <3>1, <2>1 DEF TypeOK
    <3>2. CASE b # a
      \* b's entry is not free, so a did not ask for b's id
      <4>1. transactions[IdOf[b]] = b
        BY <3>2, <2>2 DEF OwnEntry
      <4>2. IdOf[b] # IdOf[a]
        BY <4>1, <1>2 DEF AddStore
      <4> QED BY <4>1, <4>2, <2>1 DEF TypeOK
    <3> QED BY <3>1, <3>2
  <2> QED BY <2>3, <2>4
<1>3. ASSUME NEW a \in Boxes, RmSelf(a)
      PROVE  EntriesAreServed' /\ OwnEntry'
  <2>1. transactions' = [transactions EXCEPT ![IdOf[a]] = NoBox]
    BY <1>3 DEF RmSelf
  <2>2. \A b \in Boxes : Registered(b)' <=> b # a /\ Registered(b)
    BY <1>3 DEF RmSelf, LoopStep, Registered, TypeOK
  <2>3. transactions[IdOf[a]] = a
    BY <1>3 DEF RmSelf, LoopStep, Registered, OwnEntry
  <2>4. EntriesAreServed'
    \* the only entry that pointed to a is the one that goes
    BY <2>1, <2>2, <2>3 DEF EntriesAreServed, TypeOK
  <2>5. OwnEntry'
    BY <2>1, <2>2, <2>3 DEF OwnEntry, TypeOK
  <2> QED BY <2>4, <2>5
<1>4. CASE Quiet
  BY <1>4, <1>1 DEF Quiet, EntriesAreServed, OwnEntry, TypeOK
<1> QED
  BY <1>1, <1>2, <1>3, <1>4, QuietSteps

(* The invariant holds at the start. *)
LEMMA InvariantInit == Init => IInv
BY DispatcherAssumption
   DEF Init, IInv, TypeOK, EntriesAreServed, OwnEntry, Registered, LoopStates,
       CallerStates, Methods

(* The invariant always holds. *)
LEMMA Invariant == Spec => []IInv
BY InvariantInit, InvariantStep, PTL DEF Spec

(* Type correctness of the dispatcher. *)
THEOREM TypeCorrect == Spec => []TypeOK
BY Invariant, PTL DEF IInv

(* Whatever a caller Load()s from the map is served by a goroutine. *)
THEOREM EntriesServed == Spec => []EntriesAreServed
BY Invariant, PTL DEF IInv

(* A live transaction owns its id: none shares it, none is deleted by      *)
(* another's rmself.                                                       *)
THEOREM OwnsEntry == Spec => []OwnEntry
BY Invariant, PTL DEF IInv

(* Entries leave the map only by the loop of their own box. *)
THEOREM OwnerRemoves == Spec => OnlyOwnerRemoves
<1> DEFINE Removal ==
      \A i \in Ids : transactions[i] # NoBox /\ transactions'[i] # transactions[i] =>
        /\ transactions'[i] = NoBox
        /\ loop[transactions[i]] = "rmself"
        /\ loop'[transactions[i]] = "finish"
<1>1. IInv /\ [Next]_vars => [Removal]_vars
  <2> SUFFICES ASSUME IInv, [Next]_vars, NEW i \in Ids,
                      transactions[i] # NoBox, transactions'[i] # transactions[i]
               PROVE  /\ transactions'[i] = NoBox
                      /\ loop[transactions[i]] = "rmself"
                      /\ loop'[transactions[i]] = "finish"
    BY DEF vars
  <2> USE DispatcherAssumption DEF IInv, TypeOK
  <2>1. ASSUME NEW c \in Callers, NEW a \in Boxes, AddStore(c, a) PROVE FALSE
    BY <2>1 DEF AddStore
  <2>2. ASSUME NEW a \in Boxes, RmSelf(a)
        PROVE  /\ transactions'[i] = NoBox
               /\ loop[transactions[i]] = "rmself"
               /\ loop'[transactions[i]] = "finish"
    <3>1. i = IdOf[a] /\ transactions'[i] = NoBox
      BY <2>2 DEF RmSelf
    <3>2. transactions[i] = a
      BY <2>2, <3>1 DEF RmSelf, LoopStep, Registered, OwnEntry
    <3> QED BY <2>2, <3>1, <3>2 DEF RmSelf, LoopStep
  <2>3. CASE Quiet
    BY <2>3 DEF Quiet
  <2> QED BY <2>1, <2>2, <2>3, QuietSteps
<1> QED
  BY <1>1, Invariant, PTL DEF Spec, OnlyOwnerRemoves

------------------------------------------------------------------------------
(* The dispatcher implements the registry. *)

(* Every step of the dispatcher is one of the registry, or none (krpc.go). *)
THEOREM Refines == Spec => Registry!Spec
<1> DEFINE phase == [b \in Boxes |-> Phase(b)]
<1>1. Init => Registry!Init
  BY DEF Init, Registry!Init, Phase, Registered
<1>2. IInv /\ [Next]_vars => [Registry!Next]_(Registry!vars)
  <2> SUFFICES ASSUME IInv, [Next]_vars,
                      ~ UNCHANGED Registry!vars
               PROVE  Registry!Next
    OBVIOUS
  <2> USE DispatcherAssumption DEF IInv, TypeOK, LoopStates
  <2>1. ASSUME NEW c \in Callers, NEW b \in Boxes, AddStore(c, b)
        PROVE  Registry!Register(b)
    <3>1. loop[b] = "unborn" /\ loop' = [loop EXCEPT ![b] = "stored"]
      BY <2>1 DEF AddStore, LoopStep
    <3>2. phase' = [phase EXCEPT ![b] = "registered"]
      BY <3>1 DEF Phase, Registered
    <3> QED BY <2>1, <3>1, <3>2 DEF AddStore, Registry!Register, Phase, Registered
  <2>2. ASSUME NEW b \in Boxes, RmSelf(b)
        PROVE  Registry!Unregister(b)
    <3>1. loop[b] = "rmself" /\ loop' = [loop EXCEPT ![b] = "finish"]
      BY <2>2 DEF RmSelf, LoopStep
    <3>2. phase' = [phase EXCEPT ![b] = "removed"]
      BY <3>1 DEF Phase, Registered
    <3>3. transactions' = [i \in Ids |-> IF transactions[i] = b THEN NoBox ELSE transactions[i]]
      \* b's own entry is under IdOf[b], and b has no other
      <4>1. \A i \in Ids : transactions[i] = b <=> i = IdOf[b]
        BY <3>1 DEF Registered, OwnEntry, EntriesAreServed
      <4> QED BY <4>1, <2>2 DEF RmSelf
    <3> QED BY <3>1, <3>2, <3>3 DEF Registry!Unregister, Phase, Registered
  <2>3. ASSUME NEW b \in Boxes, OnFinish(b)
        PROVE  Registry!Finish(b)
    <3>1. loop[b] = "finish" /\ loop' = [loop EXCEPT ![b] = "done"]
      BY <2>3 DEF OnFinish, LoopStep
    <3>2. phase' = [phase EXCEPT ![b] = "finished"]
      BY <3>1 DEF Phase, Registered
    <3> QED BY <2>3, <3>1, <3>2 DEF OnFinish, Registry!Finish, Phase, Registered
  <2>4. ASSUME NEW b \in Boxes, Collect(b)
        PROVE  Registry!Forget(b)
    <3>1. loop[b] = "done" /\ loop' = [loop EXCEPT ![b] = "unborn"]
      BY <2>4 DEF Collect, LoopStep
    <3>2. phase' = [phase EXCEPT ![b] = "new"]
      BY <3>1 DEF Phase, Registered
    <3> QED BY <2>4, <3>1, <3>2 DEF Collect, Registry!Forget, Phase, Registered
  <2>5. CASE UNCHANGED transactions /\ \A b \in Boxes : Phase(b)' = Phase(b)
    BY <2>5 DEF Registry!vars
  <2>6. ASSUME NEW x, NEW from, NEW to, UNCHANGED transactions, LoopStep(x, from, to),
               {from, to} \subseteq {"stored", "launch", "arm", "select", "timeout", "rmself"}
        PROVE  UNCHANGED transactions /\ \A b \in Boxes : Phase(b)' = Phase(b)
    BY <2>6 DEF LoopStep, Phase, Registered
  <2>7. ASSUME NEW c \in Callers, AddSpawn(c) \/ End(c) PROVE FALSE
    BY <2>5, <2>6, <2>7 DEF AddSpawn, End, Registry!vars
  <2>8. ASSUME NEW c \in Callers, KeepAlive(c) PROVE FALSE
    <3>1. \A b \in Boxes : Phase(b)' = Phase(b)
      BY <2>8 DEF KeepAlive, Phase, Registered
    <3> QED BY <2>8, <3>1 DEF KeepAlive, Registry!vars
  <2>9. ASSUME UNCHANGED <<transactions, loop>> PROVE FALSE
    BY <2>9 DEF Registry!vars, Phase, Registered
  <2>10. ASSUME NEW b \in Boxes, OnLaunch(b) \/ Arm(b) \/ Expire(b) PROVE FALSE
    BY <2>5, <2>6, <2>10 DEF OnLaunch, Arm, Expire, Registry!vars
  <2>11. ASSUME NEW b \in Boxes, NEW v \in TimeoutVerdicts, OnTimeout(b, v) PROVE FALSE
    BY <2>5, <2>6, <2>11 DEF OnTimeout, Registry!vars
  <2> QED
    BY <2>1, <2>2, <2>3, <2>4, <2>7, <2>8, <2>9, <2>10, <2>11
    DEF Next, CallerNext, LoopNext, RemoveLoad, DisposeLoad, Handle, Registry!Next, vars
<1> QED
  BY <1>1, <1>2, Invariant, PTL DEF Spec, Registry!Spec

------------------------------------------------------------------------------
(* A caller inside the dispatcher has a box, which is not garbage; the box *)
(* that an Add is about to start is its own.                               *)
HeldInv ==
  \A c \in Callers :
    /\ pc[c] # "idle" => held[c] \in Boxes /\ loop[held[c]] # "unborn"
    /\ pc[c] = "spawn" => /\ loop[held[c]] = "stored"
                          /\ \A d \in Callers \ {c} : pc[d] = "spawn" => held[d] # held[c]

(* Boxes come out of the map, where they are registered, or are new.       *)
LEMMA HeldStep == IInv /\ HeldInv /\ [Next]_vars => HeldInv'
<1> SUFFICES ASSUME IInv, HeldInv, [Next]_vars PROVE HeldInv'
  OBVIOUS
<1> USE DispatcherAssumption
    DEF IInv, TypeOK, LoopStates, HeldInv, LoopStep, Enter, Return, Advance
<1>1. ASSUME NEW c \in Callers, CallerNext(c) PROVE HeldInv'
  <2>1. ASSUME NEW b \in Boxes, AddStore(c, b) PROVE HeldInv'
    BY <2>1 DEF AddStore
  <2>2. CASE AddSpawn(c)
    BY <2>2 DEF AddSpawn
  <2>3. ASSUME NEW i \in Ids, NEW m, NEW s \in {"end", "alive"}, transactions[i] # NoBox,
               Enter(c, m, transactions[i], s), UNCHANGED <<transactions, loop>>
        PROVE  HeldInv'
    <3>1. transactions[i] \in Boxes /\ loop[transactions[i]] # "unborn"
      BY <2>3 DEF EntriesAreServed, Registered
    <3> QED BY <2>3, <3>1
  <2>4. CASE KeepAlive(c)
    BY <2>4 DEF KeepAlive
  <2>5. ASSUME NEW v \in ResponseVerdicts, Handle(c, v) PROVE HeldInv'
    BY <2>5 DEF Handle
  <2>6. CASE End(c)
    BY <2>6 DEF End
  <2> QED BY <1>1, <2>1, <2>2, <2>3, <2>4, <2>5, <2>6 DEF CallerNext, RemoveLoad, DisposeLoad
<1>2. ASSUME NEW b \in Boxes, OnLaunch(b) \/ Arm(b) \/ Expire(b) PROVE HeldInv'
  BY <1>2 DEF OnLaunch, Arm, Expire
<1>3. ASSUME NEW b \in Boxes, NEW v \in TimeoutVerdicts, OnTimeout(b, v) PROVE HeldInv'
  BY <1>3 DEF OnTimeout
<1>4. ASSUME NEW b \in Boxes, RmSelf(b) \/ OnFinish(b) \/ Collect(b) PROVE HeldInv'
  BY <1>4 DEF RmSelf, OnFinish, Collect
<1>5. CASE UNCHANGED vars
  BY <1>5 DEF vars
<1> QED BY <1>1, <1>2, <1>3, <1>4, <1>5 DEF Next, LoopNext

(* With the invariant it always holds. *)
LEMMA Held == Spec => [](IInv /\ HeldInv)
<1>1. Init => HeldInv
  BY DEF Init, HeldInv
<1> QED
  BY <1>1, HeldStep, Invariant, PTL DEF Spec

(* A request for the end is not taken back, and only the loop's select     *)
(* takes it; what has been told to end ends by itself.                     *)
EndIsKept ==
  /\ \A c \in Callers : pc[c] = "end" =>
       \/ pc'[c] = "end" /\ held'[c] = held[c]
       \/ pc'[c] = "idle" /\ loop[held[c]] = "select" /\ loop'[held[c]] = "rmself"
  /\ \A b \in Boxes :
       /\ loop[b] = "rmself" => loop'[b] \in {"rmself", "finish"}
       /\ loop[b] = "finish" => loop'[b] \in {"finish", "done"}

(* box.end has no buffer and is read in one place (krpc.go:70): no         *)
(* keep-alive, timeout or other caller loses the request (the safety part  *)
(* of EndIsServed).                                                        *)
THEOREM EndIsNotLost == Spec => [][EndIsKept]_vars
<1>1. IInv /\ HeldInv /\ [Next]_vars => [EndIsKept]_vars
  <2> SUFFICES ASSUME IInv, HeldInv, Next PROVE EndIsKept
    OBVIOUS
  <2> USE DispatcherAssumption
      DEF IInv, TypeOK, LoopStates, HeldInv, EndIsKept, LoopStep, Enter, Return, Advance
  <2>1. ASSUME NEW c \in Callers, CallerNext(c) PROVE EndIsKept
    <3>1. ASSUME NEW b \in Boxes, AddStore(c, b) PROVE EndIsKept
      BY <3>1 DEF AddStore
    <3>2. CASE AddSpawn(c)
      BY <3>2 DEF AddSpawn
    <3>3. ASSUME NEW i \in Ids, RemoveLoad(c, i) PROVE EndIsKept
      BY <3>3 DEF RemoveLoad
    <3>4. ASSUME NEW i \in Ids, NEW m \in Disposals, DisposeLoad(c, i, m) PROVE EndIsKept
      BY <3>4 DEF DisposeLoad
    <3>5. CASE KeepAlive(c)
      BY <3>5 DEF KeepAlive
    <3>6. ASSUME NEW v \in ResponseVerdicts, Handle(c, v) PROVE EndIsKept
      BY <3>6 DEF Handle
    <3>7. CASE End(c)
      BY <3>7 DEF End
    <3> QED BY <2>1, <3>1, <3>2, <3>3, <3>4, <3>5, <3>6, <3>7 DEF CallerNext
  <2>2. ASSUME NEW b \in Boxes, LoopNext(b) PROVE EndIsKept
    <3>1. CASE OnLaunch(b) \/ Arm(b) \/ Expire(b)
      BY <3>1 DEF OnLaunch, Arm, Expire
    <3>2. ASSUME NEW v \in TimeoutVerdicts, OnTimeout(b, v) PROVE EndIsKept
      BY <3>2 DEF OnTimeout
    <3>3. CASE RmSelf(b) \/ OnFinish(b)
      BY <3>3 DEF RmSelf, OnFinish
    <3>4. CASE Collect(b)
      BY <3>4 DEF Collect
    <3> QED BY <2>2, <3>1, <3>2, <3>3, <3>4 DEF LoopNext
  <2> QED BY <2>1, <2>2 DEF Next
<1> QED
  BY <1>1, Held, PTL DEF Spec

(* A caller that asks for the end of a transaction that has left its       *)
(* select for good.                                                        *)
ComesTooLate(c) == pc[c] = "end" /\ loop[held[c]] \in {"rmself", "finish", "done"}

(* Such a caller, which may be in Remove, waits for ever (krpc.go:53): the *)
(* counterexample of RemoveReturns is there for any ids, boxes and         *)
(* callers, and no later step repairs it.                                  *)
THEOREM LateEndWaitsForEver ==
  Spec => [][\A c \in Callers : ComesTooLate(c) => ComesTooLate(c)']_vars
<1> DEFINE Stays == \A c \in Callers : ComesTooLate(c) => ComesTooLate(c)'
<1>1. IInv /\ HeldInv /\ [Next]_vars => [Stays]_vars
  <2> SUFFICES ASSUME IInv, HeldInv, Next PROVE Stays
    OBVIOUS
  <2> USE DispatcherAssumption
      DEF IInv, TypeOK, LoopStates, HeldInv, ComesTooLate, LoopStep, Enter, Return, Advance
  <2>1. ASSUME NEW c \in Callers, CallerNext(c) PROVE Stays
    <3>1. ASSUME NEW b \in Boxes, AddStore(c, b) PROVE Stays
      BY <3>1 DEF AddStore
    <3>2. CASE AddSpawn(c)
      BY <3>2 DEF AddSpawn
    <3>3. ASSUME NEW i \in Ids, RemoveLoad(c, i) PROVE Stays
      BY <3>3 DEF RemoveLoad
    <3>4. ASSUME NEW i \in Ids, NEW m \in Disposals, DisposeLoad(c, i, m) PROVE Stays
      BY <3>4 DEF DisposeLoad
    <3>5. CASE KeepAlive(c)
      BY <3>5 DEF KeepAlive
    <3>6. ASSUME NEW v \in ResponseVerdicts, Handle(c, v) PROVE Stays
      BY <3>6 DEF Handle
    <3>7. CASE End(c)
      BY <3>7 DEF End
    <3> QED BY <2>1, <3>1, <3>2, <3>3, <3>4, <3>5, <3>6, <3>7 DEF CallerNext
  <2>2. ASSUME NEW b \in Boxes, LoopNext(b) PROVE Stays
    <3>1. CASE OnLaunch(b) \/ Arm(b) \/ Expire(b)
      BY <3>1 DEF OnLaunch, Arm, Expire
    <3>2. ASSUME NEW v \in TimeoutVerdicts, OnTimeout(b, v) PROVE Stays
      BY <3>2 DEF OnTimeout
    <3>3. CASE RmSelf(b) \/ OnFinish(b)
      BY <3>3 DEF RmSelf, OnFinish
    <3>4. CASE Collect(b)
      BY <3>4 DEF Collect
    <3> QED BY <2>2, <3>1, <3>2, <3>3, <3>4 DEF LoopNext
  <2> QED BY <2>1, <2>2 DEF Next
<1> QED
  BY <1>1, Held, PTL DEF Spec

==============================================================================
