----------------------------- MODULE HostProofs -----------------------------
(***************************************************************************)
(* Proofs about Host, for any datagrams and any number of workers.         *)
(***************************************************************************)
EXTENDS Host, TLAPS

(* The invariant holds at the start. *)
LEMMA InvariantInit == Init => IInv
BY DEF Init, IInv, TypeOK, ServStates, Memory, OwnMemory, OneHandlerEach

(* Every step keeps the invariant. *)
LEMMA InvariantStep == IInv /\ [Next]_vars => IInv'
<1> SUFFICES ASSUME IInv, [Next]_vars PROVE IInv'
  OBVIOUS
<1> USE HostAssumption DEF IInv, TypeOK, ServStates, Memory, OwnMemory, OneHandlerEach
<1>1. CASE Cancel
  BY <1>1 DEF Cancel
<1>2. CASE ServStart
  BY <1>2 DEF ServStart
<1>3. CASE CheckCtx
  BY <1>3 DEF CheckCtx
<1>4. ASSUME NEW p \in Packets, Read(p) PROVE IInv'
  BY <1>4 DEF Read, OnTheWire
<1>5. CASE ReadError
  BY <1>5 DEF ReadError
<1>6. CASE Dispose
  \* what the message keeps is a copy of what is in the buffer
  BY <1>6 DEF Dispose, Decode, Contents
<1>7. ASSUME NEW w \in Workers, Spawn(w) PROVE IInv'
  \* no handler has looked at w's new message: the old one is gone
  <2>1. seen[w] = None
    BY <1>7 DEF Spawn
  <2> QED BY <1>7, <2>1 DEF Spawn, Hand
<1>8. ASSUME NEW w \in Workers, Handle(w) PROVE IInv'
  \* the arguments are not in the buffer, so what is there now does not matter
  <2>1. Contents(args[w]) = job[w]
    BY DEF Contents
  <2> QED BY <1>8, <2>1 DEF Handle
<1>9. ASSUME NEW w \in Workers, HandlerReturns(w) PROVE IInv'
  BY <1>9 DEF HandlerReturns
<1>10. CASE UNCHANGED vars
  BY <1>10 DEF vars
<1> QED
  BY <1>1, <1>2, <1>3, <1>4, <1>5, <1>6, <1>7, <1>8, <1>9, <1>10
  DEF Next, ServNext, WorkerNext

(* The invariant always holds. *)
LEMMA Invariant == Spec => []IInv
BY InvariantInit, InvariantStep, PTL DEF Spec

(* Type correctness of the host. *)
THEOREM TypeCorrect == Spec => []TypeOK
BY Invariant, PTL DEF IInv

(* A handler finds the message it was spawned for whenever it looks,       *)
(* although Serv has long reused its buffer: what it looks at is no part   *)
(* of the buffer (OwnMemory), because Unmarshal has copied it.             *)
THEOREM MessagesAreTheirOwn == Spec => []HandlersSeeTheirMessage
<1>1. IInv => HandlersSeeTheirMessage
  BY HostAssumption DEF IInv, TypeOK, OwnMemory, Contents, HandlersSeeTheirMessage
<1> QED
  BY <1>1, Invariant, PTL

(* No datagram is handled by two workers. *)
THEOREM HandledOnce == Spec => []OneHandlerEach
BY Invariant, PTL DEF IInv

(* After the cancellation Serv reads at most one datagram. *)
THEOREM StopsReading == Spec => OneReadAfterCancel
<1>1. IInv => ~(late /\ serv = "read")
  BY DEF IInv
<1> QED
  BY <1>1, Invariant, PTL DEF OneReadAfterCancel

(* What no step does to a message that Serv has accepted: Serv goes on to  *)
(* the next datagram only after a free worker has this one, and the worker *)
(* is free again only after a handler has run on it.                       *)
AcceptedIsKept ==
  /\ serv = "spawn" =>
       \/ serv' = "spawn" /\ buf' = buf
       \/ \E w \in Workers : job[w] = None /\ job'[w] = buf
  /\ \A w \in Workers : job[w] # None =>
       job'[w] = job[w] \/ (job'[w] = None /\ seen[w] = job[w])

(* WaitSpawn loses no message although all workers may be busy             *)
(* (dht.go:174-189): the safety part of AcceptedIsHandled.                 *)
THEOREM NoMessageIsLost == Spec => [][AcceptedIsKept]_vars
<1>1. IInv /\ [Next]_vars => [AcceptedIsKept]_vars
  <2> SUFFICES ASSUME IInv, Next PROVE AcceptedIsKept
    OBVIOUS
  <2> USE DEF IInv, TypeOK, OwnMemory, AcceptedIsKept
  <2>1. CASE Cancel \/ ServNext
    BY <2>1 DEF Cancel, ServNext, ServStart, CheckCtx, Read, ReadError, Dispose
  <2>2. ASSUME NEW w \in Workers, Spawn(w) PROVE AcceptedIsKept
    BY <2>2 DEF Spawn, Hand
  <2>3. ASSUME NEW w \in Workers, Handle(w) \/ HandlerReturns(w) PROVE AcceptedIsKept
    BY <2>3 DEF Handle, HandlerReturns
  <2> QED BY <2>1, <2>2, <2>3 DEF Next, WorkerNext
<1> QED
  BY <1>1, Invariant, PTL DEF Spec
==============================================================================
