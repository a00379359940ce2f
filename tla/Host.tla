-------------------------------- MODULE Host --------------------------------
(***************************************************************************)
(* dht/dht.go: Host.Serv, the one goroutine that reads the UDP socket, and *)
(* the worker pool that runs the MessageDisposer.                          *)
(*                                                                         *)
(* A packet is a datagram on its way through the program; when its handler *)
(* has returned, its name stands for a new datagram of the same kind.  The *)
(* workers belong to github.com/neoql/workerpool: WaitSpawn waits for a    *)
(* free one of maxWorkers and gives it the arguments.                      *)
(***************************************************************************)
CONSTANTS
  Packets,  \* datagrams
  None,     \* no packet
  InBuffer, \* a slice of Serv's buffer: its contents are whatever is there
  KindOf,   \* what disposeMessage makes of a datagram
  Workers   \* goroutines of the worker pool, maxWorkers of them

(* "query" and "response" reach the disposer.  "dropped" is everything     *)
(* else: an undecodable datagram, a panic in disposeMessage, an error      *)
(* message, an unknown "y".                                                *)
Kinds == {"query", "response", "dropped"}

ASSUME HostAssumption ==
  /\ None \notin Packets /\ InBuffer \notin Packets /\ InBuffer # None
  /\ KindOf \in [Packets -> Kinds]

VARIABLES
  cancelled, \* ctx.Done() is closed
  open,      \* the socket is open
  serv,      \* where Serv is
  buf,       \* the datagram in Serv's only buffer
  msg,       \* the memory of the message that Serv has decoded
  args,      \* args[w]: the memory of the message that worker w was given
  job,       \* history: job[w]: the datagram worker w was spawned for
  seen,      \* seen[w]: the datagram whose contents the handler of w found
  late       \* history: a datagram was read after the cancellation

vars == <<cancelled, open, serv, buf, msg, args, job, seen, late>>

(* Memory that a message may live in: of its own, with the datagram that   *)
(* was copied there, or Serv's buffer.                                     *)
Memory == Packets \cup {None, InBuffer}

(* What somebody who reads the memory m now will find. *)
Contents(m) == IF m = InBuffer THEN buf ELSE m

(* Mutant: the decoder works on the data in place, as some decoders do.    *)
DecodeInPlace(data) == data

(* Unmarshal copies: the decoder reads the data through a buffer of its    *)
(* own into another, which RawMessage.UnmarshalBencode copies once more;   *)
(* strings are made from a third.                                          *)
Decode(data) == Contents(data)

ServStates == {"start", "check", "read", "dispose", "spawn", "returned"}

TypeOK ==
  /\ cancelled \in BOOLEAN
  /\ open \in BOOLEAN
  /\ serv \in ServStates
  /\ buf \in Packets \cup {None}
  /\ msg \in Memory
  /\ args \in [Workers -> Memory]
  /\ job \in [Workers -> Packets \cup {None}]
  /\ seen \in [Workers -> Packets \cup {None}]
  /\ late \in BOOLEAN
  \* what Serv disposes of was read from the socket
  /\ buf = None => serv \notin {"dispose", "spawn"}

Init ==
  /\ cancelled = FALSE
  /\ open = TRUE
  /\ serv = "start"
  /\ buf = None
  /\ msg = None
  /\ args = [w \in Workers |-> None]
  /\ job = [w \in Workers |-> None]
  /\ seen = [w \in Workers |-> None]
  /\ late = FALSE

------------------------------------------------------------------------------
(* The context is cancelled by whoever owns it, at any time. *)
Cancel ==
  /\ ~cancelled
  /\ cancelled' = TRUE
  /\ UNCHANGED <<open, serv, buf, msg, args, job, seen, late>>

(* Serv is entered: the pool is made and started. *)
ServStart ==
  /\ serv = "start"
  /\ serv' = "check"
  /\ UNCHANGED <<cancelled, open, buf, msg, args, job, seen, late>>

(* Mutant: the context is looked at only before the loop. *)
CheckCtxOnce ==
  /\ serv = "check"
  /\ serv' = "read"
  /\ UNCHANGED <<cancelled, open, buf, msg, args, job, seen, late>>

(* The select on ctx.Done() with a default: leave the loop, and with it    *)
(* close the socket, or go on to read.                                     *)
CheckCtx ==
  /\ serv = "check"
  /\ serv' = IF cancelled THEN "returned" ELSE "read"
  /\ open' = (open /\ ~cancelled)
  /\ UNCHANGED <<cancelled, buf, msg, args, job, seen, late>>

(* A datagram that no handler is busy with is new on the wire. *)
OnTheWire(p) == \A w \in Workers : job[w] # p /\ seen[w] # p

(* ReadFromUDP blocks without a deadline until a datagram comes, and       *)
(* overwrites the one buffer.                                              *)
Read(p) ==
  /\ serv = "read"
  /\ OnTheWire(p)
  /\ serv' = "dispose"
  /\ buf' = p
  /\ late' = (late \/ cancelled)
  /\ UNCHANGED <<cancelled, open, msg, args, job, seen>>

(* ReadFromUDP fails: continue. *)
ReadError ==
  /\ serv = "read"
  /\ serv' = "check"
  /\ UNCHANGED <<cancelled, open, buf, msg, args, job, seen, late>>

(* disposeMessage up to the call of the disposer proxy: Unmarshal decodes  *)
(* the slice of the buffer into a Message of its own.                      *)
Dispose ==
  /\ serv = "dispose"
  /\ IF KindOf[buf] = "dropped"
     THEN serv' = "check" /\ UNCHANGED msg
     ELSE serv' = "spawn" /\ msg' = Decode(InBuffer)
  /\ UNCHANGED <<cancelled, open, buf, args, job, seen, late>>

(* The worker w gets the message, and with it its memory. *)
Hand(w) ==
  /\ args' = [args EXCEPT ![w] = msg]
  /\ job' = [job EXCEPT ![w] = buf]

(* Mutant: Serv does not wait when all workers are busy. *)
SpawnOrDrop(w) ==
  /\ serv = "spawn"
  /\ serv' = "check"
  /\ msg' = None
  /\ IF job[w] = None THEN Hand(w) ELSE UNCHANGED <<args, job>>
  /\ UNCHANGED <<cancelled, open, buf, seen, late>>

(* Mutant: WaitSpawn is called again for the same message. *)
SpawnTwice(w) ==
  /\ serv = "spawn"
  /\ job[w] = None
  /\ serv' \in {"spawn", "check"}
  /\ Hand(w)
  /\ UNCHANGED <<cancelled, open, buf, msg, seen, late>>

(* WaitSpawn finds the worker w free. *)
Spawn(w) ==
  /\ serv = "spawn"
  /\ job[w] = None
  /\ serv' = "check"
  /\ Hand(w)
  /\ msg' = None
  /\ UNCHANGED <<cancelled, open, buf, seen, late>>

(* The worker runs the disposer, which decodes the arguments: by now Serv  *)
(* may have read other datagrams.                                          *)
Handle(w) ==
  /\ job[w] # None
  /\ seen[w] = None
  /\ seen' = [seen EXCEPT ![w] = Contents(args[w])]
  /\ UNCHANGED <<cancelled, open, serv, buf, msg, args, job, late>>

(* The disposer returns and the worker is free again. *)
HandlerReturns(w) ==
  /\ seen[w] # None
  /\ args' = [args EXCEPT ![w] = None]
  /\ job' = [job EXCEPT ![w] = None]
  /\ seen' = [seen EXCEPT ![w] = None]
  /\ UNCHANGED <<cancelled, open, serv, buf, msg, late>>

------------------------------------------------------------------------------
WorkerNext(w) == Spawn(w) \/ Handle(w) \/ HandlerReturns(w)

ServNext ==
  \/ ServStart
  \/ CheckCtx
  \/ \E p \in Packets : Read(p)
  \/ ReadError
  \/ Dispose

Next == Cancel \/ ServNext \/ (\E w \in Workers : WorkerNext(w))

Spec == Init /\ [][Next]_vars

(* Serv and the workers run, handlers return, and datagrams keep coming:   *)
(* without the last, ReadFromUDP blocks for ever and Serv with it.         *)
Fairness ==
  /\ WF_vars(ServStart)
  /\ WF_vars(CheckCtx)
  /\ WF_vars(\E p \in Packets : Read(p))
  /\ WF_vars(Dispose)
  /\ WF_vars(\E w \in Workers : Spawn(w))
  /\ \A w \in Workers : WF_vars(Handle(w)) /\ WF_vars(HandlerReturns(w))

FairSpec == Spec /\ Fairness

------------------------------------------------------------------------------
(* Serv reads the next datagrams into the buffer of the one before while   *)
(* the handler of that one is still to run or is running: from the spawn   *)
(* to its return, the handler finds the message as it was received,        *)
(* whenever it looks (dht.go:71, 88; copied at docode.go:111).             *)
HandlersSeeTheirMessage ==
  \A w \in Workers : job[w] # None =>
    /\ Contents(args[w]) = job[w]
    /\ seen[w] \in {None, job[w]}

(* One datagram, one handler: no two workers run for the same message, and *)
(* the message that waits for a worker has none yet.                       *)
OneHandlerEach ==
  /\ \A v, w \in Workers : v # w /\ job[v] # None => job[v] # job[w]
  /\ serv = "spawn" => \A w \in Workers : job[w] # buf

(* The inductive invariant: messages live in memory of their own, what     *)
(* Serv is disposing of has no worker yet, and after the return nothing    *)
(* was left half done.                                                     *)
OwnMemory ==
  /\ serv = "spawn" => msg = buf
  /\ \A w \in Workers : args[w] = job[w]
  /\ \A w \in Workers : seen[w] \in {None, job[w]}

IInv ==
  /\ TypeOK
  /\ OwnMemory
  /\ OneHandlerEach
  /\ serv = "dispose" => \A w \in Workers : job[w] # buf
  /\ late => cancelled
  /\ late => serv # "read"
  /\ open <=> serv # "returned"

(* The context is looked at before every read: of the datagrams that come  *)
(* after the cancellation Serv reads at most one, the one it was already   *)
(* waiting for.                                                            *)
OneReadAfterCancel ==
  [][serv = "read" /\ serv' = "dispose" => ~late]_vars

(* The socket is closed once, when Serv returns, and Serv reads no closed  *)
(* socket; a cancelled Serv does return as long as datagrams arrive, even  *)
(* when every worker was busy.                                             *)
CancelStopsServ == cancelled /\ serv # "start" ~> serv = "returned" /\ ~open

(* WaitSpawn is back-pressure, not loss: a query or response that was read *)
(* is handled, whatever happens to the context meanwhile.                  *)
AcceptedIsHandled ==
  \A p \in Packets :
    serv = "dispose" /\ buf = p /\ KindOf[p] # "dropped"
      ~> \E w \in Workers : seen[w] = p
==============================================================================
