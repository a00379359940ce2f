---------------------------- MODULE SybilCrawler ----------------------------
(***************************************************************************)
(* dht/crawler.go: one Crawl of a SybilCrawler, composed of                *)
(*   H, the Host whose Serv reads the socket and spawns the workers, and   *)
(*   D, the TransactionDispatcher with the crawler's one transaction,      *)
(* which share the workers: a response goes through DisposeResponse to     *)
(* OnResponse, a query straight to OnQuery.  Besides them run the loop of  *)
(* the transaction (OnLaunch, OnTimeout, OnFinish), the refresher that     *)
(* OnLaunch starts, and whoever calls Stimulate.                           *)
(*                                                                         *)
(* The node filter is taken as NodeFilter shows it to be: it may fail to   *)
(* keep a node whose AddNode was raced, and may take a node for known that *)
(* is not, so known is the set of nodes that it is sure to know.  Targets  *)
(* are random strings that do not repeat; target is the number of the      *)
(* current one.                                                            *)
(*                                                                         *)
(* A worker that panics ends the process: nothing in dht recovers from it, *)
(* and the worker pool, which is not under src, is taken not to, either.   *)
(***************************************************************************)
EXTENDS Naturals

CONSTANTS
  Packets, None, InBuffer,  \* as in Host
  TypeOf,          \* what is in a datagram
  SourceOf,        \* the node a datagram is from
  NodesOf,         \* the nodes a response tells of, if it decodes and has any
  Nodes,
  Workers,
  Crawl,           \* the goroutine that runs Crawl
  Tid,             \* the id of the transaction
  Box,             \* its transactionBox
  Stimulated,      \* somebody calls Stimulate
  MaxTarget        \* bound of this model: target and cleared saturate here

(* "stranger" has another transaction's id, "bad" arguments that do not    *)
(* decode; "plain" is find_node or a query that is not known.              *)
Responses == {"ours", "stranger"}
Queries == {"announce", "ping", "plain", "bad", "fatal", "fatalannounce"}

(* The queries whose sender has an id of 1 to 14 bytes, which makeID       *)
(* slices up to the 15th: a ping or get_peers, and an announce_peer.       *)
Fatal == {"fatal", "fatalannounce"}

(* The queries that are reported to crawCallback. *)
Reports == {"announce", "fatalannounce"}

ASSUME CrawlerAssumption ==
  /\ TypeOf \in [Packets -> Responses \cup Queries]
  /\ SourceOf \in [Packets -> Nodes]
  /\ NodesOf \in [Packets -> SUBSET Nodes]
  /\ None \notin Packets /\ None # Box
  /\ InBuffer \notin Packets /\ InBuffer # None
  /\ Crawl \notin Workers
  /\ Stimulated \in BOOLEAN
  /\ MaxTarget \in Nat

VARIABLES
  \* of the host and of the dispatcher
  cancelled, open, serv, buf, msg, args, job, seen, late,
  transactions, loop, pc, held, call,
  alive,      \* the process has not panicked
  crawl,      \* where Crawl is
  target,     \* transaction.target
  known,      \* nodes that the filter is sure to know
  finish,     \* transaction.finish has been closed
  refresher,  \* where the goroutine started by OnLaunch is
  refreshing, \* refreshing[r]: how far r is with a new target and an empty filter
  step,       \* step[w]: where worker w is inside OnResponse or OnQuery
  tgt,        \* tgt[w]: the target it read
  todo,       \* todo[w]: the nodes of the response that are still to come
  cleared,    \* history: the number of Resets
  since       \* history: since[w]: cleared when w came to depend on it

hostVars == <<cancelled, open, serv, buf, msg, args, job, seen, late>>
dispatcherVars == <<transactions, loop, pc, held, call>>
nodeVars == <<target, known, cleared>>
workVars == <<step, tgt, todo, since>>
ownVars == <<crawl, finish, refresher, refreshing>>
crawlVars == <<hostVars, dispatcherVars, nodeVars, workVars, ownVars>>
vars == <<crawlVars, alive>>

H == INSTANCE Host WITH
  KindOf <- [p \in Packets |-> IF TypeOf[p] \in Responses THEN "response" ELSE "query"]

D == INSTANCE TransactionDispatcher WITH
  Ids <- {Tid}, Boxes <- {Box}, NoBox <- None,
  IdOf <- [b \in {Box} |-> Tid], Callers <- Workers \cup {Crawl},
  ResponseVerdicts <- {TRUE}, TimeoutVerdicts <- {TRUE}

Steps == {"idle", "begin", "dispatched", "onresponse", "target", "nodes", "send",
          "qcheck", "qtarget", "qsend", "callback", "done"}

(* Who chooses a new target and then resets the filter. *)
Refreshers == {"timeout", "refresher", "stimulate"}

TypeOK ==
  /\ H!TypeOK
  /\ D!TypeOK
  /\ alive \in BOOLEAN
  /\ crawl \in {"ready", "adding", "serving", "removing", "returned"}
  /\ target \in 0..MaxTarget
  /\ known \subseteq Nodes
  /\ finish \in BOOLEAN
  /\ refresher \in {"off", "wait", "exit"}
  /\ refreshing \in [Refreshers -> {"idle", "change", "reset"}]
  /\ step \in [Workers -> Steps]
  /\ tgt \in [Workers -> 0..MaxTarget]
  /\ todo \in [Workers -> SUBSET Nodes]
  /\ cleared \in 0..MaxTarget
  /\ since \in [Workers -> 0..MaxTarget]
  \* a worker has a message exactly while it is at work
  /\ \A w \in Workers : step[w] = "idle" <=> seen[w] = None

Init ==
  /\ H!Init
  /\ D!Init
  /\ alive = TRUE
  /\ crawl = "ready"
  /\ target = 0
  /\ known = {}
  /\ finish = FALSE
  /\ refresher = "off"
  /\ refreshing = [r \in Refreshers |-> "idle"]
  /\ step = [w \in Workers |-> "idle"]
  /\ tgt = [w \in Workers |-> 0]
  /\ todo = [w \in Workers |-> {}]
  /\ cleared = 0
  /\ since = [w \in Workers |-> 0]

------------------------------------------------------------------------------
(* Crawl: a new host, handle and transaction, then Add. *)
CrawlAdd ==
  /\ crawl = "ready"
  /\ D!AddStore(Crawl, Box)
  /\ crawl' = "adding"
  /\ UNCHANGED <<hostVars, nodeVars, workVars, finish, refresher, refreshing>>

CrawlServ ==
  /\ crawl = "adding"
  /\ D!AddSpawn(Crawl)
  /\ H!ServStart
  /\ crawl' = "serving"
  /\ UNCHANGED <<nodeVars, workVars, finish, refresher, refreshing>>

(* The deferred dispatcher.Remove.  It finds the transaction, because      *)
(* nothing but this Remove ends it.                                        *)
CrawlRemove ==
  /\ crawl = "serving"
  /\ serv = "returned"
  /\ D!RemoveLoad(Crawl, Tid)
  /\ crawl' = "removing"
  /\ UNCHANGED <<hostVars, nodeVars, workVars, finish, refresher, refreshing>>

CrawlReturn ==
  /\ crawl = "removing"
  /\ D!End(Crawl)
  /\ crawl' = "returned"
  /\ UNCHANGED <<hostVars, nodeVars, workVars, finish, refresher, refreshing>>

(* Serv; the owner of the context; errors of the socket. *)
ServStep ==
  /\ \/ H!CheckCtx
     \/ \E p \in Packets : H!Read(p)
     \/ H!Dispose
     \/ \E w \in Workers : H!Spawn(w)
  /\ UNCHANGED <<dispatcherVars, nodeVars, workVars, ownVars>>

Interrupt ==
  /\ H!Cancel \/ H!ReadError
  /\ UNCHANGED <<dispatcherVars, nodeVars, workVars, ownVars>>

------------------------------------------------------------------------------
(* A refresh takes two steps: changeTarget, then filter.Reset. *)
ChangeTarget ==
  /\ target' = IF target < MaxTarget THEN target + 1 ELSE MaxTarget
  /\ UNCHANGED <<known, cleared>>

ResetFilter ==
  /\ known' = {}
  /\ cleared' = IF cleared < MaxTarget THEN cleared + 1 ELSE MaxTarget
  /\ UNCHANGED target

Refreshing(r, from, to) ==
  /\ refreshing[r] = from
  /\ refreshing' = [refreshing EXCEPT ![r] = to]

(* Mutant: the filter is reset before the target changes. *)
RefreshSwapped(r) ==
  /\ \/ Refreshing(r, "change", "reset") /\ ResetFilter
     \/ Refreshing(r, "reset", "idle") /\ ChangeTarget
  /\ UNCHANGED <<hostVars, dispatcherVars, workVars, crawl, finish, refresher>>

Refresh(r) ==
  /\ \/ Refreshing(r, "change", "reset") /\ ChangeTarget
     \/ Refreshing(r, "reset", "idle") /\ ResetFilter
  /\ UNCHANGED <<hostVars, dispatcherVars, workVars, crawl, finish, refresher>>

(* The loop of the transaction.  OnLaunch asks the bootstrap nodes, then   *)
(* starts the refresher.                                                   *)
OnLaunch ==
  /\ D!OnLaunch(Box)
  /\ refresher' = "wait"
  /\ UNCHANGED <<hostVars, nodeVars, workVars, crawl, finish, refreshing>>

LoopStep ==
  /\ D!Arm(Box) \/ D!RmSelf(Box)
  /\ UNCHANGED <<hostVars, nodeVars, workVars, ownVars>>

(* The timer fires: OnTimeout starts with a refresh ... *)
Expire ==
  /\ D!Expire(Box)
  /\ Refreshing("timeout", "idle", "change")
  /\ UNCHANGED <<hostVars, nodeVars, workVars, crawl, finish, refresher>>

(* ... and ends with the deferred boot, return true. *)
OnTimeout ==
  /\ refreshing["timeout"] = "idle"
  /\ D!OnTimeout(Box, TRUE)
  /\ UNCHANGED <<hostVars, nodeVars, workVars, ownVars>>

(* Mutant: OnFinish leaves the channel open. *)
OnFinishLeft ==
  /\ D!OnFinish(Box)
  /\ UNCHANGED <<hostVars, nodeVars, workVars, ownVars>>

(* OnFinish: close(transaction.finish). *)
OnFinish ==
  /\ D!OnFinish(Box)
  /\ finish' = TRUE
  /\ UNCHANGED <<hostVars, nodeVars, workVars, crawl, refresher, refreshing>>

(* The refresher: every minute, if the filter is full (which it may say    *)
(* after a race), a refresh; until finish is closed.                       *)
RefresherFull ==
  /\ refresher = "wait"
  /\ Refreshing("refresher", "idle", "change")
  /\ UNCHANGED <<hostVars, dispatcherVars, nodeVars, workVars, crawl, finish, refresher>>

RefresherExit ==
  /\ refresher = "wait"
  /\ refreshing["refresher"] = "idle"
  /\ finish
  /\ refresher' = "exit"
  /\ UNCHANGED <<hostVars, dispatcherVars, nodeVars, workVars, crawl, finish, refreshing>>

(* Stimulate refreshes crawler.transaction, which Crawl has set: whoever   *)
(* calls it earlier dereferences nil.                                      *)
Stimulate ==
  /\ Stimulated
  /\ crawl # "ready"
  /\ Refreshing("stimulate", "idle", "change")
  /\ UNCHANGED <<hostVars, dispatcherVars, nodeVars, workVars, crawl, finish, refresher>>

------------------------------------------------------------------------------
(* The workers. *)
Go(w, from, to) ==
  /\ step[w] = from
  /\ step' = [step EXCEPT ![w] = to]

Message(w) == seen[w]
Answers(w) == TypeOf[Message(w)] \in Responses

Begin(w) ==
  /\ H!Handle(w)
  /\ Go(w, "idle", "begin")
  /\ UNCHANGED <<dispatcherVars, nodeVars, tgt, todo, since, ownVars>>

End(w) ==
  /\ H!HandlerReturns(w)
  /\ Go(w, "done", "idle")
  /\ tgt' = [tgt EXCEPT ![w] = 0]
  /\ todo' = [todo EXCEPT ![w] = {}]
  /\ since' = [since EXCEPT ![w] = 0]
  /\ UNCHANGED <<dispatcherVars, nodeVars, ownVars>>

(* The dispatcher has no transaction of the id in the response. *)
NotOurs(w) ==
  /\ Go(w, "begin", "done")
  /\ Answers(w)
  /\ TypeOf[Message(w)] = "stranger" \/ transactions[Tid] = None
  /\ UNCHANGED <<hostVars, dispatcherVars, nodeVars, tgt, todo, since, ownVars>>

Load(w) ==
  /\ Go(w, "begin", "dispatched")
  /\ Answers(w)
  /\ TypeOf[Message(w)] # "stranger"
  /\ D!DisposeLoad(w, Tid, "DisposeResponse")
  /\ UNCHANGED <<hostVars, nodeVars, tgt, todo, since, ownVars>>

KeepAlive(w) ==
  /\ D!KeepAlive(w)
  /\ Go(w, "dispatched", "onresponse")
  /\ since' = [since EXCEPT ![w] = cleared]
  /\ UNCHANGED <<hostVars, nodeVars, tgt, todo, ownVars>>

(* OnResponse: the response does not decode, or has no nodes: return true. *)
NoNodes(w) ==
  /\ Go(w, "onresponse", "done")
  /\ D!Handle(w, TRUE)
  /\ UNCHANGED <<hostVars, nodeVars, tgt, todo, since, ownVars>>

(* filter.AddNode, which may be undone by a race ... *)
AddNode(w) ==
  /\ Go(w, "onresponse", "target")
  /\ known' \in {known, known \cup {SourceOf[Message(w)]}}
  /\ UNCHANGED <<hostVars, dispatcherVars, target, cleared, tgt, todo, since, ownVars>>

(* ... and the target for all the nodes of the response.                   *)
ReadTarget(w) ==
  /\ Go(w, "target", "nodes")
  /\ tgt' = [tgt EXCEPT ![w] = target]
  /\ todo' = [todo EXCEPT ![w] = NodesOf[Message(w)]]
  /\ UNCHANGED <<hostVars, dispatcherVars, nodeVars, since, ownVars>>

(* Check one node: a node that is sure to be known is not admitted, any    *)
(* other is unless the bloom filter errs.                                  *)
CheckNode(w, nd) ==
  /\ nd \in todo[w]
  /\ \/ Go(w, "nodes", "nodes")
     \/ nd \notin known /\ Go(w, "nodes", "send")
  /\ todo' = [todo EXCEPT ![w] = @ \ {nd}]
  /\ UNCHANGED <<hostVars, dispatcherVars, nodeVars, tgt, since, ownVars>>

(* findTargetNode. *)
Send(w) ==
  /\ Go(w, "send", "nodes")
  /\ UNCHANGED <<hostVars, dispatcherVars, nodeVars, tgt, todo, since, ownVars>>

ResponseReturns(w) ==
  /\ todo[w] = {}
  /\ Go(w, "nodes", "done")
  /\ D!Handle(w, TRUE)
  /\ UNCHANGED <<hostVars, nodeVars, tgt, todo, since, ownVars>>

(* OnQuery: arguments that do not decode are a return.  The others are     *)
(* answered or, for find_node and unknown queries, not.  With the id of a  *)
(* fatal announce_peer makeID panics, but crawCallback is deferred by then *)
(* and runs first.                                                         *)
Answer(w) ==
  /\ step[w] = "begin"
  /\ ~Answers(w)
  /\ TypeOf[Message(w)] # "fatal"
  /\ Go(w, "begin", CASE TypeOf[Message(w)] = "bad" -> "done"
                      [] TypeOf[Message(w)] \in Fatal -> "callback"
                      [] OTHER -> "qcheck")
  /\ UNCHANGED <<hostVars, dispatcherVars, nodeVars, tgt, todo, since, ownVars>>

(* The process ends where it is. *)
Dies ==
  /\ alive' = FALSE
  /\ UNCHANGED crawlVars

(* makeID: dst[:15] of an id that is shorter. *)
AnswerPanics(w) ==
  /\ step[w] = "begin"
  /\ TypeOf[Message(w)] = "fatal"
  /\ Dies

(* The deferred crawCallback of an announce_peer. *)
Deferred(w) == IF TypeOf[Message(w)] \in Reports THEN "callback" ELSE "done"

(* Mutant: the callback is not deferred but called for nodes that are      *)
(* asked for more.                                                         *)
CheckSourceReturns(w) ==
  /\ step[w] = "qcheck"
  /\ \/ Go(w, "qcheck", "done")
     \/ SourceOf[Message(w)] \notin known /\ Go(w, "qcheck", "qtarget")
  /\ since' = [since EXCEPT ![w] = cleared]
  /\ UNCHANGED <<hostVars, dispatcherVars, nodeVars, tgt, todo, ownVars>>

CheckSource(w) ==
  /\ step[w] = "qcheck"
  /\ \/ Go(w, "qcheck", Deferred(w))
     \/ SourceOf[Message(w)] \notin known /\ Go(w, "qcheck", "qtarget")
  /\ since' = [since EXCEPT ![w] = cleared]
  /\ UNCHANGED <<hostVars, dispatcherVars, nodeVars, tgt, todo, ownVars>>

ReadTargetForSource(w) ==
  /\ Go(w, "qtarget", "qsend")
  /\ tgt' = [tgt EXCEPT ![w] = target]
  /\ UNCHANGED <<hostVars, dispatcherVars, nodeVars, todo, since, ownVars>>

SendToSource(w) ==
  /\ step[w] = "qsend"
  /\ Go(w, "qsend", Deferred(w))
  /\ UNCHANGED <<hostVars, dispatcherVars, nodeVars, tgt, todo, since, ownVars>>

(* The callback, which may download metadata for minutes, returns; in a    *)
(* fatal announce_peer the panic goes on.                                  *)
CallbackReturns(w) ==
  /\ Go(w, "callback", "done")
  /\ TypeOf[Message(w)] \notin Fatal
  /\ UNCHANGED <<hostVars, dispatcherVars, nodeVars, tgt, todo, since, ownVars>>

(* The callback panics, or was deferred in a handler that did. *)
CallbackPanics(w) ==
  /\ step[w] = "callback"
  /\ Dies

------------------------------------------------------------------------------
WorkerStep(w) ==
  \/ Begin(w) \/ End(w)
  \/ NotOurs(w) \/ Load(w) \/ KeepAlive(w) \/ NoNodes(w)
  \/ AddNode(w) \/ ReadTarget(w) \/ (\E nd \in Nodes : CheckNode(w, nd)) \/ Send(w)
  \/ ResponseReturns(w)
  \/ Answer(w) \/ CheckSource(w) \/ ReadTargetForSource(w) \/ SendToSource(w)

CrawlStep == CrawlAdd \/ CrawlServ \/ CrawlRemove \/ CrawlReturn

BoxStep == OnLaunch \/ LoopStep \/ OnTimeout \/ OnFinish

(* Everything but the callback. *)
Crawling ==
  \/ CrawlStep \/ ServStep \/ Interrupt
  \/ BoxStep \/ Expire
  \/ RefresherFull \/ RefresherExit \/ Stimulate
  \/ \E r \in Refreshers : Refresh(r)
  \/ \E w \in Workers : WorkerStep(w)

(* What anybody does, they do in a process that is alive. *)
Running(A) == alive /\ A /\ UNCHANGED alive

(* A process that has died does nothing any more. *)
Dead == ~alive /\ UNCHANGED vars

Next ==
  \/ Running(Crawling \/ \E w \in Workers : CallbackReturns(w))
  \/ alive /\ \E w \in Workers : AnswerPanics(w) \/ CallbackPanics(w)
  \/ Dead

Spec == Init /\ [][Next]_vars

(* Every goroutine runs on, datagrams keep coming; nobody need cancel,     *)
(* stimulate or find a timer expired, and a callback need not return.  The *)
(* loop's select does not pass over the send in Remove for ever, nor the   *)
(* refresher's the closed finish: select picks a ready case at random.     *)
Fairness ==
  /\ WF_vars(Running(CrawlAdd)) /\ WF_vars(Running(CrawlServ))
  /\ WF_vars(Running(CrawlRemove)) /\ SF_vars(Running(CrawlReturn))
  /\ WF_vars(Running(ServStep))
  /\ WF_vars(Running(BoxStep))
  /\ SF_vars(Running(RefresherExit))
  /\ \A r \in Refreshers : WF_vars(Running(Refresh(r)))
  /\ \A w \in Workers : WF_vars(Running(WorkerStep(w)))

------------------------------------------------------------------------------
(* A node that is admitted by an empty filter is asked for the new target: *)
(* a query's sender gets a target no older than the last Reset before its  *)
(* Check, the nodes of a response one no older than the last Reset before  *)
(* OnResponse.  (They may get an older one than the last Reset before      *)
(* their own Check: OnResponse reads the target once, crawler.go:190.)     *)
TargetIsFresh ==
  \A w \in Workers : step[w] \in {"send", "qsend"} => tgt[w] >= since[w]
==============================================================================
