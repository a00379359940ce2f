---------------------------- MODULE SpiderProofs ----------------------------
(***************************************************************************)
(* Proofs about SybilCrawler and Spider, for any datagrams, nodes and      *)
(* workers.  The crawler is a composition: HostInside and DispatcherInside *)
(* show that it is one for each of its parts, so that what HostProofs and  *)
(* TransactionDispatcherProofs prove of the parts holds inside the crawler,*)
(* too (HP and DP).  What is proved here besides is about the parts        *)
(* together: where the workers, the loop, the refresher and Crawl are with *)
(* respect to each other (TogetherInv), and what a worker knows of the     *)
(* target (FreshInv).                                                      *)
(***************************************************************************)
EXTENDS Spider, TLAPS

HP == INSTANCE HostProofs WITH
  KindOf <- [p \in Packets |-> IF TypeOf[p] \in Responses THEN "response" ELSE "query"]

DP == INSTANCE TransactionDispatcherProofs WITH
  Ids <- {Tid}, Boxes <- {Box}, NoBox <- None,
  IdOf <- [b \in {Box} |-> Tid], Callers <- Workers \cup {Crawl},
  ResponseVerdicts <- {TRUE}, TimeoutVerdicts <- {TRUE}

------------------------------------------------------------------------------
(* The crawler's own part of TypeOK. *)
OwnTypes ==
  /\ crawl \in {"ready", "adding", "serving", "removing", "returned"}
  /\ target \in 0..MaxTarget
  /\ known \subseteq Nodes
  /\ finish \in BOOLEAN
  /\ refresher \in {"off", "wait", "exit"}
  /\ refreshing \in [Refreshers -> {"idle", "change", "reset"}]
  /\ step \in [Workers -> Steps]
  /\ tgt \in [Workers -> 0..MaxTarget]
  /\ todo \in [Workers -> SUBSET Nodes]
  /\ cleared \in 0..MaxTarget
  /\ since \in [Workers -> 0..MaxTarget]

(* A worker has a message exactly while it is at work. *)
BusyInv == \A w \in Workers : step[w] = "idle" <=> seen[w] = None

(* The dispatcher's view of a worker is the worker's own. *)
WorkerInv ==
  \A w \in Workers :
    /\ pc[w] = IF step[w] = "dispatched" THEN "alive"
               ELSE IF step[w] \in {"onresponse", "target", "nodes", "send"} THEN "handle"
               ELSE "idle"
    /\ step[w] = "dispatched" => held[w] = Box

(* The box between Add and the end that Remove asks for. *)
Serving == {"launch", "arm", "select", "timeout"}

(* Crawl and the loop of its transaction. *)
CrawlInv ==
  /\ crawl = "ready" => pc[Crawl] = "idle" /\ loop[Box] = "unborn"
  /\ crawl = "adding" => pc[Crawl] = "spawn" /\ held[Crawl] = Box /\ loop[Box] = "stored"
  /\ crawl = "serving" => pc[Crawl] = "idle" /\ loop[Box] \in Serving
  /\ crawl = "removing" => pc[Crawl] = "end" /\ held[Crawl] = Box /\ loop[Box] \in Serving
  /\ crawl = "returned" => pc[Crawl] = "idle" /\ loop[Box] \in {"rmself", "finish", "done"}
  /\ serv = "start" <=> crawl \in {"ready", "adding"}

(* The loop, the channel finish and the refresher. *)
RefresherInv ==
  /\ refresher = "off" <=> loop[Box] \in {"unborn", "stored", "launch"}
  /\ finish <=> loop[Box] = "done"
  /\ refresher = "exit" => finish
  /\ refreshing["timeout"] # "idle" => loop[Box] = "timeout"
  /\ refreshing["refresher"] # "idle" => refresher = "wait"

TogetherInv == BusyInv /\ WorkerInv /\ CrawlInv /\ RefresherInv

(* The refreshes that have changed the target and not yet reset the filter. *)
Pending(r) == IF refreshing[r] = "reset" THEN 1 ELSE 0

(* Every Reset comes after a change of target of its own; a worker that    *)
(* read the target after it came to depend on the Resets read one that is  *)
(* at least as young.                                                      *)
FreshInv ==
  /\ \/ target = MaxTarget
     \/ cleared + Pending("timeout") + Pending("refresher") + Pending("stimulate") <= target
  /\ \A w \in Workers :
       /\ since[w] <= cleared
       /\ step[w] \in {"nodes", "send", "qsend"} => since[w] <= tgt[w]

IInv == alive \in BOOLEAN /\ OwnTypes /\ TogetherInv /\ FreshInv

------------------------------------------------------------------------------
(* A step is one of the crawler in a process that is alive, or changes     *)
(* nothing but that.                                                       *)
LEMMA StepCases ==
  [Next]_vars => \/ Crawling /\ UNCHANGED alive
                 \/ (\E w \in Workers : CallbackReturns(w)) /\ UNCHANGED alive
                 \/ UNCHANGED crawlVars /\ alive' \in {alive, FALSE}
BY DEF Next, Running, AnswerPanics, CallbackPanics, Dies, Dead, vars

(* The projection of the crawler on its host is a host: every action takes *)
(* one action of the host, or none.                                        *)
LEMMA HostStep == [Next]_vars => [HP!Next]_(HP!vars)
<1> SUFFICES ASSUME [Next]_vars PROVE [HP!Next]_(HP!vars)
  OBVIOUS
<1> USE DEF hostVars, HP!vars, HP!Next, HP!ServNext, HP!WorkerNext
<1>1. CASE UNCHANGED hostVars
  BY <1>1
<1>2. CASE CrawlServ
  BY <1>2 DEF CrawlServ, H!ServStart, HP!ServStart
<1>3. CASE ServStep
  BY <1>3 DEF ServStep, H!CheckCtx, HP!CheckCtx, H!Read, HP!Read, H!OnTheWire, HP!OnTheWire,
              H!Dispose, HP!Dispose, H!Decode, HP!Decode, H!Contents, HP!Contents,
              H!Spawn, HP!Spawn, H!Hand, HP!Hand
<1>4. CASE Interrupt
  BY <1>4 DEF Interrupt, H!Cancel, HP!Cancel, H!ReadError, HP!ReadError
<1>5. ASSUME NEW w \in Workers, Begin(w) PROVE HP!Next
  BY <1>5 DEF Begin, H!Handle, HP!Handle, H!Contents, HP!Contents
<1>6. ASSUME NEW w \in Workers, End(w) PROVE HP!Next
  BY <1>6 DEF End, H!HandlerReturns, HP!HandlerReturns
<1>7. CASE \/ CrawlAdd \/ CrawlRemove \/ CrawlReturn \/ BoxStep \/ Expire
           \/ RefresherFull \/ RefresherExit \/ Stimulate
           \/ \E r \in Refreshers : Refresh(r)
  <2>1. UNCHANGED hostVars
    BY <1>7 DEF CrawlAdd, CrawlRemove, CrawlReturn, BoxStep, OnLaunch, LoopStep, OnTimeout,
                OnFinish, Expire, RefresherFull, RefresherExit, Stimulate, Refresh
  <2> QED BY <2>1
<1>8. ASSUME NEW w \in Workers, WorkerStep(w) \/ CallbackReturns(w), ~Begin(w), ~End(w)
      PROVE  UNCHANGED hostVars
  BY <1>8 DEF WorkerStep, NotOurs, Load, KeepAlive, NoNodes, AddNode, ReadTarget, CheckNode,
              Send, ResponseReturns, Answer, CheckSource, ReadTargetForSource, SendToSource,
              CallbackReturns
<1>9. CASE UNCHANGED crawlVars
  BY <1>9 DEF crawlVars
<1> QED
  BY <1>1, <1>2, <1>3, <1>4, <1>5, <1>6, <1>7, <1>8, <1>9, StepCases DEF Crawling, CrawlStep

(* The crawler contains a host: each of its steps, of whatever goroutine,  *)
(* is a step of Serv or of a worker (dht.go), or leaves them alone.        *)
THEOREM HostInside == Spec => HP!Spec
<1>1. Init => HP!Init
  BY DEF Init, H!Init, HP!Init
<1> QED
  BY <1>1, HostStep, PTL DEF Spec, HP!Spec

(* The same for the dispatcher, whose callers are the workers and Crawl,   *)
(* and which has one transaction.                                          *)
LEMMA DispatcherStep == [Next]_vars => [DP!Next]_(DP!vars)
<1> SUFFICES ASSUME [Next]_vars PROVE [DP!Next]_(DP!vars)
  OBVIOUS
<1> USE DEF dispatcherVars, DP!vars, DP!Next
<1>1. CASE UNCHANGED dispatcherVars
  BY <1>1
<1>2. CASE CrawlStep
  <2> SUFFICES DP!CallerNext(Crawl)
    OBVIOUS
  <2>1. CASE CrawlAdd
    BY <2>1 DEF CrawlAdd, D!AddStore, DP!AddStore, D!Enter, DP!Enter, D!LoopStep, DP!LoopStep,
                DP!CallerNext
  <2>2. CASE CrawlServ
    BY <2>2 DEF CrawlServ, D!AddSpawn, DP!AddSpawn, D!Return, DP!Return, D!LoopStep, DP!LoopStep,
                DP!CallerNext
  <2>3. CASE CrawlRemove
    BY <2>3 DEF CrawlRemove, D!RemoveLoad, DP!RemoveLoad, D!Enter, DP!Enter, DP!CallerNext
  <2>4. CASE CrawlReturn
    BY <2>4 DEF CrawlReturn, D!End, DP!End, D!Return, DP!Return, D!LoopStep, DP!LoopStep,
                DP!CallerNext
  <2> QED BY <1>2, <2>1, <2>2, <2>3, <2>4 DEF CrawlStep
<1>3. CASE BoxStep \/ Expire
  <2> SUFFICES DP!LoopNext(Box)
    OBVIOUS
  <2> USE DEF D!LoopStep, DP!LoopStep, DP!LoopNext
  <2>1. CASE OnLaunch
    BY <2>1 DEF OnLaunch, D!OnLaunch, DP!OnLaunch
  <2>2. CASE LoopStep
    BY <2>2 DEF LoopStep, D!Arm, DP!Arm, D!RmSelf, DP!RmSelf
  <2>3. CASE OnTimeout
    BY <2>3 DEF OnTimeout, D!OnTimeout, DP!OnTimeout
  <2>4. CASE OnFinish
    BY <2>4 DEF OnFinish, D!OnFinish, DP!OnFinish
  <2>5. CASE Expire
    BY <2>5 DEF Expire, D!Expire, DP!Expire
  <2> QED BY <1>3, <2>1, <2>2, <2>3, <2>4, <2>5 DEF BoxStep
<1>4. ASSUME NEW w \in Workers, Load(w) \/ KeepAlive(w) \/ NoNodes(w) \/ ResponseReturns(w)
      PROVE  DP!Next
  <2> SUFFICES DP!CallerNext(w)
    OBVIOUS
  <2>1. CASE Load(w)
    BY <2>1 DEF Load, D!DisposeLoad, DP!DisposeLoad, D!Enter, DP!Enter, DP!Disposals,
                DP!CallerNext
  <2>2. CASE KeepAlive(w)
    BY <2>2 DEF KeepAlive, D!KeepAlive, DP!KeepAlive, D!Advance, DP!Advance, DP!CallerNext
  <2>3. CASE NoNodes(w) \/ ResponseReturns(w)
    BY <2>3 DEF NoNodes, ResponseReturns, D!Handle, DP!Handle, D!Return, DP!Return,
                D!Advance, DP!Advance, DP!CallerNext
  <2> QED BY <1>4, <2>1, <2>2, <2>3
<1>5. CASE \/ ServStep \/ Interrupt
           \/ RefresherFull \/ RefresherExit \/ Stimulate
           \/ \E r \in Refreshers : Refresh(r)
  <2>1. UNCHANGED dispatcherVars
    BY <1>5 DEF ServStep, Interrupt, RefresherFull, RefresherExit, Stimulate, Refresh
  <2> QED BY <2>1
<1>6. ASSUME NEW w \in Workers, WorkerStep(w) \/ CallbackReturns(w),
             ~Load(w), ~KeepAlive(w), ~NoNodes(w), ~ResponseReturns(w)
      PROVE  UNCHANGED dispatcherVars
  BY <1>6 DEF WorkerStep, Begin, End, NotOurs, AddNode, ReadTarget, CheckNode, Send, Answer,
              CheckSource, ReadTargetForSource, SendToSource, CallbackReturns
<1>7. CASE UNCHANGED crawlVars
  BY <1>7 DEF crawlVars
<1> QED
  BY <1>1, <1>2, <1>3, <1>4, <1>5, <1>6, <1>7, StepCases DEF Crawling

(* The crawler contains a dispatcher, of which its workers and Crawl are   *)
(* the callers (krpc.go).                                                  *)
THEOREM DispatcherInside == Spec => DP!Spec
<1>1. Init => DP!Init
  BY DEF Init, D!Init, DP!Init
<1> QED
  BY <1>1, DispatcherStep, PTL DEF Spec, DP!Spec

(* What HostProofs and TransactionDispatcherProofs prove of the parts. *)
PartsInv ==
  /\ HP!TypeOK
  /\ HP!HandlersSeeTheirMessage
  /\ HP!OneHandlerEach
  /\ DP!TypeOK
  /\ DP!EntriesAreServed
  /\ DP!OwnEntry

(* What is proved of host and dispatcher alone holds inside the crawler:   *)
(* a handler finds its own message although Serv reads on (dht.go:82),     *)
(* and the crawler's transaction keeps its entry (krpc.go:95).             *)
THEOREM PartsKeepTheirPromises == Spec => []PartsInv
<1>1. HP!HostAssumption
  BY CrawlerAssumption DEF HP!HostAssumption, HP!Kinds
<1>2. DP!DispatcherAssumption
  BY CrawlerAssumption DEF DP!DispatcherAssumption
<1>3. HP!Spec => [](HP!TypeOK /\ HP!HandlersSeeTheirMessage /\ HP!OneHandlerEach)
  BY <1>1, HP!TypeCorrect, HP!MessagesAreTheirOwn, HP!HandledOnce, PTL
<1>4. DP!Spec => [](DP!TypeOK /\ DP!EntriesAreServed /\ DP!OwnEntry)
  BY <1>2, DP!TypeCorrect, DP!EntriesServed, DP!OwnsEntry, PTL
<1> QED
  BY <1>3, <1>4, HostInside, DispatcherInside, PTL DEF PartsInv

------------------------------------------------------------------------------
(* The crawler's own variables keep their types. *)
LEMMA OwnTypesStep == OwnTypes /\ BusyInv /\ PartsInv /\ [Next]_vars => OwnTypes'
<1> SUFFICES ASSUME OwnTypes, BusyInv, PartsInv, [Next]_vars PROVE OwnTypes'
  OBVIOUS
<1> USE CrawlerAssumption
    DEF OwnTypes, Refreshers, Steps, nodeVars, workVars, ownVars
<1>1. CASE CrawlStep
  BY <1>1 DEF CrawlStep, CrawlAdd, CrawlServ, CrawlRemove, CrawlReturn
<1>2. CASE ServStep \/ Interrupt
  BY <1>2 DEF ServStep, Interrupt
<1>3. CASE BoxStep \/ Expire
  BY <1>3 DEF BoxStep, Expire, OnLaunch, LoopStep, OnTimeout, OnFinish, Refreshing
<1>4. CASE RefresherFull \/ RefresherExit \/ Stimulate
  BY <1>4 DEF RefresherFull, RefresherExit, Stimulate, Refreshing
<1>5. ASSUME NEW r \in Refreshers, Refresh(r) PROVE OwnTypes'
  BY <1>5 DEF Refresh, Refreshing, ChangeTarget, ResetFilter
<1>6. ASSUME NEW w \in Workers, WorkerStep(w) \/ CallbackReturns(w) PROVE OwnTypes'
  <2> USE DEF Go, Message, Deferred
  <2>1. CASE Begin(w) \/ End(w)
    BY <2>1 DEF Begin, End
  <2>2. CASE NotOurs(w) \/ Load(w) \/ KeepAlive(w) \/ NoNodes(w)
    BY <2>2, ZenonT(60) DEF NotOurs, Load, KeepAlive, NoNodes
  <2>3. CASE AddNode(w) \/ ReadTarget(w)
    \* the worker has a message, so the node and the nodes it tells of are nodes
    <3>1. seen[w] \in Packets
      BY <2>3 DEF AddNode, ReadTarget, BusyInv, PartsInv, HP!TypeOK
    <3> QED
      BY <2>3, <3>1 DEF AddNode, ReadTarget
  <2>4. ASSUME NEW nd \in Nodes, CheckNode(w, nd) PROVE OwnTypes'
    <3>1. todo[w] \ {nd} \in SUBSET Nodes
      OBVIOUS
    <3>2. todo' \in [Workers -> SUBSET Nodes]
      BY <2>4, <3>1 DEF CheckNode
    <3>3. step' \in [Workers -> Steps]
      BY <2>4 DEF CheckNode
    <3> QED BY <2>4, <3>2, <3>3 DEF CheckNode
  <2>5. CASE Send(w) \/ ResponseReturns(w) \/ CallbackReturns(w) \/ Answer(w)
    BY <2>5 DEF Send, ResponseReturns, CallbackReturns, Answer
  <2>6. CASE CheckSource(w) \/ ReadTargetForSource(w) \/ SendToSource(w)
    BY <2>6 DEF CheckSource, ReadTargetForSource, SendToSource
  <2> QED BY <1>6, <2>1, <2>2, <2>3, <2>4, <2>5, <2>6 DEF WorkerStep
<1>7. CASE UNCHANGED crawlVars
  BY <1>7 DEF crawlVars
<1> QED
  BY <1>1, <1>2, <1>3, <1>4, <1>5, <1>6, <1>7, StepCases DEF Crawling

(* A worker's handler is at a step exactly while the host's worker is busy. *)
LEMMA BusyStep == OwnTypes /\ BusyInv /\ PartsInv /\ [Next]_vars => BusyInv'
<1> SUFFICES ASSUME OwnTypes, BusyInv, PartsInv, [Next]_vars PROVE BusyInv'
  OBVIOUS
<1> USE CrawlerAssumption DEF BusyInv, hostVars, workVars
<1>1. CASE UNCHANGED <<seen, step>>
  BY <1>1
<1>2. CASE \/ CrawlStep \/ ServStep \/ Interrupt \/ BoxStep \/ Expire
           \/ RefresherFull \/ RefresherExit \/ Stimulate
           \/ \E r \in Refreshers : Refresh(r)
  <2>1. UNCHANGED <<seen, step>>
    BY <1>2 DEF CrawlStep, CrawlAdd, CrawlServ, CrawlRemove, CrawlReturn, ServStep, Interrupt,
                BoxStep, OnLaunch, LoopStep, OnTimeout, OnFinish, Expire,
                RefresherFull, RefresherExit, Stimulate, Refresh,
                H!ServStart, H!CheckCtx, H!Read, H!Dispose, H!Spawn, H!Cancel, H!ReadError
  <2> QED BY <2>1
<1>3. ASSUME NEW w \in Workers, WorkerStep(w) \/ CallbackReturns(w) PROVE BusyInv'
  <2> USE DEF Go, OwnTypes, PartsInv, HP!TypeOK
  <2>1. CASE Begin(w)
    \* the memory that the worker was given holds its message
    <3>1. H!Contents(args[w]) # None
      BY <2>1 DEF Begin, H!Handle, H!Contents, HP!Contents, HP!HandlersSeeTheirMessage
    <3>2. step' = [step EXCEPT ![w] = "begin"] /\ seen' = [seen EXCEPT ![w] = H!Contents(args[w])]
      BY <2>1 DEF Begin, H!Handle
    <3> QED BY <3>1, <3>2
  <2>2. CASE End(w)
    BY <2>2 DEF End, H!HandlerReturns
  <2>3. CASE ~Begin(w) /\ ~End(w)
    <3>1. UNCHANGED seen /\ step[w] # "idle"
          /\ \E to \in Steps \ {"idle"} : step' = [step EXCEPT ![w] = to]
      BY <1>3, <2>3 DEF WorkerStep, NotOurs, Load, KeepAlive, NoNodes, AddNode, ReadTarget,
           CheckNode, Send, ResponseReturns, Answer, CheckSource, ReadTargetForSource,
           SendToSource, CallbackReturns, Deferred, Steps
    <3> QED BY <3>1
  <2> QED BY <2>1, <2>2, <2>3
<1>4. CASE UNCHANGED crawlVars
  BY <1>4 DEF crawlVars
<1> QED
  BY <1>2, <1>3, <1>4, StepCases DEF Crawling

(* A worker's step moves it, and the dispatcher's view of it with it; no   *)
(* other actor touches either, and none changes the box it holds.          *)
LEMMA WorkerStepInv == OwnTypes /\ WorkerInv /\ PartsInv /\ [Next]_vars => WorkerInv'
<1> SUFFICES ASSUME OwnTypes, WorkerInv, PartsInv, [Next]_vars PROVE WorkerInv'
  OBVIOUS
<1> USE CrawlerAssumption
    DEF WorkerInv, OwnTypes, PartsInv, DP!TypeOK, dispatcherVars, workVars
<1>1. CASE CrawlStep
  BY <1>1 DEF CrawlStep, CrawlAdd, CrawlServ, CrawlRemove, CrawlReturn,
              D!AddStore, D!AddSpawn, D!RemoveLoad, D!End, D!Enter, D!Return
<1>2. CASE BoxStep \/ Expire
  BY <1>2 DEF BoxStep, OnLaunch, LoopStep, OnTimeout, OnFinish, Expire,
              D!OnLaunch, D!Arm, D!RmSelf, D!OnTimeout, D!OnFinish, D!Expire
<1>3. CASE \/ ServStep \/ Interrupt \/ RefresherFull \/ RefresherExit \/ Stimulate
           \/ \E r \in Refreshers : Refresh(r)
  BY <1>3 DEF ServStep, Interrupt, RefresherFull, RefresherExit, Stimulate, Refresh
<1>4. ASSUME NEW w \in Workers, WorkerStep(w) \/ CallbackReturns(w) PROVE WorkerInv'
  <2> USE DEF Go, Steps
  <2>1. CASE Begin(w) \/ End(w) \/ NotOurs(w) \/ Answer(w)
    BY <2>1 DEF Begin, End, NotOurs, Answer
  <2>2. CASE Load(w)
    BY <2>2 DEF Load, D!DisposeLoad, D!Enter
  <2>3. CASE KeepAlive(w)
    BY <2>3 DEF KeepAlive, D!KeepAlive, D!Advance
  <2>4. CASE NoNodes(w) \/ ResponseReturns(w)
    BY <2>4 DEF NoNodes, ResponseReturns, D!Handle, D!Return
  <2>5. CASE AddNode(w) \/ ReadTarget(w) \/ Send(w)
    BY <2>5 DEF AddNode, ReadTarget, Send
  <2>6. ASSUME NEW nd \in Nodes, CheckNode(w, nd) PROVE WorkerInv'
    BY <2>6 DEF CheckNode
  <2>7. CASE CheckSource(w) \/ ReadTargetForSource(w) \/ SendToSource(w) \/ CallbackReturns(w)
    BY <2>7 DEF CheckSource, ReadTargetForSource, SendToSource, CallbackReturns, Deferred
  <2> QED BY <1>4, <2>1, <2>2, <2>3, <2>4, <2>5, <2>6, <2>7 DEF WorkerStep
<1>5. CASE UNCHANGED crawlVars
  BY <1>5 DEF crawlVars
<1> QED
  BY <1>1, <1>2, <1>3, <1>4, <1>5, StepCases DEF Crawling

(* Only Crawl asks for the end of the transaction, and only after Serv has *)
(* returned: until then the loop goes round and round.                     *)
LEMMA CrawlStepInv ==
  OwnTypes /\ WorkerInv /\ CrawlInv /\ PartsInv /\ [Next]_vars => CrawlInv'
<1> SUFFICES ASSUME OwnTypes, WorkerInv, CrawlInv, PartsInv, [Next]_vars PROVE CrawlInv'
  OBVIOUS
<1> USE CrawlerAssumption
    DEF CrawlInv, Serving, OwnTypes, PartsInv, DP!TypeOK, DP!LoopStates, hostVars,
        dispatcherVars, ownVars
<1>1. CASE CrawlAdd
  BY <1>1 DEF CrawlAdd, D!AddStore, D!Enter, D!LoopStep
<1>2. CASE CrawlServ
  BY <1>2 DEF CrawlServ, D!AddSpawn, D!Return, D!LoopStep, H!ServStart
<1>3. CASE CrawlRemove
  BY <1>3 DEF CrawlRemove, D!RemoveLoad, D!Enter
<1>4. CASE CrawlReturn
  BY <1>4 DEF CrawlReturn, D!End, D!Return, D!LoopStep
<1>5. CASE BoxStep \/ Expire
  BY <1>5 DEF BoxStep, OnLaunch, LoopStep, OnTimeout, OnFinish, Expire, D!LoopStep,
              D!OnLaunch, D!Arm, D!RmSelf, D!OnTimeout, D!OnFinish, D!Expire
<1>6. CASE ServStep \/ Interrupt
  BY <1>6 DEF ServStep, Interrupt, H!CheckCtx, H!Read, H!Dispose, H!Spawn, H!Cancel, H!ReadError
<1>7. CASE \/ RefresherFull \/ RefresherExit \/ Stimulate \/ \E r \in Refreshers : Refresh(r)
  BY <1>7 DEF RefresherFull, RefresherExit, Stimulate, Refresh
<1>8. ASSUME NEW w \in Workers, WorkerStep(w) \/ CallbackReturns(w) PROVE CrawlInv'
  \* what the worker does with the loop is, at most, to keep it alive
  <2>1. UNCHANGED <<serv, crawl>>
    BY <1>8 DEF WorkerStep, Begin, End, NotOurs, Load, KeepAlive, NoNodes, AddNode, ReadTarget,
         CheckNode, Send, ResponseReturns, Answer, CheckSource, ReadTargetForSource,
         SendToSource, CallbackReturns, H!Handle, H!HandlerReturns
  <2>2. /\ pc'[Crawl] = pc[Crawl] /\ held'[Crawl] = held[Crawl]
        /\ \/ loop'[Box] = loop[Box]
           \/ loop[Box] = "select" /\ loop'[Box] = "arm"
    <3>1. CASE Load(w)
      BY <3>1 DEF Load, D!DisposeLoad, D!Enter
    <3>2. CASE KeepAlive(w)
      BY <3>2 DEF KeepAlive, D!KeepAlive, D!Advance
    <3>3. CASE NoNodes(w) \/ ResponseReturns(w)
      BY <3>3 DEF NoNodes, ResponseReturns, D!Handle, D!Return
    <3>4. CASE ~Load(w) /\ ~KeepAlive(w) /\ ~NoNodes(w) /\ ~ResponseReturns(w)
      BY <1>8, <3>4 DEF WorkerStep, Begin, End, NotOurs, AddNode, ReadTarget, CheckNode, Send,
           Answer, CheckSource, ReadTargetForSource, SendToSource, CallbackReturns
    <3> QED BY <3>1, <3>2, <3>3, <3>4
  <2> QED BY <2>1, <2>2
<1>9. CASE UNCHANGED crawlVars
  BY <1>9 DEF crawlVars
<1> QED
  BY <1>1, <1>2, <1>3, <1>4, <1>5, <1>6, <1>7, <1>8, <1>9, StepCases DEF Crawling, CrawlStep

(* The loop starts the refresher when it launches and closes finish as its *)
(* last act; its own refresh takes place inside OnTimeout.                 *)
LEMMA RefresherStepInv ==
  OwnTypes /\ CrawlInv /\ RefresherInv /\ PartsInv /\ [Next]_vars => RefresherInv'
<1> SUFFICES ASSUME OwnTypes, CrawlInv, RefresherInv, PartsInv, [Next]_vars PROVE RefresherInv'
  OBVIOUS
<1> USE CrawlerAssumption
    DEF RefresherInv, OwnTypes, Refreshers, PartsInv, DP!TypeOK, DP!LoopStates,
        dispatcherVars, ownVars
<1>1. CASE CrawlAdd
  BY <1>1 DEF CrawlAdd, D!AddStore, D!LoopStep
<1>2. CASE CrawlServ
  BY <1>2 DEF CrawlServ, D!AddSpawn, D!LoopStep
<1>3. CASE CrawlRemove
  BY <1>3 DEF CrawlRemove, D!RemoveLoad
<1>4. CASE CrawlReturn
  BY <1>4 DEF CrawlReturn, D!End, D!LoopStep
<1>5. CASE BoxStep \/ Expire
  <2> USE DEF D!LoopStep
  <2>1. CASE OnLaunch \/ OnFinish
    BY <2>1 DEF OnLaunch, OnFinish, D!OnLaunch, D!OnFinish
  <2>2. CASE LoopStep
    BY <2>2 DEF LoopStep, D!Arm, D!RmSelf
  <2>3. CASE OnTimeout
    BY <2>3 DEF OnTimeout, D!OnTimeout
  <2>4. CASE Expire
    BY <2>4 DEF Expire, D!Expire, Refreshing
  <2> QED BY <1>5, <2>1, <2>2, <2>3, <2>4 DEF BoxStep
<1>6. CASE ServStep \/ Interrupt
  BY <1>6 DEF ServStep, Interrupt
<1>7. CASE RefresherFull \/ RefresherExit \/ Stimulate
  BY <1>7 DEF RefresherFull, RefresherExit, Stimulate, Refreshing
<1>8. ASSUME NEW r \in Refreshers, Refresh(r) PROVE RefresherInv'
  BY <1>8 DEF Refresh, Refreshing
<1>9. ASSUME NEW w \in Workers, WorkerStep(w) \/ CallbackReturns(w) PROVE RefresherInv'
  <2>1. UNCHANGED <<refresher, refreshing, finish>>
    BY <1>9 DEF WorkerStep, Begin, End, NotOurs, Load, KeepAlive, NoNodes, AddNode, ReadTarget,
         CheckNode, Send, ResponseReturns, Answer, CheckSource, ReadTargetForSource,
         SendToSource, CallbackReturns
  <2>2. CASE KeepAlive(w)
    BY <2>1, <2>2 DEF KeepAlive, D!KeepAlive
  <2>3. CASE ~KeepAlive(w)
    <3>1. UNCHANGED loop
      BY <1>9, <2>3 DEF WorkerStep, Begin, End, NotOurs, Load, NoNodes, AddNode, ReadTarget,
           CheckNode, Send, ResponseReturns, Answer, CheckSource, ReadTargetForSource,
           SendToSource, CallbackReturns, D!DisposeLoad, D!Handle
    <3> QED BY <2>1, <3>1
  <2> QED BY <2>2, <2>3
<1>10. CASE UNCHANGED crawlVars
  BY <1>10 DEF crawlVars
<1> QED
  BY <1>1, <1>2, <1>3, <1>4, <1>5, <1>6, <1>7, <1>8, <1>9, <1>10, StepCases DEF Crawling, CrawlStep

(* A refresh raises the target before it raises the number of Resets, so   *)
(* the refreshes that are between the two make up for the difference.      *)
LEMMA FreshRefresh ==
  ASSUME OwnTypes, FreshInv, NEW r \in Refreshers, Refresh(r)
  PROVE  FreshInv'
<1> USE CrawlerAssumption DEF OwnTypes, FreshInv, Pending, Refreshers, workVars
<1>1. CASE Refreshing(r, "change", "reset") /\ ChangeTarget
  BY <1>1 DEF Refresh, Refreshing, ChangeTarget
<1>2. CASE Refreshing(r, "reset", "idle") /\ ResetFilter
  BY <1>2 DEF Refresh, Refreshing, ResetFilter
<1> QED BY <1>1, <1>2 DEF Refresh

(* A node admitted after a reset is asked for the new target. *)
LEMMA FreshStep == OwnTypes /\ FreshInv /\ [Next]_vars => FreshInv'
<1> SUFFICES ASSUME OwnTypes, FreshInv, [Next]_vars PROVE FreshInv'
  OBVIOUS
<1>1. ASSUME NEW r \in Refreshers, Refresh(r) PROVE FreshInv'
  BY <1>1, FreshRefresh
<1> USE CrawlerAssumption DEF OwnTypes, FreshInv, Pending, Refreshers, nodeVars, workVars, ownVars
<1>2. CASE CrawlStep \/ ServStep \/ Interrupt \/ BoxStep \/ RefresherExit
  BY <1>2, ZenonT(60)
     DEF CrawlStep, CrawlAdd, CrawlServ, CrawlRemove, CrawlReturn, ServStep, Interrupt,
         BoxStep, OnLaunch, LoopStep, OnTimeout, OnFinish, RefresherExit
<1>3. CASE Expire \/ RefresherFull \/ Stimulate
  BY <1>3 DEF Expire, RefresherFull, Stimulate, Refreshing
<1>4. ASSUME NEW w \in Workers, WorkerStep(w) \/ CallbackReturns(w) PROVE FreshInv'
  <2> USE DEF Go, Steps
  <2>1. CASE Begin(w) \/ End(w)
    BY <2>1 DEF Begin, End
  <2>2. CASE NotOurs(w) \/ Load(w) \/ NoNodes(w) \/ AddNode(w)
    BY <2>2, ZenonT(60) DEF NotOurs, Load, NoNodes, AddNode
  <2>3. CASE KeepAlive(w)
    BY <2>3 DEF KeepAlive
  <2>4. CASE ReadTarget(w) \/ ReadTargetForSource(w)
    \* the target is at least as young as the last Reset
    <3>1. cleared <= target
      OBVIOUS
    <3> QED BY <2>4, <3>1 DEF ReadTarget, ReadTargetForSource
  <2>5. ASSUME NEW nd \in Nodes, CheckNode(w, nd) PROVE FreshInv'
    BY <2>5 DEF CheckNode
  <2>6. CASE Send(w) \/ ResponseReturns(w) \/ Answer(w)
    BY <2>6, ZenonT(60) DEF Send, ResponseReturns, Answer
  <2>7. CASE CheckSource(w) \/ SendToSource(w) \/ CallbackReturns(w)
    BY <2>7 DEF CheckSource, SendToSource, CallbackReturns, Deferred
  <2> QED BY <1>4, <2>1, <2>2, <2>3, <2>4, <2>5, <2>6, <2>7 DEF WorkerStep
<1>5. CASE UNCHANGED crawlVars
  BY <1>5 DEF crawlVars
<1> QED
  BY <1>1, <1>2, <1>3, <1>4, <1>5, StepCases DEF Crawling

(* The invariant holds at the start. *)
LEMMA InvariantInit == Init => IInv
<1> SUFFICES ASSUME Init PROVE IInv
  OBVIOUS
<1> USE CrawlerAssumption DEF Init, H!Init, D!Init
<1>1. OwnTypes
  <2>1. todo \in [Workers -> SUBSET Nodes]
    OBVIOUS
  <2>2. step \in [Workers -> Steps]
    BY DEF Steps
  <2>3. target \in 0..MaxTarget /\ cleared \in 0..MaxTarget
        /\ tgt \in [Workers -> 0..MaxTarget] /\ since \in [Workers -> 0..MaxTarget]
    OBVIOUS
  <2>4. refreshing \in [Refreshers -> {"idle", "change", "reset"}]
    OBVIOUS
  <2> QED BY <2>1, <2>2, <2>3, <2>4 DEF OwnTypes
<1>2. TogetherInv
  BY DEF TogetherInv, BusyInv, WorkerInv, CrawlInv, RefresherInv, Refreshers
<1>3. FreshInv
  BY DEF FreshInv, Pending, Refreshers
<1> QED BY <1>1, <1>2, <1>3 DEF IInv

(* Every step keeps the invariant. *)
LEMMA InvariantStep == IInv /\ PartsInv /\ [Next]_vars => IInv'
BY StepCases, OwnTypesStep, BusyStep, WorkerStepInv, CrawlStepInv, RefresherStepInv, FreshStep
DEF IInv, TogetherInv

(* The invariant and the parts' promises always hold. *)
LEMMA Invariant == Spec => [](IInv /\ PartsInv)
BY InvariantInit, InvariantStep, PartsKeepTheirPromises, PTL DEF Spec

------------------------------------------------------------------------------
(* Type correctness of the crawler, its host and its dispatcher included. *)
THEOREM TypeCorrect == Spec => []TypeOK
<1>1. IInv /\ PartsInv => TypeOK
  <2> SUFFICES ASSUME IInv, PartsInv PROVE TypeOK
    OBVIOUS
  <2>1. H!TypeOK
    BY DEF PartsInv, HP!TypeOK, H!TypeOK, HP!ServStates, H!ServStates, HP!Memory, H!Memory
  <2>2. D!TypeOK
    BY DEF PartsInv, DP!TypeOK, D!TypeOK, DP!LoopStates, D!LoopStates, DP!CallerStates,
           D!CallerStates, DP!Methods, D!Methods, DP!Disposals, D!Disposals
  <2> QED
    BY <2>1, <2>2 DEF TypeOK, IInv, OwnTypes, TogetherInv, BusyInv
<1> QED
  BY <1>1, Invariant, PTL

(* A node that an emptied filter admits is asked for the new target,       *)
(* however many goroutines replace it and empty the filter.                *)
THEOREM AsksForTheNewTarget == Spec => []TargetIsFresh
<1>1. IInv => TargetIsFresh
  BY CrawlerAssumption DEF IInv, OwnTypes, FreshInv, TargetIsFresh
<1> QED
  BY <1>1, Invariant, PTL

(* The deferred Remove of Crawl finds the transaction: neither a timeout   *)
(* nor a response ends it (crawler.go:70, 180, 270).                       *)
RemoveFinds == crawl = "serving" => transactions[Tid] = Box

(* When Crawl's deferred Remove runs, the dispatcher has its transaction   *)
(* (crawler.go:70), so that Remove has a loop to stop.                     *)
THEOREM RemoveFindsTransaction == Spec => []RemoveFinds
<1>1. IInv /\ PartsInv => RemoveFinds
  BY DEF IInv, TogetherInv, CrawlInv, Serving, PartsInv, DP!OwnEntry, DP!Registered, RemoveFinds
<1> QED
  BY <1>1, Invariant, PTL

(* OnFinish closes a channel that is still open (crawler.go:280; closing a *)
(* closed channel panics), and the refresher it ends has been started and  *)
(* has not gone before.                                                    *)
ClosesOnce == loop[Box] = "finish" => ~finish /\ refresher = "wait"

(* OnFinish never closes a closed channel (crawler.go:280). *)
THEOREM FinishClosedOnce == Spec => []ClosesOnce
<1>1. IInv => ClosesOnce
  BY DEF IInv, OwnTypes, TogetherInv, RefresherInv, ClosesOnce
<1> QED
  BY <1>1, Invariant, PTL

(* Who asks for the end of the transaction: Crawl alone, while its loop    *)
(* still goes round and so will listen.  The second request for one box,   *)
(* which waits for ever (DispatcherRemoveReturns), is never made.          *)
OneAsksForTheEnd ==
  \A c \in Workers \cup {Crawl} : pc[c] = "end" =>
    /\ c = Crawl /\ crawl = "removing"
    /\ held[c] = Box /\ loop[Box] \in Serving

(* Crawl's Remove (crawler.go:70) is the only one that sends on end        *)
(* (krpc.go:110, 127, 140), and it sends to a loop that will take it.      *)
THEOREM EndIsAskedOnce == Spec => []OneAsksForTheEnd
<1>1. IInv /\ PartsInv => OneAsksForTheEnd
  BY DEF IInv, OwnTypes, TogetherInv, WorkerInv, CrawlInv, PartsInv, DP!TypeOK, OneAsksForTheEnd
<1> QED
  BY <1>1, Invariant, PTL

(* The dispatcher inside the crawler keeps what TransactionRegistry        *)
(* promises its users: the crawler's transaction takes the id, gives up no *)
(* other entry than its own, and only then finishes (krpc.go:95, 75).      *)
THEOREM RegistryInside == Spec => DP!Registry!Spec
<1>1. DP!DispatcherAssumption
  BY CrawlerAssumption DEF DP!DispatcherAssumption
<1>2. DP!Spec => DP!Registry!Spec
  BY <1>1, DP!Refines
<1> QED
  BY <1>2, DispatcherInside, PTL

------------------------------------------------------------------------------
(* What no step does to a message on its way from the socket: Serv puts it *)
(* down only with a worker that is free, a worker is given up only at the  *)
(* end of its handler and begins no other for the same message, and the    *)
(* handler of an announce_peer ends only after the callback.               *)
MessageKept ==
  /\ serv = "spawn" /\ serv' # "spawn" => \E w \in Workers : job[w] = None /\ job'[w] = buf
  /\ \A w \in Workers :
       /\ job[w] # None /\ job'[w] # job[w] => step[w] = "done"
       /\ step[w] = "done" /\ step'[w] # "done" => job'[w] = None
       /\ step[w] # "done" /\ step'[w] = "done" /\ TypeOf[seen[w]] \in Reports
            => step[w] = "callback"

(* What goes through the dispatcher to OnResponse is a response. *)
ResponseInv ==
  \A w \in Workers :
    step[w] \in {"dispatched", "onresponse", "target", "nodes", "send"}
      => TypeOf[seen[w]] \in Responses

(* Only Load leads there, and a worker's message stays while it is busy.   *)
LEMMA ResponseStep ==
  OwnTypes /\ BusyInv /\ PartsInv /\ ResponseInv /\ [Next]_vars => ResponseInv'
<1> SUFFICES ASSUME OwnTypes, BusyInv, PartsInv, ResponseInv, [Next]_vars PROVE ResponseInv'
  OBVIOUS
<1> USE DEF ResponseInv, hostVars, workVars
<1>1. CASE \/ CrawlStep \/ ServStep \/ Interrupt \/ BoxStep \/ Expire
           \/ RefresherFull \/ RefresherExit \/ Stimulate
           \/ \E r \in Refreshers : Refresh(r)
  <2>1. UNCHANGED <<seen, step>>
    BY <1>1 DEF CrawlStep, CrawlAdd, CrawlServ, CrawlRemove, CrawlReturn, ServStep, Interrupt,
                BoxStep, OnLaunch, LoopStep, OnTimeout, OnFinish, Expire,
                RefresherFull, RefresherExit, Stimulate, Refresh,
                H!ServStart, H!CheckCtx, H!Read, H!Dispose, H!Spawn, H!Cancel, H!ReadError
  <2> QED BY <2>1
<1>2. ASSUME NEW w \in Workers, WorkerStep(w) \/ CallbackReturns(w) PROVE ResponseInv'
  <2> USE DEF Go, OwnTypes
  <2>1. CASE Begin(w)
    BY <2>1 DEF Begin, H!Handle, PartsInv, HP!TypeOK
  <2>2. CASE End(w)
    BY <2>2 DEF End, H!HandlerReturns, PartsInv, HP!TypeOK
  <2>3. CASE Load(w)
    BY <2>3 DEF Load, Answers, Message
  <2>4. CASE KeepAlive(w) \/ AddNode(w) \/ ReadTarget(w) \/ Send(w)
    BY <2>4 DEF KeepAlive, AddNode, ReadTarget, Send
  <2>5. ASSUME NEW nd \in Nodes, CheckNode(w, nd) PROVE ResponseInv'
    BY <2>5 DEF CheckNode
  <2>6. CASE NotOurs(w) \/ NoNodes(w) \/ ResponseReturns(w)
    BY <2>6 DEF NotOurs, NoNodes, ResponseReturns
  <2>7. CASE \/ Answer(w) \/ CheckSource(w) \/ ReadTargetForSource(w) \/ SendToSource(w)
             \/ CallbackReturns(w)
    BY <2>7 DEF Answer, CheckSource, ReadTargetForSource, SendToSource, CallbackReturns, Deferred
  <2> QED BY <1>2, <2>1, <2>2, <2>3, <2>4, <2>5, <2>6, <2>7 DEF WorkerStep
<1>3. CASE UNCHANGED crawlVars
  BY <1>3 DEF crawlVars
<1> QED
  BY <1>1, <1>2, <1>3, StepCases DEF Crawling

(* Serv is the only one to hand out messages, and the loops of crawler.go  *)
(* leave them to the workers.                                              *)
LEMMA KeptByTheOthers ==
  ASSUME OwnTypes, PartsInv,
         \/ CrawlStep \/ ServStep \/ Interrupt \/ BoxStep \/ Expire
         \/ RefresherFull \/ RefresherExit \/ Stimulate
         \/ \E r \in Refreshers : Refresh(r)
  PROVE  MessageKept
<1> USE DEF MessageKept, OwnTypes, PartsInv, HP!TypeOK, hostVars, workVars
<1>1. CASE CrawlServ
  BY <1>1 DEF CrawlServ, H!ServStart
<1>2. CASE ServStep
  <2>1. UNCHANGED step
    BY <1>2 DEF ServStep
  <2>2. ASSUME NEW w \in Workers, H!Spawn(w) PROVE MessageKept
    BY <2>1, <2>2 DEF H!Spawn, H!Hand
  <2>3. CASE H!CheckCtx \/ H!Dispose \/ \E p \in Packets : H!Read(p)
    BY <2>1, <2>3 DEF H!CheckCtx, H!Dispose, H!Read
  <2> QED BY <1>2, <2>2, <2>3 DEF ServStep
<1>3. CASE Interrupt
  BY <1>3 DEF Interrupt, H!Cancel, H!ReadError
<1>4. CASE ~CrawlServ /\ ~ServStep /\ ~Interrupt
  <2>1. UNCHANGED <<serv, job, step>>
    BY <1>4 DEF CrawlStep, CrawlAdd, CrawlRemove, CrawlReturn,
                BoxStep, OnLaunch, LoopStep, OnTimeout, OnFinish, Expire,
                RefresherFull, RefresherExit, Stimulate, Refresh
  <2> QED BY <2>1
<1> QED BY <1>1, <1>2, <1>3, <1>4

(* A worker's own steps. *)
LEMMA KeptByTheWorker ==
  ASSUME OwnTypes, PartsInv, BusyInv, ResponseInv,
         NEW w \in Workers, WorkerStep(w) \/ CallbackReturns(w)
  PROVE  MessageKept
<1> USE DEF MessageKept, OwnTypes, PartsInv, HP!TypeOK, BusyInv, Go
<1>1. CASE Begin(w)
  BY <1>1 DEF Begin, H!Handle
<1>2. CASE End(w)
  BY <1>2 DEF End, H!HandlerReturns
<1>3. CASE ~Begin(w) /\ ~End(w)
  <2>1. UNCHANGED <<serv, job>> /\ step[w] # "done"
        /\ \E to \in Steps : step' = [step EXCEPT ![w] = to]
    BY <1>3 DEF WorkerStep, NotOurs, Load, KeepAlive, NoNodes, AddNode, ReadTarget, CheckNode,
         Send, ResponseReturns, Answer, CheckSource, ReadTargetForSource, SendToSource,
         CallbackReturns, Deferred, Steps, hostVars
  <2>2. ASSUME step'[w] = "done", TypeOf[seen[w]] \in Reports PROVE step[w] = "callback"
    <3> USE <2>1, <2>2
    \* a query that ends without the callback is not an announce that decodes
    <3>1. CASE CheckSource(w) \/ ReadTargetForSource(w) \/ SendToSource(w)
      BY <3>1 DEF CheckSource, ReadTargetForSource, SendToSource, Deferred, Message
    <3>6. CASE Answer(w)
      <4>1. TypeOf[seen[w]] # "bad"
        BY DEF Reports
      <4> QED BY <3>6, <4>1 DEF Answer, Message
    <3>2. ASSUME NEW nd \in Nodes, CheckNode(w, nd) PROVE FALSE
      BY <3>2 DEF CheckNode
    <3>3. CASE Load(w) \/ KeepAlive(w) \/ AddNode(w) \/ ReadTarget(w) \/ Send(w)
      BY <3>3 DEF Load, KeepAlive, AddNode, ReadTarget, Send
    <3>4. CASE NotOurs(w)
      BY <3>4 DEF NotOurs, Answers, Message, Responses, Reports
    <3>5. CASE NoNodes(w) \/ ResponseReturns(w)
      BY <3>5 DEF NoNodes, ResponseReturns, ResponseInv, Responses, Reports
    <3> QED
      BY <1>3, <3>1, <3>2, <3>3, <3>4, <3>5, <3>6 DEF WorkerStep, CallbackReturns
  <2> QED BY <2>1, <2>2
<1> QED BY <1>1, <1>2, <1>3

(* No announce is lost between the socket and the callback, whatever the   *)
(* other goroutines do, and none is handled anew (dht.go:174,              *)
(* crawler.go:249): the safety part of EveryAnnounceIsReported.            *)
THEOREM NoAnnounceIsLost == Spec => [][MessageKept]_vars
<1>1. Init => ResponseInv
  BY DEF Init, ResponseInv
<1>2. IInv /\ PartsInv /\ ResponseInv /\ [Next]_vars => ResponseInv'
  BY ResponseStep DEF IInv, TogetherInv
<1>3. IInv /\ PartsInv /\ ResponseInv /\ [Next]_vars => [MessageKept]_vars
  <2> SUFFICES ASSUME IInv, PartsInv, ResponseInv, Next PROVE MessageKept
    OBVIOUS
  <2> QED
    <3>1. CASE UNCHANGED crawlVars
      BY <3>1 DEF MessageKept, crawlVars, hostVars, workVars
    <3> QED
      BY <3>1, KeptByTheOthers, KeptByTheWorker, StepCases DEF IInv, TogetherInv, Crawling
<1> QED
  BY <1>1, <1>2, <1>3, Invariant, PTL DEF Spec

------------------------------------------------------------------------------
(* Spider.  A step of the spider is a step of its crawler, or none. *)
LEMMA SpiderCases ==
  [SpiderNext]_allVars =>
    \/ Running(Crawling /\ UNCHANGED spiderVars)
    \/ \E w \in Workers : Running(CallbackStep(w) \/ Send2Channel(w))
    \/ Running(RangeChan \/ PrintLines)
    \/ alive /\ (\E w \in Workers : AnswerPanics(w) \/ CallbackPanics(w)) /\ UNCHANGED spiderVars
    \/ UNCHANGED allVars
BY DEF SpiderNext, Spidering, Running, WorkerPanics, FetchPanics, FillOutlinePanics, PanicGoesOn,
       Panics

(* What the spider does besides crawling, its crawler does not notice but  *)
(* when the callback returns.                                              *)
LEMMA SpiderSteps == [SpiderNext]_allVars => [Next]_vars
<1> SUFFICES ASSUME [SpiderNext]_allVars PROVE [Next]_vars
  OBVIOUS
<1>1. ASSUME NEW w \in Workers, Running(CallbackStep(w) \/ Send2Channel(w)) PROVE [Next]_vars
  <2>1. ASSUME NEW from, NEW to, GoesOn(w, from, to) PROVE UNCHANGED crawlVars
    BY <2>1 DEF GoesOn
  <2>2. ASSUME NEW from, Returns(w, from) PROVE CallbackReturns(w) \/ UNCHANGED crawlVars
    BY <2>1, <2>2 DEF Returns
  <2>3. CallbackReturns(w) \/ UNCHANGED crawlVars
    BY <1>1, <2>1, <2>2 DEF Running, CallbackStep, Has, Fetch, FillOutline, Send2Channel
  <2> QED
    BY <1>1, <2>3 DEF Running, Next, vars
<1>2. CASE Running(RangeChan \/ PrintLines)
  BY <1>2 DEF Running, RangeChan, PrintLines, vars
<1>3. CASE UNCHANGED allVars
  BY <1>3 DEF allVars
<1>4. CASE Running(Crawling /\ UNCHANGED spiderVars)
  BY <1>4 DEF Running, Next
<1> QED
  BY <1>1, <1>2, <1>3, <1>4, SpiderCases DEF Next

(* The spider is a crawler with a callback: what is proved of the crawler  *)
(* holds of it, whatever the callback does.                                *)
THEOREM SpiderIsCrawler == SpiderSpec => Spec
BY SpiderSteps, PTL DEF SpiderSpec, SpiderInit, Spec

(* A callback that has begun keeps its worker, and a worker is in the      *)
(* callback only for an announce_peer.                                     *)
CallbackInv ==
  \A w \in Workers :
    /\ callback[w] # "has" => step[w] = "callback"
    /\ step[w] = "callback" => TypeOf[seen[w]] \in Reports

(* Whatever is in the channel or printed was announced (sniffer.go:62): no *)
(* other message leads to a download.                                      *)
OnlyAnnounced ==
  /\ \A i \in 1..Len(ch) : TypeOf[ch[i]] \in Reports
  /\ shown # None => TypeOf[shown] \in Reports

SpiderInv == SpiderTypeOK /\ CallbackInv /\ OnlyAnnounced

(* The spider's own variables keep their types. *)
LEMMA SpiderTypeStep ==
  SpiderTypeOK /\ CallbackInv /\ IInv /\ PartsInv /\ [SpiderNext]_allVars => SpiderTypeOK'
<1> SUFFICES ASSUME SpiderTypeOK, CallbackInv, IInv, PartsInv, [SpiderNext]_allVars
             PROVE  SpiderTypeOK'
  OBVIOUS
<1> USE SpiderAssumption DEF SpiderTypeOK
<1>1. CASE Crawling /\ UNCHANGED spiderVars
  BY <1>1 DEF spiderVars
<1>2. ASSUME NEW w \in Workers, CallbackStep(w) PROVE SpiderTypeOK'
  BY <1>2 DEF CallbackStep, Has, Fetch, FillOutline, GoesOn, Returns
<1>3. ASSUME NEW w \in Workers, Send2Channel(w) PROVE SpiderTypeOK'
  <2>1. Message(w) \in Packets
    BY <1>3 DEF Send2Channel, Returns, GoesOn, CallbackReturns, Go, Message, IInv, TogetherInv,
                BusyInv, PartsInv, HP!TypeOK
  <2> QED
    BY <1>3, <2>1 DEF Send2Channel, Returns, GoesOn
<1>4. CASE RangeChan
  BY <1>4 DEF RangeChan
<1>5. CASE PrintLines
  BY <1>5 DEF PrintLines
<1>6. CASE UNCHANGED allVars
  BY <1>6 DEF allVars, spiderVars
<1> QED
  BY <1>1, <1>2, <1>3, <1>4, <1>5, <1>6, SpiderCases DEF Running, spiderVars

(* The crawler's own steps move a worker out of the callback only by       *)
(* CallbackReturns, and into it only with the announce_peer it has.        *)
LEMMA CallbackCrawling ==
  ASSUME CallbackInv, IInv, PartsInv, Crawling, UNCHANGED spiderVars
  PROVE  CallbackInv'
<1> USE DEF CallbackInv, spiderVars, IInv, OwnTypes, PartsInv, HP!TypeOK, hostVars, workVars
<1>1. CASE \/ CrawlStep \/ ServStep \/ Interrupt \/ BoxStep \/ Expire
           \/ RefresherFull \/ RefresherExit \/ Stimulate
           \/ \E r \in Refreshers : Refresh(r)
  <2>1. UNCHANGED <<seen, step>>
    BY <1>1 DEF CrawlStep, CrawlAdd, CrawlServ, CrawlRemove, CrawlReturn, ServStep, Interrupt,
                BoxStep, OnLaunch, LoopStep, OnTimeout, OnFinish, Expire,
                RefresherFull, RefresherExit, Stimulate, Refresh,
                H!ServStart, H!CheckCtx, H!Read, H!Dispose, H!Spawn, H!Cancel, H!ReadError
  <2> QED BY <2>1
<1>2. ASSUME NEW w \in Workers, WorkerStep(w) PROVE CallbackInv'
  <2> USE DEF Go, Message, Deferred, Steps
  <2>1. CASE Begin(w) \/ End(w)
    BY <2>1 DEF Begin, End, H!Handle, H!HandlerReturns
  <2>2. CASE CheckSource(w) \/ SendToSource(w)
    BY <2>2 DEF CheckSource, SendToSource, Reports
  <2>4. CASE Answer(w)
    BY <2>4 DEF Answer, Reports, Fatal
  <2>3. CASE ~Begin(w) /\ ~End(w) /\ ~CheckSource(w) /\ ~SendToSource(w) /\ ~Answer(w)
    <3>1. /\ UNCHANGED seen
          /\ step[w] # "callback"
          /\ \E to \in Steps \ {"callback"} : step' = [step EXCEPT ![w] = to]
      BY <1>2, <2>3 DEF WorkerStep, NotOurs, Load, KeepAlive, NoNodes, AddNode, ReadTarget,
           CheckNode, Send, ResponseReturns, ReadTargetForSource
    <3> QED BY <3>1
  <2> QED BY <2>1, <2>2, <2>3, <2>4
<1> QED
  BY <1>1, <1>2 DEF Crawling

(* A callback runs for an announce that a worker is handling. *)
LEMMA CallbackStepInv ==
  SpiderTypeOK /\ CallbackInv /\ IInv /\ PartsInv /\ [SpiderNext]_allVars => CallbackInv'
<1> SUFFICES ASSUME SpiderTypeOK, CallbackInv, IInv, PartsInv, [SpiderNext]_allVars
             PROVE  CallbackInv'
  OBVIOUS
<1>1. CASE Crawling /\ UNCHANGED spiderVars
  BY <1>1, CallbackCrawling
<1> USE DEF SpiderTypeOK, CallbackInv, IInv, OwnTypes
<1>2. ASSUME NEW w \in Workers, NEW from, NEW to, GoesOn(w, from, to) PROVE CallbackInv'
  BY <1>2 DEF GoesOn, crawlVars, hostVars, workVars
<1>3. ASSUME NEW w \in Workers, NEW from, Returns(w, from) PROVE CallbackInv'
  <2>1. CASE CallbackReturns(w) /\ callback' = [callback EXCEPT ![w] = "has"]
    BY <2>1 DEF CallbackReturns, Go, hostVars
  <2>2. CASE GoesOn(w, from, "over")
    BY <1>2, <2>2
  <2> QED BY <1>3, <2>1, <2>2 DEF Returns
<1>4. CASE RangeChan \/ PrintLines
  BY <1>4 DEF RangeChan, PrintLines, crawlVars, hostVars, workVars
<1>5. CASE UNCHANGED <<crawlVars, spiderVars>>
  BY <1>5 DEF crawlVars, spiderVars, hostVars, workVars
<1>6. CASE UNCHANGED allVars
  BY <1>5, <1>6 DEF allVars, vars
<1>7. ASSUME NEW w \in Workers, AnswerPanics(w) \/ CallbackPanics(w), UNCHANGED spiderVars
      PROVE  CallbackInv'
  BY <1>5, <1>7 DEF AnswerPanics, CallbackPanics, Dies
<1> QED
  <2>1. ASSUME NEW w \in Workers, CallbackStep(w) \/ Send2Channel(w) PROVE CallbackInv'
    BY <2>1, <1>2, <1>3 DEF CallbackStep, Has, Fetch, FillOutline, Send2Channel
  <2> HIDE DEF SpiderTypeOK, CallbackInv, IInv, OwnTypes
  <2>2. CASE Running(Crawling /\ UNCHANGED spiderVars)
    BY <2>2, <1>1 DEF Running
  <2>3. CASE \E w \in Workers : Running(CallbackStep(w) \/ Send2Channel(w))
    BY <2>3, <2>1 DEF Running
  <2>4. CASE Running(RangeChan \/ PrintLines)
    BY <2>4, <1>4 DEF Running
  <2>5. CASE alive /\ (\E w \in Workers : AnswerPanics(w) \/ CallbackPanics(w)) /\ UNCHANGED spiderVars
    BY <2>5, <1>7
  <2> QED BY <1>6, <2>2, <2>3, <2>4, <2>5, SpiderCases

(* Only announced torrents enter the channel or are shown. *)
LEMMA OnlyAnnouncedStep ==
  SpiderTypeOK /\ CallbackInv /\ OnlyAnnounced /\ [SpiderNext]_allVars => OnlyAnnounced'
<1> SUFFICES ASSUME SpiderTypeOK, CallbackInv, OnlyAnnounced, [SpiderNext]_allVars
             PROVE  OnlyAnnounced'
  OBVIOUS
<1> USE DEF SpiderTypeOK, OnlyAnnounced
<1>1. CASE UNCHANGED <<ch, shown>>
  BY <1>1
<1>2. ASSUME NEW w \in Workers, Send2Channel(w) PROVE OnlyAnnounced'
  <2>1. TypeOf[Message(w)] \in Reports
    BY <1>2 DEF Send2Channel, Returns, GoesOn, CallbackReturns, Go, CallbackInv, Message
  <2>2. ch' = Append(ch, Message(w)) /\ UNCHANGED shown
    BY <1>2 DEF Send2Channel, Returns, GoesOn
  <2>3. ASSUME NEW i \in 1..Len(ch') PROVE TypeOf[ch'[i]] \in Reports
    BY <2>1, <2>2
  <2> QED BY <2>2, <2>3
<1>3. CASE RangeChan
  <2>1. shown' = ch[1] /\ Len(ch) > 0 /\ ch' = Tail(ch)
    BY <1>3 DEF RangeChan
  <2>2. ASSUME NEW i \in 1..Len(ch') PROVE TypeOf[ch'[i]] \in Reports
    BY <2>1
  <2> QED BY <2>1, <2>2
<1>4. CASE PrintLines
  BY <1>4 DEF PrintLines
<1>5. ASSUME NEW w \in Workers, CallbackStep(w) PROVE UNCHANGED <<ch, shown>>
  BY <1>5 DEF CallbackStep, Has, Fetch, FillOutline, GoesOn, Returns
<1> QED
  BY <1>1, <1>2, <1>3, <1>4, <1>5, SpiderCases DEF Running, spiderVars, allVars

(* The spider's invariant always holds, with the crawler's. *)
LEMMA SpiderInvariant == SpiderSpec => [](SpiderInv /\ IInv /\ PartsInv)
<1>1. SpiderInit => SpiderInv
  BY CrawlerAssumption, SpiderAssumption
  DEF SpiderInit, Init, SpiderInv, SpiderTypeOK, CallbackInv, OnlyAnnounced
<1>2. SpiderInv /\ IInv /\ PartsInv /\ [SpiderNext]_allVars => SpiderInv'
  BY SpiderTypeStep, CallbackStepInv, OnlyAnnouncedStep DEF SpiderInv
<1> QED
  BY <1>1, <1>2, SpiderIsCrawler, Invariant, PTL DEF SpiderSpec

(* Type correctness of the spider; the channel stays within its capacity. *)
THEOREM SpiderTypeCorrect == SpiderSpec => []SpiderTypeOK
BY SpiderInvariant, PTL DEF SpiderInv

(* The pipeline gets metadata of announced infohashes only. *)
THEOREM ReportsOnlyAnnounced == SpiderSpec => []OnlyAnnounced
BY SpiderInvariant, PTL DEF SpiderInv

(* The way of metadata that can be read: a callback that has some goes on  *)
(* only by putting it at the end of the channel, what is in the channel    *)
(* leaves it at the head, to be printed, and a print is over before the    *)
(* next one is taken.                                                      *)
HandedOver ==
  /\ \A w \in Workers : callback[w] = "send" =>
       \/ callback'[w] = "send" /\ seen'[w] = seen[w]
       \/ callback'[w] \in {"has", "over"} /\ ch' = Append(ch, seen[w])
  /\ \/ ch' = ch
     \/ \E w \in Workers : callback[w] = "send" /\ callback'[w] \in {"has", "over"} /\ ch' = Append(ch, seen[w])
     \/ shown = None /\ ch = <<shown'>> \o ch'
  /\ shown' # shown => shown' = None \/ (shown = None /\ ch = <<shown'>> \o ch')

(* A worker in its callback keeps its message, and only the callback moves *)
(* it on.                                                                  *)
LEMMA SendingWaits ==
  ASSUME CallbackInv, IInv, PartsInv, Crawling, NEW w \in Workers, callback[w] = "send"
  PROVE  seen'[w] = seen[w]
<1>1. step[w] = "callback" /\ seen[w] # None
  BY DEF CallbackInv, IInv, TogetherInv, BusyInv
<1> USE DEF PartsInv, HP!TypeOK, hostVars
<1>2. CASE \/ CrawlStep \/ ServStep \/ Interrupt \/ BoxStep \/ Expire
           \/ RefresherFull \/ RefresherExit \/ Stimulate
           \/ \E r \in Refreshers : Refresh(r)
  BY <1>2 DEF CrawlStep, CrawlAdd, CrawlServ, CrawlRemove, CrawlReturn, ServStep, Interrupt,
              BoxStep, OnLaunch, LoopStep, OnTimeout, OnFinish, Expire,
              RefresherFull, RefresherExit, Stimulate, Refresh,
              H!ServStart, H!CheckCtx, H!Read, H!Dispose, H!Spawn, H!Cancel, H!ReadError
<1>3. ASSUME NEW v \in Workers, WorkerStep(v) PROVE seen'[w] = seen[w]
  <2>1. CASE Begin(v) \/ End(v)
    BY <1>1, <2>1 DEF Begin, End, Go, H!Handle, H!HandlerReturns
  <2>2. CASE ~Begin(v) /\ ~End(v)
    BY <1>3, <2>2 DEF WorkerStep, NotOurs, Load, KeepAlive, NoNodes, AddNode, ReadTarget,
         CheckNode, Send, ResponseReturns, Answer, CheckSource, ReadTargetForSource,
         SendToSource
  <2> QED BY <2>1, <2>2
<1> QED
  BY <1>2, <1>3 DEF Crawling

(* Each step of the spider hands metadata over, or leaves it where it is. *)
LEMMA HandedOverStep ==
  SpiderInv /\ IInv /\ PartsInv /\ [SpiderNext]_allVars => [HandedOver]_allVars
<1> SUFFICES ASSUME SpiderInv, IInv, PartsInv, SpiderNext PROVE HandedOver
  OBVIOUS
<1> USE DEF SpiderInv, SpiderTypeOK, HandedOver
<1>1. CASE Crawling /\ UNCHANGED spiderVars
  BY <1>1, SendingWaits DEF spiderVars
<1>2. ASSUME NEW w \in Workers, NEW from, NEW to, from # "send",
             GoesOn(w, from, to) \/ Returns(w, from), UNCHANGED ch
      PROVE  HandedOver
  BY <1>2 DEF GoesOn, Returns, CallbackReturns, crawlVars, hostVars
<1>3. ASSUME NEW w \in Workers, Send2Channel(w) PROVE HandedOver
  <2>1. /\ callback[w] = "send" 
        /\ \E to \in {"has", "over"} : callback' = [callback EXCEPT ![w] = to]
        /\ ch' = Append(ch, seen[w]) /\ UNCHANGED <<seen, shown>>
    BY <1>3 DEF Send2Channel, Returns, GoesOn, CallbackReturns, Message, crawlVars, hostVars
  <2> QED BY <2>1
<1>4. CASE RangeChan
  <2>1. shown = None /\ ch # <<>> /\ shown' = Head(ch) /\ ch' = Tail(ch)
        /\ UNCHANGED <<seen, callback>>
    BY <1>4 DEF RangeChan, crawlVars, hostVars
  <2>2. ch = <<Head(ch)>> \o Tail(ch)
    BY <2>1
  <2> QED BY <2>1, <2>2
<1>5. CASE PrintLines
  BY <1>5 DEF PrintLines, crawlVars, hostVars
<1>6. ASSUME NEW w \in Workers, AnswerPanics(w) \/ CallbackPanics(w), UNCHANGED spiderVars
      PROVE  HandedOver
  BY <1>6 DEF AnswerPanics, CallbackPanics, Dies, crawlVars, hostVars, spiderVars
<1>7. CASE UNCHANGED allVars
  BY <1>7 DEF allVars, vars, crawlVars, hostVars, spiderVars
<1> QED
  BY <1>1, <1>2, <1>3, <1>4, <1>5, <1>6, <1>7, SpiderCases
  DEF Running, CallbackStep, Has, Fetch, FillOutline

(* Metadata that was downloaded and can be read is neither dropped nor     *)
(* reordered nor shown twice, also when the channel is full and when Run   *)
(* has returned (btsniffer.go:63): the safety part of FetchedIsShown.      *)
THEOREM NothingIsDropped == SpiderSpec => [][HandedOver]_allVars
BY SpiderInvariant, HandedOverStep, PTL DEF SpiderSpec

==============================================================================
