------------------------------- MODULE Spider -------------------------------
(***************************************************************************)
(* sniffer.go, Spider.Run: a SybilCrawler whose callback asks the pipeline *)
(* whether it has the torrent, downloads its metadata and hands it over.   *)
(* The pipeline is that of example/btsniffer: DisposeMeta sends an outline *)
(* to a channel, out of which the main goroutine prints.  All of this runs *)
(* in the crawler's worker, so a reader that is slow holds up Serv.        *)
(*                                                                         *)
(* A torrent is the announce_peer that told of it.  The download is one    *)
(* step with the outcomes that FetchMetadata has: metadata, an error, or a *)
(* panic, and so is the reading of what was downloaded (Messages).  They   *)
(* run in the crawler's worker, so that a panic there ends everything.     *)
(***************************************************************************)
EXTENDS SybilCrawler, Sequences

CONSTANTS
  HasAnswers,  \* what Pipeline.Has may answer; the example's says FALSE
  BufSize      \* of the channel

ASSUME SpiderAssumption == HasAnswers \subseteq BOOLEAN /\ BufSize \in Nat \ {0}

VARIABLES
  callback,    \* callback[w]: where the callback in worker w is
  ch,          \* SimplePipeline.ch
  shown        \* what the main goroutine prints, or None while it waits

spiderVars == <<callback, ch, shown>>
allVars == <<vars, spiderVars>>

SpiderTypeOK ==
  /\ callback \in [Workers -> {"has", "fetch", "dispose", "send", "over"}]
  /\ ch \in Seq(Packets) /\ Len(ch) <= BufSize
  /\ shown \in Packets \cup {None}

SpiderInit ==
  /\ Init
  /\ callback = [w \in Workers |-> "has"]
  /\ ch = <<>>
  /\ shown = None

(* The callback goes on, or returns; the panic of a fatal announce_peer is *)
(* still to come then.                                                     *)
GoesOn(w, from, to) ==
  /\ step[w] = "callback"
  /\ callback[w] = from
  /\ callback' = [callback EXCEPT ![w] = to]
  /\ UNCHANGED <<crawlVars, shown>>

Returns(w, from) ==
  \/ /\ callback[w] = from
     /\ CallbackReturns(w)
     /\ callback' = [callback EXCEPT ![w] = "has"]
     /\ UNCHANGED shown
  \/ GoesOn(w, from, "over") /\ TypeOf[Message(w)] \in Fatal

(* The callback panics, or is over in a handler that did. *)
Panics(w, from) ==
  /\ callback[w] = from
  /\ CallbackPanics(w)

Has(w) ==
  /\ \E has \in HasAnswers : IF has THEN Returns(w, "has") ELSE GoesOn(w, "has", "fetch")
  /\ UNCHANGED ch

(* Metadata, an error (of the peer, or of the five minutes), or one of the *)
(* panics of a handshake or an answer (FetchMetadata).                     *)
Fetch(w) ==
  /\ GoesOn(w, "fetch", "dispose") \/ Returns(w, "fetch")
  /\ UNCHANGED ch

FetchPanics(w) == Panics(w, "fetch")

(* DisposeMeta: FillOutline, whose error is a return, and which panics at  *)
(* metadata with neither a length nor files (metadata.go:42) ...           *)
FillOutline(w) ==
  /\ GoesOn(w, "dispose", "send") \/ Returns(w, "dispose")
  /\ UNCHANGED ch

FillOutlinePanics(w) == Panics(w, "dispose")

(* Mutant: a full channel is a reason to give up. *)
SendOrDrop(w) ==
  /\ Returns(w, "send")
  /\ ch' = IF Len(ch) < BufSize THEN Append(ch, Message(w)) ELSE ch

(* ... then the send, which waits while the channel is full. *)
Send2Channel(w) ==
  /\ Len(ch) < BufSize
  /\ Returns(w, "send")
  /\ ch' = Append(ch, Message(w))

PanicGoesOn(w) == Panics(w, "over")

WorkerPanics(w) ==
  \/ AnswerPanics(w) \/ FetchPanics(w) \/ FillOutlinePanics(w) \/ PanicGoesOn(w)

CallbackStep(w) == Has(w) \/ Fetch(w) \/ FillOutline(w)

(* main: for mo := range p.MetaChan() ... *)
RangeChan ==
  /\ shown = None
  /\ ch # <<>>
  /\ shown' = Head(ch)
  /\ ch' = Tail(ch)
  /\ UNCHANGED <<crawlVars, callback>>

(* ... and the lines about it are printed. *)
PrintLines ==
  /\ shown # None
  /\ shown' = None
  /\ UNCHANGED <<crawlVars, callback, ch>>

Spidering ==
  \/ Crawling /\ UNCHANGED spiderVars
  \/ \E w \in Workers : CallbackStep(w) \/ Send2Channel(w)
  \/ RangeChan \/ PrintLines

SpiderNext ==
  \/ Running(Spidering)
  \/ alive /\ (\E w \in Workers : WorkerPanics(w)) /\ UNCHANGED spiderVars

(* The panics that have to come, from the id of the sender. *)
Panicking(w) == alive /\ (AnswerPanics(w) \/ PanicGoesOn(w)) /\ UNCHANGED spiderVars

(* The fairness of the crawler; a callback runs on, its download too, a    *)
(* panic takes its course, and so does main.  A send that finds room again *)
(* and again is done: senders of a channel wait in a queue.                *)
SpiderSpec ==
  /\ SpiderInit /\ [][SpiderNext]_allVars
  /\ Fairness
  /\ \A w \in Workers :
       /\ WF_allVars(Running(CallbackStep(w)))
       /\ WF_allVars(Panicking(w))
       /\ SF_allVars(Running(Send2Channel(w)))
  /\ WF_allVars(Running(RangeChan \/ PrintLines))

------------------------------------------------------------------------------
(* A cancelled Run returns, even with a pool of one worker that is busy    *)
(* with a download or waits for room in the channel while Serv waits for   *)
(* the worker, and whatever the loop and the refresher do; unless a panic  *)
(* in a worker ends the process before.                                    *)
CrawlReturns == cancelled /\ crawl = "serving" ~> crawl = "returned" \/ ~alive

(* After Run has returned the goroutines that this module has end: the     *)
(* loop, through finish the refresher, and the handlers in the workers     *)
(* with their callbacks.  (The worker pool, which is started at dht.go:72  *)
(* and not stopped, keeps its own goroutines.)                             *)
NothingLeftRunning ==
  crawl = "returned" ~>
    \/ /\ loop[Box] = "done"
       /\ refresher = "exit"
       /\ \A w \in Workers : step[w] = "idle"
    \/ ~alive

(* crawler.go:16: an announced infohash that was received is reported to   *)
(* the callback, also when its sender is not asked for more, when its id   *)
(* is one that makeID panics at (crawler.go:249, 253), and after the       *)
(* cancellation.  Lost are those that wait for a worker when another       *)
(* query, or a download, ends the process by a panic.                      *)
EveryAnnounceIsReported ==
  \A p \in Packets :
    serv = "spawn" /\ buf = p /\ TypeOf[p] \in Reports
      ~> (\E w \in Workers : seen[w] = p /\ step[w] = "callback") \/ ~alive

(* Metadata that has been downloaded and can be read is shown, also when   *)
(* the channel is full and when Run has returned in the meantime: all of   *)
(* it, that is, which is not waiting for the channel, or in it, when the   *)
(* process dies of a panic in a worker.                                    *)
FetchedIsShown ==
  \A p \in Packets :
    (\E w \in Workers : callback[w] = "send" /\ Message(w) = p) ~> shown = p \/ ~alive
=============================================================================
