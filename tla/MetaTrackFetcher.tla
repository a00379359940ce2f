-------------------------- MODULE MetaTrackFetcher --------------------------
(***************************************************************************)
(* sniffer.go, RunAndFetchTracker: the callback that dials an announced    *)
(* peer and runs a metaTrackFetcher on the connection, which asks for the  *)
(* tracker list (lt_tex) and, when the pipeline has no trackers for the    *)
(* info hash yet, for the metadata (ut_metadata) too, and hands what it    *)
(* gets to the pipeline.                                                   *)
(*                                                                         *)
(* Unlike bt.FetchMetadata it compares neither the info hash nor the       *)
(* reserved bits of the peer, writes no extension handshake of its own and *)
(* writes its requests to the stream unbuffered.                           *)
(*                                                                         *)
(* A peer may send anything (Messages) and hang up at any time, unless it  *)
(* is honest.                                                              *)
(***************************************************************************)
EXTENDS ExtProtocol

CONSTANTS
  Messages,    \* what a peer may send
  TrackerLists \* what the pipeline or a peer may have

ASSUME FetcherAssumption ==
  /\ <<>> \in TrackerLists
  /\ Nil \notin TrackerLists
  /\ \A msg \in Messages :
       /\ IsMessage(msg)
       /\ msg.type = "ext" /\ msg.body.kind = "added" => msg.body.added \in TrackerLists

VARIABLES
  pc,        \* where the callback is
  stream,    \* the connection
  cancelled, \* ctx is done
  session,   \* extCenter, fmExt and txExt
  wanted,    \* fmExt # nil: the metadata is wanted too
  fmdone,    \* metaTrackFetcher.fmdone
  rawmeta,   \* metaTrackFetcher.rawmeta
  calls,     \* history: the calls of the pipeline that deliver something
  heard,     \* history: the list pulled from the pipeline, the list that the
             \* peer sent last, and whether one that it announced is due
  peer       \* what kind of peer it is

vars == <<pc, stream, cancelled, session, wanted, fmdone, rawmeta, calls, heard, peer>>

(* An honest peer supports the extensions keys, has the metadata and some  *)
(* trackers, and knows the ids we gave our extensions or not.              *)
Stranger == [honest |-> FALSE, keys |-> {}, trackers |-> <<>>, knows |-> FALSE]
HonestPeers == [honest : {TRUE}, keys : SUBSET Keys, trackers : TrackerLists, knows : BOOLEAN]
Peers == HonestPeers \cup {Stranger}

TypeOK ==
  /\ pc \in {"dial", "handshake", "register", "check", "read", "react", "returned", "crashed"}
  /\ stream \in {"none", "open", "closed"}
  /\ cancelled \in BOOLEAN
  /\ IsSession(session, TrackerLists)
  /\ wanted \in BOOLEAN
  /\ fmdone \in BOOLEAN
  /\ rawmeta = Nil \/ rawmeta \in Seq(Int)
  /\ peer \in Peers
  /\ heard \in [pulled : TrackerLists, sent : TrackerLists \cup {Nil}, due : BOOLEAN]
  /\ \A i \in DOMAIN calls : calls[i].call \in
       {"DisposeMeta", "DisposeMetaAndTracker", "AppendTracker"}

Init ==
  /\ pc = "dial"
  /\ stream = "none"
  /\ cancelled = FALSE
  /\ session = NewSession(<<Tex>>, <<>>)
  /\ wanted = FALSE
  /\ fmdone = FALSE
  /\ rawmeta = Nil
  /\ calls = <<>>
  /\ heard = [pulled |-> <<>>, sent |-> Nil, due |-> FALSE]
  /\ peer \in Peers

------------------------------------------------------------------------------
fetcherVars == <<session, wanted, fmdone, rawmeta, calls, heard, peer>>

Cancel ==
  /\ ~cancelled
  /\ cancelled' = TRUE
  /\ UNCHANGED <<pc, stream, fetcherVars>>

(* A return from the callback runs the deferred stream.Close. *)
Return(from) ==
  /\ pc = from
  /\ pc' = "returned"
  /\ stream' = IF stream = "open" THEN "closed" ELSE stream

Goto(from, to) ==
  /\ pc = from
  /\ pc' = to
  /\ UNCHANGED stream

DialFails ==
  /\ Return("dial")
  /\ UNCHANGED <<cancelled, fetcherVars>>

Dial ==
  /\ pc = "dial"
  /\ pc' = "handshake"
  /\ stream' = "open"
  /\ UNCHANGED <<cancelled, fetcherVars>>

HandshakeFails ==
  /\ Return("handshake")
  /\ UNCHANGED <<cancelled, fetcherVars>>

Handshaken ==
  /\ Goto("handshake", "register")
  /\ UNCHANGED <<cancelled, fetcherVars>>

(* RegistExts: PullTrackerList returns a list and whether it has one. *)
RegistExts(list, ok) ==
  /\ Goto("register", "check")
  /\ session' = NewSession(IF ok THEN <<Tex>> ELSE <<Tex, Meta>>, list)
  /\ wanted' = ~ok
  /\ heard' = [heard EXCEPT !.pulled = list]
  /\ UNCHANGED <<cancelled, fmdone, rawmeta, calls, peer>>

(* Mutant: the context is not looked at. *)
CheckCtxNever ==
  /\ Goto("check", "read")
  /\ UNCHANGED <<cancelled, fetcherVars>>

CheckCtx ==
  /\ IF cancelled THEN Return("check") ELSE Goto("check", "read")
  /\ UNCHANGED <<cancelled, fetcherVars>>

ReadFails ==
  /\ Return("read")
  /\ UNCHANGED <<cancelled, fetcherVars>>

Skip ==
  /\ Goto("read", "check")
  /\ UNCHANGED <<cancelled, fetcherVars>>

------------------------------------------------------------------------------
(* What MainLoop does after HandlePayload left the session s. *)
Deliver(c, meta, list) == calls' = Append(calls, [call |-> c, meta |-> meta, trackers |-> list])

Continue == Goto("react", "check") /\ UNCHANGED calls

(* onlyMeta *)
OnlyMeta(s) ==
  /\ UNCHANGED <<fmdone, rawmeta>>
  /\ IF ~CheckDone(s) THEN Continue
     ELSE /\ Return("react")
          /\ IF HashMatches(s) THEN Deliver("DisposeMeta", Joined(s), <<>>) ELSE UNCHANGED calls

(* Mutant: onlyTracker goes on after it delivered. *)
OnlyTrackerGoesOn(s) ==
  /\ UNCHANGED <<fmdone, rawmeta>>
  /\ Goto("react", "check")
  /\ IF s.more \/ s.trlist = <<>> THEN UNCHANGED calls
     ELSE Deliver("AppendTracker", Nil, s.trlist)

(* onlyTracker *)
OnlyTracker(s) ==
  /\ UNCHANGED <<fmdone, rawmeta>>
  /\ IF s.more THEN Continue
     ELSE /\ Return("react")
          /\ IF s.trlist # <<>> THEN Deliver("AppendTracker", Nil, s.trlist) ELSE UNCHANGED calls

(* metaAndTracker.  FetchRawMeta returns nil with its error, and rawmeta   *)
(* is assigned in the error case (sniffer.go:214).                         *)
MetaAndTracker(s) ==
  LET fetched == IF HashMatches(s) THEN Joined(s) ELSE Nil
      err == ~HashMatches(s)
  IN  /\ fmdone' = (fmdone \/ CheckDone(s))
      /\ rawmeta' = IF ~fmdone /\ CheckDone(s) /\ err THEN fetched ELSE rawmeta
      /\ IF ~fmdone' \/ s.more THEN Continue
         ELSE /\ Return("react")
              /\ IF s.trlist = <<>> THEN
                   IF rawmeta' # Nil THEN Deliver("DisposeMeta", rawmeta', <<>>) ELSE UNCHANGED calls
                 ELSE IF rawmeta' # Nil THEN Deliver("DisposeMetaAndTracker", rawmeta', s.trlist)
                 ELSE Deliver("AppendTracker", Nil, s.trlist)

(* The history of a message, told from the message alone. *)
Hear(msg) ==
  heard' = IF msg.type = "handshake" THEN [heard EXCEPT !.due = msg.tr = "some"]
           ELSE IF msg.type = "ext" /\ msg.id = 1 THEN
             [heard EXCEPT !.due = FALSE,
                           !.sent = IF msg.body.kind = "added" THEN msg.body.added ELSE <<>>]
           ELSE heard

(* An extension message: HandlePayload. *)
Receive(msg) ==
  LET s == HandlePayload(session, msg)
  IN  /\ pc = "read"
      /\ session' = s
      /\ Hear(msg)
      /\ IF s.status = "panic" THEN pc' = "crashed" /\ UNCHANGED stream
         ELSE IF s.status = "error" THEN Return("read")
         ELSE Goto("read", "react")
      /\ UNCHANGED <<cancelled, wanted, fmdone, rawmeta, calls, peer>>

ReceiveAny == \E msg \in Messages : Receive(msg)

(* After a handshake the requests are written to the connection, however   *)
(* many the peer's size asks for, each for ten seconds at most and without *)
(* a look at ctx.  One may be lost and the next written.                   *)
WriteRequest(s) ==
  /\ pc = "react" /\ Requesting(session)
  /\ session' = s
  /\ UNCHANGED <<pc, stream, cancelled, wanted, fmdone, rawmeta, calls, heard, peer>>

WriteFails ==
  /\ Requesting(session)
  /\ Return("react")
  /\ UNCHANGED <<cancelled, fetcherVars>>

(* What MainLoop does then. *)
React ==
  /\ pc = "react" /\ ~Requesting(session)
  /\ IF wanted /\ Meta \in session.supports THEN
       IF Tex \in session.supports THEN MetaAndTracker(session) ELSE OnlyMeta(session)
     ELSE IF Tex \in session.supports THEN OnlyTracker(session)
     ELSE Return("react") /\ UNCHANGED <<fmdone, rawmeta, calls>>
  /\ UNCHANGED <<cancelled, session, wanted, heard, peer>>

------------------------------------------------------------------------------
(* An honest peer introduces its extensions, answers requests with the     *)
(* true pieces and sends its trackers once.  It can do the latter two only *)
(* if it knows the ids we gave the extensions, which our handshake would   *)
(* tell it, were it sent.                                                  *)
PeerHandshake ==
  [ type |-> "handshake", m |-> [k \in peer.keys |-> 3], size |-> Len(TrueMeta),
    tr |-> IF peer.trackers = <<>> THEN "empty" ELSE "some" ]

PeerData(no) ==
  [type |-> "ext", id |-> 2, body |-> [kind |-> "data", piece |-> no, bytes |-> TruePiece(no)]]

PeerTrackers ==
  [type |-> "ext", id |-> 1, body |-> [kind |-> "added", added |-> peer.trackers]]

ReceiveHandshake ==
  /\ peer.honest
  /\ ~session.met
  /\ Receive(PeerHandshake)

ReceiveData(no) ==
  /\ peer.knows
  /\ no \in session.asked
  /\ Receive(PeerData(no))

ReceiveTrackers ==
  /\ peer.knows
  /\ session.more
  /\ Receive(PeerTrackers)

------------------------------------------------------------------------------
Connecting ==
  \/ Dial \/ Handshaken
  \/ \E list \in TrackerLists, ok \in BOOLEAN : RegistExts(list, ok)
  \/ ~peer.honest /\ (DialFails \/ HandshakeFails)

Reading ==
  \/ Skip
  \/ ~peer.honest /\ (ReadFails \/ ReceiveAny)
  \/ ReceiveHandshake \/ ReceiveTrackers
  \/ \E no \in 0..Len(TrueMeta) : ReceiveData(no)

Reacting ==
  \/ React \/ WriteRequest(Request(session))
  \/ ~peer.honest /\ (WriteRequest(LoseRequest(session)) \/ WriteFails)

Next == Cancel \/ Connecting \/ CheckCtx \/ Reading \/ Reacting

Spec == Init /\ [][Next]_vars

(* The goroutine runs, and no read or write lasts for ever.  An honest     *)
(* peer's answers come, whatever else it sends before them.                *)
Fairness ==
  /\ WF_vars(Connecting)
  /\ WF_vars(CheckCtx)
  /\ WF_vars(Reading)
  /\ WF_vars(Reacting)
  /\ SF_vars(ReceiveHandshake)
  /\ SF_vars(ReceiveTrackers)
  /\ \A no \in 0..Len(TrueMeta) : SF_vars(ReceiveData(no))

FairSpec == Spec /\ Fairness

------------------------------------------------------------------------------
Delivered(c, meta, list) == [call |-> c, meta |-> meta, trackers |-> list] \in {calls[i] : i \in DOMAIN calls}

------------------------------------------------------------------------------
(* The pipeline is only given metadata that hash to the info hash, and     *)
(* only the tracker list that the peer sent last, never one older than a   *)
(* handshake that announces another; the pipeline's own list comes back to *)
(* it if the peer sent none (sniffer.go:201).                              *)
OnlyTrueDelivered ==
  \A i \in DOMAIN calls :
    /\ calls[i].meta \in {Nil, TrueMeta}
    /\ calls[i].call # "DisposeMeta" =>
         /\ calls[i].trackers = IF heard.sent = Nil THEN heard.pulled ELSE heard.sent
         /\ ~heard.due

(* One announced peer, one delivery: the loop ends with what it delivers,  *)
(* whatever else the peer sends.                                           *)
AtMostOneDelivery == Len(calls) <= 1

(* Only four kinds of messages crash the program in HandlePayload; no      *)
(* other sequence of messages does.                                        *)
OnlyPoisonCrashes ==
  [][pc' = "crashed" /\ pc # "crashed" =>
       \E msg \in Messages : Poisonous(session, msg) /\ Receive(msg)]_vars

(* A callback whose context is done comes to an end, also in the middle of *)
(* the requests for a size that the peer made up and that nobody reads: it *)
(* returns, or the program crashes, for which the peer has to send one of  *)
(* the Poisonous messages.                                                 *)
CancelEndsFetch ==
  /\ cancelled ~> pc \in {"returned", "crashed"}
  /\ OnlyPoisonCrashes

(* From an honest peer that has only one of the two extensions and knows   *)
(* our ids the pipeline gets what that extension is for, unless ctx is     *)
(* done first.                                                             *)
OneExtensionServed ==
  /\ wanted /\ peer.knows /\ peer.keys = {Meta}
       ~> cancelled \/ Delivered("DisposeMeta", TrueMeta, <<>>)
  /\ pc = "check" /\ peer.knows /\ peer.keys = {Tex} /\ peer.trackers # <<>>
       ~> cancelled \/ Delivered("AppendTracker", Nil, peer.trackers)

(* sniffer.go:29 "Spider can crawl Meta from dht.": an honest peer with    *)
(* both extensions answers every request, so the pipeline is given the     *)
(* metadata.                                                               *)
MetaIsDelivered ==
  wanted /\ peer.knows /\ peer.keys = Keys ~>
    cancelled \/ \E i \in DOMAIN calls : calls[i].meta = TrueMeta

(* sniffer.go:88 "RunAndFetchTracker run and fetch tracker use tex         *)
(* protocal": the trackers of an honest peer that speaks lt_tex reach the  *)
(* pipeline.                                                               *)
TrackersAreFetched ==
  pc = "check" /\ peer.honest /\ peer.keys = {Tex} /\ peer.trackers # <<>>
    ~> cancelled \/ Delivered("AppendTracker", Nil, peer.trackers)
==============================================================================
