----------------------- MODULE MetaTrackFetcherProofs -----------------------
(***************************************************************************)
(* Proofs about MetaTrackFetcher, for any metadata, any tracker lists and  *)
(* any messages of the peer.                                               *)
(***************************************************************************)
EXTENDS MetaTrackFetcher, ExtProtocolProofs

(* txExt comes first and fmExt, if it is wanted, second; either may have   *)
(* been removed.                                                           *)
Registered(e) ==
  /\ Len(e) \in {1, 2}
  /\ e[1] \in {Tex, Nil}
  /\ Len(e) = 2 => e[2] \in {Meta, Nil}

(* What the session has of the peer's trackers is what was heard of them:  *)
(* the list is the last one sent, and more are expected while one that was *)
(* announced is due.                                                       *)
Heard(h) == IF h.sent = Nil THEN h.pulled ELSE h.sent

Agrees(s, h) ==
  /\ s.trlist = Heard(h)
  /\ Tex \in s.supports => (s.more <=> h.due)

SessionInv ==
  /\ Registered(session.exts)
  /\ pc \notin {"returned", "crashed"} => session.status = "ok" /\ Agrees(session, heard)
  /\ pc \in {"dial", "handshake", "register"} => heard.sent = Nil

(* sniffer.go:214 assigns rawmeta what FetchRawMeta returns beside an      *)
(* error, which is nil; so DisposeMetaAndTracker is never called.          *)
NeverBoth ==
  /\ rawmeta = Nil
  /\ \A i \in DOMAIN calls : calls[i].call # "DisposeMetaAndTracker"

(* A delivery ends the loop. *)
DeliveryInv == pc # "returned" => calls = <<>>

IInv ==
  /\ TypeOK
  /\ SessionInv
  /\ DeliveryInv
  /\ NeverBoth
  /\ OnlyTrueDelivered
  /\ AtMostOneDelivery

------------------------------------------------------------------------------
(* The first round of a handshake, that of txExt. *)
LEMMA TexRound ==
  ASSUME NEW a \in Sessions(TrackerLists), Registered(a.exts), a.status = "ok", NEW hs
  PROVE  LET b == Introduce(a, 1, hs)
         IN  /\ Registered(b.exts)
             /\ b.trlist = a.trlist
             /\ b.status = "ok" /\ Tex \in b.supports => (b.more <=> hs.tr = "some")
<1> DEFINE b == Introduce(a, 1, hs)
<1>0. a.exts \in Seq(Keys \cup {Nil}) /\ 1 \in DOMAIN a.exts
  BY DEF Registered, Sessions
<1>1. CASE a.exts[1] = Nil
  <2>1. b = Panic(a)
    BY <1>1 DEF Introduce
  <2>2. b.exts = a.exts /\ b.trlist = a.trlist /\ b.status = "panic"
    BY <2>1 DEF Panic, Sessions
  <2> HIDE DEF b
  <2>3. Registered(b.exts)
    BY <2>2
  <2> QED BY <2>2, <2>3 DEF b
<1>2. CASE a.exts[1] # Nil /\ a.ids[a.exts[1]] = 0
  <2> DEFINE more == (a.more /\ a.exts[1] # Tex)
             exts == ReplaceAt(a.exts, 1, Nil)
  <2>1. b = [a EXCEPT !.supports = @ \ {a.exts[1]}, !.more = more, !.exts = exts]
    BY <1>2 DEF Introduce, Unsupport
  <2>2. Registered(exts)
    BY <1>0 DEF Registered, ReplaceAt
  <2>3. a.exts[1] = Tex
    BY <1>2 DEF Registered
  <2> HIDE DEF more, exts, b
  <2>4. b.supports = a.supports \ {Tex} /\ b.exts = exts /\ b.trlist = a.trlist
    BY <2>1, <2>3 DEF Sessions
  <2> QED BY <2>2, <2>4 DEF b
<1>3. CASE a.exts[1] # Nil /\ a.ids[a.exts[1]] # 0
  <2>1. a.exts[1] = Tex /\ Tex # Meta
    BY <1>3 DEF Registered, Tex, Meta
  <2>2. b = TexAfterHandshake(a, hs)
    BY <1>3, <2>1 DEF Introduce
  <2> HIDE DEF b
  <2>3. b.exts = a.exts /\ b.trlist = a.trlist /\ (b.more <=> hs.tr = "some")
    BY <2>2 DEF TexAfterHandshake, Sessions
  <2>4. Registered(b.exts)
    BY <2>3
  <2> QED BY <2>3, <2>4 DEF b
<1> QED BY <1>1, <1>2, <1>3

(* The second round, that of fmExt, leaves the trackers alone. *)
LEMMA MetaRound ==
  ASSUME NEW b \in Sessions(TrackerLists), Registered(b.exts), Len(b.exts) = 2, NEW hs
  PROVE  LET c == Introduce(b, 2, hs)
         IN  /\ Registered(c.exts)
             /\ c.trlist = b.trlist
             /\ c.status = "ok" => b.status = "ok" /\ (Tex \in c.supports <=> Tex \in b.supports)
                                                 /\ (c.more <=> b.more)
<1> DEFINE c == Introduce(b, 2, hs)
<1>0. /\ b.exts \in Seq(Keys \cup {Nil}) /\ 1 \in DOMAIN b.exts /\ 2 \in DOMAIN b.exts
      /\ b.exts[2] \in {Meta, Nil} /\ Tex # Meta
  BY DEF Registered, Sessions, Tex, Meta
<1>1. CASE b.status # "ok"
  BY <1>1 DEF Introduce
<1>2. CASE b.status = "ok" /\ b.exts[2] = Nil
  <2>1. c = Panic(b)
    BY <1>2 DEF Introduce
  <2>2. c.exts = b.exts /\ c.trlist = b.trlist /\ c.status = "panic"
    BY <2>1 DEF Panic, Sessions
  <2> HIDE DEF c
  <2>3. Registered(c.exts)
    BY <2>2
  <2> QED BY <2>2, <2>3 DEF c
<1>3. CASE b.status = "ok" /\ b.exts[2] # Nil /\ b.ids[b.exts[2]] = 0
  <2> DEFINE more == (b.more /\ b.exts[2] # Tex)
             exts == ReplaceAt(b.exts, 2, Nil)
  <2>1. c = [b EXCEPT !.supports = @ \ {b.exts[2]}, !.more = more, !.exts = exts]
    BY <1>3 DEF Introduce, Unsupport
  <2>2. Registered(exts)
    BY <1>0 DEF Registered, ReplaceAt
  <2>3. b.exts[2] = Meta /\ (more <=> b.more)
    BY <1>0, <1>3
  <2> HIDE DEF more, exts, c
  <2>4. c.supports = b.supports \ {Meta} /\ c.exts = exts /\ c.trlist = b.trlist /\ c.more = more
    BY <2>1, <2>3 DEF Sessions
  <2> QED BY <1>0, <1>3, <2>2, <2>3, <2>4 DEF c
<1>4. CASE b.status = "ok" /\ b.exts[2] # Nil /\ b.ids[b.exts[2]] # 0
  <2>1. c = MetaAfterHandshake(b, hs)
    BY <1>0, <1>4 DEF Introduce
  <2> HIDE DEF c
  <2>2. c.exts = b.exts /\ c.trlist = b.trlist /\ c.more = b.more /\ c.supports = b.supports \cup {Meta}
    BY <2>1 DEF MetaAfterHandshake, Error, Panic, Sessions
  <2>3. Registered(c.exts)
    BY <2>2
  <2> QED BY <1>0, <1>4, <2>2, <2>3 DEF c
<1> QED BY <1>1, <1>2, <1>3, <1>4

------------------------------------------------------------------------------
(* Messages as the assumption on them and an honest peer make them. *)
Sendable(msg) ==
  /\ IsMessage(msg)
  /\ msg.type = "ext" /\ msg.body.kind = "added" => msg.body.added \in TrackerLists

Hearings == [pulled : TrackerLists, sent : TrackerLists \cup {Nil}, due : BOOLEAN]

(* What has been heard after a message: the right hand side of Hear. *)
After(h, msg) ==
  IF msg.type = "handshake" THEN [h EXCEPT !.due = msg.tr = "some"]
  ELSE IF msg.type = "ext" /\ msg.id = 1 THEN
    [h EXCEPT !.due = FALSE, !.sent = IF msg.body.kind = "added" THEN msg.body.added ELSE <<>>]
  ELSE h

(* The history of tracker lists keeps its type. *)
LEMMA AfterHearing ==
  ASSUME NEW h \in Hearings, NEW msg, Sendable(msg)
  PROVE  After(h, msg) \in Hearings
<1>1. CASE msg.type = "handshake"
  <2> DEFINE due == (msg.tr = "some")
  <2>1. due \in BOOLEAN /\ After(h, msg) = [h EXCEPT !.due = due]
    BY <1>1 DEF After
  <2> HIDE DEF due
  <2> QED BY <2>1 DEF Hearings
<1>2. CASE msg.type = "ext" /\ msg.id = 1
  <2> DEFINE sent == IF msg.body.kind = "added" THEN msg.body.added ELSE <<>>
  <2>1. sent \in TrackerLists
    BY <1>2, FetcherAssumption DEF Sendable
  <2>2. After(h, msg) = [h EXCEPT !.due = FALSE, !.sent = sent]
    BY <1>2 DEF After
  <2> HIDE DEF sent
  <2> QED BY <2>1, <2>2 DEF Hearings
<1> QED BY <1>1, <1>2 DEF After

(* A handshake and what is heard of it agree. *)
LEMMA HandshakeAgrees ==
  ASSUME NEW s, IsSession(s, TrackerLists), Registered(s.exts), s.status = "ok",
         NEW h \in Hearings, Agrees(s, h), NEW hs, IsMessage(hs), hs.type = "handshake"
  PROVE  LET t == Handshake(s, hs)
         IN  Registered(t.exts) /\ (t.status = "ok" => Agrees(t, After(h, hs)))
<1> DEFINE a == Merged(s, hs)
           b == Introduce(a, 1, hs)
           c == Introduce(b, 2, hs)
           g == After(h, hs)
<1>1. StaysSession(s, a, TrackerLists)
  BY MergedSession
<1>2. a.exts = s.exts /\ a.status = "ok" /\ a.trlist = s.trlist
  BY DEF Merged, IsSession, Sessions
<1>3. a \in Sessions(TrackerLists) /\ 1 \in DOMAIN a.exts
  BY <1>1, <1>2 DEF StaysSession, IsSession, Sessions, Registered
<1>4. Registered(a.exts)
  BY <1>2
<1> HIDE DEF a
<1>5. StaysSession(a, b, TrackerLists)
  BY <1>1, <1>3, IntroduceSession DEF StaysSession
<1>6. /\ Registered(b.exts) /\ b.trlist = s.trlist
      /\ b.status = "ok" /\ Tex \in b.supports => (b.more <=> hs.tr = "some")
  BY <1>2, <1>3, <1>4, TexRound
<1>7. Heard(g) = Heard(h) /\ (g.due <=> hs.tr = "some")
  BY DEF After, Hearings, Heard
<1> HIDE DEF g
<1>8. CASE Len(s.exts) = 1
  <2>1. s.exts = <<s.exts[1]>>
    BY <1>8 DEF IsSession, Sessions
  <2>2. Handshake(s, hs) = b
    BY <2>1, HandshakeOfOne DEF a
  <2> HIDE DEF b
  <2> QED BY <1>6, <1>7, <2>2 DEF Agrees, g
<1>9. CASE Len(s.exts) = 2
  <2>1. s.exts = <<s.exts[1], s.exts[2]>>
    BY <1>9 DEF IsSession, Sessions
  <2>2. Handshake(s, hs) = c
    BY <2>1, HandshakeOfTwo DEF a
  <2> HIDE DEF b
  <2>3. b \in Sessions(TrackerLists) /\ DOMAIN b.exts = DOMAIN s.exts
    BY <1>1, <1>5 DEF StaysSession, IsSession
  <2>4. Len(b.exts) = 2
    BY <1>9, <2>1, <2>3 DEF Sessions
  <2>5. /\ Registered(c.exts) /\ c.trlist = b.trlist
        /\ c.status = "ok" => b.status = "ok" /\ (Tex \in c.supports <=> Tex \in b.supports)
                                            /\ (c.more <=> b.more)
    BY <1>6, <2>3, <2>4, MetaRound
  <2> HIDE DEF c
  <2> QED BY <1>6, <1>7, <2>2, <2>5 DEF Agrees, g
<1> QED BY <1>8, <1>9 DEF Registered

(* So do a message for an extension and what is heard of it. *)
LEMMA DispatchAgrees ==
  ASSUME NEW s, IsSession(s, TrackerLists), Registered(s.exts), s.status = "ok",
         NEW h \in Hearings, Agrees(s, h), NEW msg, Sendable(msg), msg.type = "ext"
  PROVE  LET t == Dispatch(s, msg.id, msg.body)
         IN  Registered(t.exts) /\ (t.status = "ok" => Agrees(t, After(h, msg)))
<1> DEFINE t == Dispatch(s, msg.id, msg.body)
<1>1. t.exts = s.exts /\ t.supports = s.supports
  BY DispatchKeeps DEF IsSession, Sendable
<1>2. Error(s).status = "error"
  BY DEF Error, IsSession, Sessions
<1>3. CASE t = Error(s)
  BY <1>1, <1>2, <1>3
<1>4. CASE t # Error(s)
  <2>1. /\ s.met /\ ~(msg.id > Len(s.exts)) /\ s.exts[msg.id] # Nil
        /\ t = IF s.exts[msg.id] = Meta THEN MetaHandle(s, msg.body) ELSE TexHandle(s, msg.body)
    BY <1>4 DEF Dispatch
  <2>2. msg.id \in {1, 2}
    <3>1. msg.id \in 1..255 /\ Len(s.exts) \in {1, 2}
      BY DEF Sendable, IsMessage, Registered
    <3>2. \A i \in 1..255, n \in {1, 2} : ~(i > n) => i \in {1, 2}
      OBVIOUS
    <3> QED BY <2>1, <3>1, <3>2, Zenon
  <2>3. CASE msg.id = 1
    <3> DEFINE sent == IF msg.body.kind = "added" THEN msg.body.added ELSE <<>>
    <3>1. t = TexHandle(s, msg.body)
      BY <2>1, <2>3 DEF Registered, Tex, Meta
    <3>2. t = [s EXCEPT !.more = FALSE, !.trlist = sent]
      BY <1>4, <3>1 DEF TexHandle
    <3>3. After(h, msg) = [h EXCEPT !.due = FALSE, !.sent = sent]
      BY <2>3 DEF After
    <3>4. sent \in TrackerLists /\ sent # Nil
      BY FetcherAssumption DEF Sendable
    <3> HIDE DEF sent, t
    <3>5. t.trlist = sent /\ ~t.more
      BY <3>2 DEF IsSession, Sessions
    <3>6. After(h, msg).sent = sent /\ ~After(h, msg).due
      BY <3>3 DEF Hearings
    <3>7. Agrees(t, After(h, msg))
      BY <3>4, <3>5, <3>6 DEF Agrees, Heard
    <3> QED BY <1>1, <3>7 DEF t
  <2>4. CASE msg.id = 2
    <3>1. t = MetaHandle(s, msg.body)
      BY <2>1, <2>4 DEF Registered
    <3>2. t.trlist = s.trlist /\ t.more = s.more
      BY <3>1 DEF MetaHandle, Error, Panic, IsSession, Sessions
    <3>3. After(h, msg) = h
      BY <2>4 DEF After
    <3> HIDE DEF t
    <3> QED BY <1>1, <3>2, <3>3 DEF Agrees, t
  <2> QED BY <2>2, <2>3, <2>4
<1> QED BY <1>3, <1>4

(* So does every payload. *)
LEMMA PayloadAgrees ==
  ASSUME NEW s, IsSession(s, TrackerLists), Registered(s.exts), s.status = "ok",
         NEW h \in Hearings, Agrees(s, h), NEW msg, Sendable(msg)
  PROVE  LET t == HandlePayload(s, msg)
         IN  /\ IsSession(t, TrackerLists)
             /\ Registered(t.exts)
             /\ t.status = "ok" => Agrees(t, After(h, msg))
<1> DEFINE t == HandlePayload(s, msg)
<1>1. IsSession(t, TrackerLists)
  <2>1. StaysSession(s, t, TrackerLists)
    BY HandlePayloadSession, FetcherAssumption DEF Sendable, Registered
  <2> QED BY <2>1 DEF StaysSession
<1>2. CASE msg.type = "handshake"
  <2>1. Error(s).exts = s.exts /\ Error(s).status = "error"
    BY DEF Error, IsSession, Sessions
  <2>2. t = Error(s) \/ t = Handshake(s, msg)
    BY <1>2 DEF HandlePayload
  <2> HIDE DEF t
  <2> QED BY <1>1, <1>2, <2>1, <2>2, HandshakeAgrees DEF t, Sendable
<1>3. CASE msg.type = "ext"
  BY <1>1, <1>3, DispatchAgrees DEF HandlePayload
<1>4. CASE msg.type \in {"empty", "garbage"}
  <2>1. t.exts = s.exts /\ t.status # "ok"
    BY <1>4 DEF HandlePayload, Error, Panic, IsSession, Sessions
  <2> QED BY <1>1, <2>1
<1> QED BY <1>2, <1>3, <1>4 DEF Sendable, IsMessage

------------------------------------------------------------------------------
(* What an honest peer sends decodes. *)
LEMMA HonestMessages ==
  ASSUME peer \in HonestPeers
  PROVE  /\ Sendable(PeerHandshake)
         /\ Sendable(PeerTrackers)
         /\ \A no \in 0..Len(TrueMeta) : Sendable(PeerData(no))
<1>1. Sendable(PeerHandshake)
  BY ProtocolAssumption DEF Sendable, IsMessage, PeerHandshake
<1>2. Sendable(PeerTrackers)
  BY DEF Sendable, IsMessage, PeerTrackers, HonestPeers
<1>3. ASSUME NEW no \in 0..Len(TrueMeta) PROVE Sendable(PeerData(no))
  <2>1. TruePiece(no) \in Seq(Int)
    BY ProtocolAssumption DEF TruePiece
  <2> QED BY <2>1 DEF Sendable, IsMessage, PeerData
<1> QED BY <1>1, <1>2, <1>3

(* A fresh session has heard nothing of trackers. *)
LEMMA NewSessionAgrees ==
  ASSUME NEW exts \in {<<Tex>>, <<Tex, Meta>>}, NEW list \in TrackerLists
  PROVE  LET s == NewSession(exts, list)
         IN  /\ IsSession(s, TrackerLists) /\ Registered(s.exts) /\ s.status = "ok"
             /\ s.supports = {} /\ s.trlist = list
<1> DEFINE s == NewSession(exts, list)
<1>1. exts \in Seq(Keys \cup {Nil}) /\ Registered(exts)
  <2>1. CASE exts = <<Tex>>
    BY <2>1 DEF Registered, Keys
  <2>2. CASE exts = <<Tex, Meta>>
    BY <2>2 DEF Registered, Keys
  <2> QED BY <2>1, <2>2
<1>2. s.exts = exts /\ s.status = "ok" /\ s.supports = {} /\ s.trlist = list
  BY DEF NewSession
<1>3. IsSession(s, TrackerLists)
  BY <1>1 DEF NewSession, IsSession, Sessions, Keys
<1> QED BY <1>1, <1>2, <1>3

(* The invariant holds at the start. *)
LEMMA InvariantInit == Init => IInv
<1> SUFFICES ASSUME Init PROVE IInv
  OBVIOUS
<1>1. /\ IsSession(session, TrackerLists) /\ Registered(session.exts) /\ session.status = "ok"
      /\ session.supports = {} /\ session.trlist = <<>>
  BY NewSessionAgrees, FetcherAssumption DEF Init
<1>2. /\ pc = "dial" /\ stream = "none" /\ rawmeta = Nil /\ calls = <<>> /\ peer \in Peers
      /\ heard = [pulled |-> <<>>, sent |-> Nil, due |-> FALSE]
  BY DEF Init
<1>3. cancelled \in BOOLEAN /\ wanted \in BOOLEAN /\ fmdone \in BOOLEAN
  BY Zenon DEF Init
<1>4. heard \in Hearings /\ heard.sent = Nil /\ heard.pulled = <<>>
  BY <1>2, FetcherAssumption DEF Hearings
<1>5. TypeOK
  BY <1>1, <1>2, <1>3, <1>4 DEF TypeOK, Hearings
<1>6. SessionInv
  BY <1>1, <1>2, <1>4 DEF SessionInv, Agrees, Heard
<1> QED BY <1>2, <1>5, <1>6 DEF IInv, DeliveryInv, NeverBoth, OnlyTrueDelivered, AtMostOneDelivery

(* What the main loop may do after a message that left the session s.      *)
(* Nothing has been delivered while the loop runs; a delivery is of the    *)
(* true metadata, if of any, and of the session's trackers when no more of *)
(* them are due.                                                           *)
Outcome(s) ==
  /\ pc' \in {"returned", "check"}
  /\ stream' \in {"none", "open", "closed"}
  /\ fmdone' \in BOOLEAN
  /\ rawmeta' = Nil
  /\ \/ calls' = <<>>
     \/ \E r : /\ pc' = "returned"
               /\ calls' = <<r>>
               /\ r.call \in {"DisposeMeta", "AppendTracker"}
               /\ r.meta \in {Nil, TrueMeta}
               /\ r.call # "DisposeMeta" => Tex \in s.supports /\ ~s.more /\ r.trackers = s.trlist

(* A delivery from the main loop is the first one. *)
LEMMA DeliverOutcome ==
  ASSUME IInv, pc = "react", NEW c, NEW meta, NEW list, Deliver(c, meta, list)
  PROVE  \E r : calls' = <<r>> /\ r.call = c /\ r.meta = meta /\ r.trackers = list
<1>1. calls = <<>>
  BY DEF IInv, DeliveryInv
<1>2. calls' = <<[call |-> c, meta |-> meta, trackers |-> list]>>
  BY <1>1 DEF Deliver
<1> QED BY <1>2

(* The main loop ends, with at most one delivery, or it goes on. *)
LEMMA ReactOutcome ==
  ASSUME IInv, React
  PROVE  Outcome(session)
<1> PICK s : s = session
  OBVIOUS
<1>1. /\ pc = "react" /\ calls = <<>> /\ rawmeta = Nil
      /\ fmdone \in BOOLEAN /\ stream \in {"none", "open", "closed"}
  BY DEF React, IInv, TypeOK, DeliveryInv, NeverBoth
<1>3. \/ wanted /\ Meta \in s.supports /\ Tex \in s.supports /\ MetaAndTracker(s)
      \/ wanted /\ Meta \in s.supports /\ OnlyMeta(s)
      \/ Tex \in s.supports /\ OnlyTracker(s)
      \/ Return("react") /\ UNCHANGED <<fmdone, rawmeta, calls>>
  BY DEF React
<1> SUFFICES Outcome(s)
  OBVIOUS
<1>4. CASE OnlyMeta(s)
  BY <1>1, <1>4, DeliverOutcome DEF OnlyMeta, Continue, Goto, Return, HashMatches, Outcome
<1>5. CASE Tex \in s.supports /\ OnlyTracker(s)
  BY <1>1, <1>5, DeliverOutcome DEF OnlyTracker, Continue, Goto, Return, Outcome
<1>6. CASE Tex \in s.supports /\ MetaAndTracker(s)
  <2>1. rawmeta' = Nil /\ fmdone' \in BOOLEAN
    BY <1>1, <1>6 DEF MetaAndTracker
  <2>2. CASE Continue
    BY <1>1, <2>1, <2>2 DEF Continue, Goto, Outcome
  <2>3. CASE ~Continue
    BY <1>1, <1>6, <2>1, <2>3, DeliverOutcome DEF MetaAndTracker, Return, Outcome
  <2> QED BY <2>2, <2>3
<1>7. CASE Return("react") /\ UNCHANGED <<fmdone, rawmeta, calls>>
  BY <1>1, <1>7 DEF Return, Outcome
<1> QED BY <1>3, <1>4, <1>5, <1>6, <1>7

(* A message is handled. *)
LEMMA ReceiveStep ==
  ASSUME IInv, NEW msg, Sendable(msg), Receive(msg)
  PROVE  IInv'
<1> DEFINE s == HandlePayload(session, msg)
<1>1. /\ pc = "read" /\ session' = s /\ heard' = After(heard, msg)
      /\ UNCHANGED <<cancelled, wanted, fmdone, rawmeta, calls, peer>>
  BY DEF Receive, Hear, After
<1>2. heard \in Hearings /\ calls = <<>>
  BY <1>1 DEF IInv, TypeOK, DeliveryInv, Hearings
<1>3. /\ IsSession(s, TrackerLists)
      /\ Registered(s.exts)
      /\ s.status = "ok" => Agrees(s, heard')
  BY <1>1, <1>2, PayloadAgrees DEF IInv, TypeOK, SessionInv
<1>4. s.status \in {"ok", "error", "panic"}
  BY <1>3 DEF IsSession, Sessions
<1>5. heard' \in Hearings
  BY <1>1, <1>2, AfterHearing
<1>6. /\ pc' \in {"returned", "crashed", "react"}
      /\ pc' = "react" => s.status = "ok"
      /\ stream' \in {"none", "open", "closed"}
  BY <1>4 DEF Receive, Return, Goto, IInv, TypeOK
<1> HIDE DEF s
<1>7. TypeOK'
  BY <1>1, <1>3, <1>5, <1>6 DEF IInv, TypeOK, Hearings
<1>8. SessionInv'
  BY <1>1, <1>3, <1>6 DEF SessionInv
<1>9. DeliveryInv' /\ NeverBoth' /\ OnlyTrueDelivered' /\ AtMostOneDelivery'
  BY <1>1, <1>2 DEF IInv, DeliveryInv, NeverBoth, OnlyTrueDelivered, AtMostOneDelivery
<1> QED BY <1>7, <1>8, <1>9 DEF IInv

(* A request is written or lost. *)
LEMMA WriteStep ==
  ASSUME IInv, NEW s, s \in {Request(session), LoseRequest(session)}, WriteRequest(s)
  PROVE  IInv'
<1>1. /\ pc = "react" /\ session' = s /\ Requesting(session)
      /\ UNCHANGED <<pc, stream, cancelled, wanted, fmdone, rawmeta, calls, heard, peer>>
  BY DEF WriteRequest
<1>2. /\ IsSession(session, TrackerLists) /\ session.status = "ok" /\ Agrees(session, heard)
      /\ Registered(session.exts) /\ calls = <<>>
  BY <1>1 DEF IInv, TypeOK, SessionInv, DeliveryInv
<1>3. IsSession(s, TrackerLists)
  BY <1>1, <1>2, RequestSession DEF StaysSession
<1>4. /\ s.exts = session.exts /\ s.status = "ok" /\ s.supports = session.supports
      /\ s.trlist = session.trlist /\ s.more = session.more
  BY <1>2 DEF Request, LoseRequest, IsSession, Sessions
<1>5. TypeOK'
  BY <1>1, <1>3 DEF IInv, TypeOK
<1>6. SessionInv'
  BY <1>1, <1>2, <1>4 DEF SessionInv, Agrees, Heard
<1>7. DeliveryInv' /\ NeverBoth' /\ OnlyTrueDelivered' /\ AtMostOneDelivery'
  BY <1>1, <1>2 DEF IInv, DeliveryInv, NeverBoth, OnlyTrueDelivered, AtMostOneDelivery
<1> QED BY <1>5, <1>6, <1>7 DEF IInv

(* The main loop does what is to do after a message. *)
LEMMA ReactStep ==
  ASSUME IInv, React
  PROVE  IInv'
<1>1. pc = "react" /\ UNCHANGED <<cancelled, session, wanted, heard, peer>>
  BY DEF React
<1>2. Agrees(session, heard) /\ session.status = "ok" /\ Registered(session.exts)
  BY <1>1 DEF IInv, SessionInv
<1>3. Outcome(session)
  BY ReactOutcome
<1>4. TypeOK'
  <2>1. \A i \in DOMAIN calls' : calls'[i].call \in
                                 {"DisposeMeta", "DisposeMetaAndTracker", "AppendTracker"}
    BY <1>3 DEF Outcome
  <2> QED BY <1>1, <1>3, <2>1 DEF Outcome, IInv, TypeOK
<1>5. SessionInv'
  BY <1>1, <1>2, <1>3 DEF SessionInv, Outcome
<1>6. DeliveryInv' /\ NeverBoth'
  BY <1>3 DEF Outcome, DeliveryInv, NeverBoth
<1>7. OnlyTrueDelivered' /\ AtMostOneDelivery'
  <2>1. CASE calls' = <<>>
    BY <2>1 DEF OnlyTrueDelivered, AtMostOneDelivery
  <2>2. ASSUME NEW r, calls' = <<r>>, r.meta \in {Nil, TrueMeta},
               r.call # "DisposeMeta" =>
                 Tex \in session.supports /\ ~session.more /\ r.trackers = session.trlist
        PROVE  OnlyTrueDelivered' /\ AtMostOneDelivery'
    <3>1. r.call # "DisposeMeta" =>
            r.trackers = (IF heard'.sent = Nil THEN heard'.pulled ELSE heard'.sent) /\ ~heard'.due
      BY <1>1, <1>2, <2>2 DEF Agrees, Heard
    <3>2. Len(calls') = 1 /\ \A i \in DOMAIN calls' : calls'[i] = r
      BY <2>2
    <3> QED BY <2>2, <3>1, <3>2 DEF OnlyTrueDelivered, AtMostOneDelivery
  <2> QED BY <1>3, <2>1, <2>2 DEF Outcome
<1> QED BY <1>4, <1>5, <1>6, <1>7 DEF IInv

(* A step that leaves the fetcher alone and does not leave the callback's  *)
(* end behind.                                                             *)
LEMMA ControlStep ==
  ASSUME IInv, UNCHANGED fetcherVars, cancelled' \in BOOLEAN,
         stream' \in {"none", "open", "closed"},
         pc' \in {"dial", "handshake", "register", "check", "read", "react", "returned", "crashed"},
         pc' # pc => pc \notin {"returned", "crashed"},
         pc' \in {"dial", "handshake", "register"} => pc \in {"dial", "handshake", "register"}
  PROVE  IInv'
<1> USE DEF fetcherVars, IInv
<1>1. TypeOK'
  BY DEF TypeOK
<1>2. SessionInv'
  BY DEF SessionInv
<1>3. DeliveryInv' /\ NeverBoth' /\ OnlyTrueDelivered' /\ AtMostOneDelivery'
  BY DEF DeliveryInv, NeverBoth, OnlyTrueDelivered, AtMostOneDelivery
<1> QED BY <1>1, <1>2, <1>3

(* The extensions are registered. *)
LEMMA RegistStep ==
  ASSUME IInv, NEW list \in TrackerLists, NEW ok \in BOOLEAN, RegistExts(list, ok)
  PROVE  IInv'
<1>1. /\ IsSession(session', TrackerLists) /\ Registered(session'.exts) /\ session'.status = "ok"
      /\ session'.supports = {} /\ session'.trlist = list
  BY NewSessionAgrees DEF RegistExts
<1>2. heard \in Hearings /\ heard.sent = Nil /\ calls = <<>>
  BY DEF RegistExts, Goto, IInv, TypeOK, SessionInv, DeliveryInv, Hearings
<1>3. heard' \in Hearings /\ heard'.sent = Nil /\ heard'.pulled = list
  BY <1>2 DEF RegistExts, Hearings
<1>4. /\ pc' = "check" /\ wanted' = ~ok
      /\ UNCHANGED <<cancelled, stream, fmdone, rawmeta, calls, peer>>
  BY DEF RegistExts, Goto
<1>5. TypeOK'
  BY <1>1, <1>3, <1>4 DEF IInv, TypeOK, Hearings
<1>6. SessionInv'
  BY <1>1, <1>3, <1>4 DEF SessionInv, Agrees, Heard
<1> QED
  BY <1>2, <1>4, <1>5, <1>6 DEF IInv, DeliveryInv, NeverBoth, OnlyTrueDelivered, AtMostOneDelivery

(* Every step keeps the invariant. *)
LEMMA InvariantStep == IInv /\ [Next]_vars => IInv'
<1> SUFFICES ASSUME IInv, [Next]_vars PROVE IInv'
  OBVIOUS
<1>0. TypeOK
  BY DEF IInv
<1>1. CASE Cancel
  BY <1>0, <1>1, ControlStep DEF Cancel, TypeOK
<1>2. CASE Dial \/ Handshaken \/ DialFails \/ HandshakeFails
  BY <1>0, <1>2, ControlStep DEF Dial, Handshaken, DialFails, HandshakeFails, Return, Goto, TypeOK
<1>3. ASSUME NEW list \in TrackerLists, NEW ok \in BOOLEAN, RegistExts(list, ok) PROVE IInv'
  BY <1>3, RegistStep
<1>4. CASE CheckCtx
  BY <1>0, <1>4, ControlStep DEF CheckCtx, Return, Goto, TypeOK
<1>5. CASE Skip \/ ReadFails
  BY <1>0, <1>5, ControlStep DEF Skip, ReadFails, Return, Goto, TypeOK
<1>6. CASE ReceiveAny
  BY <1>6, ReceiveStep, FetcherAssumption DEF ReceiveAny, Sendable
<1>7. peer.honest \/ peer.knows => peer \in HonestPeers
  BY <1>0 DEF TypeOK, Peers, Stranger
<1>8. CASE ReceiveHandshake \/ ReceiveTrackers
  BY <1>7, <1>8, ReceiveStep, HonestMessages DEF ReceiveHandshake, ReceiveTrackers
<1>9. ASSUME NEW no \in 0..Len(TrueMeta), ReceiveData(no) PROVE IInv'
  BY <1>7, <1>9, ReceiveStep, HonestMessages DEF ReceiveData
<1>10. CASE UNCHANGED vars
  BY <1>0, <1>10, ControlStep DEF vars, fetcherVars, TypeOK
<1>11. CASE WriteRequest(Request(session)) \/ WriteRequest(LoseRequest(session))
  BY <1>11, WriteStep
<1>12. CASE WriteFails
  BY <1>0, <1>12, ControlStep DEF WriteFails, Return, TypeOK
<1>13. CASE React
  BY <1>13, ReactStep
<1> QED
  BY <1>1, <1>2, <1>3, <1>4, <1>5, <1>6, <1>8, <1>9, <1>10, <1>11, <1>12, <1>13
  DEF Next, Connecting, Reading, Reacting

(* The invariant holds in every state of every fetch. *)
LEMMA Invariant == Spec => []IInv
BY InvariantInit, InvariantStep, PTL DEF Spec

(* Type correctness, the session included, whatever the peer sends. *)
THEOREM TypeCorrect == Spec => []TypeOK
BY Invariant, PTL DEF IInv

(* What the callback of RunAndFetchTracker hands to the pipeline is the    *)
(* metadata of the info hash, if any, and the list that the peer sent last *)
(* or the pipeline's own.                                                  *)
THEOREM DeliversTheTruth == Spec => []OnlyTrueDelivered
BY Invariant, PTL DEF IInv

(* It delivers at most once. *)
THEOREM DeliversOnce == Spec => []AtMostOneDelivery
BY Invariant, PTL DEF IInv

(* metaAndTracker never has metadata to deliver: rawmeta stays nil and     *)
(* DisposeMetaAndTracker is never called, for every peer and every size of *)
(* the metadata.                                                           *)
THEOREM MetaIsLostWithBoth == Spec => []NeverBoth
BY Invariant, PTL DEF IInv

------------------------------------------------------------------------------
(* The safety part of OneExtensionServed, and what is true of a peer with  *)
(* both extensions.  The callback does not crash on an honest peer; while  *)
(* its loop runs after the handshake, the peer owes it trackers or a piece *)
(* that it asked for; and unless ctx is done it does not return before it  *)
(* has delivered the metadata to a pipeline that wanted them, if the peer  *)
(* has only that extension, and the peer's trackers, if it has any, even   *)
(* if it has the other extension, too.                                     *)
HonestDelivered ==
  pc = "returned" /\ ~cancelled =>
    /\ wanted /\ peer.keys = {Meta} => Delivered("DisposeMeta", TrueMeta, <<>>)
    /\ Tex \in peer.keys /\ peer.trackers # <<>> => Delivered("AppendTracker", Nil, peer.trackers)

HonestServed ==
  peer.honest =>
    /\ pc # "crashed"
    /\ pc \in {"check", "read"} /\ session.met =>
         session.more \/ \E no \in session.asked : session.pieces[no + 1] = <<>>
    /\ HonestDelivered

(* The extensions that the callback has registered and the peer supports.  *)
Shared == peer.keys \cap (IF wanted THEN Keys ELSE {Tex})

(* No piece has been asked for, nor is there one to ask for. *)
Idle(s) == s.asked = {} /\ s.pieces = <<>>

(* A session before the handshake of an honest peer. *)
Fresh(s) ==
  /\ s.exts = IF wanted THEN <<Tex, Meta>> ELSE <<Tex>>
  /\ s.supports = {} /\ Idle(s) /\ ~s.more

(* What the peer lacks. *)
Kept(k) == IF k \in peer.keys THEN k ELSE Nil

(* A session after it: the pieces and the trackers come from the peer. *)
Met(s) ==
  /\ s.exts = IF wanted THEN <<Kept(Tex), Kept(Meta)>> ELSE <<Kept(Tex)>>
  /\ s.supports = Shared
  /\ IF Meta \in Shared THEN Collecting(s) ELSE Idle(s)
  /\ s.more => Tex \in Shared
  /\ Tex \in Shared /\ peer.trackers # <<>> /\ ~s.more => s.trlist = peer.trackers

Owed(s) == s.more \/ (Meta \in Shared /\ ~CheckDone(s))

HonestInv ==
  peer.honest =>
    /\ pc # "crashed"
    /\ pc \in {"check", "read"} =>
         IF session.met THEN Met(session) /\ Owed(session) /\ ~Requesting(session) ELSE Fresh(session)
    /\ pc = "react" => Met(session) /\ (Shared # {} => session.met)
    /\ HonestDelivered

(* The round of txExt in the handshake of an honest peer. *)
LEMMA HonestTexRound ==
  ASSUME peer \in HonestPeers, NEW a \in Sessions(TrackerLists), a.status = "ok",
         NEW rest, a.exts \in {<<Tex>>, <<Tex, rest>>}, a.supports = {}, ~a.more,
         a.ids[Tex] = 0 <=> Tex \notin peer.keys
  PROVE  LET b == Introduce(a, 1, PeerHandshake)
         IN  /\ b.exts = IF a.exts = <<Tex>> THEN <<Kept(Tex)>> ELSE <<Kept(Tex), rest>>
             /\ b.supports = peer.keys \cap {Tex}
             /\ b.more <=> Tex \in peer.keys /\ peer.trackers # <<>>
             /\ b.ids = a.ids /\ b.met = a.met /\ b.status = "ok" /\ b.asked = a.asked
             /\ b.pieces = a.pieces
<1> DEFINE b == Introduce(a, 1, PeerHandshake)
<1>1. Tex # Nil /\ Tex # Meta /\ a.exts[1] = Tex
  BY ProtocolAssumption DEF Keys, Tex, Meta
<1>2. CASE Tex \in peer.keys
  <2>1. b = TexAfterHandshake(a, PeerHandshake)
    BY <1>1, <1>2 DEF Introduce
  <2> HIDE DEF b
  <2>2. PeerHandshake.tr = "some" <=> peer.trackers # <<>>
    BY DEF PeerHandshake
  <2>3. /\ b.exts = a.exts /\ b.supports = a.supports \cup {Tex}
        /\ b.more <=> PeerHandshake.tr = "some"
        /\ b.ids = a.ids /\ b.met = a.met /\ b.status = "ok" /\ b.asked = a.asked
        /\ b.pieces = a.pieces
    BY <2>1 DEF TexAfterHandshake, Sessions
  <2> QED BY <1>2, <2>2, <2>3 DEF b, Kept
<1>3. CASE Tex \notin peer.keys
  <2> DEFINE more == (a.more /\ a.exts[1] # Tex)
             exts == ReplaceAt(a.exts, 1, Nil)
             supports == a.supports \ {Tex}
  <2>1. b = [a EXCEPT !.supports = supports, !.more = more, !.exts = exts]
    BY <1>1, <1>3 DEF Introduce, Unsupport
  <2>2. exts = IF a.exts = <<Tex>> THEN <<Nil>> ELSE <<Nil, rest>>
    BY DEF ReplaceAt
  <2>3. ~more /\ supports = {}
    OBVIOUS
  <2> HIDE DEF more, exts, b, supports
  <2>4. /\ b.exts = exts /\ b.supports = supports /\ b.more = more
        /\ b.ids = a.ids /\ b.met = a.met /\ b.status = "ok" /\ b.asked = a.asked
        /\ b.pieces = a.pieces
    BY <2>1 DEF Sessions
  <2> QED BY <1>3, <2>2, <2>3, <2>4 DEF b, Kept
<1> QED BY <1>2, <1>3

(* The round of fmExt, which starts the download. *)
LEMMA HonestMetaRound ==
  ASSUME peer \in HonestPeers, NEW b \in Sessions(TrackerLists), b.status = "ok",
         NEW first, b.exts = <<first, Meta>>, b.supports \subseteq {Tex}, Idle(b),
         b.ids[Meta] = 0 <=> Meta \notin peer.keys
  PROVE  LET c == Introduce(b, 2, PeerHandshake)
         IN  /\ c.exts = <<first, Kept(Meta)>>
             /\ c.supports = b.supports \cup (peer.keys \cap {Meta})
             /\ IF Meta \in peer.keys THEN Collecting(c) /\ ~CheckDone(c) ELSE Idle(c)
             /\ c.more = b.more /\ c.met = b.met /\ c.status = "ok"
<1> DEFINE c == Introduce(b, 2, PeerHandshake)
<1>1. Meta # Nil /\ Tex # Meta /\ b.exts[2] = Meta
  BY ProtocolAssumption DEF Keys, Tex, Meta
<1>2. CASE Meta \in peer.keys
  <2>1. c = MetaAfterHandshake(b, PeerHandshake)
    BY <1>1, <1>2 DEF Introduce
  <2>2. PeerHandshake.size = Len(TrueMeta)
    BY DEF PeerHandshake
  <2> HIDE DEF c
  <2> QED BY <1>2, <2>1, <2>2, CollectingStarts DEF c, Kept
<1>3. CASE Meta \notin peer.keys
  <2> DEFINE more == (b.more /\ b.exts[2] # Tex)
             exts == ReplaceAt(b.exts, 2, Nil)
             supports == b.supports \ {Meta}
  <2>1. c = [b EXCEPT !.supports = supports, !.more = more, !.exts = exts]
    BY <1>1, <1>3 DEF Introduce, Unsupport
  <2>2. exts = <<first, Nil>>
    BY DEF ReplaceAt
  <2>3. more = b.more
    BY <1>1 DEF Sessions
  <2>4. supports = b.supports
    BY <1>1
  <2> HIDE DEF more, exts, c, supports
  <2>5. /\ c.exts = exts /\ c.supports = supports /\ c.more = more
        /\ c.met = b.met /\ c.status = "ok" /\ c.asked = b.asked
        /\ c.pieces = b.pieces
    BY <2>1 DEF Sessions
  <2> QED BY <1>3, <2>2, <2>3, <2>4, <2>5 DEF c, Kept, Idle
<1> QED BY <1>2, <1>3

(* The handshake of an honest peer leaves a session that has met it. *)
LEMMA HonestHandshakeMeets ==
  ASSUME peer \in HonestPeers, wanted \in BOOLEAN, NEW s, IsSession(s, TrackerLists),
         s.status = "ok", Fresh(s), ~s.met
  PROVE  LET t == HandlePayload(s, PeerHandshake)
         IN  /\ Met(t) /\ t.status = "ok"
             /\ Shared # {} => t.met
             /\ t.more <=> Tex \in Shared /\ peer.trackers # <<>>
             /\ Meta \in Shared => ~CheckDone(t)
<1> DEFINE hs == PeerHandshake
           a == Merged(s, hs)
           b == Introduce(a, 1, hs)
           c == Introduce(b, 2, hs)
           t == HandlePayload(s, hs)
<1>1. hs.type = "handshake" /\ DOMAIN hs.m = peer.keys /\ \A k \in peer.keys : hs.m[k] = 3
  BY DEF PeerHandshake
<1>2. peer.keys \subseteq Keys /\ Tex # Meta
  BY DEF HonestPeers, Tex, Meta
<1>3. StaysSession(s, a, TrackerLists)
  BY <1>1, MergedSession, HonestMessages DEF Sendable
<1>4. a \in Sessions(TrackerLists)
  BY <1>3 DEF StaysSession, IsSession
<1>5. a.exts = s.exts /\ a.status = "ok" /\ a.supports = {} /\ ~a.more /\ Idle(a)
  BY DEF Merged, IsSession, Sessions, Fresh, Idle
<1>6. (a.met <=> peer.keys # {}) /\ \A k \in Keys : a.ids[k] = 0 <=> k \notin peer.keys
  <2> DEFINE ids == [k \in Keys |-> IF k \in DOMAIN hs.m THEN hs.m[k] % 256 ELSE s.ids[k]]
             met == (s.met \/ DOMAIN hs.m # {})
  <2>1. a = [s EXCEPT !.ids = ids, !.met = met]
    BY DEF Merged
  <2>2. s.ids = [k \in Keys |-> 0]
    BY DEF IsSession
  <2>3. \A k \in Keys : ids[k] = IF k \in peer.keys THEN 3 ELSE 0
    BY <1>1, <2>2
  <2>4. met <=> peer.keys # {}
    BY <1>1
  <2> HIDE DEF ids, met, a
  <2>5. a.ids = ids /\ a.met = met
    BY <2>1 DEF IsSession, Sessions
  <2> QED BY <2>3, <2>4, <2>5
<1>7. Tex \in Keys /\ Meta \in Keys
  BY DEF Keys
<1> HIDE DEF hs, a
<1>8. a.exts \in {<<Tex>>, <<Tex, Meta>>}
  BY <1>5 DEF Fresh
<1>9. a.ids[Tex] = 0 <=> Tex \notin peer.keys
  BY <1>6, <1>7
<1>10. /\ b.exts = IF a.exts = <<Tex>> THEN <<Kept(Tex)>> ELSE <<Kept(Tex), Meta>>
       /\ b.supports = peer.keys \cap {Tex}
       /\ b.more <=> Tex \in peer.keys /\ peer.trackers # <<>>
       /\ b.ids = a.ids /\ b.met = a.met /\ b.status = "ok" /\ b.asked = a.asked
       /\ b.pieces = a.pieces
  BY <1>4, <1>5, <1>8, <1>9, HonestTexRound DEF hs
<1>11. b \in Sessions(TrackerLists)
  <2>1. 1 \in DOMAIN a.exts
    BY <1>8
  <2>2. IsMessage(hs)
    BY HonestMessages DEF hs, Sendable
  <2> QED BY <1>1, <1>3, <2>1, <2>2, IntroduceSession DEF StaysSession, IsSession
<1> HIDE DEF b
<1>idle. Idle(b)
  BY <1>5, <1>10 DEF Idle
<1>payload. t = Handshake(s, hs)
  BY <1>1 DEF HandlePayload
<1> HIDE DEF t
<1>12. CASE ~wanted
  <2>1. s.exts = <<Tex>> /\ t = b
    BY <1>payload, <1>12, HandshakeOfOne DEF Fresh, a, b
  <2>2. Shared = peer.keys \cap {Tex} /\ Meta \notin Shared
    BY <1>2, <1>12 DEF Shared
  <2> QED BY <1>5, <1>6, <1>10, <1>idle, <1>12, <2>1, <2>2 DEF Met, t, hs
<1>13. CASE wanted
  <2>1. s.exts = <<Tex, Meta>> /\ t = c
    BY <1>payload, <1>13, HandshakeOfTwo DEF Fresh, a, b
  <2>2. Shared = (peer.keys \cap {Tex}) \cup (peer.keys \cap {Meta})
    BY <1>2, <1>13 DEF Shared, Keys
  <2>3. a.exts # <<Tex>>
    BY <1>5, <2>1
  <2>4. b.ids[Meta] = 0 <=> Meta \notin peer.keys
    BY <1>6, <1>7, <1>10
  <2>5. /\ c.exts = <<Kept(Tex), Kept(Meta)>>
        /\ c.supports = b.supports \cup (peer.keys \cap {Meta})
        /\ IF Meta \in peer.keys THEN Collecting(c) /\ ~CheckDone(c) ELSE Idle(c)
        /\ c.more = b.more /\ c.met = b.met /\ c.status = "ok"
    BY <1>10, <1>11, <1>idle, <2>3, <2>4, HonestMetaRound DEF hs
  <2> HIDE DEF c
  <2>6. Meta \in Shared <=> Meta \in peer.keys
    BY <2>2
  <2>7. Tex \in Shared <=> Tex \in peer.keys
    BY <2>2
  <2> QED BY <1>6, <1>10, <1>13, <2>1, <2>2, <2>5, <2>6, <2>7 DEF Met, t, hs
<1> QED BY <1>12, <1>13

(* So do its data, under the id of fmExt, *)
LEMMA HonestDataMeets ==
  ASSUME peer \in HonestPeers, wanted \in BOOLEAN, NEW s, IsSession(s, TrackerLists),
         s.status = "ok", Met(s), s.met, NEW no \in s.asked
  PROVE  LET t == HandlePayload(s, PeerData(no))
         IN  Met(t) /\ t.status = "ok" /\ t.met
<1> DEFINE msg == PeerData(no)
           t == HandlePayload(s, msg)
<1>1. /\ msg.type = "ext" /\ msg.id = 2
      /\ msg.body.kind = "data" /\ msg.body.piece = no /\ msg.body.bytes = TruePiece(no)
  BY DEF PeerData
<1>2. Meta \in Shared /\ Collecting(s) /\ Tex # Meta
  BY DEF Met, Idle, Tex, Meta
<1>3. wanted /\ Meta \in peer.keys
  BY <1>2 DEF Shared
<1>4. s.exts[2] = Meta /\ Len(s.exts) = 2 /\ Meta # Nil
  BY <1>3, ProtocolAssumption DEF Met, Kept, Keys
<1> HIDE DEF msg
<1>5. t = MetaHandle(s, msg.body)
  BY <1>1, <1>4 DEF HandlePayload, Dispatch
<1> HIDE DEF t
<1>6. /\ Collecting(t)
      /\ t.supports = s.supports /\ t.exts = s.exts /\ t.met = s.met
      /\ t.more = s.more /\ t.trlist = s.trlist /\ t.status = s.status
  <2>1. s \in Sessions(TrackerLists)
    BY DEF IsSession
  <2>2. PICK body : body = msg.body
    OBVIOUS
  <2>3. body.kind = "data" /\ body.piece = no /\ body.bytes = TruePiece(no) /\ t = MetaHandle(s, body)
    BY <1>1, <1>5, <2>2
  <2>4. Collecting(s)
    BY <1>2
  <2> QED BY <2>1, <2>3, <2>4, CollectingGoesOn
<1> QED BY <1>2, <1>6 DEF Met, t, msg

(* and its trackers, under that of txExt. *)
LEMMA HonestTrackersMeet ==
  ASSUME peer \in HonestPeers, wanted \in BOOLEAN, NEW s, IsSession(s, TrackerLists),
         s.status = "ok", Met(s), s.met, s.more
  PROVE  LET t == HandlePayload(s, PeerTrackers)
         IN  Met(t) /\ t.status = "ok" /\ t.met
<1> DEFINE msg == PeerTrackers
           t == HandlePayload(s, msg)
<1>1. /\ msg.type = "ext" /\ msg.id = 1
      /\ msg.body.kind = "added" /\ msg.body.added = peer.trackers
  BY DEF PeerTrackers
<1>2. Tex \in peer.keys /\ Tex # Meta /\ Tex # Nil
  BY ProtocolAssumption DEF Met, Shared, Keys, Tex, Meta
<1>3. s.exts[1] = Tex /\ Len(s.exts) \in {1, 2}
  BY <1>2 DEF Met, Kept
<1> HIDE DEF msg
<1>4. t = TexHandle(s, msg.body)
  BY <1>1, <1>2, <1>3 DEF HandlePayload, Dispatch
<1>5. t = [s EXCEPT !.more = FALSE, !.trlist = peer.trackers]
  BY <1>1, <1>4 DEF TexHandle
<1> HIDE DEF t
<1>6. /\ ~t.more /\ t.trlist = peer.trackers
      /\ t.pieces = s.pieces /\ t.next = s.next /\ t.asked = s.asked
      /\ t.supports = s.supports /\ t.exts = s.exts /\ t.met = s.met /\ t.status = s.status
  BY <1>5 DEF IsSession, Sessions
<1>7. (Collecting(t) <=> Collecting(s)) /\ (Idle(t) <=> Idle(s))
  BY <1>6 DEF Collecting, Idle
<1> QED BY <1>6, <1>7 DEF Met, t, msg

(* A message after which the session has met the peer leads on. *)
LEMMA HonestReceiveStep ==
  ASSUME IInv, peer \in HonestPeers, NEW msg, Receive(msg),
         LET t == HandlePayload(session, msg)
         IN  Met(t) /\ t.status = "ok" /\ (Shared # {} => t.met)
  PROVE  HonestInv'
<1>1. /\ session' = HandlePayload(session, msg) /\ pc' = "react"
      /\ UNCHANGED <<cancelled, wanted, peer>>
  BY DEF Receive, Goto
<1>2. Met(session)' /\ (Shared # {} => session.met)'
  BY <1>1 DEF Met, Shared, Kept
<1> QED BY <1>1, <1>2 DEF HonestInv, HonestDelivered

(* So does a request. *)
LEMMA HonestWriteStep ==
  ASSUME IInv, HonestInv, peer \in HonestPeers, WriteRequest(Request(session))
  PROVE  HonestInv'
<1> DEFINE t == Request(session)
<1>1. /\ session' = t /\ pc = "react" /\ pc' = "react" /\ Requesting(session)
      /\ UNCHANGED <<cancelled, wanted, peer>>
  BY DEF WriteRequest
<1>2. Met(session) /\ (Shared # {} => session.met) /\ session \in Sessions(TrackerLists)
  BY <1>1 DEF HonestInv, HonestPeers, IInv, TypeOK, IsSession
<1>3. Meta \in Shared
  <2> SUFFICES ASSUME Idle(session) PROVE FALSE
    BY <1>2 DEF Met
  <2>1. session.next \in Nat /\ Len(session.pieces) = 0
    BY <1>2 DEF Idle, Sessions
  <2> QED BY <1>1, <2>1 DEF Requesting
<1>4. /\ Collecting(t) /\ t.supports = session.supports /\ t.exts = session.exts
      /\ t.met = session.met /\ t.more = session.more /\ t.trlist = session.trlist
  BY <1>1, <1>2, <1>3, CollectingAsks DEF Met
<1> HIDE DEF t
<1>5. Met(t) /\ (Shared # {} => t.met)
  BY <1>2, <1>3, <1>4 DEF Met
<1>6. Met(session)' /\ (Shared # {} => session.met)'
  BY <1>1, <1>5 DEF Met, Shared, Kept
<1> QED BY <1>1, <1>6 DEF HonestInv, HonestDelivered

(* When all pieces have been asked for the loop goes on while the peer     *)
(* owes something, and else there is the delivery.                         *)
LEMMA HonestReactStep ==
  ASSUME IInv, HonestInv, peer \in HonestPeers, React
  PROVE  HonestInv'
<1> PICK t : t = session
  OBVIOUS
<1>0. /\ Met(t) /\ (Shared # {} => t.met) /\ ~Requesting(t)
      /\ wanted \in BOOLEAN
  BY DEF React, HonestInv, HonestPeers, IInv, TypeOK
<1>1. /\ session' = t /\ UNCHANGED <<cancelled, wanted, peer>> /\ pc = "react" /\ calls = <<>>
  BY DEF React, IInv, DeliveryInv
<1>2. IF wanted /\ Meta \in t.supports THEN
        IF Tex \in t.supports THEN MetaAndTracker(t) ELSE OnlyMeta(t)
      ELSE IF Tex \in t.supports THEN OnlyTracker(t)
      ELSE Return("react") /\ UNCHANGED <<fmdone, rawmeta, calls>>
  BY DEF React
<1>3. rawmeta' = Nil
  BY ReactStep DEF IInv, NeverBoth
<1>4. t.supports = Shared /\ Shared' = Shared /\ Shared \subseteq peer.keys
  BY <1>0, <1>1 DEF Met, Shared
<1>5. Met(session)' /\ (Owed(t) => Owed(session)')
  BY <1>0, <1>1, <1>4 DEF Met, Owed, Kept
<1>6. ASSUME Continue, Owed(t), Shared # {} PROVE HonestInv'
  <2>1. pc' = "check" /\ session'.met /\ ~Requesting(session')
    BY <1>0, <1>1, <1>6 DEF Continue, Goto
  <2> QED BY <1>5, <1>6, <2>1 DEF HonestInv, HonestDelivered
<1>7. ASSUME pc' = "returned",
             wanted /\ peer.keys = {Meta} => Delivered("DisposeMeta", TrueMeta, <<>>)',
             Tex \in peer.keys /\ peer.trackers # <<>> =>
               Delivered("AppendTracker", Nil, peer.trackers)'
      PROVE  HonestInv'
  BY <1>1, <1>7 DEF HonestInv, HonestDelivered, Delivered
<1>8. \A c, meta, list : Deliver(c, meta, list) => Delivered(c, meta, list)'
  <2> SUFFICES ASSUME NEW c, NEW meta, NEW list, Deliver(c, meta, list)
               PROVE  Delivered(c, meta, list)'
    OBVIOUS
  <2>1. calls' = <<[call |-> c, meta |-> meta, trackers |-> list]>>
    BY <1>1 DEF Deliver
  <2> QED BY <2>1 DEF Delivered
<1>9. ~t.more /\ Tex \in t.supports /\ peer.trackers # <<>> => t.trlist = peer.trackers
  BY <1>0, <1>4 DEF Met
<1>10. Tex # Meta
  BY DEF Tex, Meta
<1>11. wanted /\ Meta \in peer.keys => Meta \in Shared
  BY DEF Shared, Keys
<1>12. Tex \in peer.keys => Tex \in Shared
  BY DEF Shared, Keys
<1>13. CASE wanted /\ Meta \in t.supports /\ Tex \in t.supports
  <2>1. MetaAndTracker(t)
    BY <1>2, <1>13
  <2>2. CASE ~fmdone' \/ t.more
    <3>1. Continue /\ (~fmdone' => ~CheckDone(t))
      BY <2>1, <2>2 DEF MetaAndTracker
    <3> QED BY <1>4, <1>6, <1>13, <2>2, <3>1 DEF Owed
  <2>3. CASE ~(~fmdone' \/ t.more)
    <3>1. pc' = "returned" /\ (t.trlist # <<>> => Deliver("AppendTracker", Nil, t.trlist))
      BY <1>3, <2>1, <2>3 DEF MetaAndTracker, Return
    <3>2. peer.trackers # <<>> => Deliver("AppendTracker", Nil, peer.trackers)
      BY <1>9, <1>13, <2>3, <3>1
    <3>3. peer.keys # {Meta}
      BY <1>4, <1>10, <1>13
    <3>4. peer.trackers # <<>> => Delivered("AppendTracker", Nil, peer.trackers)'
      BY <1>1, <1>8, <3>2
    <3> QED BY <1>7, <3>1, <3>3, <3>4
  <2> QED BY <2>2, <2>3
<1>14. CASE wanted /\ Meta \in t.supports /\ Tex \notin t.supports
  <2>1. OnlyMeta(t)
    BY <1>2, <1>14
  <2>2. CASE ~CheckDone(t)
    BY <1>4, <1>6, <1>14, <2>1, <2>2 DEF OnlyMeta, Owed
  <2>3. CASE CheckDone(t)
    <3>1. HashMatches(t)
      BY <1>0, <1>4, <1>14, <2>3, CollectedMatches DEF Met
    <3>2. pc' = "returned" /\ Deliver("DisposeMeta", TrueMeta, <<>>)
      BY <2>1, <2>3, <3>1 DEF OnlyMeta, Return, HashMatches
    <3> QED BY <1>4, <1>7, <1>8, <1>12, <1>14, <3>2
  <2> QED BY <2>2, <2>3
<1>15. CASE ~(wanted /\ Meta \in t.supports) /\ Tex \in t.supports
  <2>1. OnlyTracker(t)
    BY <1>2, <1>15
  <2>2. CASE t.more
    BY <1>4, <1>6, <1>15, <2>1, <2>2 DEF OnlyTracker, Owed
  <2>3. CASE ~t.more
    <3>1. pc' = "returned" /\ (t.trlist # <<>> => Deliver("AppendTracker", Nil, t.trlist))
      BY <2>1, <2>3 DEF OnlyTracker, Return
    <3>2. peer.trackers # <<>> => Deliver("AppendTracker", Nil, peer.trackers)
      BY <1>9, <1>15, <2>3, <3>1
    <3>3. peer.keys # {Meta}
      BY <1>4, <1>10, <1>15
    <3>4. peer.trackers # <<>> => Delivered("AppendTracker", Nil, peer.trackers)'
      BY <1>1, <1>8, <3>2
    <3> QED BY <1>7, <3>1, <3>3, <3>4
  <2> QED BY <2>2, <2>3
<1>16. CASE ~(wanted /\ Meta \in t.supports) /\ Tex \notin t.supports
  <2>1. pc' = "returned"
    BY <1>2, <1>16 DEF Return
  <2> QED BY <1>4, <1>7, <1>11, <1>12, <1>16, <2>1
<1> QED BY <1>13, <1>14, <1>15, <1>16

(* It holds at the start. *)
LEMMA HonestInit == Init => HonestInv
BY DEF Init, HonestInv, HonestDelivered

(* Every step keeps it. *)
LEMMA HonestStep == IInv /\ HonestInv /\ [Next]_vars => HonestInv'
<1> SUFFICES ASSUME IInv, HonestInv, [Next]_vars PROVE HonestInv'
  OBVIOUS
<1>peer. peer' = peer
  <2>1. CASE Cancel \/ CheckCtx \/ UNCHANGED vars
    BY <2>1, Zenon DEF Cancel, CheckCtx, vars, fetcherVars
  <2>2. CASE Connecting
    BY <2>2, Zenon DEF Connecting, Dial, Handshaken, RegistExts, DialFails, HandshakeFails, fetcherVars
  <2>3. CASE Reading
    BY <2>3, Zenon DEF Reading, Skip, ReadFails, ReceiveAny, ReceiveHandshake, ReceiveData,
                       ReceiveTrackers, Receive, fetcherVars
  <2>4. CASE Reacting
    BY <2>4, Zenon DEF Reacting, React, WriteRequest, WriteFails, fetcherVars
  <2> QED BY <2>1, <2>2, <2>3, <2>4 DEF Next
<1> SUFFICES ASSUME peer.honest PROVE HonestInv'
  BY <1>peer, Zenon DEF HonestInv
<1>0. /\ TypeOK /\ peer \in HonestPeers /\ wanted \in BOOLEAN
      /\ pc = "read" => IsSession(session, TrackerLists) /\ session.status = "ok"
  BY DEF IInv, SessionInv, TypeOK, Peers, Stranger
(* A step that leaves the fetcher alone. *)
<1>1. ASSUME UNCHANGED fetcherVars, pc' \in {"check", "read"} => pc \in {"check", "read"},
             pc' = "react" => pc = "react", pc' # "crashed", pc' = "returned" => cancelled' \/ pc = "returned",
             cancelled => cancelled'
      PROVE  HonestInv'
  <2>1. UNCHANGED <<session, wanted, calls, peer>>
    BY <1>1 DEF fetcherVars
  <2>2. (Met(session) => Met(session)') /\ (Owed(session) => Owed(session)')
        /\ (Fresh(session) => Fresh(session)') /\ (Shared' = Shared)
    BY <2>1 DEF Met, Owed, Fresh, Shared, Kept
  <2>3. HonestDelivered'
    BY <1>1, <2>1 DEF HonestInv, HonestDelivered, Delivered
  <2> QED BY <1>1, <2>1, <2>2, <2>3 DEF HonestInv
<1>2. CASE Cancel
  BY <1>1, <1>2 DEF Cancel, HonestInv
<1>3. CASE Dial \/ Handshaken
  BY <1>1, <1>3 DEF Dial, Handshaken, Goto
<1>4. ASSUME NEW list \in TrackerLists, NEW ok \in BOOLEAN, RegistExts(list, ok) PROVE HonestInv'
  <2>1. pc' = "check" /\ wanted' = ~ok /\ session' = NewSession(IF ok THEN <<Tex>> ELSE <<Tex, Meta>>, list)
    BY <1>4 DEF RegistExts, Goto
  <2>2. Fresh(session)' /\ ~session'.met
    BY <2>1 DEF Fresh, Idle, NewSession
  <2> QED BY <2>1, <2>2 DEF HonestInv, HonestDelivered
<1>5. CASE CheckCtx
  BY <1>1, <1>5 DEF CheckCtx, Return, Goto
<1>6. CASE Skip
  BY <1>1, <1>6 DEF Skip, Goto
<1>7. CASE ReceiveHandshake
  <2>1. pc = "read" /\ ~session.met /\ Receive(PeerHandshake)
    BY <1>7 DEF ReceiveHandshake, Receive
  <2>2. Fresh(session)
    BY <2>1 DEF HonestInv
  <2> QED BY <1>0, <2>1, <2>2, HonestMessages, HonestHandshakeMeets, HonestReceiveStep
<1>8. CASE ReceiveTrackers
  <2>1. pc = "read" /\ session.more /\ Receive(PeerTrackers)
    BY <1>8 DEF ReceiveTrackers, Receive
  <2>2. Met(session) /\ session.met
    BY <2>1 DEF HonestInv, Fresh
  <2> QED BY <1>0, <2>1, <2>2, HonestMessages, HonestTrackersMeet, HonestReceiveStep
<1>9. ASSUME NEW no \in 0..Len(TrueMeta), ReceiveData(no) PROVE HonestInv'
  <2>1. pc = "read" /\ no \in session.asked /\ Receive(PeerData(no))
    BY <1>9 DEF ReceiveData, Receive
  <2>2. Met(session) /\ session.met
    BY <2>1 DEF HonestInv, Fresh, Idle
  <2> QED BY <1>0, <2>1, <2>2, HonestMessages, HonestDataMeets, HonestReceiveStep
<1>10. CASE Reacting
  BY <1>0, <1>10, HonestWriteStep, HonestReactStep DEF Reacting
<1>11. CASE UNCHANGED vars
  BY <1>1, <1>11 DEF vars, fetcherVars, HonestInv
<1> QED BY <1>2, <1>3, <1>4, <1>5, <1>6, <1>7, <1>8, <1>9, <1>10, <1>11 DEF Next, Connecting, Reading

(* The callback serves an honest peer: it delivers what the peer has for a *)
(* pipeline that wants it, and until then the peer owes it something.      *)
THEOREM HonestPeerServes == Spec => []HonestServed
<1>1. HonestInv => HonestServed
  BY CollectingWaits DEF HonestInv, HonestServed, Met, Owed
<1> QED BY <1>1, Invariant, HonestInit, HonestStep, PTL DEF Spec

------------------------------------------------------------------------------
(* From an honest peer that does not know the ids we gave our extensions   *)
(* the pipeline is given neither metadata nor trackers: a list that is     *)
(* delivered is the one it had itself, and then the peer has none.         *)
NothingUnintroduced ==
  peer.honest /\ ~peer.knows =>
    \A i \in DOMAIN calls : calls[i].meta = Nil /\ peer.trackers = <<>>

(* It sends its handshake and nothing else: no piece comes, and trackers   *)
(* are due if it has any.                                                  *)
Unanswered ==
  peer.honest /\ ~peer.knows /\ pc = "react" =>
    /\ session.more <=> Tex \in Shared /\ peer.trackers # <<>>
    /\ Meta \in Shared => ~CheckDone(session)

(* The handshake of such a peer. *)
LEMMA UnintroducedReceive ==
  ASSUME IInv, HonestInv, peer \in HonestPeers, ReceiveHandshake
  PROVE  Unanswered' /\ calls' = calls
<1> DEFINE t == HandlePayload(session, PeerHandshake)
<1>1. /\ pc = "read" /\ ~session.met /\ Receive(PeerHandshake) /\ wanted \in BOOLEAN
      /\ IsSession(session, TrackerLists) /\ session.status = "ok"
  BY DEF ReceiveHandshake, Receive, IInv, SessionInv, TypeOK
<1>2. Fresh(session)
  BY <1>1 DEF HonestInv, HonestPeers
<1>3. /\ t.more <=> Tex \in Shared /\ peer.trackers # <<>>
      /\ Meta \in Shared => ~CheckDone(t)
  BY <1>1, <1>2, HonestHandshakeMeets
<1>4. session' = t /\ UNCHANGED <<calls, wanted, peer>>
  BY <1>1 DEF Receive
<1> HIDE DEF t
<1>5. Shared' = Shared
  BY <1>4 DEF Shared
<1> QED BY <1>3, <1>4, <1>5 DEF Unanswered

(* A request changes none of that. *)
LEMMA UnintroducedWrite ==
  ASSUME IInv, Unanswered, WriteRequest(Request(session))
  PROVE  Unanswered' /\ calls' = calls
<1>1. session' = Request(session) /\ UNCHANGED <<pc, calls, wanted, peer>>
  BY DEF WriteRequest
<1>2. session'.more = session.more /\ session'.pieces = session.pieces
  BY <1>1 DEF Request, IInv, TypeOK, IsSession, Sessions
<1>3. Shared' = Shared /\ (CheckDone(session') <=> CheckDone(session))
  BY <1>1, <1>2 DEF Shared, CheckDone
<1> QED BY <1>1, <1>2, <1>3 DEF Unanswered

(* So the main loop delivers nothing of the peer's. *)
LEMMA UnintroducedReact ==
  ASSUME IInv, HonestInv, peer \in HonestPeers, ~peer.knows, Unanswered, React
  PROVE  Unanswered' /\ \A i \in DOMAIN calls' : calls'[i].meta = Nil /\ peer.trackers = <<>>
<1> PICK t : t = session
  OBVIOUS
<1>1. pc = "react" /\ peer.honest
  BY DEF React, HonestPeers
<1>2. calls = <<>>
  BY <1>1 DEF IInv, DeliveryInv
<1>3. /\ t.supports = Shared
      /\ t.more <=> Tex \in Shared /\ peer.trackers # <<>>
      /\ Meta \in Shared => ~CheckDone(t)
  BY <1>1 DEF HonestInv, Met, Unanswered
<1>4. rawmeta' = Nil
  BY ReactStep DEF IInv, NeverBoth
<1>5. IF wanted /\ Meta \in t.supports THEN
        IF Tex \in t.supports THEN MetaAndTracker(t) ELSE OnlyMeta(t)
      ELSE IF Tex \in t.supports THEN OnlyTracker(t)
      ELSE UNCHANGED calls
  BY DEF React
<1>u. Unanswered'
  <2>1. pc' # "react"
    BY ReactOutcome DEF Outcome
  <2> QED BY <2>1 DEF Unanswered
<1> SUFFICES \A i \in DOMAIN calls' : calls'[i].meta = Nil /\ peer.trackers = <<>>
  BY <1>u
<1>6. CASE UNCHANGED calls
  BY <1>2, <1>6
<1>7. ASSUME ~t.more, Tex \in t.supports, NEW c, NEW list, Deliver(c, Nil, list)
      PROVE  \A i \in DOMAIN calls' : calls'[i].meta = Nil /\ peer.trackers = <<>>
  <2>1. calls' = <<[call |-> c, meta |-> Nil, trackers |-> list]>>
    BY <1>2, <1>7 DEF Deliver
  <2> QED BY <1>3, <1>7, <2>1
<1>8. CASE MetaAndTracker(t) /\ Tex \in t.supports
  BY <1>4, <1>6, <1>7, <1>8 DEF MetaAndTracker, Continue
<1>9. CASE OnlyMeta(t) /\ Meta \in t.supports
  BY <1>3, <1>6, <1>9 DEF OnlyMeta, Continue
<1>10. CASE OnlyTracker(t) /\ Tex \in t.supports
  BY <1>6, <1>7, <1>10 DEF OnlyTracker, Continue
<1> QED BY <1>5, <1>6, <1>8, <1>9, <1>10

(* sniffer.go:144 registers the extensions and never writes the handshake  *)
(* that would tell their ids, so this is what becomes of every peer that   *)
(* does not guess them: the counterexample of TrackersAreFetched, for all  *)
(* metadata and trackers, whichever extensions are wanted and supported.   *)
THEOREM UnintroducedGetNothing == Spec => []NothingUnintroduced
<1>1. Init => NothingUnintroduced /\ Unanswered
  BY DEF Init, NothingUnintroduced, Unanswered
<1>2. IInv /\ HonestInv /\ NothingUnintroduced /\ Unanswered /\ [Next]_vars
        => NothingUnintroduced' /\ Unanswered'
  <2> SUFFICES ASSUME IInv, HonestInv, NothingUnintroduced, Unanswered, [Next]_vars,
                      peer'.honest, ~peer'.knows
               PROVE  Unanswered' /\ \A i \in DOMAIN calls' : calls'[i].meta = Nil /\ peer'.trackers = <<>>
    BY DEF NothingUnintroduced, Unanswered
  <2>1. ASSUME UNCHANGED <<calls, peer>>
        PROVE  \A i \in DOMAIN calls' : calls'[i].meta = Nil /\ peer'.trackers = <<>>
    BY <2>1 DEF NothingUnintroduced
  <2>2. CASE Cancel \/ CheckCtx \/ Skip \/ ReadFails \/ UNCHANGED vars
    <3>1. UNCHANGED <<calls, peer, session, wanted>> /\ (pc' = "react" => pc = "react")
      BY <2>2, Zenon DEF Cancel, CheckCtx, Return, Goto, Skip, ReadFails, vars, fetcherVars
    <3>2. Unanswered'
      BY <3>1 DEF Unanswered, Shared
    <3> QED BY <2>1, <3>1, <3>2
  <2>3. CASE Connecting
    <3>1. UNCHANGED <<calls, peer>> /\ pc' # "react"
      BY <2>3 DEF Connecting, Dial, Handshaken, RegistExts, DialFails, HandshakeFails, Return, Goto, fetcherVars
    <3> QED BY <2>1, <3>1 DEF Unanswered
  <2>4. CASE (Reading /\ ~Skip /\ ~ReadFails) \/ Reacting
    <3>1. peer' = peer
      BY <2>4, Zenon DEF Reading, ReceiveAny, ReceiveHandshake, ReceiveData, ReceiveTrackers, Receive,
                         Reacting, React, WriteRequest, WriteFails, fetcherVars
    <3>2. peer \in HonestPeers
      BY <3>1 DEF IInv, TypeOK, Peers, Stranger
    <3>3. ReceiveHandshake \/ WriteRequest(Request(session)) \/ React
      BY <2>4, <3>1, Zenon DEF Reading, ReceiveData, ReceiveTrackers, Reacting
    <3>4. CASE ReceiveHandshake \/ WriteRequest(Request(session))
      BY <2>1, <3>1, <3>2, <3>4, UnintroducedReceive, UnintroducedWrite
    <3>5. CASE React
      BY <3>1, <3>2, <3>5, UnintroducedReact
    <3> QED BY <3>3, <3>4, <3>5
  <2> QED BY <2>2, <2>3, <2>4 DEF Next
<1> QED BY <1>1, <1>2, Invariant, HonestInit, HonestStep, PTL DEF Spec

------------------------------------------------------------------------------
(* The callback crashes on the four kinds of messages that FetchMetadata   *)
(* crashes on, and on nothing else a peer may send: the safety part of     *)
(* CancelEndsFetch.                                                        *)
THEOREM CrashesOnPoison == Spec => OnlyPoisonCrashes
<1>1. IInv /\ HonestInv' /\ [Next]_vars =>
        (pc' = "crashed" /\ pc # "crashed" => \E msg \in Messages : Poisonous(session, msg) /\ Receive(msg))
  <2> SUFFICES ASSUME IInv, HonestInv', [Next]_vars, pc' = "crashed", pc # "crashed"
               PROVE  \E msg \in Messages : Poisonous(session, msg) /\ Receive(msg)
    OBVIOUS
  <2>1. CASE ReceiveAny
    <3>1. PICK msg \in Messages : Receive(msg)
      BY <2>1 DEF ReceiveAny
    <3>2. pc = "read" /\ HandlePayload(session, msg).status = "panic"
      BY <3>1 DEF Receive, Return, Goto
    <3>3. IsSession(session, TrackerLists) /\ session.status = "ok" /\ Len(session.exts) \in {1, 2}
      BY <3>2 DEF IInv, TypeOK, SessionInv, Registered
    <3>4. Poisonous(session, msg)
      BY <3>2, <3>3, OnlyPoisonPanics, FetcherAssumption
    <3> QED BY <3>1, <3>4
  <2>2. CASE ReceiveHandshake \/ ReceiveTrackers \/ \E no \in 0..Len(TrueMeta) : ReceiveData(no)
    <3>1. peer' = peer /\ (peer.honest \/ peer.knows)
      BY <2>2 DEF ReceiveHandshake, ReceiveTrackers, ReceiveData, Receive
    <3>2. ASSUME peer \in HonestPeers PROVE peer'.honest
      BY <3>1, <3>2 DEF HonestPeers
    <3>3. ASSUME peer = Stranger PROVE peer'.honest
      <4>1. peer.honest = FALSE /\ peer.knows = FALSE
        BY <3>3 DEF Stranger
      <4> QED BY <3>1, <4>1, Zenon
    <3>4. peer'.honest
      BY <3>2, <3>3 DEF IInv, TypeOK, Peers
    <3> QED BY <3>4 DEF HonestInv
  <2>3. CASE Cancel \/ Connecting \/ CheckCtx \/ UNCHANGED vars
    BY <2>3 DEF Cancel, Connecting, Dial, Handshaken, RegistExts, DialFails, HandshakeFails, CheckCtx, Return,
                Goto, vars
  <2>4. CASE Skip \/ ReadFails
    BY <2>4 DEF Skip, ReadFails, Return, Goto
  <2>5. CASE Reacting
    BY <2>5, ReactOutcome DEF Reacting, WriteRequest, WriteFails, Return, Outcome
  <2> QED BY <2>1, <2>2, <2>3, <2>4, <2>5 DEF Next, Reading
<1> QED BY <1>1, Invariant, HonestInit, HonestStep, PTL DEF Spec, OnlyPoisonCrashes
==============================================================================
