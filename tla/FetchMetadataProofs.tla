------------------------ MODULE FetchMetadataProofs ------------------------
(***************************************************************************)
(* Proofs about FetchMetadata, for any metadata, any size of its pieces    *)
(* and any messages of the peer.                                           *)
(***************************************************************************)
EXTENDS FetchMetadata, ExtProtocolProofs

(* FetchMetaExt is the only extension, and the handshakes that are not     *)
(* answered with an error leave pieces to ask for.                         *)
Ready(s) == Meta \in s.supports => Len(s.pieces) > 0

SessionInv ==
  /\ session.exts \in {<<Meta>>, <<Nil>>}
  /\ pc \notin {"returned", "crashed"} => session.status = "ok" /\ Ready(session)
  /\ pc \notin {"react", "returned", "crashed"} => ~Requesting(session) /\ AllAsked(session)

(* After a message that was read late comes the look at ctx that ends the  *)
(* loop.                                                                   *)
LateInv == late => cancelled /\ pc \in {"react", "check", "returned", "crashed"}

IInv ==
  /\ TypeOK
  /\ SessionInv
  /\ LateInv
  /\ OnlyTrueMeta
  /\ ClosedOnReturn

------------------------------------------------------------------------------
(* A handshake keeps FetchMetaExt the only extension and either ends the   *)
(* loop or leaves pieces to ask for, or removes the extension.             *)
LEMMA HandshakeAsks ==
  ASSUME NEW s, IsSession(s, {<<>>}), s.exts \in {<<Meta>>, <<Nil>>}, s.status = "ok",
         NEW hs, IsMessage(hs), hs.type = "handshake"
  PROVE  LET t == Handshake(s, hs)
         IN  /\ t.exts \in {<<Meta>>, <<Nil>>}
             /\ t.status = "ok" => Ready(t)
<1> DEFINE a == Merged(s, hs)
           t == Introduce(a, 1, hs)
<1>1. Handshake(s, hs) = t
  BY HandshakeOfOne
<1>2. a \in Sessions({<<>>})
  BY MergedSession DEF StaysSession, IsSession
<1>3. a.exts = s.exts /\ a.status = "ok"
  BY DEF Merged, IsSession, Sessions
<1> HIDE DEF a
<1>4. a.exts \in Seq(Keys \cup {Nil}) /\ 1 \in DOMAIN a.exts
  BY <1>3, <1>2 DEF Sessions
<1>5. CASE a.exts[1] = Nil
  <2>1. t = Panic(a)
    BY <1>3, <1>5 DEF Introduce
  <2>2. t.exts = a.exts /\ t.status = "panic"
    BY <1>2, <2>1 DEF Panic, Sessions
  <2> QED BY <1>1, <1>3, <2>2
<1>6. CASE a.exts[1] # Nil /\ a.ids[a.exts[1]] = 0
  <2>1. a.exts = <<Meta>>
    BY <1>3, <1>6
  <2>2. t = Unsupport(a, 1)
    BY <1>3, <1>6 DEF Introduce
  <2>3. t.supports = a.supports \ {Meta} /\ t.exts = ReplaceAt(a.exts, 1, Nil)
    <3> DEFINE more == (a.more /\ a.exts[1] # Tex)
               exts == ReplaceAt(a.exts, 1, Nil)
    <3>1. Unsupport(a, 1) = [a EXCEPT !.supports = @ \ {a.exts[1]}, !.more = more, !.exts = exts]
      BY DEF Unsupport
    <3> HIDE DEF more, exts, t
    <3>2. t.supports = a.supports \ {a.exts[1]} /\ t.exts = exts
      BY <1>2, <2>2, <3>1 DEF Sessions
    <3> QED BY <2>1, <3>2 DEF exts
  <2>4. t.exts = <<Nil>>
    BY <2>1, <2>3 DEF ReplaceAt
  <2> QED BY <1>1, <2>3, <2>4 DEF Ready
<1>7. CASE a.exts[1] # Nil /\ a.ids[a.exts[1]] # 0
  <2> DEFINE n == GetPiecesNum(hs.size)
  <2>1. t = MetaAfterHandshake(a, hs)
    BY <1>3, <1>7 DEF Introduce
  <2>2. CASE hs.size = Nil \/ hs.size <= 0 \/ hs.size > MaxSize
    <3> DEFINE u == [a EXCEPT !.supports = @ \cup {Meta}]
    <3>1. t \in {Error(u), Panic(u)}
      BY <2>1, <2>2 DEF MetaAfterHandshake
    <3>2. t.exts = a.exts /\ t.status \in {"error", "panic"}
      BY <1>2, <3>1 DEF Error, Panic, Sessions
    <3> QED BY <1>1, <1>3, <3>2
  <2>3. CASE hs.size # Nil /\ ~(hs.size <= 0) /\ ~(hs.size > MaxSize)
    <3>1. n \in Nat \ {0}
      BY <2>3, PiecesOfSome DEF IsMessage
    <3> HIDE DEF n
    <3>2. t.exts = a.exts /\ t.pieces = [j \in 1..n |-> <<>>]
      BY <1>2, <2>1, <2>3 DEF MetaAfterHandshake, Sessions, n
    <3>3. Len(t.pieces) = n
      BY <3>1, <3>2
    <3> QED BY <1>1, <1>3, <3>1, <3>2, <3>3 DEF Ready
  <2> QED BY <2>2, <2>3
<1> QED BY <1>5, <1>6, <1>7

(* So does every payload. *)
LEMMA PayloadAsks ==
  ASSUME NEW s, IsSession(s, {<<>>}), s.exts \in {<<Meta>>, <<Nil>>}, s.status = "ok",
         Ready(s), NEW msg, IsMessage(msg)
  PROVE  LET t == HandlePayload(s, msg)
         IN  /\ IsSession(t, {<<>>})
             /\ t.exts \in {<<Meta>>, <<Nil>>}
             /\ t.status = "ok" => Ready(t)
<1> DEFINE t == HandlePayload(s, msg)
<1>1. IsSession(t, {<<>>})
  <2>1. Len(s.exts) \in {1, 2}
    OBVIOUS
  <2>2. \A i \in DOMAIN s.exts : s.exts[i] # Tex
    BY ProtocolAssumption DEF Keys, Meta, Tex
  <2>3. StaysSession(s, t, {<<>>})
    BY <2>1, <2>2, HandlePayloadSession
  <2> QED BY <2>3 DEF StaysSession
<1>2. CASE msg.type = "handshake"
  <2>1. Error(s).exts = s.exts /\ Error(s).status = "error"
    BY DEF Error, IsSession, Sessions
  <2>2. t = Error(s) \/ t = Handshake(s, msg)
    BY <1>2 DEF HandlePayload
  <2> HIDE DEF t
  <2> QED BY <1>1, <1>2, <2>1, <2>2, HandshakeAsks DEF t
<1>3. CASE msg.type # "handshake"
  <2>1. t.exts = s.exts /\ (t.status = "ok" => t.supports = s.supports
                                              /\ Len(t.pieces) = Len(s.pieces))
    <3>1. CASE msg.type \in {"empty", "garbage"}
      BY <3>1 DEF HandlePayload, Panic, Error, IsSession, Sessions
    <3>2. CASE msg.type = "ext"
      BY <3>2, DispatchKeeps DEF HandlePayload, IsSession
    <3> QED BY <1>3, <3>1, <3>2 DEF IsMessage
  <2> QED BY <1>1, <2>1 DEF Ready
<1> QED BY <1>2, <1>3

------------------------------------------------------------------------------
(* What an honest peer sends decodes. *)
LEMMA HonestMessages ==
  /\ IsMessage(HonestHandshake)
  /\ \A no \in 0..Len(TrueMeta) : IsMessage(HonestData(no))
<1>1. IsMessage(HonestHandshake)
  BY ProtocolAssumption DEF IsMessage, HonestHandshake
<1>2. ASSUME NEW no \in 0..Len(TrueMeta) PROVE IsMessage(HonestData(no))
  <2>1. TruePiece(no) \in Seq(Int)
    BY ProtocolAssumption DEF TruePiece
  <2> QED BY <2>1 DEF IsMessage, HonestData
<1> QED BY <1>1, <1>2

(* The invariant holds at the start. *)
LEMMA InvariantInit == Init => IInv
<1> SUFFICES ASSUME Init PROVE IInv
  OBVIOUS
<1>1. IsSession(session, {<<>>})
  BY DEF Init, IsSession, Sessions, NewSession, Keys
<1>2. session.exts = <<Meta>> /\ session.status = "ok" /\ session.supports = {}
  BY DEF Init, NewSession
<1>3. /\ honest \in BOOLEAN /\ pc = "dial" /\ stream = "none" /\ cancelled = FALSE
      /\ result = Nil /\ late = FALSE /\ handshakes = 0
  BY DEF Init
<1>4. TypeOK
  <2>1. honest \in BOOLEAN /\ cancelled \in BOOLEAN /\ late \in BOOLEAN
    BY <1>3, Zenon
  <2>2. handshakes \in 0..MaxHandshakes
    BY <1>3, FetchAssumption
  <2> QED BY <1>1, <1>3, <2>1, <2>2 DEF TypeOK
<1>5. SessionInv
  <2>1. session.pieces = <<>> /\ session.next = 0 /\ session.asked = {}
    BY DEF Init, NewSession
  <2>2. ~Requesting(session) /\ AllAsked(session)
    BY <2>1 DEF Requesting, AllAsked
  <2> QED BY <1>2, <2>2 DEF SessionInv, Ready
<1> QED BY <1>3, <1>4, <1>5 DEF IInv, LateInv, OnlyTrueMeta, ClosedOnReturn

(* A message is handled. *)
LEMMA ReceiveStep ==
  ASSUME IInv, NEW msg, IsMessage(msg), Receive(msg), handshakes' \in 0..MaxHandshakes
  PROVE  IInv'
<1> DEFINE s == HandlePayload(session, msg)
<1> USE DEF IInv, TypeOK
<1>1. /\ IsSession(s, {<<>>})
      /\ s.exts \in {<<Meta>>, <<Nil>>}
      /\ s.status = "ok" => Ready(s)
  BY PayloadAsks DEF SessionInv, Receive
<1>2. s.status \in {"ok", "error", "panic"}
  BY <1>1 DEF IsSession, Sessions
<1>3. /\ pc = "read" /\ session' = s /\ late' = (late \/ cancelled)
      /\ UNCHANGED <<honest, cancelled>>
      /\ pc' \in {"returned", "crashed", "react"}
      /\ pc' = "react" => s.status = "ok"
      /\ stream' \in {"none", "open", "closed"}
      /\ pc' = "returned" => stream' # "open"
      /\ result' \in {result, Nil}
  BY <1>2 DEF Receive, Return, Goto
<1> HIDE DEF s
<1>4. TypeOK'
  BY <1>1, <1>3, ProtocolAssumption DEF OnlyTrueMeta
<1>5. SessionInv'
  BY <1>1, <1>3 DEF SessionInv
<1>6. LateInv'
  BY <1>3 DEF LateInv
<1>7. OnlyTrueMeta' /\ ClosedOnReturn'
  BY <1>3 DEF OnlyTrueMeta, ClosedOnReturn
<1> QED BY <1>4, <1>5, <1>6, <1>7

(* A request is written or lost. *)
LEMMA WriteStep ==
  ASSUME IInv, NEW s, s \in {Request(session), LoseRequest(session)}, WriteRequest(s)
  PROVE  IInv'
<1>1. /\ pc = "react" /\ pc' = "react" /\ session' = s /\ Requesting(session)
      /\ UNCHANGED <<honest, stream, cancelled, result, late, handshakes>>
  BY DEF WriteRequest
<1>2. IsSession(session, {<<>>}) /\ session.status = "ok" /\ Ready(session)
      /\ session.exts \in {<<Meta>>, <<Nil>>}
  BY <1>1 DEF IInv, TypeOK, SessionInv
<1>3. IsSession(s, {<<>>})
  BY <1>1, <1>2, RequestSession DEF StaysSession
<1>4. s.exts = session.exts /\ s.status = "ok" /\ s.supports = session.supports /\ s.pieces = session.pieces
  BY <1>2 DEF Request, LoseRequest, IsSession, Sessions
<1>5. TypeOK'
  BY <1>1, <1>3 DEF IInv, TypeOK
<1>6. SessionInv'
  BY <1>1, <1>2, <1>4 DEF SessionInv, Ready
<1> QED BY <1>1, <1>5, <1>6 DEF IInv, LateInv, OnlyTrueMeta, ClosedOnReturn

(* The requests are written and the main loop reacts to the message. *)
LEMMA ReactStep ==
  ASSUME IInv, React
  PROVE  IInv'
<1> USE DEF IInv, TypeOK
<1>1. /\ pc = "react" /\ ~Requesting(session) /\ AllAsked(session)
      /\ UNCHANGED <<honest, cancelled, session, late, handshakes>>
      /\ pc' \in {"returned", "check"}
      /\ stream' \in {"none", "open", "closed"}
      /\ pc' = "returned" => stream' # "open"
      /\ result' \in {result, Nil, TrueMeta}
  BY DEF React, Return, Goto, HashMatches
<1>2. TypeOK'
  BY <1>1, ProtocolAssumption DEF OnlyTrueMeta
<1>3. SessionInv'
  BY <1>1 DEF SessionInv
<1> QED BY <1>1, <1>2, <1>3 DEF LateInv, OnlyTrueMeta, ClosedOnReturn

(* Every step keeps the invariant. *)
LEMMA InvariantStep == IInv /\ [Next]_vars => IInv'
<1> SUFFICES ASSUME IInv, [Next]_vars PROVE IInv'
  OBVIOUS
<1> USE FetchAssumption
<1>1. CASE Cancel
  BY <1>1 DEF Cancel, IInv, TypeOK, SessionInv, LateInv, OnlyTrueMeta, ClosedOnReturn
<1>2. CASE Connecting
  BY <1>2
  DEF Connecting, Dial, Handshaken, PeerFit, Greet, DialFails, HandshakeFails, PeerUnfit,
      GreetFails, Return, Goto, IInv, TypeOK, SessionInv, LateInv, OnlyTrueMeta, ClosedOnReturn
<1>3. CASE CheckCtx
  BY <1>3
  DEF CheckCtx, Return, Goto, IInv, TypeOK, SessionInv, LateInv, OnlyTrueMeta, ClosedOnReturn
<1>4. CASE Skip
  BY <1>4 DEF Skip, Goto, IInv, TypeOK, SessionInv, LateInv, OnlyTrueMeta, ClosedOnReturn
<1>5. CASE ReadFails
  BY <1>5 DEF ReadFails, Return, IInv, TypeOK, SessionInv, LateInv, OnlyTrueMeta, ClosedOnReturn
<1>6. CASE ReceiveAny
  BY <1>6, ReceiveStep DEF ReceiveAny, IInv, TypeOK
<1>7. CASE ReceiveHandshake
  BY <1>7, ReceiveStep, HonestMessages DEF ReceiveHandshake, IInv, TypeOK
<1>8. ASSUME NEW no \in 0..Len(TrueMeta), ReceiveData(no) PROVE IInv'
  BY <1>8, ReceiveStep, HonestMessages DEF ReceiveData, IInv, TypeOK
<1>9. CASE UNCHANGED vars
  BY <1>9 DEF vars, IInv, TypeOK, SessionInv, LateInv, OnlyTrueMeta, ClosedOnReturn
<1>10. CASE WriteRequest(Request(session)) \/ WriteRequest(LoseRequest(session))
  BY <1>10, WriteStep
<1>11. CASE React
  BY <1>11, ReactStep
<1>12. CASE WriteFails
  BY <1>12 DEF WriteFails, Return, IInv, TypeOK, SessionInv, LateInv, OnlyTrueMeta, ClosedOnReturn
<1> HIDE DEF IInv
<1> QED BY <1>1, <1>2, <1>3, <1>4, <1>5, <1>6, <1>7, <1>8, <1>9, <1>10, <1>11, <1>12
        DEF Next, Reading, Reacting

(* The invariant holds in every state of every fetch. *)
LEMMA Invariant == Spec => []IInv
BY InvariantInit, InvariantStep, PTL DEF Spec

(* Type correctness: in particular the session stays one whatever is sent. *)
THEOREM TypeCorrect == Spec => []TypeOK
BY Invariant, PTL DEF IInv

(* FetchMetadata returns the metadata of its info hash or none. *)
THEOREM ReturnsTrueMeta == Spec => []OnlyTrueMeta
BY Invariant, PTL DEF IInv

(* No return of FetchMetadata leaves the connection open. *)
THEOREM ConnectionClosed == Spec => []ClosedOnReturn
BY Invariant, PTL DEF IInv

(* CheckDone is only asked about pieces that have been requested. *)
THEOREM DoneMeansPieces == Spec => []NeverVacuouslyDone
<1>1. IInv => NeverVacuouslyDone
  <2> SUFFICES ASSUME IInv, pc \in {"check", "read"}, Meta \in session.supports
               PROVE  Len(session.pieces) > 0 /\ session.asked # {}
    BY DEF NeverVacuouslyDone
  <2>1. Len(session.pieces) > 0 /\ session.asked = 0..(Len(session.pieces) - 1)
    BY DEF IInv, SessionInv, Ready, AllAsked
  <2>2. Len(session.pieces) \in Nat
    BY DEF IInv, TypeOK, IsSession, Sessions
  <2>3. 0 \in session.asked
    BY <2>1, <2>2
  <2> QED BY <2>1, <2>3
<1> QED BY <1>1, Invariant, PTL

(* At most one message is handled after ctx is done. *)
THEOREM StopsAfterCancel == Spec => OneMessageAfterCancel
<1>1. IInv => ~(late /\ pc = "read")
  BY DEF IInv, LateInv
<1> QED BY <1>1, Invariant, PTL DEF OneMessageAfterCancel

------------------------------------------------------------------------------
(* The safety part of HonestPeerSucceeds.  A fetch from an honest peer does *)
(* not crash, returns the metadata unless ctx is done, and never waits in   *)
(* vain: as long as the loop runs, the peer owes it a piece that it asked   *)
(* for, also when the handshake was repeated during the download.           *)
HonestServed ==
  honest =>
    /\ pc # "crashed"
    /\ pc = "returned" => result = TrueMeta \/ cancelled
    /\ pc \in {"check", "read"} /\ handshakes > 0 =>
         \E no \in session.asked : session.pieces[no + 1] = <<>>

(* After its first handshake the extension is set up and collects pieces.  *)
HonestInv ==
  honest =>
    /\ pc # "crashed"
    /\ pc = "returned" => result = TrueMeta \/ cancelled
    /\ session.exts = <<Meta>>
    /\ pc \in {"dial", "handshake", "compare", "greet"} => handshakes = 0
    /\ handshakes = 0 => session.asked = {} /\ pc # "react"
    /\ handshakes > 0 => Meta \in session.supports /\ session.met /\ Collecting(session)
    /\ pc \in {"check", "read"} /\ handshakes > 0 => ~CheckDone(session)

(* A handshake of an honest peer starts the download over. *)
LEMMA HonestHandshakeStarts ==
  ASSUME NEW s, IsSession(s, {<<>>}), s.exts = <<Meta>>, s.status = "ok"
  PROVE  LET t == HandlePayload(s, HonestHandshake)
         IN  /\ t.status = "ok" /\ t.exts = <<Meta>> /\ t.met /\ Meta \in t.supports
             /\ Collecting(t) /\ ~CheckDone(t)
<1> DEFINE hs == HonestHandshake
           a == Merged(s, hs)
           t == HandlePayload(s, hs)
<1>1. /\ hs.type = "handshake" /\ DOMAIN hs.m = {Meta} /\ hs.m[Meta] = 3
      /\ hs.size = Len(TrueMeta)
  BY DEF HonestHandshake
<1>2. t = Introduce(a, 1, hs)
  <2>1. t = Handshake(s, hs)
    BY <1>1 DEF HandlePayload
  <2> HIDE DEF t
  <2> QED BY <2>1, HandshakeOfOne
<1>3. a \in Sessions({<<>>})
  BY <1>1, MergedSession, HonestMessages DEF StaysSession, IsSession
<1>4. a.exts = <<Meta>> /\ a.status = "ok"
  BY DEF Merged, IsSession, Sessions
<1>5. a.met /\ a.ids[Meta] # 0
  <2> DEFINE ids == [k \in Keys |-> IF k \in DOMAIN hs.m THEN hs.m[k] % 256 ELSE s.ids[k]]
             met == (s.met \/ DOMAIN hs.m # {})
  <2>1. a = [s EXCEPT !.ids = ids, !.met = met]
    BY DEF Merged
  <2>2. ids[Meta] = 3 /\ met
    BY <1>1 DEF Keys
  <2> HIDE DEF ids, met, a
  <2> QED BY <2>1, <2>2 DEF IsSession, Sessions
<1> HIDE DEF hs, a
<1>6. t = MetaAfterHandshake(a, hs)
  BY <1>2, <1>4, <1>5, ProtocolAssumption DEF Introduce, Keys
<1> HIDE DEF t
<1> QED BY <1>1, <1>3, <1>4, <1>5, <1>6, CollectingStarts DEF hs, t

(* Its data are collected. *)
LEMMA HonestDataCollected ==
  ASSUME NEW s, IsSession(s, {<<>>}), s.exts = <<Meta>>, s.status = "ok", s.met,
         Collecting(s), NEW no \in s.asked
  PROVE  LET t == HandlePayload(s, HonestData(no))
         IN  /\ t.status = "ok" /\ t.exts = <<Meta>> /\ t.met /\ t.supports = s.supports
             /\ Collecting(t)
<1> DEFINE msg == HonestData(no)
           t == HandlePayload(s, msg)
<1>1. /\ msg.type = "ext" /\ msg.id = 1
      /\ msg.body.kind = "data" /\ msg.body.piece = no /\ msg.body.bytes = TruePiece(no)
  BY DEF HonestData
<1> HIDE DEF msg
<1>2. s.exts[1] = Meta /\ Len(s.exts) = 1 /\ Meta # Nil
  BY ProtocolAssumption DEF Keys
<1>3. t = MetaHandle(s, msg.body)
  BY <1>1, <1>2 DEF HandlePayload, Dispatch
<1> HIDE DEF t
<1> QED BY <1>1, <1>3, CollectingGoesOn DEF IsSession, t, msg

(* Either message leads on. *)
LEMMA HonestReceiveStep ==
  ASSUME honest, pc = "read", NEW msg, Receive(msg), handshakes' \in Nat, handshakes' > 0,
         LET t == HandlePayload(session, msg)
         IN  /\ t.status = "ok" /\ t.exts = <<Meta>> /\ t.met /\ Meta \in t.supports
             /\ Collecting(t)
  PROVE  HonestInv'
<1>1. session' = HandlePayload(session, msg) /\ pc' = "react"
  BY DEF Receive, Goto
<1> QED BY <1>1 DEF HonestInv

(* All that is asked for leads on, too, or to the return of the metadata.  *)
LEMMA HonestReactStep ==
  ASSUME IInv, honest, HonestInv, Reacting
  PROVE  HonestInv'
<1>0. /\ pc = "react" /\ UNCHANGED <<honest, cancelled, handshakes>>
      /\ React \/ WriteRequest(Request(session))
  BY DEF Reacting, React, WriteRequest, Return, Goto
<1>1. /\ session.exts = <<Meta>> /\ handshakes # 0 /\ handshakes \in Nat
      /\ session \in Sessions({<<>>})
  BY <1>0, FetchAssumption DEF HonestInv, IInv, TypeOK, IsSession
<1>2. Meta \in session.supports /\ session.met /\ Collecting(session)
  BY <1>1 DEF HonestInv
<1>3. CASE WriteRequest(Request(session))
  <2>1. session' = Request(session) /\ pc' = "react" /\ Requesting(session)
    BY <1>0, <1>3 DEF WriteRequest
  <2>2. /\ Collecting(session') /\ session'.exts = <<Meta>> /\ session'.met
        /\ Meta \in session'.supports
    BY <1>1, <1>2, <2>1, CollectingAsks
  <2> QED BY <1>0, <1>1, <2>1, <2>2 DEF HonestInv
<1>4. CASE React /\ CheckDone(session)
  <2>1. HashMatches(session)
    BY <1>2, <1>4, CollectedMatches
  <2>2. pc' = "returned" /\ result' = TrueMeta /\ session' = session
    BY <1>2, <1>4, <2>1 DEF React, Return, HashMatches
  <2> QED BY <1>0, <1>1, <1>2, <2>2 DEF HonestInv
<1>5. CASE React /\ ~CheckDone(session)
  <2>1. pc' = "check" /\ session' = session
    BY <1>2, <1>5 DEF React, Goto
  <2> QED BY <1>0, <1>1, <1>2, <1>5, <2>1 DEF HonestInv
<1> QED BY <1>0, <1>3, <1>4, <1>5

(* It holds at the start and every step keeps it. *)
LEMMA HonestInit == Init => HonestInv
<1> SUFFICES ASSUME Init PROVE HonestInv
  OBVIOUS
<1>1. session.exts = <<Meta>> /\ session.asked = {}
  BY DEF Init, NewSession
<1> QED BY <1>1 DEF Init, HonestInv

(* Every step keeps it: what an honest peer sends is collected. *)
LEMMA HonestStep == IInv /\ HonestInv /\ [Next]_vars => HonestInv'
<1> SUFFICES ASSUME IInv, HonestInv, [Next]_vars PROVE HonestInv'
  OBVIOUS
<1>honest. honest' = honest
  <2>1. CASE Cancel \/ CheckCtx \/ Reacting \/ UNCHANGED vars
    BY <2>1, Zenon DEF Cancel, CheckCtx, Reacting, React, WriteRequest, WriteFails, vars
  <2>2. CASE Connecting
    BY <2>2, Zenon DEF Connecting, Dial, Handshaken, PeerFit, Greet, DialFails, HandshakeFails,
                       PeerUnfit, GreetFails
  <2>3. CASE Reading
    BY <2>3, Zenon DEF Reading, Skip, ReadFails, ReceiveAny, ReceiveHandshake, ReceiveData, Receive
  <2> QED BY <2>1, <2>2, <2>3 DEF Next
<1> SUFFICES ASSUME honest PROVE HonestInv'
  BY <1>honest, Zenon DEF HonestInv
<1>0. TypeOK /\ handshakes \in Nat
  BY FetchAssumption DEF IInv, TypeOK
<1>1. CASE Cancel
  BY <1>1 DEF Cancel, HonestInv
<1>2. CASE Connecting
  <2>1. /\ UNCHANGED <<honest, cancelled, session, handshakes, result>>
        /\ pc \in {"dial", "handshake", "compare", "greet"}
        /\ pc' \in {"handshake", "compare", "greet", "check"}
    BY <1>2 DEF Connecting, Dial, Handshaken, PeerFit, Greet, Goto
  <2>2. handshakes = 0
    BY <2>1 DEF HonestInv
  <2> QED BY <2>1, <2>2 DEF HonestInv
<1>3. CASE CheckCtx
  BY <1>3 DEF CheckCtx, Return, Goto, HonestInv
<1>4. CASE Skip
  BY <1>4 DEF Skip, Goto, HonestInv
<1>5. CASE ReceiveHandshake
  <2>1. /\ pc = "read" /\ Receive(HonestHandshake) /\ handshakes' = handshakes + 1
    BY <1>5 DEF ReceiveHandshake, Receive
  <2>2. IsSession(session, {<<>>}) /\ session.exts = <<Meta>> /\ session.status = "ok"
    BY <1>0, <2>1 DEF TypeOK, HonestInv, IInv, SessionInv
  <2> QED BY <1>0, <2>1, <2>2, HonestHandshakeStarts, HonestReceiveStep
<1>6. ASSUME NEW no \in 0..Len(TrueMeta), ReceiveData(no) PROVE HonestInv'
  <2>1. pc = "read" /\ Receive(HonestData(no)) /\ handshakes' = handshakes /\ no \in session.asked
    BY <1>6 DEF ReceiveData, Receive
  <2>2. handshakes > 0
    BY <1>0, <2>1 DEF HonestInv
  <2>3. /\ IsSession(session, {<<>>}) /\ session.exts = <<Meta>> /\ session.status = "ok"
        /\ session.met /\ Collecting(session) /\ Meta \in session.supports
    BY <1>0, <2>1, <2>2 DEF TypeOK, HonestInv, IInv, SessionInv
  <2> QED BY <1>0, <2>1, <2>2, <2>3, HonestDataCollected, HonestReceiveStep
<1>7. CASE Reacting
  BY <1>7, HonestReactStep
<1>8. CASE UNCHANGED vars
  BY <1>8 DEF vars, HonestInv
<1> QED BY <1>1, <1>2, <1>3, <1>4, <1>5, <1>6, <1>7, <1>8 DEF Next, Reading

(* A fetch from an honest peer returns the metadata or is cancelled, and   *)
(* until it returns the peer owes it something.                            *)
THEOREM HonestPeerServes == Spec => []HonestServed
<1>1. IInv /\ HonestInv => HonestServed
  BY CollectingWaits DEF IInv, SessionInv, HonestInv, HonestServed
<1> QED BY <1>1, Invariant, HonestInit, HonestStep, PTL DEF Spec

------------------------------------------------------------------------------
(* FetchMetadata crashes on an empty payload, a second handshake after one *)
(* without our extension, a size that is too large and a piece that is     *)
(* none of the metadata's, and on nothing else a peer may send: the safety *)
(* part of CancelEndsFetch.                                                *)
THEOREM CrashesOnPoison == Spec => OnlyPoisonCrashes
<1>1. IInv /\ HonestInv /\ HonestInv' /\ [Next]_vars =>
        (pc' = "crashed" /\ pc # "crashed" => \E msg \in Messages : Poisonous(session, msg) /\ Receive(msg))
  <2> SUFFICES ASSUME IInv, HonestInv', [Next]_vars, pc' = "crashed", pc # "crashed"
               PROVE  \E msg \in Messages : Poisonous(session, msg) /\ Receive(msg)
    OBVIOUS
  <2>1. CASE ReceiveAny
    <3>1. PICK msg \in Messages : Receive(msg)
      BY <2>1 DEF ReceiveAny
    <3>2. pc = "read" /\ HandlePayload(session, msg).status = "panic"
      BY <3>1 DEF Receive, Return, Goto
    <3>3. IsSession(session, {<<>>}) /\ session.status = "ok" /\ Len(session.exts) \in {1, 2}
      BY <3>2 DEF IInv, TypeOK, SessionInv
    <3>4. Poisonous(session, msg)
      BY <3>2, <3>3, OnlyPoisonPanics, FetchAssumption
    <3> QED BY <3>1, <3>4
  <2>2. CASE ReceiveHandshake \/ \E no \in 0..Len(TrueMeta) : ReceiveData(no)
    <3>1. honest'
      BY <2>2 DEF ReceiveHandshake, ReceiveData, Receive
    <3> QED BY <3>1 DEF HonestInv
  <2>3. CASE Cancel \/ Connecting \/ CheckCtx \/ Reacting \/ UNCHANGED vars
    BY <2>3 DEF Cancel, Connecting, Dial, Handshaken, PeerFit, Greet, DialFails, HandshakeFails, PeerUnfit,
                GreetFails, CheckCtx, Reacting, React, WriteRequest, WriteFails, Return, Goto, vars
  <2>4. CASE Skip \/ ReadFails
    BY <2>4 DEF Skip, ReadFails, Return, Goto
  <2> QED BY <2>1, <2>2, <2>3, <2>4 DEF Next, Reading
<1> QED BY <1>1, Invariant, HonestInit, HonestStep, PTL DEF Spec, OnlyPoisonCrashes
==============================================================================
