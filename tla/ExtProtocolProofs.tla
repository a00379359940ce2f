------------------------- MODULE ExtProtocolProofs -------------------------
(***************************************************************************)
(* Lemmas about the operators of ExtProtocol, for FetchMetadataProofs and  *)
(* MetaTrackFetcherProofs.  The program registers one extension or two, so *)
(* that the loop of HandlePayload over proto.exts makes one round or two.  *)
(***************************************************************************)
EXTENDS ExtProtocol, TLAPS, SequenceTheorems, WellFoundedInduction

(* The indexes of proto.exts in the order of the loop. *)
LEMMA LastIndex == Max({1}) = 1 /\ Max({2}) = 2 /\ Max({1, 2}) = 2
BY DEF Max

(* With one extension a handshake is one round of the loop. *)
LEMMA HandshakeOfOne ==
  ASSUME NEW s, NEW hs, NEW x, s.exts = <<x>>
  PROVE  Handshake(s, hs) = Introduce(Merged(s, hs), 1, hs)
<1> DEFINE b == Merged(s, hs)
           Round(it) == [t \in SUBSET {1} |->
                          IF t = {} THEN b
                          ELSE Introduce(it[t \ {Max(t)}], [i \in {1} |-> i][Max(t)], hs)]
           f == [t \in SUBSET {1} |-> IF t = {} THEN b ELSE Introduce(b, 1, hs)]
           g == CHOOSE it : it = Round(it)
<1>1. DOMAIN s.exts = {1}
  OBVIOUS
<1>2. Handshake(s, hs) = g[{1}]
  BY <1>1 DEF Handshake, FoldLeftDomain, FoldLeft, MapThenFoldSet
<1>3. f = Round(f)
  BY LastIndex
<1>4. g = Round(g)
  BY <1>3
<1> HIDE DEF g, b
<1>5. g[{1}] = Introduce(g[{1} \ {1}], 1, hs)
  BY <1>4, LastIndex, ZenonT(60)
<1>6. g[{1} \ {1}] = b
  BY <1>4
<1> QED BY <1>2, <1>5, <1>6 DEF b

(* With two extensions it is the round of the first, then of the second. *)
LEMMA HandshakeOfTwo ==
  ASSUME NEW s, NEW hs, NEW x, NEW y, s.exts = <<x, y>>
  PROVE  Handshake(s, hs) = Introduce(Introduce(Merged(s, hs), 1, hs), 2, hs)
<1> DEFINE b == Merged(s, hs)
           D == SUBSET {1, 2}
           Round(it) == [t \in D |->
                          IF t = {} THEN b
                          ELSE Introduce(it[t \ {Max(t)}], [i \in {1, 2} |-> i][Max(t)], hs)]
           f == [t \in D |-> IF t = {} THEN b
                             ELSE IF t = {1} THEN Introduce(b, 1, hs)
                             ELSE IF t = {2} THEN Introduce(b, 2, hs)
                             ELSE Introduce(Introduce(b, 1, hs), 2, hs)]
           g == CHOOSE it : it = Round(it)
<1>1. DOMAIN s.exts = {1, 2}
  OBVIOUS
<1>2. Handshake(s, hs) = g[{1, 2}]
  BY <1>1 DEF Handshake, FoldLeftDomain, FoldLeft, MapThenFoldSet
<1>3. f = Round(f)
  <2> SUFFICES ASSUME NEW t \in D PROVE f[t] = Round(f)[t]
    OBVIOUS
  <2>1. t = {} \/ t = {1} \/ t = {2} \/ t = {1, 2}
    OBVIOUS
  <2>2. {1, 2} \ {2} = {1} /\ {1} \ {1} = {} /\ {2} \ {2} = {}
    OBVIOUS
  <2> HIDE DEF b
  <2> QED BY <2>1, <2>2, LastIndex
<1>4. g = Round(g)
  BY <1>3
<1> HIDE DEF g, b
<1>5. g[{1, 2}] = Introduce(g[{1, 2} \ {2}], 2, hs)
  BY <1>4, LastIndex
<1>6. {1, 2} \ {2} = {1}
  OBVIOUS
<1>7. g[{1}] = Introduce(g[{1} \ {1}], 1, hs)
  BY <1>4, LastIndex
<1>8. g[{1} \ {1}] = b
  BY <1>4
<1> QED BY <1>2, <1>5, <1>6, <1>7, <1>8 DEF b

(* A metadata that is not empty has a piece. *)
LEMMA PiecesOfSome == \A size \in Nat \ {0} : GetPiecesNum(size) \in Nat \ {0}
BY ProtocolAssumption DEF GetPiecesNum

------------------------------------------------------------------------------
(* What every operator leaves of a session is one, with as many extensions *)
(* as before.                                                              *)
StaysSession(s, t, lists) == IsSession(t, lists) /\ DOMAIN t.exts = DOMAIN s.exts

(* A handshake's ids go into the map of ids as bytes. *)
LEMMA MergedSession ==
  ASSUME NEW lists, NEW s, IsSession(s, lists),
         NEW hs, IsMessage(hs), hs.type = "handshake"
  PROVE  StaysSession(s, Merged(s, hs), lists)
<1> DEFINE ids == [k \in Keys |-> IF k \in DOMAIN hs.m THEN hs.m[k] % 256 ELSE s.ids[k]]
           met == (s.met \/ DOMAIN hs.m # {})
<1>1. Merged(s, hs) = [s EXCEPT !.ids = ids, !.met = met]
  BY DEF Merged
<1>2. ids \in [Keys -> 0..255]
  <2>1. \A k \in DOMAIN hs.m : hs.m[k] % 256 \in 0..255
    BY DEF IsMessage
  <2> QED BY <2>1 DEF IsSession, Sessions
<1>3. met \in BOOLEAN
  BY DEF IsSession, Sessions
<1>4. met \/ ids = [k \in Keys |-> 0]
  BY DEF IsSession, Sessions
<1> HIDE DEF ids, met
<1> QED BY <1>1, <1>2, <1>3, <1>4, ZenonT(60) DEF IsSession, Sessions, StaysSession

(* What a handshake does to one extension. *)
LEMMA IntroduceSession ==
  ASSUME NEW lists, NEW s, IsSession(s, lists), NEW i \in DOMAIN s.exts,
         NEW hs, IsMessage(hs), hs.type = "handshake"
  PROVE  StaysSession(s, Introduce(s, i, hs), lists)
<1> USE DEF StaysSession, IsSession, Sessions
<1>1. /\ StaysSession(s, s, lists)
      /\ StaysSession(s, Panic(s), lists)
  BY DEF Panic
<1>2. StaysSession(s, Unsupport(s, i), lists)
  <2> DEFINE exts == ReplaceAt(s.exts, i, Nil)
             more == (s.more /\ s.exts[i] # Tex)
  <2>1. exts \in Seq(Keys \cup {Nil}) /\ DOMAIN exts = DOMAIN s.exts
    BY DEF ReplaceAt
  <2>2. more \in BOOLEAN
    OBVIOUS
  <2>3. Unsupport(s, i) = [s EXCEPT !.supports = @ \ {s.exts[i]}, !.more = more, !.exts = exts]
    BY DEF Unsupport
  <2> HIDE DEF exts, more
  <2> QED BY <2>1, <2>2, <2>3, ZenonT(60)
<1>3. StaysSession(s, TexAfterHandshake(s, hs), lists)
  BY DEF TexAfterHandshake, Keys
<1>4. StaysSession(s, MetaAfterHandshake(s, hs), lists)
  <2> DEFINE n == GetPiecesNum(hs.size)
             pieces == [j \in 1..n |-> <<>>]
             supports == s.supports \cup {Meta}
             u == [s EXCEPT !.supports = supports]
  <2>1. supports \in SUBSET Keys
    BY DEF Keys
  <2>2. StaysSession(s, Error(u), lists) /\ StaysSession(s, Panic(u), lists)
    <3> HIDE DEF supports
    <3> QED BY <2>1, ZenonT(60) DEF Error, Panic
  <2>3. CASE hs.size = Nil \/ hs.size <= 0 \/ hs.size > MaxSize
    <3>1. MetaAfterHandshake(s, hs) \in {Error(u), Panic(u)}
      BY <2>3 DEF MetaAfterHandshake
    <3> HIDE DEF StaysSession, u
    <3> QED BY <2>2, <3>1, Zenon
  <2>4. CASE hs.size # Nil /\ ~(hs.size <= 0) /\ ~(hs.size > MaxSize)
    <3>1. n \in Nat
      BY <2>4, PiecesOfSome DEF IsMessage
    <3>2. MetaAfterHandshake(s, hs) =
            [s EXCEPT !.supports = supports, !.pieces = pieces, !.next = 0, !.asked = {}]
      BY <2>4 DEF MetaAfterHandshake
    <3> HIDE DEF n
    <3>3. pieces \in Seq(Seq(Int)) /\ Len(pieces) = n
      BY <3>1
    <3>4. 0 \in Nat /\ 0 <= Len(pieces) /\ {} \in SUBSET Nat /\ {} \subseteq 0..(0 - 1)
      BY <3>1, <3>3
    <3> HIDE DEF pieces, supports
    <3> QED BY <2>1, <3>2, <3>3, <3>4, ZenonT(60)
  <2> QED BY <2>3, <2>4
<1> HIDE DEF StaysSession, IsSession, Sessions
<1> QED BY <1>1, <1>2, <1>3, <1>4 DEF Introduce

(* A request that is written, or lost, keeps the session's types. *)
LEMMA RequestSession ==
  ASSUME NEW lists, NEW s, IsSession(s, lists), Requesting(s)
  PROVE  StaysSession(s, Request(s), lists) /\ StaysSession(s, LoseRequest(s), lists)
<1> DEFINE next == s.next + 1
           asked == s.asked \cup {s.next}
<1>1. s.next \in Nat /\ Len(s.pieces) \in Nat /\ s.next < Len(s.pieces) /\ s.asked \subseteq 0..(s.next - 1)
  BY DEF IsSession, Sessions, Requesting
<1>2. next \in Nat /\ next <= Len(s.pieces) /\ asked \subseteq 0..(next - 1) /\ asked \in SUBSET Nat
      /\ s.asked \subseteq 0..(next - 1)
  BY <1>1
<1>3. Request(s) = [s EXCEPT !.asked = asked, !.next = next] /\ LoseRequest(s) = [s EXCEPT !.next = next]
  BY DEF Request, LoseRequest
<1> HIDE DEF next, asked
<1> QED BY <1>2, <1>3, ZenonT(60) DEF IsSession, Sessions, StaysSession

(* An id that is not past the end is that of a registered extension. *)
LEMMA InRange ==
  ASSUME NEW S, NEW e \in Seq(S), NEW id \in 1..255, ~(id > Len(e))
  PROVE  id \in DOMAIN e /\ e[id] \in S
OBVIOUS

(* A message for an extension keeps the session's types. *)
LEMMA DispatchSession ==
  ASSUME NEW lists, <<>> \in lists, NEW s, IsSession(s, lists),
         NEW msg, IsMessage(msg), msg.type = "ext",
         Len(s.exts) \in {1, 2},
         msg.body.kind = "added" => msg.body.added \in lists \/ \A i \in DOMAIN s.exts : s.exts[i] # Tex
  PROVE  StaysSession(s, Dispatch(s, msg.id, msg.body), lists)
<1> USE DEF StaysSession, IsSession, Sessions
<1>1. StaysSession(s, Error(s), lists) /\ StaysSession(s, s, lists)
  BY DEF Error
<1>2. StaysSession(s, MetaHandle(s, msg.body), lists)
  <2> DEFINE pieces == [s.pieces EXCEPT ![msg.body.piece + 1] = msg.body.bytes]
  <2>1. StaysSession(s, Panic(s), lists)
    BY DEF Panic
  <2>2. ASSUME msg.body.kind = "data", msg.body.piece \in 0..(Len(s.pieces) - 1)
        PROVE  StaysSession(s, [s EXCEPT !.pieces[msg.body.piece + 1] = msg.body.bytes], lists)
    <3>1. pieces \in Seq(Seq(Int)) /\ Len(pieces) = Len(s.pieces)
      BY <2>2 DEF IsMessage
    <3>2. [s EXCEPT !.pieces[msg.body.piece + 1] = msg.body.bytes] = [s EXCEPT !.pieces = pieces]
      OBVIOUS
    <3> HIDE DEF pieces
    <3> QED BY <3>1, <3>2
  <2> HIDE DEF StaysSession, IsSession, Sessions
  <2> QED BY <1>1, <2>1, <2>2 DEF MetaHandle
<1>3. ASSUME msg.body.kind = "added" => msg.body.added \in lists
      PROVE  StaysSession(s, TexHandle(s, msg.body), lists)
  BY <1>1, <1>3, ZenonT(60) DEF TexHandle
<1> HIDE DEF StaysSession, IsSession, Sessions
<1>4. CASE s.met /\ ~(msg.id > Len(s.exts)) /\ s.exts[msg.id] # Nil /\ s.exts[msg.id] # Meta
  <2>1. msg.id \in 1..255
    BY DEF IsMessage
  <2>2. s.exts \in Seq(Keys \cup {Nil})
    BY DEF IsSession, Sessions
  <2>3. msg.id \in DOMAIN s.exts /\ s.exts[msg.id] \in Keys \cup {Nil}
    BY <1>4, <2>1, <2>2, InRange, ZenonT(60)
  <2>4. s.exts[msg.id] = Tex
    BY <1>4, <2>3 DEF Keys
  <2> QED BY <1>3, <1>4, <2>3, <2>4 DEF Dispatch
<1> QED BY <1>1, <1>2, <1>4 DEF Dispatch

(* A message for an extension changes neither what is registered and       *)
(* supported nor which pieces there are.                                   *)
LEMMA DispatchKeeps ==
  ASSUME NEW lists, NEW s \in Sessions(lists), NEW msg, IsMessage(msg), msg.type = "ext"
  PROVE  LET t == Dispatch(s, msg.id, msg.body)
         IN  /\ t.exts = s.exts /\ t.supports = s.supports /\ t.asked = s.asked
             /\ t.next = s.next /\ Len(t.pieces) = Len(s.pieces)
<1> DEFINE Kept(t) == /\ t.exts = s.exts /\ t.supports = s.supports /\ t.asked = s.asked
                      /\ t.next = s.next /\ Len(t.pieces) = Len(s.pieces)
           body == msg.body
<1>1. Kept(s) /\ Kept(Error(s)) /\ Kept(Panic(s))
  BY DEF Error, Panic, Sessions
<1>2. Kept(TexHandle(s, body))
  BY <1>1 DEF TexHandle, Sessions
<1>3. Kept(MetaHandle(s, body))
  <2> DEFINE pieces == [s.pieces EXCEPT ![body.piece + 1] = body.bytes]
  <2>1. ASSUME body.kind = "data", body.piece \in 0..(Len(s.pieces) - 1)
        PROVE  Kept([s EXCEPT !.pieces[body.piece + 1] = body.bytes])
    <3>1. Len(pieces) = Len(s.pieces)
      BY <2>1 DEF IsMessage, Sessions
    <3>2. [s EXCEPT !.pieces[body.piece + 1] = body.bytes] = [s EXCEPT !.pieces = pieces]
      BY DEF Sessions
    <3> HIDE DEF pieces
    <3> QED BY <3>1, <3>2 DEF Sessions
  <2> HIDE DEF Kept
  <2> QED BY <1>1, <2>1 DEF MetaHandle
<1> HIDE DEF Kept
<1>4. Kept(Dispatch(s, msg.id, msg.body))
  BY <1>1, <1>2, <1>3 DEF Dispatch
<1> QED BY <1>4 DEF Kept

(* HandlePayload keeps a session a session. *)
LEMMA HandlePayloadSession ==
  ASSUME NEW lists, <<>> \in lists, NEW s, IsSession(s, lists), NEW msg, IsMessage(msg),
         Len(s.exts) \in {1, 2},
         msg.type = "ext" /\ msg.body.kind = "added" =>
           msg.body.added \in lists \/ \A i \in DOMAIN s.exts : s.exts[i] # Tex
  PROVE  StaysSession(s, HandlePayload(s, msg), lists)
<1>1. StaysSession(s, Error(s), lists) /\ StaysSession(s, Panic(s), lists)
  BY DEF Error, Panic, StaysSession, IsSession, Sessions
<1>2. CASE msg.type = "handshake"
  <2> DEFINE a == Merged(s, msg)
             b == Introduce(a, 1, msg)
             c == Introduce(b, 2, msg)
  <2>0. HandlePayload(s, msg) = Error(s) \/ HandlePayload(s, msg) = Handshake(s, msg)
    BY <1>2 DEF HandlePayload
  <2>1. StaysSession(s, a, lists)
    BY <1>2, MergedSession
  <2>2. 1 \in DOMAIN s.exts /\ (Len(s.exts) = 2 => 2 \in DOMAIN s.exts)
    BY DEF IsSession, Sessions
  <2> HIDE DEF a
  <2>3. StaysSession(a, b, lists)
    BY <1>2, <2>1, <2>2, IntroduceSession DEF StaysSession
  <2> HIDE DEF b
  <2>4. Len(s.exts) = 2 => StaysSession(b, c, lists)
    BY <1>2, <2>1, <2>2, <2>3, IntroduceSession DEF StaysSession
  <2> USE DEF a, b
  <2>5. CASE Len(s.exts) = 1
    <3>1. s.exts = <<s.exts[1]>>
      BY <2>5 DEF IsSession, Sessions
    <3>2. Handshake(s, msg) = b
      BY <3>1, HandshakeOfOne
    <3> HIDE DEF a, b
    <3>3. StaysSession(s, b, lists)
      BY <2>1, <2>3 DEF StaysSession
    <3> QED BY <1>1, <2>0, <3>2, <3>3
  <2>6. CASE Len(s.exts) = 2
    <3>1. s.exts = <<s.exts[1], s.exts[2]>>
      BY <2>6 DEF IsSession, Sessions
    <3>2. Handshake(s, msg) = c
      BY <3>1, HandshakeOfTwo
    <3> HIDE DEF a, b, c
    <3>3. StaysSession(s, c, lists)
      BY <2>1, <2>3, <2>4, <2>6 DEF StaysSession
    <3> QED BY <1>1, <2>0, <3>2, <3>3
  <2> QED BY <2>5, <2>6
<1>3. CASE msg.type = "ext"
  BY <1>3, DispatchSession DEF HandlePayload
<1> QED BY <1>1, <1>2, <1>3 DEF HandlePayload, IsMessage

------------------------------------------------------------------------------
(* A round of a handshake panics on an extension that was removed, or on a *)
(* metadata_size for which there can be no slice.                          *)
LEMMA IntroducePanics ==
  ASSUME NEW lists, NEW s \in Sessions(lists), NEW i \in DOMAIN s.exts, NEW hs, s.status # "panic",
         Introduce(s, i, hs).status = "panic"
  PROVE  s.exts[i] = Nil \/ (hs.size # Nil /\ hs.size > MaxSize)
<1> SUFFICES ASSUME s.status = "ok", s.exts[i] # Nil PROVE hs.size # Nil /\ hs.size > MaxSize
  BY DEF Introduce
<1>1. Unsupport(s, i).status = "ok"
  <2> DEFINE more == (s.more /\ s.exts[i] # Tex)
             exts == ReplaceAt(s.exts, i, Nil)
             supports == s.supports \ {s.exts[i]}
  <2>1. Unsupport(s, i) = [s EXCEPT !.supports = supports, !.more = more, !.exts = exts]
    BY DEF Unsupport
  <2> HIDE DEF more, exts, supports
  <2> QED BY <2>1 DEF Sessions
<1>2. TexAfterHandshake(s, hs).status = "ok"
  BY DEF TexAfterHandshake, Sessions
<1>3. MetaAfterHandshake(s, hs).status = "panic"
  BY <1>1, <1>2 DEF Introduce
<1> QED BY <1>3 DEF MetaAfterHandshake, Error, Sessions

(* Only a Poisonous payload makes HandlePayload panic. *)
LEMMA OnlyPoisonPanics ==
  ASSUME NEW lists, NEW s, IsSession(s, lists), s.status = "ok", Len(s.exts) \in {1, 2},
         NEW msg, IsMessage(msg), HandlePayload(s, msg).status = "panic"
  PROVE  Poisonous(s, msg)
<1>0. s \in Sessions(lists) /\ s.exts \in Seq(Keys \cup {Nil})
  BY DEF IsSession, Sessions
<1>1. Error(s).status = "error"
  BY <1>0 DEF Error, Sessions
<1>2. CASE msg.type = "empty"
  BY <1>2 DEF Poisonous
<1>3. CASE msg.type = "garbage"
  BY <1>1, <1>3 DEF HandlePayload
<1>4. CASE msg.type = "ext"
  <2>1. TexHandle(s, msg.body).status # "panic"
    BY <1>0, <1>1 DEF TexHandle, Sessions
  <2>2. MetaHandle(s, msg.body).status = "panic" =>
          msg.body.kind = "data" /\ msg.body.piece \notin 0..(Len(s.pieces) - 1)
    BY <1>0, <1>1 DEF MetaHandle, Sessions
  <2> QED BY <1>1, <1>4, <2>1, <2>2 DEF HandlePayload, Dispatch, Poisonous
<1>5. CASE msg.type = "handshake"
  <2> DEFINE a == Merged(s, msg)
             b == Introduce(a, 1, msg)
             c == Introduce(b, 2, msg)
  <2>1. Handshake(s, msg).status = "panic"
    BY <1>1, <1>5 DEF HandlePayload
  <2>2. StaysSession(s, a, lists) /\ a.exts = s.exts /\ a.status = "ok"
    <3>1. StaysSession(s, a, lists)
      BY <1>5, MergedSession
    <3>2. a.exts = s.exts /\ a.status = "ok"
      BY <1>0 DEF Merged, Sessions
    <3> QED BY <3>1, <3>2
  <2>3. a \in Sessions(lists) /\ 1 \in DOMAIN a.exts /\ (Len(s.exts) = 2 => 2 \in DOMAIN a.exts)
    BY <1>0, <2>2 DEF StaysSession, IsSession
  <2> HIDE DEF a
  <2>4. StaysSession(a, b, lists)
    BY <1>5, <2>2, <2>3, IntroduceSession DEF StaysSession
  <2>5. 2 \in DOMAIN s.exts /\ b.status = "ok" /\ b.exts[2] = Nil => s.exts[2] = Nil \/ Nil \in Range(s.exts)
    <3>1. b.exts = a.exts \/ b.exts = ReplaceAt(a.exts, 1, Nil)
      <4> DEFINE more == (a.more /\ a.exts[1] # Tex)
                 exts == ReplaceAt(a.exts, 1, Nil)
                 supports == a.supports \ {a.exts[1]}
      <4>1. Unsupport(a, 1) = [a EXCEPT !.supports = supports, !.more = more, !.exts = exts]
        BY DEF Unsupport
      <4>2. Unsupport(a, 1).exts = exts
        <5> HIDE DEF more, exts, supports
        <5> QED BY <2>3, <4>1 DEF Sessions
      <4>3. /\ Panic(a).exts = a.exts /\ TexAfterHandshake(a, msg).exts = a.exts
            /\ MetaAfterHandshake(a, msg).exts = a.exts
        BY <2>3 DEF Panic, Error, TexAfterHandshake, MetaAfterHandshake, Sessions
      <4> HIDE DEF exts
      <4> QED BY <4>2, <4>3 DEF Introduce, exts
    <3> QED BY <1>0, <2>2, <3>1 DEF ReplaceAt
  <2>6. s.exts[1] = Nil => Nil \in Range(s.exts)
    BY <1>0 DEF Range
  <2>7. b.status = "panic" => Poisonous(s, msg)
    BY <1>5, <2>2, <2>3, <2>6, IntroducePanics DEF Poisonous
  <2> HIDE DEF b
  <2>8. CASE Len(s.exts) = 1
    <3>1. s.exts = <<s.exts[1]>>
      BY <1>0, <2>8
    <3>2. Handshake(s, msg) = b
      BY <3>1, HandshakeOfOne DEF a, b
    <3> QED BY <2>1, <2>7, <3>2
  <2>9. CASE Len(s.exts) = 2
    <3>1. s.exts = <<s.exts[1], s.exts[2]>>
      BY <1>0, <2>9
    <3>2. Handshake(s, msg) = c
      BY <3>1, HandshakeOfTwo DEF a, b
    <3>3. b \in Sessions(lists) /\ 2 \in DOMAIN b.exts /\ 2 \in DOMAIN s.exts
      BY <2>2, <2>3, <2>4, <2>9 DEF StaysSession, IsSession
    <3>4. b.status # "panic" => b.exts[2] = Nil \/ (msg.size # Nil /\ msg.size > MaxSize)
      BY <2>1, <3>2, <3>3, IntroducePanics
    <3>5. b.status # "ok" => c = b
      BY DEF Introduce
    <3>6. 2 \in DOMAIN s.exts /\ s.exts[2] = Nil => Nil \in Range(s.exts)
      BY DEF Range
    <3> HIDE DEF c
    <3> QED BY <1>5, <2>1, <2>5, <2>7, <3>2, <3>3, <3>4, <3>5, <3>6 DEF Poisonous
  <2> QED BY <2>8, <2>9
<1> QED BY <1>2, <1>3, <1>4, <1>5 DEF IsMessage

------------------------------------------------------------------------------
(* A property of the numbers that has a counterexample has a least one. *)
LEMMA LeastOf ==
  ASSUME NEW T, T \subseteq Nat, T # {}
  PROVE  \E x \in T : \A y \in T : x <= y
<1> DEFINE R == OpToRel(<, Nat)
<1>1. IsWellFoundedOn(R, Nat)
  BY NatLessThanWellFounded
<1>2. \A x, y \in Nat : y < x => <<y, x>> \in R
  BY DEF OpToRel
<1> HIDE DEF R
<1>3. PICK x \in T : \A y \in T : ~(<<y, x>> \in R)
  BY <1>1, WFMin
<1>4. \A n, m \in Nat : ~(m < n) => n <= m
  OBVIOUS
<1>5. \A y \in T : x <= y
  BY <1>2, <1>3, <1>4, Zenon
<1> QED BY <1>5

(* What FlattenSeq makes of a sequence of sequences is h's last value if h *)
(* is made of the first one and goes from each to the next.                *)
LEMMA FlattenIs ==
  ASSUME NEW S, NEW p \in Seq(S), Len(p) > 0, NEW h, h = [i \in 1..Len(p) |-> h[i]],
         h[1] = p[1], \A i \in 2..Len(p) : h[i] = h[i - 1] \o p[i]
  PROVE  FlattenSeq(p) = h[Len(p)]
<1> DEFINE D == 1..Len(p)
           Round(f) == [i \in D |-> IF i = 1 THEN p[i] ELSE f[i - 1] \o p[i]]
           g == CHOOSE f : f = Round(f)
<1>1. FlattenSeq(p) = g[Len(p)]
  BY DEF FlattenSeq
<1>2. h = Round(h)
  <2> SUFFICES ASSUME NEW i \in D PROVE h[i] = Round(h)[i]
    OBVIOUS
  <2>1. i # 1 => i \in 2..Len(p)
    OBVIOUS
  <2> QED BY <2>1
<1>3. g = Round(g)
  BY <1>2
<1>4. Len(p) \in Nat
  OBVIOUS
<1> HIDE DEF g
<1> DEFINE T == {i \in D : g[i] # h[i]}
<1>5. ASSUME T # {} PROVE FALSE
  <2>0. T \subseteq Nat
    BY <1>4
  <2>1. PICK x \in T : \A y \in T : x <= y
    <3> HIDE DEF T
    <3> QED BY <1>5, <2>0, LeastOf
  <2>2. x \in D /\ g[x] # h[x]
    OBVIOUS
  <2>3. x # 1
    BY <1>3, <2>2
  <2>4. x - 1 \in D /\ ~(x <= x - 1)
    BY <1>4, <2>2, <2>3
  <2>5. g[x - 1] = h[x - 1]
    BY <2>1, <2>4
  <2>6. g[x] = g[x - 1] \o p[x]
    BY <1>3, <2>2, <2>3
  <2>7. h[x] = h[x - 1] \o p[x]
    BY <1>2, <2>2, <2>3
  <2> QED BY <2>2, <2>5, <2>6, <2>7
<1>6. Len(p) \in D
  BY <1>4
<1> QED BY <1>1, <1>5, <1>6

(* The pieces cover the metadata: the last one begins before its end. *)
LEMMA PiecesCover ==
  LET n == GetPiecesNum(Len(TrueMeta))
  IN  /\ n \in Nat \ {0}
      /\ (n - 1) * PieceSize < Len(TrueMeta)
      /\ Len(TrueMeta) <= n * PieceSize
<1> DEFINE L == Len(TrueMeta)
           q == L \div PieceSize
           r == L % PieceSize
<1>1. L \in Nat \ {0} /\ PieceSize \in Nat \ {0}
  BY ProtocolAssumption
<1> HIDE DEF L
<1>2. q \in Nat /\ r \in 0..(PieceSize - 1) /\ L = q * PieceSize + r
  BY <1>1
<1>3. GetPiecesNum(L) = IF r # 0 THEN q + 1 ELSE q
  BY DEF GetPiecesNum
<1> HIDE DEF q, r
<1>4. r = 0 => q # 0
  BY <1>1, <1>2
<1>5. (q + 1) * PieceSize = q * PieceSize + PieceSize /\ (q - 1) * PieceSize = q * PieceSize - PieceSize
  BY <1>1, <1>2
<1>6. q * PieceSize \in Nat
  BY <1>1, <1>2
<1>7. CASE r # 0
  BY <1>1, <1>2, <1>3, <1>5, <1>6, <1>7 DEF L
<1>8. CASE r = 0
  BY <1>1, <1>2, <1>3, <1>4, <1>5, <1>6, <1>8 DEF L
<1> QED BY <1>7, <1>8

(* Where piece no ends. *)
Cut(i) == IF i * PieceSize < Len(TrueMeta) THEN i * PieceSize ELSE Len(TrueMeta)

(* The pieces' ends lie within the metadata, the last at its end.          *)
LEMMA CutAt ==
  LET n == GetPiecesNum(Len(TrueMeta))
  IN  /\ Cut(n) = Len(TrueMeta)
      /\ \A i \in 1..n : /\ Cut(i) \in 1..Len(TrueMeta)
                         /\ (i - 1) * PieceSize \in 0..(Cut(i) - 1)
                         /\ i # 1 => Cut(i - 1) = (i - 1) * PieceSize
<1> DEFINE n == GetPiecesNum(Len(TrueMeta))
           L == Len(TrueMeta)
<1>1. n \in Nat \ {0} /\ (n - 1) * PieceSize < L /\ L <= n * PieceSize
  BY PiecesCover
<1>2. L \in Nat \ {0} /\ PieceSize \in Nat \ {0}
  BY ProtocolAssumption
<1> HIDE DEF n, L
<1>3. n * PieceSize \in Nat
  BY <1>1, <1>2
<1>4. Cut(n) = L
  BY <1>1, <1>2, <1>3 DEF Cut, L
<1>5. ASSUME NEW i \in 1..n
      PROVE  /\ Cut(i) \in 1..L
             /\ (i - 1) * PieceSize \in 0..(Cut(i) - 1)
             /\ i # 1 => Cut(i - 1) = (i - 1) * PieceSize
  <2>1. PICK k \in Nat : k = n - i
    BY <1>1
  <2>2. (n - 1) * PieceSize = (i - 1) * PieceSize + k * PieceSize
    BY <1>1, <1>2, <2>1
  <2>3. k * PieceSize \in Nat /\ (i - 1) * PieceSize \in Nat /\ i * PieceSize \in Nat
    BY <1>2, <2>1
  <2>4. i * PieceSize = (i - 1) * PieceSize + PieceSize
    BY <1>2
  <2>5. (i - 1) * PieceSize < L
    BY <1>1, <1>2, <2>2, <2>3
  <2>6. Cut(i) = (IF i * PieceSize < L THEN i * PieceSize ELSE L)
    BY DEF Cut, L
  <2>7. Cut(i - 1) = (i - 1) * PieceSize
    BY <2>5 DEF Cut, L
  <2>8. Cut(i) \in 1..L /\ (i - 1) * PieceSize < Cut(i)
    BY <1>2, <2>3, <2>4, <2>5, <2>6
  <2> QED BY <2>3, <2>7, <2>8
<1> QED BY <1>4, <1>5 DEF n, L

(* A true piece is not empty: it is never taken for a missing one. *)
LEMMA TruePieceSome ==
  \A no \in 0..(GetPiecesNum(Len(TrueMeta)) - 1) : TruePiece(no) \in Seq(Int) /\ TruePiece(no) # <<>>
<1> SUFFICES ASSUME NEW no \in 0..(GetPiecesNum(Len(TrueMeta)) - 1)
             PROVE  TruePiece(no) \in Seq(Int) /\ TruePiece(no) # <<>>
  OBVIOUS
<1> DEFINE i == no + 1
<1>1. i \in 1..GetPiecesNum(Len(TrueMeta)) /\ i - 1 = no
  BY PiecesCover
<1>2. Cut(i) \in 1..Len(TrueMeta) /\ (i - 1) * PieceSize \in 0..(Cut(i) - 1)
  BY <1>1, CutAt
<1>3. TruePiece(no) = SubSeq(TrueMeta, no * PieceSize + 1, Cut(i))
  BY DEF TruePiece, Cut
<1>4. PICK a \in Nat : a = no * PieceSize
  BY <1>1, <1>2
<1> HIDE DEF i
<1>5. a \in 0..(Cut(i) - 1)
  BY <1>1, <1>2, <1>4
<1>6. TrueMeta \in Seq(Int)
  BY ProtocolAssumption
<1>7. SubSeq(TrueMeta, a + 1, Cut(i)) \in Seq(Int) /\ Len(SubSeq(TrueMeta, a + 1, Cut(i))) > 0
  BY <1>2, <1>5, <1>6
<1>8. \A e \in Seq(Int) : Len(e) > 0 => e # <<>>
  OBVIOUS
<1>9. TruePiece(no) = SubSeq(TrueMeta, a + 1, Cut(i))
  BY <1>3, <1>4
<1> QED BY <1>7, <1>8, <1>9, Zenon

(* The true pieces, all of them and in their order, are the metadata. *)
LEMMA JoinedTruePieces ==
  ASSUME NEW p \in Seq(Seq(Int)), Len(p) = GetPiecesNum(Len(TrueMeta)),
         \A i \in 1..Len(p) : p[i] = TruePiece(i - 1)
  PROVE  FlattenSeq(p) = TrueMeta
<1> DEFINE h == [i \in 1..Len(p) |-> SubSeq(TrueMeta, 1, Cut(i))]
<1>1. Len(p) \in Nat \ {0} /\ TrueMeta \in Seq(Int)
  BY PiecesCover, ProtocolAssumption
<1>2. \A i \in 1..Len(p) : p[i] = SubSeq(TrueMeta, (i - 1) * PieceSize + 1, Cut(i))
  <2> SUFFICES ASSUME NEW i \in 1..Len(p)
               PROVE  TruePiece(i - 1) = SubSeq(TrueMeta, (i - 1) * PieceSize + 1, Cut(i))
    OBVIOUS
  <2>1. (i - 1) + 1 = i
    OBVIOUS
  <2> QED BY <2>1 DEF TruePiece, Cut
<1>3. \A i \in 1..Len(p) : Cut(i) \in 1..Len(TrueMeta)
  BY CutAt
<1>4. h[1] = p[1]
  <2>1. (1 - 1) * PieceSize + 1 = 1
    BY ProtocolAssumption
  <2>2. 1 \in 1..Len(p)
    BY <1>1
  <2>3. p[1] = SubSeq(TrueMeta, (1 - 1) * PieceSize + 1, Cut(1))
    BY <1>2, <2>2
  <2> QED BY <2>1, <2>2, <2>3, Zenon
<1>5. ASSUME NEW i \in 2..Len(p) PROVE h[i] = h[i - 1] \o p[i]
  <2>1. i \in 1..Len(p) /\ i - 1 \in 1..Len(p) /\ i # 1
    BY <1>1
  <2>2. PICK a \in Nat : a = (i - 1) * PieceSize
    BY <2>1, CutAt
  <2>3. Cut(i - 1) = a /\ a \in 0..(Cut(i) - 1) /\ Cut(i) \in 1..Len(TrueMeta)
    BY <2>1, <2>2, CutAt
  <2>4. 1 \in 1..Len(TrueMeta) + 1 /\ a \in 1 - 1..Len(TrueMeta) /\ Cut(i) \in a..Len(TrueMeta)
    BY <1>1, <2>2, <2>3
  <2>5. SubSeq(TrueMeta, 1, a) \o SubSeq(TrueMeta, a + 1, Cut(i)) = SubSeq(TrueMeta, 1, Cut(i))
    BY <1>1, <2>4, ConcatAdjacentSubSeq
  <2> QED BY <1>2, <2>1, <2>2, <2>3, <2>5
<1>6. h[Len(p)] = TrueMeta
  <2>1. h[Len(p)] = SubSeq(TrueMeta, 1, Len(TrueMeta))
    BY <1>1, CutAt
  <2> QED BY <1>1, <2>1, SubSeqFull
<1>7. h = [i \in 1..Len(p) |-> h[i]]
  BY Zenon
<1>8. Len(p) > 0
  BY <1>1
<1> HIDE DEF h
<1> QED BY <1>4, <1>5, <1>6, <1>7, <1>8, FlattenIs

------------------------------------------------------------------------------
(* The download from a peer that answers with the true pieces: one after   *)
(* the other is asked for, and each is the true one or still missing.      *)
Collecting(s) ==
  /\ s.pieces \in Seq(Seq(Int))
  /\ Len(s.pieces) = GetPiecesNum(Len(TrueMeta))
  /\ s.next \in 0..Len(s.pieces)
  /\ s.asked = 0..(s.next - 1)
  /\ \A i \in DOMAIN s.pieces : s.pieces[i] \in {<<>>, TruePiece(i - 1)}

(* Once no piece is missing the hash of what FetchRawMeta joins is right. *)
LEMMA CollectedMatches ==
  ASSUME NEW s, Collecting(s), CheckDone(s)
  PROVE  HashMatches(s)
<1>1. DOMAIN s.pieces = 1..Len(s.pieces)
  BY DEF Collecting
<1>2. \A i \in 1..Len(s.pieces) : s.pieces[i] = TruePiece(i - 1)
  BY <1>1 DEF Collecting, CheckDone
<1> QED BY <1>2, JoinedTruePieces DEF HashMatches, Joined, Collecting

(* Until then some piece that was asked for has not come. *)
LEMMA CollectingWaits ==
  ASSUME NEW s, Collecting(s), ~Requesting(s), ~CheckDone(s)
  PROVE  \E no \in s.asked : s.pieces[no + 1] = <<>>
<1>1. PICK i \in DOMAIN s.pieces : s.pieces[i] = <<>>
  BY DEF CheckDone
<1>2. Len(s.pieces) \in Nat /\ DOMAIN s.pieces = 1..Len(s.pieces)
  BY DEF Collecting
<1>3. i - 1 \in 0..(Len(s.pieces) - 1) /\ (i - 1) + 1 = i
  BY <1>1, <1>2
<1>4. s.next = Len(s.pieces)
  BY <1>2 DEF Collecting, Requesting
<1> QED BY <1>1, <1>3, <1>4 DEF Collecting

(* Asking for the next piece is part of it. *)
LEMMA CollectingAsks ==
  ASSUME NEW lists, NEW s \in Sessions(lists), Collecting(s), Requesting(s)
  PROVE  LET t == Request(s)
         IN  /\ Collecting(t) /\ (CheckDone(t) <=> CheckDone(s))
             /\ t.supports = s.supports /\ t.exts = s.exts /\ t.met = s.met
             /\ t.more = s.more /\ t.trlist = s.trlist /\ t.status = s.status
<1> DEFINE t == Request(s)
           next == s.next + 1
           asked == s.asked \cup {s.next}
<1>1. t = [s EXCEPT !.asked = asked, !.next = next]
  BY DEF Request
<1>2. next \in 0..Len(s.pieces) /\ asked = 0..(next - 1)
  BY DEF Collecting, Requesting
<1> HIDE DEF next, asked, t
<1>3. /\ t.next = next /\ t.asked = asked /\ t.pieces = s.pieces
      /\ t.supports = s.supports /\ t.exts = s.exts /\ t.met = s.met
      /\ t.more = s.more /\ t.trlist = s.trlist /\ t.status = s.status
  BY <1>1 DEF Sessions
<1>4. Collecting(t)
  BY <1>2, <1>3 DEF Collecting
<1> QED BY <1>3, <1>4 DEF t, CheckDone

(* A handshake with the true size starts the download. *)
LEMMA CollectingStarts ==
  ASSUME NEW lists, NEW s \in Sessions(lists), NEW hs, hs.size = Len(TrueMeta)
  PROVE  LET t == MetaAfterHandshake(s, hs)
         IN  /\ Collecting(t) /\ ~CheckDone(t)
             /\ t.supports = s.supports \cup {Meta}
             /\ t.exts = s.exts /\ t.ids = s.ids /\ t.met = s.met /\ t.more = s.more
             /\ t.trlist = s.trlist /\ t.status = s.status
<1> DEFINE t == MetaAfterHandshake(s, hs)
           n == GetPiecesNum(Len(TrueMeta))
           pieces == [i \in 1..n |-> <<>>]
           supports == s.supports \cup {Meta}
<1>1. n \in Nat \ {0}
  BY PiecesCover
<1>2. Len(TrueMeta) \in Nat \ {0} /\ ~(Len(TrueMeta) <= 0) /\ ~(Len(TrueMeta) > MaxSize)
  BY ProtocolAssumption
<1>3. hs.size # Nil
  BY <1>2, ProtocolAssumption
<1>4. t = [s EXCEPT !.supports = supports, !.pieces = pieces, !.next = 0, !.asked = {}]
  BY <1>2, <1>3 DEF MetaAfterHandshake
<1> HIDE DEF t, n
<1>5. pieces \in Seq(Seq(Int)) /\ Len(pieces) = n /\ 1 \in DOMAIN pieces
  BY <1>1
<1>6. \A i \in DOMAIN pieces : pieces[i] = <<>>
  OBVIOUS
<1> HIDE DEF pieces, supports
<1>7. /\ t.pieces = pieces /\ t.next = 0 /\ t.asked = {} /\ t.supports = supports
      /\ t.exts = s.exts /\ t.ids = s.ids /\ t.met = s.met /\ t.more = s.more
      /\ t.trlist = s.trlist /\ t.status = s.status
  BY <1>4 DEF Sessions
<1>8. Collecting(t)
  BY <1>1, <1>5, <1>6, <1>7 DEF Collecting, n
<1>9. ~CheckDone(t)
  BY <1>5, <1>6, <1>7 DEF CheckDone
<1> QED BY <1>7, <1>8, <1>9 DEF t, supports

(* A true piece that was asked for is collected. *)
LEMMA CollectingGoesOn ==
  ASSUME NEW lists, NEW s \in Sessions(lists), Collecting(s), NEW no \in s.asked,
         NEW body, body.kind = "data", body.piece = no, body.bytes = TruePiece(no)
  PROVE  LET t == MetaHandle(s, body)
         IN  /\ Collecting(t)
             /\ t.supports = s.supports /\ t.exts = s.exts /\ t.ids = s.ids /\ t.met = s.met
             /\ t.more = s.more /\ t.trlist = s.trlist /\ t.status = s.status
<1> DEFINE t == MetaHandle(s, body)
           pieces == [s.pieces EXCEPT ![no + 1] = TruePiece(no)]
<1>1. no \in 0..(Len(s.pieces) - 1) /\ Len(s.pieces) = GetPiecesNum(Len(TrueMeta))
  BY DEF Collecting
<1>2. t = [s EXCEPT !.pieces = pieces]
  BY <1>1 DEF MetaHandle, Sessions
<1>3. TruePiece(no) \in Seq(Int)
  BY <1>1, TruePieceSome
<1>4. s.pieces \in Seq(Seq(Int)) /\ no + 1 \in DOMAIN s.pieces /\ (no + 1) - 1 = no
  BY <1>1 DEF Collecting
<1>5. pieces \in Seq(Seq(Int)) /\ Len(pieces) = Len(s.pieces) /\ DOMAIN pieces = DOMAIN s.pieces
  BY <1>3, <1>4
<1>6. \A i \in DOMAIN pieces : pieces[i] \in {<<>>, TruePiece(i - 1)}
  <2> SUFFICES ASSUME NEW i \in DOMAIN s.pieces PROVE pieces[i] \in {<<>>, TruePiece(i - 1)}
    BY <1>5
  <2>1. CASE i = no + 1
    BY <1>4, <2>1
  <2>2. CASE i # no + 1
    BY <2>2 DEF Collecting
  <2> QED BY <2>1, <2>2
<1> HIDE DEF t, pieces
<1>7. /\ t.pieces = pieces /\ t.asked = s.asked /\ t.next = s.next /\ t.supports = s.supports
      /\ t.exts = s.exts /\ t.ids = s.ids /\ t.met = s.met /\ t.more = s.more
      /\ t.trlist = s.trlist /\ t.status = s.status
  BY <1>2 DEF Sessions
<1>8. Collecting(t)
  BY <1>5, <1>6, <1>7 DEF Collecting
<1> QED BY <1>7, <1>8 DEF t
==============================================================================
