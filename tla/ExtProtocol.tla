---------------------------- MODULE ExtProtocol ----------------------------
(***************************************************************************)
(* bt/extension.go, bt/fetchmeta.go and bt/tex.go: the extension protocol  *)
(* of one peer connection and the two extensions that are registered with  *)
(* it, FetchMetaExt ("ut_metadata") and TexExtension ("lt_tex").           *)
(*                                                                         *)
(* A session is a record that ExtProtocol, FetchMetaExt, TexExtension and  *)
(* their ExtMsgSender share:                                               *)
(*   exts      proto.exts; an extension the peer lacks is replaced by Nil  *)
(*   ids       proto.m for our two extensions, 0 when it has no entry      *)
(*   met       proto.m is not empty                                        *)
(*   supports  the extensions whose support flag is set                    *)
(*   pieces    FetchMetaExt.pieces, the empty sequence for a missing piece *)
(*   more      TexExtension.more                                           *)
(*   trlist    TexExtension.trlist                                         *)
(*   next      the piece whose request AfterHandshake writes next          *)
(*   asked     the pieces requested since the last handshake               *)
(*   status    "ok", or what HandlePayload has come to: "error", "panic"   *)
(* The operators below take a session and return the next one.             *)
(***************************************************************************)
EXTENDS Integers, Sequences, SequencesExt

CONSTANTS
  Nil,
  PieceSize, \* maxPieceSize, in the units of this model's bytes
  MaxSize,   \* the largest metadata_size whose slice of pieces can be made
  TrueMeta   \* the metadata whose SHA-1 is the info hash: a sequence of bytes

Meta == "ut_metadata"
Tex == "lt_tex"
Keys == {Meta, Tex}

ASSUME ProtocolAssumption ==
  /\ Nil \notin Keys /\ Nil \notin Int
  /\ PieceSize \in Nat \ {0}
  /\ TrueMeta \in Seq(Int) /\ TrueMeta # <<>>
  /\ MaxSize \in Nat /\ Len(TrueMeta) <= MaxSize

(* A fresh ExtProtocol with its extensions registered. *)
NewSession(exts, trlist) ==
  [ exts |-> exts, ids |-> [k \in Keys |-> 0], met |-> FALSE, supports |-> {},
    pieces |-> <<>>, more |-> FALSE, trlist |-> trlist, next |-> 0, asked |-> {}, status |-> "ok" ]

(* What a session is made of, and what its flags say of it. *)
Sessions(lists) ==
  [ exts : Seq(Keys \cup {Nil}), ids : [Keys -> 0..255], met : BOOLEAN, supports : SUBSET Keys,
    pieces : Seq(Seq(Int)), more : BOOLEAN, trlist : lists, next : Nat, asked : SUBSET Nat,
    status : {"ok", "error", "panic"} ]

IsSession(s, lists) ==
  /\ s \in Sessions(lists)
  /\ s.next <= Len(s.pieces)
  /\ s.asked \subseteq 0..(s.next - 1)
  /\ s.met \/ s.ids = [k \in Keys |-> 0]

(* What a payload is decoded to: nothing, a handshake or a message for the *)
(* extension with an id.  A peer chooses every number in it.               *)
IsMessage(msg) ==
  /\ msg.type \in {"empty", "garbage", "handshake", "ext"}
  /\ msg.type = "handshake" =>
       /\ \A k \in DOMAIN msg.m : msg.m[k] \in Int
       /\ msg.size \in Int \cup {Nil}
  /\ msg.type = "ext" =>
       /\ msg.id \in 1..255
       /\ msg.body.kind = "data" => msg.body.piece \in Int /\ msg.body.bytes \in Seq(Int)

Error(s) == [s EXCEPT !.status = "error"]
Panic(s) == [s EXCEPT !.status = "panic"]

------------------------------------------------------------------------------
(* Mutant: a last piece that is not full is not counted. *)
GetPiecesNumFloor(size) == size \div PieceSize

(* getPiecesNum *)
GetPiecesNum(size) ==
  IF size % PieceSize # 0 THEN size \div PieceSize + 1 ELSE size \div PieceSize

(* Mutant: a size that is not positive is taken, too. *)
MetaAfterHandshakeAnySize(s, hs) ==
  LET t == [s EXCEPT !.supports = @ \cup {Meta}]
      n == GetPiecesNum(hs.size)
  IN  IF hs.size = Nil THEN Error(t)
      ELSE IF hs.size > MaxSize THEN Panic(t)
      ELSE [t EXCEPT !.pieces = [i \in 1..n |-> <<>>], !.next = 0, !.asked = {}]

(* FetchMetaExt.AfterHandshake up to its loop: all pieces are forgotten,   *)
(* those of a size that the peer chose too large for make included.  The   *)
(* loop writes the requests; both callers register this extension last, so *)
(* that nothing else of HandlePayload comes after it.                      *)
MetaAfterHandshake(s, hs) ==
  LET t == [s EXCEPT !.supports = @ \cup {Meta}]
      n == GetPiecesNum(hs.size)
  IN  IF hs.size = Nil THEN Error(t)
      ELSE IF hs.size <= 0 THEN Error(t)
      ELSE IF hs.size > MaxSize THEN Panic(t)
      ELSE [t EXCEPT !.pieces = [i \in 1..n |-> <<>>], !.next = 0, !.asked = {}]

(* The loop of AfterHandshake, one request a round.  WriteExtensionMessage *)
(* swallows the error of the length, so that a request may also be lost.   *)
Requesting(s) == s.next < Len(s.pieces)
Request(s) == [s EXCEPT !.asked = @ \cup {s.next}, !.next = @ + 1]
LoseRequest(s) == [s EXCEPT !.next = @ + 1]

AllAsked(s) == s.asked = 0..(Len(s.pieces) - 1)

(* TexExtension.AfterHandshake: the peer has trackers if its hash of them  *)
(* is there and is not that of the empty list.                             *)
TexAfterHandshake(s, hs) ==
  [s EXCEPT !.supports = @ \cup {Tex}, !.more = (hs.tr = "some")]

(* Unsupport; and the extension is never called again. *)
Unsupport(s, i) ==
  LET k == s.exts[i]
  IN  [s EXCEPT !.supports = @ \ {k},
                !.more = @ /\ k # Tex,
                !.exts = ReplaceAt(@, i, Nil)]

(* One round of the loop over proto.exts, which an error ends and in which *)
(* a call on a removed extension panics.                                   *)
Introduce(s, i, hs) ==
  IF s.status # "ok" THEN s
  ELSE IF s.exts[i] = Nil THEN Panic(s)
  ELSE IF s.ids[s.exts[i]] = 0 THEN Unsupport(s, i)
  ELSE IF s.exts[i] = Meta THEN MetaAfterHandshake(s, hs) ELSE TexAfterHandshake(s, hs)

(* The m of a handshake is decoded into proto.m: entries that the message  *)
(* does not name keep their value, and numbers are cut to a byte.          *)
Merged(s, hs) ==
  [s EXCEPT !.ids = [k \in Keys |-> IF k \in DOMAIN hs.m THEN hs.m[k] % 256 ELSE @[k]],
            !.met = @ \/ DOMAIN hs.m # {}]

Handshake(s, hs) ==
  FoldLeftDomain(LAMBDA t, i : Introduce(t, i, hs), Merged(s, hs), s.exts)

------------------------------------------------------------------------------
(* FetchMetaExt.HandleMessage.  A dictionary with anything but numbers in  *)
(* it does not decode; a message that is neither a rejection nor data is   *)
(* ignored; data are kept under the number they come with.                 *)
MetaHandle(s, body) ==
  IF body.kind \in {"garbage", "added"} THEN Error(s)
  ELSE IF body.kind = "reject" THEN Error(s)
  ELSE IF body.kind # "data" THEN s
  ELSE IF body.piece \notin 0..(Len(s.pieces) - 1) THEN Panic(s)
  ELSE [s EXCEPT !.pieces[body.piece + 1] = body.bytes]

(* Mutant: the trackers of the peer are added to the ones we have. *)
TexHandleAppends(s, body) ==
  IF body.kind = "garbage" THEN Error(s)
  ELSE [s EXCEPT !.more = FALSE,
                 !.trlist = IF body.kind = "added" THEN @ \o body.added ELSE @]

(* TexExtension.HandleMessage; a dictionary without "added" decodes, too. *)
TexHandle(s, body) ==
  IF body.kind = "garbage" THEN Error(s)
  ELSE [s EXCEPT !.more = FALSE,
                 !.trlist = IF body.kind = "added" THEN body.added ELSE <<>>]

Dispatch(s, id, body) ==
  IF ~s.met THEN Error(s)
  ELSE IF id > Len(s.exts) THEN Error(s)
  ELSE IF s.exts[id] = Nil THEN Error(s)
  ELSE IF s.exts[id] = Meta THEN MetaHandle(s, body) ELSE TexHandle(s, body)

(* ExtProtocol.HandlePayload: a payload is empty, undecodable, a handshake *)
(* (id 0) or a message for the extension that we gave that id.  A negative *)
(* id does not decode into proto.m, which is of bytes.                     *)
HandlePayload(s, msg) ==
  IF msg.type = "empty" THEN Panic(s)
  ELSE IF msg.type = "garbage" THEN Error(s)
  ELSE IF msg.type = "handshake" THEN
    IF \E k \in DOMAIN msg.m : msg.m[k] < 0 THEN Error(s) ELSE Handshake(s, msg)
  ELSE Dispatch(s, msg.id, msg.body)

(* The payloads that HandlePayload does not survive: none at all; a second *)
(* handshake once an extension was removed; a metadata_size without a      *)
(* slice; and a piece that is not one of the metadata's.                   *)
Poisonous(s, msg) ==
  \/ msg.type = "empty"
  \/ msg.type = "handshake" /\ Nil \in Range(s.exts)
  \/ msg.type = "handshake" /\ msg.size # Nil /\ msg.size > MaxSize
  \/ msg.type = "ext" /\ msg.body.kind = "data" /\ msg.body.piece \notin 0..(Len(s.pieces) - 1)

------------------------------------------------------------------------------
(* FetchMetaExt.CheckDone and FetchRawMeta *)
CheckDone(s) == \A i \in DOMAIN s.pieces : s.pieces[i] # <<>>

Joined(s) == FlattenSeq(s.pieces)

(* Mutant: the hash is not compared. *)
HashMatchesAlways(s) == TRUE

(* sha1.Sum(metadata) equals the info hash. *)
HashMatches(s) == Joined(s) = TrueMeta

(* What the peer that has TrueMeta answers to the request for piece no. *)
TruePiece(no) ==
  SubSeq(TrueMeta, no * PieceSize + 1,
         IF (no + 1) * PieceSize < Len(TrueMeta) THEN (no + 1) * PieceSize ELSE Len(TrueMeta))
==============================================================================
